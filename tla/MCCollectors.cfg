CONSTANTS
    Collector <- MCAll
    Dev = {"a", "b"}
    Begin = 2
    Cpus = 2
    Lossy <- MCLossy
    MaxEvents = 3
    Durations = {0, 1}
    Intervals = {0, 1}
    BusyMax = 1
    Loads <- MCLoads
SPECIFICATION Spec
INVARIANT DeltasWithinWindow
INVARIANT SamplesCoverTheRun
INVARIANT PercentagesFit
