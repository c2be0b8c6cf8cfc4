CONSTANTS
    Collector <- MCMacos
    Dev = {"a"}
    Begin = 100
    Cpus = 1
    Lossy = {}
    MaxEvents = 1
    Durations = {}
    Intervals = {}
    BusyMax = 1
    Loads <- MCSwap
SPECIFICATION Spec
INVARIANT PercentagesAddUp
