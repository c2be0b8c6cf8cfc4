CONSTANTS
    Command <- MCCommand
    Kind <- MCKind
    Inputs <- MCInputs
    MaxParallel = 2
    Timeouts <- MCTimeouts
    Killable <- MCKillable
SPECIFICATION PoolSpec
INVARIANT NoProcessBetweenChunks
PROPERTY ImplementsThreadRunner
