CONSTANTS
    Command <- MCCommand
    Kind <- MCKind
    Inputs <- MCInputs
    MaxParallel = 3
SPECIFICATION FairSpec
INVARIANT TypeOK
INVARIANT ResultsInOrder
PROPERTY ImplementsRunnerSpec
PROPERTY RunReturns
PROPERTY ThreadsEnd
