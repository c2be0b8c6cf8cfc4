CONSTANTS
    Thread <- MCThread
    Timeouts <- MCTimeouts
    Killable <- MCKillable
SPECIFICATION FairSpec
INVARIANT NoProcessLeft
INVARIANT VerdictFits
INVARIANT NoSignalAfterReap
PROPERTY ExecReturns
