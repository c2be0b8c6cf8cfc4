CONSTANTS
    Writer <- MCWriter
    Reader <- MCReader
    Window = 2
    InitFiles <- MCInitFiles
    Faults <- AllFaults
SPECIFICATION FairSpec
INVARIANT Chronological
PROPERTY ImplementsRollingLog
 
PROPERTY AppendEnds
