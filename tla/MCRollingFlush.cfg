CONSTANTS
    Writer <- MCWriter
    Reader <- MCNobody
    Window = 2
    InitFiles <- MCInitFiles
    Faults <- Flush
SPECIFICATION Spec
INVARIANT OkMeansAppended
