SPECIFICATION Spec
CONSTANTS
    Procs <- MCProcs
    Earlier <- MCEarlier
    Size <- MCSize
INVARIANTS
    LoadsAreWhole
    TornOnlyByOverlap
PROPERTY UnforcedSparesWhatItSaw
