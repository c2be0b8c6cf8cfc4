SPECIFICATION Spec
CONSTANTS
    Outputs <- MCOneOutput
    ExitPolicies <- MCOnePolicy
    Builtins <- MCBuiltins
    UserDirs <- MCUserDirs
    ExtraRules <- MCExtraRules
    Patterns <- MCPatterns
    Place <- MCPlace
    Stored <- MCStored
    FirstResults <- MCFirstResults
    Collectors <- MCCollectors
    Earlier <- MCEarlier
    Cpus = 4
INVARIANT DeviationReported
