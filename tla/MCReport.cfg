SPECIFICATION Spec
CONSTANTS
    Outputs <- MCOutputs
    ExitPolicies <- MCExitPolicies
    Builtins <- MCBuiltins
    UserDirs <- MCUserDirs
    ExtraRules <- MCExtraRules
    Patterns <- MCPatterns
    Place <- MCPlace
    Stored <- MCStored
    FirstResults <- MCFirstResults
    Collectors <- MCCollectors
    Earlier <- MCEarlier
    Cpus = 4
INVARIANTS
    ExitCodeFits
    FiresOnlyOnPresent
    EveryRuleAnswers
    OverviewFits
    ThresholdsFit
    BadRuleFileIsLocal
    DiffFits
