CONSTANTS
    Command <- MCCommand
    Kind <- MCKind
    Inputs <- MCInputs
    Request <- MCRequests
    Default = Default
    MaxParallel = 2
    Ask <- MCAsk
    BinaryOf <- MCBinaryOf
    EmitsOf <- MCEmitsOf
    Bpfcc <- MCBpfcc
    RuleIds <- MCRuleIds
    CollectorIds <- MCCollectorIds
    MaxChanges = 2
SPECIFICATION MainSpec
INVARIANT RunsComplete
INVARIANT RunsWhatWasAsked
INVARIANT NoSpinnerReplaced
INVARIANT InspectionFits
PROPERTY ReportGoesOn
PROPERTY BarStops
