SPECIFICATION Spec
CONSTANTS
    Malformed = Malformed
    Missing = Missing
    Junk = Junk
    Unlimited = Unlimited
    NoMatch = NoMatch
    NoNumber = NoNumber
    Infinite = Infinite
    Null = Null
    NoReport = NoReport
    Unsampled = Unsampled
    Addresses <- MCAddresses
    HashOf <- MCHashOf
    Remains <- MCRemains
    MaxExcerpt = 3
    Place <- MCPlace
    Whens <- MCWhens
    Files <- MCFiles
    Results <- MCResults
    Interrupts <- MCInterrupts
    Cgroups <- MCCgroups
    BpfHosts <- MCBpfHosts
    CpuHosts <- MCCpuHosts
    Logs <- MCLogs
    Machines <- MCMachines
    Histories <- MCHistories
    Conversions <- MCConversions
INVARIANTS
    RulesFit
    ExtractionFits
    ProbesFit
    TablesFit
    StatsFit
    ConvertedShows
