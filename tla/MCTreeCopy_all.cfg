SPECIFICATION SmallSpec
CONSTANTS
    Names <- AllNames
    Files <- AllFiles
    Suffixed <- AllSuffixes
    Policies = {"skip", "overwrite", "newer", "keep", "prompt", "a_2_2"}
    ErrorPolicies = {"abort", "skip", "retry", "ask"}
    Kinds = {"copy", "move"}
    Concurrency = 2
    Capacity = 1
    MaxRetries = 1
    MaxFaults = 2
INVARIANTS
    TypeOK
    ReportAddsUp
    ParkedIsAnswerable
PROPERTIES
    BeforeIsKept
    TreeEnds
