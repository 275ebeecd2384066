SPECIFICATION Spec
CONSTANTS
    Names <- PairNames
    Files <- Pair
    Suffixed <- PairSuffixes
    Policies = {"skip"}
    ErrorPolicies = {"abort"}
    Kinds = {"move"}
    Concurrency = 1
    Capacity = 1
    MaxRetries = 0
    MaxFaults = 0
PROPERTIES
    MoveLosesNothing
