SPECIFICATION Spec
CONSTANTS
    Names <- Triple
    Files <- Triple
    Suffixed <- NoSuffixes
    Policies = {"skip"}
    ErrorPolicies = {"abort"}
    Kinds = {"copy"}
    Concurrency = 1
    Capacity = 1
    MaxRetries = 0
    MaxFaults = 0
PROPERTIES
    JobReturns
CHECK_DEADLOCK FALSE
