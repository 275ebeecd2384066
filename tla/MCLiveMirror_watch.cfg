SPECIFICATION Spec
CONSTANTS
    Regular = {"f"}
    Temps = {"t"}
    Dropped = {"s"}
    Mode = "one-way"
    MaxChanges = 2
    MaxFaults = 1
INVARIANTS
    TypeOK
    PulseIsOwed
    WaitsOnlyInStep
PROPERTIES
    PulseArrives
