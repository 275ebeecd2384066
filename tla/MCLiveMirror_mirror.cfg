SPECIFICATION Spec
CONSTANTS
    Regular = {"f"}
    Temps = {"t"}
    Dropped = {"s"}
    Mode = "two-way"
    MaxChanges = 2
    MaxFaults = 0
PROPERTIES
    ChangesAreMirrored
