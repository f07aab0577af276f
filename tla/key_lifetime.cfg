SPECIFICATION Spec
CONSTANTS
    p1 = p1
    p2 = p2
    Processes = {p1, p2}
    MaxReadFaults = 1
    MaxFaults = 2
    MaxCrashes = 2
    MaxChain = 2
INVARIANTS
    SignaturesVerify
    NoFalseAlarm
PROPERTIES
    KeyOutlivesChain
