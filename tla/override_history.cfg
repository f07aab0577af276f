SPECIFICATION Spec
CONSTANTS
    e1 = e1
    e2 = e2
    Garbled = Garbled
    Exceptions = {e1, e2}
    Expiries = {2}
    Lifetime = 3
    MaxTime = 1
    MaxFaults = 1
    MaxCrashes = 1
SYMMETRY ExceptionSymmetry
INVARIANTS
    HistoryFollowsChain
