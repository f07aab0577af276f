SPECIFICATION FairSpec
CONSTANTS
    p1 = p1
    p2 = p2
    p3 = p3
    NoLock = NoLock
    Processes = {p1, p2, p3}
    Batch <- Batches
    LockTTL = 1
    MaxTime = 4
    MaxFaults = 1
    MaxCrashes = 1
CHECK_DEADLOCK FALSE
INVARIANTS
    MutualExclusion
    
    DriftReportedOnce
    DriftReported
PROPERTIES
    RunsEnd
