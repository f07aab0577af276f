SPECIFICATION FairSpec
CONSTANTS
    a = a
    b = b
    bad = bad
    Candidates = {a, b, bad}
    Malformed = {bad}
    Returns <- Returned
    Modes = {"fail_closed", "advisory_only", "shadow", "strict"}
    MaxRuns = 2
    MaxFaults = 2
CHECK_DEADLOCK FALSE
INVARIANTS
    EveryCandidateCounted
    SuccessIsComplete
    AppendedIsGrowth
PROPERTIES
    RunEnds
