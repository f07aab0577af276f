SPECIFICATION FairSpec
CONSTANTS
    c1 = c1
    c2 = c2
    change = change
    first = first
    second = second
    Calls = {c1, c2}
    Change <- OneChange
    Payload <- TwoPayloads
    MaxAttempts = 3
    ComplianceMode = TRUE
    MaxFaults = 1
CHECK_DEADLOCK FALSE
INVARIANTS
    
    AttemptsHonest
    
PROPERTIES
    CallEnds
