SPECIFICATION Spec
CONSTANTS
    Packs <- MCPacks
    Requests <- MCRequests
    MaxCalls = 3
    MaxFaults = 1
INVARIANTS
    AllPacksOrNone
    DoneIsComplete
    LinkedBefore
CHECK_DEADLOCK FALSE
