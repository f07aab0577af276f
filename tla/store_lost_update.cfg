SPECIFICATION Spec
CONSTANTS
    w1 = w1
    w2 = w2
    s1 = s1
    s2 = s2
    emitted = emitted
    manual = manual
    lifecycle = lifecycle
    broken = broken
    keyE = keyE
    keyM = keyM
    keyL = keyL
    added = added
    NoRecord = NoRecord
    Workers = {w1, w2}
    Stores = {s1, s2}
    StoreOf <- TwoProcesses
    Records = {emitted, lifecycle}
    Keys = {keyE, keyM, keyL, added}
    BuildKey <- DerivedKeys
    DedupeKey <- CallerKeys
    Lifecycle = {lifecycle}
    Malformed = {}
    Compliance = {}
    TTL = 1
    MaxSize = 2
    MaxTime = 0
    MaxFaults = 0
    MaxCrashes = 0
    MaxChain = 2
INVARIANTS
    AnswersKept
