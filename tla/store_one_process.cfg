SPECIFICATION FairSpec
CONSTANTS
    w1 = w1
    w2 = w2
    s1 = s1
    s2 = s2
    emitted = emitted
    manual = manual
    lifecycle = lifecycle
    broken = broken
    keyE = keyE
    keyM = keyM
    keyL = keyL
    added = added
    NoRecord = NoRecord
    Workers = {w1, w2}
    Stores = {s1}
    StoreOf <- OneProcess
    Records = {manual, lifecycle, broken}
    Keys = {keyE, keyM, keyL, added}
    BuildKey <- DerivedKeys
    DedupeKey <- CallerKeys
    Lifecycle = {lifecycle}
    Malformed = {broken}
    Compliance = {s1}
    TTL = 1
    MaxSize = 1
    MaxTime = 1
    MaxFaults = 2
    MaxCrashes = 1
    MaxChain = 2
INVARIANTS
    AnsweredRegistered
    SkippedPresent
    ChainIntact
    ReingestIdempotent
PROPERTIES
    ImplementsLog
    AppendReturns
