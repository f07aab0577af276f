SPECIFICATION BundleSpec
CONSTANTS
    w1 = w1
    s1 = s1
    emitted = emitted
    lifecycle = lifecycle
    keyE = keyE
    keyL = keyL
    NoRecord = NoRecord
    Workers = {w1}
    Stores = {s1}
    StoreOf <- OneProcess
    Records = {emitted, lifecycle}
    Keys = {keyE, keyL}
    BuildKey <- DerivedKeys
    DedupeKey <- DerivedKeys
    Lifecycle = {lifecycle}
    Malformed = {}
    Compliance = {}
    TTL = 1
    MaxSize = 2
    MaxTime = 0
    MaxFaults = 1
    MaxCrashes = 1
    MaxChain = 2
    MaxVersion = 2
    Stored <- NoneOrBoth
    MaxBuilds = 1
    MaxFailures = 2
    MaxKills = 1
INVARIANTS
    OutputWhole
    BundleIsHistory
    RefusedOnlyByRace
PROPERTIES
    FailureKeepsOutput
