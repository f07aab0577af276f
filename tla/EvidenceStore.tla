--------------------------- MODULE EvidenceStore ---------------------------
(***************************************************************************)
(* core/store: the local append-only proof chain and its dedupe index.     *)
(*                                                                         *)
(* A worker is a goroutine that calls Append or AppendVerifiedLifecycle on *)
(* a *Store.  A *Store is one process's handle on the store directory: its *)
(* mutex orders the workers of that process only, so several stores model  *)
(* several axym processes on one directory.  The steps of an append are    *)
(* its file reads and writes; every file is replaced by a rename, so a     *)
(* write takes effect whole or not at all.  A write may fail, a process    *)
(* may die between two steps, and a directory sync may fail after the      *)
(* rename, when the new file is already in place.                          *)
(***************************************************************************)
EXTENDS Naturals, Sequences, FiniteSets

CONSTANTS
    Workers,      \* goroutines that append
    Stores,       \* open *Store handles, one per process
    StoreOf,      \* StoreOf[w]: the handle worker w appends through
    Records,      \* the proof records callers present
    Keys,         \* dedupe keys
    BuildKey,     \* BuildKey[r]: the key derived from the record's content
    DedupeKey,    \* DedupeKey[r]: the key the caller passes with the record
    Lifecycle,    \* the records appended by AppendVerifiedLifecycle
    Malformed,    \* the records proof.ValidateRecord rejects
    Compliance,   \* the stores opened with ComplianceMode (fsync every write)
    TTL,          \* cfg.DedupeTTL, in seconds
    MaxSize,      \* cfg.DedupeMaxSize
    NoRecord,     \* no record
    MaxTime,      \* bound: last second of the clock
    MaxFaults,    \* bound: reads and writes that fail
    MaxCrashes,   \* bound: processes that die
    MaxChain      \* bound: a record whose key is not derived from its content
                  \* is presented only to a chain shorter than this

ASSUME StoreAssumption ==
    /\ StoreOf \in [Workers -> Stores]
    /\ BuildKey \in [Records -> Keys]
    /\ DedupeKey \in [Records -> Keys]
    /\ Lifecycle \subseteq Records
    /\ Malformed \subseteq Records
    /\ Compliance \subseteq Stores
    /\ NoRecord \notin Records

ASSUME BoundAssumption ==
    /\ TTL \in Nat \ {0}
    /\ MaxSize \in Nat \ {0}
    /\ MaxTime \in Nat
    /\ MaxFaults \in Nat
    /\ MaxCrashes \in Nat
    /\ MaxChain \in Nat

VARIABLES
    chainFile,    \* chain.json
    indexFile,    \* dedupe-index.json: a set of entries, one per key
    registryFile, \* verified-lifecycle.json: a set of entries, one per record
    now,          \* wall clock, whole seconds
    pc,           \* pc[w]: the next step of worker w
    rec,          \* rec[w]: the record w appends
    loaded,       \* loaded[w]: the chain w read; what a rollback writes back
    entries,      \* entries[w]: the index w read, purged; what a rollback writes back
    marked,       \* marked[w]: the index w is going to write
    registry,     \* registry[w]: the registry w read
    at,           \* at[w]: the second at which w read the clock
    acks,         \* answers Appended: record and HeadHash, as given
    skipped,      \* records answered Deduped
    left,         \* the keys that undone appends left in the index
    faults,       \* failures so far
    crashes       \* crashes so far

files   == <<chainFile, indexFile, registryFile>>
locals  == <<pc, rec, loaded, entries, marked, registry, at>>
answers == <<acks, skipped>>
vars == <<files, locals, answers, left, now, faults, crashes>>

-----------------------------------------------------------------------------
(* Chains.  A record's hash covers its content and its previous hash, so   *)
(* it stands for the whole sequence of records that ends with it: that     *)
(* sequence is the hash here.                                              *)

Hash(entry) == Append(entry.prev, entry.rec)

EmptyChain == [records |-> <<>>, head |-> <<>>]

\* Sign and AppendToChain: the record is linked to the head that was read.
Extend(chain, r) ==
    LET linked == [rec |-> r, prev |-> chain.head]
    IN  [records |-> Append(chain.records, linked), head |-> Hash(linked)]

\* proof.VerifyChain: every record names its predecessor's hash, and the
\* file's head is the hash of the last one.
Verified(chain) ==
    /\ \A i \in 1..Len(chain.records) :
          chain.records[i].prev =
             IF i = 1 THEN <<>> ELSE Hash(chain.records[i - 1])
    /\ chain.head = IF chain.records = <<>> THEN <<>>
                    ELSE Hash(chain.records[Len(chain.records)])

ChainHasKey(chain, key) ==
    \E i \in 1..Len(chain.records) : BuildKey[chain.records[i].rec] = key

Positions(chain, r) == {i \in 1..Len(chain.records) : chain.records[i].rec = r}

StoredHead(chain, r) == chain.head

\* The hash of the first chain record that has r's record ID.
StoredHash(chain, r) ==
    Hash(chain.records[CHOOSE i \in Positions(chain, r) :
                          \A j \in Positions(chain, r) : i <= j])

-----------------------------------------------------------------------------
(* The dedupe index.  Seen also refreshes LastSeen, but only in memory: a  *)
(* key that was seen is never written back, so the refresh has no effect.  *)

Purge(index, t) == {e \in index : e.expires > t}

Seen(index, key, t) == \E e \in Purge(index, t) : e.key = key

\* Over the size limit, the entries seen longest ago go; ties are arbitrary.
Evictions(index) ==
    IF Cardinality(index) <= MaxSize THEN {index}
    ELSE {keep \in SUBSET index :
             /\ Cardinality(keep) = MaxSize
             /\ \A kept \in keep, gone \in index \ keep : gone.seen <= kept.seen}

Mark(index, key, t) ==
    Evictions({e \in Purge(index, t) : e.key # key}
                 \cup {[key |-> key, expires |-> t + TTL, seen |-> t]})

-----------------------------------------------------------------------------
(* Failing reads and writes.  WriteJSONAtomic fails before the rename, or, *)
(* when it syncs the directory, after it.                                  *)

Outcomes(fsync) == {"ok", "failed"} \cup IF fsync THEN {"unsynced"} ELSE {}

Charge(outcome) ==
    IF outcome = "ok" THEN UNCHANGED faults
    ELSE faults < MaxFaults /\ faults' = faults + 1

\* The file after a write of new over old that ended with the outcome.
Written(outcome, old, new) == IF outcome = "failed" THEN old ELSE new

Syncs(w) == StoreOf[w] \in Compliance

-----------------------------------------------------------------------------
(* The mutex of a store: at most one of its workers is inside.             *)

Inside == {"loadIndex", "persistChain", "persistIndex", "loadRegistry",
           "persistRegistry", "rollbackChain", "rollbackIndex",
           "reloadRegistry", "repersistRegistry"}

Free(s) == \A w \in Workers : StoreOf[w] = s => pc[w] \notin Inside

Goto(w, label) == pc' = [pc EXCEPT ![w] = label]

Reset(W) ==
    /\ pc'       = [w \in Workers |-> IF w \in W THEN "idle" ELSE pc[w]]
    /\ rec'      = [w \in Workers |-> IF w \in W THEN NoRecord ELSE rec[w]]
    /\ loaded'   = [w \in Workers |-> IF w \in W THEN EmptyChain ELSE loaded[w]]
    /\ entries'  = [w \in Workers |-> IF w \in W THEN {} ELSE entries[w]]
    /\ marked'   = [w \in Workers |-> IF w \in W THEN {} ELSE marked[w]]
    /\ registry' = [w \in Workers |-> IF w \in W THEN {} ELSE registry[w]]
    /\ at'       = [w \in Workers |-> IF w \in W THEN 0 ELSE at[w]]

\* The call returns: the deferred unlock runs and its memory is gone.
Return(w) == Reset({w})

AnswerError(w) == Return(w) /\ UNCHANGED answers

AnswerAppended(w) ==
    /\ acks' = acks \cup
          {[rec |-> rec[w], head |-> Extend(loaded[w], rec[w]).head]}
    /\ UNCHANGED skipped
    /\ Return(w)

AnswerDeduped(w) ==
    /\ skipped' = skipped \cup {rec[w]}
    /\ UNCHANGED acks
    /\ Return(w)

-----------------------------------------------------------------------------
(* The steps of an append.                                                 *)

Init ==
    /\ chainFile = EmptyChain
    /\ indexFile = {}
    /\ registryFile = {}
    /\ now = 0
    /\ pc       = [w \in Workers |-> "idle"]
    /\ rec      = [w \in Workers |-> NoRecord]
    /\ loaded   = [w \in Workers |-> EmptyChain]
    /\ entries  = [w \in Workers |-> {}]
    /\ marked   = [w \in Workers |-> {}]
    /\ registry = [w \in Workers |-> {}]
    /\ at       = [w \in Workers |-> 0]
    /\ acks = {} /\ skipped = {} /\ left = {}
    /\ faults = 0 /\ crashes = 0

\* The caller made the key up: no chain record will ever be found by it.
Manual(r) == DedupeKey[r] # BuildKey[r]

\* A caller presents a record, for the first time or again.
Call(w, r) ==
    /\ pc[w] = "idle"
    /\ Manual(r) => Len(chainFile.records) < MaxChain
    /\ Goto(w, "lock")
    /\ rec' = [rec EXCEPT ![w] = r]
    /\ UNCHANGED <<files, loaded, entries, marked, registry, at, answers,
                   left, now, faults, crashes>>

LoadChainUnlocked(w) ==
    /\ pc[w] = "lock"
    /\ Goto(w, "loadIndex")
    /\ at' = [at EXCEPT ![w] = now]
    /\ loaded' = [loaded EXCEPT ![w] = chainFile]
    /\ UNCHANGED <<files, rec, entries, marked, registry, answers,
                   left, now, faults, crashes>>

\* The mutex is taken, the clock and the chain are read.
LoadChain(w) ==
    /\ pc[w] = "lock"
    /\ Free(StoreOf[w])
    /\ Goto(w, "loadIndex")
    /\ at' = [at EXCEPT ![w] = now]
    /\ loaded' = [loaded EXCEPT ![w] = chainFile]
    /\ UNCHANGED <<files, rec, entries, marked, registry, answers,
                   left, now, faults, crashes>>

DuplicateInIndex(chain, index, r, t) == Seen(index, DedupeKey[r], t)

\* The append was made before: the index says so, or a chain record has the key.
Duplicate(chain, index, r, t) ==
    Seen(index, DedupeKey[r], t) \/ ChainHasKey(chain, DedupeKey[r])

\* The index is read and the key looked up.  A duplicate is answered at once,
\* except that a lifecycle record is looked up in the chain and registered
\* again; a fresh record is linked, signed, validated and marked in memory.
LoadIndex(w) ==
    LET r == rec[w]
        c == loaded[w]
    IN
    /\ pc[w] = "loadIndex"
    /\ \/ /\ Duplicate(c, indexFile, r, at[w])
          /\ \/ r \notin Lifecycle /\ AnswerDeduped(w)
             \/ r \in Lifecycle /\ Positions(c, r) = {} /\ AnswerError(w)
             \/ /\ r \in Lifecycle /\ Positions(c, r) # {}
                /\ Goto(w, "reloadRegistry")
                /\ UNCHANGED <<rec, loaded, entries, marked, registry, at, answers>>
       \/ /\ ~ Duplicate(c, indexFile, r, at[w])
          /\ \/ r \in Malformed /\ AnswerError(w)
             \/ /\ r \notin Malformed
                /\ Goto(w, "persistChain")
                /\ entries' = [entries EXCEPT ![w] = Purge(indexFile, at[w])]
                /\ \E index \in Mark(indexFile, DedupeKey[r], at[w]) :
                      marked' = [marked EXCEPT ![w] = index]
                /\ UNCHANGED <<rec, loaded, registry, at, answers>>
    /\ UNCHANGED <<files, left, now, faults, crashes>>

PersistChainUnchecked(w) ==
    /\ pc[w] = "persistChain"
    /\ \E outcome \in Outcomes(Syncs(w)) :
          /\ Charge(outcome)
          /\ chainFile' = Written(outcome, chainFile, Extend(loaded[w], rec[w]))
    /\ Goto(w, "persistIndex")
    /\ UNCHANGED <<indexFile, registryFile, rec, loaded, entries, marked,
                   registry, at, answers, left, now, crashes>>

\* A failed chain write is answered with the error and nothing is undone.
PersistChain(w) ==
    /\ pc[w] = "persistChain"
    /\ \E outcome \in Outcomes(Syncs(w)) :
          /\ Charge(outcome)
          /\ chainFile' = Written(outcome, chainFile, Extend(loaded[w], rec[w]))
          /\ IF outcome = "ok"
             THEN Goto(w, "persistIndex") /\ UNCHANGED <<rec, loaded, entries,
                                               marked, registry, at, answers>>
             ELSE AnswerError(w)
    /\ UNCHANGED <<indexFile, registryFile, left, now, crashes>>

\* A failed index write starts the rollback.  A lifecycle record's receipt is
\* registered next; any other record is answered.
PersistIndex(w) ==
    /\ pc[w] = "persistIndex"
    /\ \E outcome \in Outcomes(Syncs(w)) :
          /\ Charge(outcome)
          /\ indexFile' = Written(outcome, indexFile, marked[w])
          /\ IF outcome = "ok" /\ rec[w] \notin Lifecycle
             THEN AnswerAppended(w)
             ELSE /\ Goto(w, IF outcome = "ok" THEN "loadRegistry"
                             ELSE "rollbackChain")
                  /\ UNCHANGED <<rec, loaded, entries, marked, registry, at, answers>>
    /\ UNCHANGED <<chainFile, registryFile, left, now, crashes>>

\* The callback waits for the mutex its own caller holds.
LoadRegistryRelocking(w) ==
    /\ pc[w] \in {"loadRegistry", "reloadRegistry"}
    /\ ~ Free(StoreOf[w])
    /\ UNCHANGED vars

\* RegisterVerifiedLifecycle reads the registry ...
LoadRegistry(w) ==
    /\ pc[w] \in {"loadRegistry", "reloadRegistry"}
    /\ registry' = [registry EXCEPT ![w] = registryFile]
    /\ Goto(w, IF pc[w] = "loadRegistry" THEN "persistRegistry"
               ELSE "repersistRegistry")
    /\ UNCHANGED <<files, rec, loaded, entries, marked, at, answers,
                   left, now, faults, crashes>>

Upsert(reg, r, hash) ==
    {e \in reg : e.rec # r} \cup {[rec |-> r, hash |-> hash]}

\* ... and replaces it, with fsync whatever the store's mode.  A failure rolls
\* the append back.
PersistRegistry(w) ==
    /\ pc[w] = "persistRegistry"
    /\ \E outcome \in Outcomes(TRUE) :
          /\ Charge(outcome)
          /\ registryFile' = Written(outcome, registryFile,
                Upsert(registry[w], rec[w], Extend(loaded[w], rec[w]).head))
          /\ IF outcome = "ok" THEN AnswerAppended(w)
             ELSE /\ Goto(w, "rollbackChain")
                  /\ UNCHANGED <<rec, loaded, entries, marked, registry, at, answers>>
    /\ UNCHANGED <<chainFile, indexFile, left, now, crashes>>

\* The deduped lifecycle record is registered again under its stored hash;
\* there is nothing to roll back.
RepersistRegistry(w) ==
    /\ pc[w] = "repersistRegistry"
    /\ \E outcome \in Outcomes(TRUE) :
          /\ Charge(outcome)
          /\ registryFile' = Written(outcome, registryFile,
                Upsert(registry[w], rec[w], StoredHash(loaded[w], rec[w])))
          /\ IF outcome = "ok" THEN AnswerDeduped(w) ELSE AnswerError(w)
    /\ UNCHANGED <<chainFile, indexFile, left, now, crashes>>

RollbackRecords(w) ==
    /\ pc[w] = "rollbackChain"
    /\ \E outcome \in Outcomes(Syncs(w)) :
          /\ Charge(outcome)
          /\ chainFile' = Written(outcome, chainFile,
                             [chainFile EXCEPT !.records = loaded[w].records])
    /\ Goto(w, "rollbackIndex")
    /\ UNCHANGED <<indexFile, registryFile, rec, loaded, entries, marked,
                   registry, at, answers, left, now, crashes>>

\* Rolling back: the chain that was read is written back, then the index.
\* Errors are ignored.
RollbackChain(w) ==
    /\ pc[w] = "rollbackChain"
    /\ \E outcome \in Outcomes(Syncs(w)) :
          /\ Charge(outcome)
          /\ chainFile' = Written(outcome, chainFile, loaded[w])
    /\ Goto(w, "rollbackIndex")
    /\ UNCHANGED <<indexFile, registryFile, rec, loaded, entries, marked,
                   registry, at, answers, left, now, crashes>>

\* The appends of W are undone, but the index still answers for their keys.
LeftKeys(W, index) ==
    {DedupeKey[rec[w]] : w \in {v \in W : /\ pc[v] = "rollbackIndex"
                                         /\ chainFile = loaded[v]
                                         /\ Seen(index, DedupeKey[rec[v]], at[v])}}

RollbackIndex(w) ==
    /\ pc[w] = "rollbackIndex"
    /\ \E outcome \in Outcomes(Syncs(w)) :
          /\ Charge(outcome)
          /\ indexFile' = Written(outcome, indexFile, entries[w])
    /\ left' = left \cup LeftKeys({w}, indexFile')
    /\ AnswerError(w)
    /\ UNCHANGED <<chainFile, registryFile, now, crashes>>

\* A file that cannot be read ends the call; in the registration step of an
\* append it starts the rollback.
ReadFails(w) ==
    /\ Charge("failed")
    /\ \/ /\ pc[w] = "lock" /\ Free(StoreOf[w])
          /\ AnswerError(w)
       \/ /\ pc[w] \in {"loadIndex", "reloadRegistry"}
          /\ AnswerError(w)
       \/ /\ pc[w] = "loadRegistry"
          /\ Goto(w, "rollbackChain")
          /\ UNCHANGED <<rec, loaded, entries, marked, registry, at, answers>>
    /\ UNCHANGED <<files, left, now, crashes>>

\* A process dies: its calls never return and its memory is lost.
Crash(s) ==
    /\ crashes < MaxCrashes
    /\ crashes' = crashes + 1
    /\ \E w \in Workers : StoreOf[w] = s /\ pc[w] # "idle"
    /\ Reset({w \in Workers : StoreOf[w] = s})
    /\ left' = left \cup LeftKeys({w \in Workers : StoreOf[w] = s}, indexFile)
    /\ UNCHANGED <<files, answers, now, faults>>

Tick ==
    /\ now < MaxTime
    /\ now' = now + 1
    /\ UNCHANGED <<files, locals, answers, left, faults, crashes>>

Step(w) ==
    \/ LoadIndex(w)
    \/ PersistChain(w)
    \/ PersistIndex(w)
    \/ LoadRegistry(w)
    \/ PersistRegistry(w)
    \/ RepersistRegistry(w)
    \/ RollbackChain(w)
    \/ RollbackIndex(w)

Next ==
    \/ \E w \in Workers :
          \/ \E r \in Records : Call(w, r)
          \/ LoadChain(w)
          \/ Step(w)
          \/ ReadFails(w)
    \/ \E s \in Stores : Crash(s)
    \/ Tick

Spec == Init /\ [][Next]_vars

(* A call that holds the mutex goes on, and sync.Mutex hands itself to a   *)
(* waiter that has waited long enough, however often others take it.       *)
Fairness == \A w \in Workers : WF_vars(Step(w)) /\ SF_vars(LoadChain(w))

FairSpec == Spec /\ Fairness

-----------------------------------------------------------------------------
(* Types.                                                                  *)

Hashes == Seq(Records)
Chain  == [records : Seq([rec : Records, prev : Hashes]), head : Hashes]
Index  == SUBSET [key : Keys, expires : Nat, seen : Nat]
Registry == SUBSET [rec : Records, hash : Hashes]

(* The variables have their types, and no index on disk or about to be     *)
(* written is over the limit dedupe.Index.Mark enforces.                   *)
TypeOK ==
    /\ chainFile \in Chain
    /\ indexFile \in Index
    /\ registryFile \in Registry
    /\ now \in Nat
    /\ pc \in [Workers -> Inside \cup {"idle", "lock"}]
    /\ rec \in [Workers -> Records \cup {NoRecord}]
    /\ loaded \in [Workers -> Chain]
    /\ entries \in [Workers -> Index]
    /\ marked \in [Workers -> Index]
    /\ registry \in [Workers -> Registry]
    /\ at \in [Workers -> Nat]
    /\ acks \in SUBSET [rec : Records, head : Hashes]
    /\ skipped \in SUBSET Records
    /\ left \in SUBSET Keys
    /\ faults \in Nat
    /\ crashes \in Nat

(* verify --chain: whatever processes write, fail or die, the chain file   *)
(* on disk always verifies; a rollback restores the head with the records. *)
ChainIntact == Verified(chainFile)

KeysDistinct(chain) ==
    \A j \in 1..Len(chain.records) : \A i \in 1..(j - 1) :
        BuildKey[chain.records[i].rec] = BuildKey[chain.records[j].rec]
        => Manual(chain.records[j].rec)

(* Appending the same content again adds nothing: of two chain records     *)
(* with one derived key the later was presented under another key (as      *)
(* "record add" does).  It rests on the replay of the chain, not on the    *)
(* index, which expires, overflows and may not have been written.          *)
ReingestIdempotent == KeysDistinct(chainFile)

Keeps(chain, answered) ==
    \A a \in answered : /\ Len(a.head) \in 1..Len(chain.records)
                        /\ Hash(chain.records[Len(a.head)]) = a.head

(* An answered append is never taken back: the head hash in the answer is  *)
(* the hash of the chain record at that position from then on, through     *)
(* other calls' rollbacks, failures and crashes.                           *)
AnswersKept == Keeps(chainFile, acks)

(* A caller is told "deduped" when a record with that content or key is in *)
(* the chain, or when an undone append of that key left it in the index:   *)
(* because writing the index back failed, or because the process died      *)
(* before it.  No other fault, crash, eviction or expiry, and no step of   *)
(* another worker, has evidence answered for that is not there.            *)
SkippedPresent ==
    \A r \in skipped :
        \/ DedupeKey[r] \in left
        \/ \E i \in 1..Len(chainFile.records) :
              DedupeKey[r] \in {BuildKey[chainFile.records[i].rec],
                               DedupeKey[chainFile.records[i].rec]}

(* A lifecycle record whose append was answered, appended or deduped, has  *)
(* its receipt in the registry under the hash it has in the chain.         *)
AnsweredRegistered ==
    \A i \in 1..Len(chainFile.records) :
        LET r == chainFile.records[i].rec IN
        r \in Lifecycle /\ (r \in skipped \/ \E a \in acks : a.rec = r)
        => [rec |-> r, hash |-> Hash(chainFile.records[i])] \in registryFile

(* A call that asked for the mutex returns, or its process dies.           *)
AppendReturns == \A w \in Workers : pc[w] = "lock" ~> pc[w] = "idle"

-----------------------------------------------------------------------------
(* The append the code promises is atomic: while a worker can still roll   *)
(* back, the log is the chain that worker read.                            *)

Undecided(w) ==
    pc[w] \in {"persistIndex", "loadRegistry", "persistRegistry", "rollbackChain"}

SettledChain ==
    IF \E w \in Workers : Undecided(w)
    THEN loaded[CHOOSE w \in Workers : Undecided(w)]
    ELSE chainFile

SettledLog == [i \in 1..Len(SettledChain.records) |-> SettledChain.records[i].rec]

RepeatsKey(log, r) == \E i \in 1..Len(log) : BuildKey[log[i]] = DedupeKey[r]

KeyGiven(r) == DedupeKey[r]

\* Without directory syncs only a registration that fails undoes an append
\* whose key was written.
MayLeave == IF Compliance = {} THEN Lifecycle ELSE Records

Log == INSTANCE EvidenceLog
          WITH log <- SettledLog, Repeats <- RepeatsKey, KeyOf <- KeyGiven,
               Leavable <- MayLeave

(* With one process, the store is an append-only log of distinct records   *)
(* whose answers are honest, through rollbacks, failures and crashes: what *)
(* was appended stays, and what is answered "deduped" is in the log or is  *)
(* a key that an undone append left.                                       *)
ImplementsLog == Log!Spec

=============================================================================
