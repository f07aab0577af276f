------------------------ MODULE EvidenceStoreProofs ------------------------
(***************************************************************************)
(* What holds of the evidence store for every number of workers, processes *)
(* and records, every failure and every crash; and of what `axym bundle`   *)
(* makes of it, for every number of commands, failures and kills.          *)
(***************************************************************************)
EXTENDS Bundle, SequenceTheorems, WellFoundedInduction, TLAPS

(* Linking a record gives a chain of the right type: its hash extends the  *)
(* head that was read.                                                     *)
LEMMA ExtendType ==
    ASSUME NEW c \in Chain, NEW r \in Records
    PROVE  Extend(c, r) \in Chain
  BY DEF Chain, Hashes, Extend, Hash

LEMMA EmptyChainType == EmptyChain \in Chain
  BY DEF EmptyChain, Chain, Hashes

(* The first record with r's ID exists when any does, and its hash is one  *)
(* of the hashes in the chain.                                             *)
LEMMA StoredHashAt ==
    ASSUME NEW c \in Chain, NEW r \in Records, Positions(c, r) # {}
    PROVE  \E i \in Positions(c, r) : StoredHash(c, r) = Hash(c.records[i])
  <1> DEFINE P == Positions(c, r)
             Less == OpToRel(<, Nat)
  <1>1. P \subseteq Nat
    BY DEF Positions, Chain
  <1>2. \A i, j \in Nat : j < i => <<j, i>> \in Less
    BY DEF OpToRel
  <1>3. IsWellFoundedOn(Less, Nat)
    BY NatLessThanWellFounded
  <1> HIDE DEF Less
  <1>4. PICK i \in P : \A j \in P : ~ (<<j, i>> \in Less)
    BY <1>1, <1>3, WFMin
  <1>5. ASSUME NEW j \in P
        PROVE  i <= j
    <2>1. i \in Nat /\ j \in Nat
      BY <1>1, <1>4
    <2>2. ~ (j < i)
      BY <1>2, <1>4, <2>1
    <2> QED
      BY <2>1, <2>2
  <1> DEFINE first == CHOOSE k \in P : \A j \in P : k <= j
  <1>6. first \in P
    BY <1>5
  <1>7. StoredHash(c, r) = Hash(c.records[first])
    BY Zenon DEF StoredHash
  <1> QED
    BY <1>6, <1>7

LEMMA StoredHashType ==
    ASSUME NEW c \in Chain, NEW r \in Records, Positions(c, r) # {}
    PROVE  StoredHash(c, r) \in Hashes
  <1>1. ASSUME NEW i \in Positions(c, r)
        PROVE  Hash(c.records[i]) \in Hashes
    <2>1. c.records \in Seq([rec : Records, prev : Hashes]) /\ i \in 1..Len(c.records)
      BY DEF Positions, Chain
    <2>2. c.records[i] \in [rec : Records, prev : Hashes]
      BY <2>1, ElementOfSeq
    <2> QED
      BY <2>2 DEF Hash, Hashes
  <1>2. PICK i \in Positions(c, r) : StoredHash(c, r) = Hash(c.records[i])
    BY StoredHashAt
  <1> QED
    BY <1>1, <1>2

(* Marking and purging an index keeps it an index.                         *)
LEMMA MarkType ==
    ASSUME NEW index \in Index, NEW key \in Keys, NEW t \in Nat,
           NEW m \in Mark(index, key, t)
    PROVE  m \in Index
  <1> DEFINE full == {e \in Purge(index, t) : e.key # key}
                        \cup {[key |-> key, expires |-> t + TTL, seen |-> t]}
  <1>1. full \in Index
    BY BoundAssumption DEF Index, Purge
  <1>2. m \subseteq full
    BY DEF Mark, Evictions
  <1> QED
    BY <1>1, <1>2 DEF Index

-----------------------------------------------------------------------------
(* Type correctness.  A worker that has begun has a record, and one that   *)
(* registers a deduped record has found it in its chain.                   *)

Typed ==
    /\ TypeOK
    /\ \A w \in Workers :
          /\ pc[w] # "idle" => rec[w] \in Records
          /\ pc[w] \in {"reloadRegistry", "repersistRegistry"}
             => Positions(loaded[w], rec[w]) # {}

LEMMA ResetTyped ==
    ASSUME Typed, NEW W \in SUBSET Workers, Reset(W)
    PROVE  /\ pc' \in [Workers -> Inside \cup {"idle", "lock"}]
           /\ rec' \in [Workers -> Records \cup {NoRecord}]
           /\ loaded' \in [Workers -> Chain]
           /\ entries' \in [Workers -> Index]
           /\ marked' \in [Workers -> Index]
           /\ registry' \in [Workers -> Registry]
           /\ at' \in [Workers -> Nat]
           /\ \A w \in Workers :
                 /\ pc'[w] # "idle" => rec'[w] \in Records
                 /\ pc'[w] \in {"reloadRegistry", "repersistRegistry"}
                    => Positions(loaded'[w], rec'[w]) # {}
  <1>1. EmptyChain \in Chain
    BY EmptyChainType
  <1>2. {} \in Index /\ {} \in Registry
    BY DEF Index, Registry
  <1> QED
    BY <1>1, <1>2 DEF Typed, TypeOK, Reset

LEMMA ChargeType ==
    ASSUME TypeOK, NEW outcome, Charge(outcome)
    PROVE  faults' \in Nat
  BY DEF TypeOK, Charge

LEMMA UpsertType ==
    ASSUME NEW reg \in Registry, NEW r \in Records, NEW hash \in Hashes
    PROVE  Upsert(reg, r, hash) \in Registry
  BY DEF Registry, Upsert

LEMMA HeadType ==
    ASSUME NEW c \in Chain, NEW r \in Records
    PROVE  Extend(c, r).head \in Hashes
  BY ExtendType DEF Chain

LEMMA AnswerTyped ==
    ASSUME Typed, NEW w \in Workers, pc[w] # "idle",
           AnswerAppended(w) \/ AnswerDeduped(w) \/ AnswerError(w)
    PROVE  /\ acks' \in SUBSET [rec : Records, head : Hashes]
           /\ skipped' \in SUBSET Records
           /\ Reset({w})
  <1>1. rec[w] \in Records /\ loaded[w] \in Chain
    BY DEF Typed, TypeOK
  <1>2. Extend(loaded[w], rec[w]).head \in Hashes
    BY <1>1, HeadType
  <1> QED
    BY <1>1, <1>2 DEF Typed, TypeOK, AnswerAppended, AnswerDeduped, AnswerError,
                      Return, answers

LEMMA LeftKeysType ==
    ASSUME Typed, NEW W \in SUBSET Workers, NEW index
    PROVE  LeftKeys(W, index) \in SUBSET Keys
  BY StoreAssumption DEF Typed, LeftKeys

LEMMA InitTyped == Init => Typed
  <1> SUFFICES ASSUME Init PROVE Typed
    OBVIOUS
  <1>1. EmptyChain \in Chain
    BY EmptyChainType
  <1> QED
    BY <1>1 DEF Init, Typed, TypeOK, Index, Registry

LEMMA NextTyped == Typed /\ [Next]_vars => Typed'
  <1> SUFFICES ASSUME Typed, [Next]_vars PROVE Typed'
    OBVIOUS
  <1> USE DEF Typed, TypeOK
  <1>1. ASSUME NEW w \in Workers, NEW r \in Records, Call(w, r)
        PROVE  Typed'
    BY <1>1 DEF Call, Goto, files, answers
  <1>2. ASSUME NEW w \in Workers, LoadChain(w)
        PROVE  Typed'
    BY <1>2 DEF LoadChain, Goto, files, answers, Inside
  <1>3. ASSUME NEW w \in Workers, LoadIndex(w)
        PROVE  Typed'
    <2>1. /\ rec[w] \in Records /\ pc[w] # "idle"
          /\ UNCHANGED <<chainFile, indexFile, registryFile, left, now, faults, crashes>>
      BY <1>3 DEF LoadIndex, files
    <2>2. CASE AnswerDeduped(w) \/ AnswerError(w)
      BY <2>1, <2>2, AnswerTyped, ResetTyped
    <2>3. CASE /\ Positions(loaded[w], rec[w]) # {}
               /\ Goto(w, "reloadRegistry")
               /\ UNCHANGED <<rec, loaded, entries, marked, registry, at, answers>>
      BY <2>1, <2>3 DEF Goto, Inside, answers
    <2>4. CASE /\ Goto(w, "persistChain")
               /\ entries' = [entries EXCEPT ![w] = Purge(indexFile, at[w])]
               /\ \E index \in Mark(indexFile, DedupeKey[rec[w]], at[w]) :
                     marked' = [marked EXCEPT ![w] = index]
               /\ UNCHANGED <<rec, loaded, registry, at, answers>>
      <3>1. DedupeKey[rec[w]] \in Keys
        BY <2>1, StoreAssumption
      <3>2. \A m \in Mark(indexFile, DedupeKey[rec[w]], at[w]) : m \in Index
        BY <3>1, MarkType
      <3>3. Purge(indexFile, at[w]) \in Index
        BY DEF Purge, Index
      <3> QED
        BY <2>1, <2>4, <3>2, <3>3 DEF Goto, Inside, answers
    <2> QED
      BY <1>3, <2>2, <2>3, <2>4 DEF LoadIndex
  <1>4. ASSUME NEW w \in Workers, PersistChain(w)
        PROVE  Typed'
    <2>1. Extend(loaded[w], rec[w]) \in Chain /\ pc[w] # "idle"
      BY <1>4, ExtendType DEF PersistChain
    <2>2. chainFile' \in Chain /\ faults' \in Nat
      BY <1>4, <2>1, ChargeType DEF PersistChain, Written
    <2>3. CASE AnswerError(w)
      BY <1>4, <2>1, <2>2, <2>3, AnswerTyped, ResetTyped DEF PersistChain
    <2>4. CASE /\ Goto(w, "persistIndex")
               /\ UNCHANGED <<rec, loaded, entries, marked, registry, at, answers>>
      BY <1>4, <2>2, <2>4 DEF PersistChain, Goto, Inside, answers
    <2> QED
      BY <1>4, <2>3, <2>4 DEF PersistChain
  <1>5. ASSUME NEW w \in Workers, PersistIndex(w)
        PROVE  Typed'
    <2>1. indexFile' \in Index /\ faults' \in Nat /\ pc[w] # "idle"
      BY <1>5, ChargeType DEF PersistIndex, Written
    <2>2. CASE AnswerAppended(w)
      BY <1>5, <2>1, <2>2, AnswerTyped, ResetTyped DEF PersistIndex
    <2>3. CASE /\ Goto(w, "loadRegistry") \/ Goto(w, "rollbackChain")
               /\ UNCHANGED <<rec, loaded, entries, marked, registry, at, answers>>
      BY <1>5, <2>1, <2>3 DEF PersistIndex, Goto, Inside, answers
    <2> QED
      BY <1>5, <2>2, <2>3 DEF PersistIndex
  <1>6. ASSUME NEW w \in Workers, LoadRegistry(w)
        PROVE  Typed'
    BY <1>6 DEF LoadRegistry, Goto, files, answers, Inside
  <1>7. ASSUME NEW w \in Workers, PersistRegistry(w)
        PROVE  Typed'
    <2>1. pc[w] # "idle" /\ Extend(loaded[w], rec[w]).head \in Hashes
      BY <1>7, HeadType DEF PersistRegistry
    <2>2. Upsert(registry[w], rec[w], Extend(loaded[w], rec[w]).head) \in Registry
      BY <2>1, UpsertType
    <2>3. registryFile' \in Registry /\ faults' \in Nat
      BY <1>7, <2>2, ChargeType DEF PersistRegistry, Written
    <2>4. CASE AnswerAppended(w)
      BY <1>7, <2>1, <2>3, <2>4, AnswerTyped, ResetTyped DEF PersistRegistry
    <2>5. CASE /\ Goto(w, "rollbackChain")
               /\ UNCHANGED <<rec, loaded, entries, marked, registry, at, answers>>
      BY <1>7, <2>3, <2>5 DEF PersistRegistry, Goto, Inside, answers
    <2> QED
      BY <1>7, <2>4, <2>5 DEF PersistRegistry
  <1>8. ASSUME NEW w \in Workers, RepersistRegistry(w)
        PROVE  Typed'
    <2>1. pc[w] # "idle" /\ StoredHash(loaded[w], rec[w]) \in Hashes
      BY <1>8, StoredHashType DEF RepersistRegistry
    <2>2. Upsert(registry[w], rec[w], StoredHash(loaded[w], rec[w])) \in Registry
      BY <2>1, UpsertType
    <2>3. registryFile' \in Registry /\ faults' \in Nat
      BY <1>8, <2>2, ChargeType DEF RepersistRegistry, Written
    <2>4. AnswerDeduped(w) \/ AnswerError(w)
      BY <1>8 DEF RepersistRegistry
    <2> QED
      BY <1>8, <2>1, <2>3, <2>4, AnswerTyped, ResetTyped DEF RepersistRegistry
  <1>9. ASSUME NEW w \in Workers, RollbackChain(w)
        PROVE  Typed'
    BY <1>9, ChargeType DEF RollbackChain, Written, Goto, Inside, answers
  <1>10. ASSUME NEW w \in Workers, RollbackIndex(w)
         PROVE  Typed'
    <2>1. indexFile' \in Index /\ faults' \in Nat
      BY <1>10, ChargeType DEF RollbackIndex, Written
    <2>2. left' \in SUBSET Keys
      BY <1>10, LeftKeysType DEF RollbackIndex
    <2> QED
      BY <1>10, <2>1, <2>2, AnswerTyped, ResetTyped DEF RollbackIndex
  <1>11. ASSUME NEW w \in Workers, ReadFails(w)
         PROVE  Typed'
    <2>1. faults' \in Nat
      BY <1>11, ChargeType DEF ReadFails
    <2>2. CASE AnswerError(w) /\ pc[w] # "idle"
      BY <1>11, <2>1, <2>2, AnswerTyped, ResetTyped DEF ReadFails, files
    <2>3. CASE /\ Goto(w, "rollbackChain") /\ pc[w] = "loadRegistry"
               /\ UNCHANGED <<rec, loaded, entries, marked, registry, at, answers>>
      BY <1>11, <2>1, <2>3 DEF ReadFails, Goto, Inside, files, answers
    <2> QED
      BY <1>11, <2>2, <2>3 DEF ReadFails
  <1>12. ASSUME NEW s \in Stores, Crash(s)
         PROVE  Typed'
    BY <1>12, ResetTyped, LeftKeysType DEF Crash, files, answers
  <1>13. CASE Tick
    BY <1>13 DEF Tick, files, locals, answers
  <1>14. CASE UNCHANGED vars
    BY <1>14 DEF vars, files, locals, answers
  <1> QED
    BY <1>1, <1>2, <1>3, <1>4, <1>5, <1>6, <1>7, <1>8, <1>9, <1>10, <1>11,
       <1>12, <1>13, <1>14 DEF Next, Step

(* Every variable keeps its type, whatever fails.                          *)
THEOREM TypeCorrect == Spec => []TypeOK
  <1>1. Init => Typed
    BY InitTyped
  <1>2. Typed /\ [Next]_vars => Typed'
    BY NextTyped
  <1>3. Typed => TypeOK
    BY DEF Typed
  <1> QED
    BY <1>1, <1>2, <1>3, PTL DEF Spec

-----------------------------------------------------------------------------
(* The chain file, for any number of processes.  Whatever they interleave, *)
(* each writes a chain it read, or that chain with one fresh record linked *)
(* to its head: the invariant is about the chains in memory as well.       *)

\* A record's hash is as long as the chain it ends.
Sized(chain) ==
    /\ Len(chain.head) = Len(chain.records)
    /\ \A i \in 1..Len(chain.records) : Len(chain.records[i].prev) = i - 1

\* The head hash stands for the records of the chain.
Named(chain) == \A i \in 1..Len(chain.records) : chain.head[i] = chain.records[i].rec

Sound(chain) ==
    Verified(chain) /\ KeysDistinct(chain) /\ Sized(chain) /\ Named(chain)

FileInv ==
    /\ Typed
    /\ Sound(chainFile)
    /\ \A w \in Workers :
          /\ Sound(loaded[w])
          /\ pc[w] = "persistChain" => ~ ChainHasKey(loaded[w], DedupeKey[rec[w]])

LEMMA EmptyChainSound == Sound(EmptyChain)
  BY DEF Sound, Verified, KeysDistinct, Sized, Named, EmptyChain

(* What linking does to a chain: the old records stay where they were, the *)
(* new one is last and names the old head.                                 *)
LEMMA ExtendShape ==
    ASSUME NEW c \in Chain, NEW r \in Records
    PROVE  LET x == Extend(c, r)
               n == Len(c.records)
           IN  /\ Len(x.records) = n + 1
               /\ \A i \in 1..n : x.records[i] = c.records[i]
               /\ x.records[n + 1] = [rec |-> r, prev |-> c.head]
               /\ x.head = Append(c.head, r)
               /\ x.head = Hash(x.records[n + 1])
               /\ Len(x.head) = Len(c.head) + 1
               /\ n \in Nat
               /\ x.records # <<>>
  <1> DEFINE x == Extend(c, r)
             e == [rec |-> r, prev |-> c.head]
  <1>1. /\ c.records \in Seq([rec : Records, prev : Hashes])
        /\ c.head \in Seq(Records)
        /\ e \in [rec : Records, prev : Hashes]
    BY DEF Chain, Hashes
  <1>2. x.records = Append(c.records, e) /\ x.head = Hash(e)
    BY DEF Extend
  <1>3. Hash(e) = Append(c.head, r)
    BY DEF Hash
  <1> HIDE DEF x, e
  <1>4. /\ Len(x.records) = Len(c.records) + 1
        /\ \A i \in 1..Len(c.records) : x.records[i] = c.records[i]
        /\ x.records[Len(c.records) + 1] = e
        /\ Len(c.records) \in Nat
    BY <1>1, <1>2
  <1>5. Len(x.head) = Len(c.head) + 1
    BY <1>1, <1>2, <1>3
  <1>6. x.records # <<>>
    BY <1>4
  <1> QED
    BY <1>2, <1>3, <1>4, <1>5, <1>6 DEF x, e

LEMMA ExtendVerified ==
    ASSUME NEW c \in Chain, NEW r \in Records, Verified(c)
    PROVE  Verified(Extend(c, r))
  <1> DEFINE x == Extend(c, r)
             n == Len(c.records)
  <1>1. /\ Len(x.records) = n + 1 /\ n \in Nat /\ x.records # <<>>
        /\ \A i \in 1..n : x.records[i] = c.records[i]
        /\ x.records[n + 1] = [rec |-> r, prev |-> c.head]
        /\ x.head = Hash(x.records[n + 1])
    BY ExtendShape
  <1>2. c.records = <<>> <=> n = 0
    BY DEF Chain
  <1> HIDE DEF x
  <1>3. ASSUME NEW i \in 1..Len(x.records)
        PROVE  x.records[i].prev = IF i = 1 THEN <<>> ELSE Hash(x.records[i - 1])
    <2>1. CASE i \in 1..n
      <3>1. x.records[i] = c.records[i]
        BY <1>1, <2>1
      <3>2. c.records[i].prev = IF i = 1 THEN <<>> ELSE Hash(c.records[i - 1])
        BY <2>1 DEF Verified
      <3>3. i # 1 => x.records[i - 1] = c.records[i - 1]
        <4>1. i # 1 => i - 1 \in 1..n
          BY <1>1, <2>1
        <4> QED
          BY <1>1, <4>1
      <3> QED
        BY <3>1, <3>2, <3>3
    <2>2. CASE i = n + 1
      BY <1>1, <1>2, <2>2 DEF Verified
    <2> QED
      BY <1>1, <2>1, <2>2
  <1> QED
    BY <1>1, <1>3 DEF Verified, x

LEMMA ExtendKeysDistinct ==
    ASSUME NEW c \in Chain, NEW r \in Records, KeysDistinct(c),
           ~ ChainHasKey(c, DedupeKey[r])
    PROVE  KeysDistinct(Extend(c, r))
  <1> DEFINE x == Extend(c, r)
             n == Len(c.records)
  <1>1. /\ Len(x.records) = n + 1 /\ n \in Nat
        /\ \A i \in 1..n : x.records[i] = c.records[i]
        /\ x.records[n + 1].rec = r
    <2>1. x.records[n + 1] = [rec |-> r, prev |-> c.head]
      BY ExtendShape
    <2> QED
      BY <2>1, ExtendShape
  <1> HIDE DEF x
  <1>2. ASSUME NEW j \in 1..Len(x.records), NEW i \in 1..(j - 1),
               BuildKey[x.records[i].rec] = BuildKey[x.records[j].rec]
        PROVE  Manual(x.records[j].rec)
    <2>1. CASE j \in 1..n
      <3>1. i \in 1..n /\ x.records[i] = c.records[i] /\ x.records[j] = c.records[j]
        BY <1>1, <2>1
      <3> QED
        BY <1>2, <2>1, <3>1 DEF KeysDistinct
    <2>2. CASE j = n + 1
      <3>1. i \in 1..n /\ x.records[i] = c.records[i]
        BY <1>1, <2>2
      <3>2. BuildKey[x.records[i].rec] # DedupeKey[r]
        BY <3>1 DEF ChainHasKey
      <3>3. x.records[j].rec = r
        BY <1>1, <2>2
      <3>4. BuildKey[r] # DedupeKey[r]
        BY <1>2, <3>2, <3>3
      <3> QED
        BY <3>3, <3>4 DEF Manual
    <2> QED
      BY <1>1, <2>1, <2>2
  <1> QED
    BY <1>2 DEF KeysDistinct, x

LEMMA ExtendSound ==
    ASSUME NEW c \in Chain, NEW r \in Records, Sound(c),
           ~ ChainHasKey(c, DedupeKey[r])
    PROVE  Sound(Extend(c, r))
  <1>1. Verified(Extend(c, r)) /\ KeysDistinct(Extend(c, r))
    BY ExtendVerified, ExtendKeysDistinct DEF Sound
  <1> DEFINE x == Extend(c, r)
             n == Len(c.records)
  <1>2. /\ Len(x.records) = n + 1 /\ n \in Nat
        /\ \A i \in 1..n : x.records[i] = c.records[i]
        /\ x.records[n + 1] = [rec |-> r, prev |-> c.head]
        /\ Len(x.head) = Len(c.head) + 1
        /\ x.head = Append(c.head, r)
    BY ExtendShape
  <1> HIDE DEF x
  <1>3. Sized(x)
    <2>1. x.records[n + 1].prev = c.head
      BY <1>2
    <2>2. Len(x.head) = Len(x.records)
      BY <1>2 DEF Sized, Sound
    <2>3. ASSUME NEW i \in 1..Len(x.records)
          PROVE  Len(x.records[i].prev) = i - 1
      <3>1. CASE i \in 1..n
        BY <1>2, <3>1 DEF Sized, Sound
      <3>2. CASE i = n + 1
        BY <1>2, <2>1, <3>2 DEF Sized, Sound
      <3> QED
        BY <1>2, <3>1, <3>2
    <2> QED
      BY <2>2, <2>3 DEF Sized
  <1>4. Named(x)
    <2>1. /\ c.head \in Seq(Records) /\ Len(c.head) = n
          /\ x.records[n + 1].rec = r
      BY <1>2 DEF Sound, Sized, Chain, Hashes
    <2>2. /\ \A i \in 1..n : x.head[i] = c.head[i]
          /\ x.head[n + 1] = r
      BY <1>2, <2>1
    <2>3. ASSUME NEW i \in 1..Len(x.records)
          PROVE  x.head[i] = x.records[i].rec
      BY <1>2, <2>1, <2>2 DEF Sound, Named
    <2> QED
      BY <2>3 DEF Named
  <1> QED
    BY <1>1, <1>3, <1>4 DEF Sound, x

(* No step writes or reads any other chain.                                *)
LEMMA ChainsWritten ==
    ASSUME Typed, [Next]_vars
    PROVE  /\ \/ chainFile' = chainFile
              \/ \E w \in Workers : /\ pc[w] = "persistChain"
                                    /\ chainFile' = Extend(loaded[w], rec[w])
              \/ \E w \in Workers : /\ pc[w] = "rollbackChain"
                                    /\ chainFile' = loaded[w]
           /\ \A w \in Workers :
                 \/ loaded'[w] \in {loaded[w], EmptyChain} /\ pc'[w] # "persistChain"
                 \/ loaded'[w] = chainFile /\ pc'[w] = "loadIndex"
                 \/ /\ loaded'[w] = loaded[w] /\ rec'[w] = rec[w]
                    /\ pc'[w] = "persistChain"
                    /\ \/ pc[w] = "persistChain"
                       \/ ~ ChainHasKey(loaded[w], DedupeKey[rec[w]])
  <1> DEFINE Kept(w) ==
               \/ loaded'[w] \in {loaded[w], EmptyChain} /\ pc'[w] # "persistChain"
               \/ loaded'[w] = chainFile /\ pc'[w] = "loadIndex"
               \/ /\ loaded'[w] = loaded[w] /\ rec'[w] = rec[w]
                  /\ pc'[w] = "persistChain"
                  /\ \/ pc[w] = "persistChain"
                     \/ ~ ChainHasKey(loaded[w], DedupeKey[rec[w]])
  <1> USE DEF Typed, TypeOK
  <1>1. ASSUME NEW W \in SUBSET Workers, Reset(W)
        PROVE  \A v \in Workers : Kept(v)
    BY <1>1 DEF Reset
  <1>2. ASSUME NEW w \in Workers,
               AnswerAppended(w) \/ AnswerDeduped(w) \/ AnswerError(w)
        PROVE  \A v \in Workers : Kept(v)
    BY <1>1, <1>2 DEF AnswerAppended, AnswerDeduped, AnswerError, Return
  <1>3. ASSUME NEW w \in Workers, NEW label, label # "persistChain", Goto(w, label),
               UNCHANGED <<rec, loaded, entries, marked, registry, at, answers>>
        PROVE  \A v \in Workers : Kept(v)
    BY <1>3 DEF Goto
  <1>4. ASSUME NEW w \in Workers, NEW r \in Records, Call(w, r)
        PROVE  chainFile' = chainFile /\ \A v \in Workers : Kept(v)
    BY <1>4 DEF Call, Goto, files
  <1>5. ASSUME NEW w \in Workers, LoadChain(w)
        PROVE  chainFile' = chainFile /\ \A v \in Workers : Kept(v)
    BY <1>5 DEF LoadChain, Goto, files
  <1>6. ASSUME NEW w \in Workers, LoadIndex(w)
        PROVE  chainFile' = chainFile /\ \A v \in Workers : Kept(v)
    <2>0. chainFile' = chainFile
      BY <1>6 DEF LoadIndex, files
    <2>1. CASE /\ Goto(w, "persistChain") /\ UNCHANGED <<rec, loaded>>
               /\ ~ Duplicate(loaded[w], indexFile, rec[w], at[w])
      <3>1. ~ ChainHasKey(loaded[w], DedupeKey[rec[w]])
        BY <2>1 DEF Duplicate
      <3>2. Kept(w)
        BY <2>1, <3>1 DEF Goto
      <3>3. ASSUME NEW v \in Workers, v # w
            PROVE  Kept(v)
        BY <2>1, <3>3 DEF Goto
      <3> QED
        BY <2>0, <3>2, <3>3
    <2>2. CASE /\ Goto(w, "reloadRegistry")
               /\ UNCHANGED <<rec, loaded, entries, marked, registry, at, answers>>
      BY <1>3, <2>0, <2>2
    <2>3. CASE AnswerDeduped(w) \/ AnswerError(w)
      BY <1>2, <2>0, <2>3
    <2> HIDE DEF Kept
    <2> QED
      BY <1>6, <2>1, <2>2, <2>3, <2>0 DEF LoadIndex
  <1>7. ASSUME NEW w \in Workers, PersistChain(w)
        PROVE  /\ pc[w] = "persistChain"
               /\ chainFile' \in {chainFile, Extend(loaded[w], rec[w])}
               /\ \A v \in Workers : Kept(v)
    BY <1>2, <1>3, <1>7 DEF PersistChain, Written
  <1>8. ASSUME NEW w \in Workers, PersistIndex(w)
        PROVE  chainFile' = chainFile /\ \A v \in Workers : Kept(v)
    BY <1>2, <1>3, <1>8 DEF PersistIndex
  <1>9. ASSUME NEW w \in Workers, LoadRegistry(w)
        PROVE  chainFile' = chainFile /\ \A v \in Workers : Kept(v)
    BY <1>9 DEF LoadRegistry, Goto, files
  <1>10. ASSUME NEW w \in Workers, PersistRegistry(w)
         PROVE  chainFile' = chainFile /\ \A v \in Workers : Kept(v)
    BY <1>2, <1>3, <1>10 DEF PersistRegistry
  <1>11. ASSUME NEW w \in Workers, RepersistRegistry(w)
         PROVE  chainFile' = chainFile /\ \A v \in Workers : Kept(v)
    BY <1>2, <1>11 DEF RepersistRegistry
  <1>12. ASSUME NEW w \in Workers, RollbackChain(w)
         PROVE  /\ pc[w] = "rollbackChain"
                /\ chainFile' \in {chainFile, loaded[w]}
                /\ \A v \in Workers : Kept(v)
    BY <1>12 DEF RollbackChain, Written, Goto
  <1>13. ASSUME NEW w \in Workers, RollbackIndex(w)
         PROVE  chainFile' = chainFile /\ \A v \in Workers : Kept(v)
    BY <1>2, <1>13 DEF RollbackIndex
  <1>14. ASSUME NEW w \in Workers, ReadFails(w)
         PROVE  chainFile' = chainFile /\ \A v \in Workers : Kept(v)
    BY <1>2, <1>3, <1>14 DEF ReadFails, files
  <1>15. ASSUME NEW s \in Stores, Crash(s)
         PROVE  chainFile' = chainFile /\ \A v \in Workers : Kept(v)
    BY <1>1, <1>15 DEF Crash, files
  <1>16. CASE Tick \/ UNCHANGED vars
    BY <1>16 DEF Tick, vars, files, locals
  <1> HIDE DEF Kept
  <1> QED
    BY <1>4, <1>5, <1>6, <1>7, <1>8, <1>9, <1>10, <1>11, <1>12, <1>13,
       <1>14, <1>15, <1>16 DEF Next, Step, Kept

LEMMA InitFile == Init => FileInv
  <1> SUFFICES ASSUME Init PROVE FileInv
    OBVIOUS
  <1>1. Typed /\ Sound(EmptyChain)
    BY InitTyped, EmptyChainSound
  <1> QED
    BY <1>1 DEF FileInv, Init

LEMMA NextFile == FileInv /\ [Next]_vars => FileInv'
  <1> SUFFICES ASSUME FileInv, [Next]_vars PROVE FileInv'
    OBVIOUS
  <1>1. Typed /\ Typed'
    BY NextTyped DEF FileInv
  <1>2. Sound(chainFile)'
    <2>1. ASSUME NEW w \in Workers, pc[w] = "persistChain",
                 chainFile' = Extend(loaded[w], rec[w])
          PROVE  Sound(chainFile')
      BY <2>1, ExtendSound DEF FileInv, Typed, TypeOK
    <2>2. Sound(chainFile')
      BY <1>1, <2>1, ChainsWritten DEF FileInv
    <2> QED
      BY <2>2 DEF Sound, Verified, KeysDistinct, Sized, Named
  <1>3. ASSUME NEW w \in Workers
        PROVE  Sound(loaded'[w])
    BY <1>1, ChainsWritten, EmptyChainSound DEF FileInv
  <1>4. ASSUME NEW w \in Workers, pc'[w] = "persistChain"
        PROVE  ~ ChainHasKey(loaded'[w], DedupeKey[rec'[w]])
    BY <1>1, <1>4, ChainsWritten DEF FileInv
  <1> QED
    BY <1>1, <1>2, <1>3, <1>4 DEF FileInv, Sound, Verified, KeysDistinct, Sized,
                                  Named, ChainHasKey

LEMMA FileInvariant == Spec => []FileInv
  <1> QED
    BY InitFile, NextFile, PTL DEF Spec

(* verify --chain finds no break in the chain file, at any time, however   *)
(* many processes write the directory.                                     *)
THEOREM ChainAlwaysIntact == Spec => []ChainIntact
  <1>1. FileInv => ChainIntact
    BY DEF FileInv, Sound, ChainIntact
  <1> QED
    BY <1>1, FileInvariant, PTL

(* Re-ingesting content the chain holds never adds a second record of it,  *)
(* whether or not the index survived, expired or overflowed, unless it is  *)
(* presented under a key of the caller's own.                              *)
THEOREM ReingestAlwaysIdempotent == Spec => []ReingestIdempotent
  <1>1. FileInv => ReingestIdempotent
    BY DEF FileInv, Sound, ReingestIdempotent
  <1> QED
    BY <1>1, FileInvariant, PTL

-----------------------------------------------------------------------------
(* Answers, for one process.  Its mutex lets one worker in: what that      *)
(* worker may write back, the chain it read, holds every answer given,     *)
(* because no answer is given while it is inside but its own.              *)

SingleProcess == \A v, w \in Workers : StoreOf[v] = StoreOf[w]

AnswerInv ==
    /\ FileInv
    /\ Keeps(chainFile, acks)
    /\ \A v, w \in Workers : pc[v] \in Inside /\ pc[w] \in Inside => v = w
    /\ \A w \in Workers :
          /\ pc[w] \in Inside => Keeps(loaded[w], acks)
          /\ pc[w] \in {"loadIndex", "persistChain"} => loaded[w] = chainFile
          /\ Undecided(w) => /\ chainFile = Extend(loaded[w], rec[w])
                             /\ ~ ChainHasKey(loaded[w], DedupeKey[rec[w]])

LEMMA ExtendKeeps ==
    ASSUME NEW c \in Chain, NEW r \in Records, NEW answered, Keeps(c, answered)
    PROVE  Keeps(Extend(c, r), answered)
  <1> DEFINE x == Extend(c, r)
             n == Len(c.records)
  <1>1. /\ Len(x.records) = n + 1 /\ n \in Nat
        /\ \A i \in 1..n : x.records[i] = c.records[i]
    BY ExtendShape
  <1> HIDE DEF x
  <1>2. ASSUME NEW a \in answered
        PROVE  /\ Len(a.head) \in 1..Len(x.records)
               /\ Hash(x.records[Len(a.head)]) = a.head
    BY <1>1 DEF Keeps
  <1> QED
    BY <1>2 DEF Keeps, x

(* The head hash in an answer is that of the record just linked.           *)
LEMMA AnswerKept ==
    ASSUME NEW c \in Chain, NEW r \in Records, Sized(c)
    PROVE  LET x == Extend(c, r)
           IN  /\ Len(x.head) \in 1..Len(x.records)
               /\ Hash(x.records[Len(x.head)]) = x.head
  <1> DEFINE x == Extend(c, r)
             n == Len(c.records)
  <1>1. /\ Len(x.records) = n + 1 /\ n \in Nat
        /\ x.head = Hash(x.records[n + 1])
        /\ Len(x.head) = Len(c.head) + 1
    BY ExtendShape
  <1> HIDE DEF x
  <1>2. Len(x.head) = n + 1
    BY <1>1 DEF Sized
  <1> QED
    BY <1>1, <1>2 DEF x

(* While a worker is inside, only what it does matters.                    *)
LEMMA InsideStep ==
    ASSUME AnswerInv, FileInv', NEW w \in Workers, pc[w] \in Inside,
           \A v \in Workers : v # w => pc'[v] = pc[v],
           Keeps(chainFile', acks'),
           pc'[w] \in Inside => Keeps(loaded'[w], acks'),
           pc'[w] \in {"loadIndex", "persistChain"} => loaded'[w] = chainFile',
           Undecided(w)' => /\ chainFile' = Extend(loaded'[w], rec'[w])
                            /\ ~ ChainHasKey(loaded'[w], DedupeKey[rec'[w]])
    PROVE  AnswerInv'
  <1>1. \A v \in Workers : v # w => pc'[v] \notin Inside
    BY DEF AnswerInv
  <1>2. \A u, v \in Workers : pc'[u] \in Inside /\ pc'[v] \in Inside => u = v
    BY <1>1
  <1>3. ASSUME NEW v \in Workers
        PROVE  /\ pc'[v] \in Inside => Keeps(loaded'[v], acks')
               /\ pc'[v] \in {"loadIndex", "persistChain"} => loaded'[v] = chainFile'
               /\ Undecided(v)' => /\ chainFile' = Extend(loaded'[v], rec'[v])
                                   /\ ~ ChainHasKey(loaded'[v], DedupeKey[rec'[v]])
    <2>1. CASE v = w
      BY <2>1
    <2>2. CASE v # w
      BY <1>1, <2>2 DEF Inside, Undecided
    <2> QED
      BY <2>1, <2>2
  <1> QED
    BY <1>2, <1>3 DEF AnswerInv, Keeps, Extend, ChainHasKey

LEMMA AnswerStep ==
    ASSUME Typed, NEW w \in Workers,
           AnswerAppended(w) \/ AnswerDeduped(w) \/ AnswerError(w)
    PROVE  /\ pc'[w] = "idle"
           /\ \A v \in Workers : v # w => pc'[v] = pc[v]
  BY DEF AnswerAppended, AnswerDeduped, AnswerError, Return, Reset

LEMMA InitAnswer == Init => AnswerInv
  <1> SUFFICES ASSUME Init PROVE AnswerInv
    OBVIOUS
  <1>1. FileInv
    BY InitFile
  <1> QED
    BY <1>1 DEF AnswerInv, Init, Keeps, Inside, Undecided

LEMMA NextAnswer ==
    ASSUME SingleProcess, AnswerInv, [Next]_vars
    PROVE  AnswerInv'
  <1>1. FileInv /\ FileInv' /\ Typed /\ Typed'
    BY NextFile DEF AnswerInv, FileInv
  <1>2. /\ pc \in [Workers -> Inside \cup {"idle", "lock"}]
        /\ rec \in [Workers -> Records \cup {NoRecord}]
        /\ loaded \in [Workers -> Chain]
        /\ chainFile \in Chain
        /\ \A w \in Workers : pc[w] # "idle" => rec[w] \in Records
    BY <1>1 DEF Typed, TypeOK
  <1>3. ASSUME NEW w \in Workers, NEW r \in Records, Call(w, r)
        PROVE  AnswerInv'
    <2>1. /\ chainFile' = chainFile /\ acks' = acks /\ loaded' = loaded
          /\ \A v \in Workers : v # w => pc'[v] = pc[v] /\ rec'[v] = rec[v]
          /\ pc'[w] = "lock"
      BY <1>2, <1>3 DEF Call, Goto, files, answers
    <2>2. pc'[w] \notin Inside
      BY <2>1 DEF Inside
    <2> QED
      BY <1>1, <2>1, <2>2 DEF AnswerInv, Undecided, Inside, Keeps, Extend
  <1>4. ASSUME NEW w \in Workers, LoadChain(w)
        PROVE  AnswerInv'
    <2>1. /\ chainFile' = chainFile /\ acks' = acks /\ rec' = rec
          /\ \A v \in Workers : v # w => pc'[v] = pc[v]
          /\ pc'[w] = "loadIndex"
          /\ loaded'[w] = chainFile
      BY <1>2, <1>4 DEF LoadChain, Goto, files, answers
    <2>2. \A v \in Workers : pc[v] \notin Inside
      BY <1>4 DEF LoadChain, Free, SingleProcess
    <2>3. \A v \in Workers : v # w => pc'[v] \notin Inside
      BY <2>1, <2>2
    <2>4. ASSUME NEW v \in Workers
          PROVE  /\ pc'[v] \in Inside => Keeps(loaded'[v], acks')
                 /\ pc'[v] \in {"loadIndex", "persistChain"} => loaded'[v] = chainFile'
                 /\ ~ Undecided(v)'
      <3>1. CASE v = w
        BY <2>1, <3>1 DEF AnswerInv, Undecided
      <3>2. CASE v # w
        BY <2>3, <3>2 DEF Undecided, Inside
      <3> QED
        BY <3>1, <3>2
    <2>5. \A u, v \in Workers : pc'[u] \in Inside /\ pc'[v] \in Inside => u = v
      BY <2>3
    <2> QED
      BY <1>1, <2>1, <2>4, <2>5 DEF AnswerInv, Keeps
  <1>5. ASSUME NEW w \in Workers, LoadIndex(w)
        PROVE  AnswerInv'
    <2>1. /\ pc[w] = "loadIndex" /\ chainFile' = chainFile
          /\ pc[w] \in Inside
      BY <1>5 DEF LoadIndex, files, Inside
    <2>2. CASE AnswerDeduped(w) \/ AnswerError(w)
      <3>1. acks' = acks
        BY <2>2 DEF AnswerDeduped, AnswerError, answers
      <3> QED
        BY <1>1, <2>1, <2>2, <3>1, AnswerStep, InsideStep
        DEF AnswerInv, Undecided, Inside
    <2>3. CASE /\ Goto(w, "reloadRegistry") \/ Goto(w, "persistChain")
               /\ UNCHANGED <<rec, loaded, answers>>
      <3>1. /\ \A v \in Workers : v # w => pc'[v] = pc[v]
            /\ pc'[w] \in {"reloadRegistry", "persistChain"}
            /\ acks' = acks /\ loaded' = loaded
        BY <1>2, <2>3 DEF Goto, answers
      <3> QED
        BY <1>1, <2>1, <3>1, InsideStep DEF AnswerInv, Undecided, Inside
    <2> QED
      BY <1>5, <2>2, <2>3 DEF LoadIndex
  <1>6. ASSUME NEW w \in Workers, PersistChain(w)
        PROVE  AnswerInv'
    <2> DEFINE x == Extend(loaded[w], rec[w])
    <2>1. /\ pc[w] = "persistChain" /\ pc[w] \in Inside
          /\ chainFile' \in {chainFile, x}
          /\ Keeps(x, acks)
      BY <1>2, <1>6, ExtendKeeps DEF PersistChain, Written, Inside, AnswerInv
    <2>2. Keeps(chainFile', acks)
      BY <2>1 DEF AnswerInv
    <2>3. CASE AnswerError(w)
      <3>1. acks' = acks
        BY <2>3 DEF AnswerError, answers
      <3> QED
        BY <1>1, <2>1, <2>2, <2>3, <3>1, AnswerStep, InsideStep DEF Undecided, Inside
    <2>4. CASE /\ chainFile' = x
               /\ Goto(w, "persistIndex") /\ UNCHANGED <<rec, loaded, answers>>
      <3>1. /\ \A v \in Workers : v # w => pc'[v] = pc[v]
            /\ pc'[w] = "persistIndex"
            /\ acks' = acks /\ loaded' = loaded /\ rec' = rec
        BY <1>2, <2>4 DEF Goto, answers
      <3> QED
        BY <1>1, <2>1, <2>2, <2>4, <3>1, InsideStep
        DEF AnswerInv, FileInv, Undecided, Inside
    <2> QED
      BY <1>6, <2>3, <2>4 DEF PersistChain, Written
  <1>7. ASSUME NEW w \in Workers, Undecided(w), chainFile' = chainFile,
               \/ AnswerAppended(w) \/ AnswerError(w)
               \/ /\ \E label \in {"loadRegistry", "persistRegistry", "rollbackChain"} :
                        Goto(w, label)
                  /\ UNCHANGED <<rec, loaded, answers>>
        PROVE  AnswerInv'
    <2>1. /\ pc[w] \in Inside /\ pc[w] # "idle"
          /\ chainFile = Extend(loaded[w], rec[w])
      BY <1>7 DEF Undecided, Inside, AnswerInv
    <2>2. CASE AnswerAppended(w)
      <3> DEFINE x == Extend(loaded[w], rec[w])
      <3>1. acks' = acks \cup {[rec |-> rec[w], head |-> x.head]}
        BY <2>2 DEF AnswerAppended
      <3>2. /\ Len(x.head) \in 1..Len(x.records)
            /\ Hash(x.records[Len(x.head)]) = x.head
        BY <1>1, <1>2, <2>1, AnswerKept DEF FileInv, Sound
      <3>3. Keeps(chainFile', acks')
        BY <1>7, <2>1, <3>1, <3>2 DEF AnswerInv, Keeps
      <3> QED
        BY <1>1, <2>1, <2>2, <3>3, AnswerStep, InsideStep DEF Undecided, Inside
    <2>3. CASE AnswerError(w)
      <3>1. acks' = acks
        BY <2>3 DEF AnswerError, answers
      <3> QED
        BY <1>1, <1>7, <2>1, <2>3, <3>1, AnswerStep, InsideStep
        DEF AnswerInv, Undecided, Inside
    <2>4. CASE /\ \E label \in {"loadRegistry", "persistRegistry", "rollbackChain"} :
                     Goto(w, label)
               /\ UNCHANGED <<rec, loaded, answers>>
      <3>1. /\ \A v \in Workers : v # w => pc'[v] = pc[v]
            /\ pc'[w] \in {"loadRegistry", "persistRegistry", "rollbackChain"}
            /\ acks' = acks /\ loaded' = loaded /\ rec' = rec
        BY <1>2, <2>4 DEF Goto, answers
      <3> QED
        BY <1>1, <1>7, <2>1, <3>1, InsideStep DEF AnswerInv, Undecided, Inside
    <2> QED
      BY <1>7, <2>2, <2>3, <2>4
  <1>8. ASSUME NEW w \in Workers, PersistIndex(w)
        PROVE  AnswerInv'
    BY <1>7, <1>8 DEF PersistIndex, Undecided
  <1>9. ASSUME NEW w \in Workers, PersistRegistry(w)
        PROVE  AnswerInv'
    BY <1>7, <1>9 DEF PersistRegistry, Undecided
  <1>10. ASSUME NEW w \in Workers, chainFile' = chainFile, acks' = acks,
               pc[w] \in {"lock", "reloadRegistry", "repersistRegistry", "rollbackIndex",
                          "loadIndex"},
               \/ AnswerDeduped(w) \/ AnswerError(w)
               \/ Goto(w, "repersistRegistry") /\ UNCHANGED <<rec, loaded>>
                  /\ pc[w] = "reloadRegistry"
        PROVE  AnswerInv'
    <2>1. CASE AnswerDeduped(w) \/ AnswerError(w)
      <3>1. /\ \A v \in Workers : v # w => pc'[v] = pc[v] /\ loaded'[v] = loaded[v]
                                              /\ rec'[v] = rec[v]
            /\ pc'[w] = "idle"
        BY <2>1 DEF AnswerDeduped, AnswerError, Return, Reset
      <3> QED
        BY <1>1, <1>10, <3>1 DEF AnswerInv, Undecided, Inside, Keeps, Extend
    <2>2. CASE /\ Goto(w, "repersistRegistry") /\ UNCHANGED <<rec, loaded>>
               /\ pc[w] = "reloadRegistry"
      <3>1. /\ \A v \in Workers : v # w => pc'[v] = pc[v]
            /\ pc'[w] = "repersistRegistry" /\ pc[w] \in Inside
            /\ loaded' = loaded
        BY <1>2, <2>2 DEF Goto, Inside
      <3> QED
        BY <1>1, <1>10, <3>1, InsideStep DEF AnswerInv, Undecided, Inside
    <2> QED
      BY <1>10, <2>1, <2>2
  <1>11. ASSUME NEW w \in Workers, LoadRegistry(w)
         PROVE  AnswerInv'
    <2>1. CASE pc[w] = "loadRegistry"
      BY <1>7, <1>11, <2>1 DEF LoadRegistry, Undecided, files
    <2>2. CASE pc[w] = "reloadRegistry"
      BY <1>10, <1>11, <2>2 DEF LoadRegistry, files, answers
    <2> QED
      BY <1>11, <2>1, <2>2 DEF LoadRegistry
  <1>12. ASSUME NEW w \in Workers, RepersistRegistry(w)
         PROVE  AnswerInv'
    BY <1>10, <1>12 DEF RepersistRegistry, AnswerDeduped, AnswerError, answers
  <1>13. ASSUME NEW w \in Workers, RollbackChain(w)
         PROVE  AnswerInv'
    <2>1. /\ pc[w] = "rollbackChain" /\ pc[w] \in Inside
          /\ chainFile' \in {chainFile, loaded[w]}
          /\ acks' = acks /\ loaded' = loaded
          /\ \A v \in Workers : v # w => pc'[v] = pc[v]
          /\ pc'[w] = "rollbackIndex"
      BY <1>2, <1>13 DEF RollbackChain, Written, Goto, answers, Inside
    <2>2. Keeps(chainFile', acks') /\ Keeps(loaded'[w], acks')
      BY <2>1 DEF AnswerInv
    <2> QED
      BY <1>1, <2>1, <2>2, InsideStep DEF Undecided
  <1>14. ASSUME NEW w \in Workers, RollbackIndex(w)
         PROVE  AnswerInv'
    BY <1>10, <1>14 DEF RollbackIndex, AnswerError, answers
  <1>15. ASSUME NEW w \in Workers, ReadFails(w)
         PROVE  AnswerInv'
    <2>1. CASE pc[w] = "loadRegistry"
      BY <1>7, <1>15, <2>1 DEF ReadFails, Undecided, files
    <2>2. CASE pc[w] \in {"lock", "loadIndex", "reloadRegistry"}
      BY <1>10, <1>15, <2>2 DEF ReadFails, AnswerError, files, answers
    <2> QED
      BY <1>15, <2>1, <2>2 DEF ReadFails
  <1>16. ASSUME NEW s \in Stores, Crash(s)
         PROVE  AnswerInv'
    <2>1. /\ chainFile' = chainFile /\ acks' = acks
          /\ \A v \in Workers : \/ pc'[v] = "idle"
                                \/ /\ pc'[v] = pc[v] /\ loaded'[v] = loaded[v]
                                   /\ rec'[v] = rec[v]
      BY <1>16 DEF Crash, Reset, files, answers
    <2> QED
      BY <1>1, <2>1 DEF AnswerInv, Undecided, Inside, Keeps, Extend
  <1>17. CASE Tick \/ UNCHANGED vars
    BY <1>1, <1>17 DEF Tick, vars, files, locals, answers, AnswerInv, Undecided,
                       Keeps, Extend
  <1> QED
    BY <1>3, <1>4, <1>5, <1>6, <1>8, <1>9, <1>11, <1>12, <1>13, <1>14,
       <1>15, <1>16, <1>17 DEF Next, Step

(* With one process on the directory, an answer is never taken back: the   *)
(* head hash of every answered append is the hash of the chain record at   *)
(* its position for ever, through rollbacks, failed writes and crashes.    *)
THEOREM AnswersAlwaysKept ==
    ASSUME SingleProcess
    PROVE  Spec => []AnswersKept
  <1>1. Init => AnswerInv
    BY InitAnswer
  <1>2. AnswerInv /\ [Next]_vars => AnswerInv'
    BY NextAnswer
  <1>3. AnswerInv => AnswersKept
    BY DEF AnswerInv, AnswersKept
  <1> QED
    BY <1>1, <1>2, <1>3, PTL DEF Spec

-----------------------------------------------------------------------------
(* The store implements the append-only log of EvidenceLog.  While its one *)
(* worker inside can still roll back, the log is the chain it read; the    *)
(* log grows when the worker answers, dies, or fails to roll back.         *)

LEMMA SettledFacts ==
    AnswerInv => /\ \A w \in Workers : Undecided(w) => SettledChain = loaded[w]
                 /\ (\A w \in Workers : ~ Undecided(w)) => SettledChain = chainFile
                 /\ SettledChain \in Chain /\ Sound(SettledChain)
  <1> SUFFICES ASSUME AnswerInv
               PROVE  /\ \A w \in Workers : Undecided(w) => SettledChain = loaded[w]
                      /\ (\A w \in Workers : ~ Undecided(w))
                            => SettledChain = chainFile
                      /\ SettledChain \in Chain /\ Sound(SettledChain)
    OBVIOUS
  <1>1. ASSUME NEW w \in Workers, Undecided(w)
        PROVE  SettledChain = loaded[w]
    <2>1. \A v \in Workers : Undecided(v) => v = w
      BY <1>1 DEF AnswerInv, Undecided, Inside
    <2>2. (CHOOSE v \in Workers : Undecided(v)) = w
      BY <1>1, <2>1
    <2> QED
      BY <1>1, <2>2 DEF SettledChain
  <1>2. (\A w \in Workers : ~ Undecided(w)) => SettledChain = chainFile
    BY DEF SettledChain
  <1>3. /\ chainFile \in Chain /\ Sound(chainFile)
        /\ \A w \in Workers : loaded[w] \in Chain /\ Sound(loaded[w])
    BY DEF AnswerInv, FileInv, Typed, TypeOK
  <1> QED
    BY <1>1, <1>2, <1>3

LEMMA SettledLogIsHead == AnswerInv => SettledLog = SettledChain.head
  <1> SUFFICES ASSUME AnswerInv PROVE SettledLog = SettledChain.head
    OBVIOUS
  <1> DEFINE c == SettledChain
  <1>1. c \in Chain /\ Sound(c)
    BY SettledFacts
  <1>2. c.head \in Seq(Records) /\ Len(c.head) = Len(c.records)
    BY <1>1 DEF Sound, Sized, Chain, Hashes
  <1>3. \A i \in 1..Len(c.records) : c.head[i] = c.records[i].rec
    BY <1>1 DEF Sound, Named
  <1> HIDE DEF c
  <1>4. c.head = [i \in 1..Len(c.head) |-> c.head[i]]
    BY <1>2
  <1>5. [i \in 1..Len(c.records) |-> c.records[i].rec] = c.head
    BY <1>2, <1>3, <1>4
  <1> QED
    BY <1>5 DEF SettledLog, c

(* A record whose key no record of a sound chain has repeats no key of the *)
(* log the chain stands for.                                               *)
LEMMA FreshInLog ==
    ASSUME NEW c \in Chain, Sound(c), NEW r \in Records,
           ~ ChainHasKey(c, DedupeKey[r])
    PROVE  ~ RepeatsKey(c.head, r)
  BY DEF Sound, Sized, Named, ChainHasKey, RepeatsKey, Chain

(* A step is quiet, or ends the call of the worker that could roll back,   *)
(* or is the chain write that lets a worker roll back.                     *)
Quiet ==
    /\ chainFile' = chainFile /\ acks' = acks
    /\ \A v \in Workers : /\ Undecided(v)' <=> Undecided(v)
                          /\ Undecided(v) => loaded'[v] = loaded[v]

Decides(w) ==
    /\ Undecided(w)
    /\ \A v \in Workers : ~ Undecided(v)'
    /\ \/ chainFile' = loaded[w] /\ acks' = acks
       \/ /\ chainFile' = chainFile
          /\ acks' \in {acks, acks \cup
                {[rec |-> rec[w], head |-> Extend(loaded[w], rec[w]).head]}}

Writes(w) ==
    /\ pc[w] = "persistChain" /\ acks' = acks
    /\ \A v \in Workers : ~ Undecided(v)
    /\ \/ Undecided(w)' /\ loaded'[w] = loaded[w]
       \/ /\ \A v \in Workers : ~ Undecided(v)'
          /\ chainFile' \in {chainFile, Extend(loaded[w], rec[w])}

LEMMA StepKinds ==
    ASSUME SingleProcess, AnswerInv, [Next]_vars
    PROVE  Quiet \/ \E w \in Workers : Decides(w) \/ Writes(w)
  <1>1. /\ pc \in [Workers -> Inside \cup {"idle", "lock"}]
        /\ \A u, v \in Workers : pc[u] \in Inside /\ pc[v] \in Inside => u = v
    BY DEF AnswerInv, FileInv, Typed, TypeOK
  <1>2. ASSUME NEW w \in Workers, pc[w] \in Inside, NEW v \in Workers, v # w
        PROVE  ~ Undecided(v)
    BY <1>1, <1>2 DEF Undecided, Inside
  \* A step that moves one worker between decided places, or between
  \* undecided ones, is quiet.
  <1>3. ASSUME NEW w \in Workers, chainFile' = chainFile, acks' = acks,
               \A v \in Workers : v # w => pc'[v] = pc[v] /\ loaded'[v] = loaded[v],
               Undecided(w)' <=> Undecided(w),
               Undecided(w) => loaded'[w] = loaded[w]
        PROVE  Quiet
    BY <1>3 DEF Quiet, Undecided
  <1>4. ASSUME NEW w \in Workers, chainFile' = chainFile, ~ Undecided(w),
               AnswerDeduped(w) \/ AnswerError(w)
        PROVE  Quiet
    BY <1>3, <1>4 DEF AnswerDeduped, AnswerError, Return, Reset, answers, Undecided
  <1>5. ASSUME NEW w \in Workers, chainFile' = chainFile, acks' = acks,
               NEW label, Goto(w, label), loaded' = loaded,
               label \in {"persistIndex", "loadRegistry", "persistRegistry",
                          "rollbackChain"} <=> Undecided(w)
        PROVE  Quiet
    <2>1. /\ pc'[w] = label
          /\ \A v \in Workers : v # w => pc'[v] = pc[v] /\ loaded'[v] = loaded[v]
      BY <1>1, <1>5 DEF Goto
    <2>2. Undecided(w)' <=> Undecided(w)
      BY <1>5, <2>1 DEF Undecided
    <2> QED
      BY <1>3, <1>5, <2>1, <2>2
  <1>6. ASSUME NEW w \in Workers, chainFile' = chainFile, Undecided(w),
               AnswerAppended(w)
        PROVE  Decides(w)
    <2>1. \A v \in Workers : v # w => ~ Undecided(v)
      BY <1>2, <1>6 DEF Undecided, Inside
    <2>2. \A v \in Workers : ~ Undecided(v)'
      BY <1>6, <2>1 DEF AnswerAppended, Return, Reset, Undecided
    <2> QED
      BY <1>6, <2>2 DEF Decides, AnswerAppended
  <1>7. ASSUME NEW w \in Workers, NEW r \in Records, Call(w, r)
        PROVE  Quiet
    BY <1>5, <1>7 DEF Call, files, answers, Undecided
  <1>8. ASSUME NEW w \in Workers, LoadChain(w)
        PROVE  Quiet
    <2>1. /\ pc[w] = "lock" /\ pc'[w] = "loadIndex"
          /\ chainFile' = chainFile /\ acks' = acks
          /\ \A v \in Workers : v # w => pc'[v] = pc[v] /\ loaded'[v] = loaded[v]
      BY <1>1, <1>8 DEF LoadChain, Goto, files, answers, AnswerInv, FileInv, Typed, TypeOK
    <2> QED
      BY <1>3, <2>1 DEF Undecided
  <1>9. ASSUME NEW w \in Workers, LoadIndex(w)
        PROVE  Quiet
    <2>1. chainFile' = chainFile /\ pc[w] = "loadIndex" /\ ~ Undecided(w)
      BY <1>9 DEF LoadIndex, files, Undecided
    <2>2. CASE AnswerDeduped(w) \/ AnswerError(w)
      BY <1>4, <2>1, <2>2
    <2>3. CASE /\ Goto(w, "reloadRegistry") \/ Goto(w, "persistChain")
               /\ UNCHANGED <<loaded, answers>>
      BY <1>5, <2>1, <2>3 DEF answers
    <2> QED
      BY <1>9, <2>2, <2>3 DEF LoadIndex
  <1>10. ASSUME NEW w \in Workers, PersistChain(w)
         PROVE  Writes(w)
    <2>1. pc[w] = "persistChain" /\ \A v \in Workers : ~ Undecided(v)
      BY <1>2, <1>10 DEF PersistChain, Inside, Undecided
    <2>2. CASE AnswerError(w)
      BY <1>10, <2>1, <2>2 DEF PersistChain, Written, AnswerError, Return, Reset,
                               answers, Writes, Undecided
    <2>3. CASE Goto(w, "persistIndex") /\ UNCHANGED <<loaded, answers>>
      BY <1>1, <2>1, <2>3 DEF Goto, answers, Writes, Undecided
    <2> QED
      BY <1>10, <2>2, <2>3 DEF PersistChain
  <1>11. ASSUME NEW w \in Workers, PersistIndex(w)
         PROVE  Quiet \/ Decides(w)
    BY <1>5, <1>6, <1>11 DEF PersistIndex, Undecided, answers
  <1>12. ASSUME NEW w \in Workers, LoadRegistry(w)
         PROVE  Quiet
    BY <1>5, <1>12 DEF LoadRegistry, Undecided, files, answers
  <1>13. ASSUME NEW w \in Workers, PersistRegistry(w)
         PROVE  Quiet \/ Decides(w)
    BY <1>5, <1>6, <1>13 DEF PersistRegistry, Undecided, answers
  <1>14. ASSUME NEW w \in Workers, RepersistRegistry(w)
         PROVE  Quiet
    BY <1>4, <1>14 DEF RepersistRegistry, Undecided
  <1>15. ASSUME NEW w \in Workers, RollbackChain(w)
         PROVE  Decides(w)
    <2>1. /\ Undecided(w) /\ chainFile' \in {chainFile, loaded[w]} /\ acks' = acks
          /\ pc'[w] = "rollbackIndex"
          /\ \A v \in Workers : v # w => pc'[v] = pc[v]
      BY <1>1, <1>15 DEF RollbackChain, Written, Goto, answers, Undecided
    <2>2. \A v \in Workers : ~ Undecided(v)'
      BY <1>2, <2>1 DEF Undecided, Inside
    <2> QED
      BY <2>1, <2>2 DEF Decides
  <1>16. ASSUME NEW w \in Workers, RollbackIndex(w)
         PROVE  Quiet
    BY <1>4, <1>16 DEF RollbackIndex, Undecided
  <1>17. ASSUME NEW w \in Workers, ReadFails(w)
         PROVE  Quiet
    BY <1>4, <1>5, <1>17 DEF ReadFails, Undecided, files, answers
  <1>18. ASSUME NEW s \in Stores, Crash(s)
         PROVE  Quiet \/ \E w \in Workers : Decides(w)
    <2>1. \A v \in Workers : StoreOf[v] = s
      BY <1>18 DEF Crash, SingleProcess
    <2>2. /\ chainFile' = chainFile /\ acks' = acks
          /\ \A v \in Workers : ~ Undecided(v)'
      BY <1>18, <2>1 DEF Crash, Reset, files, answers, Undecided
    <2> QED
      BY <2>2 DEF Quiet, Decides
  <1>19. CASE Tick \/ UNCHANGED vars
    BY <1>19 DEF Tick, vars, files, locals, answers, Quiet, Undecided
  <1> QED
    BY <1>7, <1>8, <1>9, <1>10, <1>11, <1>12, <1>13, <1>14, <1>15, <1>16,
       <1>17, <1>18, <1>19 DEF Next, Step

(* Every step leaves the settled chain and the answers alone, or commits   *)
(* one fresh record, with its answer or without.                           *)
LEMMA SettledStep ==
    ASSUME SingleProcess, AnswerInv, AnswerInv', [Next]_vars
    PROVE  \/ SettledChain' = SettledChain /\ acks' = acks
           \/ \E r \in Records :
                 /\ ~ ChainHasKey(SettledChain, DedupeKey[r])
                 /\ SettledChain' = Extend(SettledChain, r)
                 /\ acks' \in {acks, acks \cup
                       {[rec |-> r, head |-> Extend(SettledChain, r).head]}}
  <1>1. /\ \A w \in Workers : Undecided(w)' => SettledChain' = loaded'[w]
        /\ (\A w \in Workers : ~ Undecided(w)') => SettledChain' = chainFile'
    <2>1. (AnswerInv => /\ \A w \in Workers : Undecided(w) => SettledChain = loaded[w]
                        /\ (\A w \in Workers : ~ Undecided(w))
                              => SettledChain = chainFile
                        /\ SettledChain \in Chain /\ Sound(SettledChain))'
      BY SettledFacts, PTL
    <2> QED
      BY <2>1
  <1>2. \A w \in Workers : pc[w] # "idle" => rec[w] \in Records
    BY DEF AnswerInv, FileInv, Typed
  <1>3. CASE Quiet
    <2>1. CASE \E w \in Workers : Undecided(w)
      BY <1>1, <1>3, <2>1, SettledFacts DEF Quiet
    <2>2. CASE \A w \in Workers : ~ Undecided(w)
      BY <1>1, <1>3, <2>2, SettledFacts DEF Quiet
    <2> QED
      BY <2>1, <2>2
  <1>4. ASSUME NEW w \in Workers, Decides(w)
        PROVE  \/ SettledChain' = SettledChain /\ acks' = acks
               \/ /\ ~ ChainHasKey(SettledChain, DedupeKey[rec[w]])
                  /\ SettledChain' = Extend(SettledChain, rec[w])
                  /\ acks' \in {acks, acks \cup
                        {[rec |-> rec[w],
                          head |-> Extend(SettledChain, rec[w]).head]}}
    BY <1>1, <1>4, SettledFacts DEF Decides, AnswerInv
  <1>5. ASSUME NEW w \in Workers, Writes(w)
        PROVE  \/ SettledChain' = SettledChain /\ acks' = acks
               \/ /\ ~ ChainHasKey(SettledChain, DedupeKey[rec[w]])
                  /\ SettledChain' = Extend(SettledChain, rec[w])
                  /\ acks' = acks
    <2>1. SettledChain = chainFile /\ loaded[w] = chainFile
      BY <1>5, SettledFacts DEF Writes, AnswerInv
    <2>2. ~ ChainHasKey(chainFile, DedupeKey[rec[w]])
      BY <1>5, <2>1 DEF Writes, AnswerInv, FileInv
    <2> QED
      BY <1>1, <1>5, <2>1, <2>2 DEF Writes
  <1>6. \A w \in Workers : Decides(w) \/ Writes(w) => rec[w] \in Records
    BY <1>2 DEF Decides, Writes, Undecided
  <1> QED
    BY <1>3, <1>4, <1>5, <1>6, StepKinds

-----------------------------------------------------------------------------
(* The registry, for one process.  A lifecycle record whose append was     *)
(* answered stays in the chain, so it is never appended again, and nothing *)
(* but its own registration touches its receipt.                           *)
LifecycleKeysDerived == \A r \in Lifecycle : ~ Manual(r)

Told(r) == r \in Lifecycle /\ (r \in skipped \/ \E a \in acks : a.rec = r)

Receipted(r) ==
    \A i \in Positions(chainFile, r) :
        [rec |-> r, hash |-> Hash(chainFile.records[i])] \in registryFile

RegistryInv ==
    /\ \A r : Told(r) => Positions(chainFile, r) # {} /\ Receipted(r)
    /\ \A w \in Workers :
          /\ pc[w] \in Inside => \A r : Told(r) => Positions(loaded[w], r) # {}
          /\ pc[w] \in {"reloadRegistry", "repersistRegistry"}
             => loaded[w] = chainFile
          /\ pc[w] \in {"persistRegistry", "repersistRegistry"}
             => registry[w] = registryFile

LEMMA ExtendPositions ==
    ASSUME NEW c \in Chain, NEW r \in Records, NEW q
    PROVE  LET x == Extend(c, r)
               n == Len(c.records)
           IN  /\ Positions(c, q) \subseteq Positions(x, q)
               /\ Positions(x, q) \subseteq Positions(c, q) \cup {n + 1}
               /\ q # r => Positions(x, q) = Positions(c, q)
               /\ \A i \in Positions(c, q) : x.records[i] = c.records[i]
               /\ Hash(x.records[n + 1]) = x.head
               /\ n + 1 \notin Positions(c, q)
  <1> DEFINE x == Extend(c, r)
             n == Len(c.records)
  <1>1. /\ Len(x.records) = n + 1 /\ n \in Nat
        /\ \A i \in 1..n : x.records[i] = c.records[i]
        /\ x.records[n + 1] = [rec |-> r, prev |-> c.head]
        /\ x.head = Hash(x.records[n + 1])
    BY ExtendShape
  <1> HIDE DEF x
  <1>3. x.records[n + 1].rec = r
    BY <1>1
  <1>2. 1..(n + 1) = 1..n \cup {n + 1} /\ n + 1 \notin 1..n
    BY <1>1
  <1> QED
    BY <1>1, <1>2, <1>3 DEF Positions, x

(* A lifecycle record is in a sound chain once.                            *)
LEMMA OnePosition ==
    ASSUME LifecycleKeysDerived, NEW c \in Chain, Sound(c), NEW r \in Lifecycle,
           NEW i \in Positions(c, r), NEW j \in Positions(c, r)
    PROVE  i = j
  <1>1. i \in 1..Len(c.records) /\ j \in 1..Len(c.records) /\ Len(c.records) \in Nat
        /\ c.records[i].rec = r /\ c.records[j].rec = r
    BY DEF Positions, Chain
  <1>2. ~ Manual(r) /\ KeysDistinct(c)
    BY DEF LifecycleKeysDerived, Sound
  <1>3. ~ (i < j)
    <2>1. i < j => i \in 1..(j - 1)
      BY <1>1
    <2> QED
      BY <1>1, <1>2, <2>1 DEF KeysDistinct
  <1>4. ~ (j < i)
    <2>1. j < i => j \in 1..(i - 1)
      BY <1>1
    <2> QED
      BY <1>1, <1>2, <2>1 DEF KeysDistinct
  <1> QED
    BY <1>1, <1>3, <1>4

(* A worker that writes has a record nobody was told about.                *)
LEMMA FreshIsUntold ==
    ASSUME LifecycleKeysDerived, AnswerInv, RegistryInv, NEW w \in Workers,
           pc[w] = "persistChain" \/ Undecided(w)
    PROVE  ~ Told(rec[w])
  <1>1. ~ ChainHasKey(loaded[w], DedupeKey[rec[w]]) /\ pc[w] \in Inside
    BY DEF AnswerInv, FileInv, Undecided, Inside
  <1>2. SUFFICES ASSUME Told(rec[w]) PROVE FALSE
    OBVIOUS
  <1>3. Positions(loaded[w], rec[w]) # {} /\ rec[w] \in Lifecycle
    BY <1>1, <1>2 DEF RegistryInv, Told
  <1>4. DedupeKey[rec[w]] = BuildKey[rec[w]]
    BY <1>3 DEF LifecycleKeysDerived, Manual
  <1> QED
    BY <1>1, <1>3, <1>4 DEF Positions, ChainHasKey

(* While a worker is inside, only what it does matters.                    *)
LEMMA RegistryStep ==
    ASSUME AnswerInv, RegistryInv, NEW w \in Workers, pc[w] \in Inside,
           \A v \in Workers : v # w => pc'[v] = pc[v],
           \A r : Told(r)' => Positions(chainFile', r) # {} /\ Receipted(r)',
           pc'[w] \in Inside
              => loaded'[w] = loaded[w] /\ \A r : Told(r)' => Told(r),
           pc'[w] \in {"reloadRegistry", "repersistRegistry"}
              => loaded'[w] = chainFile',
           pc'[w] \in {"persistRegistry", "repersistRegistry"}
              => registry'[w] = registryFile'
    PROVE  RegistryInv'
  <1>1. \A v \in Workers : v # w => pc'[v] \notin Inside
    BY DEF AnswerInv
  <1>2. ASSUME NEW v \in Workers
        PROVE  /\ pc'[v] \in Inside => \A r : Told(r)' => Positions(loaded'[v], r) # {}
               /\ pc'[v] \in {"reloadRegistry", "repersistRegistry"}
                  => loaded'[v] = chainFile'
               /\ pc'[v] \in {"persistRegistry", "repersistRegistry"}
                  => registry'[v] = registryFile'
    <2>1. CASE v = w
      BY <2>1 DEF RegistryInv
    <2>2. CASE v # w
      BY <1>1, <2>2 DEF Inside
    <2> QED
      BY <2>1, <2>2
  <1> QED
    BY <1>2 DEF RegistryInv, Positions

(* Answers that tell of no lifecycle record, and what leaves chain and     *)
(* registry alone.                                                         *)
LEMMA SameTold ==
    ASSUME UNCHANGED <<acks, skipped>>
    PROVE  \A r : Told(r)' <=> Told(r)
  BY DEF Told

LEMMA SameFiles ==
    ASSUME RegistryInv, chainFile' = chainFile, registryFile' = registryFile,
           \A r : Told(r)' => Told(r)
    PROVE  \A r : Told(r)' => Positions(chainFile', r) # {} /\ Receipted(r)'
  BY DEF RegistryInv, Receipted

LEMMA NextRegistry ==
    ASSUME LifecycleKeysDerived, SingleProcess, AnswerInv, RegistryInv, [Next]_vars
    PROVE  RegistryInv'
  <1>1. /\ pc \in [Workers -> Inside \cup {"idle", "lock"}]
        /\ rec \in [Workers -> Records \cup {NoRecord}]
        /\ loaded \in [Workers -> Chain]
        /\ registry \in [Workers -> Registry]
        /\ chainFile \in Chain /\ Sound(chainFile)
        /\ \A w \in Workers : pc[w] # "idle" => rec[w] \in Records
        /\ Typed
    BY DEF AnswerInv, FileInv, Typed, TypeOK
  <1>2. ASSUME NEW w \in Workers, NEW r \in Records, Call(w, r)
        PROVE  RegistryInv'
    <2>1. /\ UNCHANGED <<chainFile, registryFile, acks, skipped, loaded, registry>>
          /\ \A v \in Workers : v # w => pc'[v] = pc[v]
          /\ pc'[w] = "lock"
      BY <1>1, <1>2 DEF Call, Goto, files, answers
    <2> QED
      BY <2>1, SameTold, SameFiles DEF RegistryInv, Inside
  <1>3. ASSUME NEW w \in Workers, LoadChain(w)
        PROVE  RegistryInv'
    <2>1. /\ UNCHANGED <<chainFile, registryFile, acks, skipped, registry>>
          /\ \A v \in Workers : v # w => pc'[v] = pc[v] /\ loaded'[v] = loaded[v]
          /\ pc'[w] = "loadIndex" /\ loaded'[w] = chainFile
      BY <1>1, <1>3 DEF LoadChain, Goto, files, answers
    <2> QED
      BY <2>1, SameTold, SameFiles DEF RegistryInv
  <1>4. ASSUME NEW w \in Workers, AnswerError(w), pc[w] \in Inside,
               chainFile' = chainFile, registryFile' = registryFile
        PROVE  RegistryInv'
    <2>1. UNCHANGED <<acks, skipped>> /\ pc'[w] = "idle"
          /\ \A v \in Workers : v # w => pc'[v] = pc[v]
      BY <1>1, <1>4, AnswerStep DEF AnswerError, answers
    <2> QED
      BY <1>4, <2>1, SameTold, SameFiles, RegistryStep DEF Inside
  <1>5. ASSUME NEW w \in Workers, NEW label, Goto(w, label), pc[w] \in Inside,
               chainFile' = chainFile, registryFile' = registryFile,
               UNCHANGED <<loaded, answers>>,
               label \notin {"persistRegistry", "repersistRegistry"},
               label = "reloadRegistry" => loaded[w] = chainFile
        PROVE  RegistryInv'
    <2>1. UNCHANGED <<acks, skipped>> /\ pc'[w] = label
          /\ \A v \in Workers : v # w => pc'[v] = pc[v]
      BY <1>1, <1>5 DEF Goto, answers
    <2> QED
      BY <1>5, <2>1, SameTold, SameFiles, RegistryStep
  <1>6. ASSUME NEW w \in Workers, LoadIndex(w)
        PROVE  RegistryInv'
    <2>1. /\ pc[w] \in Inside /\ loaded[w] = chainFile
          /\ chainFile' = chainFile /\ registryFile' = registryFile
      BY <1>6 DEF LoadIndex, files, Inside, AnswerInv
    <2>2. CASE rec[w] \notin Lifecycle /\ AnswerDeduped(w)
      <3>1. /\ skipped' = skipped \cup {rec[w]} /\ acks' = acks /\ pc'[w] = "idle"
            /\ \A v \in Workers : v # w => pc'[v] = pc[v]
        BY <1>1, <2>2, AnswerStep DEF AnswerDeduped
      <3>2. \A r : Told(r)' => Told(r)
        BY <2>2, <3>1 DEF Told
      <3> QED
        BY <2>1, <3>1, <3>2, SameFiles, RegistryStep DEF Inside
    <2>3. CASE AnswerError(w)
      BY <1>4, <2>1, <2>3
    <2>4. CASE /\ Goto(w, "reloadRegistry") \/ Goto(w, "persistChain")
               /\ UNCHANGED <<loaded, answers>>
      BY <1>5, <2>1, <2>4
    <2> QED
      BY <1>6, <2>2, <2>3, <2>4 DEF LoadIndex
  \* Linking a fresh record moves no other one.
  <1>7. ASSUME NEW w \in Workers, PersistChain(w)
        PROVE  RegistryInv'
    <2> DEFINE x == Extend(loaded[w], rec[w])
    <2>1. /\ pc[w] = "persistChain" /\ pc[w] \in Inside /\ loaded[w] = chainFile
          /\ chainFile' \in {chainFile, x} /\ registryFile' = registryFile
          /\ rec[w] \in Records
      BY <1>1, <1>7 DEF PersistChain, Written, Inside, AnswerInv
    <2>2. ~ Told(rec[w])
      BY <2>1, FreshIsUntold
    <2>3. /\ UNCHANGED <<acks, skipped>> /\ pc'[w] \in {"idle", "persistIndex"}
          /\ \A v \in Workers : v # w => pc'[v] = pc[v]
          /\ pc'[w] = "persistIndex" => loaded' = loaded
      BY <1>1, <1>7, AnswerStep DEF PersistChain, AnswerError, Goto, answers
    <2>4. ASSUME NEW r, Told(r)
          PROVE  Positions(chainFile', r) # {} /\ Receipted(r)'
      <3>1. /\ Positions(x, r) = Positions(chainFile, r)
            /\ \A i \in Positions(chainFile, r) : x.records[i] = chainFile.records[i]
        BY <1>1, <2>1, <2>2, <2>4, ExtendPositions
      <3> HIDE DEF x
      <3> QED
        BY <2>1, <2>4, <3>1 DEF RegistryInv, Receipted
    <2> QED
      BY <2>1, <2>3, <2>4, SameTold, RegistryStep DEF Inside
  <1>8. ASSUME NEW w \in Workers, PersistIndex(w)
        PROVE  RegistryInv'
    <2>1. /\ Undecided(w) /\ pc[w] \in Inside
          /\ chainFile' = chainFile /\ registryFile' = registryFile
      BY <1>8 DEF PersistIndex, Undecided, Inside
    <2>2. CASE rec[w] \notin Lifecycle /\ AnswerAppended(w)
      <3>1. /\ skipped' = skipped /\ pc'[w] = "idle"
            /\ \A a \in acks' : a \in acks \/ a.rec = rec[w]
            /\ \A v \in Workers : v # w => pc'[v] = pc[v]
        BY <1>1, <2>2, AnswerStep DEF AnswerAppended
      <3>2. \A r : Told(r)' => Told(r)
        BY <2>2, <3>1 DEF Told
      <3> QED
        BY <2>1, <3>1, <3>2, SameFiles, RegistryStep DEF Inside
    <2>3. CASE /\ Goto(w, "loadRegistry") \/ Goto(w, "rollbackChain")
               /\ UNCHANGED <<loaded, answers>>
      BY <1>5, <2>1, <2>3
    <2> QED
      BY <1>8, <2>2, <2>3 DEF PersistIndex
  <1>9. ASSUME NEW w \in Workers, LoadRegistry(w)
        PROVE  RegistryInv'
    <2>1. /\ pc[w] \in {"loadRegistry", "reloadRegistry"} /\ pc[w] \in Inside
          /\ UNCHANGED <<chainFile, registryFile, acks, skipped, loaded>>
          /\ registry'[w] = registryFile
          /\ pc'[w] = IF pc[w] = "loadRegistry" THEN "persistRegistry"
                      ELSE "repersistRegistry"
          /\ \A v \in Workers : v # w => pc'[v] = pc[v]
      BY <1>1, <1>9 DEF LoadRegistry, Goto, files, answers, Inside
    <2>2. pc[w] = "reloadRegistry" => loaded[w] = chainFile
      BY DEF RegistryInv
    <2> QED
      BY <2>1, <2>2, SameTold, SameFiles, RegistryStep
  \* The receipt of the record that is registered is replaced, no other.
  <1>10. ASSUME NEW w \in Workers, NEW r \in Records, NEW hash,
                registryFile' \in {registryFile, Upsert(registryFile, r, hash)},
                chainFile' = chainFile,
                NEW q, Told(q), q # r
         PROVE  Positions(chainFile', q) # {} /\ Receipted(q)'
    BY <1>10 DEF RegistryInv, Receipted, Upsert
  <1>11. ASSUME NEW w \in Workers, PersistRegistry(w)
         PROVE  RegistryInv'
    <2> DEFINE x == Extend(loaded[w], rec[w])
    <2>1. /\ pc[w] = "persistRegistry" /\ Undecided(w) /\ pc[w] \in Inside
          /\ rec[w] \in Records /\ chainFile' = chainFile /\ chainFile = x
          /\ registry[w] = registryFile
          /\ registryFile' \in {registryFile, Upsert(registryFile, rec[w], x.head)}
      BY <1>1, <1>11 DEF PersistRegistry, Written, Undecided, Inside, AnswerInv, RegistryInv
    <2>2. ~ Told(rec[w])
      BY <2>1, FreshIsUntold
    <2>3. \A q : Told(q) => Positions(chainFile', q) # {} /\ Receipted(q)'
      BY <1>10, <2>1, <2>2
    <2>4. CASE /\ AnswerAppended(w)
               /\ registryFile' = Upsert(registryFile, rec[w], x.head)
      <3>1. /\ skipped' = skipped /\ pc'[w] = "idle"
            /\ \A a \in acks' : a \in acks \/ a.rec = rec[w]
            /\ \A v \in Workers : v # w => pc'[v] = pc[v]
        BY <1>1, <2>4, AnswerStep DEF AnswerAppended
      <3>2. \A q : Told(q)' => Told(q) \/ (q = rec[w] /\ q \in Lifecycle)
        BY <3>1 DEF Told
      <3>3. ASSUME NEW q \in Lifecycle, q = rec[w]
            PROVE  Positions(chainFile', q) # {} /\ Receipted(q)'
        <4> DEFINE n == Len(loaded[w].records)
        <4>1. /\ Len(x.records) = n + 1 /\ n \in Nat
              /\ x.records[n + 1] = [rec |-> rec[w], prev |-> loaded[w].head]
              /\ Hash(x.records[n + 1]) = x.head
          BY <1>1, <2>1, ExtendShape
        <4> HIDE DEF x, n
        <4>2. n + 1 \in 1..Len(chainFile.records) /\ chainFile.records[n + 1].rec = rec[w]
          BY <2>1, <4>1
        <4>3. n + 1 \in Positions(chainFile, rec[w])
          BY <4>2 DEF Positions
        <4>4. \A i \in Positions(chainFile, rec[w]) : i = n + 1
          BY <1>1, <3>3, <4>3, OnePosition
        <4>5. \A i \in Positions(chainFile, rec[w]) : Hash(chainFile.records[i]) = x.head
          BY <2>1, <4>1, <4>4
        <4>6. [rec |-> rec[w], hash |-> x.head] \in registryFile'
          BY <2>4 DEF Upsert
        <4> QED
          BY <2>1, <3>3, <4>3, <4>5, <4>6 DEF Receipted
      <3>4. ASSUME NEW q, Told(q)'
            PROVE  Positions(chainFile', q) # {} /\ Receipted(q)'
        BY <2>3, <3>2, <3>3, <3>4 DEF Receipted
      <3> HIDE DEF x
      <3> QED
        BY <2>1, <3>1, <3>4, RegistryStep DEF Inside
    <2>5. CASE Goto(w, "rollbackChain") /\ UNCHANGED <<loaded, answers>>
      <3>1. /\ UNCHANGED <<acks, skipped>> /\ pc'[w] = "rollbackChain"
            /\ \A v \in Workers : v # w => pc'[v] = pc[v]
        BY <1>1, <2>5 DEF Goto, answers
      <3> QED
        BY <2>1, <2>3, <2>5, <3>1, SameTold, RegistryStep
    <2> QED
      BY <1>11, <2>1, <2>4, <2>5 DEF PersistRegistry, Written
  <1>12. ASSUME NEW w \in Workers, RepersistRegistry(w)
         PROVE  RegistryInv'
    <2> DEFINE h == StoredHash(loaded[w], rec[w])
    <2>1. /\ pc[w] = "repersistRegistry" /\ pc[w] \in Inside
          /\ rec[w] \in Records /\ chainFile' = chainFile /\ loaded[w] = chainFile
          /\ registry[w] = registryFile
          /\ registryFile' \in {registryFile, Upsert(registryFile, rec[w], h)}
          /\ Positions(chainFile, rec[w]) # {}
      BY <1>1, <1>12 DEF RepersistRegistry, Written, Inside, RegistryInv, Typed
    <2>2. ASSUME rec[w] \in Lifecycle, NEW i \in Positions(chainFile, rec[w])
          PROVE  Hash(chainFile.records[i]) = h
      <3>1. PICK j \in Positions(chainFile, rec[w]) : h = Hash(chainFile.records[j])
        BY <1>1, <2>1, StoredHashAt
      <3> QED
        BY <1>1, <2>2, <3>1, OnePosition
    <2> HIDE DEF h
    <2>3. ASSUME NEW q \in Lifecycle, q = rec[w],
                 Told(q) \/ registryFile' = Upsert(registryFile, rec[w], h)
          PROVE  Positions(chainFile', q) # {} /\ Receipted(q)'
      <3>1. \A i \in Positions(chainFile, q) : Hash(chainFile.records[i]) = h
        BY <2>2, <2>3
      <3>2. Told(q) => Receipted(q)
        BY DEF RegistryInv
      <3>3. CASE registryFile' = Upsert(registryFile, rec[w], h)
        <4>1. [rec |-> q, hash |-> h] \in registryFile'
          BY <2>3, <3>3 DEF Upsert
        <4> QED
          BY <2>1, <2>3, <3>1, <4>1 DEF Receipted
      <3>4. CASE Told(q) /\ registryFile' = registryFile
        BY <2>1, <2>3, <3>2, <3>4 DEF Receipted
      <3> QED
        BY <2>1, <2>3, <3>3, <3>4
    <2>4. \A q : Told(q) => Positions(chainFile', q) # {} /\ Receipted(q)'
      <3>1. ASSUME NEW q, Told(q)
            PROVE  Positions(chainFile', q) # {} /\ Receipted(q)'
        <4>1. CASE q # rec[w]
          BY <1>10, <2>1, <3>1, <4>1
        <4>2. CASE q = rec[w]
          BY <2>3, <3>1, <4>2 DEF Told
        <4> QED
          BY <4>1, <4>2
      <3> QED
        BY <3>1
    <2>5. /\ pc'[w] = "idle" /\ acks' = acks
          /\ \A v \in Workers : v # w => pc'[v] = pc[v]
          /\ \/ skipped' = skipped
             \/ /\ skipped' = skipped \cup {rec[w]}
                /\ registryFile' = Upsert(registryFile, rec[w], h)
      <3>1. /\ AnswerDeduped(w) \/ AnswerError(w)
            /\ AnswerDeduped(w) => registryFile' = Upsert(registryFile, rec[w], h)
               \/ AnswerError(w)
        BY <1>12, <2>1 DEF RepersistRegistry, Written, h
      <3> QED
        BY <1>1, <3>1, AnswerStep DEF AnswerDeduped, AnswerError, answers
    <2>6. \A q : Told(q)' => \/ Told(q)
                             \/ /\ q = rec[w] /\ q \in Lifecycle
                                /\ registryFile' = Upsert(registryFile, rec[w], h)
      BY <2>5 DEF Told
    <2>7. ASSUME NEW q, Told(q)'
          PROVE  Positions(chainFile', q) # {} /\ Receipted(q)'
      BY <2>3, <2>4, <2>6, <2>7
    <2> QED
      BY <2>1, <2>5, <2>7, RegistryStep DEF Inside
  <1>13. ASSUME NEW w \in Workers, RollbackChain(w)
         PROVE  RegistryInv'
    <2>1. /\ Undecided(w) /\ pc[w] \in Inside /\ rec[w] \in Records
          /\ chainFile' \in {chainFile, loaded[w]} /\ registryFile' = registryFile
          /\ chainFile = Extend(loaded[w], rec[w])
          /\ UNCHANGED <<acks, skipped, loaded>> /\ pc'[w] = "rollbackIndex"
          /\ \A v \in Workers : v # w => pc'[v] = pc[v]
      BY <1>1, <1>13 DEF RollbackChain, Written, Goto, answers, Undecided, Inside, AnswerInv
    <2>2. ASSUME NEW q, Told(q)
          PROVE  Positions(chainFile', q) # {} /\ Receipted(q)'
      <3>1. CASE chainFile' = chainFile
        BY <2>1, <2>2, <3>1 DEF RegistryInv, Receipted
      <3>2. CASE chainFile' = loaded[w]
        <4>1. /\ Positions(loaded[w], q) \subseteq Positions(chainFile, q)
              /\ \A i \in Positions(loaded[w], q) :
                    chainFile.records[i] = loaded[w].records[i]
          BY <1>1, <2>1, ExtendPositions
        <4>2. Positions(loaded[w], q) # {}
          BY <2>1, <2>2 DEF RegistryInv
        <4> QED
          BY <2>1, <2>2, <3>2, <4>1, <4>2 DEF RegistryInv, Receipted
      <3> QED
        BY <2>1, <3>1, <3>2
    <2> QED
      BY <2>1, <2>2, SameTold, RegistryStep DEF Inside
  <1>14. ASSUME NEW w \in Workers, RollbackIndex(w)
         PROVE  RegistryInv'
    BY <1>4, <1>14 DEF RollbackIndex, Inside
  <1>15. ASSUME NEW w \in Workers, ReadFails(w)
         PROVE  RegistryInv'
    <2>1. CASE pc[w] = "lock" /\ AnswerError(w)
      <3>1. /\ UNCHANGED <<chainFile, registryFile, acks, skipped>> /\ pc'[w] = "idle"
            /\ \A v \in Workers : v # w =>
                  pc'[v] = pc[v] /\ loaded'[v] = loaded[v] /\ registry'[v] = registry[v]
        BY <1>1, <1>15, <2>1 DEF ReadFails, AnswerError, Return, Reset, files, answers
      <3> QED
        BY <3>1, SameTold, SameFiles DEF RegistryInv, Inside
    <2>2. CASE pc[w] \in {"loadIndex", "reloadRegistry"} /\ AnswerError(w)
      BY <1>4, <1>15, <2>2 DEF ReadFails, Inside, files
    <2>3. CASE pc[w] = "loadRegistry" /\ Goto(w, "rollbackChain") /\ UNCHANGED <<loaded, answers>>
      BY <1>5, <1>15, <2>3 DEF ReadFails, Inside, files
    <2> QED
      BY <1>15, <2>1, <2>2, <2>3 DEF ReadFails
  <1>16. ASSUME NEW s \in Stores, Crash(s)
         PROVE  RegistryInv'
    <2>1. \A v \in Workers : StoreOf[v] = s
      BY <1>16 DEF Crash, SingleProcess
    <2>2. /\ UNCHANGED <<chainFile, registryFile, acks, skipped>>
          /\ \A v \in Workers : pc'[v] = "idle"
      BY <1>16, <2>1 DEF Crash, Reset, files, answers
    <2> QED
      BY <2>2, SameTold, SameFiles DEF RegistryInv, Inside
  <1>17. CASE Tick \/ UNCHANGED vars
    <2>1. UNCHANGED <<chainFile, registryFile, acks, skipped, pc, loaded, registry>>
      BY <1>17 DEF Tick, vars, files, locals, answers
    <2> QED
      BY <2>1, SameTold, SameFiles DEF RegistryInv
  <1> QED
    BY <1>2, <1>3, <1>6, <1>7, <1>8, <1>9, <1>11, <1>12, <1>13, <1>14, <1>15,
       <1>16, <1>17 DEF Next, Step

(* With one process on the directory, a lifecycle record whose append was  *)
(* answered has its receipt in the registry under the hash it has in the   *)
(* chain, through rollbacks, failed writes and crashes.                    *)
THEOREM AnsweredAlwaysRegistered ==
    ASSUME LifecycleKeysDerived, SingleProcess
    PROVE  Spec => []AnsweredRegistered
  <1>1. Init => AnswerInv
    BY InitAnswer
  <1>2. AnswerInv /\ [Next]_vars => AnswerInv'
    BY NextAnswer
  <1>3. Init => RegistryInv
    BY DEF Init, RegistryInv, Told, Inside
  <1>4. AnswerInv /\ RegistryInv /\ [Next]_vars => RegistryInv'
    BY NextRegistry
  <1>5. RegistryInv => AnsweredRegistered
    BY DEF RegistryInv, Told, Receipted, Positions, AnsweredRegistered
  <1> QED
    BY <1>1, <1>2, <1>3, <1>4, <1>5, PTL DEF Spec

-----------------------------------------------------------------------------
(* For one process the settled chain only grows, and the chain file has at *)
(* most one record more: the one whose append may still be taken back.     *)

\* All but the last record of the chain c are in the chain d.
Follows(d, c) ==
    /\ Len(c.records) <= Len(d.records) + 1
    /\ \A i \in 1..(Len(c.records) - 1) : d.records[i] = c.records[i]

LEMMA ExtendIncludes ==
    ASSUME NEW c \in Chain, NEW r \in Records
    PROVE  Includes(Extend(c, r), c.records) /\ Follows(c, Extend(c, r))
  <1> DEFINE x == Extend(c, r)
             n == Len(c.records)
  <1>1. /\ Len(x.records) = n + 1
        /\ \A i \in 1..n : x.records[i] = c.records[i]
    BY ExtendShape
  <1>4. n \in Nat /\ DOMAIN c.records = 1..n
    BY DEF Chain
  <1> HIDE DEF x
  <1>2. Includes(x, c.records)
    BY <1>1, <1>4 DEF Includes
  <1>3. Follows(c, x)
    BY <1>1, <1>4 DEF Follows
  <1> QED
    BY <1>2, <1>3 DEF x

LEMMA SameIncludes ==
    ASSUME NEW c \in Chain
    PROVE  Includes(c, c.records) /\ Follows(c, c)
  BY DEF Includes, Follows, Chain

(* The settled chain only grows, and so do the answers.                    *)
LEMMA SettledGrows ==
    ASSUME SingleProcess, AnswerInv, AnswerInv', [Next]_vars
    PROVE  /\ SettledChain \in Chain /\ SettledChain' \in Chain
           /\ Sound(SettledChain)
           /\ Includes(SettledChain', SettledChain.records)
           /\ acks \subseteq acks'
  <1>1. SettledChain \in Chain /\ Sound(SettledChain)
    BY SettledFacts
  <1>2. CASE SettledChain' = SettledChain /\ acks' = acks
    BY <1>1, <1>2, SameIncludes
  <1>3. CASE \E r \in Records :
                 /\ ~ ChainHasKey(SettledChain, DedupeKey[r])
                 /\ SettledChain' = Extend(SettledChain, r)
                 /\ acks' \in {acks, acks \cup
                       {[rec |-> r, head |-> Extend(SettledChain, r).head]}}
    BY <1>1, <1>3, ExtendIncludes, ExtendType
  <1> QED
    BY <1>2, <1>3, SettledStep

(* The chain file is the settled chain, or has one record more.            *)
LEMMA FileFollows ==
    ASSUME AnswerInv
    PROVE  /\ chainFile \in Chain /\ Sound(chainFile)
           /\ Follows(SettledChain, chainFile)
           /\ Includes(chainFile, SettledChain.records)
  <1>1. chainFile \in Chain /\ Sound(chainFile)
    BY DEF AnswerInv, FileInv, Typed, TypeOK
  <1>2. CASE \E w \in Workers : Undecided(w)
    <2>1. PICK w \in Workers : Undecided(w)
      BY <1>2
    <2>2. /\ SettledChain = loaded[w] /\ chainFile = Extend(loaded[w], rec[w])
          /\ loaded[w] \in Chain /\ rec[w] \in Records
      BY <2>1, SettledFacts DEF AnswerInv, FileInv, Typed, TypeOK, Undecided
    <2> QED
      BY <1>1, <2>2, ExtendIncludes
  <1>3. CASE \A w \in Workers : ~ Undecided(w)
    BY <1>1, <1>3, SettledFacts, SameIncludes
  <1> QED
    BY <1>2, <1>3

(* What a read of the store's files gets.                                  *)
LEMMA FilesRead ==
    AnswerInv => /\ chainFile \in Chain /\ Sound(chainFile)
                 /\ Follows(SettledChain, chainFile)
                 /\ SettledChain \in Chain
                 /\ Includes(chainFile, SettledChain.records)
                 /\ registryFile \in Registry /\ Keeps(chainFile, acks)
                 /\ acks \in SUBSET [rec : Records, head : Hashes]
  <1> SUFFICES ASSUME AnswerInv
               PROVE  /\ chainFile \in Chain /\ Sound(chainFile)
                      /\ Follows(SettledChain, chainFile)
                      /\ SettledChain \in Chain
                      /\ Includes(chainFile, SettledChain.records)
                      /\ registryFile \in Registry /\ Keeps(chainFile, acks)
                      /\ acks \in SUBSET [rec : Records, head : Hashes]
    OBVIOUS
  <1>1. /\ registryFile \in Registry /\ Keeps(chainFile, acks)
        /\ acks \in SUBSET [rec : Records, head : Hashes]
    BY DEF AnswerInv, FileInv, Typed, TypeOK
  <1>2. SettledChain \in Chain
    BY SettledFacts
  <1> QED
    BY <1>1, <1>2, FileFollows

-----------------------------------------------------------------------------
(* Deduped answers, for one process.  Every key an index has is the key of *)
(* a settled record, or was left by an undone append, or is the live key   *)
(* of the one append that is not decided yet.                              *)

Explains(c, key) ==
    \E i \in 1..Len(c.records) :
        key \in {BuildKey[c.records[i].rec], DedupeKey[c.records[i].rec]}

Accounted(key) == Explains(SettledChain, key) \/ key \in left

Live(e, w) == e.key = DedupeKey[rec[w]] /\ e.expires > at[w]

\* The key of w's append is on disk, but its record may be taken back.
Unsettled == {"loadRegistry", "persistRegistry", "rollbackChain", "rollbackIndex"}

Marking == {"persistChain", "persistIndex"}

Registering == {"reloadRegistry", "repersistRegistry"}

WorkerInv(w) ==
    /\ \A e \in entries[w] : Accounted(e.key)
    /\ pc[w] \in Marking => \A e \in marked[w] : Accounted(e.key) \/ Live(e, w)
    /\ pc[w] = "rollbackIndex" => \/ chainFile = loaded[w]
                                  \/ Accounted(DedupeKey[rec[w]])
    /\ pc[w] \in Registering => Accounted(DedupeKey[rec[w]])

IndexInv ==
    /\ \A e \in indexFile :
          Accounted(e.key) \/ \E w \in Workers : pc[w] \in Unsettled /\ Live(e, w)
    /\ \A w \in Workers : WorkerInv(w)
    /\ \A r \in skipped : Accounted(DedupeKey[r])

LEMMA ExplainsStays ==
    ASSUME NEW c \in Chain, NEW d \in Chain, Includes(d, c.records)
    PROVE  \A key : Explains(c, key) => Explains(d, key)
  <1>1. /\ Len(c.records) \in Nat /\ Len(d.records) \in Nat
        /\ DOMAIN c.records = 1..Len(c.records)
    BY DEF Chain
  <1>2. \A i \in 1..Len(c.records) :
          i \in 1..Len(d.records) /\ d.records[i] = c.records[i]
    BY <1>1 DEF Includes
  <1> QED
    BY <1>2 DEF Explains

LEMMA ExtendExplains ==
    ASSUME NEW c \in Chain, NEW r \in Records
    PROVE  Explains(Extend(c, r), DedupeKey[r])
  <1> DEFINE n == Len(c.records)
             x == Extend(c, r)
  <1>1. /\ Len(x.records) = n + 1
        /\ x.records[n + 1] = [rec |-> r, prev |-> c.head]
    BY ExtendShape
  <1>2. n \in Nat
    BY DEF Chain
  <1> HIDE DEF x
  <1>3. n + 1 \in 1..Len(x.records) /\ x.records[n + 1].rec = r
    BY <1>1, <1>2
  <1>4. Explains(x, DedupeKey[r])
    BY <1>3 DEF Explains
  <1> QED
    BY <1>4 DEF x

(* Keys are left, never taken up again.                                    *)
LEMMA LeftGrows == [Next]_vars => left \subseteq left'
  <1> SUFFICES ASSUME [Next]_vars PROVE left \subseteq left'
    OBVIOUS
  <1>1. ASSUME NEW w \in Workers, NEW r \in Records, Call(w, r)
        PROVE  left' = left
    BY <1>1 DEF Call
  <1>2. ASSUME NEW w \in Workers,
               \/ LoadChain(w) \/ LoadIndex(w) \/ PersistChain(w) \/ PersistIndex(w)
               \/ LoadRegistry(w) \/ PersistRegistry(w) \/ RepersistRegistry(w)
               \/ RollbackChain(w) \/ ReadFails(w)
        PROVE  left' = left
    BY <1>2 DEF LoadChain, LoadIndex, PersistChain, PersistIndex, LoadRegistry,
                PersistRegistry, RepersistRegistry, RollbackChain, ReadFails
  <1>3. ASSUME NEW w \in Workers, RollbackIndex(w)
        PROVE  left \subseteq left'
    BY <1>3 DEF RollbackIndex
  <1>4. ASSUME NEW s \in Stores, Crash(s)
        PROVE  left \subseteq left'
    BY <1>4 DEF Crash
  <1>5. CASE Tick \/ UNCHANGED vars
    BY <1>5 DEF Tick, vars
  <1> QED
    BY <1>1, <1>2, <1>3, <1>4, <1>5 DEF Next, Step

LEMMA AccountedStays ==
    ASSUME SingleProcess, AnswerInv, AnswerInv', [Next]_vars
    PROVE  \A key : Accounted(key) => Accounted(key)'
  <1>1. \A key : Explains(SettledChain, key) => Explains(SettledChain', key)
    BY SettledGrows, ExplainsStays
  <1> QED
    BY <1>1, LeftGrows DEF Accounted

LEMMA SettledFile ==
    AnswerInv => ((\A v \in Workers : ~ Undecided(v)) => SettledChain = chainFile)
  BY SettledFacts

(* A step that decides an append whose record stays accounts for its key.  *)
LEMMA DecidedAccounted ==
    ASSUME AnswerInv, AnswerInv', NEW w \in Workers, Undecided(w),
           chainFile' = chainFile, \A v \in Workers : ~ Undecided(v)',
           NEW key, key = DedupeKey[rec[w]]
    PROVE  Accounted(key)'
  <1>1. /\ chainFile = Extend(loaded[w], rec[w])
        /\ loaded[w] \in Chain /\ rec[w] \in Records
    BY DEF Undecided, AnswerInv, FileInv, Typed, TypeOK
  <1>2. SettledChain' = chainFile'
    <2>1. (AnswerInv => ((\A v \in Workers : ~ Undecided(v))
                            => SettledChain = chainFile))'
      BY SettledFile, PTL
    <2> QED
      BY <2>1
  <1>3. Explains(Extend(loaded[w], rec[w]), DedupeKey[rec[w]])
    BY <1>1, ExtendExplains
  <1>4. Explains(SettledChain', key)
    BY <1>1, <1>2, <1>3
  <1> QED
    BY <1>4 DEF Accounted

(* While a worker is inside, only what it does matters.                    *)
LEMMA IndexMove ==
    ASSUME AnswerInv, IndexInv, \A key : Accounted(key) => Accounted(key)',
           NEW w \in Workers, pc[w] \in Inside,
           \A v \in Workers : v # w => pc'[v] = pc[v] /\ entries'[v] = entries[v],
           \A e \in indexFile' :
              Accounted(e.key)' \/ (pc'[w] \in Unsettled /\ Live(e, w)'),
           WorkerInv(w)',
           \A r \in skipped' : Accounted(DedupeKey[r])'
    PROVE  IndexInv'
  <1>1. \A v \in Workers : v # w => pc'[v] \notin Inside
    BY DEF AnswerInv
  <1>2. ASSUME NEW v \in Workers, v # w
        PROVE  WorkerInv(v)'
    <2>1. pc'[v] \notin Inside /\ entries'[v] = entries[v]
      BY <1>1, <1>2
    <2>2. \A e \in entries'[v] : Accounted(e.key)'
      BY <2>1 DEF IndexInv, WorkerInv
    <2> QED
      BY <2>1, <2>2 DEF WorkerInv, Inside, Marking, Registering
  <1> QED
    BY <1>2 DEF IndexInv

(* A step that touches no index and settles nothing.                       *)
LEMMA IndexRest ==
    ASSUME IndexInv, \A key : Accounted(key) => Accounted(key)',
           chainFile' = chainFile, indexFile' = indexFile, skipped' = skipped,
           \A v \in Workers :
              \/ /\ pc'[v] = pc[v] /\ rec'[v] = rec[v] /\ loaded'[v] = loaded[v]
                 /\ entries'[v] = entries[v] /\ marked'[v] = marked[v]
                 /\ at'[v] = at[v]
              \/ /\ pc[v] \notin Unsettled /\ pc'[v] \in {"idle", "lock", "loadIndex"}
                 /\ entries'[v] \in {entries[v], {}}
    PROVE  IndexInv'
  <1>1. ASSUME NEW v \in Workers
        PROVE  WorkerInv(v)'
    <2>1. \A e \in entries'[v] : Accounted(e.key)'
      BY DEF IndexInv, WorkerInv
    <2>2. CASE /\ pc'[v] = pc[v] /\ rec'[v] = rec[v] /\ loaded'[v] = loaded[v]
               /\ marked'[v] = marked[v] /\ at'[v] = at[v]
      BY <2>1, <2>2 DEF IndexInv, WorkerInv, Live
    <2>3. CASE pc'[v] \in {"idle", "lock", "loadIndex"}
      BY <2>1, <2>3 DEF WorkerInv, Marking, Registering
    <2> QED
      BY <2>2, <2>3
  <1>2. ASSUME NEW e \in indexFile'
        PROVE  Accounted(e.key)' \/ \E w \in Workers : pc'[w] \in Unsettled /\ Live(e, w)'
    BY DEF IndexInv, Live
  <1>3. \A r \in skipped' : Accounted(DedupeKey[r])'
    BY DEF IndexInv
  <1> QED
    BY <1>1, <1>2, <1>3 DEF IndexInv

LEMMA MarkedKeys ==
    ASSUME NEW w \in Workers, rec[w] \in Records, at[w] \in Nat,
           NEW m \in Mark(indexFile, DedupeKey[rec[w]], at[w]), NEW e \in m
    PROVE  e \in indexFile \/ Live(e, w)
  <1> DEFINE key == DedupeKey[rec[w]]
             fresh == [key |-> key, expires |-> at[w] + TTL, seen |-> at[w]]
  <1>1. m \subseteq {x \in Purge(indexFile, at[w]) : x.key # key} \cup {fresh}
    BY DEF Mark, Evictions
  <1>2. at[w] + TTL > at[w]
    BY BoundAssumption
  <1>3. fresh.key = key /\ fresh.expires > at[w]
    BY <1>2
  <1> HIDE DEF fresh
  <1> QED
    BY <1>1, <1>3 DEF Purge, Live

(* A worker whose call has ended has nothing to account for.               *)
LEMMA EndedWorker ==
    ASSUME NEW w \in Workers, pc'[w] = "idle", entries'[w] = {}
    PROVE  WorkerInv(w)'
  BY DEF WorkerInv, Marking, Registering

LEMMA ResetWorkers ==
    ASSUME NEW W \in SUBSET Workers, Reset(W)
    PROVE  /\ \A v \in W : pc'[v] = "idle" /\ entries'[v] = {}
           /\ \A v \in Workers \ W :
                /\ pc'[v] = pc[v] /\ rec'[v] = rec[v] /\ loaded'[v] = loaded[v]
                /\ entries'[v] = entries[v] /\ marked'[v] = marked[v]
                /\ at'[v] = at[v]
  BY DEF Reset

\* The index file, whose keys are all accounted for while w decides nothing.
LEMMA IndexSettled ==
    ASSUME AnswerInv, IndexInv, NEW w \in Workers, pc[w] \in Inside \ Unsettled
    PROVE  \A e \in indexFile : Accounted(e.key)
  BY DEF AnswerInv, IndexInv, Inside, Unsettled

\* ... and while it does, but for its own.
LEMMA IndexOpen ==
    ASSUME AnswerInv, IndexInv, NEW w \in Workers, pc[w] \in Inside
    PROVE  \A e \in indexFile : Accounted(e.key) \/ Live(e, w)
  BY DEF AnswerInv, IndexInv, Inside, Unsettled

\* What an undone append leaves in the index is accounted for as left.
LEMMA UndoneAccounted ==
    ASSUME IndexInv, \A key : Accounted(key) => Accounted(key)',
           NEW w \in Workers, pc[w] = "rollbackIndex",
           NEW W \in SUBSET Workers, w \in W, NEW index,
           LeftKeys(W, index) \subseteq left',
           NEW e \in index, Live(e, w)
    PROVE  Accounted(e.key)'
  <1>1. CASE chainFile = loaded[w]
    <2>1. Seen(index, DedupeKey[rec[w]], at[w])
      BY DEF Seen, Purge, Live
    <2>2. DedupeKey[rec[w]] \in LeftKeys(W, index)
      BY <1>1, <2>1 DEF LeftKeys
    <2> QED
      BY <2>2 DEF Live, Accounted
  <1>2. CASE chainFile # loaded[w]
    BY <1>2 DEF IndexInv, WorkerInv, Live
  <1> QED
    BY <1>1, <1>2

LEMMA NextIndex ==
    ASSUME SingleProcess, AnswerInv, AnswerInv', IndexInv, [Next]_vars
    PROVE  IndexInv'
  <1>1. \A key : Accounted(key) => Accounted(key)'
    BY AccountedStays
  <1>2. /\ pc \in [Workers -> Inside \cup {"idle", "lock"}]
        /\ rec \in [Workers -> Records \cup {NoRecord}]
        /\ loaded \in [Workers -> Chain] /\ at \in [Workers -> Nat]
        /\ entries \in [Workers -> Index] /\ marked \in [Workers -> Index]
        /\ \A w \in Workers : pc[w] # "idle" => rec[w] \in Records
        /\ Typed
    BY DEF AnswerInv, FileInv, Typed, TypeOK
  <1>3. \A r \in skipped : Accounted(DedupeKey[r])'
    BY <1>1 DEF IndexInv
  <1>4. ASSUME NEW w \in Workers, NEW r \in Records, Call(w, r)
        PROVE  IndexInv'
    <2>1. /\ UNCHANGED <<chainFile, indexFile, skipped, loaded, entries, marked, at>>
          /\ \A v \in Workers : v # w => pc'[v] = pc[v] /\ rec'[v] = rec[v]
          /\ pc[w] = "idle" /\ pc'[w] = "lock"
      BY <1>2, <1>4 DEF Call, Goto, files, answers
    <2> QED
      BY <1>1, <2>1, IndexRest DEF Unsettled
  <1>5. ASSUME NEW w \in Workers, LoadChain(w)
        PROVE  IndexInv'
    <2>1. /\ UNCHANGED <<chainFile, indexFile, skipped, rec, entries, marked>>
          /\ \A v \in Workers : v # w => /\ pc'[v] = pc[v] /\ loaded'[v] = loaded[v]
                                         /\ at'[v] = at[v]
          /\ pc[w] = "lock" /\ pc'[w] = "loadIndex"
      BY <1>2, <1>5 DEF LoadChain, Goto, files, answers
    <2> QED
      BY <1>1, <2>1, IndexRest DEF Unsettled
  \* A call that ends with an error and has decided nothing.
  <1>6. ASSUME NEW w \in Workers, AnswerError(w), pc[w] \notin Unsettled,
               chainFile' = chainFile, indexFile' = indexFile
        PROVE  IndexInv'
    <2>1. Reset({w}) /\ skipped' = skipped
      BY <1>6 DEF AnswerError, Return, answers
    <2> QED
      BY <1>1, <1>6, <2>1, ResetWorkers, IndexRest
  \* A call that ends otherwise.
  <1>7. ASSUME NEW w \in Workers, pc[w] \in Inside, Reset({w}),
               \A e \in indexFile' : Accounted(e.key)',
               \A r \in skipped' : Accounted(DedupeKey[r])'
        PROVE  IndexInv'
    <2>1. /\ pc'[w] = "idle" /\ entries'[w] = {}
          /\ \A v \in Workers : v # w => pc'[v] = pc[v] /\ entries'[v] = entries[v]
      BY <1>7, ResetWorkers
    <2>2. WorkerInv(w)'
      BY <2>1, EndedWorker
    <2> QED
      BY <1>1, <1>7, <2>1, <2>2, IndexMove
  <1>8. ASSUME NEW w \in Workers, LoadIndex(w)
        PROVE  IndexInv'
    <2>1. /\ pc[w] = "loadIndex" /\ pc[w] \in Inside \ Unsettled /\ rec[w] \in Records
          /\ indexFile' = indexFile /\ chainFile' = chainFile
      BY <1>2, <1>8 DEF LoadIndex, files, Inside, Unsettled
    <2>2. loaded[w] = SettledChain
      <3>1. \A v \in Workers : ~ Undecided(v)
        BY <2>1 DEF AnswerInv, Undecided, Inside
      <3> QED
        BY <2>1, <3>1, SettledFacts DEF AnswerInv
    <2>3. \A e \in indexFile : Accounted(e.key)
      BY <2>1, IndexSettled
    <2>4. Duplicate(loaded[w], indexFile, rec[w], at[w]) => Accounted(DedupeKey[rec[w]])
      BY <2>2, <2>3 DEF Duplicate, Seen, Purge, ChainHasKey, Accounted, Explains
    <2>5. CASE /\ Duplicate(loaded[w], indexFile, rec[w], at[w])
               /\ AnswerDeduped(w)
      <3>1. Reset({w}) /\ skipped' = skipped \cup {rec[w]}
        BY <2>5 DEF AnswerDeduped, Return
      <3>2. \A r \in skipped' : Accounted(DedupeKey[r])'
        BY <1>1, <1>3, <2>4, <2>5, <3>1
      <3> QED
        BY <1>1, <1>7, <2>1, <2>3, <3>1, <3>2
    <2>6. CASE AnswerError(w)
      BY <1>6, <2>1, <2>6
    <2>7. CASE /\ Duplicate(loaded[w], indexFile, rec[w], at[w])
               /\ Goto(w, "reloadRegistry")
               /\ UNCHANGED <<rec, entries, skipped>>
      <3>1. /\ pc'[w] = "reloadRegistry"
            /\ \A v \in Workers : v # w => pc'[v] = pc[v]
        BY <1>2, <2>7 DEF Goto
      <3>2. WorkerInv(w)'
        BY <1>1, <2>4, <2>7, <3>1 DEF IndexInv, WorkerInv, Marking
      <3> QED
        BY <1>1, <1>3, <2>1, <2>3, <2>7, <3>1, <3>2, IndexMove
    <2>8. CASE /\ Goto(w, "persistChain")
               /\ entries' = [entries EXCEPT ![w] = Purge(indexFile, at[w])]
               /\ \E index \in Mark(indexFile, DedupeKey[rec[w]], at[w]) :
                     marked' = [marked EXCEPT ![w] = index]
               /\ UNCHANGED <<rec, at, skipped>>
      <3>1. PICK index \in Mark(indexFile, DedupeKey[rec[w]], at[w]) :
              marked' = [marked EXCEPT ![w] = index]
        BY <2>8
      <3>2. /\ entries'[w] = Purge(indexFile, at[w]) /\ marked'[w] = index
            /\ pc'[w] = "persistChain"
            /\ \A v \in Workers : v # w => pc'[v] = pc[v] /\ entries'[v] = entries[v]
        BY <1>2, <2>8, <3>1 DEF Goto
      <3>3. \A e \in entries'[w] : Accounted(e.key)'
        BY <1>1, <2>3, <3>2 DEF Purge
      <3>4. \A e \in marked'[w] : Accounted(e.key)' \/ Live(e, w)'
        <4>1. \A e \in index : e \in indexFile \/ Live(e, w)
          BY <1>2, <2>1, MarkedKeys
        <4> QED
          BY <1>1, <2>3, <2>8, <3>2, <4>1 DEF Live
      <3>5. WorkerInv(w)'
        BY <3>2, <3>3, <3>4 DEF WorkerInv, Registering
      <3> QED
        BY <1>1, <1>3, <2>1, <2>3, <2>8, <3>2, <3>5, IndexMove
    <2> QED
      BY <1>8, <2>5, <2>6, <2>7, <2>8 DEF LoadIndex, answers
  <1>9. ASSUME NEW w \in Workers, PersistChain(w)
        PROVE  IndexInv'
    <2>1. /\ pc[w] = "persistChain" /\ indexFile' = indexFile
          /\ pc[w] \in Inside \ Unsettled
      BY <1>9 DEF PersistChain, Inside, Unsettled
    <2>2. \A e \in indexFile : Accounted(e.key)'
      BY <1>1, <2>1, IndexSettled
    <2>3. CASE AnswerError(w)
      BY <1>3, <1>7, <2>1, <2>2, <2>3 DEF AnswerError, Return, answers
    <2>4. CASE Goto(w, "persistIndex") /\ UNCHANGED <<rec, entries, marked, at, skipped>>
      <3>1. /\ pc'[w] = "persistIndex"
            /\ \A v \in Workers : v # w => pc'[v] = pc[v]
        BY <1>2, <2>4 DEF Goto
      <3>2. WorkerInv(w)'
        BY <1>1, <2>1, <2>4, <3>1 DEF IndexInv, WorkerInv, Marking, Registering, Live
      <3> QED
        BY <1>1, <1>3, <2>1, <2>2, <2>4, <3>1, <3>2, IndexMove
    <2> QED
      BY <1>9, <2>3, <2>4 DEF PersistChain, answers
  <1>10. ASSUME NEW w \in Workers, PersistIndex(w)
         PROVE  IndexInv'
    <2>1. /\ pc[w] = "persistIndex" /\ pc[w] \in Inside \ Unsettled
          /\ chainFile' = chainFile /\ indexFile' \in {indexFile, marked[w]}
          /\ Undecided(w)
      BY <1>10 DEF PersistIndex, Inside, Unsettled, Written, Undecided
    <2>2. \A e \in indexFile' : Accounted(e.key)' \/ Live(e, w)
      BY <1>1, <2>1, IndexSettled DEF IndexInv, WorkerInv, Marking
    <2>3. CASE AnswerAppended(w)
      <3>1. \A v \in Workers : ~ Undecided(v)'
        <4>1. pc'[w] = "idle" /\ \A v \in Workers : v # w => pc'[v] = pc[v]
          BY <1>2, <2>3, AnswerStep
        <4>2. \A v \in Workers : v # w => pc[v] \notin Inside
          BY <2>1 DEF AnswerInv
        <4> QED
          BY <4>1, <4>2 DEF Undecided, Inside
      <3>2. \A e \in indexFile' : Accounted(e.key)'
        BY <2>1, <2>2, <3>1, DecidedAccounted DEF Live
      <3> QED
        BY <1>3, <1>7, <2>1, <2>3, <3>2 DEF AnswerAppended, Return
    <2>4. CASE /\ \E label \in {"loadRegistry", "rollbackChain"} : Goto(w, label)
               /\ UNCHANGED <<rec, entries, marked, at, skipped>>
      <3>1. /\ \A v \in Workers : v # w => pc'[v] = pc[v]
            /\ pc'[w] \in {"loadRegistry", "rollbackChain"}
        BY <1>2, <2>4 DEF Goto
      <3>2. WorkerInv(w)'
        BY <1>1, <2>4, <3>1 DEF IndexInv, WorkerInv, Marking, Registering
      <3>3. \A e \in indexFile' :
               Accounted(e.key)' \/ (pc'[w] \in Unsettled /\ Live(e, w)')
        BY <2>2, <2>4, <3>1 DEF Unsettled, Live
      <3> QED
        BY <1>1, <1>3, <2>1, <2>4, <3>1, <3>2, <3>3, IndexMove
    <2> QED
      BY <1>10, <2>3, <2>4 DEF PersistIndex, answers
  \* A step between two places where the append is not settled, or where the
  \* record is registered again.
  <1>11. ASSUME NEW w \in Workers, NEW label, Goto(w, label), pc[w] \in Inside,
                indexFile' = indexFile, UNCHANGED <<rec, entries, at, skipped>>,
                \/ /\ pc[w] \in Unsettled /\ label \in Unsettled
                   /\ label = "rollbackIndex"
                      => chainFile' = loaded'[w] \/ Accounted(DedupeKey[rec[w]])'
                \/ pc[w] \in Registering /\ label \in Registering
         PROVE  IndexInv'
    <2>1. /\ pc'[w] = label
          /\ \A v \in Workers : v # w => pc'[v] = pc[v]
      BY <1>2, <1>11 DEF Goto
    <2>2. \A e \in entries'[w] : Accounted(e.key)'
      BY <1>1, <1>11 DEF IndexInv, WorkerInv
    <2>3. CASE pc[w] \in Unsettled /\ label \in Unsettled
      <3>1. WorkerInv(w)'
        BY <1>11, <2>1, <2>2, <2>3 DEF WorkerInv, Marking, Registering, Unsettled
      <3>2. \A e \in indexFile' :
               Accounted(e.key)' \/ (pc'[w] \in Unsettled /\ Live(e, w)')
        BY <1>1, <1>11, <2>1, <2>3, IndexOpen DEF Live
      <3> QED
        BY <1>1, <1>3, <1>11, <2>1, <3>1, <3>2, IndexMove
    <2>4. CASE pc[w] \in Registering /\ label \in Registering
      <3>1. Accounted(DedupeKey[rec[w]])
        BY <2>4 DEF IndexInv, WorkerInv
      <3>2. WorkerInv(w)'
        BY <1>1, <1>11, <2>1, <2>2, <2>4, <3>1 DEF WorkerInv, Marking, Registering
      <3>3. \A e \in indexFile' : Accounted(e.key)'
        BY <1>1, <1>11, <2>4, IndexSettled DEF Registering, Unsettled
      <3> QED
        BY <1>1, <1>3, <1>11, <2>1, <3>2, <3>3, IndexMove
    <2> QED
      BY <1>11, <2>3, <2>4
  <1>12. ASSUME NEW w \in Workers, LoadRegistry(w)
         PROVE  IndexInv'
    BY <1>11, <1>12 DEF LoadRegistry, files, answers, Inside, Unsettled, Registering
  <1>13. ASSUME NEW w \in Workers, PersistRegistry(w)
         PROVE  IndexInv'
    <2>1. /\ pc[w] = "persistRegistry" /\ pc[w] \in Inside /\ Undecided(w)
          /\ indexFile' = indexFile /\ chainFile' = chainFile
      BY <1>13 DEF PersistRegistry, Inside, Undecided
    <2>2. CASE AnswerAppended(w)
      <3>1. \A v \in Workers : ~ Undecided(v)'
        <4>1. pc'[w] = "idle" /\ \A v \in Workers : v # w => pc'[v] = pc[v]
          BY <1>2, <2>2, AnswerStep
        <4>2. \A v \in Workers : v # w => pc[v] \notin Inside
          BY <2>1 DEF AnswerInv
        <4> QED
          BY <4>1, <4>2 DEF Undecided, Inside
      <3>2. \A e \in indexFile' : Accounted(e.key)'
        BY <1>1, <2>1, <3>1, IndexOpen, DecidedAccounted DEF Live
      <3> QED
        BY <1>3, <1>7, <2>1, <2>2, <3>2 DEF AnswerAppended, Return
    <2>3. CASE Goto(w, "rollbackChain") /\ UNCHANGED <<rec, entries, at, skipped>>
      BY <1>11, <2>1, <2>3 DEF Unsettled
    <2> QED
      BY <1>13, <2>2, <2>3 DEF PersistRegistry, answers
  <1>14. ASSUME NEW w \in Workers, RepersistRegistry(w)
         PROVE  IndexInv'
    <2>1. /\ pc[w] = "repersistRegistry" /\ pc[w] \in Inside \ Unsettled
          /\ indexFile' = indexFile /\ chainFile' = chainFile
      BY <1>14 DEF RepersistRegistry, Inside, Unsettled
    <2>2. CASE AnswerDeduped(w)
      <3>1. Reset({w}) /\ skipped' = skipped \cup {rec[w]}
        BY <2>2 DEF AnswerDeduped, Return
      <3>2. Accounted(DedupeKey[rec[w]])
        BY <2>1 DEF IndexInv, WorkerInv, Registering
      <3>3. \A r \in skipped' : Accounted(DedupeKey[r])'
        BY <1>1, <1>3, <3>1, <3>2
      <3> QED
        BY <1>1, <1>7, <2>1, <3>1, <3>3, IndexSettled
    <2>3. CASE AnswerError(w)
      BY <1>6, <2>1, <2>3
    <2> QED
      BY <1>14, <2>2, <2>3 DEF RepersistRegistry
  <1>15. ASSUME NEW w \in Workers, RollbackChain(w)
         PROVE  IndexInv'
    <2>1. /\ pc[w] = "rollbackChain" /\ pc[w] \in Inside /\ Undecided(w)
          /\ indexFile' = indexFile /\ chainFile' \in {chainFile, loaded[w]}
          /\ Goto(w, "rollbackIndex")
          /\ UNCHANGED <<rec, loaded, entries, at, skipped>>
      BY <1>15 DEF RollbackChain, Inside, Undecided, Written, answers
    <2>2. CASE chainFile' = loaded[w]
      BY <1>11, <2>1, <2>2 DEF Unsettled
    <2>3. CASE chainFile' = chainFile
      <3>1. \A v \in Workers : ~ Undecided(v)'
        <4>1. pc'[w] = "rollbackIndex" /\ \A v \in Workers : v # w => pc'[v] = pc[v]
          BY <1>2, <2>1 DEF Goto
        <4>2. \A v \in Workers : v # w => pc[v] \notin Inside
          BY <2>1 DEF AnswerInv
        <4> QED
          BY <4>1, <4>2 DEF Undecided, Inside
      <3>2. ASSUME NEW key, key = DedupeKey[rec[w]]
            PROVE  Accounted(key)'
        BY <2>1, <2>3, <3>1, <3>2, DecidedAccounted
      <3>3. Accounted(DedupeKey[rec[w]])'
        BY <2>1, <3>2
      <3> QED
        BY <1>11, <2>1, <3>3 DEF Unsettled
    <2> QED
      BY <2>1, <2>2, <2>3
  <1>16. ASSUME NEW w \in Workers, RollbackIndex(w)
         PROVE  IndexInv'
    <2>1. /\ pc[w] = "rollbackIndex" /\ pc[w] \in Inside
          /\ indexFile' \in {indexFile, entries[w]}
          /\ LeftKeys({w}, indexFile') \subseteq left'
          /\ Reset({w}) /\ skipped' = skipped
      BY <1>16 DEF RollbackIndex, Written, Inside, AnswerError, Return, answers
    <2>2. \A e \in indexFile' : Accounted(e.key)' \/ Live(e, w)
      BY <1>1, <2>1, IndexOpen DEF IndexInv, WorkerInv
    <2>3. \A e \in indexFile' : Accounted(e.key)'
      BY <1>1, <2>1, <2>2, UndoneAccounted
    <2> QED
      BY <1>3, <1>7, <2>1, <2>3
  <1>17. ASSUME NEW w \in Workers, ReadFails(w)
         PROVE  IndexInv'
    <2>1. indexFile' = indexFile /\ chainFile' = chainFile
      BY <1>17 DEF ReadFails, files
    <2>2. CASE AnswerError(w) /\ pc[w] \in {"lock", "loadIndex", "reloadRegistry"}
      BY <1>6, <2>1, <2>2 DEF Unsettled
    <2>3. CASE /\ pc[w] = "loadRegistry" /\ Goto(w, "rollbackChain")
               /\ UNCHANGED <<rec, entries, at, skipped>>
      BY <1>11, <2>1, <2>3 DEF Unsettled, Inside
    <2> QED
      BY <1>17, <2>2, <2>3 DEF ReadFails, answers
  <1>18. ASSUME NEW s \in Stores, Crash(s)
         PROVE  IndexInv'
    <2>1. /\ chainFile' = chainFile /\ indexFile' = indexFile /\ skipped' = skipped
          /\ Reset(Workers) /\ LeftKeys(Workers, indexFile) \subseteq left'
      <3>1. {w \in Workers : StoreOf[w] = s} = Workers
        BY <1>18 DEF Crash, SingleProcess
      <3> QED
        BY <1>18, <3>1 DEF Crash, files, answers
    <2>2. \A v \in Workers : pc'[v] = "idle" /\ entries'[v] = {}
      BY <2>1, ResetWorkers
    <2>3. \A v \in Workers : WorkerInv(v)'
      BY <2>2, EndedWorker
    <2>4. ASSUME NEW e \in indexFile, NEW w \in Workers, pc[w] \in Unsettled, Live(e, w)
          PROVE  Accounted(e.key)'
      <3>1. CASE pc[w] = "rollbackIndex"
        BY <1>1, <2>1, <2>4, <3>1, UndoneAccounted
      <3>2. CASE pc[w] # "rollbackIndex"
        <4>1. Undecided(w) /\ \A v \in Workers : ~ Undecided(v)'
          BY <2>2, <2>4, <3>2 DEF Unsettled, Undecided
        <4> QED
          BY <2>1, <2>4, <4>1, DecidedAccounted DEF Live
      <3> QED
        BY <3>1, <3>2
    <2>5. \A e \in indexFile' : Accounted(e.key)'
      BY <1>1, <2>1, <2>4 DEF IndexInv
    <2> QED
      BY <1>3, <2>1, <2>3, <2>5 DEF IndexInv
  <1>19. CASE Tick \/ UNCHANGED vars
    <2>1. UNCHANGED <<chainFile, indexFile, skipped, pc, rec, loaded, entries, marked, at>>
      BY <1>19 DEF Tick, vars, files, locals, answers
    <2> QED
      BY <1>1, <2>1, IndexRest
  <1> QED
    BY <1>4, <1>5, <1>8, <1>9, <1>10, <1>12, <1>13, <1>14, <1>15, <1>16, <1>17,
       <1>18, <1>19 DEF Next, Step

LEMMA InitIndex == Init => IndexInv
  BY DEF Init, IndexInv, WorkerInv, Marking, Registering

(* A caller is told "deduped" when a record with its key or content is in  *)
(* the chain, or when an undone append of its key left that in the index;  *)
(* in every mode, with any faults and crashes, for records of every kind.  *)
THEOREM SkippedAlwaysPresent ==
    ASSUME SingleProcess
    PROVE  Spec => []SkippedPresent
  <1>1. Init => AnswerInv /\ IndexInv
    BY InitAnswer, InitIndex
  <1>2. AnswerInv /\ IndexInv /\ [Next]_vars => (AnswerInv /\ IndexInv)'
    BY NextAnswer, NextIndex
  <1>3. AnswerInv /\ IndexInv => SkippedPresent
    <2> SUFFICES ASSUME AnswerInv, IndexInv PROVE SkippedPresent
      OBVIOUS
    <2>1. \A key : Explains(SettledChain, key) => Explains(chainFile, key)
      BY FilesRead, ExplainsStays
    <2> QED
      BY <2>1 DEF IndexInv, Accounted, SkippedPresent, Explains
  <1> QED
    BY <1>1, <1>2, <1>3, PTL DEF Spec

-----------------------------------------------------------------------------
(* Which appends can leave their key.  Where no write syncs its directory, *)
(* a write that fails leaves the old file, so that an index with the key   *)
(* of an append that is undone is the work of one that got to its          *)
(* registration: a lifecycle record.                                       *)

Watched == {"persistChain", "persistIndex", "loadRegistry", "persistRegistry",
            "rollbackChain", "rollbackIndex"}

Absent(w) ==
    /\ pc[w] \notin {"loadRegistry", "persistRegistry"}
    /\ ~ Seen(indexFile, DedupeKey[rec[w]], at[w])
    /\ ~ Seen(entries[w], DedupeKey[rec[w]], at[w])

AbsentInv ==
    Compliance = {}
    => \A w \in Workers : pc[w] \in Watched => rec[w] \in Lifecycle \/ Absent(w)

\* Of the files a write without a sync can leave there are two.
LEMMA PlainOutcomes ==
    ASSUME Compliance = {}, NEW w \in Workers, NEW outcome \in Outcomes(Syncs(w))
    PROVE  outcome \in {"ok", "failed"}
  BY DEF Outcomes, Syncs

LEMMA NextAbsent ==
    ASSUME SingleProcess, AnswerInv, AbsentInv, [Next]_vars
    PROVE  AbsentInv'
  <1> SUFFICES ASSUME Compliance = {}, NEW v \in Workers, pc'[v] \in Watched
               PROVE  rec'[v] \in Lifecycle \/ Absent(v)'
    BY DEF AbsentInv
  <1>1. /\ pc \in [Workers -> Inside \cup {"idle", "lock"}]
        /\ rec \in [Workers -> Records \cup {NoRecord}]
        /\ entries \in [Workers -> Index] /\ Typed
        /\ \A u, w \in Workers : pc[u] \in Inside /\ pc[w] \in Inside => u = w
    BY DEF AnswerInv, FileInv, Typed, TypeOK
  \* What leaves v where it is, or moves it on within the append, with the
  \* index as it was.
  <1>2. ASSUME indexFile' = indexFile, pc[v] \in Watched, rec'[v] = rec[v],
               entries'[v] = entries[v], at'[v] = at[v],
               rec[v] \in Lifecycle \/ pc'[v] \notin {"loadRegistry", "persistRegistry"}
        PROVE  rec'[v] \in Lifecycle \/ Absent(v)'
    BY <1>2 DEF AbsentInv, Absent
  <1>3. ASSUME NEW w \in Workers, Reset({w}), indexFile' = indexFile
        PROVE  rec'[v] \in Lifecycle \/ Absent(v)'
    <2>1. v # w
      BY <1>3, ResetWorkers DEF Watched
    <2> QED
      BY <1>2, <1>3, <2>1, ResetWorkers DEF AbsentInv, Absent
  <1>4. ASSUME NEW w \in Workers, NEW label, Goto(w, label), indexFile' = indexFile,
               UNCHANGED <<rec, entries, at>>,
               label \in Watched
                  => pc[w] \in Watched /\ (label \in {"loadRegistry", "persistRegistry"}
                                              => rec[w] \in Lifecycle)
        PROVE  rec'[v] \in Lifecycle \/ Absent(v)'
    <2>1. pc'[w] = label /\ \A u \in Workers : u # w => pc'[u] = pc[u]
      BY <1>1, <1>4 DEF Goto
    <2> QED
      BY <1>2, <1>4, <2>1 DEF AbsentInv, Absent
  <1>5. ASSUME NEW w \in Workers, NEW r \in Records, Call(w, r)
        PROVE  rec'[v] \in Lifecycle \/ Absent(v)'
    <2>1. /\ UNCHANGED <<indexFile, entries, at>>
          /\ pc'[w] = "lock"
          /\ \A u \in Workers : u # w => pc'[u] = pc[u] /\ rec'[u] = rec[u]
      BY <1>1, <1>5 DEF Call, Goto, files
    <2> QED
      BY <1>2, <2>1 DEF Watched, AbsentInv, Absent
  <1>6. ASSUME NEW w \in Workers, LoadChain(w)
        PROVE  rec'[v] \in Lifecycle \/ Absent(v)'
    <2>1. /\ UNCHANGED <<indexFile, entries, rec>>
          /\ pc'[w] = "loadIndex"
          /\ \A u \in Workers : u # w => pc'[u] = pc[u] /\ at'[u] = at[u]
      BY <1>1, <1>6 DEF LoadChain, Goto, files, AnswerInv, FileInv, Typed, TypeOK
    <2> QED
      BY <1>2, <2>1 DEF Watched, AbsentInv, Absent
  <1>7. ASSUME NEW w \in Workers, LoadIndex(w)
        PROVE  rec'[v] \in Lifecycle \/ Absent(v)'
    <2>1. indexFile' = indexFile
      BY <1>7 DEF LoadIndex, files
    <2>2. CASE AnswerDeduped(w) \/ AnswerError(w)
      BY <1>3, <2>1, <2>2 DEF AnswerDeduped, AnswerError, Return
    <2>3. CASE Goto(w, "reloadRegistry") /\ UNCHANGED <<rec, entries, at>>
      BY <1>4, <2>1, <2>3 DEF Watched
    <2>4. CASE /\ ~ Duplicate(loaded[w], indexFile, rec[w], at[w])
               /\ Goto(w, "persistChain")
               /\ entries' = [entries EXCEPT ![w] = Purge(indexFile, at[w])]
               /\ UNCHANGED <<rec, at>>
      <3>1. /\ pc'[w] = "persistChain" /\ entries'[w] = Purge(indexFile, at[w])
            /\ \A u \in Workers : u # w => pc'[u] = pc[u] /\ entries'[u] = entries[u]
        BY <1>1, <2>4 DEF Goto
      <3>2. CASE v = w
        <4>1. ~ Seen(indexFile, DedupeKey[rec[w]], at[w])
          BY <2>4 DEF Duplicate
        <4>2. ~ Seen(entries'[w], DedupeKey[rec[w]], at[w])
          BY <3>1, <4>1 DEF Seen, Purge
        <4> QED
          BY <2>1, <2>4, <3>1, <3>2, <4>1, <4>2 DEF Absent
      <3>3. CASE v # w
        BY <1>2, <2>1, <2>4, <3>1, <3>3 DEF AbsentInv, Absent
      <3> QED
        BY <3>2, <3>3
    <2> QED
      BY <1>7, <2>2, <2>3, <2>4 DEF LoadIndex
  <1>8. ASSUME NEW w \in Workers, PersistChain(w)
        PROVE  rec'[v] \in Lifecycle \/ Absent(v)'
    BY <1>3, <1>4, <1>8 DEF PersistChain, AnswerError, Return, Watched
  \* Another worker may be watched only while w is outside.
  <1>9. ASSUME NEW w \in Workers, pc[w] \in Inside, v # w, pc'[v] = pc[v]
        PROVE  FALSE
    BY <1>1, <1>9 DEF Watched, Inside
  <1>10. ASSUME NEW w \in Workers, PersistIndex(w)
         PROVE  rec'[v] \in Lifecycle \/ Absent(v)'
    <2>1. pc[w] = "persistIndex" /\ pc[w] \in Inside
      BY <1>10 DEF PersistIndex, Inside
    <2>2. CASE AnswerAppended(w)
      BY <1>9, <2>1, <2>2, ResetWorkers DEF AnswerAppended, Return, Watched
    <2>3. PICK outcome \in {"ok", "failed"} :
             /\ indexFile' = Written(outcome, indexFile, marked[w])
             /\ IF outcome = "ok" /\ rec[w] \notin Lifecycle
                THEN AnswerAppended(w)
                ELSE /\ Goto(w, IF outcome = "ok" THEN "loadRegistry"
                                ELSE "rollbackChain")
                     /\ UNCHANGED <<rec, entries, at>>
      BY <1>10, PlainOutcomes DEF PersistIndex
    <2>4. CASE outcome = "failed"
      BY <1>4, <2>1, <2>3, <2>4 DEF Written, Watched
    <2>5. CASE outcome = "ok" /\ rec[w] \in Lifecycle
      <3>1. /\ \A u \in Workers : u # w => pc'[u] = pc[u]
            /\ rec'[w] = rec[w]
        BY <1>1, <2>3, <2>5 DEF Goto
      <3> QED
        BY <1>9, <2>1, <2>5, <3>1
    <2> QED
      BY <2>2, <2>3, <2>4, <2>5
  <1>11. ASSUME NEW w \in Workers, LoadRegistry(w)
         PROVE  rec'[v] \in Lifecycle \/ Absent(v)'
    <2>1. /\ pc[w] \in {"loadRegistry", "reloadRegistry"}
          /\ indexFile' = indexFile /\ UNCHANGED <<rec, entries, at>>
          /\ pc[w] = "loadRegistry" => rec[w] \in Lifecycle
      BY <1>11 DEF LoadRegistry, files, AbsentInv, Absent, Watched
    <2> QED
      BY <1>4, <1>11, <2>1 DEF LoadRegistry, Watched
  <1>12. ASSUME NEW w \in Workers, PersistRegistry(w)
         PROVE  rec'[v] \in Lifecycle \/ Absent(v)'
    BY <1>3, <1>4, <1>12 DEF PersistRegistry, AnswerAppended, Return, Watched
  <1>13. ASSUME NEW w \in Workers, RepersistRegistry(w)
         PROVE  rec'[v] \in Lifecycle \/ Absent(v)'
    BY <1>3, <1>13 DEF RepersistRegistry, AnswerDeduped, AnswerError, Return
  <1>14. ASSUME NEW w \in Workers, RollbackChain(w)
         PROVE  rec'[v] \in Lifecycle \/ Absent(v)'
    BY <1>4, <1>14 DEF RollbackChain, Watched
  <1>15. ASSUME NEW w \in Workers, RollbackIndex(w)
         PROVE  rec'[v] \in Lifecycle \/ Absent(v)'
    <2>1. pc[w] \in Inside /\ Reset({w})
      BY <1>15 DEF RollbackIndex, AnswerError, Return, Inside
    <2> QED
      BY <1>9, <2>1, ResetWorkers DEF Watched
  <1>16. ASSUME NEW w \in Workers, ReadFails(w)
         PROVE  rec'[v] \in Lifecycle \/ Absent(v)'
    BY <1>3, <1>4, <1>16 DEF ReadFails, files, AnswerError, Return, Watched
  <1>17. ASSUME NEW s \in Stores, Crash(s)
         PROVE  FALSE
    <2>1. Reset(Workers)
      <3>1. {w \in Workers : StoreOf[w] = s} = Workers
        BY <1>17 DEF Crash, SingleProcess
      <3> QED
        BY <1>17, <3>1 DEF Crash
    <2> QED
      BY <2>1, ResetWorkers DEF Watched
  <1>18. CASE Tick \/ UNCHANGED vars
    BY <1>2, <1>18 DEF Tick, vars, files, locals, AbsentInv, Absent
  <1> QED
    BY <1>5, <1>6, <1>7, <1>8, <1>10, <1>11, <1>12, <1>13, <1>14, <1>15, <1>16,
       <1>17, <1>18 DEF Next, Step

LEMMA InitAbsent == Init => AbsentInv
  BY DEF Init, AbsentInv, Watched

-----------------------------------------------------------------------------
(* The store implements the log of EvidenceLog with its answers.           *)

LogInv == AnswerInv /\ IndexInv /\ AbsentInv

\* A worker that answers, gives up or dies where it decides nothing.
LEMMA NothingDecided ==
    ASSUME AnswerInv, AnswerInv', chainFile' = chainFile,
           \A v \in Workers : ~ Undecided(v), \A v \in Workers : ~ Undecided(v)'
    PROVE  SettledChain' = SettledChain
  <1>1. SettledChain = chainFile
    BY SettledFile
  <1>2. (AnswerInv => ((\A v \in Workers : ~ Undecided(v))
                          => SettledChain = chainFile))'
    BY SettledFile, PTL
  <1> QED
    BY <1>1, <1>2

LEMMA OutsideUndecided ==
    ASSUME AnswerInv, NEW w \in Workers, pc[w] \in Inside, ~ Undecided(w)
    PROVE  \A v \in Workers : ~ Undecided(v)
  BY DEF AnswerInv, Inside, Undecided

LEMMA EndUndecided ==
    ASSUME \A v \in Workers : ~ Undecided(v), NEW W \in SUBSET Workers, Reset(W)
    PROVE  \A v \in Workers : ~ Undecided(v)'
  BY ResetWorkers DEF Undecided

\* What a deduped answer says is known to the log.
LEMMA KnownToLog ==
    ASSUME AnswerInv, NEW r \in Records, Accounted(DedupeKey[r])
    PROVE  Log!Known(r)
  <1>1. CASE DedupeKey[r] \in left
    BY <1>1 DEF Log!Known, KeyGiven
  <1>2. CASE Explains(SettledChain, DedupeKey[r])
    <2>1. PICK i \in 1..Len(SettledChain.records) :
             DedupeKey[r] \in {BuildKey[SettledChain.records[i].rec],
                               DedupeKey[SettledChain.records[i].rec]}
      BY <1>2 DEF Explains
    <2>2. Len(SettledChain.records) \in Nat
      BY SettledFacts DEF Chain
    <2>3. /\ SettledLog[i] = SettledChain.records[i].rec
          /\ DOMAIN SettledLog = 1..Len(SettledChain.records)
      BY <2>1 DEF SettledLog
    <2>4. Len(SettledLog) = Len(SettledChain.records)
      BY <2>2, <2>3 DEF SettledLog
    <2> QED
      BY <2>1, <2>3, <2>4 DEF Log!Known, RepeatsKey, KeyGiven
  <1> QED
    BY <1>1, <1>2 DEF Accounted

(* Besides commits, a step may leave a key or answer "deduped".            *)
LEMMA AnswerKinds ==
    ASSUME SingleProcess, LogInv, AnswerInv', [Next]_vars
    PROVE  \/ UNCHANGED <<left, skipped>>
           \/ /\ SettledChain' = SettledChain /\ acks' = acks /\ skipped' = skipped
              /\ \E r \in MayLeave : left' = left \cup {DedupeKey[r]}
           \/ /\ SettledChain' = SettledChain /\ acks' = acks /\ left' = left
              /\ \E r \in Records : /\ Accounted(DedupeKey[r])
                                    /\ skipped' = skipped \cup {r}
  <1> USE DEF LogInv
  <1>1. /\ pc \in [Workers -> Inside \cup {"idle", "lock"}]
        /\ \A w \in Workers : pc[w] # "idle" => rec[w] \in Records
    BY DEF AnswerInv, FileInv, Typed, TypeOK
  <1>2. ASSUME NEW w \in Workers, LoadIndex(w) \/ RepersistRegistry(w)
        PROVE  \/ UNCHANGED <<left, skipped>>
               \/ /\ SettledChain' = SettledChain /\ acks' = acks /\ left' = left
                  /\ \E r \in Records : /\ Accounted(DedupeKey[r])
                                        /\ skipped' = skipped \cup {r}
    <2>1. /\ pc[w] \in {"loadIndex", "repersistRegistry"} /\ rec[w] \in Records
          /\ chainFile' = chainFile /\ left' = left
      BY <1>1, <1>2 DEF LoadIndex, RepersistRegistry, files
    <2>2. \A v \in Workers : ~ Undecided(v)
      BY <2>1, OutsideUndecided DEF Inside, Undecided
    <2>3. CASE skipped' = skipped
      BY <2>1, <2>3
    <2>4. CASE AnswerDeduped(w)
      <3>1. /\ Reset({w}) /\ skipped' = skipped \cup {rec[w]} /\ acks' = acks
        BY <2>4 DEF AnswerDeduped, Return
      <3>2. SettledChain' = SettledChain
        BY <2>1, <2>2, <3>1, EndUndecided, NothingDecided
      <3>3. Accounted(DedupeKey[rec[w]])
        <4>1. CASE pc[w] = "repersistRegistry"
          BY <4>1 DEF IndexInv, WorkerInv, Registering
        <4>2. CASE LoadIndex(w)
          <5>1. Duplicate(loaded[w], indexFile, rec[w], at[w]) \/ skipped' = skipped
            BY <4>2 DEF LoadIndex, answers, AnswerError
          <5>2. loaded[w] = SettledChain
            BY <2>2, <4>2, SettledFacts DEF AnswerInv, LoadIndex
          <5>3. \A e \in indexFile : Accounted(e.key)
            BY <4>2, IndexSettled DEF LoadIndex, Inside, Unsettled
          <5>4. CASE Duplicate(loaded[w], indexFile, rec[w], at[w])
            BY <5>2, <5>3, <5>4
               DEF Duplicate, Seen, Purge, ChainHasKey, Accounted, Explains
          <5>5. CASE skipped' = skipped
            BY <3>1, <5>5 DEF IndexInv
          <5> QED
            BY <5>1, <5>4, <5>5
        <4> QED
          BY <1>2, <4>1, <4>2 DEF RepersistRegistry
      <3> QED
        BY <2>1, <3>1, <3>2, <3>3
    <2> QED
      BY <1>2, <2>3, <2>4 DEF LoadIndex, RepersistRegistry, AnswerError, answers
  <1>3. ASSUME NEW w \in Workers, NEW W \in SUBSET Workers, NEW index,
               pc[w] = "rollbackIndex", Reset(W), w \in W,
               chainFile' = chainFile, acks' = acks, skipped' = skipped,
               index \in {indexFile, entries[w]}, left' = left \cup LeftKeys(W, index)
        PROVE  \/ UNCHANGED <<left, skipped>>
               \/ /\ SettledChain' = SettledChain /\ acks' = acks /\ skipped' = skipped
                  /\ \E r \in MayLeave : left' = left \cup {DedupeKey[r]}
    <2>1. pc[w] \in Inside /\ ~ Undecided(w) /\ rec[w] \in Records
      BY <1>1, <1>3 DEF Inside, Undecided
    <2>2. SettledChain' = SettledChain
      BY <1>3, <2>1, OutsideUndecided, EndUndecided, NothingDecided
    <2>3. \A v \in W : pc[v] = "rollbackIndex" => v = w
      BY <1>3, <2>1 DEF AnswerInv, Inside
    <2>4. LeftKeys(W, index) \subseteq {DedupeKey[rec[w]]}
      BY <2>3 DEF LeftKeys
    <2>5. LeftKeys(W, index) # {} => rec[w] \in MayLeave
      <3>1. LeftKeys(W, index) # {} => Seen(index, DedupeKey[rec[w]], at[w])
        BY <2>3 DEF LeftKeys
      <3>2. Compliance = {} /\ rec[w] \notin Lifecycle => Absent(w)
        BY <1>3 DEF AbsentInv, Watched
      <3> QED
        BY <1>3, <2>1, <3>1, <3>2 DEF Absent, MayLeave
    <2>6. CASE LeftKeys(W, index) = {}
      BY <1>3, <2>6
    <2>7. CASE LeftKeys(W, index) = {DedupeKey[rec[w]]}
      BY <1>3, <2>2, <2>5, <2>7
    <2> QED
      BY <2>4, <2>6, <2>7
  <1>4. ASSUME NEW w \in Workers, RollbackIndex(w)
        PROVE  \/ UNCHANGED <<left, skipped>>
               \/ /\ SettledChain' = SettledChain /\ acks' = acks /\ skipped' = skipped
                  /\ \E r \in MayLeave : left' = left \cup {DedupeKey[r]}
    <2>1. /\ pc[w] = "rollbackIndex" /\ Reset({w}) /\ chainFile' = chainFile
          /\ acks' = acks /\ skipped' = skipped
          /\ indexFile' \in {indexFile, entries[w]}
          /\ left' = left \cup LeftKeys({w}, indexFile')
      BY <1>4 DEF RollbackIndex, Written, AnswerError, Return, answers
    <2> QED
      BY <1>3, <2>1
  <1>5. ASSUME NEW s \in Stores, Crash(s)
        PROVE  \/ UNCHANGED <<left, skipped>>
               \/ /\ SettledChain' = SettledChain /\ acks' = acks /\ skipped' = skipped
                  /\ \E r \in MayLeave : left' = left \cup {DedupeKey[r]}
    <2> DEFINE W == {w \in Workers : StoreOf[w] = s}
    <2>1. /\ Reset(W) /\ left' = left \cup LeftKeys(W, indexFile)
          /\ chainFile' = chainFile /\ acks' = acks /\ skipped' = skipped
      BY <1>5 DEF Crash, files, answers
    <2>2. CASE \E w \in W : pc[w] = "rollbackIndex"
      BY <1>3, <2>1, <2>2
    <2>3. CASE \A w \in W : pc[w] # "rollbackIndex"
      <3>1. LeftKeys(W, indexFile) = {}
        BY <2>3 DEF LeftKeys
      <3> QED
        BY <2>1, <3>1
    <2> QED
      BY <2>2, <2>3
  <1>6. ASSUME NEW w \in Workers, NEW r \in Records, Call(w, r)
        PROVE  UNCHANGED <<left, skipped>>
    BY <1>6 DEF Call, answers
  <1>7. ASSUME NEW w \in Workers,
               \/ LoadChain(w) \/ PersistChain(w) \/ PersistIndex(w) \/ LoadRegistry(w)
               \/ PersistRegistry(w) \/ RollbackChain(w) \/ ReadFails(w)
        PROVE  UNCHANGED <<left, skipped>>
    BY <1>7 DEF LoadChain, PersistChain, PersistIndex, LoadRegistry, PersistRegistry,
                RollbackChain, ReadFails, AnswerError, AnswerAppended, answers
  <1>8. CASE Tick \/ UNCHANGED vars
    BY <1>8 DEF Tick, vars, answers
  <1> QED
    BY <1>2, <1>4, <1>5, <1>6, <1>7, <1>8 DEF Next, Step

(* With one process on the directory, Append is atomic: the store is an    *)
(* append-only log of records with distinct keys, what a caller is told    *)
(* was appended is at the end of that log when it is told, and what it is  *)
(* told was deduped is in that log or is a key that an undone append left. *)
THEOREM StoreImplementsLog ==
    ASSUME SingleProcess
    PROVE  Spec => ImplementsLog
  <1>1. Init => Log!Init
    <2> SUFFICES ASSUME Init PROVE Log!Init
      OBVIOUS
    <2>1. AnswerInv
      BY InitAnswer
    <2>2. SettledChain = EmptyChain
      BY <2>1, SettledFacts DEF Init, Undecided
    <2> QED
      BY <2>1, <2>2, SettledLogIsHead DEF Init, Log!Init, EmptyChain
  <1>2. LogInv /\ AnswerInv' /\ [Next]_vars => [Log!Next]_Log!vars
    <2> SUFFICES ASSUME LogInv, AnswerInv', [Next]_vars
                 PROVE  [Log!Next]_Log!vars
      OBVIOUS
    <2>1. AnswerInv
      BY DEF LogInv
    <2>2. SettledLog = SettledChain.head /\ SettledLog' = SettledChain'.head
      <3>1. (AnswerInv => SettledLog = SettledChain.head)'
        BY SettledLogIsHead, PTL
      <3> QED
        BY <2>1, <3>1, SettledLogIsHead
    <2>3. CASE UNCHANGED <<left, skipped>>
      <3>1. CASE SettledChain' = SettledChain /\ acks' = acks
        BY <2>2, <2>3, <3>1 DEF Log!vars
      <3>2. ASSUME NEW r \in Records,
                   ~ ChainHasKey(SettledChain, DedupeKey[r]),
                   SettledChain' = Extend(SettledChain, r),
                   acks' \in {acks, acks \cup
                      {[rec |-> r, head |-> Extend(SettledChain, r).head]}}
            PROVE  Log!Next
        <4>1. SettledChain \in Chain /\ Sound(SettledChain)
          BY <2>1, SettledFacts
        <4>2. ~ RepeatsKey(SettledLog, r)
          BY <2>2, <3>2, <4>1, FreshInLog
        <4>3. Extend(SettledChain, r).head = Append(SettledLog, r)
          BY <2>2, <4>1, ExtendShape
        <4>4. Log!Append1(r)
          BY <2>2, <2>3, <3>2, <4>2, <4>3 DEF Log!Append1
        <4> QED
          BY <4>4 DEF Log!Next
      <3> QED
        BY <2>1, <3>1, <3>2, SettledStep
    <2>4. CASE /\ SettledChain' = SettledChain /\ acks' = acks /\ skipped' = skipped
               /\ \E r \in MayLeave : left' = left \cup {DedupeKey[r]}
      <3>1. PICK r \in MayLeave : left' = left \cup {DedupeKey[r]}
        BY <2>4
      <3>2. Log!Leave(r)
        BY <2>2, <2>4, <3>1 DEF Log!Leave, KeyGiven
      <3>3. r \in Records
        BY <3>1, StoreAssumption DEF MayLeave
      <3> QED
        BY <3>2, <3>3 DEF Log!Next
    <2>5. CASE /\ SettledChain' = SettledChain /\ acks' = acks /\ left' = left
               /\ \E r \in Records : /\ Accounted(DedupeKey[r])
                                     /\ skipped' = skipped \cup {r}
      <3>1. PICK r \in Records : /\ Accounted(DedupeKey[r])
                                 /\ skipped' = skipped \cup {r}
        BY <2>5
      <3>2. Log!Skip(r)
        BY <2>1, <2>2, <2>5, <3>1, KnownToLog DEF Log!Skip
      <3> QED
        BY <3>2 DEF Log!Next
    <2> QED
      BY <2>3, <2>4, <2>5, AnswerKinds
  <1>3. Init => LogInv
    BY InitAnswer, InitIndex, InitAbsent DEF LogInv
  <1>4. LogInv /\ [Next]_vars => LogInv' /\ AnswerInv'
    BY NextAnswer, NextIndex, NextAbsent DEF LogInv
  <1> QED
    BY <1>1, <1>2, <1>3, <1>4, PTL DEF Spec, ImplementsLog, Log!Spec

-----------------------------------------------------------------------------
(* The output directory of `axym bundle`, which reads the store while its  *)
(* other processes go on: where the old output is at each of its steps.    *)

Gathering == {"chain", "verify", "provenance", "contracts", "receipt",
              "govern", "registry", "moveAway"}

\* Where the old output is, by the step of the command.
Placed ==
    /\ bpc \in Gathering => out = Old
    /\ bpc = "promote" => out = NoDir /\ Old \in backups
    /\ bpc = "cleanup" => out = Old \/ (out = NoDir /\ Old \in backups)
    /\ bpc = "discard" => out = last

\* Until the promotion the command found the last output, or none in place.
Found ==
    bpc \notin {"idle", "discard"} =>
        /\ was \in {NoDir, Marked, last}
        /\ was = NoDir => last = NoDir \/ last \in backups

OutInv ==
    /\ OutputWhole
    /\ Placed
    /\ Found
    /\ last # Marked
    /\ bpc \in Gathering \cup {"idle", "promote", "cleanup", "discard"}

(* A directory with a bundle has more in it than one with the marker.      *)
LEMMA WholeIsMore == \A b : Whole(b) # Marked /\ Whole(b) # NoDir /\ Marked # NoDir
  BY DEF Whole, Marked, NoDir

LEMMA InitOut == BundleInit => OutInv
  BY WholeIsMore DEF BundleInit, OutInv, OutputWhole, Placed, Found, Gathering

(* A step that only goes on gathering, or gives up, leaves the directories *)
(* as they are.                                                            *)
LEMMA GatherStep ==
    ASSUME OutInv, bpc \in Gathering, bpc' \in Gathering \cup {"cleanup"},
           UNCHANGED <<was, outputs>>
    PROVE  OutInv'
  BY DEF OutInv, OutputWhole, Placed, Found, Gathering, outputs, Old

(* So does the lookup of a record, whatever it finds.                      *)
LEMMA LookUpStep ==
    ASSUME NEW label \in Gathering, NEW next \in Gathering, NEW part,
           LookUp(label, next, part)
    PROVE  /\ bpc \in Gathering /\ bpc' \in Gathering \cup {"cleanup"}
           /\ UNCHANGED <<was, outputs>>
  BY DEF LookUp, Gather, Continue

(* The invariant that says where the old output is at every step.          *)
LEMMA NextOut == OutInv /\ [BundleNext]_bvars => OutInv'
  <1> SUFFICES ASSUME OutInv, [BundleNext]_bvars
               PROVE  OutInv'
    OBVIOUS
  <1> USE DEF Gathering
  <1>1. CASE UNCHANGED <<builder, outputs>>
    BY <1>1 DEF OutInv, OutputWhole, Placed, Found, builder, outputs, Old
  <1>2. CASE Start
    <2>1. Marked # NoDir
      BY WholeIsMore
    <2> QED
      BY <1>2, <2>1 DEF Start, Continue, BuildFails, OutInv, OutputWhole, Placed, Found, Old
  <1>3. CASE SnapshotChain
    BY <1>3, GatherStep DEF SnapshotChain, Gather, Continue
  <1>4. CASE VerifyChain
    BY <1>4, GatherStep DEF VerifyChain, Continue, Fail
  <1>5. CASE CheckProvenance
    BY <1>5, GatherStep, LookUpStep DEF CheckProvenance
  <1>6. CASE LoadContracts
    BY <1>6, GatherStep DEF LoadContracts, Gather, Continue, AfterReceipt
  <1>7. CASE ReadReceipt
    BY <1>7, GatherStep DEF ReadReceipt, Gather, Continue, AfterReceipt
  <1>8. CASE Govern
    BY <1>8, GatherStep, LookUpStep DEF Govern
  <1>9. CASE ReadRegistry
    BY <1>9, GatherStep DEF ReadRegistry, Gather, Continue
  <1>10. CASE GatherFails
    BY <1>10, GatherStep DEF GatherFails, Fail, Continue
  <1>11. CASE MoveAway
    BY <1>11, WholeIsMore DEF MoveAway, OutInv, OutputWhole, Placed, Found, Old
  <1>12. CASE Promote
    BY <1>12, WholeIsMore DEF Promote, OutInv, OutputWhole, Placed, Found
  <1>13. CASE PromoteFails
    BY <1>13, WholeIsMore
       DEF PromoteFails, Fail, Continue, OutInv, OutputWhole, Placed, Found, Old
  <1>14. CASE Discard
    BY <1>14 DEF Discard, End, Continue, OutInv, OutputWhole, Placed, Found
  <1>15. CASE Cleanup
    BY <1>15, WholeIsMore
       DEF Cleanup, End, Continue, OutInv, OutputWhole, Placed, Found, Old
  <1>16. CASE Killed
    BY <1>16 DEF Killed, End, Continue, outputs, OutInv, OutputWhole, Placed, Found
  <1>17. CASE StoreStep \/ PersistActivation
    BY <1>1, <1>17 DEF StoreStep, PersistActivation
  <1>18. CASE UNCHANGED bvars
    BY <1>1, <1>18 DEF bvars
  <1> QED
    BY <1>2, <1>3, <1>4, <1>5, <1>6, <1>7, <1>8, <1>9, <1>10, <1>11, <1>12,
       <1>13, <1>14, <1>15, <1>16, <1>17, <1>18 DEF BundleNext

(* Whatever fails and whenever the command is killed, the output directory *)
(* holds no bundle, or the whole bundle promoted last; when it is not in   *)
(* the output directory it is in a backup.                                 *)
THEOREM OutputAlwaysWhole == BundleSpec => []OutputWhole
  <1>1. OutInv => OutputWhole
    BY DEF OutInv
  <1> QED
    BY InitOut, NextOut, <1>1, PTL DEF BundleSpec

(* A command that fails leaves the output directory as it found it, or     *)
(* when neither rename works, what was in it in the backup.                *)
THEOREM FailureAlwaysKeepsOutput == BundleSpec => FailureKeepsOutput
  <1> DEFINE Kept == bpc = "cleanup" /\ bpc' = "idle"
                     => out' = was \/ was \in backups' \/ (was = NoDir /\ out' = Marked)
  <1>1. OutInv /\ [BundleNext]_bvars => [Kept]_bvars
    <2> SUFFICES ASSUME OutInv, BundleNext, bpc = "cleanup", bpc' = "idle"
                 PROVE  out' = was \/ was \in backups' \/ (was = NoDir /\ out' = Marked)
      OBVIOUS
    <2>1. Cleanup \/ Killed
      BY DEF BundleNext, StoreStep, PersistActivation, builder, Start, SnapshotChain,
             VerifyChain, CheckProvenance, LookUp, LoadContracts, ReadReceipt, Govern,
             ReadRegistry, Gather, GatherFails, MoveAway, Promote, PromoteFails, Discard
    <2>2. CASE Cleanup
      BY <2>2 DEF Cleanup, OutInv, Placed, Old
    <2>3. CASE Killed
      BY <2>3 DEF Killed, outputs, OutInv, Placed, Old
    <2> QED
      BY <2>1, <2>2, <2>3
  <1> HIDE DEF Kept
  <1>2. BundleSpec => [][Kept]_bvars
    BY InitOut, NextOut, <1>1, PTL DEF BundleSpec
  <1> QED
    BY <1>2 DEF FailureKeepsOutput, Kept

-----------------------------------------------------------------------------
(* What a bundle holds of the store, for one process that appends: the     *)
(* settled chain only grows, so what was read of it stays; only the last   *)
(* record of the chain that was read may have been unsettled, and then     *)
(* another record, or none, may come to stand in its place.                *)

Entry == [rec : Records, prev : Hashes]

Parts == [chain : Chain, checked : Chain, summary : Seq(Entry), envelope : Nat,
          receipt : Nat, proposal : BOOLEAN, register : Seq(Entry),
          registry : Registry, owed : SUBSET [rec : Records, head : Hashes]]

\* A bundle's chain, when s is the settled chain.
Historic(s, b) ==
    /\ Sound(b.chain)
    /\ Keeps(b.chain, b.owed)
    /\ Follows(s, b.chain)

\* The i-th record was not settled, and another has taken its place.
Replaced(s, c, i) == i <= Len(s.records) /\ s.records[i] # c.records[i]

\* The first n records of the chain c, where they are lifecycle records and
\* still in their places, are registered.
LookedUp(s, reg, c, n) ==
    \A i \in 1..Len(c.records) :
        i <= n /\ c.records[i].rec \in Lifecycle
        => \/ [rec |-> c.records[i].rec, hash |-> Hash(c.records[i])] \in reg
           \/ Replaced(s, c, i)

Promotable(s, b) ==
    /\ Historic(s, b)
    /\ Follows(b.checked, b.chain)
    /\ b.summary = b.chain.records
    /\ b.proposal => b.register = b.chain.records
    /\ LookedUp(s, b.registry, b.chain, Len(b.chain.records))

\* What the command has gathered when it comes to a step.
WithChain == {"verify", "provenance", "contracts", "receipt", "govern",
              "registry", "moveAway", "promote", "discard"}
WithChecked == WithChain \ {"verify"}
WithSummary == WithChecked \ {"provenance"}
WithRegistry == {"moveAway", "promote", "discard"}
WithRegister == {"registry"} \cup WithRegistry

StagedInv ==
    /\ bpc \in {"idle", "chain", "verify"} => checking = 1
    /\ bpc \in WithChain => Historic(SettledChain, staged)
    /\ bpc \in WithChecked => Follows(staged.checked, staged.chain)
    /\ bpc \in WithSummary => staged.summary = staged.chain.records
    /\ bpc \in WithRegister /\ staged.proposal => staged.register = staged.chain.records

LookedUpInv ==
    /\ bpc = "provenance"
       => LookedUp(SettledChain, registryFile, staged.chain, checking - 1)
    /\ bpc \in WithSummary \ WithRegistry
       => LookedUp(SettledChain, registryFile, staged.chain, Len(staged.chain.records))
    /\ bpc \in WithRegistry
       => LookedUp(SettledChain, staged.registry, staged.chain, Len(staged.chain.records))

BuildInv ==
    /\ contracts \in [proposal : BOOLEAN, activation : Nat]
    /\ staged \in Parts /\ staged.owed \subseteq acks
    /\ checking \in Nat \ {0}
    /\ StagedInv
    /\ LookedUpInv
    /\ last = NoDir \/ \E b \in Parts : last = Whole(b) /\ Promotable(SettledChain, b)

(* Leaving out the last record, as Follows does.                           *)
LEMMA ButLast ==
    ASSUME NEW c \in Chain, NEW d \in Chain, Follows(d, c)
    PROVE  Includes(d, AllButLast(c.records))
  <1> DEFINE n == Len(c.records)
             most == AllButLast(c.records)
  <1>1. n \in Nat /\ c.records \in Seq(Entry) /\ Len(d.records) \in Nat
    BY DEF Chain, Entry
  <1>2. \A i \in 1..(n - 1) : c.records[i] \in Entry
    BY <1>1
  <1>3. /\ most \in Seq(Entry)
        /\ Len(most) = IF 1 <= n - 1 THEN n - 1 - 1 + 1 ELSE 0
        /\ \A i \in 1..(n - 1 - 1 + 1) : most[i] = c.records[1 + i - 1]
    BY <1>1, <1>2, SubSeqProperties DEF AllButLast
  <1>4. DOMAIN most = 1..Len(most)
    BY <1>3
  <1> HIDE DEF most, n
  <1>5. Len(most) <= Len(d.records)
    BY <1>1, <1>3 DEF Follows, n
  <1>6. ASSUME NEW i \in DOMAIN most
        PROVE  d.records[i] = most[i]
    <2>1. i \in 1..(n - 1) /\ i \in Nat
      BY <1>1, <1>3, <1>4
    <2>2. most[i] = c.records[i]
      BY <1>1, <1>3, <2>1
    <2> QED
      BY <2>1, <2>2 DEF Follows, n
  <1> QED
    BY <1>5, <1>6 DEF Includes, most

(* A chain that begins with all the records of d still has those.          *)
LEMMA FollowsLonger ==
    ASSUME NEW c \in Chain, NEW d \in Chain, NEW e \in Chain,
           Follows(d, c), Includes(e, d.records)
    PROVE  Follows(e, c)
  <1>1. /\ Len(c.records) \in Nat /\ Len(d.records) \in Nat /\ Len(e.records) \in Nat
        /\ DOMAIN d.records = 1..Len(d.records)
    BY DEF Chain
  <1>2. ASSUME NEW i \in 1..(Len(c.records) - 1)
        PROVE  e.records[i] = c.records[i]
    <2>1. i \in DOMAIN d.records
      BY <1>1 DEF Follows
    <2> QED
      BY <2>1 DEF Follows, Includes
  <1> QED
    BY <1>1, <1>2 DEF Follows, Includes

LEMMA ReplacedStays ==
    ASSUME NEW c \in Chain, NEW s \in Chain, NEW t \in Chain, Includes(t, s.records),
           NEW i \in 1..Len(c.records), Replaced(s, c, i)
    PROVE  Replaced(t, c, i)
  <1>1. /\ Len(s.records) \in Nat /\ Len(t.records) \in Nat
        /\ DOMAIN s.records = 1..Len(s.records) /\ i \in Nat \ {0}
    BY DEF Chain
  <1>2. i \in DOMAIN s.records
    BY <1>1 DEF Replaced
  <1> QED
    BY <1>1, <1>2 DEF Replaced, Includes

(* What was settled stays, so a finished bundle keeps its promises.        *)
LEMMA PromotableStays ==
    ASSUME NEW b \in Parts, NEW s \in Chain, NEW t \in Chain, Includes(t, s.records)
    PROVE  /\ Historic(s, b) => Historic(t, b)
           /\ \A reg, n : LookedUp(s, reg, b.chain, n) => LookedUp(t, reg, b.chain, n)
           /\ Promotable(s, b) => Promotable(t, b)
  <1>1. b.chain \in Chain
    BY DEF Parts
  <1>2. Historic(s, b) => Historic(t, b)
    BY <1>1, FollowsLonger DEF Historic
  <1>3. \A reg, n : LookedUp(s, reg, b.chain, n) => LookedUp(t, reg, b.chain, n)
    BY <1>1, ReplacedStays DEF LookedUp
  <1> QED
    BY <1>2, <1>3 DEF Promotable

-----------------------------------------------------------------------------
(* Registrations, while a command looks records up.                        *)

(* A registration puts one entry in the place of that record's old one.    *)
LEMMA RegistryWritten ==
    ASSUME AnswerInv, RegistryInv, [Next]_vars
    PROVE  \/ registryFile' = registryFile
           \/ \E w \in Workers :
                 /\ pc[w] = "persistRegistry"
                 /\ registryFile' = Upsert(registryFile, rec[w],
                                           Extend(loaded[w], rec[w]).head)
           \/ \E w \in Workers :
                 /\ pc[w] = "repersistRegistry"
                 /\ registryFile' = Upsert(registryFile, rec[w],
                                           StoredHash(loaded[w], rec[w]))
  <1>1. ASSUME NEW w \in Workers, PersistRegistry(w)
        PROVE  \/ registryFile' = registryFile
               \/ /\ pc[w] = "persistRegistry"
                  /\ registryFile' = Upsert(registryFile, rec[w],
                                            Extend(loaded[w], rec[w]).head)
    <2>1. pc[w] = "persistRegistry" /\ registry[w] = registryFile
      BY <1>1 DEF PersistRegistry, RegistryInv
    <2> QED
      BY <1>1, <2>1 DEF PersistRegistry, Written
  <1>2. ASSUME NEW w \in Workers, RepersistRegistry(w)
        PROVE  \/ registryFile' = registryFile
               \/ /\ pc[w] = "repersistRegistry"
                  /\ registryFile' = Upsert(registryFile, rec[w],
                                            StoredHash(loaded[w], rec[w]))
    <2>1. pc[w] = "repersistRegistry" /\ registry[w] = registryFile
      BY <1>2 DEF RepersistRegistry, RegistryInv
    <2> QED
      BY <1>2, <2>1 DEF RepersistRegistry, Written
  <1>3. ASSUME NEW w \in Workers, Step(w)
        PROVE  PersistRegistry(w) \/ RepersistRegistry(w) \/ registryFile' = registryFile
    BY <1>3 DEF Step, LoadIndex, PersistChain, PersistIndex, LoadRegistry, RollbackChain,
                RollbackIndex, files
  <1>4. ASSUME NEW w \in Workers,
               (\E r \in Records : Call(w, r)) \/ LoadChain(w) \/ ReadFails(w)
        PROVE  registryFile' = registryFile
    BY <1>4 DEF Call, LoadChain, ReadFails, files
  <1>5. (\E s \in Stores : Crash(s)) \/ Tick \/ UNCHANGED vars => registryFile' = registryFile
    BY DEF Crash, Tick, vars, files
  <1> QED
    BY <1>1, <1>2, <1>3, <1>4, <1>5 DEF Next

LEMMA EntryAt ==
    ASSUME NEW c \in Chain
    PROVE  /\ Len(c.records) \in Nat
           /\ \A i \in 1..Len(c.records) :
                /\ i \in Nat \ {0} /\ i <= Len(c.records)
                /\ c.records[i].rec \in Records
  <1>1. c.records \in Seq(Entry) /\ Len(c.records) \in Nat
    BY DEF Chain, Entry
  <1>2. \A i \in 1..Len(c.records) : c.records[i] \in Entry
    BY <1>1
  <1> QED
    BY <1>1, <1>2 DEF Entry

(* The hash with which a record is registered when it is linked to the     *)
(* settled chain is the one it has in a snapshot that had it there; when   *)
(* the snapshot had it elsewhere, another record is settled in its place.  *)
LEMMA HashWhenLinked ==
    ASSUME NEW s \in Chain, Sound(s), NEW c \in Chain, Sound(c), Follows(s, c),
           NEW i \in 1..Len(c.records),
           ~ ChainHasKey(s, DedupeKey[c.records[i].rec]),
           ~ Manual(c.records[i].rec)
    PROVE  Replaced(s, c, i) \/ Hash(c.records[i]) = Extend(s, c.records[i].rec).head
  <1> DEFINE e == c.records[i]
             m == Len(s.records)
             n == Len(c.records)
  <1>1. /\ m \in Nat /\ n \in Nat /\ i \in Nat \ {0} /\ i <= n
        /\ e.rec \in Records
    BY EntryAt
  <1>2. CASE i <= m
    <2>1. BuildKey[s.records[i].rec] # DedupeKey[e.rec]
      BY <1>1, <1>2 DEF ChainHasKey
    <2>2. s.records[i] # e
      BY <2>1 DEF Manual
    <2> QED
      BY <1>2, <2>2 DEF Replaced
  <1>3. CASE i > m
    <2>1. i = n /\ i = m + 1
      BY <1>1, <1>3 DEF Follows
    <2>2. e.prev = IF i = 1 THEN <<>> ELSE Hash(c.records[i - 1])
      BY DEF Sound, Verified
    <2>3. s.head = IF s.records = <<>> THEN <<>> ELSE Hash(s.records[m])
      BY DEF Sound, Verified
    <2>4. e.prev = s.head
      <3>1. CASE i = 1
        <4>1. s.records = <<>>
          BY <1>1, <2>1, <3>1 DEF Chain
        <4> QED
          BY <2>2, <2>3, <3>1, <4>1
      <3>2. CASE i # 1
        <4>1. m \in 1..(n - 1) /\ i - 1 = m
          BY <1>1, <2>1, <3>2
        <4>2. s.records[m] = c.records[m]
          BY <4>1 DEF Follows
        <4>3. s.records # <<>>
          BY <4>1
        <4> QED
          BY <2>2, <2>3, <3>2, <4>1, <4>2, <4>3
      <3> QED
        BY <3>1, <3>2
    <2>5. Extend(s, e.rec).head = Append(s.head, e.rec)
      BY <1>1, ExtendShape
    <2> QED
      BY <2>4, <2>5 DEF Hash
  <1> QED
    BY <1>1, <1>2, <1>3

(* So is the hash under which a settled record is registered again.        *)
LEMMA HashWhenStored ==
    ASSUME LifecycleKeysDerived,
           NEW s \in Chain, Sound(s), NEW c \in Chain, Sound(c), Follows(s, c),
           NEW i \in 1..Len(c.records), c.records[i].rec \in Lifecycle,
           Positions(s, c.records[i].rec) # {}
    PROVE  Replaced(s, c, i) \/ Hash(c.records[i]) = StoredHash(s, c.records[i].rec)
  <1> DEFINE e == c.records[i]
             r == c.records[i].rec
             m == Len(s.records)
             n == Len(c.records)
  <1>1. m \in Nat /\ n \in Nat /\ i \in Nat \ {0} /\ i <= n /\ r \in Records
    BY EntryAt
  <1>2. PICK j \in Positions(s, r) : StoredHash(s, r) = Hash(s.records[j])
    BY <1>1, StoredHashAt
  <1>3. j \in 1..m /\ s.records[j].rec = r
    BY DEF Positions
  <1>4. CASE i <= m
    <2>1. CASE s.records[i] = e
      <3>1. i \in Positions(s, r)
        BY <1>1, <1>4, <2>1 DEF Positions
      <3>2. i = j
        BY <3>1, OnePosition
      <3> QED
        BY <1>2, <2>1, <3>2
    <2>2. CASE s.records[i] # e
      BY <1>4, <2>2 DEF Replaced
    <2> QED
      BY <2>1, <2>2
  <1>5. CASE i > m
    <2>1. i = n /\ i = m + 1
      BY <1>1, <1>5 DEF Follows
    <2>2. j \in 1..(n - 1) /\ j \in 1..n /\ j # i
      BY <1>1, <1>3, <2>1
    <2>3. s.records[j] = c.records[j]
      BY <2>2 DEF Follows
    <2>4. j \in Positions(c, r) /\ i \in Positions(c, r)
      BY <1>3, <2>2, <2>3 DEF Positions
    <2>5. i = j
      BY <2>4, OnePosition
    <2> QED
      BY <2>2, <2>5
  <1> QED
    BY <1>1, <1>4, <1>5

(* A lookup stays good: the entry that was found is there, or the record   *)
(* has been replaced in the chain.                                         *)
LEMMA LookedUpStays ==
    ASSUME LifecycleKeysDerived, SingleProcess, AnswerInv, AnswerInv', RegistryInv,
           [Next]_vars, NEW b \in Parts, Historic(SettledChain, b),
           NEW n, LookedUp(SettledChain, registryFile, b.chain, n)
    PROVE  LookedUp(SettledChain', registryFile', b.chain, n)
  <1> DEFINE c == b.chain
             s == SettledChain
  <1>1. /\ c \in Chain /\ Sound(c) /\ Follows(s, c) /\ s \in Chain /\ Sound(s)
        /\ SettledChain' \in Chain /\ Includes(SettledChain', s.records)
    BY SettledGrows DEF Parts, Historic
  <1> SUFFICES ASSUME NEW i \in 1..Len(c.records), i <= n, c.records[i].rec \in Lifecycle
               PROVE  \/ [rec |-> c.records[i].rec, hash |-> Hash(c.records[i])]
                            \in registryFile'
                      \/ Replaced(SettledChain', c, i)
    BY DEF LookedUp
  <1> DEFINE r == c.records[i].rec
             receipt == [rec |-> r, hash |-> Hash(c.records[i])]
  <1>2. Replaced(s, c, i) => Replaced(SettledChain', c, i)
    BY <1>1, ReplacedStays
  <1>3. receipt \in registryFile \/ Replaced(s, c, i)
    BY DEF LookedUp
  <1>4. ASSUME NEW q, NEW hash, registryFile' = Upsert(registryFile, q, hash),
               q = r => Replaced(s, c, i) \/ Hash(c.records[i]) = hash
        PROVE  receipt \in registryFile' \/ Replaced(s, c, i)
    BY <1>3, <1>4 DEF Upsert
  <1>5. ASSUME NEW w \in Workers, pc[w] = "persistRegistry", rec[w] = r
        PROVE  \/ Replaced(s, c, i)
               \/ Hash(c.records[i]) = Extend(loaded[w], rec[w]).head
    <2>1. Undecided(w)
      BY <1>5 DEF Undecided
    <2>2. s = loaded[w] /\ ~ ChainHasKey(loaded[w], DedupeKey[rec[w]])
      BY <2>1, SettledFacts DEF AnswerInv
    <2>3. ~ Manual(r)
      BY DEF LifecycleKeysDerived
    <2> QED
      BY <1>1, <1>5, <2>2, <2>3, HashWhenLinked
  <1>6. ASSUME NEW w \in Workers, pc[w] = "repersistRegistry", rec[w] = r
        PROVE  \/ Replaced(s, c, i)
               \/ Hash(c.records[i]) = StoredHash(loaded[w], rec[w])
    <2>1. \A v \in Workers : ~ Undecided(v)
      BY <1>6 DEF AnswerInv, Undecided, Inside
    <2>2. s = loaded[w]
      BY <1>6, <2>1, SettledFacts DEF RegistryInv
    <2>3. Positions(loaded[w], rec[w]) # {}
      BY <1>6 DEF AnswerInv, FileInv, Typed
    <2>4. Positions(s, r) # {}
      BY <1>6, <2>2, <2>3
    <2>5. Replaced(s, c, i) \/ Hash(c.records[i]) = StoredHash(s, r)
      BY <1>1, <2>4, HashWhenStored
    <2> QED
      BY <1>6, <2>2, <2>5
  <1>7. receipt \in registryFile' \/ Replaced(s, c, i)
    <2>1. CASE registryFile' = registryFile
      BY <1>3, <2>1
    <2>2. CASE \E w \in Workers :
                 /\ pc[w] = "persistRegistry"
                 /\ registryFile' = Upsert(registryFile, rec[w],
                                           Extend(loaded[w], rec[w]).head)
      BY <1>4, <1>5, <2>2
    <2>3. CASE \E w \in Workers :
                 /\ pc[w] = "repersistRegistry"
                 /\ registryFile' = Upsert(registryFile, rec[w],
                                           StoredHash(loaded[w], rec[w]))
      BY <1>4, <1>6, <2>3
    <2> QED
      BY <2>1, <2>2, <2>3, RegistryWritten
  <1> QED
    BY <1>2, <1>7

-----------------------------------------------------------------------------
(* The steps of the command.                                               *)

LEMMA BlankParts == Blank \in Parts
  <1>1. /\ EmptyChain \in Chain /\ <<>> \in Seq(Entry)
        /\ {} \in Registry /\ {} \in SUBSET [rec : Records, head : Hashes]
        /\ 0 \in Nat /\ FALSE \in BOOLEAN
    BY EmptyChainType DEF Registry
  <1> QED
    BY <1>1 DEF Blank, Parts

LEMMA InitBuild == BundleInit => BuildInv
  <1> SUFFICES ASSUME BundleInit PROVE BuildInv
    OBVIOUS
  <1>1. AnswerInv
    BY InitAnswer DEF BundleInit
  <1>2. SettledChain = EmptyChain
    BY <1>1, SettledFacts DEF BundleInit, Init, Undecided
  <1>3. Promotable(EmptyChain, Blank)
    <2>1. /\ Blank.chain = EmptyChain /\ Blank.checked = EmptyChain /\ Blank.summary = <<>>
          /\ Blank.proposal = FALSE /\ Blank.registry = {} /\ Blank.owed = {}
      BY DEF Blank
    <2>2. EmptyChain.records = <<>>
      BY DEF EmptyChain
    <2>3. Keeps(EmptyChain, {})
      BY DEF Keeps
    <2>4. Follows(EmptyChain, EmptyChain)
      BY SameIncludes, EmptyChainType
    <2>5. LookedUp(EmptyChain, {}, EmptyChain, Len(EmptyChain.records))
      BY <2>2 DEF LookedUp
    <2> QED
      BY <2>1, <2>2, <2>3, <2>4, <2>5, EmptyChainSound DEF Promotable, Historic
  <1>4. contracts \in [proposal : BOOLEAN, activation : Nat]
    <2>1. contracts \in [proposal : BOOLEAN, activation : 0..MaxVersion]
      BY BundleAssumption DEF BundleInit
    <2>2. contracts.activation \in Nat
      BY <2>1, BundleAssumption
    <2>3. contracts = [proposal |-> contracts.proposal, activation |-> contracts.activation]
          /\ contracts.proposal \in BOOLEAN
      BY <2>1
    <2> QED
      BY <2>2, <2>3
  <1>5. last = NoDir \/ \E b \in Parts : last = Whole(b) /\ Promotable(SettledChain, b)
    BY <1>2, <1>3, BlankParts DEF BundleInit
  <1>6. bpc = "idle" /\ staged = Blank /\ checking = 1 /\ staged.owed = {}
    BY DEF BundleInit, Blank
  <1>7. StagedInv /\ LookedUpInv
    BY <1>6 DEF StagedInv, LookedUpInv, WithChain, WithChecked, WithSummary, WithRegister,
                WithRegistry
  <1> QED
    BY <1>4, <1>5, <1>6, <1>7, BlankParts DEF BuildInv

(* What the command has, and the bundle promoted last, stay as good as     *)
(* they were while other commands go on.                                   *)
StillGood ==
    /\ bpc \in WithChain => Historic(SettledChain', staged)
    /\ bpc = "provenance"
       => LookedUp(SettledChain', registryFile', staged.chain, checking - 1)
    /\ bpc \in WithSummary \ WithRegistry
       => LookedUp(SettledChain', registryFile', staged.chain, Len(staged.chain.records))
    /\ bpc \in WithRegistry
       => LookedUp(SettledChain', staged.registry, staged.chain, Len(staged.chain.records))
    /\ staged.owed \subseteq acks'
    /\ last = NoDir \/ \E b \in Parts : last = Whole(b) /\ Promotable(SettledChain', b)

LEMMA StoreKeeps ==
    ASSUME LifecycleKeysDerived, SingleProcess, AnswerInv, AnswerInv', RegistryInv,
           BuildInv, [Next]_vars
    PROVE  StillGood
  <1>1. /\ SettledChain \in Chain /\ SettledChain' \in Chain
        /\ Includes(SettledChain', SettledChain.records)
        /\ acks \subseteq acks'
    BY SettledGrows
  <1>0. staged \in Parts
    BY DEF BuildInv
  <1>2. bpc \in WithChain => Historic(SettledChain', staged)
    BY <1>0, <1>1, PromotableStays DEF BuildInv, StagedInv
  <1>3. /\ {"provenance"} \subseteq WithChain
        /\ WithSummary \ WithRegistry \subseteq WithChain
    BY DEF WithSummary, WithChecked, WithChain
  <1>4. bpc = "provenance"
        => LookedUp(SettledChain', registryFile', staged.chain, checking - 1)
    BY <1>0, <1>3, LookedUpStays DEF BuildInv, StagedInv, LookedUpInv
  <1>5. bpc \in WithSummary \ WithRegistry
        => LookedUp(SettledChain', registryFile', staged.chain, Len(staged.chain.records))
    BY <1>0, <1>3, LookedUpStays DEF BuildInv, StagedInv, LookedUpInv
  <1>6. bpc \in WithRegistry
        => LookedUp(SettledChain', staged.registry, staged.chain, Len(staged.chain.records))
    BY <1>0, <1>1, PromotableStays DEF BuildInv, LookedUpInv
  <1>7. last = NoDir \/ \E b \in Parts : last = Whole(b) /\ Promotable(SettledChain', b)
    BY <1>0, <1>1, PromotableStays DEF BuildInv
  <1>8. staged.owed \subseteq acks'
    BY <1>1 DEF BuildInv
  <1> QED
    BY <1>2, <1>4, <1>5, <1>6, <1>7, <1>8 DEF StillGood

(* Steps of other commands.                                                *)
LEMMA AsideStep ==
    ASSUME BuildInv, StillGood, UNCHANGED <<builder, last>>,
           contracts' \in [proposal : BOOLEAN, activation : Nat]
    PROVE  BuildInv'
  <1>1. UNCHANGED <<bpc, staged, checking, last>>
    BY DEF builder
  <1>2. StagedInv'
    BY <1>1 DEF BuildInv, StillGood, StagedInv
  <1>3. LookedUpInv'
    BY <1>1 DEF StillGood, LookedUpInv
  <1> QED
    BY <1>1, <1>2, <1>3 DEF BuildInv, StillGood

(* Steps that give up, or end the command.                                 *)
LEMMA GivesUp ==
    ASSUME BuildInv, StillGood, UNCHANGED <<last, contracts>>,
           bpc' \in {"idle", "cleanup"}, staged' = Blank, checking' = 1
    PROVE  BuildInv'
  <1>1. StagedInv' /\ LookedUpInv'
    BY DEF StagedInv, LookedUpInv, WithChain, WithChecked, WithSummary, WithRegister,
           WithRegistry
  <1>2. staged'.owed \subseteq acks'
    BY DEF Blank
  <1> QED
    BY <1>1, <1>2, BlankParts DEF BuildInv, StillGood

(* Steps that start, and that read a file of the store.                    *)
LEMMA Reads ==
    ASSUME BuildInv, StillGood, AnswerInv', UNCHANGED <<last, contracts>>,
           Start \/ SnapshotChain \/ VerifyChain \/ ReadRegistry
    PROVE  BuildInv'
  <1>1. /\ staged \in Parts /\ checking \in Nat \ {0}
        /\ contracts \in [proposal : BOOLEAN, activation : Nat]
    BY DEF BuildInv
  <1>2. /\ chainFile' \in Chain /\ Sound(chainFile')
        /\ Follows(SettledChain', chainFile')
        /\ Includes(chainFile', SettledChain'.records)
        /\ SettledChain' \in Chain
        /\ registryFile' \in Registry /\ Keeps(chainFile', acks')
        /\ acks' \in SUBSET [rec : Records, head : Hashes]
    <2>1. (AnswerInv => /\ chainFile \in Chain /\ Sound(chainFile)
                        /\ Follows(SettledChain, chainFile)
                        /\ SettledChain \in Chain
                        /\ Includes(chainFile, SettledChain.records)
                        /\ registryFile \in Registry /\ Keeps(chainFile, acks)
                        /\ acks \in SUBSET [rec : Records, head : Hashes])'
      BY FilesRead, PTL
    <2> QED
      BY <2>1
  <1>3. CASE Start
    <2>1. \/ bpc' = "chain" /\ staged' = [Blank EXCEPT !.owed = acks]
          \/ bpc' = bpc /\ staged' = staged
      BY <1>3 DEF Start, Continue
    <2>2. checking' = checking /\ bpc = "idle" /\ acks' = acks
      BY <1>3 DEF Start, vars, answers
    <2>3. StagedInv' /\ LookedUpInv'
      BY <2>1, <2>2 DEF BuildInv, StagedInv, LookedUpInv, WithChain, WithChecked, WithSummary,
                        WithRegister, WithRegistry
    <2>4. CASE bpc' = "chain" /\ staged' = [Blank EXCEPT !.owed = acks]
      <3>1. staged' = [chain |-> Blank.chain, checked |-> Blank.checked,
                       summary |-> Blank.summary, envelope |-> Blank.envelope,
                       receipt |-> Blank.receipt, proposal |-> Blank.proposal,
                       register |-> Blank.register, registry |-> Blank.registry,
                       owed |-> acks]
        BY <2>4, BlankParts DEF Parts
      <3>2. staged' \in Parts /\ staged'.owed \subseteq acks'
        BY <1>2, <2>2, <3>1, BlankParts DEF Parts
      <3> QED
        BY <1>1, <2>2, <2>3, <3>2 DEF BuildInv, StillGood
    <2>5. CASE bpc' = bpc /\ staged' = staged
      BY <1>1, <2>2, <2>3, <2>5 DEF BuildInv, StillGood
    <2> QED
      BY <2>1, <2>4, <2>5
  <1>4. CASE SnapshotChain
    <2>1. /\ bpc' = "verify" /\ checking' = checking /\ bpc = "chain"
          /\ staged' = [staged EXCEPT !.chain = chainFile']
      BY <1>4 DEF SnapshotChain, Gather, Continue, vars, files
    <2>2. staged' = [chain |-> chainFile', checked |-> staged.checked,
                     summary |-> staged.summary, envelope |-> staged.envelope,
                     receipt |-> staged.receipt, proposal |-> staged.proposal,
                     register |-> staged.register, registry |-> staged.registry,
                     owed |-> staged.owed]
      BY <1>1, <2>1 DEF Parts
    <2>3. staged' \in Parts /\ staged'.owed = staged.owed /\ staged'.chain = chainFile'
      BY <1>1, <1>2, <2>2 DEF Parts
    <2>4. Keeps(chainFile', staged.owed)
      BY <1>2 DEF Keeps, StillGood
    <2>5. Historic(SettledChain', staged')
      BY <1>2, <2>3, <2>4 DEF Historic
    <2>7. checking = 1
      BY <2>1 DEF BuildInv, StagedInv
    <2>6. StagedInv' /\ LookedUpInv'
      BY <2>1, <2>5, <2>7 DEF StagedInv, LookedUpInv, WithChain, WithChecked, WithSummary,
                        WithRegister, WithRegistry
    <2> QED
      BY <1>1, <2>1, <2>3, <2>6 DEF BuildInv, StillGood
  <1>5. CASE VerifyChain
    <2>1. CASE bpc' = "cleanup" /\ staged' = Blank /\ checking' = 1
      BY <2>1, GivesUp
    <2>2. CASE ~ (bpc' = "cleanup" /\ staged' = Blank /\ checking' = 1)
      <3>1. /\ bpc' = "provenance" /\ checking' = checking /\ bpc = "verify"
            /\ staged' = [staged EXCEPT !.checked = chainFile']
        BY <1>5, <2>2 DEF VerifyChain, Continue, Fail, vars, files
      <3>2. staged' = [chain |-> staged.chain, checked |-> chainFile',
                       summary |-> staged.summary, envelope |-> staged.envelope,
                       receipt |-> staged.receipt, proposal |-> staged.proposal,
                       register |-> staged.register, registry |-> staged.registry,
                       owed |-> staged.owed]
        BY <1>1, <3>1 DEF Parts
      <3>3. /\ staged' \in Parts /\ staged'.owed = staged.owed
            /\ staged'.chain = staged.chain /\ staged'.checked = chainFile'
        BY <1>1, <1>2, <3>2 DEF Parts
      <3>4. Historic(SettledChain', staged)
        BY <3>1 DEF StillGood, WithChain
      <3>5. Historic(SettledChain', staged')
        BY <3>3, <3>4 DEF Historic
      <3>6. Follows(staged'.checked, staged'.chain)
        BY <1>1, <1>2, <3>3, <3>4, FollowsLonger DEF Historic, Parts
      <3>7. StagedInv'
        BY <3>1, <3>5, <3>6 DEF StagedInv, WithSummary, WithRegister, WithRegistry
      <3>8. checking = 1
        BY <3>1 DEF BuildInv, StagedInv
      <3>9. LookedUpInv'
        BY <1>1, <3>1, <3>8, EntryAt
           DEF LookedUpInv, LookedUp, Parts, WithSummary, WithRegistry
      <3> QED
        BY <1>1, <3>1, <3>3, <3>7, <3>9 DEF BuildInv, StillGood
    <2> QED
      BY <2>1, <2>2
  <1>6. CASE ReadRegistry
    <2>1. /\ bpc' = "moveAway" /\ checking' = checking /\ bpc = "registry"
          /\ staged' = [staged EXCEPT !.registry = registryFile']
      BY <1>6 DEF ReadRegistry, Gather, Continue, vars, files
    <2>2. staged' = [chain |-> staged.chain, checked |-> staged.checked,
                     summary |-> staged.summary, envelope |-> staged.envelope,
                     receipt |-> staged.receipt, proposal |-> staged.proposal,
                     register |-> staged.register, registry |-> registryFile',
                     owed |-> staged.owed]
      BY <1>1, <2>1 DEF Parts
    <2>3. /\ staged' \in Parts
          /\ \A f \in {"owed", "chain", "checked", "summary", "register", "proposal"} :
                staged'[f] = staged[f]
          /\ staged'.registry = registryFile'
      BY <1>1, <1>2, <2>2 DEF Parts
    <2>4. /\ staged'.owed = staged.owed /\ staged'.chain = staged.chain
          /\ staged'.checked = staged.checked /\ staged'.summary = staged.summary
          /\ staged'.register = staged.register /\ staged'.proposal = staged.proposal
      BY <2>3
    <2>5. /\ Historic(SettledChain', staged)
          /\ LookedUp(SettledChain', registryFile', staged.chain, Len(staged.chain.records))
      BY <2>1 DEF StillGood, WithChain, WithSummary, WithChecked, WithRegistry
    <2>6. Historic(SettledChain', staged')
      BY <2>4, <2>5 DEF Historic
    <2>7. LookedUpInv'
      BY <2>1, <2>3, <2>4, <2>5 DEF LookedUpInv, WithSummary, WithRegistry
    <2>8. /\ Follows(staged.checked, staged.chain)
          /\ staged.summary = staged.chain.records
          /\ staged.proposal => staged.register = staged.chain.records
      BY <2>1 DEF BuildInv, StagedInv, WithChain, WithChecked, WithSummary, WithRegister
    <2>9. StagedInv'
      BY <2>1, <2>4, <2>6, <2>8 DEF StagedInv
    <2> QED
      BY <1>1, <2>1, <2>3, <2>4, <2>7, <2>9 DEF BuildInv, StillGood
  <1> QED
    BY <1>3, <1>4, <1>5, <1>6

(* The lookup of a record, in either pass.                                 *)
LEMMA LooksUp ==
    ASSUME BuildInv, StillGood, UNCHANGED <<last, contracts>>,
           registryFile' = registryFile, CheckProvenance \/ Govern
    PROVE  BuildInv'
  <1> DEFINE n == Len(staged.chain.records)
             entry == staged.chain.records[checking]
  <1>1. /\ staged \in Parts /\ checking \in Nat \ {0} /\ n \in Nat
        /\ contracts \in [proposal : BOOLEAN, activation : Nat]
    BY DEF BuildInv, Parts, Chain
  <1>2. PICK label \in {"provenance", "govern"} :
          /\ bpc = label
          /\ label = "provenance" => CheckProvenance
          /\ label = "govern" => Govern
    BY DEF CheckProvenance, Govern, LookUp, Gather
  <1>3. Historic(SettledChain', staged) /\ Follows(staged.checked, staged.chain)
    BY <1>2 DEF StillGood, BuildInv, StagedInv, WithChain, WithChecked
  <1>4. CASE bpc' = "cleanup" /\ staged' = Blank /\ checking' = 1
    BY <1>4, GivesUp
  <1>5. CASE checking > n /\ label = "provenance"
    <2>1. /\ bpc' = "contracts" /\ checking' = 1
          /\ staged' = [staged EXCEPT !.summary = staged.chain.records]
      BY <1>2, <1>5 DEF CheckProvenance, LookUp, Gather, Continue
    <2>2. staged' = [chain |-> staged.chain, checked |-> staged.checked,
                     summary |-> staged.chain.records, envelope |-> staged.envelope,
                     receipt |-> staged.receipt, proposal |-> staged.proposal,
                     register |-> staged.register, registry |-> staged.registry,
                     owed |-> staged.owed]
      BY <1>1, <2>1 DEF Parts
    <2>3. staged.chain.records \in Seq(Entry)
      BY <1>1 DEF Parts, Chain, Entry
    <2>4. /\ staged' \in Parts /\ staged'.owed = staged.owed
          /\ staged'.chain = staged.chain /\ staged'.checked = staged.checked
          /\ staged'.summary = staged.chain.records
      BY <1>1, <2>2, <2>3 DEF Parts
    <2>5. Historic(SettledChain', staged')
      BY <1>3, <2>4 DEF Historic
    <2>6. StagedInv'
      BY <1>3, <2>1, <2>4, <2>5 DEF StagedInv, WithRegister, WithRegistry
    <2>7. LookedUp(SettledChain', registryFile', staged.chain, checking - 1)
      BY <1>2, <1>5 DEF StillGood
    <2>8. LookedUp(SettledChain', registryFile', staged.chain, n)
      BY <1>1, <1>5, <2>7 DEF LookedUp
    <2>9. LookedUpInv'
      BY <2>1, <2>4, <2>8 DEF LookedUpInv, WithRegistry
    <2> QED
      BY <1>1, <2>1, <2>4, <2>6, <2>9 DEF BuildInv, StillGood
  <1>6. CASE checking > n /\ label = "govern"
    <2>1. /\ bpc' = "registry" /\ checking' = 1
          /\ staged' = [staged EXCEPT !.register = staged.chain.records]
      BY <1>2, <1>6 DEF Govern, LookUp, Gather, Continue
    <2>2. staged' = [chain |-> staged.chain, checked |-> staged.checked,
                     summary |-> staged.summary, envelope |-> staged.envelope,
                     receipt |-> staged.receipt, proposal |-> staged.proposal,
                     register |-> staged.chain.records, registry |-> staged.registry,
                     owed |-> staged.owed]
      BY <1>1, <2>1 DEF Parts
    <2>3. staged.chain.records \in Seq(Entry)
      BY <1>1 DEF Parts, Chain, Entry
    <2>4. /\ staged' \in Parts /\ staged'.owed = staged.owed
          /\ staged'.chain = staged.chain /\ staged'.checked = staged.checked
          /\ staged'.summary = staged.summary
          /\ staged'.register = staged.chain.records
      BY <1>1, <2>2, <2>3 DEF Parts
    <2>5. Historic(SettledChain', staged')
      BY <1>3, <2>4 DEF Historic
    <2>10. staged.summary = staged.chain.records
      BY <1>2, <1>6 DEF BuildInv, StagedInv, WithSummary, WithChecked, WithChain
    <2>6. StagedInv'
      BY <1>3, <2>1, <2>4, <2>5, <2>10 DEF StagedInv
    <2>8. LookedUp(SettledChain', registryFile', staged.chain, n)
      BY <1>2, <1>6 DEF StillGood, WithSummary, WithChecked, WithChain, WithRegistry
    <2>9. LookedUpInv'
      BY <2>1, <2>4, <2>8 DEF LookedUpInv, WithRegistry
    <2> QED
      BY <1>1, <2>1, <2>4, <2>6, <2>9 DEF BuildInv, StillGood
  <1>7. CASE checking <= n /\ ~ (bpc' = "cleanup" /\ staged' = Blank /\ checking' = 1)
    <2>1. /\ bpc' = bpc /\ staged' = staged /\ checking' = checking + 1
          /\ ~ (entry.rec \in Lifecycle /\ ~ Registered(entry))
      <3>1. ~ (checking > n)
        BY <1>1, <1>7
      <3>2. CASE label = "provenance"
        BY <1>2, <1>7, <3>1, <3>2 DEF CheckProvenance, LookUp, Gather, Continue
      <3>3. CASE label = "govern"
        BY <1>2, <1>7, <3>1, <3>3 DEF Govern, LookUp, Gather, Continue
      <3> QED
        BY <3>2, <3>3
    <2>2. StagedInv'
      BY <1>2, <1>3, <2>1 DEF BuildInv, StagedInv
    <2>3. CASE label = "provenance"
      <3>1. LookedUp(SettledChain', registryFile', staged.chain, checking - 1)
        BY <1>2, <2>3 DEF StillGood
      <3>2. entry.rec \in Lifecycle
            => [rec |-> entry.rec, hash |-> Hash(entry)] \in registryFile'
        BY <2>1 DEF Registered
      <3>3. \A i \in 1..n : i <= checking => i <= checking - 1 \/ i = checking
        BY <1>1
      <3>4. LookedUp(SettledChain', registryFile', staged.chain, checking)
        BY <3>1, <3>2, <3>3 DEF LookedUp
      <3>5. checking' - 1 = checking
        BY <1>1, <2>1
      <3>6. LookedUp(SettledChain', registryFile', staged'.chain, checking' - 1)
        BY <2>1, <3>4, <3>5
      <3>7. LookedUpInv'
        BY <1>2, <2>1, <2>3, <3>6 DEF LookedUpInv, WithSummary, WithRegistry
      <3> QED
        BY <1>1, <2>1, <2>2, <3>7 DEF BuildInv, StillGood
    <2>4. CASE label = "govern"
      <3>1. LookedUp(SettledChain', registryFile', staged.chain, n)
        BY <1>2, <2>4 DEF StillGood, WithSummary, WithChecked, WithChain, WithRegistry
      <3>2. LookedUpInv'
        BY <1>2, <2>1, <2>4, <3>1 DEF LookedUpInv, WithRegistry
      <3> QED
        BY <1>1, <2>1, <2>2, <3>2 DEF BuildInv, StillGood
    <2> QED
      BY <2>3, <2>4
  <1> QED
    BY <1>1, <1>4, <1>5, <1>6, <1>7

(* The contracts and the receipt.                                          *)
LEMMA LoadsContracts ==
    ASSUME BuildInv, StillGood, UNCHANGED <<last, contracts>>,
           LoadContracts \/ ReadReceipt
    PROVE  BuildInv'
  <1>1. /\ staged \in Parts /\ checking \in Nat \ {0}
        /\ contracts \in [proposal : BOOLEAN, activation : Nat]
    BY DEF BuildInv
  <1>2. /\ bpc \in {"contracts", "receipt"} /\ checking' = checking
        /\ bpc' \in {"receipt", "govern", "registry"}
        /\ bpc' = "registry" => ~ staged'.proposal
        /\ staged' \in Parts /\ staged'.owed = staged.owed
        /\ staged'.chain = staged.chain /\ staged'.checked = staged.checked
        /\ staged'.summary = staged.summary
    <2>1. CASE LoadContracts
      <3>1. /\ bpc = "contracts" /\ checking' = checking
            /\ bpc' = IF contracts.activation = 0 THEN AfterReceipt(contracts.proposal)
                      ELSE "receipt"
            /\ staged' = [staged EXCEPT !.envelope = contracts.activation,
                                        !.proposal = contracts.proposal]
        BY <2>1 DEF LoadContracts, Gather, Continue
      <3>2. staged' = [chain |-> staged.chain, checked |-> staged.checked,
                       summary |-> staged.summary, envelope |-> contracts.activation,
                       receipt |-> staged.receipt, proposal |-> contracts.proposal,
                       register |-> staged.register, registry |-> staged.registry,
                       owed |-> staged.owed]
        BY <1>1, <3>1 DEF Parts
      <3>3. contracts.activation \in Nat /\ contracts.proposal \in BOOLEAN
        BY <1>1
      <3>4. /\ staged' \in Parts /\ staged'.owed = staged.owed
            /\ staged'.chain = staged.chain /\ staged'.checked = staged.checked
            /\ staged'.summary = staged.summary
        BY <1>1, <3>2, <3>3 DEF Parts
      <3>5. bpc' = "registry" => ~ staged'.proposal
        BY <3>1, <3>2 DEF AfterReceipt
      <3> QED
        BY <3>1, <3>4, <3>5 DEF AfterReceipt
    <2>2. CASE ReadReceipt
      <3>1. /\ bpc = "receipt" /\ checking' = checking
            /\ bpc' = AfterReceipt(staged.proposal)
            /\ staged' = [staged EXCEPT !.receipt = contracts.activation]
        BY <2>2 DEF ReadReceipt, Gather, Continue
      <3>2. staged' = [chain |-> staged.chain, checked |-> staged.checked,
                       summary |-> staged.summary, envelope |-> staged.envelope,
                       receipt |-> contracts.activation, proposal |-> staged.proposal,
                       register |-> staged.register, registry |-> staged.registry,
                       owed |-> staged.owed]
        BY <1>1, <3>1 DEF Parts
      <3>3. contracts.activation \in Nat
        BY <1>1
      <3>4. /\ staged' \in Parts /\ staged'.owed = staged.owed
            /\ staged'.chain = staged.chain /\ staged'.checked = staged.checked
            /\ staged'.summary = staged.summary
        BY <1>1, <3>2, <3>3 DEF Parts
      <3>5. bpc' = "registry" => ~ staged'.proposal
        BY <3>1, <3>2 DEF AfterReceipt
      <3> QED
        BY <3>1, <3>4, <3>5 DEF AfterReceipt
    <2> QED
      BY <2>1, <2>2
  <1>3. /\ Historic(SettledChain', staged) /\ Follows(staged.checked, staged.chain)
        /\ staged.summary = staged.chain.records
        /\ LookedUp(SettledChain', registryFile', staged.chain, Len(staged.chain.records))
    BY <1>2 DEF StillGood, BuildInv, StagedInv, WithSummary, WithChecked, WithChain,
                WithRegistry
  <1>4. Historic(SettledChain', staged')
    BY <1>2, <1>3 DEF Historic
  <1>5. StagedInv'
    BY <1>2, <1>3, <1>4 DEF StagedInv, WithRegister, WithRegistry
  <1>6. LookedUpInv'
    BY <1>2, <1>3 DEF LookedUpInv, WithRegistry
  <1> QED
    BY <1>1, <1>2, <1>5, <1>6 DEF BuildInv, StillGood

(* The steps of the promotion that go well.                                *)
LEMMA Promotes ==
    ASSUME BuildInv, StillGood, UNCHANGED contracts, MoveAway \/ Promote
    PROVE  BuildInv'
  <1>1. /\ staged \in Parts /\ checking \in Nat \ {0}
        /\ contracts \in [proposal : BOOLEAN, activation : Nat]
    BY DEF BuildInv
  <1>2. /\ bpc \in {"moveAway", "promote"} /\ bpc' \in {"promote", "discard"}
        /\ staged' = staged /\ checking' = checking
        /\ last' = last \/ last' = Whole(staged)
    BY DEF MoveAway, Promote
  <1>3. /\ Historic(SettledChain', staged) /\ Follows(staged.checked, staged.chain)
        /\ staged.summary = staged.chain.records
        /\ staged.proposal => staged.register = staged.chain.records
        /\ LookedUp(SettledChain', staged.registry, staged.chain,
                    Len(staged.chain.records))
    BY <1>2 DEF StillGood, BuildInv, StagedInv, WithSummary, WithChecked, WithChain,
                WithRegister, WithRegistry
  <1>4. StagedInv'
    BY <1>2, <1>3 DEF StagedInv
  <1>5. LookedUpInv'
    BY <1>2, <1>3 DEF LookedUpInv, WithRegistry
  <1>6. Promotable(SettledChain', staged)
    BY <1>3 DEF Promotable
  <1>7. last' = NoDir \/ \E b \in Parts : last' = Whole(b) /\ Promotable(SettledChain', b)
    BY <1>1, <1>2, <1>6 DEF StillGood
  <1> QED
    BY <1>1, <1>2, <1>4, <1>5, <1>7 DEF BuildInv, StillGood

HistoryInv == AnswerInv /\ RegistryInv /\ BuildInv

LEMMA NextBuild ==
    ASSUME LifecycleKeysDerived, SingleProcess, HistoryInv, [BundleNext]_bvars
    PROVE  HistoryInv'
  <1>1. [Next]_vars
    BY DEF BundleNext, StoreStep, PersistActivation, Start, SnapshotChain, VerifyChain,
           CheckProvenance, LookUp, LoadContracts, ReadReceipt, Govern, ReadRegistry, Gather,
           GatherFails, MoveAway, Promote, PromoteFails, Discard, Cleanup, Killed, bvars
  <1>2. AnswerInv' /\ RegistryInv' /\ BuildInv
    BY <1>1, NextAnswer, NextRegistry DEF HistoryInv
  <1>3. StillGood
    BY <1>1, <1>2, StoreKeeps DEF HistoryInv
  <1> SUFFICES BuildInv'
    BY <1>2 DEF HistoryInv
  <1>4. CASE StoreStep \/ PersistActivation \/ UNCHANGED bvars
    <2>1. UNCHANGED <<builder, last>>
      BY <1>4 DEF StoreStep, PersistActivation, bvars, outputs
    <2>2. contracts \in [proposal : BOOLEAN, activation : Nat]
      BY <1>2 DEF BuildInv
    <2>3. contracts' \in [proposal : BOOLEAN, activation : Nat]
      <3>1. CASE contracts' = contracts
        BY <2>2, <3>1
      <3>2. CASE PersistActivation
        <4>1. contracts' = [proposal |-> contracts.proposal,
                            activation |-> contracts.activation + 1]
          BY <2>2, <3>2 DEF PersistActivation
        <4> QED
          BY <2>2, <4>1
      <3> QED
        BY <1>4, <3>1, <3>2 DEF StoreStep, bvars
    <2> QED
      BY <1>2, <1>3, <2>1, <2>3, AsideStep
  <1>5. CASE Start \/ SnapshotChain \/ VerifyChain \/ ReadRegistry
    <2>1. UNCHANGED <<last, contracts>>
      BY <1>5 DEF Start, SnapshotChain, VerifyChain, ReadRegistry, Gather, outputs
    <2> QED
      BY <1>2, <1>3, <1>5, <2>1, Reads
  <1>6. CASE CheckProvenance \/ Govern
    <2>1. UNCHANGED <<last, contracts>> /\ registryFile' = registryFile
      BY <1>6 DEF CheckProvenance, Govern, LookUp, Gather, outputs, vars, files
    <2> QED
      BY <1>2, <1>3, <1>6, <2>1, LooksUp
  <1>7. CASE LoadContracts \/ ReadReceipt
    <2>1. UNCHANGED <<last, contracts>>
      BY <1>7 DEF LoadContracts, ReadReceipt, Gather, outputs
    <2> QED
      BY <1>2, <1>3, <1>7, <2>1, LoadsContracts
  <1>8. CASE MoveAway \/ Promote
    <2>1. UNCHANGED contracts
      BY <1>8 DEF MoveAway, Promote
    <2> QED
      BY <1>2, <1>3, <1>8, <2>1, Promotes
  <1>9. CASE GatherFails \/ PromoteFails \/ Discard \/ Cleanup \/ Killed
    <2>1. /\ UNCHANGED <<last, contracts>>
          /\ bpc' \in {"idle", "cleanup"} /\ staged' = Blank /\ checking' = 1
      BY <1>9 DEF GatherFails, PromoteFails, Discard, Cleanup, Killed, Fail, End, Continue,
                  outputs
    <2> QED
      BY <1>2, <1>3, <2>1, GivesUp
  <1> QED
    BY <1>4, <1>5, <1>6, <1>7, <1>8, <1>9 DEF BundleNext

LEMMA InitHistory == BundleInit => HistoryInv
  <1> SUFFICES ASSUME BundleInit PROVE HistoryInv
    OBVIOUS
  <1>1. AnswerInv /\ BuildInv
    BY InitAnswer, InitBuild DEF BundleInit
  <1>2. RegistryInv
    BY DEF BundleInit, Init, RegistryInv, Told, Inside
  <1> QED
    BY <1>1, <1>2 DEF HistoryInv

LEMMA LastBundle ==
    ASSUME NEW b \in Bundles, BuildInv
    PROVE  b \in Parts /\ Promotable(SettledChain, b)
  <1>1. last # NoDir /\ b = last[2]
    BY DEF Bundles
  <1>2. PICK p \in Parts : last = Whole(p) /\ Promotable(SettledChain, p)
    BY <1>1 DEF BuildInv
  <1>3. last[2] = p
    BY <1>2 DEF Whole
  <1> QED
    BY <1>1, <1>2, <1>3

(* A promoted bundle leaves out no append that was answered before it was  *)
(* begun, and all of its chain but the last record is in the store from    *)
(* then on, and was when its chain verification was made: whatever the     *)
(* process that appends does in between, however its appends fail and are  *)
(* rolled back, and whenever either dies.                                  *)
THEOREM BundleAlwaysHistory ==
    ASSUME LifecycleKeysDerived, SingleProcess
    PROVE  BundleSpec => []BundleIsHistory
  <1>1. HistoryInv /\ [BundleNext]_bvars => HistoryInv'
    BY NextBuild
  <1>2. HistoryInv => BundleIsHistory
    <2> SUFFICES ASSUME HistoryInv, NEW b \in Bundles
                 PROVE  /\ Keeps(b.chain, b.owed)
                        /\ Includes(chainFile, AllButLast(b.chain.records))
                        /\ Includes(b.checked, AllButLast(b.chain.records))
      BY DEF BundleIsHistory
    <2>1. b \in Parts /\ Promotable(SettledChain, b)
      BY LastBundle DEF HistoryInv
    <2>2. /\ b.chain \in Chain /\ b.checked \in Chain
          /\ Keeps(b.chain, b.owed)
          /\ Follows(SettledChain, b.chain) /\ Follows(b.checked, b.chain)
      BY <2>1 DEF Parts, Promotable, Historic
    <2>3. /\ chainFile \in Chain /\ SettledChain \in Chain
          /\ Includes(chainFile, SettledChain.records)
      BY FilesRead DEF HistoryInv
    <2>4. Follows(chainFile, b.chain)
      BY <2>2, <2>3, FollowsLonger
    <2> QED
      BY <2>2, <2>3, <2>4, ButLast
  <1> QED
    BY InitHistory, <1>1, <1>2, PTL DEF BundleSpec

(* verify --bundle accepts every promoted bundle, unless an activation was *)
(* persisted again between its two reads of it, or the last record of its  *)
(* chain has been taken back by a failing append: no other interleaving of *)
(* the build's reads with the writes of the store makes it refuse.         *)
THEOREM AlwaysRefusedOnlyByRace ==
    ASSUME LifecycleKeysDerived, SingleProcess
    PROVE  BundleSpec => []RefusedOnlyByRace
  <1>1. HistoryInv /\ [BundleNext]_bvars => HistoryInv'
    BY NextBuild
  <1>2. HistoryInv => RefusedOnlyByRace
    <2> SUFFICES ASSUME HistoryInv, NEW b \in Bundles,
                        b.envelope = b.receipt, Includes(chainFile, b.chain.records)
                 PROVE  Accepted(b)
      BY DEF RefusedOnlyByRace
    <2>1. b \in Parts /\ Promotable(SettledChain, b)
      BY LastBundle DEF HistoryInv
    <2>2. /\ b.chain \in Chain /\ Sound(b.chain)
          /\ LookedUp(SettledChain, b.registry, b.chain, Len(b.chain.records))
          /\ b.summary = b.chain.records
          /\ b.proposal => b.register = b.chain.records
      BY <2>1 DEF Parts, Promotable, Historic
    <2>3. /\ chainFile \in Chain /\ SettledChain \in Chain
          /\ Includes(chainFile, SettledChain.records)
      BY FilesRead DEF HistoryInv
    <2>4. DOMAIN b.chain.records = 1..Len(b.chain.records)
      BY <2>2 DEF Chain
    <2>5. ASSUME NEW i \in 1..Len(b.chain.records)
          PROVE  ~ Replaced(SettledChain, b.chain, i)
      <3>1. chainFile.records[i] = b.chain.records[i]
        BY <2>4 DEF Includes
      <3>2. ~ Replaced(chainFile, b.chain, i)
        BY <3>1 DEF Replaced
      <3> QED
        BY <2>2, <2>3, <3>2, ReplacedStays
    <2>6. ProvenanceHolds(b)
      <3>1. ASSUME NEW i \in 1..Len(b.chain.records), b.chain.records[i].rec \in Lifecycle
            PROVE  [rec |-> b.chain.records[i].rec, hash |-> Hash(b.chain.records[i])]
                      \in b.registry
        <4>1. i <= Len(b.chain.records)
          BY <2>2, EntryAt
        <4> QED
          BY <2>2, <2>5, <3>1, <4>1 DEF LookedUp
      <3> QED
        BY <2>4, <3>1 DEF ProvenanceHolds
    <2>7. Verified(b.chain)
      BY <2>2 DEF Sound
    <2> QED
      BY <2>2, <2>6, <2>7 DEF Accepted, Recomputes, GovernanceHolds
  <1> QED
    BY InitHistory, <1>1, <1>2, PTL DEF BundleSpec

=============================================================================
