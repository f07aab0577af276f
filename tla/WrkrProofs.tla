----------------------------- MODULE WrkrProofs -----------------------------
(***************************************************************************)
(* What holds of Wrkr ingest for every number of runs, every batch and any *)
(* schedule: the baseline has its evidence and no drift is swallowed,      *)
(* whoever holds the lock; and until a heartbeat is late, or two runs take *)
(* over one stale lock, runs exclude each other and report a drift once.   *)
(***************************************************************************)
EXTENDS WrkrIngest, WellFoundedInduction, TLAPS

Labels == Holding \cup Ended \cup {"create", "stat", "steal", "recreate"}

(* The items of a batch.                                                   *)
LEMMA BatchFacts ==
    ASSUME NEW p \in Processes
    PROVE  /\ DOMAIN Batch[p] = 1..Len(Batch[p]) /\ Len(Batch[p]) \in Nat
           /\ \A i \in DOMAIN Batch[p] :
                 Batch[p][i] \in Records /\ Batch[p][i].privilege \in Privileges
  BY WrkrAssumption DEF Records, Privileges

LEMMA AnalyzeType ==
    ASSUME NEW p \in Processes, NEW base \in SUBSET Privileges
    PROVE  /\ Analyze(base, Batch[p]).updated \in SUBSET Privileges
           /\ Analyze(base, Batch[p]).gaps \in SUBSET Records
  BY BatchFacts DEF Analyze

-----------------------------------------------------------------------------
(* Type correctness.                                                       *)
LEMMA InitType == Init => TypeOK
  <1> SUFFICES ASSUME Init PROVE TypeOK
    OBVIOUS
  <1>1. /\ next \in [Processes -> Nat]
        /\ \A p \in Processes : next[p] \in 1..(Len(Batch[p]) + 1)
    BY BatchFacts DEF Init
  <1>2. late \in BOOLEAN /\ contested \in BOOLEAN
    BY DEF Init
  <1> QED
    BY <1>1, <1>2, WrkrAssumption DEF Init, TypeOK, Holding, Ended

LEMMA TakeType ==
    ASSUME TypeOK, NEW p \in Processes, Take(p)
    PROVE  TypeOK'
  BY DEF TypeOK, Take, Goto, Holding, history

LEMMA FaultType ==
    ASSUME TypeOK
    PROVE  Fault \/ UNCHANGED faults => faults' \in 0..MaxFaults
  BY WrkrAssumption DEF TypeOK, Fault, history

LEMMA StepType ==
    ASSUME TypeOK, NEW p \in Processes, Step(p)
    PROVE  TypeOK'
  <1>1. CASE Create(p)
    BY <1>1, TakeType DEF TypeOK, Create, Goto, Files, history
  <1>2. CASE Stat(p)
    BY <1>2 DEF TypeOK, Stat, Goto, Files, Ended, history
  <1>3. CASE Steal(p)
    BY <1>3 DEF TypeOK, Steal, Goto, history
  <1>4. CASE Recreate(p)
    BY <1>4, TakeType DEF TypeOK, Recreate, Goto, Files, Ended, history
  <1>5. CASE Load(p)
    BY <1>5, FaultType DEF TypeOK, Load, Goto, Files, Holding, history
  <1>6. CASE AppendRecord(p)
    <2>1. faults' \in 0..MaxFaults
      BY <1>6, FaultType DEF AppendRecord
    <2>2. chain' \subseteq {r.id : r \in Records}
      BY <1>6, BatchFacts DEF AppendRecord, TypeOK, history
    <2>3. /\ next' \in [Processes -> Nat]
          /\ \A q \in Processes : next'[q] \in 1..(Len(Batch[q]) + 1)
      <3>1. /\ next \in [Processes -> Nat]
            /\ \A q \in Processes : next[q] \in 1..(Len(Batch[q]) + 1)
            /\ next' = [next EXCEPT ![p] = next[p] + 1] \/ next' = next
        BY <1>6 DEF AppendRecord, TypeOK, history
      <3>2. next[p] \in 1..Len(Batch[p]) /\ Len(Batch[p]) \in Nat
        BY <1>6, BatchFacts DEF AppendRecord
      <3>3. next[p] + 1 \in Nat /\ next[p] + 1 \in 1..(Len(Batch[p]) + 1)
        BY <3>2
      <3> QED
        BY <3>1, <3>3
    <2>4. pc' \in [Processes -> Labels]
      BY <1>6 DEF AppendRecord, TypeOK, Goto, Labels, Holding, history
    <2> QED
      BY <1>6, <2>1, <2>2, <2>3, <2>4 DEF AppendRecord, TypeOK, Labels, history
  <1>7. CASE Save(p)
    <2>1. baseline' \subseteq Privileges
      <3>1. Analyze(known[p], Batch[p]).updated \in SUBSET Privileges
        BY AnalyzeType DEF TypeOK
      <3> QED
        BY <1>7, <3>1 DEF Save, TypeOK, history
    <2>2. faults' \in 0..MaxFaults
      BY <1>7, FaultType DEF Save
    <2>3. pc' \in [Processes -> Labels]
      BY <1>7 DEF Save, TypeOK, Goto, Labels, Holding, history
    <2> QED
      BY <1>7, <2>1, <2>2, <2>3 DEF Save, TypeOK, Labels, history
  <1>8. CASE Release(p)
    <2>1. reported' \in [Processes -> SUBSET Records]
      <3>1. Analyze(known[p], Batch[p]).gaps \in SUBSET Records
        BY AnalyzeType DEF TypeOK
      <3> QED
        BY <1>8, <3>1 DEF Release, TypeOK, history
    <2>2. pc' \in [Processes -> Labels]
      BY <1>8 DEF Release, TypeOK, Goto, Labels, Ended, history
    <2> QED
      BY <1>8, <2>1, <2>2 DEF Release, TypeOK, Labels, history
  <1> QED
    BY <1>1, <1>2, <1>3, <1>4, <1>5, <1>6, <1>7, <1>8 DEF Step

LEMMA NextType == TypeOK /\ [Next]_vars => TypeOK'
  <1> SUFFICES ASSUME TypeOK, [Next]_vars PROVE TypeOK'
    OBVIOUS
  <1>1. ASSUME NEW p \in Processes, Heartbeat(p) PROVE TypeOK'
    BY <1>1 DEF Heartbeat, TypeOK, history
  <1>2. ASSUME NEW p \in Processes, Die(p) PROVE TypeOK'
    BY <1>2, WrkrAssumption DEF Die, TypeOK, Goto, Files, Ended, history
  <1>3. CASE Tick
    <2>1. late' \in BOOLEAN
      BY <1>3 DEF Tick, TypeOK
    <2> QED
      BY <1>3, <2>1, WrkrAssumption DEF Tick, TypeOK, Files
  <1>4. CASE UNCHANGED vars
    BY <1>4 DEF vars, TypeOK
  <1> QED
    BY <1>1, <1>2, <1>3, <1>4, StepType DEF Next

(* All variables keep their types.                                         *)
THEOREM WrkrTypeCorrect == Spec => []TypeOK
  BY InitType, NextType, PTL DEF Spec

-----------------------------------------------------------------------------
(* The baseline and its evidence.  Exclusion is not needed: whatever a run *)
(* read as the baseline had its evidence, and the chain only grows.        *)
Evidence(v, records) ==
    \E p \in Processes :
        /\ \E i \in DOMAIN Batch[p] : Batch[p][i].privilege = v
        /\ \A i \in DOMAIN Batch[p] : Batch[p][i].id \in records

EvidenceInv ==
    /\ \A v \in baseline : Evidence(v, chain)
    /\ \A p \in Processes : \A v \in known[p] : Evidence(v, chain)
    /\ \A p \in Processes :
          \A i \in DOMAIN Batch[p] : i < next[p] => Batch[p][i].id \in chain

LEMMA EvidenceGrows ==
    ASSUME NEW v, NEW c, NEW d, c \subseteq d, Evidence(v, c)
    PROVE  Evidence(v, d)
  BY DEF Evidence

(* A step that neither saves, loads nor appends.                           *)
LEMMA EvidenceRests ==
    ASSUME EvidenceInv, UNCHANGED <<baseline, chain, known, next>>
    PROVE  EvidenceInv'
  BY DEF EvidenceInv

LEMMA NextEvidence == TypeOK /\ EvidenceInv /\ [Next]_vars => EvidenceInv'
  <1> SUFFICES ASSUME TypeOK, EvidenceInv, [Next]_vars PROVE EvidenceInv'
    OBVIOUS
  <1>1. ASSUME NEW p \in Processes, Load(p) PROVE EvidenceInv'
    <2>1. \A q \in Processes : known'[q] = known[q] \/ known'[q] = baseline
      BY <1>1 DEF Load, TypeOK
    <2> QED
      BY <1>1, <2>1 DEF Load, Files, EvidenceInv
  <1>2. ASSUME NEW p \in Processes, AppendRecord(p) PROVE EvidenceInv'
    <2>1. UNCHANGED <<baseline, known>> /\ chain \subseteq chain'
      BY <1>2 DEF AppendRecord
    <2>2. \A q \in Processes : \A i \in DOMAIN Batch[q] :
             i < next'[q] => Batch[q][i].id \in chain'
      <3> SUFFICES ASSUME NEW q \in Processes, NEW i \in DOMAIN Batch[q], i < next'[q]
                   PROVE  Batch[q][i].id \in chain'
        OBVIOUS
      <3>1. next[q] \in Nat /\ i \in Nat
        BY BatchFacts DEF TypeOK
      <3>2. CASE i < next[q]
        BY <2>1, <3>2 DEF EvidenceInv
      <3>3. CASE ~ (i < next[q])
        <4>1. next' # next
          BY <3>3
        <4>2. /\ next' = [next EXCEPT ![p] = next[p] + 1]
              /\ chain' = chain \cup {Batch[p][next[p]].id}
          BY <1>2, <4>1 DEF AppendRecord
        <4>3. q = p
          BY <3>3, <4>2 DEF TypeOK
        <4>4. i = next[p]
          BY <3>1, <3>3, <4>2, <4>3 DEF TypeOK
        <4> QED
          BY <4>2, <4>3, <4>4
      <3> QED
        BY <3>2, <3>3
    <2> QED
      BY <2>1, <2>2, EvidenceGrows DEF EvidenceInv
  <1>3. ASSUME NEW p \in Processes, Save(p) PROVE EvidenceInv'
    <2>1. /\ UNCHANGED <<chain, known, next>>
          /\ baseline' = baseline \/ baseline' = Analyze(known[p], Batch[p]).updated
      BY <1>3 DEF Save
    <2>2. \A i \in DOMAIN Batch[p] : Batch[p][i].id \in chain
      <3>1. next[p] = Len(Batch[p]) + 1
        BY <1>3, BatchFacts DEF Save, TypeOK
      <3> QED
        BY <3>1, BatchFacts DEF EvidenceInv
    <2>3. \A v \in Analyze(known[p], Batch[p]).updated : Evidence(v, chain)
      <3> SUFFICES ASSUME NEW v \in Analyze(known[p], Batch[p]).updated
                   PROVE  Evidence(v, chain)
        OBVIOUS
      <3>1. v \in known[p] \/ \E i \in DOMAIN Batch[p] : Batch[p][i].privilege = v
        BY DEF Analyze
      <3> QED
        BY <2>2, <3>1 DEF EvidenceInv, Evidence
    <2> QED
      BY <2>1, <2>3 DEF EvidenceInv
  <1>4. CASE Tick \/ UNCHANGED vars
    BY <1>4, EvidenceRests DEF Tick, Files, vars
  <1>5. ASSUME NEW p \in Processes,
               \/ Create(p) \/ Stat(p) \/ Steal(p) \/ Recreate(p) \/ Release(p)
               \/ Heartbeat(p) \/ Die(p)
        PROVE  EvidenceInv'
    BY <1>5, EvidenceRests
       DEF Create, Take, Stat, Steal, Recreate, Release, Heartbeat, Die, Files
  <1> QED
    BY <1>1, <1>2, <1>3, <1>4, <1>5 DEF Next, Step

(* The saved baseline never runs ahead of the evidence, with any number of *)
(* runs, takeovers and kills.                                              *)
THEOREM BaselineAlwaysHasEvidence == Spec => []BaselineHasEvidence
  <1>1. Init => EvidenceInv
    BY BatchFacts DEF Init, EvidenceInv
  <1>2. EvidenceInv => BaselineHasEvidence
    BY DEF EvidenceInv, Evidence, BaselineHasEvidence
  <1> QED
    BY InitType, NextType, <1>1, NextEvidence, <1>2, PTL DEF Spec

-----------------------------------------------------------------------------
(* Exclusion.  Until a race, a holder's lock exists and is young, so that   *)
(* who finds a stale lock finds it without a holder; and who takes it over *)
(* is alone in doing so.                                                   *)
LockKept ==
    /\ Exclusive
    /\ \A p \in Processes : pc[p] \in Holding => lock # NoLock /\ now - lock <= LockTTL
    /\ \A p \in Processes : pc[p] = "steal" =>
          /\ lock # NoLock
          /\ \A q \in Processes \ {p} : pc[q] \notin Holding \cup {"steal"}

LockInv == ~ Raced => LockKept

(* A race is never forgotten.                                              *)
LEMMA RacedStays ==
    ASSUME [Next]_vars, Raced
    PROVE  Raced'
  <1>1. ASSUME NEW p \in Processes, Step(p) PROVE Raced'
    BY <1>1 DEF Step, Create, Take, Stat, Steal, Recreate, Load, AppendRecord, Save,
                Release, history, Raced
  <1>2. ASSUME NEW p \in Processes, Heartbeat(p) \/ Die(p) PROVE Raced'
    BY <1>2 DEF Heartbeat, Die, history, Raced
  <1>3. CASE Tick \/ UNCHANGED vars
    <2>1. contested' = contested /\ (late => late')
      BY <1>3 DEF Tick, vars
    <2> QED
      BY <2>1 DEF Raced
  <1> QED
    BY <1>1, <1>2, <1>3 DEF Next

(* A step within the lock, or outside it, that leaves the lock alone.      *)
LEMMA LockRests ==
    ASSUME LockKept, UNCHANGED <<lock, now>>,
           \A p \in Processes :
              /\ pc'[p] \in Holding => pc[p] \in Holding
              /\ pc'[p] = "steal" => pc[p] = "steal"
    PROVE  LockKept'
  BY DEF LockKept, Exclusive

\* Who creates the lock holds it alone.
LEMMA TakeLock ==
    ASSUME TypeOK, LockKept, NEW p \in Processes, Take(p)
    PROVE  LockKept'
  <1>1. /\ pc \in [Processes -> Labels] /\ now \in Nat /\ LockTTL \in Nat
    BY WrkrAssumption DEF TypeOK, Labels
  <1>2. /\ lock = NoLock /\ lock' = now /\ now' = now /\ lock' # NoLock
        /\ pc'[p] = "load" /\ \A q \in Processes \ {p} : pc'[q] = pc[q]
    BY <1>1, WrkrAssumption DEF Take, Goto
  <1>3. \A q \in Processes : pc[q] \notin Holding /\ pc[q] # "steal"
    BY <1>2 DEF LockKept
  <1>4. \A q \in Processes : pc'[q] \in Holding => q = p
    BY <1>2, <1>3
  <1>5. \A q \in Processes : pc'[q] # "steal"
    BY <1>2, <1>3
  <1>6. now' - lock' <= LockTTL
    BY <1>1, <1>2
  <1> QED
    BY <1>2, <1>4, <1>5, <1>6 DEF LockKept, Exclusive

LEMMA NextLock == TypeOK /\ LockInv /\ [Next]_vars => LockInv'
  <1> SUFFICES ASSUME TypeOK, LockInv, [Next]_vars, ~ Raced' PROVE LockKept'
    BY DEF LockInv
  <1>0. LockKept /\ ~ Raced
    BY RacedStays DEF LockInv
  <1>1. /\ pc \in [Processes -> Labels] /\ now \in Nat /\ LockTTL \in Nat
        /\ lock # NoLock => lock \in Nat
    BY WrkrAssumption DEF TypeOK, Labels
  <1>2. ASSUME NEW p \in Processes, Create(p) PROVE LockKept'
    <2>1. CASE Take(p)
      BY <1>0, <2>1, TakeLock
    <2>2. CASE lock # NoLock /\ Goto(p, "stat") /\ UNCHANGED <<Files, now>>
      BY <1>0, <1>1, <2>2, LockRests DEF Goto, Files, Holding
    <2> QED
      BY <1>2, <2>1, <2>2 DEF Create
  <1>3. ASSUME NEW p \in Processes, Stat(p) PROVE LockKept'
    <2>1. CASE ~ Stale
      BY <1>0, <1>1, <1>3, <2>1, LockRests DEF Stat, Goto, Files, Holding
    <2>2. CASE Stale
      <3>1. /\ UNCHANGED <<lock, now>> /\ pc[p] = "stat" /\ pc'[p] = "steal"
            /\ \A q \in Processes \ {p} : pc'[q] = pc[q]
        BY <1>1, <1>3, <2>2 DEF Stat, Goto, Files
      <3>2. \A q \in Processes : pc[q] \notin Holding
        BY <1>0, <1>1, <2>2 DEF LockKept, Stale
      <3>3. \A q \in Processes : pc[q] # "steal"
        <4>1. ~ contested'
          BY DEF Raced
        <4> QED
          BY <1>3, <2>2, <4>1 DEF Stat
      <3>4. \A q \in Processes : pc'[q] \notin Holding
        BY <3>1, <3>2 DEF Holding
      <3>5. \A q \in Processes : pc'[q] = "steal" => q = p
        BY <3>1, <3>3
      <3>6. lock' # NoLock
        BY <2>2, <3>1 DEF Stale
      <3> QED
        BY <3>4, <3>5, <3>6 DEF LockKept, Exclusive
    <2> QED
      BY <2>1, <2>2
  <1>4. ASSUME NEW p \in Processes, Load(p) \/ AppendRecord(p) \/ Save(p) PROVE LockKept'
    <2>1. /\ pc[p] \in Holding /\ pc'[p] \in Holding
          /\ \A q \in Processes \ {p} : pc'[q] = pc[q]
      BY <1>1, <1>4 DEF Load, AppendRecord, Save, Goto, Holding
    <2>2. UNCHANGED <<lock, now>>
      BY <1>4 DEF Load, AppendRecord, Save, Files
    <2> QED
      BY <1>0, <2>1, <2>2, LockRests DEF Holding
  <1>5. ASSUME NEW p \in Processes, Release(p) PROVE LockKept'
    <2>1. /\ pc[p] \in Holding /\ pc'[p] \in {"done", "failed"}
          /\ \A q \in Processes \ {p} : pc'[q] = pc[q]
      BY <1>1, <1>5 DEF Release, Goto, Holding
    <2>2. \A q \in Processes : pc'[q] \notin Holding
      BY <1>0, <2>1 DEF LockKept, Exclusive, Holding
    <2>3. \A q \in Processes : pc'[q] # "steal"
      BY <1>0, <2>1 DEF LockKept, Holding
    <2> QED
      BY <2>2, <2>3 DEF LockKept, Exclusive
  <1>6. ASSUME NEW p \in Processes, Heartbeat(p) PROVE LockKept'
    <2>1. /\ UNCHANGED <<now, pc>>
          /\ lock' = lock \/ (lock # NoLock /\ lock' = now)
      BY <1>6 DEF Heartbeat
    <2> QED
      BY <1>0, <1>1, <2>1, WrkrAssumption DEF LockKept, Exclusive
  <1>7. ASSUME NEW p \in Processes, Steal(p) PROVE LockKept'
    <2>1. /\ pc[p] = "steal" /\ pc'[p] = "recreate"
          /\ \A q \in Processes \ {p} : pc'[q] = pc[q]
      BY <1>1, <1>7 DEF Steal, Goto
    <2>2. \A q \in Processes : pc'[q] \notin Holding /\ pc'[q] # "steal"
      BY <1>0, <2>1 DEF LockKept, Holding
    <2> QED
      BY <2>2 DEF LockKept, Exclusive
  <1>8. ASSUME NEW p \in Processes, Recreate(p) PROVE LockKept'
    <2>1. CASE Take(p)
      BY <1>0, <2>1, TakeLock
    <2>2. CASE lock # NoLock /\ Goto(p, "locked") /\ UNCHANGED <<Files, now>>
      BY <1>0, <1>1, <2>2, LockRests DEF Goto, Files, Holding
    <2> QED
      BY <1>8, <2>1, <2>2 DEF Recreate
  <1>9. ASSUME NEW p \in Processes, Die(p) PROVE LockKept'
    BY <1>0, <1>1, <1>9, LockRests DEF Die, Goto, Files, Holding
  <1>10. CASE Tick
    <2>1. /\ UNCHANGED <<lock, pc>>
          /\ \A p \in Processes :
                pc[p] \in Holding /\ lock # NoLock => now' - lock <= LockTTL
      <3>1. ~ late'
        BY DEF Raced
      <3>2. now' \in Nat
        BY <1>1, <1>10 DEF Tick
      <3>3. ~ \E p \in Processes :
                 pc[p] \in Holding /\ lock # NoLock /\ now' - lock > LockTTL
        BY <1>10, <3>1 DEF Tick
      <3>4. UNCHANGED <<lock, pc>>
        BY <1>10 DEF Tick, Files
      <3> QED
        BY <1>1, <3>2, <3>3, <3>4
    <2> QED
      BY <1>0, <2>1 DEF LockKept, Exclusive
  <1>11. CASE UNCHANGED vars
    BY <1>0, <1>11 DEF vars, LockKept, Exclusive
  <1> QED
    BY <1>2, <1>3, <1>4, <1>5, <1>6, <1>7, <1>8, <1>9, <1>10, <1>11 DEF Next, Step

LEMMA InitLock == Init => LockInv
  BY DEF Init, LockInv, LockKept, Exclusive, Holding

(* Of any number of runs, killed and taken over at any step, two never     *)
(* hold the lock at once, unless a heartbeat came after the TTL or two     *)
(* runs were taking over one stale lock.                                   *)
THEOREM RunsAlwaysExclude == Spec => []MutualExclusion
  <1>1. LockInv => MutualExclusion
    BY DEF LockInv, LockKept, MutualExclusion
  <1> QED
    BY InitType, NextType, InitLock, NextLock, <1>1, PTL DEF Spec

-----------------------------------------------------------------------------
(* Drift reports.                                                          *)
NeverApproved(v) == \A r \in Records : r.privilege = v => ~ r.approved

Reported(v) == \E p \in Processes : \E g \in reported[p] : g.privilege = v

Owed(p) == Analyze(known[p], Batch[p]).gaps

Killed == \E p \in Processes : pc[p] = "dead"

(* A batch that observes a privilege has a first observation of it.        *)
LEMMA FirstExists ==
    ASSUME NEW p \in Processes, NEW base, NEW i \in DOMAIN Batch[p],
           Batch[p][i].privilege \notin base
    PROVE  \E j \in DOMAIN Batch[p] :
              First(base, Batch[p], j) /\ Batch[p][j].privilege = Batch[p][i].privilege
  <1> DEFINE P == {j \in DOMAIN Batch[p] : Batch[p][j].privilege = Batch[p][i].privilege}
             Less == OpToRel(<, Nat)
  <1>1. P \subseteq Nat /\ i \in P
    BY BatchFacts
  <1>2. \A j, k \in Nat : j < k => <<j, k>> \in Less
    BY DEF OpToRel
  <1>3. IsWellFoundedOn(Less, Nat)
    BY NatLessThanWellFounded
  <1> HIDE DEF Less
  <1>4. PICK k \in P : \A j \in P : ~ (<<j, k>> \in Less)
    BY <1>1, <1>3, WFMin
  <1>5. ASSUME NEW j \in 1..(k - 1)
        PROVE  Batch[p][j].privilege # Batch[p][k].privilege
    <2>1. j \in Nat /\ k \in Nat /\ j < k /\ j \in DOMAIN Batch[p]
      BY <1>1, <1>4, BatchFacts
    <2> QED
      BY <1>2, <1>4, <2>1
  <1> QED
    BY <1>4, <1>5 DEF First

(* What a run will report of a baseline: new privileges of its batch, and  *)
(* every new one that no record approves.                                  *)
LEMMA GapFacts ==
    ASSUME NEW p \in Processes, NEW base
    PROVE  /\ \A g \in Analyze(base, Batch[p]).gaps :
                 /\ g.privilege \notin base
                 /\ g.privilege \in Analyze(base, Batch[p]).updated
           /\ \A v \in Analyze(base, Batch[p]).updated :
                 NeverApproved(v) /\ v \notin base
                 => \E g \in Analyze(base, Batch[p]).gaps : g.privilege = v
           /\ base \subseteq Analyze(base, Batch[p]).updated
  <1>1. \A g \in Analyze(base, Batch[p]).gaps :
          \E j \in DOMAIN Batch[p] : g = Batch[p][j] /\ First(base, Batch[p], j)
    BY DEF Analyze
  <1>2. \A j \in DOMAIN Batch[p] :
           Batch[p][j].privilege \in Analyze(base, Batch[p]).updated
    BY DEF Analyze
  <1>3. ASSUME NEW v \in Analyze(base, Batch[p]).updated, NeverApproved(v), v \notin base
        PROVE  \E g \in Analyze(base, Batch[p]).gaps : g.privilege = v
    <2>1. PICK i \in DOMAIN Batch[p] : Batch[p][i].privilege = v
      BY <1>3 DEF Analyze
    <2>2. PICK j \in DOMAIN Batch[p] : First(base, Batch[p], j) /\ Batch[p][j].privilege = v
      BY <1>3, <2>1, FirstExists
    <2>3. ~ Batch[p][j].approved
      BY <1>3, <2>2, BatchFacts DEF NeverApproved
    <2> QED
      BY <2>2, <2>3 DEF Analyze
  <1>4. base \subseteq Analyze(base, Batch[p]).updated
    BY DEF Analyze
  <1> QED
    BY <1>1, <1>2, <1>3, <1>4 DEF First

(* What is in the baseline, or in what a run read of it, and was never     *)
(* approved was reported, or the run that saved it is about to report it,  *)
(* or a run was killed.  The lock is not needed.                           *)
Answered(v) ==
    \/ Reported(v) \/ Killed
    \/ \E p \in Processes : pc[p] = "release" /\ \E g \in Owed(p) : g.privilege = v

ReportInv ==
    /\ \A p \in Processes : reported[p] # {} => pc[p] = "done"
    /\ \A v \in baseline : NeverApproved(v) => Answered(v)
    /\ \A p \in Processes : \A v \in known[p] : NeverApproved(v) => Answered(v)

(* A step that changes neither the reports nor what is to be reported.     *)
LEMMA AnswerRests ==
    ASSUME NEW v, Answered(v), UNCHANGED reported,
           \A p \in Processes :
              /\ pc[p] = "release" => pc'[p] = "release" /\ known'[p] = known[p]
              /\ pc[p] = "dead" => pc'[p] = "dead"
    PROVE  Answered(v)'
  BY DEF Answered, Reported, Owed, Killed

LEMMA ReportRests ==
    ASSUME ReportInv, UNCHANGED <<baseline, reported, known>>,
           \A p \in Processes : pc[p] \in {"release", "done", "dead"} => pc'[p] = pc[p]
    PROVE  ReportInv'
  <1>1. \A v : Answered(v) => Answered(v)'
    BY AnswerRests
  <1> QED
    BY <1>1 DEF ReportInv, NeverApproved

LEMMA NextReport == TypeOK /\ ReportInv /\ [Next]_vars => ReportInv'
  <1> SUFFICES ASSUME TypeOK, ReportInv, [Next]_vars PROVE ReportInv'
    OBVIOUS
  <1>1. /\ pc \in [Processes -> Labels] /\ reported \in [Processes -> SUBSET Records]
        /\ known \in [Processes -> SUBSET Privileges]
    BY DEF TypeOK, Labels
  <1>2. ASSUME NEW p \in Processes,
               Create(p) \/ Stat(p) \/ Steal(p) \/ Recreate(p) \/ AppendRecord(p)
        PROVE  ReportInv'
    <2>1. /\ UNCHANGED <<baseline, reported, known>>
          /\ pc[p] \in {"create", "stat", "steal", "recreate", "append"}
          /\ \A q \in Processes \ {p} : pc'[q] = pc[q]
      BY <1>1, <1>2 DEF Create, Take, Stat, Steal, Recreate, AppendRecord, Goto, Files
    <2> QED
      BY <2>1, ReportRests
  <1>3. ASSUME NEW p \in Processes, Load(p) PROVE ReportInv'
    <2>1. /\ UNCHANGED <<baseline, reported>> /\ pc[p] = "load" /\ pc'[p] # "done"
          /\ \A q \in Processes \ {p} : pc'[q] = pc[q] /\ known'[q] = known[q]
          /\ known'[p] = known[p] \/ known'[p] = baseline
      BY <1>1, <1>3 DEF Load, Goto, Files
    <2>2. \A v : Answered(v) => Answered(v)'
      BY <2>1, AnswerRests
    <2>3. \A q \in Processes : reported'[q] # {} => pc'[q] = "done"
      BY <2>1 DEF ReportInv
    <2> QED
      BY <2>1, <2>2, <2>3 DEF ReportInv, NeverApproved
  <1>4. ASSUME NEW p \in Processes, Save(p) PROVE ReportInv'
    <2>1. /\ pc[p] = "append" /\ UNCHANGED <<reported, known>>
          /\ \A q \in Processes \ {p} : pc'[q] = pc[q]
          /\ \/ baseline' = Analyze(known[p], Batch[p]).updated /\ pc'[p] = "release"
             \/ baseline' = baseline
      BY <1>1, <1>4 DEF Save, Goto
    <2>2. \A v : Answered(v) => Answered(v)'
      BY <2>1, AnswerRests
    <2>3. \A q \in Processes : reported'[q] # {} => pc'[q] = "done"
      BY <2>1 DEF ReportInv
    <2>4. ASSUME NEW v \in baseline', NeverApproved(v) PROVE Answered(v)'
      <3>1. CASE v \in baseline \/ v \in known[p]
        BY <2>2, <2>4, <3>1 DEF ReportInv
      <3>2. CASE v \notin baseline /\ v \notin known[p]
        <4>1. /\ v \in Analyze(known[p], Batch[p]).updated /\ pc'[p] = "release"
          BY <2>1, <3>2
        <4>2. PICK g \in Owed(p) : g.privilege = v
          <5>1. \A w \in Analyze(known[p], Batch[p]).updated :
                   NeverApproved(w) /\ w \notin known[p]
                   => \E g \in Analyze(known[p], Batch[p]).gaps : g.privilege = w
            BY GapFacts
          <5>2. \E g \in Analyze(known[p], Batch[p]).gaps : g.privilege = v
            BY <2>4, <3>2, <4>1, <5>1
          <5> QED
            BY <5>2 DEF Owed
        <4>3. g \in Owed(p)'
          BY <2>1, <4>2 DEF Owed
        <4> QED
          BY <4>1, <4>2, <4>3 DEF Answered
      <3> QED
        BY <3>1, <3>2
    <2> QED
      BY <2>1, <2>2, <2>3, <2>4 DEF ReportInv, NeverApproved
  <1>5. ASSUME NEW p \in Processes, Release(p) PROVE ReportInv'
    <2>1. /\ UNCHANGED <<baseline, known>>
          /\ pc[p] \in {"release", "abort"}
          /\ \A q \in Processes \ {p} : pc'[q] = pc[q]
      BY <1>1, <1>5 DEF Release, Goto
    <2>2. CASE pc[p] = "abort"
      <3>1. reported' = reported
        BY <1>5, <2>2 DEF Release
      <3> QED
        BY <2>1, <2>2, <3>1, ReportRests
    <2>3. CASE pc[p] = "release"
      <3>1. /\ reported'[p] = Owed(p) /\ pc'[p] = "done"
            /\ \A q \in Processes \ {p} : reported'[q] = reported[q]
        BY <1>1, <1>5, <2>3 DEF Release, Goto, Owed
      <3>2. reported[p] = {}
        BY <2>3 DEF ReportInv
      <3>3. ASSUME NEW v, Answered(v) PROVE Answered(v)'
        <4>1. CASE Reported(v)
          BY <3>1, <3>2, <4>1 DEF Answered, Reported
        <4>2. CASE Killed
          BY <2>1, <2>3, <4>2 DEF Answered, Killed
        <4>3. CASE \E g \in Owed(p) : g.privilege = v
          BY <3>1, <4>3 DEF Answered, Reported
        <4>4. ASSUME NEW q \in Processes \ {p}, pc[q] = "release",
                     \E g \in Owed(q) : g.privilege = v
              PROVE  Answered(v)'
          <5>1. pc'[q] = "release" /\ Owed(q)' = Owed(q)
            BY <2>1, <4>4 DEF Owed
          <5> QED
            BY <4>4, <5>1 DEF Answered
        <4> QED
          BY <3>3, <4>1, <4>2, <4>3, <4>4 DEF Answered
      <3>4. \A q \in Processes : reported'[q] # {} => pc'[q] = "done"
        BY <2>1, <3>1 DEF ReportInv
      <3> QED
        BY <2>1, <3>3, <3>4 DEF ReportInv, NeverApproved
    <2> QED
      BY <2>1, <2>2, <2>3
  <1>6. ASSUME NEW p \in Processes, Heartbeat(p) PROVE ReportInv'
    BY <1>6, ReportRests DEF Heartbeat
  <1>7. ASSUME NEW p \in Processes, Die(p) PROVE ReportInv'
    <2>1. /\ UNCHANGED <<baseline, reported, known>> /\ pc[p] # "done" /\ pc'[p] = "dead"
          /\ \A q \in Processes \ {p} : pc'[q] = pc[q]
      BY <1>1, <1>7 DEF Die, Goto, Files, Ended
    <2>2. Killed'
      BY <2>1 DEF Killed
    <2>3. \A v : Answered(v)'
      BY <2>2 DEF Answered
    <2>4. \A q \in Processes : reported'[q] # {} => pc'[q] = "done"
      BY <2>1 DEF ReportInv
    <2> QED
      BY <2>3, <2>4 DEF ReportInv
  <1>8. CASE Tick \/ UNCHANGED vars
    BY <1>8, ReportRests DEF Tick, Files, vars
  <1> QED
    BY <1>2, <1>3, <1>4, <1>5, <1>6, <1>7, <1>8 DEF Next, Step

LEMMA InitReport == Init => ReportInv
  BY DEF Init, ReportInv

(* When all runs have ended and none was killed, every privilege that is   *)
(* saved and that no record approves was reported by one of them, even     *)
(* when they raced for the lock.                                           *)
THEOREM DriftAlwaysReported == Spec => []DriftReported
  <1>1. ReportInv => DriftReported
    <2> SUFFICES ASSUME ReportInv,
                        \A p \in Processes : pc[p] \in Ended \ {"dead"},
                        NEW v \in baseline, NeverApproved(v)
                 PROVE  Reported(v)
      BY DEF DriftReported, NeverApproved, Reported
    <2> QED
      BY DEF ReportInv, Answered, Ended, Killed
  <1> QED
    BY InitType, NextType, InitReport, NextReport, <1>1, PTL DEF Spec

-----------------------------------------------------------------------------
(* Until a race, what was reported is in the baseline, and the run that    *)
(* holds the lock knows it: it does not report it again.                   *)
BaselineKept ==
    /\ \A p \in Processes : \A g \in reported[p] : g.privilege \in baseline
    /\ \A p \in Processes : pc[p] = "append" => known[p] = baseline
    /\ \A p \in Processes : pc[p] = "release" =>
          /\ baseline = Analyze(known[p], Batch[p]).updated
          /\ \A v : Reported(v) => v \in known[p]
    /\ \A p, q \in Processes : \A g \in reported[p], h \in reported[q] :
          g.privilege = h.privilege => p = q

OnceInv == ~ Raced => BaselineKept

LEMMA HolderIsAlone ==
    ASSUME LockKept, NEW p \in Processes, pc[p] \in Holding,
           NEW q \in Processes, pc[q] \in Holding
    PROVE  q = p
  BY DEF LockKept, Exclusive

(* A step that neither reads nor writes baseline and reports.              *)
LEMMA BaselineRests ==
    ASSUME BaselineKept, UNCHANGED <<baseline, reported, known>>,
           \A p \in Processes :
              /\ pc'[p] = "release" => pc[p] = "release"
              /\ pc'[p] = "append" => pc[p] = "append"
    PROVE  BaselineKept'
  BY DEF BaselineKept, Reported

LEMMA NextOnce ==
    TypeOK /\ LockInv /\ ReportInv /\ OnceInv /\ [Next]_vars => OnceInv'
  <1> SUFFICES ASSUME TypeOK, LockInv, ReportInv, OnceInv, [Next]_vars, ~ Raced'
               PROVE  BaselineKept'
    BY DEF OnceInv
  <1>0. LockKept /\ BaselineKept
    BY RacedStays DEF LockInv, OnceInv
  <1>1. /\ pc \in [Processes -> Labels] /\ reported \in [Processes -> SUBSET Records]
        /\ known \in [Processes -> SUBSET Privileges]
    BY DEF TypeOK, Labels
  <1>2. ASSUME NEW p \in Processes,
               Create(p) \/ Stat(p) \/ Steal(p) \/ Recreate(p) \/ AppendRecord(p)
        PROVE  BaselineKept'
    <2>1. /\ UNCHANGED <<baseline, reported, known>>
          /\ pc'[p] \notin {"release", "append"} \/ pc' = pc
          /\ \A q \in Processes \ {p} : pc'[q] = pc[q]
      BY <1>1, <1>2 DEF Create, Take, Stat, Steal, Recreate, AppendRecord, Goto, Files
    <2> QED
      BY <1>0, <2>1, BaselineRests
  <1>3. ASSUME NEW p \in Processes, Load(p) PROVE BaselineKept'
    <2>1. /\ UNCHANGED <<baseline, reported>> /\ pc[p] = "load"
          /\ \/ pc'[p] = "append" /\ known' = [known EXCEPT ![p] = baseline]
             \/ pc'[p] = "abort" /\ known' = known
          /\ \A q \in Processes \ {p} : pc'[q] = pc[q]
      BY <1>1, <1>3 DEF Load, Goto, Files
    <2>2. \A q \in Processes : pc'[q] # "release"
      BY <1>0, <2>1, HolderIsAlone DEF Holding
    <2>3. \A q \in Processes : pc'[q] = "append" => known'[q] = baseline'
      BY <1>0, <1>1, <2>1 DEF BaselineKept
    <2> QED
      BY <1>0, <2>1, <2>2, <2>3 DEF BaselineKept
  <1>4. ASSUME NEW p \in Processes, Save(p) PROVE BaselineKept'
    <2>1. /\ pc[p] = "append" /\ UNCHANGED <<reported, known>>
          /\ known[p] = baseline
          /\ \A q \in Processes \ {p} : pc'[q] = pc[q] /\ pc'[q] \notin Holding
      BY <1>0, <1>1, <1>4, HolderIsAlone DEF Save, Goto, Holding, BaselineKept
    <2>2. CASE pc'[p] = "abort" /\ baseline' = baseline
      BY <1>0, <2>1, <2>2, BaselineRests DEF Holding
    <2>3. CASE pc'[p] = "release" /\ baseline' = Analyze(known[p], Batch[p]).updated
      <3>1. baseline \subseteq baseline'
        BY <2>1, <2>3, GapFacts
      <3>2. \A v : Reported(v)' => v \in known'[p]
        BY <1>0, <2>1 DEF BaselineKept, Reported
      <3>3. \A q \in Processes : pc'[q] # "append"
        BY <2>1, <2>3 DEF Holding
      <3>4. \A q \in Processes : pc'[q] = "release" => q = p
        BY <2>1 DEF Holding
      <3>5. \A q \in Processes : pc'[q] = "release" =>
               /\ baseline' = Analyze(known'[q], Batch[q]).updated
               /\ \A v : Reported(v)' => v \in known'[q]
        BY <2>1, <2>3, <3>2, <3>4
      <3> QED
        BY <1>0, <2>1, <3>1, <3>3, <3>5 DEF BaselineKept
    <2> QED
      BY <1>1, <1>4, <2>2, <2>3 DEF Save, Goto
  <1>5. ASSUME NEW p \in Processes, Release(p) PROVE BaselineKept'
    <2>1. /\ UNCHANGED <<baseline, known>>
          /\ pc[p] \in {"release", "abort"}
          /\ \A q \in Processes \ {p} : pc'[q] = pc[q] /\ pc'[q] \notin Holding
      BY <1>0, <1>1, <1>5, HolderIsAlone DEF Release, Goto, Holding
    <2>2. CASE pc[p] = "abort"
      <3>1. reported' = reported /\ pc'[p] = "failed"
        BY <1>1, <1>5, <2>2 DEF Release, Goto
      <3> QED
        BY <1>0, <2>1, <3>1, BaselineRests
    <2>3. CASE pc[p] = "release"
      <3>1. /\ reported'[p] = Owed(p) /\ pc'[p] = "done"
            /\ \A q \in Processes \ {p} : reported'[q] = reported[q]
        BY <1>1, <1>5, <2>3 DEF Release, Goto, Owed
      <3>2. \A g \in Owed(p) : g.privilege \notin known[p] /\ g.privilege \in baseline
        <4>1. baseline = Analyze(known[p], Batch[p]).updated
          BY <1>0, <2>3 DEF BaselineKept
        <4> QED
          BY <4>1, GapFacts DEF Owed
      <3>3. \A q \in Processes \ {p} : \A g \in reported[q] : g.privilege \in known[p]
        BY <1>0, <2>3 DEF BaselineKept, Reported
      <3>4. ASSUME NEW q \in Processes, NEW r \in Processes,
                   NEW g \in reported'[q], NEW h \in reported'[r],
                   g.privilege = h.privilege
            PROVE  q = r
        <4>1. CASE q # p /\ r # p
          BY <1>0, <3>1, <3>4, <4>1 DEF BaselineKept
        <4>2. CASE q = p \/ r = p
          BY <3>1, <3>2, <3>3, <3>4, <4>2
        <4> QED
          BY <4>1, <4>2
      <3>5. \A q \in Processes : pc'[q] \notin {"append", "release"}
        BY <2>1, <3>1 DEF Holding
      <3>6. \A q \in Processes : \A g \in reported'[q] : g.privilege \in baseline'
        BY <1>0, <2>1, <3>1, <3>2 DEF BaselineKept
      <3> QED
        BY <3>4, <3>5, <3>6 DEF BaselineKept
    <2> QED
      BY <2>1, <2>2, <2>3
  <1>6. ASSUME NEW p \in Processes, Heartbeat(p) PROVE BaselineKept'
    BY <1>0, <1>6, BaselineRests DEF Heartbeat
  <1>7. ASSUME NEW p \in Processes, Die(p) PROVE BaselineKept'
    BY <1>0, <1>1, <1>7, BaselineRests DEF Die, Goto, Files
  <1>8. CASE Tick \/ UNCHANGED vars
    BY <1>0, <1>8, BaselineRests DEF Tick, Files, vars
  <1> QED
    BY <1>2, <1>3, <1>4, <1>5, <1>6, <1>7, <1>8 DEF Next, Step

(* No privilege is reported by two runs, until a race for the lock.        *)
THEOREM DriftAlwaysReportedOnce == Spec => []DriftReportedOnce
  <1>1. Init => OnceInv
    BY DEF Init, OnceInv, BaselineKept
  <1>2. OnceInv => DriftReportedOnce
    BY DEF OnceInv, BaselineKept, DriftReportedOnce
  <1> QED
    BY InitType, NextType, InitLock, NextLock, InitReport, NextReport, <1>1, NextOnce,
       <1>2, PTL DEF Spec

=============================================================================
