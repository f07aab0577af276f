----------------------- MODULE ActionContractProofs -----------------------
(***************************************************************************)
(* What LoadStored returns as an activation was verified and has its       *)
(* receipt, for every number of processes, artifacts, contents, failures   *)
(* and crashes.  With one process that writes, a call that fails leaves no *)
(* trace, and a load that succeeds is complete.                            *)
(***************************************************************************)
EXTENDS ActionContractStore, TLAPS

LEMMA JobFacts ==
    ASSUME NEW j \in Jobs
    PROVE  /\ j.id \in Artifacts /\ j.says \in Statements /\ j.says.bytes \in Bytes
           /\ j = [id |-> j.id, says |-> j.says]
           /\ j # NoJob
  BY ContractAssumption DEF Jobs, Artifacts, Statements, NoJob

LEMMA Worker ==
    ASSUME TypeOK, NEW p \in Processes, pc[p] # "idle"
    PROVE  /\ job[p] \in Jobs
           /\ job[p].id \in Artifacts /\ job[p].says \in Statements
           /\ job[p].says.bytes \in Bytes
  BY JobFacts DEF TypeOK

LEMMA NoFilesType == NoFiles \in Disks
  BY DEF NoFiles, Disks

LEMMA UnloadedType ==
    ASSUME TypeOK, load' = Unloaded
    PROVE  load' \in [pc : {"off", "list", "item", "payload", "receipt", "done"},
                      kind : {"proposals", "activations"},
                      todo : SUBSET Artifacts, names : SUBSET Artifacts,
                      item : Items \cup {None}, out : SUBSET Items,
                      owed : [Artifacts -> Disks]]
  BY NoFilesType DEF Unloaded

(* Writes to one of an artifact's files.                                   *)
LEMMA PutType ==
    ASSUME TypeOK, NEW p \in Processes, pc[p] # "idle"
    PROVE  /\ \A c \in Bytes \cup {None, Torn} :
                 Put(p, "payload", c) => disk' \in [Artifacts -> Disks]
           /\ \A c \in Statements \cup {None, Torn} :
                 Put(p, "envelope", c) => disk' \in [Artifacts -> Disks]
           /\ \A c \in Statements \cup {None, Torn} :
                 Put(p, "receipt", c) => disk' \in [Artifacts -> Disks]
  <1> DEFINE a == job[p].id
  <1>1. a \in Artifacts /\ disk \in [Artifacts -> Disks]
    BY Worker DEF TypeOK
  <1>2. ASSUME NEW c \in Bytes \cup {None, Torn}
        PROVE  [disk[a] EXCEPT !["payload"] = c] \in Disks
    BY <1>1 DEF Disks
  <1>3. ASSUME NEW c \in Statements \cup {None, Torn}
        PROVE  /\ [disk[a] EXCEPT !["envelope"] = c] \in Disks
               /\ [disk[a] EXCEPT !["receipt"] = c] \in Disks
    BY <1>1 DEF Disks
  <1>4. ASSUME NEW f, NEW c, Put(p, f, c), [disk[a] EXCEPT ![f] = c] \in Disks
        PROVE  disk' \in [Artifacts -> Disks]
    <2>1. disk' = [disk EXCEPT ![a] = [disk[a] EXCEPT ![f] = c]]
      BY <1>4 DEF Put
    <2> QED
      BY <1>1, <1>4, <2>1
  <1> QED
    BY <1>2, <1>3, <1>4

LEMMA TypeInit == Init => TypeOK
  <1> SUFFICES ASSUME Init PROVE TypeOK
    OBVIOUS
  <1>1. NoFiles \in Disks
    BY NoFilesType
  <1>2. /\ existed \in [Processes -> BOOLEAN]
        /\ before \in [Processes -> Disks]
    BY <1>1 DEF Init
  <1> QED
    BY <1>1, <1>2 DEF Init, TypeOK, Unloaded

LEMMA LoadType ==
    ASSUME TypeOK, Load
    PROVE  TypeOK'
  <1> DEFINE Loads == [pc : {"off", "list", "item", "payload", "receipt", "done"},
                       kind : {"proposals", "activations"},
                       todo : SUBSET Artifacts, names : SUBSET Artifacts,
                       item : Items \cup {None}, out : SUBSET Items,
                       owed : [Artifacts -> Disks]]
  <1>1. load \in Loads
    BY DEF TypeOK
  <1>2. ASSUME load' = Unloaded
        PROVE  load' \in Loads
    BY <1>2, UnloadedType
  <1>3. Unloaded \in Loads
    BY NoFilesType DEF Unloaded
  <1>4. ASSUME LoadStart PROVE load' \in Loads
    <2>1. load' = [Unloaded EXCEPT !.pc = "list", !.owed = committed]
      BY <1>4 DEF LoadStart
    <2>2. committed \in [Artifacts -> Disks]
      BY DEF TypeOK
    <2> QED
      BY <1>3, <2>1, <2>2
  <1>5. ASSUME ListDir
        PROVE  load' \in Loads /\ load'.pc \notin {"payload", "receipt"}
    <2>1. load' = Unloaded
          \/ \E S, T \in SUBSET Artifacts :
                load' = [load EXCEPT !.pc = "item", !.todo = S, !.names = T]
      <3> DEFINE entries(field) ==
                    {a \in Artifacts : Kind(a) = load.kind /\ disk[a][field] # None}
      <3>1. entries("envelope") \in SUBSET Artifacts /\ entries("payload") \in SUBSET Artifacts
        OBVIOUS
      <3>2. load' = Unloaded
            \/ load' = [load EXCEPT !.pc = "item", !.todo = entries("envelope"),
                                    !.names = entries("payload")]
        BY <1>5, Zenon DEF ListDir
      <3> HIDE DEF entries
      <3> QED
        BY <3>1, <3>2
    <2>2. CASE load' = Unloaded
      BY <1>2, <2>2 DEF Unloaded
    <2> QED
      BY <1>1, <2>1, <2>2
  <1>6. ASSUME NEW a \in Artifacts, LoadEnvelope(a)
        PROVE  load' \in Loads /\ (load'.pc \in {"payload", "receipt"} => load'.item \in Items)
    <2>1. disk[a].envelope \in {None, Torn} \/ disk[a].envelope \in Statements
      BY DEF TypeOK, Disks
    <2>2. CASE load' = Unloaded
      BY <1>2, <2>2 DEF Unloaded
    <2>3. CASE /\ disk[a].envelope \in Statements
               /\ load' = [load EXCEPT !.pc = "payload", !.todo = @ \ {a},
                              !.item = [id |-> a, says |-> disk[a].envelope]]
      BY <1>1, <2>3 DEF Items
    <2> QED
      BY <1>6, <2>1, <2>2, <2>3 DEF LoadEnvelope
  <1>7. ASSUME LoadPayload \/ LoadReceipt
        PROVE  load' \in Loads /\ (load'.pc \in {"payload", "receipt"} => load'.item \in Items)
    <2>1. load' = Unloaded
          \/ load' = [load EXCEPT !.pc = "receipt"]
          \/ load' = [load EXCEPT !.pc = "item", !.item = None, !.out = @ \cup {load.item}]
      BY <1>7 DEF LoadPayload, LoadReceipt
    <2>2. load.item \in Items
      BY <1>7 DEF LoadPayload, LoadReceipt, TypeOK
    <2>3. CASE load' = Unloaded
      BY <1>2, <2>3 DEF Unloaded
    <2>4. CASE load' = [load EXCEPT !.pc = "receipt"]
      BY <1>1, <2>2, <2>4
    <2>5. CASE load' = [load EXCEPT !.pc = "item", !.item = None,
                                    !.out = @ \cup {load.item}]
      BY <1>1, <2>2, <2>5
    <2> QED
      BY <2>1, <2>3, <2>4, <2>5
  <1>8. ASSUME CheckOrphans PROVE load' \in Loads
    BY <1>1, <1>2, <1>8 DEF CheckOrphans
  <1>9. ASSUME LoadReturn PROVE load' \in Loads
    BY <1>2, <1>9 DEF LoadReturn
  <1>10. ASSUME LoadStart \/ ListDir \/ CheckOrphans \/ LoadReturn
         PROVE  load'.pc \notin {"payload", "receipt"}
    <2>1. Unloaded.pc = "off"
      BY DEF Unloaded
    <2>2. CASE LoadStart
      BY <2>1, <2>2, <1>3 DEF LoadStart
    <2>3. CASE ListDir
      BY <1>5, <2>3
    <2>4. CASE CheckOrphans
      BY <1>1, <2>1, <2>4 DEF CheckOrphans
    <2>5. CASE LoadReturn
      BY <2>1, <2>5 DEF LoadReturn
    <2> QED
      BY <1>10, <2>2, <2>3, <2>4, <2>5
  <1>11. load' \in Loads /\ (load'.pc \in {"payload", "receipt"} => load'.item \in Items)
    BY <1>4, <1>5, <1>6, <1>7, <1>8, <1>9, <1>10 DEF Load
  <1>12. UNCHANGED <<disk, strays, writers, committed, issued, damaged, faults, crashes>>
    BY DEF Load
  <1> QED
    BY <1>11, <1>12 DEF TypeOK, writers

(* The part of TypeOK about the calls in progress, after each of their     *)
(* ways to go on.                                                          *)
WriterType ==
    /\ pc \in [Processes -> Reading \cup Writing \cup Undoing
                  \cup {"idle", "check", "removePayload", "openStore"}]
    /\ job \in [Processes -> Jobs \cup {NoJob}]
    /\ \A q \in Processes : pc[q] # "idle" <=> job[q] # NoJob
    /\ before \in [Processes -> Disks]
    /\ existed \in [Processes -> BOOLEAN]

LEMMA GotoType ==
    ASSUME TypeOK, NEW p \in Processes, pc[p] # "idle",
           NEW label \in Writing \cup Undoing \cup {"check", "removePayload", "openStore"},
           Goto(p, label)
    PROVE  WriterType'
  BY DEF TypeOK, Goto, Reading, Writing, Undoing, WriterType

LEMMA ReturnType ==
    ASSUME TypeOK, NEW p \in Processes, Return(p)
    PROVE  WriterType'
  BY NoFilesType DEF TypeOK, Return, WriterType

LEMMA FailType ==
    ASSUME TypeOK, NEW p \in Processes, pc[p] # "idle", Fail(p)
    PROVE  WriterType'
  BY GotoType, ReturnType DEF Fail, Undoing

LEMMA AnswerType ==
    ASSUME TypeOK, NEW p \in Processes, pc[p] # "idle", Answer(p),
           disk' \in [Artifacts -> Disks]
    PROVE  /\ WriterType'
           /\ committed' \in [Artifacts -> Disks]
           /\ damaged' \subseteq Artifacts
  BY ReturnType, Worker DEF TypeOK, Answer

(* A write that failed, before or after the rename.                        *)
LEMMA PutFailsType ==
    ASSUME TypeOK, NEW p \in Processes, pc[p] # "idle", NEW field, NEW c,
           Put(p, field, c) => disk' \in [Artifacts -> Disks],
           PutFails(p, field, c)
    PROVE  /\ disk' \in [Artifacts -> Disks]
           /\ damaged' \subseteq Artifacts
           /\ faults' \in Nat
  BY DEF TypeOK, PutFails, Fault, Artifacts

LEMMA StepType ==
    ASSUME TypeOK, NEW p \in Processes, Step(p)
    PROVE  TypeOK'
  <1> DEFINE Rest == /\ disk \in [Artifacts -> Disks]
                     /\ strays \subseteq {"proposals", "activations"}
                     /\ committed \in [Artifacts -> Disks]
                     /\ issued \subseteq Jobs
                     /\ damaged \subseteq Artifacts
                     /\ faults \in Nat /\ crashes \in Nat
  <1>1. /\ UNCHANGED load
        /\ Rest
    BY DEF TypeOK, Step, Persist, Snapshot, CheckPayload, WritePayload,
       WriteEnvelope, RemovePayload, OpenStore, WriteReceipt, Restore, Crash
  <1>2. ASSUME WriterType', Rest' PROVE TypeOK'
    BY <1>1, <1>2 DEF TypeOK, WriterType
  <1>3. CASE \E j \in Jobs : Persist(p, j)
    <2>1. PICK j \in Jobs : Persist(p, j)
      BY <1>3
    <2>2. WriterType'
      BY <2>1, JobFacts DEF TypeOK, Persist, Reading, WriterType
    <2> QED
      BY <1>1, <1>2, <2>1, <2>2 DEF Persist
  <1>4. CASE Snapshot(p)
    <2>1. pc[p] \in Reading /\ pc[p] # "idle" /\ disk[job[p].id] \in Disks
      BY <1>4, Worker DEF Snapshot, Reading, TypeOK
    <2>2. CASE Fault /\ Return(p)
      BY <1>1, <1>2, <1>4, <2>2, ReturnType DEF Fault, Snapshot
    <2>3. CASE /\ pc' = [pc EXCEPT ![p] = NextRead[@]]
               /\ before' = [before EXCEPT ![p][FieldOf[pc[p]]] = disk[job[p].id][FieldOf[pc[p]]]]
               /\ UNCHANGED <<job, existed, faults>>
      <3>1. NextRead[pc[p]] \in Reading \cup {"check"} /\ NextRead[pc[p]] # "idle"
        BY <2>1 DEF NextRead, Reading
      <3>2. FieldOf[pc[p]] \in {"payload", "envelope", "receipt"}
        BY <2>1 DEF FieldOf, Reading
      <3>3. before[p] \in Disks
        BY DEF TypeOK
      <3>4. [before[p] EXCEPT ![FieldOf[pc[p]]] = disk[job[p].id][FieldOf[pc[p]]]] \in Disks
        BY <2>1, <3>2, <3>3 DEF Disks
      <3>5. before' = [before EXCEPT ![p] =
                [before[p] EXCEPT ![FieldOf[pc[p]]] = disk[job[p].id][FieldOf[pc[p]]]]]
        BY <2>3 DEF TypeOK
      <3>6. WriterType'
        BY <2>1, <2>3, <3>1, <3>4, <3>5 DEF TypeOK, WriterType
      <3> QED
        BY <1>1, <1>2, <1>4, <2>3, <3>6 DEF Snapshot
    <2> QED
      BY <1>4, <2>2, <2>3 DEF Snapshot
  <1>5. CASE CheckPayload(p)
    <2>1. pc[p] # "idle"
      BY <1>5 DEF CheckPayload
    <2>2. CASE Fail(p)
      BY <1>1, <1>2, <1>5, <2>1, <2>2, FailType DEF CheckPayload, Fault
    <2>3. CASE /\ pc' = [pc EXCEPT ![p] = "writePayload"]
               /\ existed' = [existed EXCEPT ![p] = disk[job[p].id].payload # None]
               /\ UNCHANGED <<job, before, faults>>
      <3>1. WriterType'
        BY <2>1, <2>3 DEF TypeOK, WriterType, Writing
      <3> QED
        BY <1>1, <1>2, <1>5, <2>3, <3>1 DEF CheckPayload
    <2> QED
      BY <1>5, <2>2, <2>3 DEF CheckPayload
  <1>6. CASE WritePayload(p)
    <2>1. pc[p] # "idle" /\ job[p].says.bytes \in Bytes
      BY <1>6, Worker DEF WritePayload
    <2>2. Put(p, "payload", job[p].says.bytes) => disk' \in [Artifacts -> Disks]
      BY <2>1, PutType
    <2>3. CASE /\ Put(p, "payload", job[p].says.bytes)
               /\ Goto(p, "writeEnvelope")
               /\ UNCHANGED <<damaged, faults>>
      BY <1>1, <1>2, <1>6, <2>1, <2>2, <2>3, GotoType DEF WritePayload, Writing
    <2>4. CASE PutFails(p, "payload", job[p].says.bytes) /\ Fail(p)
      BY <1>1, <1>2, <1>6, <2>1, <2>2, <2>4, FailType, PutFailsType DEF WritePayload
    <2> QED
      BY <1>6, <2>3, <2>4 DEF WritePayload
  <1>7. CASE WriteEnvelope(p)
    <2>1. pc[p] # "idle" /\ job[p].says \in Statements
      BY <1>7, Worker DEF WriteEnvelope
    <2>2. Put(p, "envelope", job[p].says) => disk' \in [Artifacts -> Disks]
      BY <2>1, PutType
    <2>3. CASE Put(p, "envelope", job[p].says) /\ Answer(p) /\ UNCHANGED faults
      BY <1>1, <1>2, <1>7, <2>1, <2>2, <2>3, AnswerType DEF WriteEnvelope
    <2>4. CASE /\ Put(p, "envelope", job[p].says) /\ Goto(p, "openStore")
               /\ UNCHANGED <<committed, damaged, faults>>
      BY <1>1, <1>2, <1>7, <2>1, <2>2, <2>4, GotoType DEF WriteEnvelope
    <2>5. CASE /\ PutFails(p, "envelope", job[p].says)
               /\ Fail(p) \/ Goto(p, "removePayload")
               /\ UNCHANGED committed
      <3>1. WriterType'
        BY <2>1, <2>5, FailType, GotoType
      <3> QED
        BY <1>1, <1>2, <1>7, <2>1, <2>2, <2>5, <3>1, PutFailsType DEF WriteEnvelope
    <2> QED
      BY <1>7, <2>3, <2>4, <2>5 DEF WriteEnvelope
  <1>8. CASE RemovePayload(p)
    <2>1. pc[p] # "idle"
      BY <1>8 DEF RemovePayload
    <2>2. disk' \in [Artifacts -> Disks] /\ damaged' \subseteq Artifacts /\ faults' \in Nat
      BY <1>1, <1>8, <2>1, PutType DEF RemovePayload, Fault, Artifacts
    <2> QED
      BY <1>1, <1>2, <1>8, <2>1, <2>2, FailType DEF RemovePayload
  <1>9. CASE OpenStore(p)
    <2>1. WriterType' /\ faults' \in Nat
      BY <1>1, <1>9, FailType, GotoType DEF OpenStore, Fault, Writing
    <2> QED
      BY <1>1, <1>2, <1>9, <2>1 DEF OpenStore
  <1>10. CASE WriteReceipt(p)
    <2>1. pc[p] # "idle" /\ job[p].says \in Statements /\ job[p] \in Jobs
      BY <1>10, Worker DEF WriteReceipt
    <2>2. Put(p, "receipt", job[p].says) => disk' \in [Artifacts -> Disks]
      BY <2>1, PutType
    <2>3. issued' \subseteq Jobs
      BY <1>1, <1>10, <2>1 DEF WriteReceipt
    <2>4. CASE Put(p, "receipt", job[p].says) /\ Answer(p) /\ UNCHANGED faults
      BY <1>1, <1>2, <1>10, <2>1, <2>2, <2>3, <2>4, AnswerType DEF WriteReceipt
    <2>5. CASE PutFails(p, "receipt", job[p].says) /\ Fail(p) /\ UNCHANGED committed
      BY <1>1, <1>2, <1>10, <2>1, <2>2, <2>3, <2>5, FailType, PutFailsType
         DEF WriteReceipt
    <2> QED
      BY <1>10, <2>4, <2>5 DEF WriteReceipt
  <1>11. CASE Restore(p)
    <2>1. pc[p] \in Undoing /\ pc[p] # "idle" /\ before[p] \in Disks
      BY <1>11 DEF Restore, Undoing, TypeOK
    <2>2. WriterType'
      BY <1>11, <2>1, GotoType, ReturnType DEF Restore, Undoing
    <2>3. ASSUME NEW c, Put(p, FieldOf[pc[p]], c), c = Torn \/ c = before[p][FieldOf[pc[p]]]
          PROVE  disk' \in [Artifacts -> Disks]
      BY <2>1, <2>3, PutType DEF FieldOf, Undoing, Disks
    <2>4. disk' \in [Artifacts -> Disks] /\ damaged' \subseteq Artifacts /\ faults' \in Nat
      BY <1>1, <1>11, <2>1, <2>3, Worker DEF Restore, Fault
    <2> QED
      BY <1>1, <1>2, <1>11, <2>2, <2>4 DEF Restore
  <1>12. CASE Crash(p)
    <2>1. pc[p] # "idle" /\ job[p].id \in Artifacts
      BY <1>12, Worker DEF Crash
    <2>2. disk' \in [Artifacts -> Disks]
      BY <1>1, <1>12, <2>1, PutType DEF Crash, FieldOf, Undoing
    <2>3. strays' \subseteq {"proposals", "activations"}
      BY <1>1, <1>12 DEF Crash, Kind
    <2>4. WriterType'
      BY <1>12, ReturnType DEF Crash
    <2>5. crashes' \in Nat /\ damaged' \subseteq Artifacts
      BY <1>1, <1>12, <2>1 DEF Crash
    <2> QED
      BY <1>1, <1>2, <1>12, <2>2, <2>3, <2>4, <2>5 DEF Crash
  <1> QED
    BY <1>3, <1>4, <1>5, <1>6, <1>7, <1>8, <1>9, <1>10, <1>11, <1>12 DEF Step

(* Files, calls and loads keep their types.                                *)
THEOREM ContractTypeCorrect == Spec => []TypeOK
  <1>1. Init => TypeOK
    BY TypeInit
  <1>2. TypeOK /\ [Next]_vars => TypeOK'
    <2>1. ASSUME TypeOK, UNCHANGED vars PROVE TypeOK'
      BY <2>1 DEF TypeOK, vars, writers
    <2> QED
      BY <2>1, LoadType, StepType DEF Next
  <1> QED
    BY <1>1, <1>2, PTL DEF Spec

-----------------------------------------------------------------------------

\* A receipt on disk, or kept to be restored, is one that was issued.
ReceiptIssued(a, receipt) ==
    receipt \in {None, Torn} \/ [id |-> a, says |-> receipt] \in issued

\* The producer's signature of an activation was verified.
Trusted(j) == j.id \in Activations => j.says.bytes \in Verified

(* The inductive invariant: every receipt on disk, and every one a failed  *)
(* call would restore, was issued; what calls work on and what was issued  *)
(* is trusted; what a LoadStored has accepted was issued.                  *)
TrustInv ==
    /\ TypeOK
    /\ \A j \in issued : Trusted(j)
    /\ \A a \in Activations : ReceiptIssued(a, disk[a].receipt)
    /\ \A p \in Processes : pc[p] # "idle" =>
          /\ Trusted(job[p])
          /\ job[p].id \in Activations => ReceiptIssued(job[p].id, before[p].receipt)
    /\ \A p \in Processes : pc[p] = "idle" => before[p] = NoFiles
    /\ load.pc \in {"payload", "receipt"} => load.item.says \notin {None, Torn}
    /\ \A item \in load.out : item.id \in Activations => item \in issued

LEMMA TrustInit == Init => TrustInv
  <1> SUFFICES ASSUME Init PROVE TrustInv
    OBVIOUS
  <1>1. TypeOK /\ issued = {}
    BY TypeInit DEF Init
  <1>2. \A a \in Activations : disk[a].receipt = None
    BY DEF Init, NoFiles, Artifacts
  <1>3. \A p \in Processes : pc[p] = "idle" /\ before[p] = NoFiles
    BY DEF Init
  <1>4. load.pc = "off" /\ load.out = {}
    BY DEF Init, Unloaded
  <1> QED
    BY <1>1, <1>2, <1>3, <1>4 DEF TrustInv, ReceiptIssued

(* Reading changes no file, and accepts an activation only when its        *)
(* receipt states what its envelope states.                                *)
LEMMA LoadTrust ==
    ASSUME TrustInv, Load
    PROVE  TrustInv'
  <1>1. TypeOK /\ TypeOK'
    BY LoadType DEF TrustInv
  <1>2. UNCHANGED <<disk, issued, pc, job, before>>
    BY DEF Load, writers
  <1>3. Unloaded.pc = "off" /\ Unloaded.out = {}
    BY DEF Unloaded
  <1>4. ASSUME /\ load'.pc \in {"payload", "receipt"} => load'.item.says \notin {None, Torn}
               /\ \A item \in load'.out : item.id \in Activations => item \in issued
        PROVE  TrustInv'
    BY <1>1, <1>2, <1>4 DEF TrustInv, Trusted, ReceiptIssued
  <1>5. CASE load' = Unloaded
    BY <1>3, <1>4, <1>5
  <1>6. ASSUME load'.pc \notin {"payload", "receipt"}, load'.out \in {{}, load.out}
        PROVE  TrustInv'
    BY <1>4, <1>6 DEF TrustInv
  <1>7. CASE LoadStart
    BY <1>1, <1>6, <1>7 DEF LoadStart, Unloaded
  <1>8. CASE ListDir
    <2>1. load' = Unloaded
          \/ \E S, T : load' = [load EXCEPT !.pc = "item", !.todo = S, !.names = T]
      BY <1>8 DEF ListDir
    <2> QED
      BY <1>1, <1>5, <1>6, <2>1 DEF TypeOK
  <1>9. ASSUME NEW a \in Artifacts, LoadEnvelope(a)
        PROVE  TrustInv'
    <2>1. CASE /\ disk[a].envelope \notin {None, Torn}
               /\ load' = [load EXCEPT !.pc = "payload", !.todo = @ \ {a},
                              !.item = [id |-> a, says |-> disk[a].envelope]]
      BY <1>1, <1>4, <2>1 DEF TrustInv, TypeOK
    <2> QED
      BY <1>5, <1>9, <2>1 DEF LoadEnvelope
  <1>10. CASE LoadPayload
    <2>1. CASE load' = [load EXCEPT !.pc = "receipt"]
      BY <1>1, <1>4, <1>10, <2>1 DEF TrustInv, TypeOK, LoadPayload
    <2>2. CASE /\ load.item.id \notin Activations
               /\ load' = [load EXCEPT !.pc = "item", !.item = None,
                                       !.out = @ \cup {load.item}]
      BY <1>1, <1>4, <2>2 DEF TrustInv, TypeOK
    <2> QED
      BY <1>5, <1>10, <2>1, <2>2 DEF LoadPayload
  <1>11. CASE LoadReceipt
    <2>1. load.item \in Items /\ load.item.says \notin {None, Torn}
      BY <1>1, <1>11 DEF LoadReceipt, TrustInv, TypeOK
    <2>2. CASE /\ disk[load.item.id].receipt = load.item.says
               /\ load' = [load EXCEPT !.pc = "item", !.item = None,
                                       !.out = @ \cup {load.item}]
      <3>1. load.item = [id |-> load.item.id, says |-> load.item.says]
        BY <2>1 DEF Items
      <3>2. load.item.id \in Activations => load.item \in issued
        BY <2>1, <2>2, <3>1 DEF TrustInv, ReceiptIssued
      <3> QED
        BY <1>1, <1>4, <2>2, <3>2 DEF TrustInv, TypeOK
    <2> QED
      BY <1>5, <1>11, <2>2 DEF LoadReceipt
  <1>12. CASE CheckOrphans
    <2>1. \/ load' = Unloaded
          \/ load' = [load EXCEPT !.pc = "list", !.kind = "activations"]
          \/ load' = [load EXCEPT !.pc = "done"]
      BY <1>12 DEF CheckOrphans
    <2> QED
      BY <1>1, <1>5, <1>6, <2>1 DEF TypeOK
  <1>13. CASE LoadReturn
    BY <1>5, <1>13 DEF LoadReturn
  <1> QED
    BY <1>7, <1>8, <1>9, <1>10, <1>11, <1>12, <1>13 DEF Load

(* A call changes its own artifact's receipt only: to what it issues, to   *)
(* what it found, or it leaves it torn.                                    *)
LEMMA ReceiptChange ==
    ASSUME TypeOK, NEW p \in Processes, Step(p), NEW a \in Activations
    PROVE  \/ disk'[a].receipt = disk[a].receipt
           \/ /\ pc[p] # "idle" /\ a = job[p].id
              /\ disk'[a].receipt \in {Torn, before[p].receipt}
           \/ /\ pc[p] # "idle" /\ a = job[p].id
              /\ disk'[a].receipt = job[p].says /\ job[p] \in issued'
  <1>1. a \in Artifacts /\ disk \in [Artifacts -> Disks]
    BY DEF Artifacts, TypeOK
  <1>2. ASSUME NEW f \in {"payload", "envelope"}, NEW c, Put(p, f, c)
        PROVE  disk'[a].receipt = disk[a].receipt
    BY <1>1, <1>2 DEF Put, Disks
  <1>3. ASSUME NEW c, Put(p, "receipt", c), pc[p] # "idle"
        PROVE  disk'[a].receipt = disk[a].receipt \/ (a = job[p].id /\ disk'[a].receipt = c)
    BY <1>1, <1>3, Worker DEF Put, Disks
  <1>4. CASE UNCHANGED disk
    BY <1>4
  <1>5. CASE WritePayload(p)
    BY <1>2, <1>4, <1>5 DEF WritePayload, PutFails
  <1>6. CASE WriteEnvelope(p)
    BY <1>2, <1>4, <1>6 DEF WriteEnvelope, PutFails
  <1>7. CASE RemovePayload(p)
    BY <1>2, <1>4, <1>7 DEF RemovePayload
  <1>8. CASE WriteReceipt(p)
    <2>1. job[p] \in issued' /\ pc[p] # "idle"
      BY <1>8 DEF WriteReceipt
    <2>2. UNCHANGED disk \/ Put(p, "receipt", job[p].says)
      BY <1>8 DEF WriteReceipt, PutFails
    <2> QED
      BY <1>3, <1>4, <2>1, <2>2
  <1>9. ASSUME pc[p] \in Undoing, NEW c, Put(p, FieldOf[pc[p]], c),
               c = Torn \/ c = before[p][FieldOf[pc[p]]]
        PROVE  \/ disk'[a].receipt = disk[a].receipt
               \/ a = job[p].id /\ disk'[a].receipt \in {Torn, before[p].receipt}
    <2>1. CASE FieldOf[pc[p]] \in {"payload", "envelope"}
      BY <1>2, <1>9, <2>1
    <2>2. CASE FieldOf[pc[p]] = "receipt"
      BY <1>3, <1>9, <2>2 DEF Undoing
    <2> QED
      BY <1>9, <2>1, <2>2 DEF FieldOf, Undoing
  <1>10. CASE Restore(p)
    BY <1>4, <1>9, <1>10 DEF Restore, Undoing
  <1>11. CASE Crash(p)
    BY <1>4, <1>9, <1>11 DEF Crash, Undoing
  <1> QED
    BY <1>4, <1>5, <1>6, <1>7, <1>8, <1>10, <1>11
       DEF Step, Persist, Snapshot, CheckPayload, OpenStore

(* A call begins with a trusted job; it goes on with its job, and with the *)
(* receipt it knows or finds on disk; it ends with nothing to restore.     *)
Undisturbed(q) == pc'[q] = pc[q] /\ job'[q] = job[q] /\ before'[q] = before[q]
Begins(q) ==
    pc[q] = "idle" /\ pc'[q] # "idle" /\ Trusted(job'[q]) /\ before'[q] = before[q]
GoesOn(q) ==
    /\ pc[q] # "idle" /\ pc'[q] # "idle" /\ job'[q] = job[q]
    /\ before'[q].receipt \in {before[q].receipt, disk[job[q].id].receipt}
Ends(q) == pc'[q] = "idle" /\ before'[q] = NoFiles

LEMMA WriterChange ==
    ASSUME TypeOK, NEW p \in Processes, Step(p), NEW q \in Processes
    PROVE  Undisturbed(q) \/ Begins(q) \/ GoesOn(q) \/ Ends(q)
  <1> DEFINE Change == Undisturbed(q) \/ Begins(q) \/ GoesOn(q) \/ Ends(q)
  <1> SUFFICES Change
    OBVIOUS
  <1>1. /\ DOMAIN pc = Processes /\ pc = [x \in Processes |-> pc[x]]
        /\ job = [x \in Processes |-> job[x]]
        /\ before = [x \in Processes |-> before[x]]
    BY DEF TypeOK
  <1>2. ASSUME Return(p) PROVE Change
    BY <1>1, <1>2 DEF Return, Undisturbed, Ends
  <1>3. ASSUME NEW l, l # "idle", pc[p] # "idle", Goto(p, l) PROVE Change
    BY <1>1, <1>3 DEF Goto, Undisturbed, GoesOn
  <1>4. ASSUME pc[p] # "idle", Fail(p) PROVE Change
    BY <1>2, <1>3, <1>4 DEF Fail
  <1>5. ASSUME NEW j \in Jobs, Persist(p, j) PROVE Change
    BY <1>1, <1>5 DEF Persist, Undisturbed, Begins, Trusted
  <1>6. CASE Snapshot(p)
    <2>1. pc[p] \in Reading /\ NextRead[pc[p]] # "idle" /\ before[p] \in Disks
      BY <1>6 DEF Snapshot, NextRead, Reading, TypeOK
    <2>2. pc[p] # "idle" /\ FieldOf[pc[p]] \in {"payload", "envelope", "receipt"}
      BY <2>1 DEF FieldOf, Reading
    <2>3. CASE /\ pc' = [pc EXCEPT ![p] = NextRead[@]] /\ job' = job
               /\ before' = [before EXCEPT ![p][FieldOf[pc[p]]] =
                                disk[job[p].id][FieldOf[pc[p]]]]
      <3>1. CASE q # p
        BY <1>1, <2>3, <3>1 DEF Undisturbed
      <3>2. CASE q = p
        BY <1>1, <2>1, <2>2, <2>3, <3>2 DEF GoesOn, Disks
      <3> QED
        BY <3>1, <3>2
    <2> QED
      BY <1>2, <1>6, <2>3 DEF Snapshot
  <1>7. CASE CheckPayload(p)
    <2>1. CASE /\ pc[p] # "idle" /\ pc' = [pc EXCEPT ![p] = "writePayload"]
               /\ job' = job /\ before' = before
      BY <1>1, <2>1 DEF Undisturbed, GoesOn
    <2> QED
      BY <1>4, <1>7, <2>1 DEF CheckPayload
  <1>8. CASE WritePayload(p)
    BY <1>3, <1>4, <1>8 DEF WritePayload
  <1>9. CASE WriteEnvelope(p)
    BY <1>2, <1>3, <1>4, <1>9 DEF WriteEnvelope, Answer
  <1>10. CASE RemovePayload(p)
    BY <1>4, <1>10 DEF RemovePayload
  <1>11. CASE OpenStore(p)
    BY <1>3, <1>4, <1>11 DEF OpenStore
  <1>12. CASE WriteReceipt(p)
    BY <1>2, <1>4, <1>12 DEF WriteReceipt, Answer
  <1>13. CASE Restore(p)
    BY <1>2, <1>3, <1>13 DEF Restore, Undoing
  <1>14. CASE Crash(p)
    BY <1>2, <1>14 DEF Crash
  <1> QED
    BY <1>5, <1>6, <1>7, <1>8, <1>9, <1>10, <1>11, <1>12, <1>13, <1>14 DEF Step

LEMMA StepTrust ==
    ASSUME TrustInv, NEW p \in Processes, Step(p)
    PROVE  TrustInv'
  <1>1. TypeOK /\ TypeOK' /\ UNCHANGED load
    BY StepType DEF TrustInv, Step, Persist, Snapshot, CheckPayload, WritePayload,
       WriteEnvelope, RemovePayload, OpenStore, WriteReceipt, Restore, Crash
  <1>2. issued' = issued \/ (pc[p] # "idle" /\ issued' = issued \cup {job[p]})
    BY DEF Step, Persist, Snapshot, CheckPayload, WritePayload, WriteEnvelope,
       RemovePayload, OpenStore, WriteReceipt, Restore, Crash
  <1>3. issued \subseteq issued' /\ \A j \in issued' : Trusted(j)
    BY <1>2 DEF TrustInv
  <1>4. ASSUME NEW a, NEW receipt, ReceiptIssued(a, receipt)
        PROVE  ReceiptIssued(a, receipt)'
    BY <1>3, <1>4 DEF ReceiptIssued
  <1>5. ASSUME NEW a \in Activations
        PROVE  ReceiptIssued(a, disk[a].receipt)'
    <2>1. CASE disk'[a].receipt = disk[a].receipt
      BY <1>3, <2>1 DEF TrustInv, ReceiptIssued
    <2>2. CASE /\ pc[p] # "idle" /\ a = job[p].id
               /\ disk'[a].receipt \in {Torn, before[p].receipt}
      BY <1>3, <2>2 DEF TrustInv, ReceiptIssued
    <2>3. CASE /\ pc[p] # "idle" /\ a = job[p].id
               /\ disk'[a].receipt = job[p].says /\ job[p] \in issued'
      <3>1. job[p] = [id |-> a, says |-> job[p].says]
        BY <1>1, <2>3, Worker, JobFacts
      <3> QED
        BY <2>3, <3>1 DEF ReceiptIssued
    <2> QED
      BY <1>1, <2>1, <2>2, <2>3, ReceiptChange
  <1>6. ASSUME NEW q \in Processes, pc'[q] # "idle"
        PROVE  /\ Trusted(job'[q])
               /\ job'[q].id \in Activations => ReceiptIssued(job[q].id, before[q].receipt)'
    <2>1. CASE Undisturbed(q)
      BY <1>3, <1>6, <2>1 DEF Undisturbed, TrustInv, ReceiptIssued
    <2>2. CASE Begins(q)
      <3>1. before'[q].receipt = None
        BY <2>2 DEF Begins, TrustInv, NoFiles
      <3> QED
        BY <2>2, <3>1 DEF Begins, ReceiptIssued
    <2>3. CASE GoesOn(q)
      <3>1. CASE before'[q].receipt = before[q].receipt
        BY <1>3, <2>3, <3>1 DEF GoesOn, TrustInv, ReceiptIssued
      <3>2. CASE before'[q].receipt = disk[job[q].id].receipt
        <4>1. job[q].id \in Activations => ReceiptIssued(job[q].id, disk[job[q].id].receipt)
          BY <2>3 DEF TrustInv
        <4> QED
          BY <1>3, <2>3, <3>2, <4>1 DEF GoesOn, TrustInv, ReceiptIssued
      <3> QED
        BY <2>3, <3>1, <3>2 DEF GoesOn
    <2> QED
      BY <1>1, <1>6, <2>1, <2>2, <2>3, WriterChange DEF Ends
  <1>7. ASSUME NEW q \in Processes, pc'[q] = "idle"
        PROVE  before'[q] = NoFiles
    BY <1>1, <1>7, WriterChange DEF TrustInv, Undisturbed, Begins, GoesOn, Ends
  <1> QED
    BY <1>1, <1>3, <1>5, <1>6, <1>7 DEF TrustInv, Trusted

(* LoadStored returns no activation without a receipt for these bytes and  *)
(* this conformance, nor one whose producer signature was not verified,    *)
(* whatever other processes write, undo or leave behind meanwhile.         *)
THEOREM LoadedAlwaysIssued == Spec => []LoadedWasIssued
  <1>1. Init => TrustInv
    BY TrustInit
  <1>2. TrustInv /\ [Next]_vars => TrustInv'
    <2>1. ASSUME TrustInv, UNCHANGED vars PROVE TrustInv'
      BY <2>1 DEF TrustInv, TypeOK, Trusted, ReceiptIssued, vars, writers
    <2> QED
      BY <2>1, LoadTrust, StepTrust DEF Next
  <1>3. TrustInv => LoadedWasIssued
    BY DEF TrustInv, Trusted, LoadedWasIssued
  <1> QED
    BY <1>1, <1>2, <1>3, PTL DEF Spec

-----------------------------------------------------------------------------
(* With one process that writes, a call that fails leaves no trace.        *)

OneWriter == \A p, q \in Processes : p = q

\* The steps of a call on a proposal.
Proposing == {"check", "writePayload", "writeEnvelope", "removePayload"}

SameButPayload(x, y) == x.envelope = y.envelope /\ x.receipt = y.receipt

(* What a call knows of the files as they were when it began, kept, by the *)
(* step it is at: it has not written yet; it has read them, one by one; it *)
(* has restored them, one by one; of a proposal it has written the payload *)
(* only, to the bytes that were there or where nothing was.                *)
Recoverable(p) ==
    LET a == job[p].id
        kept == committed[a]
        found == before[p]
    IN  /\ pc[p] \in Reading \cup {"check", "writePayload"} => disk[a] = kept
        /\ pc[p] \in {"readEnvelope", "readReceipt"} => found.payload = kept.payload
        /\ pc[p] = "readReceipt" => found.envelope = kept.envelope
        /\ Activating(p) /\ pc[p] \notin Reading => found = kept
        /\ pc[p] \in {"restoreEnvelope", "restoreReceipt"} =>
              disk[a].payload = kept.payload
        /\ pc[p] = "restoreReceipt" => disk[a].envelope = kept.envelope
        /\ ~ Activating(p) =>
              /\ pc[p] \in {"writeEnvelope", "removePayload"} =>
                    /\ disk[a].payload = job[p].says.bytes
                    /\ SameButPayload(disk[a], kept)
              /\ pc[p] # "check" =>
                    kept.payload = IF existed[p] THEN job[p].says.bytes ELSE None
              /\ pc[p] = "removePayload" => ~ existed[p]

Progressing(p) ==
    /\ ~ Activating(p) => pc[p] \in Proposing
    /\ job[p].id \notin damaged => Recoverable(p)

UndoInv ==
    /\ TypeOK
    /\ AllOrNothing
    /\ \A p \in Processes : pc[p] # "idle" => Progressing(p)

LEMMA SameFiles ==
    ASSUME NEW x \in Disks, NEW y \in Disks, x.payload = y.payload, SameButPayload(x, y)
    PROVE  x = y
  BY DEF Disks, SameButPayload

LEMMA SetReceipt ==
    ASSUME NEW x \in Disks, NEW r \in Statements \cup {None, Torn},
           NEW y, y = [x EXCEPT !.receipt = r]
    PROVE  /\ y \in Disks /\ y.receipt = r
           /\ y.payload = x.payload /\ y.envelope = x.envelope
  BY DEF Disks

(* What a write changes, and what it leaves alone.                         *)
LEMMA PutChange ==
    ASSUME TypeOK, NEW p \in Processes, pc[p] # "idle", NEW f, NEW c, Put(p, f, c),
           f \in {"payload", "envelope", "receipt"}
    PROVE  /\ \A a \in Artifacts : a # job[p].id => disk'[a] = disk[a]
           /\ \A g \in {"payload", "envelope", "receipt"} :
                 disk'[job[p].id][g] = IF g = f THEN c ELSE disk[job[p].id][g]
  <1>1. job[p].id \in Artifacts /\ disk[job[p].id] \in Disks
    BY Worker DEF TypeOK
  <1>2. disk' = [disk EXCEPT ![job[p].id][f] = c]
    BY DEF Put
  <1>3. disk'[job[p].id] = [disk[job[p].id] EXCEPT ![f] = c]
    BY <1>1, <1>2 DEF TypeOK
  <1> QED
    BY <1>1, <1>2, <1>3 DEF TypeOK, Disks

(* A call touches the artifact it was called for, and no other.            *)
LEMMA Elsewhere ==
    ASSUME TypeOK, NEW p \in Processes, Step(p), NEW a \in Artifacts,
           pc[p] = "idle" \/ job[p].id # a
    PROVE  /\ disk'[a] = disk[a] /\ committed'[a] = committed[a]
           /\ a \in damaged' <=> a \in damaged
  <1>1. CASE pc[p] = "idle"
    BY <1>1 DEF Step, Persist, Snapshot, CheckPayload, WritePayload, WriteEnvelope,
       RemovePayload, OpenStore, WriteReceipt, Restore, Crash, Reading, Undoing
  <1>2. CASE pc[p] # "idle"
    <2>1. job[p].id \in Artifacts /\ job[p].id # a
      BY <1>2, Worker
    <2>2. UNCHANGED disk
          \/ \E f \in {"payload", "envelope", "receipt"} : \E c : Put(p, f, c)
      <3>1. pc[p] \in Undoing => FieldOf[pc[p]] \in {"payload", "envelope", "receipt"}
        BY DEF Undoing, FieldOf
      <3> QED
        BY <3>1 DEF Step, Persist, Snapshot, CheckPayload, WritePayload, WriteEnvelope,
           RemovePayload, OpenStore, WriteReceipt, Restore, Crash, PutFails
    <2>3. disk'[a] = disk[a]
      BY <1>2, <2>1, <2>2, PutChange
    <2>4. UNCHANGED committed
          \/ committed' = [committed EXCEPT ![job[p].id] = disk'[job[p].id]]
      BY DEF Step, Persist, Snapshot, CheckPayload, WritePayload, WriteEnvelope,
         RemovePayload, OpenStore, WriteReceipt, Restore, Crash, Answer
    <2>5. damaged' \in {damaged, damaged \cup {job[p].id}, damaged \ {job[p].id}}
      <3>1. \A D : damaged \cup ({job[p].id} \cap D) \in {damaged, damaged \cup {job[p].id}}
        OBVIOUS
      <3> QED
        BY <3>1 DEF Step, Persist, Snapshot, CheckPayload, WritePayload, WriteEnvelope,
           RemovePayload, OpenStore, WriteReceipt, Restore, Crash, Answer, PutFails
    <2> QED
      BY <2>1, <2>3, <2>4, <2>5 DEF TypeOK
  <1> QED
    BY <1>1, <1>2

(* So a step of a call keeps the invariant when the call goes on as it     *)
(* should, or ends with its artifact as the last answer left it.           *)
LEMMA UndoFrame ==
    ASSUME UndoInv, OneWriter, NEW p \in Processes, Step(p), pc[p] # "idle",
           \/ pc'[p] # "idle" /\ job'[p] = job[p] /\ Progressing(p)'
           \/ /\ pc'[p] = "idle"
              /\ job[p].id \notin damaged' => disk'[job[p].id] = committed'[job[p].id]
    PROVE  UndoInv'
  <1>1. TypeOK /\ TypeOK'
    BY StepType DEF UndoInv
  <1>2. \A q \in Processes : q = p
    BY DEF OneWriter
  <1>3. ASSUME NEW a \in Artifacts, a \notin damaged', job'[p].id # a
        PROVE  disk'[a] = committed'[a]
    <2>1. CASE job[p].id = a
      BY <1>3, <2>1
    <2>2. CASE job[p].id # a
      BY <1>1, <1>2, <1>3, <2>2, Elsewhere DEF UndoInv, AllOrNothing
    <2> QED
      BY <2>1, <2>2
  <1>4. AllOrNothing'
    BY <1>2, <1>3 DEF AllOrNothing
  <1> QED
    BY <1>1, <1>2, <1>4 DEF UndoInv

LEMMA GotoHere ==
    ASSUME TypeOK, NEW p \in Processes, NEW label, Goto(p, label)
    PROVE  /\ pc'[p] = label /\ job'[p] = job[p] /\ before'[p] = before[p]
           /\ existed'[p] = existed[p]
  BY DEF Goto, TypeOK

LEMMA ReturnHere ==
    ASSUME TypeOK, NEW p \in Processes, Return(p)
    PROVE  pc'[p] = "idle"
  BY DEF Return, TypeOK

\* What the steps of calls that change no file leave as it is.
LEMMA UndoRests ==
    ASSUME UndoInv, OneWriter, NEW p \in Processes, pc[p] # "idle", Step(p),
           UNCHANGED <<disk, committed, damaged>>,
           \/ /\ pc'[p] # "idle" /\ job'[p] = job[p] /\ Progressing(p)'
           \/ /\ pc'[p] = "idle"
              /\ job[p].id \notin damaged => disk[job[p].id] = committed[job[p].id]
    PROVE  UndoInv'
  BY UndoFrame

LEMMA UndoPersist ==
    ASSUME UndoInv, OneWriter, NEW p \in Processes, NEW j \in Jobs, Persist(p, j)
    PROVE  UndoInv'
  <1>1. TypeOK /\ TypeOK'
    BY StepType DEF UndoInv, Step
  <1>2. /\ pc[p] = "idle" /\ j.id \in Artifacts /\ j.id # None
        /\ pc'[p] = IF j.id \in Activations THEN "readPayload" ELSE "check"
        /\ job'[p] = j /\ UNCHANGED <<disk, committed, damaged, before, existed>>
    BY <1>1, JobFacts, ContractAssumption DEF Persist, TypeOK, Artifacts
  <1>3. \A q \in Processes : q = p
    BY DEF OneWriter
  <1>4. job[p].id = None
    BY <1>1, <1>2 DEF TypeOK, NoJob
  <1>5. j.id \notin damaged => disk[j.id] = committed[j.id]
    BY <1>2, <1>3, <1>4 DEF UndoInv, AllOrNothing
  <1>6. Progressing(p)'
    BY <1>2, <1>5 DEF Progressing, Recoverable, Activating, Proposing, Reading
  <1>7. AllOrNothing'
    <2> SUFFICES ASSUME NEW a \in Artifacts, a \notin damaged', job'[p].id # a
                 PROVE  disk'[a] = committed'[a]
      BY <1>3 DEF AllOrNothing
    <2> QED
      BY <1>2, <1>3, <1>4, ContractAssumption DEF UndoInv, AllOrNothing, Artifacts
  <1> QED
    BY <1>1, <1>3, <1>6, <1>7 DEF UndoInv

LEMMA UndoSnapshot ==
    ASSUME UndoInv, OneWriter, NEW p \in Processes, Snapshot(p)
    PROVE  UndoInv'
  <1>1. TypeOK /\ Step(p) /\ pc[p] \in Reading /\ pc[p] # "idle" /\ Progressing(p)
        /\ UNCHANGED <<disk, committed, damaged>>
    BY DEF UndoInv, Step, Snapshot, Reading
  <1>2. Activating(p)
    BY <1>1 DEF Progressing, Proposing, Reading
  <1>3. CASE Return(p)
    BY <1>1, <1>3, ReturnHere, UndoRests DEF Progressing, Recoverable
  <1>4. CASE /\ pc' = [pc EXCEPT ![p] = NextRead[@]]
             /\ before' = [before EXCEPT ![p][FieldOf[pc[p]]] =
                              disk[job[p].id][FieldOf[pc[p]]]]
             /\ UNCHANGED <<job, existed, faults>>
    <2> DEFINE a == job[p].id
               f == FieldOf[pc[p]]
    <2>1. /\ pc'[p] = NextRead[pc[p]] /\ job'[p] = job[p]
          /\ before'[p] = [before[p] EXCEPT ![f] = disk[a][f]]
          /\ before[p] \in Disks /\ disk[a] \in Disks
      BY <1>1, <1>4, Worker DEF TypeOK
    <2>2. CASE pc[p] = "readPayload"
      BY <1>1, <1>2, <2>1, <2>2, UndoRests
         DEF Progressing, Recoverable, Activating, NextRead, FieldOf, Disks, Reading
    <2>3. CASE pc[p] = "readEnvelope"
      BY <1>1, <1>2, <2>1, <2>3, UndoRests
         DEF Progressing, Recoverable, Activating, NextRead, FieldOf, Disks, Reading
    <2>4. CASE pc[p] = "readReceipt"
      <3>1. /\ before'[p] \in Disks /\ pc'[p] = "check"
            /\ before'[p].receipt = disk[a].receipt
            /\ before'[p].payload = before[p].payload
            /\ before'[p].envelope = before[p].envelope
        <4>1. f = "receipt" /\ pc'[p] = "check"
          BY <2>1, <2>4 DEF NextRead, FieldOf
        <4>2. before'[p] = [before[p] EXCEPT !.receipt = disk[a].receipt]
          BY <2>1, <4>1
        <4>3. disk[a].receipt \in Statements \cup {None, Torn}
          BY <2>1 DEF Disks
        <4> QED
          <5> HIDE DEF f
          <5>1. before[p] \in Disks
            BY <2>1
          <5> QED
            BY <4>1, <4>2, <4>3, <5>1, SetReceipt
      <3>2. a \notin damaged => before'[p] = committed[a]
        <4> SUFFICES ASSUME a \notin damaged
                     PROVE  before'[p] = committed[a]
          OBVIOUS
        <4>1. /\ before[p].payload = committed[a].payload
              /\ before[p].envelope = committed[a].envelope
              /\ disk[a] = committed[a]
          BY <1>1, <2>4 DEF Progressing, Recoverable
        <4> HIDE DEF a, f
        <4>2. committed[a] \in Disks
          BY <2>1, <4>1
        <4> QED
          BY <3>1, <4>1, <4>2, SameFiles DEF SameButPayload
      <3>3. Progressing(p)'
        BY <1>1, <1>2, <2>1, <2>4, <3>1, <3>2
           DEF Progressing, Recoverable, Activating, Reading
      <3> QED
        BY <1>1, <2>1, <3>1, <3>3, UndoRests
    <2> QED
      BY <1>1, <2>2, <2>3, <2>4 DEF Reading
  <1> QED
    BY <1>3, <1>4 DEF Snapshot

(* A call that fails before it has changed a file, or after: an activation *)
(* knows what to restore, a proposal must be as it was by now.             *)
LEMMA UndoFail ==
    ASSUME UndoInv, OneWriter, NEW p \in Processes, pc[p] # "idle", Step(p), Fail(p),
           UNCHANGED committed,
           job[p].id \in damaged => job[p].id \in damaged',
           Activating(p) => pc[p] \notin Reading,
           ~ Activating(p) /\ job[p].id \notin damaged'
              => disk'[job[p].id] = committed[job[p].id]
    PROVE  UndoInv'
  <1>1. TypeOK /\ Progressing(p)
    BY DEF UndoInv
  <1>2. CASE Activating(p)
    <2>1. /\ pc'[p] = "restorePayload" /\ job'[p] = job[p] /\ before'[p] = before[p]
      BY <1>1, <1>2, GotoHere DEF Fail
    <2>2. Progressing(p)'
      BY <1>1, <1>2, <2>1 DEF Progressing, Recoverable, Activating, Reading
    <2> QED
      BY <2>1, <2>2, UndoFrame
  <1>3. CASE ~ Activating(p)
    BY <1>1, <1>3, ReturnHere, UndoFrame DEF Fail
  <1> QED
    BY <1>2, <1>3

LEMMA UndoCheck ==
    ASSUME UndoInv, OneWriter, NEW p \in Processes, CheckPayload(p)
    PROVE  UndoInv'
  <1> DEFINE a == job[p].id
             found == disk[a].payload
  <1>1. /\ TypeOK /\ Step(p) /\ pc[p] = "check" /\ Progressing(p)
        /\ UNCHANGED <<disk, committed, damaged>>
    BY DEF UndoInv, Step, CheckPayload
  <1>2. CASE Fail(p)
    BY <1>1, <1>2, UndoFail DEF Progressing, Recoverable, Reading
  <1>3. CASE /\ found \in {None, job[p].says.bytes}
             /\ pc' = [pc EXCEPT ![p] = "writePayload"]
             /\ existed' = [existed EXCEPT ![p] = found # None]
             /\ UNCHANGED <<job, before, faults>>
    <2>1. /\ pc'[p] = "writePayload" /\ job'[p] = job[p] /\ before'[p] = before[p]
          /\ existed'[p] = (found # None)
      BY <1>1, <1>3 DEF TypeOK
    <2>2. found = IF existed'[p] THEN job[p].says.bytes ELSE None
      BY <1>3, <2>1
    <2>3. Progressing(p)'
      BY <1>1, <2>1, <2>2 DEF Progressing, Recoverable, Activating, Proposing, Reading
    <2> QED
      BY <1>1, <2>1, <2>3, UndoRests
  <1> QED
    BY <1>2, <1>3 DEF CheckPayload

LEMMA UndoWritePayload ==
    ASSUME UndoInv, OneWriter, NEW p \in Processes, WritePayload(p)
    PROVE  UndoInv'
  <1> DEFINE a == job[p].id
  <1>1. /\ TypeOK /\ Step(p) /\ pc[p] = "writePayload" /\ Progressing(p)
        /\ UNCHANGED committed
    BY DEF UndoInv, Step, WritePayload
  <1>2. CASE /\ Put(p, "payload", job[p].says.bytes)
             /\ Goto(p, "writeEnvelope") /\ UNCHANGED <<damaged, faults>>
    <2>1. /\ pc'[p] = "writeEnvelope" /\ job'[p] = job[p] /\ before'[p] = before[p]
          /\ existed'[p] = existed[p]
      BY <1>1, <1>2, GotoHere
    <2>2. /\ disk'[a].payload = job[p].says.bytes
          /\ disk'[a].envelope = disk[a].envelope /\ disk'[a].receipt = disk[a].receipt
      BY <1>1, <1>2, PutChange
    <2>3. Progressing(p)'
      BY <1>1, <1>2, <2>1, <2>2
         DEF Progressing, Recoverable, Activating, Proposing, Reading, SameButPayload
    <2> QED
      BY <1>1, <2>1, <2>3, UndoFrame
  <1>3. CASE PutFails(p, "payload", job[p].says.bytes) /\ Fail(p)
    <2>1. /\ a \in damaged => a \in damaged'
          /\ ~ Activating(p) /\ a \notin damaged' => UNCHANGED disk /\ a \notin damaged
      BY <1>1, <1>3, Worker DEF PutFails, Activating, Artifacts
    <2> QED
      BY <1>1, <1>3, <2>1, UndoFail DEF Progressing, Recoverable, Reading
  <1> QED
    BY <1>2, <1>3 DEF WritePayload

LEMMA UndoWriteEnvelope ==
    ASSUME UndoInv, OneWriter, NEW p \in Processes, WriteEnvelope(p)
    PROVE  UndoInv'
  <1> DEFINE a == job[p].id
  <1>1. TypeOK /\ Step(p) /\ pc[p] = "writeEnvelope" /\ Progressing(p) /\ a \in Artifacts
    BY Worker DEF UndoInv, Step, WriteEnvelope
  <1>2. CASE Answer(p)
    <2>1. pc'[p] = "idle" /\ committed'[a] = disk'[a]
      BY <1>1, <1>2, ReturnHere DEF Answer, TypeOK
    <2> QED
      BY <1>1, <2>1, UndoFrame
  <1>3. CASE /\ Activating(p) /\ Goto(p, "openStore")
             /\ UNCHANGED <<committed, damaged>>
    <2>1. /\ pc'[p] = "openStore" /\ job'[p] = job[p] /\ before'[p] = before[p]
      BY <1>1, <1>3, GotoHere
    <2>2. Progressing(p)'
      BY <1>1, <1>3, <2>1 DEF Progressing, Recoverable, Activating, Reading
    <2> QED
      BY <1>1, <2>1, <2>2, UndoFrame
  <1>4. CASE /\ PutFails(p, "envelope", job[p].says) /\ UNCHANGED committed
             /\ IF existed[p] THEN Fail(p) ELSE Goto(p, "removePayload")
    <2>1. /\ a \in damaged => a \in damaged'
          /\ ~ Activating(p) /\ a \notin damaged' => UNCHANGED disk /\ a \notin damaged
      BY <1>1, <1>4, Worker DEF PutFails, Activating, Artifacts
    <2>2. CASE existed[p]
      <3>1. ~ Activating(p) /\ a \notin damaged' => disk'[a] = committed[a]
        <4> SUFFICES ASSUME ~ Activating(p), a \notin damaged'
                     PROVE  disk'[a] = committed[a]
          OBVIOUS
        <4>1. /\ disk[a].payload = committed[a].payload
              /\ SameButPayload(disk[a], committed[a])
          BY <1>1, <2>1, <2>2 DEF Progressing, Recoverable
        <4> QED
          BY <1>1, <2>1, <4>1, SameFiles DEF TypeOK
      <3> QED
        BY <1>1, <1>4, <2>1, <2>2, <3>1, UndoFail DEF Reading
    <2>3. CASE ~ existed[p]
      <3>1. /\ pc'[p] = "removePayload" /\ job'[p] = job[p] /\ before'[p] = before[p]
            /\ existed'[p] = existed[p]
        BY <1>1, <1>4, <2>3, GotoHere
      <3>2. Progressing(p)'
        BY <1>1, <1>4, <2>1, <2>3, <3>1
           DEF Progressing, Recoverable, Activating, Proposing, Reading
      <3> QED
        BY <1>1, <3>1, <3>2, UndoFrame
    <2> QED
      BY <2>2, <2>3
  <1> QED
    BY <1>2, <1>3, <1>4 DEF WriteEnvelope

LEMMA UndoRemovePayload ==
    ASSUME UndoInv, OneWriter, NEW p \in Processes, RemovePayload(p)
    PROVE  UndoInv'
  <1> DEFINE a == job[p].id
  <1>1. /\ TypeOK /\ TypeOK' /\ Step(p) /\ pc[p] = "removePayload" /\ Progressing(p)
        /\ Fail(p) /\ a \in Artifacts /\ UNCHANGED committed
    BY Worker, StepType DEF UndoInv, Step, RemovePayload
  <1>2. /\ a \in damaged => a \in damaged'
        /\ ~ Activating(p) /\ a \notin damaged' =>
              a \notin damaged /\ Put(p, "payload", None)
    BY <1>1 DEF RemovePayload, Activating, Artifacts
  <1>3. ~ Activating(p) /\ a \notin damaged' => disk'[a] = committed[a]
    <2> SUFFICES ASSUME ~ Activating(p), a \notin damaged'
                 PROVE  disk'[a] = committed[a]
      OBVIOUS
    <2>1. /\ disk'[a].payload = None
          /\ disk'[a].envelope = disk[a].envelope /\ disk'[a].receipt = disk[a].receipt
      BY <1>1, <1>2, PutChange
    <2>2. committed[a].payload = None /\ SameButPayload(disk[a], committed[a])
      BY <1>1, <1>2 DEF Progressing, Recoverable
    <2> QED
      BY <1>1, <2>1, <2>2, SameFiles DEF TypeOK, SameButPayload
  <1> QED
    BY <1>1, <1>2, <1>3, UndoFail DEF Reading

LEMMA UndoOpenStore ==
    ASSUME UndoInv, OneWriter, NEW p \in Processes, OpenStore(p)
    PROVE  UndoInv'
  <1>1. /\ TypeOK /\ Step(p) /\ pc[p] = "openStore" /\ Progressing(p) /\ Activating(p)
        /\ UNCHANGED <<disk, committed, damaged>>
    BY DEF UndoInv, Step, OpenStore, Progressing, Proposing
  <1>2. CASE Fail(p)
    BY <1>1, <1>2, UndoFail DEF Reading
  <1>3. CASE Goto(p, "writeReceipt")
    <2>1. pc'[p] = "writeReceipt" /\ job'[p] = job[p] /\ before'[p] = before[p]
      BY <1>1, <1>3, GotoHere
    <2>2. Progressing(p)'
      BY <1>1, <2>1 DEF Progressing, Recoverable, Activating, Reading
    <2> QED
      BY <1>1, <2>1, <2>2, UndoRests
  <1> QED
    BY <1>2, <1>3 DEF OpenStore

LEMMA UndoWriteReceipt ==
    ASSUME UndoInv, OneWriter, NEW p \in Processes, WriteReceipt(p)
    PROVE  UndoInv'
  <1> DEFINE a == job[p].id
  <1>1. /\ TypeOK /\ Step(p) /\ pc[p] = "writeReceipt" /\ Progressing(p)
        /\ a \in Artifacts /\ Activating(p)
    BY Worker DEF UndoInv, Step, WriteReceipt, Progressing, Proposing
  <1>2. CASE Answer(p)
    <2>1. pc'[p] = "idle" /\ committed'[a] = disk'[a]
      BY <1>1, <1>2, ReturnHere DEF Answer, TypeOK
    <2> QED
      BY <1>1, <2>1, UndoFrame
  <1>3. CASE /\ PutFails(p, "receipt", job[p].says) /\ Fail(p) /\ UNCHANGED committed
    <2>1. a \in damaged => a \in damaged'
      BY <1>1, <1>3 DEF PutFails
    <2> QED
      BY <1>1, <1>3, <2>1, UndoFail DEF Reading
  <1> QED
    BY <1>2, <1>3 DEF WriteReceipt

LEMMA UndoRestore ==
    ASSUME UndoInv, OneWriter, NEW p \in Processes, Restore(p)
    PROVE  UndoInv'
  <1> DEFINE a == job[p].id
             f == FieldOf[pc[p]]
  <1>1. /\ TypeOK /\ TypeOK' /\ Step(p) /\ pc[p] \in Undoing /\ pc[p] # "idle"
        /\ Progressing(p) /\ a \in Artifacts /\ Activating(p) /\ UNCHANGED committed
    BY Worker, StepType DEF UndoInv, Step, Restore, Progressing, Proposing, Undoing
  <1>2. f \in {"payload", "envelope", "receipt"}
    BY <1>1 DEF FieldOf, Undoing
  <1>3. /\ a \in damaged => a \in damaged'
        /\ a \notin damaged' => a \notin damaged /\ Put(p, f, before[p][f])
    BY <1>1 DEF Restore
  <1>4. a \notin damaged' =>
           /\ before[p] = committed[a] /\ Recoverable(p)
           /\ \A g \in {"payload", "envelope", "receipt"} :
                 disk'[a][g] = IF g = f THEN committed[a][g] ELSE disk[a][g]
    BY <1>1, <1>2, <1>3, PutChange DEF Progressing, Recoverable, Undoing, Reading
  <1>5. CASE pc[p] = "restorePayload" /\ Goto(p, "restoreEnvelope")
    <2>1. pc'[p] = "restoreEnvelope" /\ job'[p] = job[p] /\ before'[p] = before[p]
      BY <1>1, <1>5, GotoHere
    <2>2. a \notin damaged' => disk'[a].payload = committed[a].payload
      BY <1>4, <1>5 DEF FieldOf
    <2>3. Progressing(p)'
      BY <1>1, <1>4, <2>1, <2>2 DEF Progressing, Recoverable, Activating, Reading
    <2> QED
      BY <1>1, <2>1, <2>3, UndoFrame
  <1>6. CASE pc[p] = "restoreEnvelope" /\ Goto(p, "restoreReceipt")
    <2>1. pc'[p] = "restoreReceipt" /\ job'[p] = job[p] /\ before'[p] = before[p]
      BY <1>1, <1>6, GotoHere
    <2>2. a \notin damaged' => /\ disk'[a].payload = committed[a].payload
                               /\ disk'[a].envelope = committed[a].envelope
      BY <1>4, <1>6 DEF FieldOf, Recoverable
    <2>3. Progressing(p)'
      BY <1>1, <1>4, <2>1, <2>2 DEF Progressing, Recoverable, Activating, Reading
    <2> QED
      BY <1>1, <2>1, <2>3, UndoFrame
  <1>7. CASE pc[p] = "restoreReceipt" /\ Return(p)
    <2>1. a \notin damaged' => disk'[a] = committed[a]
      <3> SUFFICES ASSUME a \notin damaged' PROVE disk'[a] = committed[a]
        OBVIOUS
      <3>1. /\ disk'[a].payload = committed[a].payload
            /\ disk'[a].envelope = committed[a].envelope
            /\ disk'[a].receipt = committed[a].receipt
        BY <1>4, <1>7 DEF FieldOf, Recoverable
      <3> QED
        BY <1>1, <3>1, SameFiles DEF TypeOK, SameButPayload
    <2> QED
      BY <1>1, <1>7, <2>1, ReturnHere, UndoFrame
  <1> QED
    BY <1>1, <1>5, <1>6, <1>7 DEF Restore, Undoing

LEMMA UndoCrash ==
    ASSUME UndoInv, OneWriter, NEW p \in Processes, Crash(p)
    PROVE  UndoInv'
  <1> DEFINE a == job[p].id
  <1>1. /\ TypeOK /\ Step(p) /\ pc[p] # "idle" /\ Progressing(p)
        /\ UNCHANGED committed /\ pc'[p] = "idle"
    BY ReturnHere DEF UndoInv, Step, Crash
  <1>2. a \notin damaged' => /\ pc[p] \in Reading \cup {"check", "writePayload"}
                             /\ a \notin damaged
    BY <1>1 DEF Crash
  <1>3. pc[p] \in Reading \cup {"check", "writePayload"} => UNCHANGED disk
    BY DEF Crash, Reading, Undoing
  <1> QED
    BY <1>1, <1>2, <1>3, UndoFrame DEF Progressing, Recoverable

(* PersistProposal, PersistActivation: with one process that writes, a     *)
(* call that fails leaves no trace, unless it was killed in the middle or  *)
(* its undo or a sync failed.                                              *)
THEOREM AlwaysAllOrNothing ==
    ASSUME OneWriter
    PROVE  Spec => []AllOrNothing
  <1>1. Init => UndoInv
    <2> SUFFICES ASSUME Init PROVE UndoInv
      OBVIOUS
    <2>1. TypeOK
      BY TypeInit
    <2> QED
      BY <2>1 DEF Init, UndoInv, AllOrNothing
  <1>2. UndoInv /\ [Next]_vars => UndoInv'
    <2>1. ASSUME UndoInv, UNCHANGED vars PROVE UndoInv'
      <3>1. TypeOK'
        BY <2>1 DEF UndoInv, TypeOK, vars, writers
      <3> QED
        BY <2>1, <3>1 DEF UndoInv, AllOrNothing, Progressing, Recoverable, Activating,
           SameButPayload, vars, writers
    <2>2. ASSUME UndoInv, Load PROVE UndoInv'
      <3>1. TypeOK' /\ UNCHANGED <<disk, pc, job, before, existed, committed, damaged>>
        BY <2>2, LoadType DEF UndoInv, Load, writers
      <3> QED
        BY <2>2, <3>1 DEF UndoInv, AllOrNothing, Progressing, Recoverable, Activating,
           SameButPayload
    <2>3. ASSUME UndoInv, NEW p \in Processes, Step(p) PROVE UndoInv'
      BY <2>3, UndoPersist, UndoSnapshot, UndoCheck, UndoWritePayload, UndoWriteEnvelope,
         UndoRemovePayload, UndoOpenStore, UndoWriteReceipt, UndoRestore, UndoCrash
         DEF Step
    <2> QED
      BY <2>1, <2>2, <2>3 DEF Next
  <1>3. UndoInv => AllOrNothing
    BY DEF UndoInv
  <1> QED
    BY <1>1, <1>2, <1>3, PTL DEF Spec

-----------------------------------------------------------------------------
(* With one process that writes, a load that succeeds is complete.         *)

KeptFiles(found, files) ==
    found.payload \in {files.payload, Torn} /\ found.envelope # None

KeptCall(p, files) ==
    /\ pc[p] # "removePayload"
    /\ pc[p] \in Writing \cup {"openStore"} => job[p].says.bytes = files.payload
    /\ pc[p] \in {"writePayload", "writeEnvelope"} => existed[p]
    /\ Activating(p) /\ pc[p] # "readPayload" =>
          before[p].payload \in {files.payload, Torn}
    /\ Activating(p) /\ pc[p] \notin {"readPayload", "readEnvelope"} =>
          before[p].envelope # None

(* What holds of an artifact and of a call on it, for files it once had:   *)
(* the payload keeps its bytes, or is being restored, and there is an      *)
(* envelope; a call that may write has these bytes and found them, and one *)
(* that may restore would restore no less.                                 *)
Kept(a, files) ==
    files # NoFiles =>
        /\ files.payload \in Bytes
        /\ KeptFiles(disk[a], files)
        /\ \A p \in Processes : job[p].id = a => KeptCall(p, files)

\* How far a call has come, in the files it has written.
Written(p) ==
    /\ ~ Activating(p) => pc[p] \in Proposing
    /\ pc[p] \in {"writeEnvelope", "openStore", "writeReceipt"} =>
          disk[job[p].id].payload = job[p].says.bytes
    /\ pc[p] \in {"openStore", "writeReceipt"} => disk[job[p].id].envelope = job[p].says

\* The artifacts a load was to return when it began.
Owed(a) == load.owed[a] # NoFiles

Returned(a) == \E item \in load.out : item.id = a /\ item.says.bytes = load.owed[a].payload

(* Where a load has an artifact that it owes: in the directory it has not  *)
(* listed, among what it has listed, in its hands, or among what it        *)
(* returns.                                                                *)
Accounted(a) ==
    /\ load.pc \in {"item", "payload", "receipt"}
       /\ (Kind(a) = load.kind \/ Kind(a) = "proposals") =>
          \/ a \in load.todo
          \/ load.pc \in {"payload", "receipt"} /\ load.item.id = a
          \/ Returned(a)
    /\ load.pc = "list" /\ load.kind = "activations" /\ Kind(a) = "proposals" => Returned(a)
    /\ load.pc = "done" => Returned(a)

LoadInv ==
    /\ \A a \in Artifacts : Owed(a) => Accounted(a)
    /\ load.pc = "receipt" /\ Owed(load.item.id) =>
          load.item.says.bytes = load.owed[load.item.id].payload

CompleteInv ==
    /\ TypeOK
    /\ \A p \in Processes : pc[p] # "idle" => Written(p)
    /\ \A a \in Artifacts : Kept(a, committed[a]) /\ Kept(a, load.owed[a])
    /\ LoadInv

(* A call goes on with its job until it returns.                           *)
LEMMA SameJob ==
    ASSUME TypeOK, NEW p \in Processes, Step(p), pc[p] # "idle"
    PROVE  IF pc'[p] = "idle" THEN job'[p].id = None ELSE job'[p] = job[p]
  <1>1. TypeOK'
    BY StepType
  <1>2. pc'[p] = "idle" => job'[p] = NoJob
    BY <1>1 DEF TypeOK
  <1>3. job'[p] \in {NoJob, job[p]}
    <2>1. \/ Return(p) \/ UNCHANGED job
      BY DEF Step, Persist, Snapshot, CheckPayload, WritePayload, WriteEnvelope,
         RemovePayload, OpenStore, WriteReceipt, Restore, Crash, Answer, Fail, Goto, Undoing
    <2> QED
      BY <2>1 DEF TypeOK, Goto, Return
  <1>4. pc'[p] # "idle" => job'[p] # NoJob
    BY <1>1 DEF TypeOK
  <1> QED
    BY <1>2, <1>3, <1>4 DEF NoJob

(* So the files that were there are kept by a step on them that leaves     *)
(* them there, and the call, when it goes on, as it was.                   *)
LEMMA KeptFrame ==
    ASSUME TypeOK, OneWriter, NEW p \in Processes, Step(p), pc[p] # "idle",
           NEW a \in Artifacts, NEW files, Kept(a, files),
           files # NoFiles /\ files.payload \in Bytes /\ KeptFiles(disk[a], files)
           /\ job[p].id = a /\ KeptCall(p, files)
           => /\ KeptFiles(disk'[a], files)
              /\ pc'[p] # "idle" /\ job'[p] = job[p] => KeptCall(p, files)'
    PROVE  Kept(a, files)'
  <1>1. \A q \in Processes : q = p
    BY DEF OneWriter
  <1>2. a # None
    BY ContractAssumption DEF Artifacts
  <1> SUFFICES ASSUME files # NoFiles
               PROVE  Kept(a, files)'
    BY DEF Kept
  <1>3. /\ files.payload \in Bytes /\ KeptFiles(disk[a], files)
        /\ job[p].id = a => KeptCall(p, files)
    BY DEF Kept
  <1>4. CASE job[p].id = a
    <2>1. KeptFiles(disk'[a], files)
      BY <1>3, <1>4
    <2>2. job'[p].id = a => KeptCall(p, files)'
      BY <1>2, <1>3, <1>4, SameJob
    <2> QED
      BY <1>1, <1>3, <2>1, <2>2 DEF Kept
  <1>5. CASE job[p].id # a
    <2>1. job'[p].id # a
      BY <1>2, <1>5, SameJob
    <2>2. KeptFiles(disk'[a], files)
      BY <1>3, <1>5, Elsewhere
    <2> QED
      BY <1>1, <1>3, <2>1, <2>2 DEF Kept
  <1> QED
    BY <1>4, <1>5

LEMMA KeptPersist ==
    ASSUME TypeOK, OneWriter, NEW p \in Processes, NEW j \in Jobs, Persist(p, j),
           NEW a \in Artifacts, NEW files, Kept(a, files)
    PROVE  Kept(a, files)'
  <1>1. /\ pc'[p] = IF j.id \in Activations THEN "readPayload" ELSE "check"
        /\ job'[p] = j /\ disk' = disk
    BY DEF Persist, TypeOK
  <1>2. \A q \in Processes : q = p
    BY DEF OneWriter
  <1>3. KeptCall(p, files)'
    BY <1>1 DEF KeptCall, Activating, Writing
  <1> QED
    BY <1>1, <1>2, <1>3 DEF Kept, KeptFiles

LEMMA KeptSnapshot ==
    ASSUME TypeOK, OneWriter, NEW p \in Processes, Snapshot(p),
           NEW a \in Artifacts, NEW files, Kept(a, files)
    PROVE  Kept(a, files)'
  <1>1. Step(p) /\ pc[p] \in Reading /\ pc[p] # "idle" /\ UNCHANGED disk
    BY DEF Step, Snapshot, Reading
  <1> SUFFICES ASSUME KeptFiles(disk[a], files), job[p].id = a, KeptCall(p, files),
                      pc'[p] # "idle", job'[p] = job[p]
               PROVE  KeptCall(p, files)'
    BY <1>1, KeptFrame DEF KeptFiles
  <1>2. /\ pc'[p] = NextRead[pc[p]]
        /\ before'[p] = [before[p] EXCEPT ![FieldOf[pc[p]]] = disk[a][FieldOf[pc[p]]]]
        /\ before[p] \in Disks
    BY ReturnHere DEF Snapshot, TypeOK
  <1>3. Activating(p)' <=> Activating(p)
    BY DEF Activating
  <1> QED
    BY <1>1, <1>2, <1>3
       DEF KeptCall, KeptFiles, NextRead, FieldOf, Disks, Reading, Writing

(* A call that fails, and has read what it may have to restore, restores.  *)
LEMMA KeptFail ==
    ASSUME TypeOK, OneWriter, NEW p \in Processes, Step(p), pc[p] # "idle", Fail(p),
           pc[p] \notin Reading,
           NEW a \in Artifacts, NEW files, Kept(a, files),
           files # NoFiles /\ files.payload \in Bytes /\ KeptFiles(disk[a], files)
           /\ job[p].id = a /\ KeptCall(p, files) => KeptFiles(disk'[a], files)
    PROVE  Kept(a, files)'
  <1>1. CASE Activating(p)
    <2>1. pc'[p] = "restorePayload" /\ before'[p] = before[p]
      BY <1>1, GotoHere DEF Fail
    <2> QED
      BY <1>1, <2>1, KeptFrame DEF KeptCall, Reading, Writing
  <1>2. CASE ~ Activating(p)
    BY <1>2, ReturnHere, KeptFrame DEF Fail
  <1> QED
    BY <1>1, <1>2

LEMMA KeptCheck ==
    ASSUME TypeOK, OneWriter, NEW p \in Processes, CheckPayload(p),
           NEW a \in Artifacts, NEW files, Kept(a, files)
    PROVE  Kept(a, files)'
  <1>1. Step(p) /\ pc[p] = "check" /\ UNCHANGED disk
    BY DEF Step, CheckPayload
  <1>2. CASE Fail(p)
    BY <1>1, <1>2, KeptFail DEF Reading
  <1>3. CASE /\ disk[job[p].id].payload \in {None, job[p].says.bytes}
             /\ pc' = [pc EXCEPT ![p] = "writePayload"]
             /\ existed' = [existed EXCEPT ![p] = disk[job[p].id].payload # None]
             /\ UNCHANGED <<job, before, faults>>
    <2>1. /\ pc'[p] = "writePayload" /\ job'[p] = job[p] /\ before'[p] = before[p]
          /\ existed'[p] = (disk[job[p].id].payload # None)
      BY <1>3 DEF TypeOK
    <2> SUFFICES ASSUME files.payload \in Bytes, KeptFiles(disk[a], files), job[p].id = a,
                        KeptCall(p, files)
                 PROVE  KeptCall(p, files)'
      BY <1>1, <2>1, KeptFrame
    <2>2. job[p].says.bytes \in Bytes
      BY <1>1, Worker
    <2>3. disk[a].payload = files.payload /\ job[p].says.bytes = files.payload
          /\ disk[a].payload # None
      BY <1>3, <2>2, ContractAssumption DEF KeptFiles
    <2> QED
      BY <1>1, <2>1, <2>3 DEF KeptCall, Activating, Writing
  <1> QED
    BY <1>2, <1>3 DEF CheckPayload

LEMMA KeptWritePayload ==
    ASSUME TypeOK, OneWriter, NEW p \in Processes, WritePayload(p),
           NEW a \in Artifacts, NEW files, Kept(a, files)
    PROVE  Kept(a, files)'
  <1>1. Step(p) /\ pc[p] = "writePayload"
    BY DEF Step, WritePayload
  <1>2. ASSUME KeptFiles(disk[a], files), job[p].id = a, KeptCall(p, files),
               UNCHANGED disk \/ Put(p, "payload", job[p].says.bytes)
        PROVE  KeptFiles(disk'[a], files)
    BY <1>1, <1>2, PutChange DEF KeptFiles, KeptCall, Writing
  <1>3. CASE PutFails(p, "payload", job[p].says.bytes) /\ Fail(p)
    BY <1>1, <1>2, <1>3, KeptFail DEF PutFails, Reading
  <1>4. CASE Put(p, "payload", job[p].says.bytes) /\ Goto(p, "writeEnvelope")
    <2>1. /\ pc'[p] = "writeEnvelope" /\ job'[p] = job[p] /\ before'[p] = before[p]
          /\ existed'[p] = existed[p]
      BY <1>4, GotoHere
    <2> SUFFICES ASSUME KeptCall(p, files)
                 PROVE  KeptCall(p, files)'
      BY <1>1, <1>2, <1>4, <2>1, KeptFrame
    <2> QED
      BY <1>1, <2>1 DEF KeptCall, Activating, Writing
  <1> QED
    BY <1>3, <1>4 DEF WritePayload

LEMMA KeptWriteEnvelope ==
    ASSUME TypeOK, OneWriter, NEW p \in Processes, WriteEnvelope(p),
           NEW a \in Artifacts, NEW files, Kept(a, files)
    PROVE  Kept(a, files)'
  <1>1. Step(p) /\ pc[p] = "writeEnvelope"
    BY DEF Step, WriteEnvelope
  <1>2. job[p].says # None
    BY <1>1, Worker, ContractAssumption DEF TypeOK
  <1>3. ASSUME KeptFiles(disk[a], files), job[p].id = a,
               UNCHANGED disk \/ Put(p, "envelope", job[p].says)
        PROVE  KeptFiles(disk'[a], files)
    BY <1>1, <1>2, <1>3, PutChange DEF KeptFiles
  <1>4. CASE Put(p, "envelope", job[p].says) /\ Answer(p)
    BY <1>1, <1>3, <1>4, ReturnHere, KeptFrame DEF Answer
  <1>5. CASE Put(p, "envelope", job[p].says) /\ Goto(p, "openStore")
    <2>1. /\ pc'[p] = "openStore" /\ job'[p] = job[p] /\ before'[p] = before[p]
      BY <1>5, GotoHere
    <2> SUFFICES ASSUME KeptCall(p, files)
                 PROVE  KeptCall(p, files)'
      BY <1>1, <1>3, <1>5, <2>1, KeptFrame
    <2> QED
      BY <1>1, <2>1 DEF KeptCall, Activating, Writing
  <1>6. CASE /\ PutFails(p, "envelope", job[p].says)
             /\ IF existed[p] THEN Fail(p) ELSE Goto(p, "removePayload")
    <2>1. CASE existed[p]
      BY <1>1, <1>3, <1>6, <2>1, KeptFail DEF PutFails, Reading
    <2>2. CASE ~ existed[p]
      <3>1. job[p].id = a => ~ KeptCall(p, files)
        BY <1>1, <2>2 DEF KeptCall
      <3> QED
        BY <1>1, <3>1, KeptFrame
    <2> QED
      BY <2>1, <2>2
  <1> QED
    BY <1>4, <1>5, <1>6 DEF WriteEnvelope

LEMMA KeptRestore ==
    ASSUME TypeOK, OneWriter, NEW p \in Processes, Restore(p), Activating(p),
           NEW a \in Artifacts, NEW files, Kept(a, files)
    PROVE  Kept(a, files)'
  <1> DEFINE f == FieldOf[pc[p]]
  <1>1. Step(p) /\ pc[p] \in Undoing /\ pc[p] # "idle"
    BY DEF Step, Restore, Undoing
  <1>2. f \in {"payload", "envelope", "receipt"}
    BY <1>1 DEF FieldOf, Undoing
  <1>3. UNCHANGED disk \/ Put(p, f, Torn) \/ Put(p, f, before[p][f])
    BY DEF Restore
  <1>4. ASSUME KeptFiles(disk[a], files), job[p].id = a, KeptCall(p, files)
        PROVE  KeptFiles(disk'[a], files)
    <2>1. before[p].payload \in {files.payload, Torn} /\ before[p].envelope # None
      BY <1>1, <1>4 DEF KeptCall, Undoing
    <2>2. Torn # None
      BY ContractAssumption
    <2>3. CASE UNCHANGED disk
      BY <1>4, <2>3
    <2>4. CASE Put(p, f, Torn)
      BY <1>1, <1>4, <1>2, <2>2, <2>4, PutChange DEF KeptFiles
    <2>5. CASE Put(p, f, before[p][f])
      BY <1>1, <1>4, <1>2, <2>1, <2>5, PutChange DEF KeptFiles
    <2> QED
      BY <1>3, <2>3, <2>4, <2>5
  <1>5. CASE Return(p)
    BY <1>1, <1>4, <1>5, ReturnHere, KeptFrame
  <1>6. ASSUME NEW label \in {"restoreEnvelope", "restoreReceipt"}, Goto(p, label)
        PROVE  Kept(a, files)'
    <2>1. pc'[p] = label /\ before'[p] = before[p]
      BY <1>6, GotoHere
    <2> QED
      BY <1>1, <1>4, <2>1, KeptFrame DEF KeptCall, Activating, Writing, Undoing
  <1> QED
    BY <1>5, <1>6 DEF Restore, Undoing

LEMMA KeptCrash ==
    ASSUME TypeOK, OneWriter, NEW p \in Processes, Crash(p),
           NEW a \in Artifacts, NEW files, Kept(a, files)
    PROVE  Kept(a, files)'
  <1>1. Step(p) /\ pc[p] # "idle" /\ pc'[p] = "idle"
    BY ReturnHere DEF Step, Crash
  <1>2. UNCHANGED disk \/ \E f \in {"payload", "envelope", "receipt"} : Put(p, f, Torn)
    <2>1. pc[p] \in Undoing => FieldOf[pc[p]] \in {"payload", "envelope", "receipt"}
      BY DEF Undoing, FieldOf
    <2> QED
      BY <2>1 DEF Crash
  <1>3. ASSUME KeptFiles(disk[a], files), job[p].id = a
        PROVE  KeptFiles(disk'[a], files)
    BY <1>1, <1>2, <1>3, PutChange, ContractAssumption DEF KeptFiles
  <1> QED
    BY <1>1, <1>3, KeptFrame

(* Whatever a call does, the files an artifact once had are kept.          *)
LEMMA KeptStep ==
    ASSUME TypeOK, OneWriter, NEW p \in Processes, Step(p), pc[p] # "idle" => Written(p),
           NEW a \in Artifacts, NEW files, Kept(a, files)
    PROVE  Kept(a, files)'
  <1>1. CASE RemovePayload(p)
    <2>1. pc[p] = "removePayload"
      BY <1>1 DEF RemovePayload
    <2> QED
      BY <2>1, KeptFrame DEF KeptCall
  <1>2. CASE OpenStore(p)
    <2>1. pc[p] = "openStore" /\ UNCHANGED disk
      BY <1>2 DEF OpenStore
    <2>2. CASE Goto(p, "writeReceipt")
      <3>1. pc'[p] = "writeReceipt" /\ before'[p] = before[p]
        BY <2>2, GotoHere
      <3> QED
        BY <2>1, <3>1, KeptFrame DEF KeptCall, Activating, Writing
    <2> QED
      BY <1>2, <2>1, <2>2, KeptFail DEF OpenStore, Reading
  <1>3. CASE WriteReceipt(p)
    <2>1. /\ pc[p] = "writeReceipt"
          /\ UNCHANGED disk \/ Put(p, "receipt", job[p].says)
      BY <1>3 DEF WriteReceipt, PutFails
    <2>2. ASSUME KeptFiles(disk[a], files), job[p].id = a
          PROVE  KeptFiles(disk'[a], files)
      BY <2>1, <2>2, PutChange DEF KeptFiles
    <2>3. CASE Return(p)
      BY <2>1, <2>2, <2>3, ReturnHere, KeptFrame
    <2>4. CASE Fail(p)
      BY <2>1, <2>2, <2>4, KeptFail DEF Reading
    <2> QED
      BY <1>3, <2>3, <2>4 DEF WriteReceipt, Answer
  <1>4. CASE Restore(p)
    <2>1. Activating(p)
      BY <1>4 DEF Restore, Written, Proposing, Undoing
    <2> QED
      BY <1>4, <2>1, KeptRestore
  <1> QED
    BY <1>1, <1>2, <1>3, <1>4, KeptPersist, KeptSnapshot, KeptCheck, KeptWritePayload,
       KeptWriteEnvelope, KeptCrash DEF Step

LEMMA WrittenStep ==
    ASSUME TypeOK, OneWriter, NEW p \in Processes, Step(p), pc[p] # "idle" => Written(p),
           pc'[p] # "idle"
    PROVE  Written(p)'
  <1>1. ASSUME pc[p] # "idle", Fail(p)
        PROVE  Written(p)'
    <2>1. Activating(p) /\ Goto(p, "restorePayload")
      BY <1>1, ReturnHere DEF Fail
    <2>2. pc'[p] = "restorePayload" /\ job'[p] = job[p]
      BY <2>1, GotoHere
    <2> QED
      BY <2>1, <2>2 DEF Written, Activating
  <1>2. ASSUME NEW j \in Jobs, Persist(p, j)
        PROVE  Written(p)'
    <2>1. /\ pc'[p] = IF j.id \in Activations THEN "readPayload" ELSE "check"
          /\ job'[p] = j
      BY <1>2 DEF Persist, TypeOK
    <2> QED
      BY <2>1 DEF Written, Activating, Proposing
  <1>3. CASE Snapshot(p)
    <2>1. pc[p] \in Reading /\ Activating(p)
      BY <1>3 DEF Snapshot, Written, Proposing, Reading
    <2>2. pc'[p] = NextRead[pc[p]] /\ job'[p] = job[p]
      BY <1>3, ReturnHere DEF Snapshot, TypeOK
    <2> QED
      BY <2>1, <2>2 DEF Written, Activating, NextRead, Reading
  <1>4. CASE CheckPayload(p)
    <2>1. CASE pc' = [pc EXCEPT ![p] = "writePayload"] /\ UNCHANGED job
      BY <2>1 DEF Written, Proposing, TypeOK
    <2> QED
      BY <1>1, <1>4, <2>1 DEF CheckPayload
  <1>5. CASE WritePayload(p)
    <2>1. pc[p] = "writePayload"
      BY <1>5 DEF WritePayload
    <2>2. CASE Put(p, "payload", job[p].says.bytes) /\ Goto(p, "writeEnvelope")
      <3>1. pc'[p] = "writeEnvelope" /\ job'[p] = job[p]
        BY <2>2, GotoHere
      <3>2. disk'[job[p].id].payload = job[p].says.bytes
        BY <2>1, <2>2, PutChange
      <3> QED
        BY <3>1, <3>2 DEF Written, Proposing
    <2> QED
      BY <1>1, <1>5, <2>1, <2>2 DEF WritePayload
  <1>6. CASE WriteEnvelope(p)
    <2>1. pc[p] = "writeEnvelope" /\ Written(p)
      BY <1>6 DEF WriteEnvelope
    <2>2. CASE Put(p, "envelope", job[p].says) /\ Activating(p) /\ Goto(p, "openStore")
      <3>1. pc'[p] = "openStore" /\ job'[p] = job[p]
        BY <2>2, GotoHere
      <3>2. /\ disk'[job[p].id].payload = job[p].says.bytes
            /\ disk'[job[p].id].envelope = job[p].says
        BY <2>1, <2>2, PutChange DEF Written
      <3> QED
        BY <2>2, <3>1, <3>2 DEF Written, Activating
    <2>3. CASE Goto(p, "removePayload")
      BY <2>3, GotoHere DEF Written, Proposing
    <2> QED
      BY <1>1, <1>6, <2>1, <2>2, <2>3, ReturnHere DEF WriteEnvelope, Answer
  <1>7. CASE RemovePayload(p)
    BY <1>1, <1>7 DEF RemovePayload
  <1>8. CASE OpenStore(p)
    <2>1. pc[p] = "openStore" /\ Written(p) /\ UNCHANGED disk
      BY <1>8 DEF OpenStore
    <2>2. CASE Goto(p, "writeReceipt")
      <3>1. pc'[p] = "writeReceipt" /\ job'[p] = job[p]
        BY <2>2, GotoHere
      <3> QED
        BY <2>1, <3>1 DEF Written, Activating, Proposing
    <2> QED
      BY <1>1, <1>8, <2>1, <2>2 DEF OpenStore
  <1>9. CASE WriteReceipt(p)
    BY <1>1, <1>9, ReturnHere DEF WriteReceipt, Answer
  <1>10. CASE Restore(p)
    <2>1. pc[p] \in Undoing /\ Activating(p)
      BY <1>10 DEF Restore, Written, Proposing, Undoing
    <2>2. ASSUME NEW label \in {"restoreEnvelope", "restoreReceipt"}, Goto(p, label)
          PROVE  Written(p)'
      BY <2>1, <2>2, GotoHere DEF Written, Activating
    <2> QED
      BY <1>10, <2>1, <2>2, ReturnHere DEF Restore, Undoing
  <1>11. CASE Crash(p)
    BY <1>11, ReturnHere DEF Crash
  <1> QED
    BY <1>2, <1>3, <1>4, <1>5, <1>6, <1>7, <1>8, <1>9, <1>10, <1>11 DEF Step

(* What an answered call leaves: its payload, and an envelope.             *)
Answers(p) ==
    /\ Answer(p)
    /\ \/ pc[p] = "writeEnvelope" /\ Put(p, "envelope", job[p].says)
       \/ pc[p] = "writeReceipt" /\ Put(p, "receipt", job[p].says)

LEMMA AnswerComplete ==
    ASSUME TypeOK, NEW p \in Processes, Written(p), Answers(p)
    PROVE  LET files == disk'[job[p].id]
           IN  files.payload \in Bytes /\ files.envelope # None
  <1>1. pc[p] # "idle"
    BY DEF Answers
  <1>2. job[p].says \in Statements /\ job[p].says.bytes \in Bytes /\ job[p].says # None
    BY <1>1, Worker, ContractAssumption
  <1>3. CASE pc[p] = "writeEnvelope" /\ Put(p, "envelope", job[p].says)
    BY <1>1, <1>2, <1>3, PutChange DEF Written
  <1>4. CASE pc[p] = "writeReceipt" /\ Put(p, "receipt", job[p].says)
    BY <1>1, <1>2, <1>4, PutChange DEF Written
  <1> QED
    BY <1>3, <1>4 DEF Answers

LEMMA StepComplete ==
    ASSUME CompleteInv, OneWriter, NEW p \in Processes, Step(p)
    PROVE  CompleteInv'
  <1>1. /\ TypeOK /\ TypeOK' /\ UNCHANGED load
        /\ pc[p] # "idle" => Written(p)
    BY StepType DEF CompleteInv, Step, Persist, Snapshot, CheckPayload, WritePayload,
       WriteEnvelope, RemovePayload, OpenStore, WriteReceipt, Restore, Crash
  <1>2. \A q \in Processes : q = p
    BY DEF OneWriter
  <1>3. \A q \in Processes : pc'[q] # "idle" => Written(q)'
    BY <1>1, <1>2, WrittenStep
  <1>4. ASSUME NEW a \in Artifacts PROVE Kept(a, load.owed[a])'
    BY <1>1, KeptStep DEF CompleteInv
  <1>5. ASSUME NEW a \in Artifacts PROVE Kept(a, committed[a])'
    <2>1. CASE committed'[a] = committed[a]
      BY <1>1, <2>1, KeptStep DEF CompleteInv
    <2>2. CASE pc[p] # "idle" /\ Answers(p) /\ job[p].id = a
      <3>1. /\ disk'[a].payload \in Bytes /\ disk'[a].envelope # None
            /\ committed'[a] = disk'[a]
        BY <1>1, <2>2, AnswerComplete DEF Answers, Answer, TypeOK
      <3>2. job'[p].id # a
        BY <1>1, <2>2, SameJob, ReturnHere, ContractAssumption DEF Answers, Answer, Artifacts
      <3> QED
        BY <1>2, <3>1, <3>2 DEF Kept, KeptFiles
    <2>3. UNCHANGED committed \/ (pc[p] # "idle" /\ Answers(p))
      BY DEF Answers, Step, Persist, Snapshot, CheckPayload, WritePayload, WriteEnvelope,
         RemovePayload, OpenStore, WriteReceipt, Restore, Crash
    <2> QED
      BY <1>1, <2>1, <2>2, <2>3, Elsewhere
  <1>6. LoadInv'
    BY <1>1 DEF CompleteInv, LoadInv, Owed, Accounted, Returned
  <1> QED
    BY <1>1, <1>3, <1>4, <1>5, <1>6 DEF CompleteInv

LEMMA LoadFields ==
    ASSUME TypeOK
    PROVE  load = [pc |-> load.pc, kind |-> load.kind, todo |-> load.todo,
                   names |-> load.names, item |-> load.item, out |-> load.out,
                   owed |-> load.owed]
  BY DEF TypeOK

\* A step of a load finds the files that it owes kept.
LEMMA LoadKept ==
    ASSUME CompleteInv, Load
    PROVE  \A a \in Artifacts : Kept(a, load'.owed[a])
  <1>1. load'.owed \in {load.owed, committed, Unloaded.owed}
    <2>1. CASE LoadStart
      BY <2>1 DEF LoadStart, Unloaded
    <2>2. CASE ListDir
      BY <2>2 DEF ListDir, CompleteInv, TypeOK
    <2>3. ASSUME NEW a \in Artifacts, LoadEnvelope(a)
          PROVE  load' = Unloaded \/ load'.owed = load.owed
      BY <2>3 DEF LoadEnvelope, CompleteInv, TypeOK
    <2>4. CASE LoadPayload
      BY <2>4 DEF LoadPayload, CompleteInv, TypeOK
    <2>5. CASE LoadReceipt
      BY <2>5 DEF LoadReceipt, CompleteInv, TypeOK
    <2>6. CASE CheckOrphans
      BY <2>6 DEF CheckOrphans, CompleteInv, TypeOK
    <2> QED
      BY <2>1, <2>2, <2>3, <2>4, <2>5, <2>6 DEF Load, LoadReturn
  <1>2. \A a \in Artifacts : Unloaded.owed[a] = NoFiles
    BY DEF Unloaded
  <1> QED
    BY <1>1, <1>2 DEF CompleteInv, Kept

LEMMA LoadCompletes ==
    ASSUME CompleteInv, Load
    PROVE  LoadInv'
  <1>1. TypeOK /\ TypeOK' /\ LoadInv /\ \A a \in Artifacts : Kept(a, load.owed[a])
    BY LoadType DEF CompleteInv
  <1>2. ASSUME load'.pc \in {"off", "list"}, load'.kind = "proposals"
        PROVE  LoadInv'
    BY <1>2 DEF LoadInv, Accounted
  <1>3. CASE load' = Unloaded
    BY <1>2, <1>3 DEF Unloaded
  <1>4. CASE LoadStart
    BY <1>2, <1>4 DEF LoadStart, Unloaded
  <1>5. \A a \in Artifacts : Kind(a) \in {"proposals", "activations"}
    BY DEF Kind
  <1>6. CASE ListDir
    <2>1. ASSUME NEW T, load' = [load EXCEPT !.pc = "item",
                    !.todo = {a \in Artifacts :
                                 Kind(a) = load.kind /\ disk[a].envelope # None},
                    !.names = T]
          PROVE  LoadInv'
      <3>1. /\ load'.pc = "item" /\ load'.owed = load.owed /\ load'.out = load.out
            /\ load'.kind = load.kind
            /\ \A a \in Artifacts : Kind(a) = load.kind /\ disk[a].envelope # None
                                     => a \in load'.todo
        BY <1>1, <2>1, LoadFields
      <3>2. ASSUME NEW a \in Artifacts, Owed(a)
            PROVE  Accounted(a)'
        <4>1. disk[a].envelope # None
          BY <1>1, <3>2 DEF Owed, Kept, KeptFiles
        <4>2. load.pc = "list" /\ load.kind \in {"proposals", "activations"} /\ Accounted(a)
          BY <1>1, <1>6, <3>2 DEF ListDir, LoadInv, TypeOK
        <4> QED
          BY <1>5, <3>1, <4>1, <4>2 DEF Accounted, Returned
      <3> QED
        BY <3>1, <3>2 DEF LoadInv, Owed
    <2> QED
      BY <1>3, <1>6, <2>1 DEF ListDir
  <1>7. ASSUME NEW a \in Artifacts, LoadEnvelope(a)
        PROVE  LoadInv'
    <2>1. CASE load' = [load EXCEPT !.pc = "payload", !.todo = @ \ {a},
                                    !.item = [id |-> a, says |-> disk[a].envelope]]
      <3>1. /\ load'.pc = "payload" /\ load'.owed = load.owed /\ load'.out = load.out
            /\ load'.kind = load.kind /\ load'.todo = load.todo \ {a}
            /\ load'.item = [id |-> a, says |-> disk[a].envelope]
        BY <1>1, <2>1 DEF TypeOK
      <3>2. load'.item.id = a /\ load.pc = "item"
        BY <1>7, <3>1 DEF LoadEnvelope
      <3> QED
        BY <1>1, <3>1, <3>2 DEF LoadInv, Owed, Accounted, Returned
    <2> QED
      BY <1>3, <1>7, <2>1 DEF LoadEnvelope
  <1>8. ASSUME load.pc \in {"payload", "receipt"},
               Owed(load.item.id) =>
                  load.item.says.bytes = load.owed[load.item.id].payload,
               load' = [load EXCEPT !.pc = "item", !.item = None,
                                    !.out = @ \cup {load.item}]
        PROVE  LoadInv'
    <2>1. /\ load'.pc = "item" /\ load'.owed = load.owed
          /\ load'.out = load.out \cup {load.item}
          /\ load'.kind = load.kind /\ load'.todo = load.todo
      BY <1>1, <1>8 DEF TypeOK
    <2>2. ASSUME NEW a \in Artifacts, Owed(a)
          PROVE  Accounted(a)'
      <3>1. Accounted(a)
        BY <1>1, <2>2 DEF LoadInv
      <3>2. Returned(a) \/ load.item.id = a => Returned(a)'
        BY <1>8, <2>1, <2>2 DEF Returned
      <3> QED
        BY <1>8, <2>1, <3>1, <3>2 DEF Accounted
    <2> QED
      BY <2>1, <2>2 DEF LoadInv, Owed
  <1>9. CASE LoadPayload
    <2>1. load.pc = "payload" /\ load.item \in Items
      BY <1>1, <1>9 DEF LoadPayload, TypeOK
    <2>2. CASE disk[load.item.id].payload = load.item.says.bytes
      <3>1. load.item.id \in Artifacts /\ load.item.says.bytes # Torn
        BY <2>1, ContractAssumption DEF Items, Statements
      <3>2. Owed(load.item.id) => load.item.says.bytes = load.owed[load.item.id].payload
        BY <1>1, <2>2, <3>1 DEF Owed, Kept, KeptFiles
      <3>3. CASE load' = [load EXCEPT !.pc = "receipt"]
        <4>1. /\ load'.pc = "receipt" /\ load'.owed = load.owed /\ load'.out = load.out
              /\ load'.kind = load.kind /\ load'.todo = load.todo /\ load'.item = load.item
          BY <1>1, <3>3 DEF TypeOK
        <4> QED
          BY <1>1, <2>1, <3>2, <4>1 DEF LoadInv, Owed, Accounted, Returned
      <3> QED
        BY <1>3, <1>8, <1>9, <2>1, <3>2, <3>3 DEF LoadPayload
    <2> QED
      BY <1>3, <1>9, <2>2 DEF LoadPayload
  <1>10. CASE LoadReceipt
    BY <1>1, <1>3, <1>8, <1>10 DEF LoadReceipt, LoadInv
  <1>11. CASE CheckOrphans
    <2>1. load.pc = "item" /\ load.todo = {} /\ load.kind \in {"proposals", "activations"}
      BY <1>1, <1>11 DEF CheckOrphans, TypeOK
    <2>2. \A a \in Artifacts :
             Owed(a) /\ (Kind(a) = load.kind \/ Kind(a) = "proposals") => Returned(a)
      BY <1>1, <2>1 DEF LoadInv, Accounted
    <2>3. CASE load' = [load EXCEPT !.pc = "list", !.kind = "activations"]
      <3>1. /\ load'.pc = "list" /\ load'.owed = load.owed /\ load'.out = load.out
        BY <1>1, <2>3 DEF TypeOK
      <3> QED
        BY <1>5, <2>2, <3>1 DEF LoadInv, Owed, Accounted, Returned
    <2>4. CASE load' = [load EXCEPT !.pc = "done"] /\ load.kind = "activations"
      <3>1. /\ load'.pc = "done" /\ load'.owed = load.owed /\ load'.out = load.out
        BY <1>1, <2>4 DEF TypeOK
      <3> QED
        BY <1>5, <2>2, <2>4, <3>1 DEF LoadInv, Owed, Accounted, Returned
    <2> QED
      BY <1>3, <1>11, <2>1, <2>3, <2>4 DEF CheckOrphans
  <1>12. CASE LoadReturn
    BY <1>3, <1>12 DEF LoadReturn
  <1> QED
    BY <1>4, <1>6, <1>7, <1>9, <1>10, <1>11, <1>12 DEF Load

(* LoadStored: with one process that writes, a load that succeeds returns  *)
(* every artifact that was persisted when it began, with its bytes,        *)
(* whatever that process persists, fails to persist, undoes or leaves      *)
(* behind meanwhile.                                                       *)
THEOREM LoadedAlwaysComplete ==
    ASSUME OneWriter
    PROVE  Spec => []LoadedIsComplete
  <1>1. Init => CompleteInv
    <2> SUFFICES ASSUME Init PROVE CompleteInv
      OBVIOUS
    <2>1. TypeOK
      BY TypeInit
    <2>2. \A a \in Artifacts : committed[a] = NoFiles /\ load.owed[a] = NoFiles
      BY DEF Init, Unloaded
    <2>3. load.pc = "off" /\ \A p \in Processes : pc[p] = "idle"
      BY DEF Init, Unloaded
    <2> QED
      BY <2>1, <2>2, <2>3 DEF CompleteInv, Kept, LoadInv, Owed
  <1>2. CompleteInv /\ [Next]_vars => CompleteInv'
    <2>1. ASSUME CompleteInv, UNCHANGED vars PROVE CompleteInv'
      <3>1. TypeOK'
        BY <2>1 DEF CompleteInv, TypeOK, vars, writers
      <3> QED
        BY <2>1, <3>1 DEF CompleteInv, Kept, KeptFiles, KeptCall, Written, Activating,
           LoadInv, Owed, Accounted, Returned, vars, writers
    <2>2. ASSUME CompleteInv, Load PROVE CompleteInv'
      <3>1. TypeOK' /\ UNCHANGED <<disk, pc, job, before, existed, committed>>
        BY <2>2, LoadType DEF CompleteInv, Load, writers
      <3>2. LoadInv' /\ \A a \in Artifacts : Kept(a, load'.owed[a])
        BY <2>2, LoadKept, LoadCompletes
      <3> QED
        BY <2>2, <3>1, <3>2
           DEF CompleteInv, Kept, KeptFiles, KeptCall, Written, Activating
    <2> QED
      BY <2>1, <2>2, StepComplete DEF Next
  <1>3. CompleteInv => LoadedIsComplete
    BY DEF CompleteInv, LoadInv, Owed, Accounted, Returned, LoadedIsComplete
  <1> QED
    BY <1>1, <1>2, <1>3, PTL DEF Spec

=============================================================================
