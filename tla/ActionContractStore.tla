------------------------ MODULE ActionContractStore ------------------------
(***************************************************************************)
(* core/ingest/actioncontract: the files of Action Contract artifacts.     *)
(*                                                                         *)
(* An artifact is a payload, byte for byte as its producer wrote it, and   *)
(* an envelope about it; an activation has a signed verification receipt   *)
(* as well.  PersistProposal and PersistActivation write these files one   *)
(* after the other.  An activation whose call fails is put back as it was, *)
(* with writes that are not atomic.  LoadStored reads all artifacts, at    *)
(* its own pace, and refuses the store when it finds one incomplete.       *)
(*                                                                         *)
(* An envelope and a receipt are what they say: bytes and conformance.     *)
(* A definition that no action or property uses is a faulty variant of the *)
(* one below it; the properties are run against it to see them violated.   *)
(***************************************************************************)
EXTENDS Naturals, FiniteSets

CONSTANTS
    Processes,    \* processes that persist artifacts
    Proposals,    \* artifact IDs of proposals
    Activations,  \* artifact IDs of activations
    Bytes,        \* contents an artifact may have
    Verified,     \* the contents whose producer signature verifies
    Conformances, \* results of comparing an activation with its proposal
    NoConformance,\* a proposal has none
    None,         \* no file
    Torn,         \* a file that was being rewritten in place
    MaxFaults,    \* bound: reads, writes and removals that fail
    MaxCrashes    \* bound: processes that die

\* What an envelope or a receipt states.
Statements == [bytes : Bytes, conformance : Conformances \cup {NoConformance}]

ASSUME ContractAssumption ==
    /\ Proposals \cap Activations = {} /\ None \notin Proposals \cup Activations
    /\ Verified \subseteq Bytes
    /\ None \notin Bytes \cup Statements /\ Torn \notin Bytes \cup Statements
    /\ None # Torn
    /\ MaxFaults \in Nat /\ MaxCrashes \in Nat

Artifacts == Proposals \cup Activations
Kind(a) == IF a \in Activations THEN "activations" ELSE "proposals"

Disks == [payload  : Bytes \cup {None, Torn},
          envelope : Statements \cup {None, Torn},
          receipt  : Statements \cup {None, Torn}]
NoFiles == [payload |-> None, envelope |-> None, receipt |-> None]
Items == [id : Artifacts, says : Statements]

\* What a call is asked to persist.
Jobs == [id : Proposals, says : [bytes : Bytes, conformance : {NoConformance}]]
        \cup [id : Activations, says : [bytes : Bytes, conformance : Conformances]]

NoJob == [id |-> None, says |-> None]

VARIABLES
    disk,      \* disk[a]: the files of artifact a
    strays,    \* directories in which a killed process left a temporary file
    pc,        \* pc[p]: what process p does next
    job,       \* job[p]: what it persists
    before,    \* before[p]: the files it found, to be restored
    existed,   \* existed[p]: it found the payload in place
    load,      \* a LoadStored in progress
    committed, \* committed[a]: the files as of the last answered call
    issued,    \* receipts written so far
    damaged,   \* artifacts a crash or a failed undo may have left incomplete
    faults, crashes

writers == <<pc, job, before, existed>>
vars == <<disk, strays, writers, load, committed, issued, damaged, faults, crashes>>

Unloaded == [pc |-> "off", kind |-> "proposals", todo |-> {}, names |-> {},
             item |-> None, out |-> {}, owed |-> [a \in Artifacts |-> NoFiles]]

Init ==
    /\ disk = [a \in Artifacts |-> NoFiles]
    /\ strays = {}
    /\ pc = [p \in Processes |-> "idle"]
    /\ job = [p \in Processes |-> NoJob]
    /\ before = [p \in Processes |-> NoFiles]
    /\ existed = [p \in Processes |-> FALSE]
    /\ load = Unloaded
    /\ committed = [a \in Artifacts |-> NoFiles]
    /\ issued = {} /\ damaged = {}
    /\ faults = 0 /\ crashes = 0

-----------------------------------------------------------------------------
(* PersistProposal and PersistActivation.                                  *)

Reading == {"readPayload", "readEnvelope", "readReceipt"}
Writing == {"writePayload", "writeEnvelope", "writeReceipt"}
Undoing == {"restorePayload", "restoreEnvelope", "restoreReceipt"}
FieldOf == [readPayload |-> "payload", readEnvelope |-> "envelope", readReceipt |-> "receipt",
            restorePayload |-> "payload", restoreEnvelope |-> "envelope",
            restoreReceipt |-> "receipt"]

Goto(p, label) == pc' = [pc EXCEPT ![p] = label] /\ UNCHANGED <<job, before, existed>>

Return(p) ==
    /\ pc' = [pc EXCEPT ![p] = "idle"]
    /\ job' = [job EXCEPT ![p] = NoJob]
    /\ before' = [before EXCEPT ![p] = NoFiles]
    /\ existed' = [existed EXCEPT ![p] = FALSE]

Answer(p) ==
    /\ Return(p)
    /\ committed' = [committed EXCEPT ![job[p].id] = disk'[job[p].id]]
    /\ damaged' = damaged \ {job[p].id}

Activating(p) == job[p].id \in Activations

\* A call that failed: an activation is undone, a proposal is left as it is.
Fail(p) == IF Activating(p) THEN Goto(p, "restorePayload") ELSE Return(p)

Fault == faults < MaxFaults /\ faults' = faults + 1

Put(p, field, content) == disk' = [disk EXCEPT ![job[p].id][field] = content]

\* WriteJSONAtomic with fsync fails before the rename or, at the sync of the
\* directory, after it.  Nobody undoes the latter for a proposal.
PutFails(p, field, content) ==
    /\ Fault
    /\ \/ UNCHANGED <<disk, damaged>>
       \/ /\ Put(p, field, content)
          /\ damaged' = damaged \cup ({job[p].id} \cap Proposals)

PersistUnverified(p, j) ==
    /\ pc[p] = "idle"
    /\ pc' = [pc EXCEPT ![p] = IF j.id \in Activations THEN "readPayload" ELSE "check"]
    /\ job' = [job EXCEPT ![p] = j]
    /\ UNCHANGED <<disk, strays, before, existed, load, committed, issued,
                   damaged, faults, crashes>>

\* An activation must come with a verified producer signature.
Persist(p, j) ==
    /\ pc[p] = "idle"
    /\ j.id \in Activations => j.says.bytes \in Verified
    /\ pc' = [pc EXCEPT ![p] = IF j.id \in Activations THEN "readPayload" ELSE "check"]
    /\ job' = [job EXCEPT ![p] = j]
    /\ UNCHANGED <<disk, strays, before, existed, load, committed, issued,
                   damaged, faults, crashes>>

\* PersistActivation reads the files it may have to restore, one by one.
NextRead == [readPayload |-> "readEnvelope", readEnvelope |-> "readReceipt",
             readReceipt |-> "check"]

Snapshot(p) ==
    /\ pc[p] \in Reading
    /\ \/ /\ pc' = [pc EXCEPT ![p] = NextRead[@]]
          /\ before' = [before EXCEPT ![p][FieldOf[pc[p]]] = disk[job[p].id][FieldOf[pc[p]]]]
          /\ UNCHANGED <<job, existed, faults>>
       \/ Fault /\ Return(p)
    /\ UNCHANGED <<disk, strays, load, committed, issued, damaged, crashes>>

\* An artifact that exists must have these very bytes.
CheckPayload(p) ==
    LET found == disk[job[p].id].payload IN
    /\ pc[p] = "check"
    /\ \/ /\ found \in {None, job[p].says.bytes}
          /\ pc' = [pc EXCEPT ![p] = "writePayload"]
          /\ existed' = [existed EXCEPT ![p] = found # None]
          /\ UNCHANGED <<job, before, faults>>
       \/ found \notin {None, job[p].says.bytes} /\ Fail(p) /\ UNCHANGED faults
       \/ Fault /\ Fail(p)
    /\ UNCHANGED <<disk, strays, load, committed, issued, damaged, crashes>>

WritePayload(p) ==
    /\ pc[p] = "writePayload"
    /\ \/ /\ Put(p, "payload", job[p].says.bytes)
          /\ Goto(p, "writeEnvelope")
          /\ UNCHANGED <<damaged, faults>>
       \/ PutFails(p, "payload", job[p].says.bytes) /\ Fail(p)
    /\ UNCHANGED <<strays, load, committed, issued, crashes>>

\* Without its envelope a new payload is removed again.
WriteEnvelope(p) ==
    /\ pc[p] = "writeEnvelope"
    /\ \/ /\ Put(p, "envelope", job[p].says)
          /\ UNCHANGED faults
          /\ \/ ~ Activating(p) /\ Answer(p)
             \/ /\ Activating(p) /\ Goto(p, "openStore")
                /\ UNCHANGED <<committed, damaged>>
       \/ /\ PutFails(p, "envelope", job[p].says)
          /\ IF existed[p] THEN Fail(p) ELSE Goto(p, "removePayload")
          /\ UNCHANGED committed
    /\ UNCHANGED <<strays, load, issued, crashes>>

RemovePayload(p) ==
    /\ pc[p] = "removePayload"
    /\ \/ Put(p, "payload", None) /\ UNCHANGED <<damaged, faults>>
       \/ /\ Fault /\ UNCHANGED disk
          /\ damaged' = damaged \cup ({job[p].id} \cap Proposals)
    /\ Fail(p)
    /\ UNCHANGED <<strays, load, committed, issued, crashes>>

OpenStoreKeeping(p) ==
    /\ pc[p] = "openStore"
    /\ \/ Goto(p, "writeReceipt") /\ UNCHANGED faults
       \/ Fault /\ Return(p)
    /\ UNCHANGED <<disk, strays, load, committed, issued, damaged, crashes>>

\* The store is opened for its key, and the receipt signed with it.
OpenStore(p) ==
    /\ pc[p] = "openStore"
    /\ \/ Goto(p, "writeReceipt") /\ UNCHANGED faults
       \/ Fault /\ Fail(p)
    /\ UNCHANGED <<disk, strays, load, committed, issued, damaged, crashes>>

WriteReceipt(p) ==
    /\ pc[p] = "writeReceipt"
    /\ \/ Put(p, "receipt", job[p].says) /\ Answer(p) /\ UNCHANGED faults
       \/ PutFails(p, "receipt", job[p].says) /\ Fail(p) /\ UNCHANGED committed
    /\ issued' = issued \cup {job[p]}
    /\ UNCHANGED <<strays, load, crashes>>

\* restoreFileSnapshots writes a file back in place, or removes it; whatever
\* happens it goes on with the next one.  (A LoadStored that meets the file
\* half written fails, which it may do at any time a call is in progress.)
Restore(p) ==
    LET field == FieldOf[pc[p]]
        old == before[p][field]
    IN
    /\ pc[p] \in Undoing
    /\ \/ Put(p, field, old) /\ UNCHANGED <<damaged, faults>>
       \/ /\ Fault
          /\ \/ UNCHANGED disk
             \/ old # None /\ Put(p, field, Torn)
          /\ damaged' = damaged \cup {job[p].id}
    /\ CASE pc[p] = "restorePayload" -> Goto(p, "restoreEnvelope")
         [] pc[p] = "restoreEnvelope" -> Goto(p, "restoreReceipt")
         [] pc[p] = "restoreReceipt" -> Return(p)
    /\ UNCHANGED <<strays, load, committed, issued, crashes>>

\* A process dies: before it wrote anything, within an atomic write, whose
\* temporary file stays, or within a write in place.
Crash(p) ==
    /\ pc[p] # "idle"
    /\ crashes < MaxCrashes /\ crashes' = crashes + 1
    /\ \/ UNCHANGED <<disk, strays>>
       \/ /\ pc[p] \in Writing
          /\ strays' = strays \cup {Kind(job[p].id)}
          /\ UNCHANGED disk
       \/ /\ pc[p] \in Undoing
          /\ before[p][FieldOf[pc[p]]] # None
          /\ Put(p, FieldOf[pc[p]], Torn)
          /\ UNCHANGED strays
    /\ damaged' = IF pc[p] \in Reading \cup {"check", "writePayload"} THEN damaged
                  ELSE damaged \cup {job[p].id}
    /\ Return(p)
    /\ UNCHANGED <<load, committed, issued, faults>>

-----------------------------------------------------------------------------
(* LoadStored: all or an error.                                            *)

LoadStart ==
    /\ load.pc = "off"
    /\ load' = [Unloaded EXCEPT !.pc = "list", !.owed = committed]

\* Anything but these files in a directory is an error, a temporary file too.
ListDir ==
    LET entries(field) == {a \in Artifacts : Kind(a) = load.kind /\ disk[a][field] # None}
        writing == \E p \in Processes : pc[p] \in Writing /\ Kind(job[p].id) = load.kind
    IN
    /\ load.pc = "list"
    /\ \/ /\ load.kind \notin strays
          /\ load' = [load EXCEPT !.pc = "item", !.todo = entries("envelope"),
                                  !.names = entries("payload")]
       \/ (load.kind \in strays \/ writing) /\ load' = Unloaded

LoadEnvelopeSkipping(a) ==
    /\ load.pc = "item" /\ a \in load.todo
    /\ load' = IF disk[a].payload = None \/ disk[a].envelope = None
               THEN Unloaded
               ELSE IF disk[a].envelope = Torn
               THEN [load EXCEPT !.todo = @ \ {a}]
               ELSE [load EXCEPT !.pc = "payload", !.todo = @ \ {a},
                                 !.item = [id |-> a, says |-> disk[a].envelope]]

LoadEnvelope(a) ==
    /\ load.pc = "item" /\ a \in load.todo
    /\ load' = IF disk[a].payload = None \/ disk[a].envelope \in {None, Torn}
               THEN Unloaded
               ELSE [load EXCEPT !.pc = "payload", !.todo = @ \ {a},
                                 !.item = [id |-> a, says |-> disk[a].envelope]]

LoadPayload ==
    LET item == load.item IN
    /\ load.pc = "payload"
    /\ load' = IF disk[item.id].payload # item.says.bytes THEN Unloaded
               ELSE IF item.id \in Activations THEN [load EXCEPT !.pc = "receipt"]
               ELSE [load EXCEPT !.pc = "item", !.item = None, !.out = @ \cup {item}]

LoadReceiptOfBytes ==
    LET receipt == disk[load.item.id].receipt IN
    /\ load.pc = "receipt"
    /\ load' = IF receipt \in {None, Torn} \/ receipt.bytes # load.item.says.bytes
               THEN Unloaded
               ELSE [load EXCEPT !.pc = "item", !.item = None, !.out = @ \cup {load.item}]

\* verifyStoredActivationReceipt: bytes and conformance must agree.
LoadReceipt ==
    /\ load.pc = "receipt"
    /\ load' = IF disk[load.item.id].receipt # load.item.says THEN Unloaded
               ELSE [load EXCEPT !.pc = "item", !.item = None, !.out = @ \cup {load.item}]

\* A payload that was listed must have an envelope by now.
CheckOrphans ==
    /\ load.pc = "item" /\ load.todo = {}
    /\ load' = IF \E a \in load.names : disk[a].envelope = None THEN Unloaded
               ELSE IF load.kind = "proposals"
               THEN [load EXCEPT !.pc = "list", !.kind = "activations"]
               ELSE [load EXCEPT !.pc = "done"]

LoadReturn == load.pc = "done" /\ load' = Unloaded

Load ==
    /\ \/ LoadStart
       \/ ListDir
       \/ \E a \in Artifacts : LoadEnvelope(a)
       \/ LoadPayload
       \/ LoadReceipt
       \/ CheckOrphans
       \/ LoadReturn
    /\ UNCHANGED <<disk, strays, writers, committed, issued, damaged, faults, crashes>>

Step(p) ==
    \/ \E j \in Jobs : Persist(p, j)
    \/ Snapshot(p)
    \/ CheckPayload(p)
    \/ WritePayload(p)
    \/ WriteEnvelope(p)
    \/ RemovePayload(p)
    \/ OpenStore(p)
    \/ WriteReceipt(p)
    \/ Restore(p)
    \/ Crash(p)

Next == Load \/ \E p \in Processes : Step(p)

Spec == Init /\ [][Next]_vars

-----------------------------------------------------------------------------

TypeOK ==
    /\ disk \in [Artifacts -> Disks]
    /\ strays \subseteq {"proposals", "activations"}
    /\ pc \in [Processes -> Reading \cup Writing \cup Undoing
                  \cup {"idle", "check", "removePayload", "openStore"}]
    /\ job \in [Processes -> Jobs \cup {NoJob}]
    /\ \A p \in Processes : pc[p] # "idle" <=> job[p] # NoJob
    /\ before \in [Processes -> Disks]
    /\ existed \in [Processes -> BOOLEAN]
    /\ load \in [pc : {"off", "list", "item", "payload", "receipt", "done"},
                 kind : {"proposals", "activations"},
                 todo : SUBSET Artifacts, names : SUBSET Artifacts,
                 item : Items \cup {None}, out : SUBSET Items,
                 owed : [Artifacts -> Disks]]
    /\ load.pc \in {"payload", "receipt"} => load.item \in Items
    /\ committed \in [Artifacts -> Disks]
    /\ issued \subseteq Jobs
    /\ damaged \subseteq Artifacts
    /\ faults \in Nat /\ crashes \in Nat

(* "independently verified on every store load": an activation that        *)
(* LoadStored returns has a receipt for its bytes with its conformance,    *)
(* and its producer's signature was verified, however the reads fell       *)
(* between the writes of others.                                           *)
LoadedWasIssued ==
    load.pc = "done" => \A item \in load.out :
        item.id \in Activations => item \in issued /\ item.says.bytes \in Verified

(* LoadStored leaves nothing out in silence: it fails, or it returns every *)
(* artifact that was persisted when it began, with its bytes.  (With one   *)
(* process that writes.)                                                   *)
LoadedIsComplete ==
    load.pc = "done" => \A a \in Artifacts :
        load.owed[a] # NoFiles =>
            \E item \in load.out :
                item.id = a /\ item.says.bytes = load.owed[a].payload

(* PersistActivation, PersistProposal: a call that fails leaves no trace.  *)
(* When no call works on an artifact its files are those of the last       *)
(* answered call, unless a call on it was killed in the middle, an undo    *)
(* failed, or a proposal's file could not be synced, and no call has       *)
(* succeeded since.                                                        *)
AllOrNothing ==
    \A a \in Artifacts :
        a \notin damaged /\ (\A p \in Processes : job[p].id # a)
        => disk[a] = committed[a]

=============================================================================
