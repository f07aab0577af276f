---------------------------- MODULE WrkrIngest ----------------------------
(***************************************************************************)
(* core/ingest/wrkr and core/ingest/state: `axym ingest` of Wrkr records   *)
(* under the state lock.                                                   *)
(*                                                                         *)
(* A process is one run of the command: it takes the lock file, reads the  *)
(* privilege baseline, appends its records to the chain, saves the new     *)
(* baseline, removes the lock and reports the privilege drift it found.  A *)
(* lock older than lockTTL is taken over.  The holder's heartbeat keeps    *)
(* the lock file young; it touches whatever file has the lock's name.      *)
(* An append is one step here: EvidenceStore models what is inside it.     *)
(***************************************************************************)
EXTENDS Naturals, Sequences, FiniteSets

CONSTANTS
    Processes,   \* runs of the command
    Batch,       \* Batch[p]: p's input in sorted order, each record an
                 \* observation [id, privilege, approved]
    NoLock,      \* the lock file does not exist
    LockTTL,     \* lockTTL, in ticks of the clock
    MaxTime,     \* bound: last tick of the clock
    MaxFaults,   \* bound: reads, appends and writes that fail
    MaxCrashes   \* bound: processes that die

Privileges == UNION {{Batch[p][i].privilege : i \in DOMAIN Batch[p]} : p \in Processes}
Records    == UNION {{Batch[p][i] : i \in DOMAIN Batch[p]} : p \in Processes}

ASSUME WrkrAssumption ==
    /\ \A p \in Processes : Batch[p] \in Seq([id : Nat, privilege : STRING, approved : BOOLEAN])
    /\ LockTTL \in Nat /\ MaxTime \in Nat /\ MaxFaults \in Nat /\ MaxCrashes \in Nat
    /\ NoLock \notin Nat

VARIABLES
    lock,      \* modification time of wrkr-last-ingest.lock, or NoLock
    baseline,  \* wrkr-last-ingest.json: the privileges known
    chain,     \* IDs of the records in the proof chain
    now,
    pc,        \* pc[p]: the next step of p
    known,     \* known[p]: the baseline p read
    next,      \* next[p]: index of the next record p appends
    beating,   \* beating[p]: p's heartbeat goroutine is running
    reported,  \* reported[p]: the drift gaps p returned
    late,      \* history: a holder's lock outlived its TTL while it still ran
    contested, \* history: two runs were taking over one stale lock
    faults,
    crashes

history == <<late, contested>>

vars == <<lock, baseline, chain, now, pc, known, next, beating, reported,
          late, contested, faults, crashes>>

Holding == {"load", "append", "save", "release", "abort"}
Ended   == {"done", "failed", "locked", "dead"}

-----------------------------------------------------------------------------
(* privilegedrift.Analyze: an observation of a privilege that is in neither *)
(* the baseline nor an earlier observation extends the baseline, and is a   *)
(* gap when it is not approved.                                             *)

FirstInBatch(base, batch, i) ==
    \A j \in 1..(i - 1) : batch[j].privilege # batch[i].privilege

First(base, batch, i) ==
    /\ batch[i].privilege \notin base
    /\ \A j \in 1..(i - 1) : batch[j].privilege # batch[i].privilege

Analyze(base, batch) ==
    [updated |-> base \cup {batch[i].privilege : i \in DOMAIN batch},
     gaps    |-> {batch[i] : i \in {j \in DOMAIN batch :
                                       First(base, batch, j) /\ ~ batch[j].approved}}]

-----------------------------------------------------------------------------

Init ==
    /\ lock = NoLock
    /\ baseline = {}
    /\ chain = {}
    /\ now = 0
    /\ pc = [p \in Processes |-> "create"]
    /\ known = [p \in Processes |-> {}]
    /\ next = [p \in Processes |-> 1]
    /\ beating = [p \in Processes |-> FALSE]
    /\ reported = [p \in Processes |-> {}]
    /\ late = FALSE /\ contested = FALSE
    /\ faults = 0
    /\ crashes = 0

Goto(p, label) == pc' = [pc EXCEPT ![p] = label]

\* A read, an append or a write fails, for as often as the bound allows.
Fault == faults < MaxFaults /\ faults' = faults + 1

Files == <<lock, baseline, chain>>

\* The lock file is created exclusively and the heartbeat starts.
Take(p) ==
    /\ lock = NoLock
    /\ lock' = now
    /\ Goto(p, "load")
    /\ beating' = [beating EXCEPT ![p] = TRUE]
    /\ UNCHANGED <<baseline, chain, now, known, next, reported, faults, crashes, history>>

Create(p) ==
    /\ pc[p] = "create"
    /\ \/ Take(p)
       \/ /\ lock # NoLock
          /\ Goto(p, "stat")
          /\ UNCHANGED <<Files, now, known, next, beating, reported, faults, crashes, history>>

Stale == lock # NoLock /\ now - lock > LockTTL

StatWaiting(p) ==
    /\ pc[p] = "stat"
    /\ Goto(p, IF Stale THEN "steal" ELSE "create")
    /\ UNCHANGED <<Files, now, known, next, beating, reported, faults, crashes, history>>

\* lockIsStale: a lock that is gone by now, or young, ends the run.
Stat(p) ==
    /\ pc[p] = "stat"
    /\ Goto(p, IF Stale THEN "steal" ELSE "locked")
    /\ IF Stale /\ \E q \in Processes : pc[q] = "steal"
       THEN contested' = TRUE
       ELSE UNCHANGED contested
    /\ UNCHANGED <<Files, now, known, next, beating, reported, late, faults, crashes>>

\* The stale lock is removed, whoever's file is there by now ...
Steal(p) ==
    /\ pc[p] = "steal"
    /\ lock' = NoLock
    /\ Goto(p, "recreate")
    /\ UNCHANGED <<baseline, chain, now, known, next, beating, reported, faults, crashes, history>>

RecreateShared(p) ==
    /\ pc[p] = "recreate"
    /\ lock' = now
    /\ Goto(p, "load")
    /\ beating' = [beating EXCEPT ![p] = TRUE]
    /\ UNCHANGED <<baseline, chain, now, known, next, reported, faults, crashes, history>>

\* ... and created exclusively once more.
Recreate(p) ==
    /\ pc[p] = "recreate"
    /\ \/ Take(p)
       \/ /\ lock # NoLock
          /\ Goto(p, "locked")
          /\ UNCHANGED <<Files, now, known, next, beating, reported, faults, crashes, history>>

Load(p) ==
    /\ pc[p] = "load"
    /\ \/ /\ known' = [known EXCEPT ![p] = baseline]
          /\ Goto(p, "append")
          /\ UNCHANGED faults
       \/ Fault /\ Goto(p, "abort") /\ UNCHANGED known
    /\ UNCHANGED <<Files, now, next, beating, reported, crashes, history>>

AppendSkippingErrors(p) ==
    /\ pc[p] = "append"
    /\ next[p] \in DOMAIN Batch[p]
    /\ next' = [next EXCEPT ![p] = @ + 1]
    /\ \/ chain' = chain \cup {Batch[p][next[p]].id} /\ UNCHANGED faults
       \/ Fault /\ UNCHANGED chain
    /\ UNCHANGED <<lock, baseline, pc, now, known, beating, reported, crashes, history>>

\* An append error ends the callback and the baseline is not saved.
AppendRecord(p) ==
    /\ pc[p] = "append"
    /\ next[p] \in DOMAIN Batch[p]
    /\ \/ /\ chain' = chain \cup {Batch[p][next[p]].id}
          /\ next' = [next EXCEPT ![p] = @ + 1]
          /\ UNCHANGED <<pc, faults>>
       \/ Fault /\ Goto(p, "abort") /\ UNCHANGED <<chain, next>>
    /\ UNCHANGED <<lock, baseline, now, known, beating, reported, crashes, history>>

SaveThenFail(p) ==
    /\ pc[p] = "append"
    /\ next[p] \notin DOMAIN Batch[p]
    /\ baseline' = Analyze(known[p], Batch[p]).updated
    /\ \/ Goto(p, "release") /\ UNCHANGED faults
       \/ Fault /\ Goto(p, "abort")
    /\ UNCHANGED <<lock, chain, now, known, next, beating, reported, crashes, history>>

\* Every record is in the chain: the callback returns and the state is saved.
Save(p) ==
    /\ pc[p] = "append"
    /\ next[p] \notin DOMAIN Batch[p]
    /\ \/ /\ baseline' = Analyze(known[p], Batch[p]).updated
          /\ Goto(p, "release")
          /\ UNCHANGED faults
       \/ Fault /\ Goto(p, "abort") /\ UNCHANGED baseline
    /\ UNCHANGED <<lock, chain, now, known, next, beating, reported, crashes, history>>

\* The heartbeat stops and the lock file is removed; the run succeeds and
\* returns its gaps, or fails and returns none.
Release(p) ==
    /\ pc[p] \in {"release", "abort"}
    /\ lock' = NoLock
    /\ beating' = [beating EXCEPT ![p] = FALSE]
    /\ IF pc[p] = "release"
       THEN /\ reported' = [reported EXCEPT ![p] = Analyze(known[p], Batch[p]).gaps]
            /\ Goto(p, "done")
       ELSE Goto(p, "failed") /\ UNCHANGED reported
    /\ UNCHANGED <<baseline, chain, now, known, next, faults, crashes, history>>

\* The goroutine touches the lock file, or ends when there is none.
Heartbeat(p) ==
    /\ beating[p]
    /\ \/ lock # NoLock /\ lock' = now /\ UNCHANGED beating
       \/ lock = NoLock /\ beating' = [beating EXCEPT ![p] = FALSE] /\ UNCHANGED lock
    /\ UNCHANGED <<baseline, chain, now, pc, known, next, reported, faults, crashes, history>>

\* The process is killed: its lock file stays.
Die(p) ==
    /\ crashes < MaxCrashes
    /\ pc[p] \notin Ended
    /\ crashes' = crashes + 1
    /\ Goto(p, "dead")
    /\ beating' = [beating EXCEPT ![p] = FALSE]
    /\ UNCHANGED <<Files, now, known, next, reported, faults, history>>

Tick ==
    /\ now < MaxTime
    /\ now' = now + 1
    /\ IF \E p \in Processes : pc[p] \in Holding /\ lock # NoLock /\ now' - lock > LockTTL
       THEN late' = TRUE
       ELSE UNCHANGED late
    /\ UNCHANGED <<Files, pc, known, next, beating, reported, contested, faults, crashes>>

Step(p) ==
    \/ Create(p)
    \/ Stat(p)
    \/ Steal(p)
    \/ Recreate(p)
    \/ Load(p)
    \/ AppendRecord(p)
    \/ Save(p)
    \/ Release(p)

Next ==
    \/ \E p \in Processes : Step(p) \/ Heartbeat(p) \/ Die(p)
    \/ Tick

Spec == Init /\ [][Next]_vars

(* A running process goes on: no step waits for another process.           *)
FairSpec == Spec /\ \A p \in Processes : WF_vars(Step(p))

-----------------------------------------------------------------------------

TypeOK ==
    /\ lock \in 0..MaxTime \cup {NoLock}
    /\ baseline \subseteq Privileges
    /\ chain \subseteq {r.id : r \in Records}
    /\ now \in 0..MaxTime
    /\ pc \in [Processes -> Holding \cup Ended \cup {"create", "stat", "steal", "recreate"}]
    /\ known \in [Processes -> SUBSET Privileges]
    /\ next \in [Processes -> Nat]
    /\ \A p \in Processes : next[p] \in 1..(Len(Batch[p]) + 1)
    /\ beating \in [Processes -> BOOLEAN]
    /\ reported \in [Processes -> SUBSET Records]
    /\ late \in BOOLEAN /\ contested \in BOOLEAN
    /\ faults \in 0..MaxFaults /\ crashes \in 0..MaxCrashes

(* Two runs are never between taking the state lock and removing it.       *)
Exclusive ==
    \A p, q \in Processes : pc[p] \in Holding /\ pc[q] \in Holding => p = q

(* The lock is removed by its name, not by its owner, so exclusion can be  *)
(* lost in two ways, and then for good: a heartbeat that comes after the   *)
(* TTL, or two runs that both found one lock stale, the second of which    *)
(* removes the lock the first has just created.                            *)
Raced == late \/ contested

(* The state lock: two runs are never between taking and removing it,      *)
(* however many runs are killed and taken over, until one of those races.  *)
MutualExclusion == ~ Raced => Exclusive

(* The saved baseline never runs ahead of the evidence: a privilege is in  *)
(* it only if some run has put every record of its batch, one of which     *)
(* observes that privilege, in the chain.                                  *)
BaselineHasEvidence ==
    \A v \in baseline :
        \E p \in Processes :
            /\ \E i \in DOMAIN Batch[p] : Batch[p][i].privilege = v
            /\ \A i \in DOMAIN Batch[p] : Batch[p][i].id \in chain

(* Drift is reported once: until a race for the lock, two runs never both  *)
(* report one privilege.                                                   *)
DriftReportedOnce ==
    ~ Raced => \A p, q \in Processes : \A g \in reported[p], h \in reported[q] :
                  g.privilege = h.privilege => p = q

(* Drift is not swallowed, not even by runs that raced for the lock and    *)
(* overwrote each other's baseline: when every run has ended and none was  *)
(* killed, a saved privilege that no record approves was reported.         *)
DriftReported ==
    (\A p \in Processes : pc[p] \in Ended \ {"dead"})
    => \A v \in baseline :
          (\A r \in Records : r.privilege = v => ~ r.approved)
          => \E p \in Processes : \E g \in reported[p] : g.privilege = v

(* A run ends: it never waits on a lock.                                   *)
RunsEnd == \A p \in Processes : <>(pc[p] \in Ended)

=============================================================================
