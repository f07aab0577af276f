--------------------------- MODULE LifecycleReplay ---------------------------
(***************************************************************************)
(* From Gait's lifecycle packs to the governed view of one Action Contract:*)
(* translate/lifecycle.go, core/governance/actioncontract.go, graph.go and *)
(* derivePacketCompleteness.                                               *)
(*                                                                         *)
(* Runs of the contract come one after the other in time; a verified,      *)
(* authoritative pack becomes one record of the chain. The packet of the   *)
(* contract holds every transition of every run, and its timeline replays  *)
(* them. `replay` is the reducer fed with each record as it is verified,   *)
(* to compare the two machines step by step: no code keeps it.             *)
(***************************************************************************)
EXTENDS GaitLifecycle, LifecycleReducer

CONSTANTS
    Candidates,  \* the records a pack may hold
    MaxRuns      \* bound: lifecycle packs of the contract

ASSUME MaxRunsAssumption == MaxRuns \in Nat

VARIABLES
    runs,    \* the chain's lifecycle records: [records, done, needs, first]
    settled, \* the reducer's state after the runs of the chain
    replay   \* and after the records of the pack being read

replayVars == <<done, needs, accepted, verdict, runs, settled, replay>>

AxisOf(kind) == IF kind = "activated" THEN "enforcement" ELSE PayloadOf(kind)

(* lifecycleTransitionState, and "present" for the activation, which has   *)
(* no transitions of its own.                                              *)
TransitionState(kind) ==
    CASE kind = "activated" -> "present"
      [] kind \in {"execution_started", "compensation_started"} -> "started"
      [] kind = "execution_blocked" -> "blocked"
      [] kind = "execution_succeeded" -> "succeeded"
      [] kind = "effect_recorded" -> "recorded"
      [] kind = "effect_validated" -> "validated"
      [] kind = "execution_failed" -> "failed"
      [] kind = "compensation_required" -> "required"
      [] kind \in {"compensation_completed", "containment_completed"} ->
            "completed"
      [] kind = "containment_requested" -> "requested"
      [] kind = "containment_partial" -> "partial"
      [] kind = "containment_unresolved" -> "gap"
      [] OTHER -> "unknown"

(* Mutant: a validated effect is not terminal.                             *)
TerminalButEffect(kind) == kind \in ExecutionEnds \cup ContainmentEnds
                                    \cup {"compensation_completed"}

Terminal(kind) == kind \in ExecutionEnds \cup ContainmentEnds
                           \cup {"effect_validated", "compensation_completed"}

(* The event a record of the pack stands for: "" for the preludes that     *)
(* have none.                                                              *)
EventKindOf(kind) == EvidenceEventKind(AxisOf(kind), TransitionState(kind))

Fed(s, kind) ==
    IF EventKindOf(kind) = "" THEN s
    ELSE ReducerStep(s, [kind |-> EventKindOf(kind),
                         state |-> TransitionState(kind)])

-----------------------------------------------------------------------------
(* TranslateLifecycle and verifiedLifecycleEvidence. The activation's      *)
(* event has the identifier of the chain record; `first` says whether it   *)
(* sorts before those of the pack's own records. An approval among a       *)
(* record's references has no transition: it is dated by the whole pack.   *)
Span == 20           \* more than the instants, and the records, of a run

EventAt(run, n, i) ==
    LET kind == run.records[i].kind IN
    [kind |-> EventKindOf(kind), state |-> TransitionState(kind),
     at |-> n * Span + run.records[i].at,
     id |-> IF kind = "activated" /\ run.first THEN n * 2 * Span
            ELSE IF kind = "activated" THEN n * 2 * Span + Span
            ELSE n * 2 * Span + i,
     digest |-> n * 2 * Span + i]

ApprovalEvent(run, n) ==
    [kind |-> EvidenceEventKind("approval", "present"), state |-> "present",
     at |-> n * Span + run.records[Len(run.records)].at,
     id |-> n * 2 * Span + Span + 1, digest |-> n * 2 * Span + Span + 1]

RunEvents(run, n) ==
    {EventAt(run, n, i) : i \in {j \in DOMAIN run.records :
                                    EventKindOf(run.records[j].kind) # ""}}
    \cup {ApprovalEvent(run, n) : i \in {j \in DOMAIN run.records :
                                            run.records[j].approval}}

(* evidenceForContract: the proposal is the first event of every contract. *)
ProposalEvent == [kind |-> EvidenceEventKind("proposal", ""), state |-> "",
                  at |-> 0, id |-> 0, digest |-> 0]

EventsFromPacket ==
    {ProposalEvent} \cup UNION {RunEvents(runs[n], n) : n \in DOMAIN runs}

ProjectTimeline == ReduceVerified(EventsFromPacket)

(* derivePacketCompleteness for the axes lifecycle evidence speaks of: an  *)
(* item marked terminal overrides the others, and the last of them in the  *)
(* order of the evidence identifiers, which is no order of time, wins.     *)
ItemState(kind) ==
    CASE TransitionState(kind) \in {"gap", "failed", "required", "blocked"} ->
            "gap"
      [] TransitionState(kind) \in {"started", "requested", "partial",
                                    "recorded"} -> "unknown"
      [] OTHER -> "present"

Items(axis) == {k \in RecordKinds :
                    /\ AxisOf(k) = axis
                    /\ \E n \in DOMAIN runs : k \in runs[n].done}

AxisStates(axis) ==
    LET ends == {ItemState(k) : k \in {j \in Items(axis) : Terminal(j)}}
        states == {ItemState(k) : k \in Items(axis)}
    IN  IF Items(axis) = {} THEN {"missing"}
        ELSE IF ends # {} THEN ends
        ELSE IF "gap" \in states THEN {"gap"}
        ELSE IF "unknown" \in states THEN {"unknown"}
        ELSE {"present"}

-----------------------------------------------------------------------------
NextPack == /\ Len(runs) < MaxRuns
            /\ \E complete \in BOOLEAN : Begin(complete)
            /\ replay' = settled
            /\ UNCHANGED <<runs, settled>>

(* A record of the pack is verified; the reducer is fed its event.         *)
Read(Reading(_)) == \E r \in Candidates : /\ Reading(r)
                                         /\ replay' = Fed(replay, r.kind)
                                         /\ UNCHANGED <<runs, settled>>

RefusePack == /\ \E r \in Candidates : Refuse(r)
              /\ replay' = settled
              /\ UNCHANGED <<runs, settled>>

EndOfPack == /\ \E fixtureKey \in BOOLEAN : Finish(fixtureKey)
             /\ replay' = IF Ended THEN replay ELSE settled
             /\ UNCHANGED <<runs, settled>>

(* TranslateLifecycle: only an authoritative result becomes a record; one  *)
(* of the fixture's key is refused.                                        *)
RefuseFixture == /\ verdict = "fixture"
                 /\ Leave("refused")
                 /\ replay' = settled
                 /\ UNCHANGED <<runs, settled>>

Translate == /\ verdict = "authoritative"
             /\ \E first \in BOOLEAN :
                    runs' = Append(runs, [records |-> accepted, done |-> done,
                                          needs |-> needs, first |-> first])
             /\ settled' = replay
             /\ Leave("idle")
             /\ UNCHANGED replay

ReplayInit ==
    /\ GaitInit
    /\ runs = <<>>
    /\ settled = ReducerStep(Fresh, ProposalEvent)
    /\ replay = ReducerStep(Fresh, ProposalEvent)

ReplayNext ==
    \/ NextPack
    \/ Read(ReadPrelude) \/ Read(ReadExecution) \/ Read(ReadEffect)
    \/ Read(ReadContainment) \/ Read(ReadCompensation)
    \/ RefusePack \/ EndOfPack \/ RefuseFixture \/ Translate

ReplaySpec == ReplayInit /\ [][ReplayNext]_replayVars

-----------------------------------------------------------------------------
ReplayTypeOK ==
    /\ done \subseteq RecordKinds
    /\ needs \in BOOLEAN
    /\ verdict \in {"idle", "reading", "refused", "fixture", "authoritative"}
    /\ Len(runs) \in 0..MaxRuns
    /\ settled.status \in Statuses /\ replay.status \in Statuses

(* A pack the verifier lets through is a history the reducer accepts: the  *)
(* only refusal is that of a run that follows one left in partial or gap.  *)
IllegalOnlyAfterGap ==
    replay.illegal => replay.status \in {"partial", "gap"}

(* A lifecycle called complete hides no blocked run, no containment that   *)
(* is partial or unresolved, and no compensation that was needed and did   *)
(* not complete, in any of its runs.                                       *)
CompleteHidesNothing ==
    Complete(settled) =>
        \A n \in DOMAIN runs :
            /\ "execution_blocked" \notin runs[n].done
            /\ ContainmentStatus(runs[n].done) \in {"", "completed"}
            /\ runs[n].needs => "compensation_completed" \in runs[n].done

(* The timeline, which sorts the events of a packet by instant and         *)
(* identifier, tells the order the packs were read in, unless an           *)
(* activation has the instant of the execution it sorts behind or an       *)
(* approval is among the references.                                       *)
TieBehind(run) ==
    /\ ~ run.first
    /\ \E i, j \in DOMAIN run.records : /\ run.records[i].kind = "activated"
                                        /\ i < j
                                        /\ run.records[i].at = run.records[j].at

TimelineIsReplay ==
    (/\ verdict = "idle"
     /\ \A n \in DOMAIN runs :
        /\ ~ TieBehind(runs[n])
        /\ \A i \in DOMAIN runs[n].records : ~ runs[n].records[i].approval)
    => ProjectTimeline = settled

(* For a contract of one run, the record's authoritative_success, the axes *)
(* of the packet and the timeline give the same answer, whatever the order *)
(* of the evidence in the packet.                                          *)
SuccessAgrees ==
    Len(runs) = 1 =>
        LET success == AuthoritativeSuccess(runs[1].done) IN
        /\ success => Complete(settled)
        /\ success <=>
                /\ \A axis \in {"execution", "effect", "containment"} :
                        AxisStates(axis) = {"present"}
                /\ AxisStates("compensation")
                        \in {{"present"}, {"missing"}}
=============================================================================
