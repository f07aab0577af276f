--------------------------- MODULE LifecycleReducer ---------------------------
(***************************************************************************)
(* core/governance/reducer.go and the event kinds of graph.go: the state   *)
(* machine that replays the events of one Action Contract.                 *)
(*                                                                         *)
(* An event is [id, kind, at, state, digest]. Identifiers are naturals in  *)
(* the order of the strings they stand for. Every event is bound to the    *)
(* contract being replayed (ReduceVerified), because the packets it comes  *)
(* from carry the contract's own reference on every item.                  *)
(***************************************************************************)
EXTENDS Naturals, Sequences, FiniteSets

Effects == {"effect_recorded", "effect_validated", "effect_rejected",
            "effect_unresolved"}

Compensations == {"compensation_required", "compensation_not_required",
                  "compensation_started", "compensation_failed",
                  "compensation_unresolved", "compensated"}

Containments == {"containment_requested", "containment_partial",
                 "containment_unresolved", "contained"}

Executions == {"execution_started", "execution_succeeded",
               "execution_failed", "execution_blocked"}

Stops == {"stop_requested", "revocation_requested"}

EventKinds == Effects \cup Compensations \cup Containments \cup Executions
              \cup Stops
              \cup {"proposed", "registered", "approved", "activated",
                    "stop_acknowledged", "revocation_acknowledged"}

Statuses == {"unknown", "proposed", "active", "executing", "succeeded",
             "failed", "blocked", "effect_recorded", "compensation_required",
             "compensating", "compensated", "containing", "contained",
             "partial", "gap", "stopping"}

(* A run that has ended in one of these may be followed by another. *)
Restartable == {"succeeded", "failed", "blocked", "compensated", "contained"}

(* The table of legal transitions: the kinds each status admits. *)
Allowed(status) ==
    (IF status \in Restartable THEN {"activated"} ELSE {}) \cup
    CASE status = "unknown" -> {"proposed", "registered"}
      [] status = "proposed" -> {"approved", "activated"}
      [] status = "active" ->
            {"execution_started", "execution_blocked"} \cup Stops
      [] status = "executing" ->
            (Executions \ {"execution_started"}) \cup Effects \cup Stops
      [] status = "succeeded" -> Effects \cup Compensations \cup Containments
      [] status = "failed" ->
            Compensations \cup (Containments \ {"containment_requested"})
      [] status = "blocked" -> Compensations \cup {"contained"}
      [] status = "effect_recorded" ->
            (Effects \ {"effect_recorded"}) \cup Compensations
      [] status = "compensation_required" ->
            Effects \cup Containments \cup
            (Compensations \ {"compensation_required",
                              "compensation_not_required"})
      [] status = "compensating" ->
            Effects \cup Containments \cup
            {"compensated", "compensation_failed", "compensation_unresolved"}
      [] status = "compensated" -> Effects \cup Containments
      [] status = "containing" ->
            (Containments \ {"containment_requested"}) \cup Compensations
      [] status = "contained" ->
            {"compensation_required", "compensation_not_required",
             "compensation_started", "compensated"}
      [] status \in {"partial", "gap"} -> Compensations
      [] status = "stopping" -> {"stop_acknowledged", "contained"}
      [] OTHER -> {}

(* A containment that claims completion but says it is not resolved. *)
Unresolved(e) == e.state \in {"unresolved", "unknown", "gap"}

StatusAfter(status, e) ==
    CASE e.kind \in {"proposed", "registered"} -> "proposed"
      [] e.kind \in {"approved", "activated"} -> "active"
      [] e.kind = "execution_started" -> "executing"
      [] e.kind \in {"execution_succeeded", "effect_validated"} -> "succeeded"
      [] e.kind \in {"execution_failed", "effect_rejected"} -> "failed"
      [] e.kind = "execution_blocked" -> "blocked"
      [] e.kind = "effect_recorded" -> "effect_recorded"
      [] e.kind = "compensation_required" -> "compensation_required"
      [] e.kind = "compensation_not_required" -> status
      [] e.kind = "compensation_started" -> "compensating"
      [] e.kind = "compensated" -> "compensated"
      [] e.kind = "containment_requested" -> "containing"
      [] e.kind = "containment_partial" -> "partial"
      [] e.kind = "contained" -> IF Unresolved(e) THEN "gap" ELSE "contained"
      [] e.kind \in Stops -> "stopping"
      [] e.kind \in {"stop_acknowledged", "revocation_acknowledged"} ->
            "contained"
      [] OTHER -> "gap"

Missing == "REQUIRED_COMPENSATION_MISSING"

BlockingGaps == {"GAP_CONTAINMENT", "GAP_CONTAINMENT_PARTIAL", "GAP_EFFECT",
                 "GAP_EXECUTION_BLOCKED", "GAP_COMPENSATION"}

(* The reason codes after e. A completed compensation discharges the       *)
(* requirement; no other reason is ever taken back.                        *)
ReasonsAfter(reasons, e) ==
    CASE e.kind = "execution_blocked" -> reasons \cup {"GAP_EXECUTION_BLOCKED"}
      [] e.kind = "effect_unresolved" -> reasons \cup {"GAP_EFFECT"}
      [] e.kind \in {"compensation_failed", "compensation_unresolved"} ->
            reasons \cup {"GAP_COMPENSATION"}
      [] e.kind = "containment_partial" ->
            reasons \cup {"GAP_CONTAINMENT_PARTIAL"}
      [] \/ e.kind = "containment_unresolved"
         \/ e.kind = "contained" /\ Unresolved(e) ->
            reasons \cup {"GAP_CONTAINMENT"}
      [] e.kind = "compensation_required" -> reasons \cup {Missing}
      [] e.kind = "compensated" -> reasons \ {Missing}
      [] OTHER -> reasons

-----------------------------------------------------------------------------
(* The reducer's state; once an event is refused the reduction has failed. *)
Fresh == [status |-> "unknown", reasons |-> {}, illegal |-> FALSE]

ReducerStep(s, e) ==
    IF s.illegal \/ e.kind \notin Allowed(s.status)
    THEN [s EXCEPT !.illegal = TRUE]
    ELSE [s EXCEPT !.status = StatusAfter(s.status, e),
                   !.reasons = ReasonsAfter(s.reasons, e)]

Complete(s) == /\ ~ s.illegal
               /\ s.status \in {"succeeded", "failed", "contained",
                                "compensated"}
               /\ s.reasons \cap BlockingGaps = {}

(* Mutant: events of one instant replay from the last identifier.          *)
EventBeforeLast(e, f) == e.at < f.at \/ (e.at = f.at /\ e.id > f.id)

(* Events replay by instant, then by identifier. *)
EventBefore(e, f) == e.at < f.at \/ (e.at = f.at /\ e.id < f.id)

(* Events are a set: identifiers and digests that occur twice are refused. *)
Distinct(events) ==
    \A e, f \in events : e # f => e.id # f.id /\ e.digest # f.digest

\* The n-th event is the one that n - 1 events come before.
Earlier(events, e) == {f \in events : EventBefore(f, e)}

OneOf(S) == CHOOSE e \in S : TRUE

Sorted(events) ==
    [n \in 1..Cardinality(events) |->
        OneOf({e \in events : Cardinality(Earlier(events, e)) = n - 1})]

Replayed(sorted) ==
    LET state[n \in 0..Len(sorted)] ==
            IF n = 0 THEN Fresh ELSE ReducerStep(state[n - 1], sorted[n])
    IN  state[Len(sorted)]

ReduceVerified(events) == IF Distinct(events) THEN Replayed(Sorted(events))
                                              ELSE [Fresh EXCEPT !.illegal = TRUE]

(* graph.go: what a piece of evidence says happened. *)
EvidenceEventKind(axis, state) ==
    CASE axis = "proposal" -> "proposed"
      [] axis = "approval" -> "approved"
      [] axis = "enforcement" -> "activated"
      [] axis = "execution" ->
            CASE state \in {"failed", "gap", "rejected"} -> "execution_failed"
              [] state = "blocked" -> "execution_blocked"
              [] state \in {"succeeded", "completed"} -> "execution_succeeded"
              [] OTHER -> "execution_started"
      [] axis = "effect" ->
            CASE state = "recorded" -> "effect_recorded"
              [] state \in {"rejected", "failed", "gap"} -> "effect_rejected"
              [] state \in {"unknown", "unresolved", "started", "requested", ""}
                    -> "effect_unresolved"
              [] OTHER -> "effect_validated"
      [] axis = "containment" ->
            CASE state = "partial" -> "containment_partial"
              [] state \in {"requested", "started"} -> "containment_requested"
              [] state \in {"unresolved", "unknown", "gap"} ->
                    "containment_unresolved"
              [] OTHER -> "contained"
      [] axis = "compensation" ->
            CASE state = "required" -> "compensation_required"
              [] state = "not_required" -> "compensation_not_required"
              [] state \in {"failed", "rejected", "gap"} ->
                    "compensation_failed"
              [] state \in {"started", "requested"} -> "compensation_started"
              [] state \in {"completed", "succeeded", "present"} ->
                    "compensated"
              [] OTHER -> "compensation_unresolved"
      [] OTHER -> ""
=============================================================================
