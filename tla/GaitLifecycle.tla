---------------------------- MODULE GaitLifecycle ----------------------------
(***************************************************************************)
(* core/ingest/gait/evidence: verification of one lifecycle pack.          *)
(*                                                                         *)
(* A pack is the records of one run of an Action Contract, in the order of *)
(* the pack. A record is                                                   *)
(*   [kind, payload, outcome, defects, needs, tie, approval]               *)
(* its kind, the typed evidence it carries and that evidence's outcome,    *)
(* the checks it would fail, whether it says that compensation is          *)
(* required, whether it has the instant of the record before it, and       *)
(* whether an approval is among its evidence references. Its identifier is *)
(* its place in the pack: records of one instant are ordered by it.        *)
(*                                                                         *)
(* The code goes on reading after a reason for refusal, to report them     *)
(* all; the verdict no longer changes, so the model stops there.           *)
(***************************************************************************)
EXTENDS Naturals, Sequences, FiniteSets

VARIABLES
    done,      \* the kinds accepted so far (the flags of the reading loop)
    needs,     \* compensationNeeded
    accepted,  \* the records accepted so far: [kind, at, approval]
    verdict    \* "idle", "reading", "refused", "fixture", "authoritative"

gvars == <<done, needs, accepted, verdict>>

Preludes == {"proposal_ingested", "activation_requested",
             "precondition_evaluated", "decision_ready", "activated"}
ExecutionEnds == {"execution_blocked", "execution_succeeded",
                  "execution_failed"}
ExecutionKinds == ExecutionEnds \cup {"execution_started"}
EffectKinds == {"effect_recorded", "effect_validated"}
ContainmentEnds == {"containment_completed", "containment_partial",
                    "containment_unresolved"}
ContainmentKinds == ContainmentEnds \cup {"containment_requested"}
CompensationKinds == {"compensation_required", "compensation_started",
                      "compensation_completed"}
RecordKinds == Preludes \cup ExecutionKinds \cup EffectKinds
               \cup ContainmentKinds \cup CompensationKinds

PayloadOf(kind) == CASE kind \in ExecutionKinds -> "execution"
                     [] kind \in EffectKinds -> "effect"
                     [] kind \in ContainmentKinds -> "containment"
                     [] kind \in CompensationKinds -> "compensation"
                     [] OTHER -> "none"

(* What a kind's evidence must give as its outcome.                        *)
OutcomeOf(kind) ==
    CASE kind \in {"execution_started", "compensation_started"} -> "started"
      [] kind = "execution_blocked" -> "blocked"
      [] kind = "execution_succeeded" -> "succeeded"
      [] kind = "execution_failed" -> "failed"
      [] kind = "effect_recorded" -> "recorded"
      [] kind = "effect_validated" -> "validated"
      [] kind = "containment_requested" -> "requested"
      [] kind = "containment_partial" -> "partial"
      [] kind = "containment_unresolved" -> "unresolved"
      [] kind \in {"containment_completed", "compensation_completed"} ->
            "completed"
      [] kind = "compensation_required" -> "required"
      [] OTHER -> "none"

(* The first check a record fails, or "": each of them refuses the pack.   *)
ValidateBinding(r) ==
    IF "binding" \in r.defects THEN "lineage_mismatch" ELSE ""

ValidateCommon(r) ==
    IF "malformed" \in r.defects THEN "malformed"
    ELSE IF ValidateBinding(r) # "" THEN ValidateBinding(r)
    ELSE IF "window" \in r.defects THEN "time_window"
    ELSE IF "producer" \in r.defects THEN "producer_invalid"
    ELSE IF "content_digest" \in r.defects THEN "digest_mismatch"
    ELSE ""

ValidateTyped(r) ==
    IF r.payload = "none" THEN ""
    ELSE IF ValidateCommon(r) # "" THEN ValidateCommon(r)
    ELSE IF "refs" \in r.defects THEN "lineage_missing"
    ELSE IF r.payload # PayloadOf(r.kind) THEN "outcome_invalid"
    ELSE ""

VerifyLifecycleRecord(r) ==
    IF "correlation" \in r.defects THEN "correlation_invalid"
    ELSE IF ValidateTyped(r) # "" THEN ValidateTyped(r)
    ELSE IF r.payload # "none" /\ "stale" \in r.defects THEN "time_window"
    ELSE IF r.payload # "none" /\ "key" \in r.defects THEN "public_key_mismatch"
    ELSE IF "digest" \in r.defects THEN "digest_mismatch"
    ELSE IF "signature" \in r.defects THEN "signature_invalid"
    ELSE ""

(* The record names the contract, activation, runtime, policy, target and  *)
(* environment the caller expects, and the binding the run began with.     *)
ValidateRecordLineage(r) ==
    IF "lineage" \in r.defects THEN "lineage_mismatch" ELSE ""

Sound(r) == /\ "schema" \notin r.defects /\ "replayed" \notin r.defects
            /\ "earlier" \notin r.defects
            /\ VerifyLifecycleRecord(r) = ""
            /\ ValidateRecordLineage(r) = ""
            /\ "unreferenced" \notin r.defects

-----------------------------------------------------------------------------
(* What each kind asks of the records before it and of its own references. *)
Bound(r) == "unbound" \notin r.defects
Carries(r) == r.payload = PayloadOf(r.kind) /\ r.outcome = OutcomeOf(r.kind)

PreludeInOrder(kind) ==
    CASE kind = "proposal_ingested" -> TRUE
      [] kind = "activation_requested" -> "proposal_ingested" \in done
      [] kind = "precondition_evaluated" ->
            {"proposal_ingested", "activation_requested"} \subseteq done
      [] kind = "decision_ready" ->
            {"proposal_ingested", "activation_requested",
             "precondition_evaluated"} \subseteq done
      [] kind = "activated" ->
            {"activation_requested", "decision_ready"} \subseteq done

ExecutionInOrder(kind) ==
    /\ "activated" \in done
    /\ ExecutionEnds \cap done = {}
    /\ kind \in {"execution_started", "execution_blocked"}
          <=> "execution_started" \notin done

EffectInOrder(kind) ==
    IF kind = "effect_recorded" THEN "execution_succeeded" \in done
                                ELSE "effect_recorded" \in done

(* Mutant: containment may be requested before the effect is validated.    *)
ContainmentEarly(kind) ==
    /\ ContainmentEnds \cap done = {}
    /\ IF kind = "containment_requested" THEN "effect_recorded" \in done
                                         ELSE "containment_requested" \in done

ContainmentInOrder(kind) ==
    /\ ContainmentEnds \cap done = {}
    /\ IF kind = "containment_requested" THEN "effect_validated" \in done
                                         ELSE "containment_requested" \in done

CompensationInOrder(kind) ==
    CASE kind = "compensation_required" ->
            needs /\ ExecutionEnds \cap done # {}
      [] kind = "compensation_started" -> "compensation_required" \in done
      [] kind = "compensation_completed" -> "compensation_started" \in done

InOrder(kind) ==
    /\ kind \notin done
    /\ CASE kind \in Preludes -> PreludeInOrder(kind)
         [] kind \in ExecutionKinds -> ExecutionInOrder(kind)
         [] kind \in EffectKinds -> EffectInOrder(kind)
         [] kind \in ContainmentKinds -> ContainmentInOrder(kind)
         [] kind \in CompensationKinds -> CompensationInOrder(kind)

Accept(r) == /\ verdict = "reading"
             /\ Sound(r) /\ Bound(r) /\ InOrder(r.kind)
             /\ done' = done \cup {r.kind}
             /\ accepted' = Append(accepted,
                    [kind |-> r.kind, approval |-> r.approval,
                     at |-> IF accepted = <<>> THEN 1
                            ELSE accepted[Len(accepted)].at
                                 + (IF r.tie THEN 0 ELSE 1)])
             /\ UNCHANGED verdict

-----------------------------------------------------------------------------
(* Mutant: the compensation a run needs is not asked for at its end.       *)
EndedUncompensated ==
    \/ {"execution_blocked", "execution_failed"} \cap done # {}
    \/ /\ {"execution_succeeded", "effect_validated"} \subseteq done
       /\ ContainmentEnds \cap done # {}

(* The terminal conditions of a run that was read without a refusal.       *)
Ended ==
    /\ \/ {"execution_blocked", "execution_failed"} \cap done # {}
       \/ /\ {"execution_succeeded", "effect_validated"} \subseteq done
          /\ ContainmentEnds \cap done # {}
    /\ needs => "compensation_completed" \in done

(* Actions. Options or an evaluation time outside the activation window    *)
(* refuse the pack whatever it says.                                       *)
Begin(complete) ==
    /\ verdict \in {"idle", "refused"}
    /\ verdict' = IF complete THEN "reading" ELSE "refused"
    /\ UNCHANGED <<done, needs, accepted>>

ReadPrelude(r) == r.kind \in Preludes /\ Accept(r) /\ UNCHANGED needs

ReadExecution(r) == /\ r.kind \in ExecutionKinds /\ Carries(r)
                    /\ Accept(r)
                    /\ needs' = (needs \/ r.needs)

ReadEffect(r) == /\ r.kind \in EffectKinds /\ Carries(r)
                 /\ Accept(r) /\ UNCHANGED needs

ReadContainment(r) == /\ r.kind \in ContainmentKinds /\ Carries(r)
                      /\ Accept(r) /\ UNCHANGED needs

ReadCompensation(r) == /\ r.kind \in CompensationKinds /\ Carries(r)
                       /\ Accept(r) /\ UNCHANGED needs

(* The flags are the loop's own: they are gone with the verdict.           *)
Leave(next) == /\ verdict' = next
               /\ done' = {} /\ needs' = FALSE /\ accepted' = <<>>

Refuse(r) ==
    /\ verdict = "reading"
    /\ ~ (/\ Sound(r) /\ Bound(r)
          /\ r.kind \in RecordKinds /\ InOrder(r.kind)
          /\ r.kind \in Preludes \/ Carries(r))
    /\ Leave("refused")

(* The end of the pack: a run that has not ended, and a pack without typed *)
(* evidence, are refused; a verified one is authoritative unless the       *)
(* trusted key is the fixture's.                                           *)
Finish(fixtureKey) ==
    /\ verdict = "reading"
    /\ IF Ended THEN /\ verdict' = IF fixtureKey THEN "fixture"
                                                 ELSE "authoritative"
                     /\ UNCHANGED <<done, needs, accepted>>
                ELSE Leave("refused")

(* The snapshot of a run that read the kinds in d: the outcome of the last *)
(* record of each axis, and whether the run is an authoritative success.   *)
ContainmentStatus(d) ==
    IF "containment_completed" \in d THEN "completed"
    ELSE IF "containment_partial" \in d THEN "partial"
    ELSE IF "containment_unresolved" \in d THEN "unresolved"
    ELSE IF "containment_requested" \in d THEN "requested"
    ELSE ""

CompensationStatus(d) == IF "compensation_completed" \in d THEN "completed"
                         ELSE IF "compensation_started" \in d THEN "started"
                         ELSE IF "compensation_required" \in d THEN "required"
                         ELSE ""

AuthoritativeSuccess(d) ==
    /\ "execution_succeeded" \in d
    /\ "effect_validated" \in d
    /\ ContainmentStatus(d) = "completed"
    /\ CompensationStatus(d) \in {"", "completed"}

GaitInit == /\ done = {} /\ needs = FALSE /\ accepted = <<>>
            /\ verdict = "idle"
=============================================================================
