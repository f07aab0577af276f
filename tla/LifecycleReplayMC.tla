-------------------------- MODULE LifecycleReplayMC --------------------------
EXTENDS LifecycleReplay

(* Every kind as its producer writes it; besides, an execution that starts *)
(* at the instant of its activation and needs compensation, and one that   *)
(* is blocked and needs it.                                                *)
Good(kind, need, tie) ==
    [kind |-> kind, payload |-> PayloadOf(kind), outcome |-> OutcomeOf(kind),
     defects |-> {}, needs |-> need, tie |-> tie, approval |-> FALSE]

WellFormed == {Good(k, FALSE, FALSE) : k \in RecordKinds}
              \cup {Good("execution_started", TRUE, TRUE),
                    Good("execution_blocked", TRUE, FALSE)}

(* One record for every check, two with the wrong evidence, and one whose  *)
(* references hold an approval.                                            *)
Defects == {"schema", "replayed", "earlier", "correlation", "malformed",
            "binding", "window", "producer", "content_digest", "refs",
            "stale", "key", "digest", "signature", "lineage",
            "unreferenced", "unbound"}
Started == Good("execution_started", FALSE, FALSE)
Flawed == {[Started EXCEPT !.defects = {d}] : d \in Defects}
          \cup {[Started EXCEPT !.payload = "effect"],
                [Started EXCEPT !.outcome = "succeeded"],
                [Started EXCEPT !.kind = "execution_paused"]}

MCCandidates == WellFormed \cup Flawed
                \cup {[Good("containment_requested", FALSE, FALSE)
                        EXCEPT !.approval = TRUE]}
=============================================================================
