---------------------------- MODULE CollectRun ----------------------------
(***************************************************************************)
(* core/collect: `axym collect` runs its collectors in order and emits     *)
(* what they return to the evidence store.                                 *)
(*                                                                         *)
(* Runs follow one another on one store directory, each in a sink mode or  *)
(* as a dry run; a run may be canceled or killed.  The store is the one    *)
(* EvidenceLog promises, and EvidenceStore implements: an append that ends *)
(* in an error may or may not have left its record behind, or, in the      *)
(* compliance mode that a run which fails closed opens the store in, its   *)
(* key alone.  A candidate stands for its content and its dedupe key.      *)
(*                                                                         *)
(* A definition that no action or property uses is a faulty variant of the *)
(* one below it; the properties are run against it to see them violated.   *)
(***************************************************************************)
EXTENDS Naturals, Sequences, SequencesExt

CONSTANTS
    Candidates,  \* what collectors return
    Malformed,   \* those record.NormalizeAndBuild rejects
    Returns,     \* Returns[i]: what the i-th collector in order returns
    Modes,       \* the values of --sink-mode
    MaxRuns,     \* bound: runs
    MaxFaults    \* bound: appends that fail

Ordered == DOMAIN Returns  \* Registry.Ordered: the collectors by name

ASSUME CollectAssumption ==
    /\ Malformed \subseteq Candidates
    /\ Returns \in Seq(Seq(Candidates))
    /\ Modes \subseteq STRING
    /\ MaxRuns \in Nat /\ MaxFaults \in Nat

VARIABLES
    log,      \* the evidence store's log
    acks,     \* its answers "appended"
    left,     \* the candidates whose keys undone appends left in its index
    pc,       \* "idle", "collect" the next source, or "emit" a candidate
    mode,     \* the run's sink mode
    dry,      \* --dry-run
    source,   \* position of the source at work
    pending,  \* its candidates not yet emitted
    summary,  \* its SourceSummary
    sources,  \* Result.Sources
    result,   \* the rest of Result
    canceled, \* the context is canceled
    outcome,  \* how the run ended
    before,   \* length of the log when the run began
    runs,
    faults

vars == <<log, acks, left, pc, mode, dry, source, pending, summary, sources,
          result, canceled, outcome, before, runs, faults>>

RepeatsContent(l, r) == r \in ToSet(l)

KeyOfContent(r) == r

Store == INSTANCE EvidenceLog
            WITH Records <- Candidates \ Malformed, Leavable <- Candidates \ Malformed,
                 Repeats <- RepeatsContent, KeyOf <- KeyOfContent, skipped <- {}

-----------------------------------------------------------------------------
(* sink.NormalizeMode and OnSinkFailure: an unknown mode fails closed.     *)

AllowsKnownOnly(m) == m # "fail_closed"

AllowsFailure(m) == m \in {"advisory_only", "shadow"}

\* A SourceSummary does not count the candidates deduped; DEDUPED is, of its
\* reason codes, the one kept here.
NewSummary == [would |-> 0, captured |-> 0, rejected |-> 0, reasons |-> {},
               status |-> "ok"]

NewResult == [would |-> 0, captured |-> 0, rejected |-> 0, deduped |-> 0,
              appended |-> 0, failures |-> 0, degraded |-> FALSE]

\* One more in a field of the source's summary and of the result.
Count(field) ==
    /\ summary' = [summary EXCEPT ![field] = @ + 1]
    /\ result'  = [result EXCEPT ![field] = @ + 1]

StatusOf(s) ==
    IF s.captured = 0 /\ s.would = 0 THEN "empty"
    ELSE IF s.rejected > 0 THEN "partial" ELSE "ok"

-----------------------------------------------------------------------------

Init ==
    /\ Store!Init
    /\ pc = "idle"
    /\ mode \in Modes
    /\ dry = FALSE
    /\ source = 1
    /\ pending = <<>>
    /\ summary = NewSummary
    /\ sources = <<>>
    /\ result = NewResult
    /\ canceled = FALSE
    /\ outcome = "none"
    /\ before = 0
    /\ runs = 0
    /\ faults = 0

Start(m, d) ==
    /\ pc = "idle"
    /\ runs < MaxRuns
    /\ runs' = runs + 1
    /\ pc' = "collect"
    /\ mode' = m
    /\ dry' = d
    /\ source' = 1
    /\ pending' = <<>>
    /\ summary' = NewSummary
    /\ sources' = <<>>
    /\ result' = NewResult
    /\ canceled' = FALSE
    /\ outcome' = "none"
    /\ before' = Len(log)
    /\ UNCHANGED <<log, acks, left, faults>>

End(how) ==
    /\ pc' = "idle"
    /\ outcome' = how
    /\ UNCHANGED <<mode, dry, source, pending, summary, sources, result,
                   canceled, before, runs>>

SpinCanceled ==
    /\ pc = "collect" /\ source \in Ordered
    /\ canceled
    /\ UNCHANGED vars

\* The collector is called; the context is looked at before and after.
StopCanceled ==
    /\ pc = "collect" /\ source \in Ordered
    /\ canceled
    /\ End("canceled")
    /\ UNCHANGED <<log, acks, left, faults>>

CollectFailsLast ==
    /\ pc = "collect" /\ source \in Ordered
    /\ ~ canceled
    /\ sources' = Append(sources, [NewSummary EXCEPT !.status = "failed"])
    /\ result' = [result EXCEPT !.failures = @ + 1]
    /\ source' = Len(Returns) + 1
    /\ UNCHANGED <<log, acks, left, pc, mode, dry, pending, summary, canceled,
                   outcome, before, runs, faults>>

\* A plugin times out, or a collector returns any other error: the source
\* failed, and the next one is tried.
CollectFails ==
    /\ pc = "collect" /\ source \in Ordered
    /\ ~ canceled
    /\ sources' = Append(sources, [NewSummary EXCEPT !.status = "failed"])
    /\ result' = [result EXCEPT !.failures = @ + 1]
    /\ source' = source + 1
    /\ UNCHANGED <<log, acks, left, pc, mode, dry, pending, summary, canceled,
                   outcome, before, runs, faults>>

Collect ==
    /\ pc = "collect" /\ source \in Ordered
    /\ ~ canceled
    /\ pc' = "emit"
    /\ pending' = Returns[source]
    /\ summary' = [NewSummary EXCEPT !.would = Len(Returns[source])]
    /\ result' = [result EXCEPT !.would = @ + Len(Returns[source])]
    /\ UNCHANGED <<log, acks, left, mode, dry, source, sources, canceled, outcome,
                   before, runs, faults>>

Taken == pending' = Tail(pending)

\* Validation fails: in a dry run and in a real one the candidate is counted
\* as rejected and the run goes on.
RejectMalformed ==
    /\ pc = "emit" /\ pending # <<>> /\ Head(pending) \in Malformed
    /\ Taken
    /\ Count("rejected")
    /\ UNCHANGED <<log, acks, left, faults, pc>>

DryCapture ==
    /\ pc = "emit" /\ pending # <<>> /\ Head(pending) \notin Malformed
    /\ dry
    /\ Taken
    /\ Count("captured")
    /\ UNCHANGED <<log, acks, left, faults, pc>>

Emitting ==
    pc = "emit" /\ pending # <<>> /\ Head(pending) \notin Malformed /\ ~ dry

EmitAppended ==
    /\ Emitting
    /\ Store!Append1(Head(pending)) /\ acks' # acks
    /\ Taken
    /\ summary' = [summary EXCEPT !.captured = @ + 1]
    /\ result' = [result EXCEPT !.captured = @ + 1, !.appended = @ + 1]
    /\ UNCHANGED <<faults, pc>>

DedupedAsCaptured ==
    /\ Emitting
    /\ Store!Known(Head(pending))
    /\ Taken
    /\ summary' = [summary EXCEPT !.captured = @ + 1]
    /\ result' = [result EXCEPT !.captured = @ + 1, !.appended = @ + 1]
    /\ UNCHANGED <<log, acks, left, faults, pc>>

\* The store answers "deduped": for a candidate whose content it has, or for
\* one whose key an undone append left in the index.
EmitDeduped ==
    /\ Emitting
    /\ Store!Known(Head(pending))
    /\ Taken
    /\ summary' = [summary EXCEPT !.reasons = {"DEDUPED"}]
    /\ result' = [result EXCEPT !.deduped = @ + 1]
    /\ UNCHANGED <<log, acks, left, faults, pc>>

\* What an append that is not answered, because it fails or the process is
\* killed in it, leaves behind: nothing, its record, or in compliance mode
\* its key alone.
Unanswered ==
    \/ UNCHANGED <<log, acks, left>>
    \/ Store!Append1(Head(pending)) /\ acks' = acks
    \/ ~ AllowsFailure(mode) /\ Store!Leave(Head(pending))

AppendFails ==
    /\ Emitting
    /\ faults < MaxFaults /\ faults' = faults + 1
    /\ Unanswered

ToleratedUncounted ==
    /\ AppendFails
    /\ AllowsFailure(mode)
    /\ Taken
    /\ result' = [result EXCEPT !.degraded = TRUE]
    /\ UNCHANGED <<pc, summary>>

\* The mode tolerates the failure: the candidate is rejected and the run is
\* degraded.
EmitDegraded ==
    /\ AppendFails
    /\ AllowsFailure(mode)
    /\ Taken
    /\ summary' = [summary EXCEPT !.rejected = @ + 1]
    /\ result' = [result EXCEPT !.rejected = @ + 1, !.degraded = TRUE]
    /\ UNCHANGED pc

\* The mode does not: the run ends with SINK_UNAVAILABLE.
EmitAborts ==
    /\ AppendFails
    /\ ~ AllowsFailure(mode)
    /\ End("sink_unavailable")

Emit ==
    \/ /\ RejectMalformed \/ DryCapture \/ EmitAppended \/ EmitDeduped \/ EmitDegraded
       /\ UNCHANGED <<mode, dry, source, sources, canceled, outcome, before, runs>>
    \/ EmitAborts

FinishSource ==
    /\ pc = "emit" /\ pending = <<>>
    /\ sources' = Append(sources, [summary EXCEPT !.status = StatusOf(summary)])
    /\ source' = source + 1
    /\ pc' = "collect"
    /\ UNCHANGED <<log, acks, left, mode, dry, pending, summary, result, canceled,
                   outcome, before, runs, faults>>

\* The context is not looked at again after the last source.
Finish ==
    /\ pc = "collect" /\ source \notin Ordered
    /\ End("ok")
    /\ UNCHANGED <<log, acks, left, faults>>

Cancel ==
    /\ pc # "idle" /\ ~ canceled
    /\ canceled' = TRUE
    /\ UNCHANGED <<log, acks, left, pc, mode, dry, source, pending, summary, sources,
                   result, outcome, before, runs, faults>>

\* The process is killed, perhaps inside an append.
Kill ==
    /\ pc # "idle"
    /\ \/ UNCHANGED <<log, acks, left>>
       \/ Emitting /\ Unanswered
    /\ End("killed")
    /\ UNCHANGED faults

Progress ==
    \/ StopCanceled
    \/ CollectFails
    \/ Collect
    \/ Emit
    \/ FinishSource
    \/ Finish

Next ==
    \/ \E m \in Modes, d \in BOOLEAN : Start(m, d)
    \/ Progress
    \/ Cancel
    \/ Kill

Spec == Init /\ [][Next]_vars

(* A run is one thread, and every collector call returns: plugins are      *)
(* stopped by their timeout, the built-in collectors read local files.     *)
FairSpec == Spec /\ WF_vars(Progress)

-----------------------------------------------------------------------------

TypeOK ==
    /\ log \in Seq(Candidates \ Malformed)
    /\ acks \subseteq [rec : Candidates, head : Seq(Candidates)]
    /\ left \subseteq Candidates \ Malformed
    /\ pc \in {"idle", "collect", "emit"}
    /\ mode \in Modes
    /\ dry \in BOOLEAN
    /\ source \in 1..(Len(Returns) + 1)
    /\ pending \in Seq(Candidates)
    /\ summary \in [would : Nat, captured : Nat, rejected : Nat, reasons : SUBSET {"DEDUPED"},
                    status : {"ok"}]
    /\ sources \in Seq([would : Nat, captured : Nat, rejected : Nat,
                        reasons : SUBSET {"DEDUPED"}, status : {"ok", "empty", "partial", "failed"}])
    /\ result \in [would : Nat, captured : Nat, rejected : Nat, deduped : Nat,
                   appended : Nat, failures : Nat, degraded : BOOLEAN]
    /\ canceled \in BOOLEAN
    /\ outcome \in {"none", "ok", "canceled", "sink_unavailable", "killed"}
    /\ before \in Nat
    /\ runs \in 0..MaxRuns
    /\ faults \in 0..MaxFaults

SumOf(summaries, field) ==
    LET upTo[i \in 0..Len(summaries)] ==
            IF i = 0 THEN 0 ELSE upTo[i - 1] + summaries[i][field]
    IN  upTo[Len(summaries)]

Sum(field) == SumOf(sources, field)

(* Every candidate a collector returned is captured, rejected or deduped,  *)
(* exactly once, whatever happens to its append.  The totals of a run that *)
(* succeeds are the sums of its sources', and miss no candidate; a summary *)
(* does not count those deduped, and falls short of what its source        *)
(* returned only when, and always when, it gives DEDUPED as a reason.      *)
EveryCandidateCounted ==
    /\ \A i \in DOMAIN sources :
          LET s == sources[i] IN
          /\ s.captured + s.rejected <= s.would
          /\ s.captured + s.rejected < s.would <=> "DEDUPED" \in s.reasons
    /\ outcome = "ok" =>
          /\ \A field \in {"would", "captured", "rejected"} :
                result[field] = Sum(field)
          /\ result.would = result.captured + result.rejected + result.deduped

Valid(i) == ToSet(Returns[i]) \ Malformed

\* What has to hold the candidates of a source: the chain; but a source whose
\* summary says DEDUPED may have skipped one whose key was left behind.
Held(s) == IF "DEDUPED" \in s.reasons THEN ToSet(log) \cup left ELSE ToSet(log)

(* A real run's "ok" or "empty" for a source means that everything its     *)
(* collector returned is in the chain, even when the run is stopped later. *)
(* Only an advisory or shadow run may succeed with evidence missing, and   *)
(* it says that it is degraded: any other run that succeeds has put every  *)
(* valid candidate of every collector that did not fail in the chain, also *)
(* of those after a collector that failed.  To both there is one exception *)
(* and the summary betrays it: a source with the reason DEDUPED may miss   *)
(* candidates whose append an earlier fail-closed run did not get through, *)
(* and undid but for the key.                                              *)
StatusHonest ==
    \A i \in DOMAIN sources :
        ~ dry /\ sources[i].status \in {"ok", "empty"}
        => ToSet(Returns[i]) \subseteq Held(sources[i])

Undegraded == /\ outcome = "ok" /\ ~ dry
              /\ ~ (mode \in {"advisory_only", "shadow"} /\ result.degraded)

SuccessIsComplete ==
    /\ StatusHonest
    /\ Undegraded =>
          \A i \in Ordered :
             /\ i \in DOMAIN sources
             /\ sources[i].status = "failed" \/ Valid(i) \subseteq Held(sources[i])

(* Result.Appended is the growth of the chain since the run began, except  *)
(* that an append that failed or was cut off may have left its record.     *)
AppendedIsGrowth ==
    /\ before + result.appended <= Len(log)
    /\ ~ result.degraded /\ outcome \notin {"sink_unavailable", "killed"}
       => before + result.appended = Len(log)

(* A run ends: no failure of a collector or of the store keeps it going.   *)
RunEnds == pc # "idle" ~> pc = "idle"

=============================================================================
