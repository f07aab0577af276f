---------------------------- MODULE ReportProofs ----------------------------
(***************************************************************************)
(* What commands report is true of the chain.                              *)
(*                                                                         *)
(* `axym collect`, for any collectors, whatever they return, in every sink *)
(* mode, through failing appends, cancellations and kills; `axym gaps` and *)
(* `axym regress`, for any frameworks, policies and records.               *)
(***************************************************************************)
EXTENDS CollectRun, Audit, SequenceTheorems, FiniteSetTheorems, WellFoundedInduction, TLAPS

\* Where the run is, when it is at work.
Position ==
    /\ pc # "idle" => outcome = "none" /\ source = Len(sources) + 1
    /\ pc = "emit" => source \in Ordered
    /\ outcome = "ok" => DOMAIN sources = Ordered

\* What the counts of a summary leave out, with n candidates to come, and
\* only then, is what it gives DEDUPED as the reason for.
Falls(s, n) ==
    /\ s.captured + s.rejected + n <= s.would
    /\ s.captured + s.rejected + n < s.would <=> "DEDUPED" \in s.reasons

\* The candidates of a source are those counted, those deduped and those
\* still to emit; Result counts the deduped ones too.
Counting ==
    /\ pc = "emit" => summary.would = Len(Returns[source]) /\ Falls(summary, Len(pending))
    /\ pc = "collect" \/ outcome = "ok" => pending = <<>>
    /\ \A i \in DOMAIN sources : Falls(sources[i], 0)
    /\ pc # "idle" \/ outcome = "ok" =>
          result.would = result.captured + result.rejected + result.deduped + Len(pending)

\* A candidate that a real run is through with is in the chain, or was
\* rejected, or was taken for one whose key was left behind.
Emitted ==
    pc = "emit" /\ ~ dry =>
       \A c \in ToSet(Returns[source]) :
          \/ c \in ToSet(pending) \cup Held(summary)
          \/ /\ summary.rejected > 0
             /\ c \in Malformed \/ result.degraded

\* So is what the sources that are done returned.
Gathered ==
    ~ dry => \A i \in DOMAIN sources :
                \/ sources[i].status = "failed"
                \/ result.degraded
                \/ Valid(i) \subseteq Held(sources[i])

\* Only a mode that tolerates failures degrades a run.
Tolerated == result.degraded => AllowsFailure(mode)

SummaryType == [would : Nat, captured : Nat, rejected : Nat, reasons : SUBSET {"DEDUPED"},
                status : {"ok"}]
SourceType == [would : Nat, captured : Nat, rejected : Nat, reasons : SUBSET {"DEDUPED"},
               status : {"ok", "empty", "partial", "failed"}]
ResultType == [would : Nat, captured : Nat, rejected : Nat, deduped : Nat,
               appended : Nat, failures : Nat, degraded : BOOLEAN]

CollectInv == TypeOK /\ Position /\ Counting /\ Emitted /\ StatusHonest
              /\ Gathered /\ Tolerated /\ AppendedIsGrowth

-----------------------------------------------------------------------------
LEMMA AppendedSet ==
    ASSUME NEW S, NEW l \in Seq(S), NEW r \in S
    PROVE  /\ Append(l, r) \in Seq(S) /\ Len(Append(l, r)) = Len(l) + 1
           /\ ToSet(Append(l, r)) = ToSet(l) \cup {r}
           /\ DOMAIN Append(l, r) = 1..(Len(l) + 1)
           /\ Append(l, r)[Len(l) + 1] = r
           /\ \A i \in DOMAIN l : Append(l, r)[i] = l[i]
  <1>1. /\ Append(l, r) \in Seq(S) /\ Len(Append(l, r)) = Len(l) + 1
        /\ \A i \in 1..Len(l) : Append(l, r)[i] = l[i]
        /\ Append(l, r)[Len(l) + 1] = r
    BY AppendProperties
  <1>2. DOMAIN l = 1..Len(l) /\ DOMAIN Append(l, r) = 1..(Len(l) + 1) /\ Len(l) \in Nat
    BY <1>1
  <1>3. ToSet(Append(l, r)) = ToSet(l) \cup {r}
    BY <1>1, <1>2 DEF ToSet
  <1> QED
    BY <1>1, <1>2, <1>3

LEMMA TakenSet ==
    ASSUME NEW S, NEW l \in Seq(S), l # <<>>
    PROVE  /\ Head(l) \in S /\ Tail(l) \in Seq(S) /\ Len(Tail(l)) = Len(l) - 1
           /\ ToSet(l) = {Head(l)} \cup ToSet(Tail(l))
           /\ Len(l) > 0
  <1>1. /\ Head(l) \in S /\ Tail(l) \in Seq(S) /\ Len(Tail(l)) = Len(l) - 1
        /\ Len(l) \in Nat \ {0} /\ Head(l) = l[1]
        /\ \A i \in 1..(Len(l) - 1) : Tail(l)[i] = l[i + 1]
    BY HeadTailProperties, EmptySeq
  <1>2. DOMAIN l = 1..Len(l) /\ DOMAIN Tail(l) = 1..(Len(l) - 1)
    BY <1>1
  <1>3. ToSet(l) \subseteq {Head(l)} \cup ToSet(Tail(l))
    <2> SUFFICES ASSUME NEW i \in 1..Len(l) PROVE l[i] \in {Head(l)} \cup ToSet(Tail(l))
      BY <1>2 DEF ToSet
    <2>1. CASE i = 1
      BY <1>1, <2>1
    <2>2. CASE i # 1
      <3>1. i - 1 \in 1..(Len(l) - 1) /\ (i - 1) + 1 = i
        BY <1>1, <2>2
      <3> QED
        BY <1>1, <1>2, <3>1 DEF ToSet
    <2> QED
      BY <2>1, <2>2
  <1>4. ToSet(Tail(l)) \subseteq ToSet(l) /\ Head(l) \in ToSet(l)
    <2>1. \A i \in 1..(Len(l) - 1) : i + 1 \in 1..Len(l)
      BY <1>1
    <2> QED
      BY <1>1, <1>2, <2>1 DEF ToSet
  <1> QED
    BY <1>1, <1>3, <1>4

-----------------------------------------------------------------------------
\* What a candidate's emission may change, whatever becomes of it.
Emission ==
    /\ pc = "emit" /\ pending # <<>> /\ Taken
    /\ UNCHANGED <<mode, dry, source, sources, canceled, outcome, before, runs, pc>>
    /\ \/ UNCHANGED <<log, acks>>
       \/ Head(pending) \notin Malformed /\ Store!Append1(Head(pending))
    /\ left' = left
    /\ faults' \in 0..MaxFaults

\* What it must count.
Accounted ==
    /\ summary' \in SummaryType /\ result' \in ResultType
    /\ summary'.would = summary.would
    /\ \/ /\ summary'.captured + summary'.rejected = summary.captured + summary.rejected + 1
          /\ summary'.reasons = summary.reasons
       \/ /\ summary'.captured + summary'.rejected = summary.captured + summary.rejected
          /\ "DEDUPED" \in summary'.reasons
    /\ result'.would = result.would
    /\ result'.captured + result'.rejected + result'.deduped
          = result.captured + result.rejected + result.deduped + 1
    /\ summary'.rejected >= summary.rejected
    /\ result.degraded => result'.degraded
    /\ result'.degraded => result.degraded \/ AllowsFailure(mode)
    /\ \/ dry
       \/ Head(pending) \in ToSet(log') \/ ("DEDUPED" \in summary'.reasons /\ Head(pending) \in left)
       \/ summary'.rejected > 0 /\ (Head(pending) \in Malformed \/ result'.degraded)
    /\ before + result'.appended <= Len(log')
    /\ ~ result'.degraded => before + result'.appended = Len(log')

LEMMA LogAppended ==
    ASSUME TypeOK, NEW r \in Candidates \ Malformed, Store!Append1(r)
    PROVE  /\ log' \in Seq(Candidates \ Malformed) /\ Len(log') = Len(log) + 1
           /\ left' = left
           /\ ToSet(log') = ToSet(log) \cup {r}
           /\ acks' \subseteq [rec : Candidates, head : Seq(Candidates)]
  <1>1. log' = Append(log, r) /\ log \in Seq(Candidates \ Malformed)
    BY DEF Store!Append1, TypeOK
  <1>2. /\ log' \in Seq(Candidates \ Malformed) /\ Len(log') = Len(log) + 1
        /\ ToSet(log') = ToSet(log) \cup {r}
    BY <1>1, AppendedSet
  <1>3. log' \in Seq(Candidates)
    BY <1>2, SeqMonotonic
  <1>4. acks' \subseteq [rec : Candidates, head : Seq(Candidates)]
    <2>1. acks' \subseteq acks \cup {[rec |-> r, head |-> log']}
      BY <1>1 DEF Store!Append1
    <2>2. [rec |-> r, head |-> log'] \in [rec : Candidates, head : Seq(Candidates)]
      BY <1>3
    <2> QED
      BY <2>1, <2>2 DEF TypeOK
  <1>5. left' = left
    BY DEF Store!Append1
  <1> QED
    BY <1>2, <1>4, <1>5

\* Every way of emitting a candidate accounts for it.
LEMMA EmitAccounts ==
    ASSUME CollectInv,
           RejectMalformed \/ DryCapture \/ EmitAppended \/ EmitDeduped \/ EmitDegraded,
           UNCHANGED <<mode, dry, source, sources, canceled, outcome, before, runs>>
    PROVE  Emission /\ Accounted
  <1> DEFINE c == Head(pending)
  <1>1. /\ summary \in SummaryType /\ result \in ResultType
        /\ before \in Nat /\ Len(log) \in Nat /\ faults \in 0..MaxFaults /\ MaxFaults \in Nat
    BY CollectAssumption DEF CollectInv, TypeOK, SummaryType, ResultType
  <1>2. /\ before + result.appended <= Len(log)
        /\ pc = "emit" /\ ~ result.degraded => before + result.appended = Len(log)
    BY DEF CollectInv, AppendedIsGrowth, Position
  <1>3. pc = "emit" /\ pending # <<>> /\ Taken
    BY DEF RejectMalformed, DryCapture, EmitAppended, EmitDeduped, EmitDegraded, Emitting,
           AppendFails
  <1>4. c \in Candidates
    BY <1>3, TakenSet DEF CollectInv, TypeOK
  <1>5. CASE RejectMalformed
    <2>1. /\ c \in Malformed /\ UNCHANGED <<log, acks, left, faults, pc>>
          /\ summary' = [summary EXCEPT !.rejected = @ + 1]
          /\ result' = [result EXCEPT !.rejected = @ + 1]
      BY <1>5 DEF RejectMalformed, Count
    <2>2. Emission
      BY <1>1, <1>3, <2>1 DEF Emission
    <2>s. /\ summary' \in SummaryType /\ summary'.would = summary.would
          /\ summary'.captured = summary.captured
          /\ summary'.rejected = summary.rejected + 1
          /\ summary'.reasons = summary.reasons
      BY <1>1, <2>1 DEF SummaryType
    <2>r. /\ result' \in ResultType /\ result'.would = result.would
          /\ result'.captured = result.captured
          /\ result'.rejected = result.rejected + 1
          /\ result'.deduped = result.deduped
          /\ result'.appended = result.appended
          /\ result'.degraded = result.degraded
      BY <1>1, <2>1 DEF ResultType
    <2>a. /\ summary'.captured + summary'.rejected = summary.captured + summary.rejected + 1
          /\ summary'.rejected >= summary.rejected
          /\ summary'.rejected = summary.rejected + 1 => summary'.rejected > 0
      BY <1>1, <2>s DEF SummaryType
    <2>t. /\ result'.would = result.would
          /\ result'.captured + result'.rejected + result'.deduped
                = result.captured + result.rejected + result.deduped + 1
      BY <1>1, <2>r DEF ResultType
    <2>g. /\ before + result'.appended <= Len(log')
          /\ ~ result'.degraded => before + result'.appended = Len(log')
      <3>1. before \in Nat /\ result.appended \in Nat /\ Len(log) \in Nat
        BY <1>1 DEF ResultType
      <3> QED
        BY <1>2, <1>3, <2>1, <2>r, <3>1
    <2>c. \/ dry
          \/ c \in ToSet(log') \/ ("DEDUPED" \in summary'.reasons /\ c \in left)
          \/ summary'.rejected > 0 /\ (c \in Malformed \/ result'.degraded)
      BY <2>1, <2>s, <2>r, <2>a
    <2>d. /\ result.degraded => result'.degraded
          /\ result'.degraded => result.degraded \/ AllowsFailure(mode)
      BY <2>1, <2>r
    <2> QED
      BY <2>2, <2>s, <2>r, <2>a, <2>t, <2>c, <2>d, <2>g DEF Accounted
  <1>6. CASE DryCapture
    <2>1. /\ dry /\ UNCHANGED <<log, acks, left, faults, pc>>
          /\ summary' = [summary EXCEPT !.captured = @ + 1]
          /\ result' = [result EXCEPT !.captured = @ + 1]
      BY <1>6 DEF DryCapture, Count
    <2>2. Emission
      BY <1>1, <1>3, <2>1 DEF Emission
    <2>s. /\ summary' \in SummaryType /\ summary'.would = summary.would
          /\ summary'.captured = summary.captured + 1
          /\ summary'.rejected = summary.rejected
          /\ summary'.reasons = summary.reasons
      BY <1>1, <2>1 DEF SummaryType
    <2>r. /\ result' \in ResultType /\ result'.would = result.would
          /\ result'.captured = result.captured + 1
          /\ result'.rejected = result.rejected
          /\ result'.deduped = result.deduped
          /\ result'.appended = result.appended
          /\ result'.degraded = result.degraded
      BY <1>1, <2>1 DEF ResultType
    <2>a. /\ summary'.captured + summary'.rejected = summary.captured + summary.rejected + 1
          /\ summary'.rejected >= summary.rejected
          /\ summary'.rejected = summary.rejected + 1 => summary'.rejected > 0
      BY <1>1, <2>s DEF SummaryType
    <2>t. /\ result'.would = result.would
          /\ result'.captured + result'.rejected + result'.deduped
                = result.captured + result.rejected + result.deduped + 1
      BY <1>1, <2>r DEF ResultType
    <2>g. /\ before + result'.appended <= Len(log')
          /\ ~ result'.degraded => before + result'.appended = Len(log')
      <3>1. before \in Nat /\ result.appended \in Nat /\ Len(log) \in Nat
        BY <1>1 DEF ResultType
      <3> QED
        BY <1>2, <1>3, <2>1, <2>r, <3>1
    <2>c. \/ dry
          \/ c \in ToSet(log') \/ ("DEDUPED" \in summary'.reasons /\ c \in left)
          \/ summary'.rejected > 0 /\ (c \in Malformed \/ result'.degraded)
      BY <2>1, <2>s, <2>r, <2>a
    <2>d. /\ result.degraded => result'.degraded
          /\ result'.degraded => result.degraded \/ AllowsFailure(mode)
      BY <2>1, <2>r
    <2> QED
      BY <2>2, <2>s, <2>r, <2>a, <2>t, <2>c, <2>d, <2>g DEF Accounted
  <1>7. CASE EmitAppended
    <2>1. /\ c \notin Malformed /\ Store!Append1(c) /\ UNCHANGED <<faults, pc>>
          /\ summary' = [summary EXCEPT !.captured = @ + 1]
          /\ result' = [result EXCEPT !.captured = @ + 1, !.appended = @ + 1]
      BY <1>7 DEF EmitAppended, Emitting
    <2>2. Len(log') = Len(log) + 1 /\ c \in ToSet(log')
      BY <1>4, <2>1, LogAppended DEF CollectInv
    <2>3. Emission
      BY <1>1, <1>3, <2>1 DEF Emission, Store!Append1
    <2>s. /\ summary' \in SummaryType /\ summary'.would = summary.would
          /\ summary'.captured = summary.captured + 1
          /\ summary'.rejected = summary.rejected
          /\ summary'.reasons = summary.reasons
      BY <1>1, <2>1 DEF SummaryType
    <2>r. /\ result' \in ResultType /\ result'.would = result.would
          /\ result'.captured = result.captured + 1
          /\ result'.rejected = result.rejected
          /\ result'.deduped = result.deduped
          /\ result'.appended = result.appended + 1
          /\ result'.degraded = result.degraded
      <3>1. result' = [would |-> result.would, captured |-> result.captured + 1,
                      rejected |-> result.rejected, deduped |-> result.deduped,
                      appended |-> result.appended + 1, failures |-> result.failures,
                      degraded |-> result.degraded]
        BY <1>1, <2>1 DEF ResultType
      <3> QED
        BY <1>1, <3>1 DEF ResultType
    <2>a. /\ summary'.captured + summary'.rejected = summary.captured + summary.rejected + 1
          /\ summary'.rejected >= summary.rejected
          /\ summary'.rejected = summary.rejected + 1 => summary'.rejected > 0
      BY <1>1, <2>s DEF SummaryType
    <2>t. /\ result'.would = result.would
          /\ result'.captured + result'.rejected + result'.deduped
                = result.captured + result.rejected + result.deduped + 1
      BY <1>1, <2>r DEF ResultType
    <2>g. /\ before + result'.appended <= Len(log')
          /\ ~ result'.degraded => before + result'.appended = Len(log')
      <3>1. before \in Nat /\ result.appended \in Nat /\ Len(log) \in Nat
        BY <1>1 DEF ResultType
      <3>2. /\ before + result.appended <= Len(log)
            /\ ~ result.degraded => before + result.appended = Len(log)
        BY <1>2, <1>3
      <3>3. Len(log') = Len(log) + 1
        BY <2>2
      <3>4. result'.appended = result.appended + 1
        BY <2>r
      <3>5. ~ result'.degraded => ~ result.degraded
        BY <2>r
      <3>6. before + result'.appended = before + result.appended + 1
        BY <3>1, <3>4
      <3>7. before + result'.appended <= Len(log')
        BY <3>1, <3>2, <3>3, <3>6
      <3>8. ~ result'.degraded => before + result'.appended = Len(log')
        BY <3>2, <3>3, <3>5, <3>6
      <3> QED
        BY <3>7, <3>8
    <2>c. \/ dry
          \/ c \in ToSet(log') \/ ("DEDUPED" \in summary'.reasons /\ c \in left)
          \/ summary'.rejected > 0 /\ (c \in Malformed \/ result'.degraded)
      BY <2>1, <2>2, <2>s, <2>r, <2>a
    <2>d. /\ result.degraded => result'.degraded
          /\ result'.degraded => result.degraded \/ AllowsFailure(mode)
      BY <2>1, <2>r
    <2> QED
      BY <2>3, <2>s, <2>r, <2>a, <2>t, <2>c, <2>d, <2>g DEF Accounted
  <1>8. CASE EmitDeduped
    <2>0. c \in ToSet(log) \cup left
      BY <1>8 DEF EmitDeduped, Store!Known, RepeatsContent, KeyOfContent, ToSet
    <2>1. /\ UNCHANGED <<log, acks, left, faults, pc>>
          /\ summary' = [summary EXCEPT !.reasons = {"DEDUPED"}]
          /\ result' = [result EXCEPT !.deduped = @ + 1]
      BY <1>8 DEF EmitDeduped
    <2>2. Emission
      BY <1>1, <1>3, <2>1 DEF Emission
    <2>s. /\ summary' \in SummaryType /\ summary'.would = summary.would
          /\ summary'.captured = summary.captured
          /\ summary'.rejected = summary.rejected
          /\ summary'.reasons = {"DEDUPED"}
      BY <1>1, <2>1 DEF SummaryType
    <2>r. /\ result' \in ResultType /\ result'.would = result.would
          /\ result'.captured = result.captured
          /\ result'.rejected = result.rejected
          /\ result'.deduped = result.deduped + 1
          /\ result'.appended = result.appended
          /\ result'.degraded = result.degraded
      BY <1>1, <2>1 DEF ResultType
    <2>a. /\ summary'.captured + summary'.rejected = summary.captured + summary.rejected
          /\ summary'.rejected >= summary.rejected
          /\ summary'.rejected = summary.rejected + 1 => summary'.rejected > 0
      BY <1>1, <2>s DEF SummaryType
    <2>t. /\ result'.would = result.would
          /\ result'.captured + result'.rejected + result'.deduped
                = result.captured + result.rejected + result.deduped + 1
      BY <1>1, <2>r DEF ResultType
    <2>g. /\ before + result'.appended <= Len(log')
          /\ ~ result'.degraded => before + result'.appended = Len(log')
      <3>1. before \in Nat /\ result.appended \in Nat /\ Len(log) \in Nat
        BY <1>1 DEF ResultType
      <3> QED
        BY <1>2, <1>3, <2>1, <2>r, <3>1
    <2>c. \/ dry
          \/ c \in ToSet(log') \/ ("DEDUPED" \in summary'.reasons /\ c \in left)
          \/ summary'.rejected > 0 /\ (c \in Malformed \/ result'.degraded)
      BY <2>0, <2>1, <2>s, <2>r, <2>a
    <2>d. /\ result.degraded => result'.degraded
          /\ result'.degraded => result.degraded \/ AllowsFailure(mode)
      BY <2>1, <2>r
    <2> QED
      BY <2>2, <2>s, <2>r, <2>a, <2>t, <2>c, <2>d, <2>g DEF Accounted
  <1>9. CASE EmitDegraded
    <2>1. /\ c \notin Malformed /\ AllowsFailure(mode) /\ UNCHANGED pc
          /\ faults < MaxFaults /\ faults' = faults + 1
          /\ UNCHANGED <<log, acks, left>> \/ Store!Append1(c)
          /\ left' = left
          /\ summary' = [summary EXCEPT !.rejected = @ + 1]
          /\ result' = [result EXCEPT !.rejected = @ + 1, !.degraded = TRUE]
      BY <1>9 DEF EmitDegraded, AppendFails, Unanswered, Emitting, Store!Append1
    <2>2. Len(log') \in {Len(log), Len(log) + 1}
      BY <1>4, <2>1, LogAppended DEF CollectInv
    <2>3. Emission
      BY <1>1, <1>3, <2>1 DEF Emission
    <2>s. /\ summary' \in SummaryType /\ summary'.would = summary.would
          /\ summary'.captured = summary.captured
          /\ summary'.rejected = summary.rejected + 1
          /\ summary'.reasons = summary.reasons
      BY <1>1, <2>1 DEF SummaryType
    <2>r. /\ result' \in ResultType /\ result'.would = result.would
          /\ result'.captured = result.captured
          /\ result'.rejected = result.rejected + 1
          /\ result'.deduped = result.deduped
          /\ result'.appended = result.appended
          /\ result'.degraded = TRUE
      <3>1. result' = [would |-> result.would, captured |-> result.captured,
                      rejected |-> result.rejected + 1, deduped |-> result.deduped,
                      appended |-> result.appended, failures |-> result.failures,
                      degraded |-> TRUE]
        BY <1>1, <2>1 DEF ResultType
      <3> QED
        BY <1>1, <3>1 DEF ResultType
    <2>a. /\ summary'.captured + summary'.rejected = summary.captured + summary.rejected + 1
          /\ summary'.rejected >= summary.rejected
          /\ summary'.rejected = summary.rejected + 1 => summary'.rejected > 0
      BY <1>1, <2>s DEF SummaryType
    <2>t. /\ result'.would = result.would
          /\ result'.captured + result'.rejected + result'.deduped
                = result.captured + result.rejected + result.deduped + 1
      BY <1>1, <2>r DEF ResultType
    <2>g. /\ before + result'.appended <= Len(log')
          /\ ~ result'.degraded => before + result'.appended = Len(log')
      <3>1. before \in Nat /\ result.appended \in Nat /\ Len(log) \in Nat
        BY <1>1 DEF ResultType
      <3> QED
        BY <1>2, <1>3, <2>1, <2>2, <2>r, <3>1
    <2>c. \/ dry
          \/ c \in ToSet(log') \/ ("DEDUPED" \in summary'.reasons /\ c \in left)
          \/ summary'.rejected > 0 /\ (c \in Malformed \/ result'.degraded)
      BY <2>1, <2>2, <2>s, <2>r, <2>a
    <2>d. /\ result.degraded => result'.degraded
          /\ result'.degraded => result.degraded \/ AllowsFailure(mode)
      BY <2>1, <2>r
    <2> QED
      BY <2>3, <2>s, <2>r, <2>a, <2>t, <2>c, <2>d, <2>g DEF Accounted
  <1> QED
    BY <1>5, <1>6, <1>7, <1>8, <1>9

\* A candidate that is accounted for leaves the run in order.
LEMMA EmitStep ==
    ASSUME CollectInv, Emission, Accounted
    PROVE  CollectInv'
  <1> DEFINE c == Head(pending)
  <1>1. /\ c \in Candidates /\ pending' \in Seq(Candidates)
        /\ Len(pending') = Len(pending) - 1 /\ ToSet(pending) = {c} \cup ToSet(pending')
        /\ Len(pending) \in Nat /\ Len(pending') \in Nat
    <2>1. pending \in Seq(Candidates)
      BY DEF CollectInv, TypeOK
    <2>2. pending # <<>> /\ pending' = Tail(pending)
      BY DEF Emission, Taken
    <2>3. Len(pending) \in Nat
      BY <2>1, LenProperties
    <2>4. /\ c \in Candidates /\ pending' \in Seq(Candidates)
          /\ Len(pending') = Len(pending) - 1 /\ Len(pending) > 0
          /\ ToSet(pending) = {c} \cup ToSet(pending')
      BY <2>1, <2>2, TakenSet
    <2> QED
      BY <2>3, <2>4
  <1>2. /\ log' \in Seq(Candidates \ Malformed) /\ ToSet(log) \subseteq ToSet(log')
        /\ acks' \subseteq [rec : Candidates, head : Seq(Candidates)]
    <2>1. TypeOK
      BY DEF CollectInv
    <2>2. CASE UNCHANGED <<log, acks, left>>
      BY <2>1, <2>2 DEF TypeOK
    <2>3. CASE c \notin Malformed /\ Store!Append1(c)
      BY <1>1, <2>1, <2>3, LogAppended
    <2> QED
      BY <2>2, <2>3 DEF Emission
  <1>3. TypeOK'
    BY <1>1, <1>2 DEF CollectInv, TypeOK, Emission, Accounted, SummaryType, ResultType
  <1>4. Position'
    BY DEF CollectInv, Position, Emission
  <1>5. Counting'
    <2>1. /\ summary.would = Len(Returns[source]) /\ Falls(summary, Len(pending))
          /\ result.would = result.captured + result.rejected + result.deduped + Len(pending)
      BY DEF CollectInv, Counting, Emission
    <2>2. summary \in SummaryType /\ summary' \in SummaryType
      BY DEF CollectInv, TypeOK, SummaryType, Accounted
    <2>3. Falls(summary', Len(pending'))
      BY <1>1, <2>1, <2>2 DEF Accounted, Falls, SummaryType
    <2>4. result'.would = result'.captured + result'.rejected + result'.deduped + Len(pending')
      <3>1. result \in ResultType /\ result' \in ResultType
        BY DEF CollectInv, TypeOK, ResultType, Accounted
      <3>2. /\ result'.would = result.would
            /\ result'.captured + result'.rejected + result'.deduped
                  = result.captured + result.rejected + result.deduped + 1
        BY DEF Accounted
      <3>3. /\ result.captured \in Nat /\ result.rejected \in Nat /\ result.deduped \in Nat
            /\ result'.captured \in Nat /\ result'.rejected \in Nat /\ result'.deduped \in Nat
        BY <3>1 DEF ResultType
      <3> QED
        BY <1>1, <2>1, <3>2, <3>3
    <2>5. /\ pc' = "emit" /\ outcome' = "none" /\ sources' = sources /\ source' = source
          /\ summary'.would = summary.would
      BY DEF CollectInv, Position, Emission, Accounted
    <2> QED
      BY <2>1, <2>3, <2>4, <2>5 DEF CollectInv, Counting
  <1>6. Emitted'
    <2> SUFFICES ASSUME ~ dry, NEW x \in ToSet(Returns[source])
                 PROVE  \/ x \in ToSet(pending') \cup Held(summary)'
                        \/ /\ summary'.rejected > 0
                           /\ x \in Malformed \/ result'.degraded
      BY DEF Emitted, Emission
    <2>1. \/ x \in ToSet(pending) \cup Held(summary)
          \/ summary.rejected > 0 /\ (x \in Malformed \/ result.degraded)
      BY DEF CollectInv, Emitted, Emission
    <2>2. summary.rejected \in Nat /\ summary'.rejected \in Nat
      BY DEF CollectInv, TypeOK, Accounted, SummaryType
    <2>3. "DEDUPED" \in summary.reasons => "DEDUPED" \in summary'.reasons
      BY DEF Accounted
    <2>4. left' = left
      BY DEF Emission
    <2> QED
      BY <1>1, <1>2, <2>1, <2>2, <2>3, <2>4 DEF Accounted, Held
  <1>7. StatusHonest'
    BY <1>2 DEF CollectInv, StatusHonest, Emission, Held
  <1>8. Gathered'
    BY <1>2 DEF CollectInv, Gathered, Emission, Accounted, Valid, Held
  <1>9. Tolerated' /\ AppendedIsGrowth'
    BY DEF CollectInv, Tolerated, AppendedIsGrowth, Emission, Accounted
  <1> QED
    BY <1>3, <1>4, <1>5, <1>6, <1>7, <1>8, <1>9 DEF CollectInv

\* The end of a run, also one within an append that left its record or key.
LEMMA EndStep ==
    ASSUME CollectInv, pc # "idle",
           NEW how \in {"ok", "canceled", "sink_unavailable", "killed"}, End(how),
           how = "ok" => pc = "collect" /\ source \notin Ordered,
           \/ UNCHANGED <<log, acks, left>>
           \/ /\ how \in {"sink_unavailable", "killed"} /\ Emitting
              /\ Store!Append1(Head(pending)) \/ Store!Leave(Head(pending)),
           faults' \in 0..MaxFaults
    PROVE  CollectInv'
  <1>1. /\ pc' = "idle" /\ outcome' = how
        /\ UNCHANGED <<mode, dry, source, pending, summary, sources, result,
                       canceled, before, runs>>
    BY DEF End
  <1>2. /\ log' \in Seq(Candidates \ Malformed) /\ ToSet(log) \subseteq ToSet(log')
        /\ acks' \subseteq [rec : Candidates, head : Seq(Candidates)]
        /\ Len(log) <= Len(log')
        /\ left \subseteq left' /\ left' \subseteq Candidates \ Malformed
        /\ how \in {"ok", "canceled"} => log' = log
    <2>1. TypeOK
      BY DEF CollectInv
    <2>2. CASE UNCHANGED <<log, acks, left>>
      BY <2>1, <2>2 DEF TypeOK
    <2>3. CASE /\ how \in {"sink_unavailable", "killed"} /\ Emitting
               /\ Store!Append1(Head(pending)) \/ Store!Leave(Head(pending))
      <3>1. Head(pending) \in Candidates \ Malformed
        BY <2>1, <2>3, TakenSet DEF TypeOK, Emitting
      <3>2. Len(log) \in Nat
        BY <2>1 DEF TypeOK
      <3>3. CASE Store!Append1(Head(pending))
        <4>1. left' = left /\ left \subseteq Candidates \ Malformed
          BY <2>1, <3>1, <3>3, LogAppended DEF TypeOK
        <4> QED
          BY <2>1, <2>3, <3>1, <3>2, <3>3, <4>1, LogAppended
      <3>4. CASE Store!Leave(Head(pending))
        BY <2>1, <2>3, <3>1, <3>2, <3>4 DEF TypeOK, Store!Leave, KeyOfContent
      <3> QED
        BY <2>3, <3>3, <3>4
    <2> QED
      BY <2>2, <2>3
  <1>3. TypeOK'
    BY <1>1, <1>2 DEF CollectInv, TypeOK
  <1>4. Position'
    <2>1. outcome' = "ok" => DOMAIN sources = Ordered
      <3> SUFFICES ASSUME how = "ok" PROVE DOMAIN sources = Ordered
        BY <1>1
      <3>1. source = Len(sources) + 1 /\ source \notin Ordered
        BY DEF CollectInv, Position
      <3>2. /\ DOMAIN sources = 1..Len(sources) /\ Len(sources) \in Nat
            /\ source \in 1..(Len(Returns) + 1)
        BY DEF CollectInv, TypeOK
      <3>3. Ordered = 1..Len(Returns) /\ Len(Returns) \in Nat
        BY CollectAssumption DEF Ordered
      <3> QED
        BY <3>1, <3>2, <3>3
    <2> QED
      BY <1>1, <2>1 DEF Position
  <1>5. Counting' /\ Emitted' /\ Tolerated'
    BY <1>1 DEF CollectInv, Counting, Emitted, Tolerated
  <1>6. StatusHonest' /\ Gathered'
    BY <1>1, <1>2 DEF CollectInv, StatusHonest, Gathered, Valid, Held
  <1>7. AppendedIsGrowth'
    <2>1. before \in Nat /\ result.appended \in Nat
      BY DEF CollectInv, TypeOK
    <2>2. log \in Seq(Candidates \ Malformed)
      BY DEF CollectInv, TypeOK
    <2>3. Len(log) \in Nat /\ Len(log') \in Nat
      BY <1>2, <2>2, LenProperties
    <2> QED
      BY <1>1, <1>2, <2>1, <2>3 DEF CollectInv, Position, AppendedIsGrowth
  <1> QED
    BY <1>3, <1>4, <1>5, <1>6, <1>7 DEF CollectInv

\* A source is done, or failed.
LEMMA SourceStep ==
    ASSUME CollectInv, pc # "idle", pc' = "collect",
           NEW entry \in [would : Nat, captured : Nat, rejected : Nat, reasons : SUBSET {"DEDUPED"},
                         status : {"ok", "empty", "partial", "failed"}],
           sources' = Append(sources, entry), source' = source + 1, source \in Ordered,
           Falls(entry, 0), pending = <<>>,
           ~ dry /\ entry.status \in {"ok", "empty"} =>
              ToSet(Returns[source]) \subseteq Held(entry),
           ~ dry => \/ entry.status = "failed" \/ result.degraded
                    \/ Valid(source) \subseteq Held(entry),
           result' = result \/ result' = [result EXCEPT !.failures = @ + 1],
           UNCHANGED <<log, acks, left, mode, dry, pending, summary, canceled,
                       outcome, before, runs, faults>>
    PROVE  CollectInv'
  <1> DEFINE T == [would : Nat, captured : Nat, rejected : Nat, reasons : SUBSET {"DEDUPED"},
                   status : {"ok", "empty", "partial", "failed"}]
  <1>1. /\ sources \in Seq(T) /\ DOMAIN sources = 1..Len(sources) /\ Len(sources) \in Nat
        /\ source = Len(sources) + 1
    BY DEF CollectInv, TypeOK, Position
  <1>2. /\ sources' \in Seq(T) /\ Len(sources') = Len(sources) + 1
        /\ DOMAIN sources' = 1..(Len(sources) + 1)
        /\ sources'[source] = entry
        /\ \A i \in DOMAIN sources : sources'[i] = sources[i]
    BY <1>1, AppendedSet
  <1>3. \A i \in DOMAIN sources' : i \in DOMAIN sources \/ i = source
    BY <1>1, <1>2
  <1>4. source' \in 1..(Len(Returns) + 1)
    <2>1. Ordered = 1..Len(Returns) /\ Len(Returns) \in Nat
      BY CollectAssumption DEF Ordered
    <2> QED
      BY <2>1
  <1>5. /\ result' \in ResultType
        /\ result'.degraded = result.degraded /\ result'.appended = result.appended
        /\ result'.would = result.would /\ result'.captured = result.captured
        /\ result'.rejected = result.rejected /\ result'.deduped = result.deduped
    <2>1. result \in ResultType
      BY DEF CollectInv, TypeOK, ResultType
    <2> QED
      BY <2>1 DEF ResultType
  <1>6. TypeOK'
    BY <1>2, <1>4, <1>5 DEF CollectInv, TypeOK, ResultType
  <1>7. Position'
    BY <1>1, <1>2 DEF CollectInv, Position
  <1>8. Counting'
    BY <1>2, <1>3, <1>5 DEF CollectInv, Counting, Position
  <1>9. Emitted'
    BY DEF Emitted
  <1>10. StatusHonest'
    BY <1>2, <1>3 DEF CollectInv, StatusHonest, Held
  <1>11. Gathered'
    BY <1>2, <1>3, <1>5 DEF CollectInv, Gathered, Valid, Held
  <1>12. Tolerated' /\ AppendedIsGrowth'
    BY <1>5 DEF CollectInv, Tolerated, AppendedIsGrowth
  <1> QED
    BY <1>6, <1>7, <1>8, <1>9, <1>10, <1>11, <1>12 DEF CollectInv

LEMMA FailedStep == CollectInv /\ CollectFails => CollectInv'
  <1> SUFFICES ASSUME CollectInv, CollectFails PROVE CollectInv'
    OBVIOUS
  <1> DEFINE entry == [NewSummary EXCEPT !.status = "failed"]
  <1>1. entry = [would |-> 0, captured |-> 0, rejected |-> 0, reasons |-> {},
                 status |-> "failed"]
    BY DEF NewSummary
  <1>2. /\ entry \in [would : Nat, captured : Nat, rejected : Nat, reasons : SUBSET {"DEDUPED"},
                      status : {"ok", "empty", "partial", "failed"}]
        /\ Falls(entry, 0) /\ entry.status = "failed"
    BY <1>1 DEF Falls
  <1>3. /\ pc = "collect" /\ pc' = "collect" /\ source \in Ordered
        /\ sources' = Append(sources, entry) /\ source' = source + 1
        /\ result' = [result EXCEPT !.failures = @ + 1]
        /\ UNCHANGED <<log, acks, left, mode, dry, pending, summary, canceled,
                       outcome, before, runs, faults>>
    BY DEF CollectFails
  <1>4. pending = <<>>
    BY <1>3 DEF CollectInv, Counting
  <1> HIDE DEF entry
  <1> QED
    BY <1>2, <1>3, <1>4, SourceStep

LEMMA FinishedStep == CollectInv /\ FinishSource => CollectInv'
  <1> SUFFICES ASSUME CollectInv, FinishSource PROVE CollectInv'
    OBVIOUS
  <1> DEFINE entry == [summary EXCEPT !.status = StatusOf(summary)]
  <1>1. /\ pc = "emit" /\ pending = <<>> /\ pc' = "collect"
        /\ sources' = Append(sources, entry) /\ source' = source + 1
        /\ UNCHANGED <<log, acks, left, mode, dry, pending, summary, canceled, result,
                       outcome, before, runs, faults>>
    BY DEF FinishSource
  <1>2. /\ summary \in SummaryType /\ source \in Ordered
        /\ summary.would = Len(Returns[source]) /\ Falls(summary, 0)
    <2>1. /\ summary \in SummaryType /\ source \in Ordered
          /\ summary.would = Len(Returns[source]) /\ Falls(summary, Len(pending))
      BY <1>1 DEF CollectInv, TypeOK, SummaryType, Position, Counting
    <2>2. Len(pending) = 0
      BY <1>1
    <2> QED
      BY <2>1, <2>2
  <1>3. entry = [would |-> summary.would, captured |-> summary.captured,
                 rejected |-> summary.rejected, reasons |-> summary.reasons,
                 status |-> StatusOf(summary)]
    BY <1>2 DEF SummaryType
  <1>4. StatusOf(summary) \in {"ok", "empty", "partial", "failed"}
    BY DEF StatusOf
  <1>5. /\ entry \in [would : Nat, captured : Nat, rejected : Nat, reasons : SUBSET {"DEDUPED"},
                      status : {"ok", "empty", "partial", "failed"}]
        /\ Falls(entry, 0) /\ entry.reasons = summary.reasons
        /\ entry.status = StatusOf(summary)
    BY <1>2, <1>3, <1>4 DEF SummaryType, Falls
  <1>6. ASSUME ~ dry, NEW c \in ToSet(Returns[source])
        PROVE  c \in Held(entry) \/ (summary.rejected > 0 /\ (c \in Malformed \/ result.degraded))
    <2>1. ToSet(pending) = {}
      BY <1>1 DEF ToSet
    <2> QED
      BY <1>1, <1>5, <1>6, <2>1 DEF CollectInv, Emitted, Held
  <1>7. ASSUME ~ dry, entry.status \in {"ok", "empty"}
        PROVE  ToSet(Returns[source]) \subseteq Held(entry)
    <2>1. CASE summary.would = 0
      <3>1. Returns[source] \in Seq(Candidates)
        BY <1>2, CollectAssumption DEF Ordered
      <3>2. ToSet(Returns[source]) = {}
        <4>1. Len(Returns[source]) = 0
          BY <1>2, <2>1
        <4>2. DOMAIN Returns[source] = 1..Len(Returns[source])
          BY <3>1, LenProperties
        <4> QED
          BY <4>1, <4>2 DEF ToSet
      <3> QED
        BY <3>2
    <2>2. CASE ~ (summary.rejected > 0)
      BY <1>6, <1>7, <2>2
    <2>3. summary.would = 0 \/ ~ (summary.rejected > 0)
      BY <1>5, <1>7 DEF StatusOf
    <2> QED
      BY <2>1, <2>2, <2>3
  <1>8. ~ dry => result.degraded \/ Valid(source) \subseteq Held(entry)
    BY <1>6 DEF Valid
  <1> HIDE DEF entry
  <1> QED
    BY <1>1, <1>2, <1>5, <1>7, <1>8, SourceStep

LEMMA CollectedStep == CollectInv /\ Collect => CollectInv'
  <1> SUFFICES ASSUME CollectInv, Collect PROVE CollectInv'
    OBVIOUS
  <1> DEFINE n == Len(Returns[source])
  <1>1. /\ pc = "collect" /\ source \in Ordered /\ pc' = "emit"
        /\ pending' = Returns[source]
        /\ summary' = [NewSummary EXCEPT !.would = n]
        /\ result' = [result EXCEPT !.would = @ + n]
        /\ UNCHANGED <<log, acks, left, mode, dry, source, sources, canceled, outcome,
                       before, runs, faults>>
    BY DEF Collect
  <1>2. Returns[source] \in Seq(Candidates) /\ n \in Nat
    BY <1>1, CollectAssumption DEF Ordered
  <1>3. /\ summary' \in SummaryType /\ summary'.would = n /\ summary'.captured = 0
        /\ summary'.rejected = 0 /\ summary'.reasons = {}
    BY <1>1, <1>2 DEF NewSummary, SummaryType
  <1>4. /\ result' \in ResultType
        /\ result'.degraded = result.degraded /\ result'.appended = result.appended
        /\ result'.would = result.captured + result.rejected + result.deduped + n
        /\ result'.captured = result.captured /\ result'.rejected = result.rejected
        /\ result'.deduped = result.deduped
    <2>1. result \in ResultType
      BY DEF CollectInv, TypeOK, ResultType
    <2>2. result.would = result.captured + result.rejected + result.deduped
      <3>1. Len(pending) = 0
        BY <1>1 DEF CollectInv, Counting
      <3> QED
        BY <1>1, <2>1, <3>1 DEF CollectInv, Counting, ResultType
    <2>3. /\ result' \in ResultType
          /\ result'.degraded = result.degraded /\ result'.appended = result.appended
          /\ result'.would = result.would + n
          /\ result'.captured = result.captured /\ result'.rejected = result.rejected
          /\ result'.deduped = result.deduped
      <3> HIDE DEF n
      <3> QED
        BY <1>1, <1>2, <2>1 DEF ResultType
    <2> QED
      BY <2>2, <2>3
  <1>5. TypeOK'
    BY <1>1, <1>2, <1>3, <1>4 DEF CollectInv, TypeOK, SummaryType, ResultType
  <1>6. Position' /\ Counting'
    <2>1. Falls(summary', n)
      BY <1>2, <1>3 DEF Falls
    <2> QED
      BY <1>1, <1>2, <1>3, <1>4, <2>1 DEF CollectInv, Position, Counting
  <1>7. Emitted'
    BY <1>1 DEF Emitted
  <1>8. StatusHonest' /\ Gathered'
    BY <1>1, <1>4 DEF CollectInv, StatusHonest, Gathered, Valid, Held
  <1>9. Tolerated' /\ AppendedIsGrowth'
    BY <1>1, <1>4 DEF CollectInv, Tolerated, AppendedIsGrowth
  <1> QED
    BY <1>5, <1>6, <1>7, <1>8, <1>9 DEF CollectInv

\* A run that starts has nothing to answer for.
LEMMA StartStep ==
    ASSUME CollectInv, NEW m \in Modes, NEW d \in BOOLEAN, Start(m, d)
    PROVE  CollectInv'
  <1>1. /\ pc' = "collect" /\ mode' = m /\ dry' = d /\ source' = 1 /\ pending' = <<>>
        /\ summary' = NewSummary /\ sources' = <<>> /\ result' = NewResult
        /\ canceled' = FALSE /\ outcome' = "none" /\ before' = Len(log)
        /\ runs' = runs + 1 /\ runs < MaxRuns /\ UNCHANGED <<log, acks, left, faults>>
    BY DEF Start
  <1>2. /\ summary' \in SummaryType /\ result' \in ResultType
        /\ result'.appended = 0 /\ ~ result'.degraded /\ result'.would = 0
        /\ result'.captured = 0 /\ result'.rejected = 0 /\ result'.deduped = 0
    BY <1>1 DEF NewSummary, NewResult, SummaryType, ResultType
  <1>3. Len(log) \in Nat /\ Len(Returns) \in Nat /\ Len(sources') = 0 /\ DOMAIN sources' = {}
    BY <1>1, CollectAssumption DEF CollectInv, TypeOK
  <1>4. runs' \in 0..MaxRuns
    BY <1>1, CollectAssumption DEF CollectInv, TypeOK
  <1>5. TypeOK'
    <2>1. \A S : <<>> \in Seq(S)
      BY EmptySeq
    <2>2. sources' \in Seq([would : Nat, captured : Nat, rejected : Nat, reasons : SUBSET {"DEDUPED"},
                            status : {"ok", "empty", "partial", "failed"}])
      BY <1>1, <2>1
    <2>3. pending' \in Seq(Candidates) /\ source' \in 1..(Len(Returns) + 1)
      BY <1>1, <1>3, <2>1
    <2> QED
      BY <1>1, <1>2, <1>3, <1>4, <2>2, <2>3 DEF CollectInv, TypeOK, SummaryType, ResultType
  <1>6. Position' /\ Counting' /\ Emitted' /\ StatusHonest' /\ Gathered'
    <2>1. Len(pending') = 0
      BY <1>1
    <2> QED
      BY <1>1, <1>2, <1>3, <2>1 DEF Position, Counting, Emitted, StatusHonest, Gathered
  <1>7. Tolerated' /\ AppendedIsGrowth'
    BY <1>1, <1>2, <1>3 DEF Tolerated, AppendedIsGrowth
  <1> QED
    BY <1>5, <1>6, <1>7 DEF CollectInv

LEMMA InitCollect == Init => CollectInv
  <1> SUFFICES ASSUME Init PROVE CollectInv
    OBVIOUS
  <1>1. /\ log = <<>> /\ acks = {} /\ left = {} /\ pc = "idle" /\ mode \in Modes /\ dry = FALSE
        /\ source = 1 /\ pending = <<>> /\ summary = NewSummary /\ sources = <<>>
        /\ result = NewResult /\ canceled = FALSE /\ outcome = "none" /\ before = 0
        /\ runs = 0 /\ faults = 0
    BY DEF Init, Store!Init
  <1>2. /\ summary \in SummaryType /\ result \in ResultType
        /\ result.appended = 0 /\ ~ result.degraded
    BY <1>1 DEF NewSummary, NewResult, SummaryType, ResultType
  <1>3. Len(Returns) \in Nat /\ MaxRuns \in Nat /\ MaxFaults \in Nat
    BY CollectAssumption
  <1>4. TypeOK
    <2>1. \A S : <<>> \in Seq(S)
      BY EmptySeq
    <2>2. sources \in Seq([would : Nat, captured : Nat, rejected : Nat, reasons : SUBSET {"DEDUPED"},
                           status : {"ok", "empty", "partial", "failed"}])
      BY <1>1, <2>1
    <2>3. log \in Seq(Candidates \ Malformed) /\ pending \in Seq(Candidates)
      BY <1>1, <2>1
    <2>4. /\ acks \subseteq [rec : Candidates, head : Seq(Candidates)]
          /\ source \in 1..(Len(Returns) + 1) /\ runs \in 0..MaxRuns /\ faults \in 0..MaxFaults
      BY <1>1, <1>3
    <2> QED
      BY <1>1, <1>2, <2>2, <2>3, <2>4 DEF TypeOK, SummaryType, ResultType
  <1>5. Position /\ Counting /\ Emitted /\ StatusHonest /\ Gathered
    BY <1>1 DEF Position, Counting, Emitted, StatusHonest, Gathered
  <1>6. Tolerated /\ AppendedIsGrowth
    BY <1>1, <1>2 DEF Tolerated, AppendedIsGrowth
  <1> QED
    BY <1>4, <1>5, <1>6 DEF CollectInv

LEMMA NextCollect == CollectInv /\ [Next]_vars => CollectInv'
  <1> SUFFICES ASSUME CollectInv, [Next]_vars PROVE CollectInv'
    OBVIOUS
  <1>0. faults \in 0..MaxFaults /\ MaxFaults \in Nat
    BY CollectAssumption DEF CollectInv, TypeOK
  <1>1. CASE \E m \in Modes, d \in BOOLEAN : Start(m, d)
    BY <1>1, StartStep
  <1>2. CASE StopCanceled
    BY <1>0, <1>2, EndStep DEF StopCanceled
  <1>3. CASE CollectFails
    BY <1>3, FailedStep
  <1>4. CASE Collect
    BY <1>4, CollectedStep
  <1>5. CASE Emit
    <2>1. CASE EmitAborts
      <3>1. /\ pc # "idle" /\ Emitting /\ End("sink_unavailable")
            /\ \/ UNCHANGED <<log, acks, left>>
               \/ Store!Append1(Head(pending)) \/ Store!Leave(Head(pending))
            /\ faults' \in 0..MaxFaults
        BY <1>0, <2>1 DEF EmitAborts, AppendFails, Unanswered, Emitting
      <3> QED
        BY <3>1, EndStep
    <2>2. CASE ~ EmitAborts
      BY <1>5, <2>2, EmitAccounts, EmitStep DEF Emit
    <2> QED
      BY <2>1, <2>2
  <1>6. CASE FinishSource
    BY <1>6, FinishedStep
  <1>7. CASE Finish
    BY <1>0, <1>7, EndStep DEF Finish
  <1>8. CASE Cancel
    BY <1>8 DEF Cancel, CollectInv, TypeOK, Position, Counting, Emitted, StatusHonest,
                Gathered, Valid, Held, Tolerated, AppendedIsGrowth
  <1>9. CASE Kill
    <2>1. /\ pc # "idle" /\ End("killed") /\ UNCHANGED faults
          /\ \/ UNCHANGED <<log, acks, left>>
             \/ /\ Emitting
                /\ Store!Append1(Head(pending)) \/ Store!Leave(Head(pending))
      BY <1>9 DEF Kill, Unanswered
    <2> QED
      BY <1>0, <2>1, EndStep
  <1>10. CASE UNCHANGED vars
    BY <1>10 DEF vars, CollectInv, TypeOK, Position, Counting, Emitted, StatusHonest,
                 Gathered, Valid, Held, Tolerated, AppendedIsGrowth
  <1> QED
    BY <1>1, <1>2, <1>3, <1>4, <1>5, <1>6, <1>7, <1>8, <1>9, <1>10 DEF Next, Progress

LEMMA CollectInvariant == Spec => []CollectInv
  BY InitCollect, NextCollect, PTL DEF Spec

(* The summaries, the totals and the chain have their types.               *)
THEOREM CollectTypeCorrect == Spec => []TypeOK
  <1>1. CollectInv => TypeOK
    BY DEF CollectInv
  <1> QED
    BY <1>1, CollectInvariant, PTL

(* A real run's "ok" or "empty" for a source means that all its collector  *)
(* returned is in the chain; a run that succeeds and is not degraded by a  *)
(* mode that tolerates it has put every valid candidate of every collector *)
(* that did not fail in the chain.  What is missing was skipped for a key  *)
(* that an undone append left in the index, under the reason DEDUPED.      *)
THEOREM SuccessAlwaysComplete ==
    Spec => []SuccessIsComplete
  <1>1. CollectInv => SuccessIsComplete
    <2> SUFFICES ASSUME CollectInv, Undegraded, NEW i \in Ordered
                 PROVE  /\ i \in DOMAIN sources
                        /\ sources[i].status = "failed" \/ Valid(i) \subseteq Held(sources[i])
      BY DEF SuccessIsComplete, CollectInv
    <2>1. ~ dry /\ ~ result.degraded /\ i \in DOMAIN sources
      BY DEF Undegraded, CollectInv, Tolerated, AllowsFailure, Position
    <2> QED
      BY <2>1 DEF CollectInv, Gathered
  <1> QED
    BY <1>1, CollectInvariant, PTL

(* Result.Appended is the growth of the chain since the run began, except  *)
(* that an append that failed or was cut off may have left its record.     *)
THEOREM AppendedAlwaysGrowth ==
    Spec => []AppendedIsGrowth
  <1>1. CollectInv => AppendedIsGrowth
    BY DEF CollectInv
  <1> QED
    BY <1>1, CollectInvariant, PTL

(* What a run does to the store is what EvidenceLog allows: each step      *)
(* appends one valid candidate that is not in the chain, or leaves its key *)
(* in the index, or neither, also when the append fails or the run is      *)
(* killed.                                                                 *)
LEMMA CollectImplementsLog == Spec => Store!Spec
  <1>1. Init => Store!Init
    BY DEF Init
  <1>2. CollectInv /\ [Next]_vars => [Store!Next]_Store!vars
    <2> SUFFICES ASSUME CollectInv, [Next]_vars PROVE [Store!Next]_Store!vars
      OBVIOUS
    <2>1. \/ UNCHANGED <<log, acks, left>>
          \/ /\ Emitting
             /\ Store!Append1(Head(pending)) \/ Store!Leave(Head(pending))
      BY DEF Next, Progress, Start, StopCanceled, CollectFails, Collect, Emit,
             RejectMalformed, DryCapture, EmitAppended, EmitDeduped, EmitDegraded,
             EmitAborts, AppendFails, Unanswered, FinishSource, Finish, Cancel, Kill, vars
    <2>2. Emitting => Head(pending) \in Candidates \ Malformed
      BY DEF CollectInv, TypeOK, Emitting
    <2> QED
      BY <2>1, <2>2 DEF Store!Next, Store!vars
  <1> QED
    BY <1>1, <1>2, InitCollect, NextCollect, PTL DEF Spec, Store!Spec

-----------------------------------------------------------------------------
(* The totals: Result counts in step with the summary of the source at     *)
(* work, so that it is the sum of the summaries whenever none is at work.  *)

Totals == {"would", "captured", "rejected"}

SumsInv ==
    \A field \in Totals :
        /\ Sum(field) \in Nat
        /\ pc = "emit" => result[field] = Sum(field) + summary[field]
        /\ pc = "collect" \/ outcome = "ok" => result[field] = Sum(field)

\* What SumOf computes, as far as the n-th summary.
Sums(f, s, field, n) ==
    f = [i \in 0..n |-> IF i = 0 THEN 0 ELSE f[i - 1] + s[i][field]]

LEMMA SmallestNumber ==
    ASSUME NEW T, T \subseteq Nat, T # {}
    PROVE  \E m \in T : \A j \in T : m <= j
  <1> DEFINE Less == OpToRel(<, Nat)
  <1>1. \A i, j \in Nat : j < i => <<j, i>> \in Less
    BY DEF OpToRel
  <1>2. IsWellFoundedOn(Less, Nat)
    BY NatLessThanWellFounded
  <1> HIDE DEF Less
  <1>3. PICK m \in T : \A j \in T : ~ (<<j, m>> \in Less)
    BY <1>2, WFMin
  <1>4. ASSUME NEW j \in T
        PROVE  m <= j
    <2>1. m \in Nat /\ j \in Nat /\ ~ (j < m)
      BY <1>1, <1>3
    <2> QED
      BY <2>1
  <1> QED
    BY <1>4

(* The recursion by which SumOf is defined has a solution: there is no     *)
(* shortest prefix for which it has none.                                  *)
LEMMA SumsGrow ==
    ASSUME NEW s, NEW field, NEW n \in Nat, NEW f, Sums(f, s, field, n)
    PROVE  \E g : Sums(g, s, field, n + 1)
  <1> DEFINE next == f[n] + s[n + 1][field]
             g == [i \in 0..(n + 1) |-> IF i = n + 1 THEN next ELSE f[i]]
             step(i) == IF i = 0 THEN 0 ELSE g[i - 1] + s[i][field]
  <1>1. ASSUME NEW i \in 0..n
        PROVE  f[i] = IF i = 0 THEN 0 ELSE f[i - 1] + s[i][field]
    BY Zenon DEF Sums
  <1>2. \A i \in 0..n : i \in 0..(n + 1) /\ i # n + 1 /\ g[i] = f[i]
    OBVIOUS
  <1>3. g[n + 1] = next /\ n \in 0..n /\ n + 1 # 0 /\ (n + 1) - 1 = n
    OBVIOUS
  <1> HIDE DEF g
  <1>4. ASSUME NEW i \in 0..(n + 1)
        PROVE  g[i] = step(i)
    <2>1. CASE i = n + 1
      BY <1>2, <1>3, <2>1
    <2>2. CASE i = 0
      BY <1>1, <1>2, <2>2
    <2>3. CASE i # n + 1 /\ i # 0
      <3>1. i \in 0..n /\ i - 1 \in 0..n
        BY <2>3
      <3> QED
        BY <1>1, <1>2, <2>3, <3>1
    <2> QED
      BY <2>1, <2>2, <2>3
  <1>5. g = [i \in 0..(n + 1) |-> g[i]]
    BY DEF g
  <1>6. g = [i \in 0..(n + 1) |-> step(i)]
    BY <1>4, <1>5
  <1> QED
    BY <1>6 DEF Sums

LEMMA SumsExist ==
    ASSUME NEW s, NEW field, NEW n \in Nat
    PROVE  \E f : Sums(f, s, field, n)
  <1> DEFINE Without == {m \in Nat : ~ \E f : Sums(f, s, field, m)}
  <1> SUFFICES ASSUME Without # {}
               PROVE  FALSE
    OBVIOUS
  <1>1. PICK m \in Without : \A j \in Without : m <= j
    <2>1. Without \subseteq Nat
      OBVIOUS
    <2> HIDE DEF Without
    <2> QED
      BY <2>1, SmallestNumber
  <1>2. m # 0
    <2>1. 0..0 = {0}
      OBVIOUS
    <2>2. Sums([i \in {0} |-> 0], s, field, 0)
      BY <2>1 DEF Sums
    <2> QED
      BY <2>2
  <1>3. m - 1 \in Nat /\ ~ (m <= m - 1) /\ (m - 1) + 1 = m
    BY <1>1, <1>2
  <1>4. PICK f : Sums(f, s, field, m - 1)
    BY <1>1, <1>3
  <1>5. \E g : Sums(g, s, field, m)
    BY <1>3, <1>4, SumsGrow
  <1> QED
    BY <1>1, <1>5

LEMMA SumOfSums ==
    ASSUME NEW s, NEW field, Len(s) \in Nat
    PROVE  \E f : Sums(f, s, field, Len(s)) /\ SumOf(s, field) = f[Len(s)]
  <1>1. PICK g : Sums(g, s, field, Len(s))
    BY SumsExist
  <1> QED
    BY <1>1 DEF SumOf, Sums

LEMMA SumOfNone == \A field : SumOf(<<>>, field) = 0
  <1> TAKE field
  <1>1. Len(<<>>) = 0 /\ 0 \in Nat /\ 0 \in 0..0
    BY EmptySeq
  <1>2. PICK f : Sums(f, <<>>, field, 0) /\ SumOf(<<>>, field) = f[0]
    BY <1>1, SumOfSums
  <1>3. f[0] = 0
    BY <1>1, <1>2, Zenon DEF Sums
  <1> QED
    BY <1>2, <1>3

(* One more summary adds its own counts.                                   *)
LEMMA SumOfAppend ==
    ASSUME NEW S, NEW s \in Seq(S), NEW r \in S, NEW field
    PROVE  SumOf(Append(s, r), field) = SumOf(s, field) + r[field]
  <1> DEFINE t == Append(s, r)
             n == Len(s)
  <1>1. /\ n \in Nat /\ Len(t) = n + 1 /\ t[n + 1] = r
        /\ \A i \in 1..n : t[i] = s[i]
        /\ n \in 0..n /\ n + 1 \in 0..(n + 1) /\ n + 1 # 0 /\ (n + 1) - 1 = n
    OBVIOUS
  <1> HIDE DEF t, n
  <1>2. PICK f : Sums(f, s, field, n) /\ SumOf(s, field) = f[n]
    BY <1>1, SumOfSums DEF n
  <1>3. PICK g : Sums(g, t, field, n + 1) /\ SumOf(t, field) = g[n + 1]
    <2>1. Len(t) \in Nat
      BY <1>1
    <2> QED
      BY <1>1, <2>1, SumOfSums
  <1>4. ASSUME NEW i \in 0..n
        PROVE  f[i] = IF i = 0 THEN 0 ELSE f[i - 1] + s[i][field]
    BY <1>2, Zenon DEF Sums
  <1>5. ASSUME NEW i \in 0..(n + 1)
        PROVE  g[i] = IF i = 0 THEN 0 ELSE g[i - 1] + t[i][field]
    BY <1>3, Zenon DEF Sums
  <1> DEFINE Apart == {i \in 0..n : f[i] # g[i]}
  <1>6. Apart = {}
    <2> SUFFICES ASSUME Apart # {} PROVE FALSE
      OBVIOUS
    <2>1. PICK m \in Apart : \A j \in Apart : m <= j
      <3>1. Apart \subseteq Nat
        BY <1>1
      <3> HIDE DEF Apart
      <3> QED
        BY <3>1, SmallestNumber
    <2>2. m \in 0..n /\ m \in 0..(n + 1) /\ f[m] # g[m]
      BY <1>1, <2>1
    <2>3. m # 0
      <3>1. 0 \in 0..n /\ 0 \in 0..(n + 1)
        BY <1>1
      <3>2. f[0] = 0 /\ g[0] = 0
        BY <1>4, <1>5, <3>1, Zenon
      <3> QED
        BY <2>2, <3>2
    <2>4. m \in 1..n /\ m - 1 \in 0..n /\ ~ (m <= m - 1)
      BY <1>1, <2>2, <2>3
    <2>5. f[m - 1] = g[m - 1]
      BY <2>1, <2>4
    <2>6. f[m] = f[m - 1] + s[m][field]
      BY <1>4, <2>2, <2>3, Zenon
    <2>7. g[m] = g[m - 1] + t[m][field]
      BY <1>5, <2>2, <2>3, Zenon
    <2>8. t[m] = s[m]
      BY <1>1, <2>4
    <2> QED
      BY <2>2, <2>5, <2>6, <2>7, <2>8
  <1>7. f[n] = g[n]
    BY <1>1, <1>6
  <1>8. g[n + 1] = g[n] + t[n + 1][field]
    BY <1>1, <1>5
  <1> QED
    BY <1>1, <1>2, <1>3, <1>7, <1>8 DEF t

(* Every way of emitting a candidate counts it alike in both.              *)
LEMMA EmitSums ==
    ASSUME CollectInv,
           RejectMalformed \/ DryCapture \/ EmitAppended \/ EmitDeduped \/ EmitDegraded,
           NEW field \in Totals
    PROVE  /\ result[field] \in Nat /\ summary[field] \in Nat
           /\ \/ /\ result'[field] = result[field] + 1
                 /\ summary'[field] = summary[field] + 1
              \/ result'[field] = result[field] /\ summary'[field] = summary[field]
  <1>1. summary \in SummaryType /\ result \in ResultType
    BY DEF CollectInv, TypeOK, SummaryType, ResultType
  <1>2. /\ DOMAIN summary = {"would", "captured", "rejected", "reasons", "status"}
        /\ DOMAIN result = {"would", "captured", "rejected", "deduped", "appended",
                            "failures", "degraded"}
    BY <1>1 DEF SummaryType, ResultType
  <1>0. CASE EmitDeduped
    <2>1. field \in DOMAIN summary /\ field \in DOMAIN result /\ field # "deduped" /\ field # "reasons"
      BY <1>2 DEF Totals
    <2>2. result[field] \in Nat /\ summary[field] \in Nat
      BY <1>1 DEF SummaryType, ResultType, Totals
    <2>3. summary'[field] = summary[field] /\ result'[field] = result[field]
      BY <1>0, <2>1 DEF EmitDeduped
    <2> QED
      BY <2>2, <2>3
  <1> SUFFICES ASSUME ~ EmitDeduped
               PROVE  /\ result[field] \in Nat /\ summary[field] \in Nat
                      /\ \/ /\ result'[field] = result[field] + 1
                            /\ summary'[field] = summary[field] + 1
                         \/ result'[field] = result[field] /\ summary'[field] = summary[field]
    BY <1>0
  <1>3. PICK which \in Totals :
           /\ summary' = [summary EXCEPT ![which] = @ + 1]
           /\ \/ result' = [result EXCEPT ![which] = @ + 1]
              \/ result' = [result EXCEPT ![which] = @ + 1, !.appended = @ + 1]
              \/ result' = [result EXCEPT ![which] = @ + 1, !.degraded = TRUE]
    <2>1. CASE RejectMalformed
      BY <2>1 DEF RejectMalformed, Count, Totals
    <2>2. CASE DryCapture
      BY <2>2 DEF DryCapture, Count, Totals
    <2>3. CASE EmitAppended
      BY <2>3 DEF EmitAppended, Totals
    <2>5. CASE EmitDegraded
      BY <2>5 DEF EmitDegraded, Totals
    <2> QED
      BY <2>1, <2>2, <2>3, <2>5
  <1>4. result[field] \in Nat /\ summary[field] \in Nat
    BY <1>1 DEF SummaryType, ResultType, Totals
  <1>5. /\ field \in DOMAIN summary /\ field \in DOMAIN result
        /\ field # "appended" /\ field # "degraded"
        /\ which \in DOMAIN summary /\ which \in DOMAIN result
        /\ which # "appended" /\ which # "degraded"
    BY <1>2, <1>3 DEF Totals
  <1>6. IF field = which
        THEN summary'[field] = summary[field] + 1 /\ result'[field] = result[field] + 1
        ELSE summary'[field] = summary[field] /\ result'[field] = result[field]
    BY <1>3, <1>5
  <1> QED
    BY <1>4, <1>6

LEMMA SourceSum ==
    ASSUME CollectInv, SumsInv, NEW entry \in SourceType,
           sources' = Append(sources, entry), NEW field \in Totals
    PROVE  /\ Sum(field)' = Sum(field) + entry[field]
           /\ entry[field] \in Nat /\ Sum(field)' \in Nat
  <1>1. sources \in Seq(SourceType)
    BY DEF CollectInv, TypeOK, SourceType
  <1>2. SumOf(Append(sources, entry), field) = SumOf(sources, field) + entry[field]
    BY <1>1, SumOfAppend
  <1>3. entry[field] \in Nat
    BY DEF SourceType, Totals
  <1>4. Sum(field) \in Nat
    BY DEF SumsInv
  <1>5. Sum(field)' = Sum(field) + entry[field]
    BY <1>2 DEF Sum
  <1> QED
    BY <1>3, <1>4, <1>5

LEMMA InitSums == Init => SumsInv
  <1> SUFFICES ASSUME Init, NEW field \in Totals
               PROVE  Sum(field) = 0 /\ result[field] = 0 /\ pc = "idle"
    BY DEF SumsInv
  <1> QED
    BY SumOfNone DEF Init, Sum, NewResult, Totals

LEMMA NextSums == CollectInv /\ SumsInv /\ [Next]_vars => SumsInv'
  <1> SUFFICES ASSUME CollectInv, SumsInv, [Next]_vars, NEW field \in Totals
               PROVE  /\ Sum(field)' \in Nat
                      /\ pc' = "emit" => result'[field] = Sum(field)' + summary'[field]
                      /\ pc' = "collect" \/ outcome' = "ok" => result'[field] = Sum(field)'
    BY DEF SumsInv
  <1>1. /\ Sum(field) \in Nat
        /\ pc = "emit" => result[field] = Sum(field) + summary[field]
        /\ pc = "collect" \/ outcome = "ok" => result[field] = Sum(field)
        /\ pc # "idle" => outcome = "none"
        /\ result \in ResultType /\ summary \in SummaryType
    BY DEF CollectInv, TypeOK, ResultType, SummaryType, Position, SumsInv
  <1>2. sources' = sources => Sum(field)' = Sum(field)
    BY DEF Sum
  <1>3. CASE \E m \in Modes, d \in BOOLEAN : Start(m, d)
    <2>1. pc' = "collect" /\ sources' = <<>> /\ result' = NewResult
      BY <1>3 DEF Start
    <2>2. Sum(field)' = 0
      BY <2>1, SumOfNone DEF Sum
    <2>3. NewResult[field] = 0
      BY DEF NewResult, Totals
    <2> QED
      BY <2>1, <2>2, <2>3
  <1>4. ASSUME NEW how, End(how), pc # "idle", how = "ok" => pc = "collect"
        PROVE  /\ Sum(field)' \in Nat
               /\ pc' = "emit" => result'[field] = Sum(field)' + summary'[field]
               /\ pc' = "collect" \/ outcome' = "ok" => result'[field] = Sum(field)'
    <2>1. pc' = "idle" /\ outcome' = how /\ result' = result /\ sources' = sources
      BY <1>4 DEF End
    <2> QED
      BY <1>1, <1>2, <1>4, <2>1
  <1>5. CASE CollectFails
    <2> DEFINE entry == [NewSummary EXCEPT !.status = "failed"]
    <2>1. entry = [would |-> 0, captured |-> 0, rejected |-> 0, reasons |-> {},
                   status |-> "failed"]
      BY DEF NewSummary
    <2>2. entry \in SourceType /\ entry[field] = 0
      BY <2>1 DEF SourceType, Totals
    <2>3. /\ pc = "collect" /\ pc' = pc /\ outcome' = outcome
          /\ sources' = Append(sources, entry)
          /\ result' = [result EXCEPT !.failures = @ + 1]
      BY <1>5 DEF CollectFails
    <2> HIDE DEF entry
    <2>4. Sum(field)' = Sum(field) + entry[field]
      BY <2>2, <2>3, SourceSum
    <2>5. result'[field] = result[field]
      BY <1>1, <2>3 DEF ResultType, Totals
    <2> QED
      BY <1>1, <2>2, <2>3, <2>4, <2>5
  <1>6. CASE Collect
    <2> DEFINE n == Len(Returns[source])
    <2>1. /\ pc = "collect" /\ pc' = "emit" /\ outcome' = outcome /\ sources' = sources
          /\ source \in Ordered
          /\ summary' = [NewSummary EXCEPT !.would = n]
          /\ result' = [result EXCEPT !.would = @ + n]
      BY <1>6 DEF Collect
    <2>2. n \in Nat
      BY <2>1, CollectAssumption DEF Ordered
    <2> HIDE DEF n
    <2>3. summary' = [would |-> n, captured |-> 0, rejected |-> 0, reasons |-> {},
                      status |-> "ok"]
      BY <2>1 DEF NewSummary
    <2>4. result'[field] = result[field] + summary'[field]
      <3>1. result[field] \in Nat /\ field \in DOMAIN result
        BY <1>1 DEF ResultType, Totals
      <3>2. CASE field = "would"
        BY <2>1, <2>2, <2>3, <3>1, <3>2
      <3>3. CASE field # "would"
        <4>1. result'[field] = result[field]
          BY <2>1, <3>1, <3>3
        <4>2. summary'[field] = 0
          BY <2>3, <3>3 DEF Totals
        <4> QED
          BY <3>1, <4>1, <4>2
      <3> QED
        BY <3>2, <3>3
    <2> QED
      BY <1>1, <1>2, <2>1, <2>4
  <1>7. CASE Emit
    <2>1. CASE EmitAborts
      BY <1>4, <2>1 DEF EmitAborts, AppendFails, Emitting
    <2>2. CASE ~ EmitAborts
      <3>1. /\ RejectMalformed \/ DryCapture \/ EmitAppended \/ EmitDeduped \/ EmitDegraded
            /\ UNCHANGED <<sources, outcome>>
        BY <1>7, <2>2 DEF Emit
      <3>2. pc = "emit" /\ pc' = "emit"
        BY <3>1 DEF RejectMalformed, DryCapture, EmitAppended, EmitDeduped, EmitDegraded,
                    Emitting, AppendFails
      <3>3. /\ result[field] \in Nat /\ summary[field] \in Nat
            /\ \/ /\ result'[field] = result[field] + 1
                  /\ summary'[field] = summary[field] + 1
               \/ result'[field] = result[field] /\ summary'[field] = summary[field]
        BY <3>1, EmitSums
      <3> QED
        BY <1>1, <1>2, <3>1, <3>2, <3>3
    <2> QED
      BY <2>1, <2>2
  <1>8. CASE FinishSource
    <2> DEFINE entry == [summary EXCEPT !.status = StatusOf(summary)]
    <2>1. /\ pc = "emit" /\ pc' = "collect" /\ UNCHANGED <<result, outcome>>
          /\ sources' = Append(sources, entry)
      BY <1>8 DEF FinishSource
    <2>2. StatusOf(summary) \in {"ok", "empty", "partial", "failed"}
      BY DEF StatusOf
    <2>3. entry \in SourceType /\ entry[field] = summary[field]
      BY <1>1, <2>2 DEF SummaryType, SourceType, Totals
    <2> HIDE DEF entry
    <2>4. Sum(field)' = Sum(field) + summary[field] /\ Sum(field)' \in Nat
      BY <2>1, <2>3, SourceSum
    <2> QED
      BY <1>1, <2>1, <2>4
  <1>9. CASE StopCanceled
    BY <1>4, <1>9 DEF StopCanceled
  <1>10. CASE Finish
    BY <1>4, <1>10 DEF Finish
  <1>11. CASE Kill
    BY <1>4, <1>11 DEF Kill
  <1>12. CASE Cancel \/ UNCHANGED vars
    BY <1>1, <1>2, <1>12 DEF Cancel, vars
  <1> QED
    BY <1>3, <1>5, <1>6, <1>7, <1>8, <1>9, <1>10, <1>11, <1>12 DEF Next, Progress

(* Every candidate a collector returned is captured, rejected or deduped   *)
(* exactly once, whatever happens to its append: the totals of a run that  *)
(* succeeds are the sums of its sources', however many there are, and miss *)
(* no candidate, and a summary falls short of what its source returned     *)
(* exactly when it gives DEDUPED as a reason.                              *)
THEOREM EveryCandidateAlwaysCounted ==
    Spec => []EveryCandidateCounted
  <1>1. CollectInv /\ SumsInv => EveryCandidateCounted
    <2> SUFFICES ASSUME CollectInv, SumsInv PROVE EveryCandidateCounted
      OBVIOUS
    <2>1. ASSUME NEW i \in DOMAIN sources
          PROVE  /\ sources[i].captured + sources[i].rejected <= sources[i].would
                 /\ sources[i].captured + sources[i].rejected < sources[i].would
                       <=> "DEDUPED" \in sources[i].reasons
      <3>1. Falls(sources[i], 0)
        BY <2>1 DEF CollectInv, Counting
      <3>2. sources \in Seq(SourceType)
        BY DEF CollectInv, TypeOK, SourceType
      <3>3. sources[i] \in SourceType
        BY <2>1, <3>2
      <3> QED
        BY <3>1, <3>3 DEF Falls, SourceType
    <2>2. ASSUME outcome = "ok"
          PROVE  result.would = result.captured + result.rejected + result.deduped
      <3>1. /\ result.would = result.captured + result.rejected + result.deduped + Len(pending)
            /\ Len(pending) = 0 /\ result \in ResultType
        BY <2>2 DEF CollectInv, Counting, TypeOK, ResultType
      <3> QED
        BY <3>1 DEF ResultType
    <2> QED
      BY <2>1, <2>2 DEF SumsInv, Totals, EveryCandidateCounted
  <1> QED
    BY InitSums, NextSums, CollectInvariant, <1>1, PTL DEF Spec

-----------------------------------------------------------------------------
(* What `axym gaps`, `axym map` and `axym regress` compute from the chain. *)

RankOf(control, chain) == StatusRank(EvaluateControl(control, chain).status)

LEMMA RankType == \A status : StatusRank(status) \in 0..2
  BY DEF StatusRank

(* A longer chain with the same latest record does no requirement set     *)
(* worse: what a record matches does not depend on the others.            *)
LEMMA SetNeverLowers ==
    ASSUME NEW S, NEW T, S \subseteq T, Latest(S) = Latest(T), NEW req
    PROVE  StatusRank(EvaluateRequirementSet(req, S).status)
              <= StatusRank(EvaluateRequirementSet(req, T).status)
  <1> DEFINE Candidate(R) == {r \in R : /\ r.type \in req.types
                                        /\ req.products = {} \/ r.product \in req.products}
             Invalid(R) == {r \in Candidate(R) : IsInvalidEvidenceClass(r)}
             Remaining(R) == Candidate(R) \ Invalid(R)
             Absent(r) == {f \in req.fields : ~RecordFieldExists(r, f)}
             Lacking(r) == Absent(r) \cup IdentityMissing(r)
             Matched(R) == {r \in Remaining(R) : Lacking(r) = {}}
             Partial(R) == {r \in Remaining(R) \ Matched(R) : Absent(r) # req.fields}
             Recent(R) == {r \in Remaining(R) : InFrequencyWindow(req.frequency, R, r)}
             Types(R) == {r.type : r \in Matched(R) \cap Recent(R)}
             Met(R) == /\ Matched(R) \cap Recent(R) # {}
                       /\ req.all => req.types \subseteq Types(R)
             Status(R) == IF Met(R) THEN "covered"
                          ELSE IF Matched(R) \cup Partial(R) # {} THEN "partial" ELSE "gap"
  <1>1. ASSUME NEW R PROVE EvaluateRequirementSet(req, R).status = Status(R)
    BY DEF EvaluateRequirementSet
  <1>2. Matched(S) \subseteq Matched(T) /\ Partial(S) \subseteq Partial(T)
    OBVIOUS
  <1>3. Recent(S) \subseteq Recent(T)
    BY DEF InFrequencyWindow
  <1> HIDE DEF Matched, Recent, Partial
  <1>4. Types(S) \subseteq Types(T)
    BY <1>2, <1>3
  <1> HIDE DEF Types
  <1>5. Met(S) => Met(T)
    BY <1>2, <1>3, <1>4
  <1> HIDE DEF Met
  <1>6. StatusRank(Status(S)) <= StatusRank(Status(T))
    BY <1>2, <1>5 DEF StatusRank
  <1> QED
    BY <1>1, <1>6

-----------------------------------------------------------------------------
(* Of the results of a control's sets the one selected is of the best      *)
(* status, whatever else they are compared by.                             *)
LEMMA PreferredRank ==
    ASSUME NEW a, NEW b
    PROVE  /\ StatusRank(a.status) > StatusRank(b.status) => PreferControlResult(a, b)
           /\ PreferControlResult(a, b) => StatusRank(a.status) >= StatusRank(b.status)
  <1> DEFINE m == Merits(a, b)
             n == Merits(b, a)
  <1>1. /\ Len(m) = 8 /\ m[1] = StatusRank(a.status)
        /\ Len(n) = 8 /\ n[1] = StatusRank(b.status)
    BY DEF Merits
  <1>2. StatusRank(a.status) \in 0..2 /\ StatusRank(b.status) \in 0..2
    BY RankType
  <1>3. PreferControlResult(a, b) <=> Better(m, n)
    BY DEF PreferControlResult
  <1> HIDE DEF m, n
  <1>4. Better(m, n) <=> \E i \in 1..8 : m[i] > n[i] /\ \A j \in 1..(i - 1) : m[j] = n[j]
    BY <1>1 DEF Better
  <1>5. m[1] > n[1] => Better(m, n)
    <2>1. 1 \in 1..8 /\ \A j \in 1..(1 - 1) : m[j] = n[j]
      OBVIOUS
    <2> QED
      BY <1>4, <2>1
  <1>6. Better(m, n) => m[1] >= n[1]
    <2> SUFFICES ASSUME NEW i \in 1..8, m[i] > n[i], \A j \in 1..(i - 1) : m[j] = n[j]
                 PROVE  m[1] >= n[1]
      BY <1>4
    <2>1. CASE i = 1
      BY <1>1, <1>2, <2>1
    <2>2. CASE i # 1
      <3>1. 1 \in 1..(i - 1)
        BY <2>2
      <3> QED
        BY <1>1, <1>2, <3>1
    <2> QED
      BY <2>1, <2>2
  <1> QED
    BY <1>1, <1>3, <1>5, <1>6

SetResult(control, chain, i) == EvaluateRequirementSet(control.sets[i], chain)

Choice(f, control, chain, i) ==
    IF i = 1 THEN SetResult(control, chain, 1)
    ELSE IF PreferControlResult(SetResult(control, chain, i), f[i - 1])
         THEN SetResult(control, chain, i) ELSE f[i - 1]

\* What EvaluateControl selects, as far as the n-th set.
Chosen(f, control, chain, n) == f = [i \in 1..n |-> Choice(f, control, chain, i)]

LEMMA ChoicesGrow ==
    ASSUME NEW control, NEW chain, NEW n \in Nat, NEW f, Chosen(f, control, chain, n)
    PROVE  \E g : Chosen(g, control, chain, n + 1)
  <1> DEFINE g == [i \in 1..(n + 1) |-> IF i = n + 1 THEN Choice(f, control, chain, n + 1)
                                       ELSE f[i]]
  <1>1. ASSUME NEW i \in 1..n PROVE f[i] = Choice(f, control, chain, i)
    BY Zenon DEF Chosen
  <1>2. \A i \in 1..n : i \in 1..(n + 1) /\ i # n + 1 /\ g[i] = f[i]
    OBVIOUS
  <1>3. g[n + 1] = Choice(f, control, chain, n + 1) /\ n + 1 \in 1..(n + 1)
    OBVIOUS
  <1>4. g = [i \in 1..(n + 1) |-> g[i]]
    OBVIOUS
  <1> HIDE DEF g
  <1>5. ASSUME NEW i \in 1..(n + 1)
        PROVE  g[i] = Choice(g, control, chain, i)
    <2>1. g[i] = Choice(f, control, chain, i)
      BY <1>1, <1>2, <1>3
    <2>2. i # 1 => i - 1 \in 1..n
      OBVIOUS
    <2>3. i # 1 => g[i - 1] = f[i - 1]
      BY <1>2, <2>2
    <2> QED
      BY <2>1, <2>3 DEF Choice
  <1>6. g = [i \in 1..(n + 1) |-> Choice(g, control, chain, i)]
    BY <1>4, <1>5
  <1> QED
    BY <1>6 DEF Chosen

LEMMA ChoicesExist ==
    ASSUME NEW control, NEW chain, NEW n \in Nat
    PROVE  \E f : Chosen(f, control, chain, n)
  <1> DEFINE Without == {m \in Nat : ~ \E f : Chosen(f, control, chain, m)}
  <1> SUFFICES ASSUME Without # {} PROVE FALSE
    OBVIOUS
  <1>1. PICK m \in Without : \A j \in Without : m <= j
    <2>1. Without \subseteq Nat
      OBVIOUS
    <2> HIDE DEF Without
    <2> QED
      BY <2>1, SmallestNumber
  <1>2. m # 0
    <2>1. 1..0 = {}
      OBVIOUS
    <2>2. Chosen([i \in {} |-> 0], control, chain, 0)
      BY <2>1 DEF Chosen
    <2> QED
      BY <2>2
  <1>3. m - 1 \in Nat /\ ~ (m <= m - 1) /\ (m - 1) + 1 = m
    BY <1>1, <1>2
  <1>4. PICK f : Chosen(f, control, chain, m - 1)
    BY <1>1, <1>3
  <1>5. \E g : Chosen(g, control, chain, m)
    BY <1>3, <1>4, ChoicesGrow
  <1> QED
    BY <1>1, <1>5

LEMMA ControlChoice ==
    ASSUME NEW control, NEW chain, Len(control.sets) \in Nat
    PROVE  \E f : /\ Chosen(f, control, chain, Len(control.sets))
                  /\ EvaluateControl(control, chain) = f[Len(control.sets)]
  <1>1. PICK g : Chosen(g, control, chain, Len(control.sets))
    BY ChoicesExist
  <1> QED
    BY <1>1 DEF EvaluateControl, Chosen, Choice, SetResult

LEMMA BestStatusSelected ==
    ASSUME NEW control, NEW chain, Len(control.sets) \in Nat \ {0}
    PROVE  /\ \E i \in 1..Len(control.sets) :
                 EvaluateControl(control, chain) = SetResult(control, chain, i)
           /\ \A i \in 1..Len(control.sets) :
                 StatusRank(SetResult(control, chain, i).status) <= RankOf(control, chain)
  <1> DEFINE n == Len(control.sets)
             Result(i) == SetResult(control, chain, i)
  <1>1. PICK f : Chosen(f, control, chain, n) /\ EvaluateControl(control, chain) = f[n]
    BY ControlChoice
  <1>2. ASSUME NEW i \in 1..n PROVE f[i] = Choice(f, control, chain, i)
    BY <1>1, Zenon DEF Chosen
  <1> DEFINE Good(i) == /\ \E j \in 1..i : f[i] = Result(j)
                        /\ \A j \in 1..i : StatusRank(Result(j).status) <= StatusRank(f[i].status)
             Bad == {i \in 1..n : ~ Good(i)}
  <1> HIDE DEF n, Result
  <1>n. n \in Nat \ {0}
    BY DEF n
  <1>3. Bad = {}
    <2> SUFFICES ASSUME Bad # {} PROVE FALSE
      OBVIOUS
    <2>1. PICK m \in Bad : \A j \in Bad : m <= j
      <3>1. Bad \subseteq Nat
        BY <1>n
      <3> HIDE DEF Bad
      <3> QED
        BY <3>1, SmallestNumber
    <2>2. m \in 1..n /\ ~ Good(m)
      BY <2>1
    <2>3. f[m] = Choice(f, control, chain, m)
      BY <1>2, <2>2
    <2>4. \A s : StatusRank(s) \in 0..2
      BY RankType
    <2>5. CASE m = 1
      <3>1. f[1] = Result(1)
        BY <2>3, <2>5 DEF Choice, Result
      <3>2. 1..1 = {1}
        OBVIOUS
      <3> QED
        BY <2>2, <2>4, <2>5, <3>1, <3>2
    <2>6. CASE m # 1
      <3>1. m - 1 \in 1..n /\ m - 1 \notin Bad
        <4>1. m - 1 \in 1..n /\ ~ (m <= m - 1)
          BY <1>n, <2>2, <2>6
        <4> HIDE DEF Bad
        <4> QED
          BY <2>1, <4>1
      <3>2. Good(m - 1)
        BY <3>1
      <3>3. 1..m = 1..(m - 1) \cup {m}
        BY <1>n, <2>2
      <3>4. f[m] = IF PreferControlResult(Result(m), f[m - 1]) THEN Result(m) ELSE f[m - 1]
        BY <2>3, <2>6 DEF Choice, Result
      <3>5. /\ StatusRank(Result(m).status) > StatusRank(f[m - 1].status)
                 => PreferControlResult(Result(m), f[m - 1])
            /\ PreferControlResult(Result(m), f[m - 1])
                 => StatusRank(Result(m).status) >= StatusRank(f[m - 1].status)
        BY PreferredRank
      <3>6. /\ StatusRank(Result(m).status) <= StatusRank(f[m].status)
            /\ StatusRank(f[m - 1].status) <= StatusRank(f[m].status)
        BY <2>4, <3>4, <3>5
      <3>7. \A j \in 1..(m - 1) : StatusRank(Result(j).status) <= StatusRank(f[m].status)
        BY <2>4, <3>2, <3>6
      <3>8. \E j \in 1..m : f[m] = Result(j)
        BY <3>2, <3>3, <3>4
      <3>9. \A j \in 1..m : StatusRank(Result(j).status) <= StatusRank(f[m].status)
        BY <3>3, <3>6, <3>7
      <3> QED
        BY <2>2, <3>8, <3>9
    <2> QED
      BY <2>5, <2>6
  <1>4. n \in 1..n /\ Good(n)
    BY <1>n, <1>3
  <1> QED
    BY <1>1, <1>4 DEF n, Result, RankOf

(* So no control is lower on a longer chain with the same latest record.   *)
LEMMA ControlNeverLowers ==
    ASSUME NEW S, NEW T, S \subseteq T, Latest(S) = Latest(T),
           NEW control, Len(control.sets) \in Nat \ {0}
    PROVE  RankOf(control, S) <= RankOf(control, T)
  <1>1. PICK i \in 1..Len(control.sets) :
           EvaluateControl(control, S) = SetResult(control, S, i)
    BY BestStatusSelected
  <1>2. StatusRank(SetResult(control, T, i).status) <= RankOf(control, T)
    BY BestStatusSelected
  <1>3. StatusRank(SetResult(control, S, i).status)
           <= StatusRank(SetResult(control, T, i).status)
    BY SetNeverLowers DEF SetResult
  <1> QED
    BY <1>1, <1>2, <1>3, RankType DEF RankOf

-----------------------------------------------------------------------------
(* A coverage ratio does not fall as covered controls are added.           *)
LEMMA DivMonotone ==
    ASSUME NEW a \in Nat, NEW b \in Nat, NEW d \in Nat \ {0}, a <= b
    PROVE  /\ a \div d <= b \div d
           /\ a \div d \in Nat /\ b \div d \in Nat
  <1> DEFINE q == a \div d
             p == b \div d
  <1>1. /\ q \in Int /\ q * d <= a /\ a < (q + 1) * d
        /\ p \in Int /\ p * d <= b /\ b < (p + 1) * d
    OBVIOUS
  <1> HIDE DEF q, p
  <1>2. \A k, l \in Int : k < l => (k + 1) * d <= l * d
    OBVIOUS
  <1>3. ~ (p < q)
    BY <1>1, <1>2
  <1>4. q \in Nat /\ p \in Nat
    BY <1>1, <1>2
  <1> QED
    BY <1>1, <1>3, <1>4 DEF q, p

LEMMA CoverageMonotone ==
    ASSUME NEW C, IsFiniteSet(C), NEW v, NEW w, DOMAIN v = C, DOMAIN w = C,
           \A c \in C : v[c].status = "covered" => w[c].status = "covered"
    PROVE  /\ FrameworkCoverage(v) \in Int /\ FrameworkCoverage(w) \in Int
           /\ FrameworkCoverage(v) <= FrameworkCoverage(w)
  <1> DEFINE covered(x) == {c \in C : x[c].status = "covered"}
             n == Cardinality(C)
             k == Cardinality(covered(v))
             l == Cardinality(covered(w))
  <1>1. CASE C = {}
    BY <1>1 DEF FrameworkCoverage
  <1>2. CASE C # {}
    <2>1. covered(v) \subseteq covered(w) /\ covered(w) \subseteq C /\ covered(v) \subseteq C
      OBVIOUS
    <2> HIDE DEF covered
    <2>2. n \in Nat \ {0}
      BY <1>2, FS_CardinalityType, FS_EmptySet
    <2>3. IsFiniteSet(covered(w)) /\ IsFiniteSet(covered(v))
      BY <2>1, FS_Subset
    <2>4. k \in Nat /\ l \in Nat /\ k <= l
      BY <2>1, <2>3, FS_CardinalityType, FS_Subset
    <2>5. /\ CountIn(v, "covered") = k /\ CountIn(w, "covered") = l
      BY DEF CountIn, covered
    <2>6. /\ FrameworkCoverage(v) = (20000 * k + n) \div (2 * n)
          /\ FrameworkCoverage(w) = (20000 * l + n) \div (2 * n)
      BY <1>2, <2>2, <2>4, <2>5 DEF FrameworkCoverage, RoundRatio, One
    <2> HIDE DEF k, l, n
    <2>7. /\ 20000 * k + n \in Nat /\ 20000 * l + n \in Nat /\ 2 * n \in Nat \ {0}
          /\ 20000 * k + n <= 20000 * l + n
      BY <2>2, <2>4
    <2>8. /\ (20000 * k + n) \div (2 * n) <= (20000 * l + n) \div (2 * n)
          /\ (20000 * k + n) \div (2 * n) \in Nat
          /\ (20000 * l + n) \div (2 * n) \in Nat
      BY <2>7, DivMonotone
    <2> QED
      BY <2>6, <2>8
  <1> QED
    BY <1>1, <1>2

\* No control is lower on the one chain than on the other.
NoneLower(S, T) ==
    \A f \in DOMAIN Frameworks : \A c \in Frameworks[f] : RankOf(c, S) <= RankOf(c, T)

LEMMA DriftIsLower ==
    ASSUME NEW S, NEW T
    PROVE  DiffControls(BuildBaseline(S), BuildBaseline(T)) = {} <=> NoneLower(S, T)
  <1>1. ASSUME NEW R, NEW f \in DOMAIN Frameworks, NEW c \in Frameworks[f]
        PROVE  StatusRank(BuildBaseline(R).controls[f][c].status) = RankOf(c, R)
    BY <1>1 DEF BuildBaseline, Evaluate, RankOf
  <1>2. \A R, c : RankOf(c, R) \in 0..2
    BY RankType DEF RankOf
  <1>3. \A p \in Controls : p[1] \in DOMAIN Frameworks /\ p[2] \in Frameworks[p[1]]
    BY DEF Controls
  <1>4. \A f \in DOMAIN Frameworks : \A c \in Frameworks[f] :
           <<f, c>> \in Controls /\ <<f, c>>[1] = f /\ <<f, c>>[2] = c
    BY DEF Controls
  <1>5. DiffControls(BuildBaseline(S), BuildBaseline(T))
           = {p \in Controls : RankOf(p[2], T) < RankOf(p[2], S)}
    BY <1>1, <1>3 DEF DiffControls
  <1>6. ASSUME NoneLower(S, T)
        PROVE  {p \in Controls : RankOf(p[2], T) < RankOf(p[2], S)} = {}
    BY <1>2, <1>3, <1>6 DEF NoneLower
  <1>7. ASSUME {p \in Controls : RankOf(p[2], T) < RankOf(p[2], S)} = {},
               NEW f \in DOMAIN Frameworks, NEW c \in Frameworks[f]
        PROVE  RankOf(c, S) <= RankOf(c, T)
    <2>1. ~ (RankOf(<<f, c>>[2], T) < RankOf(<<f, c>>[2], S))
      BY <1>4, <1>7, Zenon
    <2>2. ~ (RankOf(c, T) < RankOf(c, S))
      BY <2>1
    <2> QED
      BY <1>2, <2>2
  <1> QED
    BY <1>5, <1>6, <1>7 DEF NoneLower

\* A minimum is a ratio, whoever sets it.
LEMMA MinimumRatio ==
    ASSUME NEW policy, NEW f, NEW least \in ResolveMinimum(policy, f),
           policy.override \subseteq Int, policy.global \subseteq Int,
           \A g \in DOMAIN policy.framework : policy.framework[g] \in Int
    PROVE  least \in Int /\ least <= One
  <1>1. PICK x \in Int : least = Clamp(x)
    BY DEF ResolveMinimum
  <1> QED
    BY <1>1 DEF Clamp, One

LEMMA ThresholdStays ==
    ASSUME NEW S, NEW T, NoneLower(S, T), NEW policy \in Policies, PassesThreshold(S, policy)
    PROVE  PassesThreshold(T, policy)
  <1> SUFFICES ASSUME NEW f \in DOMAIN Frameworks, NEW least \in ResolveMinimum(policy, f)
               PROVE  ~ (FrameworkCoverage(Evaluate(T)[f]) < least)
    BY DEF PassesThreshold, ThresholdFailures, Evaluate
  <1> DEFINE v == Evaluate(S)[f]
             w == Evaluate(T)[f]
  <1>1. ~ (FrameworkCoverage(v) < least)
    BY DEF PassesThreshold, ThresholdFailures, Evaluate
  <1>2. least \in Int
    BY AuditAssumption, MinimumRatio
  <1>3. /\ IsFiniteSet(Frameworks[f])
        /\ DOMAIN v = Frameworks[f] /\ DOMAIN w = Frameworks[f]
    BY FrameworksAssumption DEF Evaluate
  <1>4. ASSUME NEW c \in Frameworks[f], v[c].status = "covered"
        PROVE  w[c].status = "covered"
    <2>1. v[c] = EvaluateControl(c, S) /\ w[c] = EvaluateControl(c, T)
      BY DEF Evaluate
    <2>2. RankOf(c, S) <= RankOf(c, T)
      BY DEF NoneLower
    <2> QED
      BY <1>4, <2>1, <2>2 DEF RankOf, StatusRank
  <1> HIDE DEF v, w
  <1>5. /\ FrameworkCoverage(v) \in Int /\ FrameworkCoverage(w) \in Int
        /\ FrameworkCoverage(v) <= FrameworkCoverage(w)
    BY <1>3, <1>4, CoverageMonotone
  <1> QED
    BY <1>1, <1>2, <1>5 DEF w

-----------------------------------------------------------------------------
(* More records leave fewer references of an artifact unresolved.          *)
LEMMA GapsShrink ==
    ASSUME NEW S, NEW T, S \subseteq T, NEW r
    PROVE  EntryGaps(r, T) \subseteq EntryGaps(r, S)
  <1>1. GapReasons(r, T) \subseteq GapReasons(r, S)
    <2>1. \A sort : Found(S, sort, Wanted(r, sort)) \subseteq Found(T, sort, Wanted(r, sort))
      BY DEF Found
    <2>2. {o.id : o \in S} \subseteq {o.id : o \in T}
      OBVIOUS
    <2> QED
      BY <2>1, <2>2 DEF GapReasons
  <1>2. r.artifact.kind \in {"freeze_window", "kill_switch"}
           => EntryStatus(r, T) = EntryStatus(r, S)
    BY DEF EntryStatus, Authorizations
  <1> QED
    BY <1>1, <1>2 DEF EntryGaps

LEMMA GapsFinite ==
    ASSUME NEW S, NEW r, IsFiniteSet(r.artifact.gaps)
    PROVE  IsFiniteSet(EntryGaps(r, S))
  <1>1. EntryGaps(r, S) \subseteq {"proofs", "state"} \cup References \cup r.artifact.gaps
    BY DEF EntryGaps, GapReasons
  <1>2. IsFiniteSet({"proofs", "state"}) /\ IsFiniteSet(References)
    <2>1. IsFiniteSet({"proofs", "state", "traces", "approvals", "credentials", "outcomes"})
      <3>1. IsFiniteSet({} \cup {"proofs"})
        BY FS_EmptySet, FS_AddElement
      <3> DEFINE a == {} \cup {"proofs"}
                 b == a \cup {"state"}
                 c == b \cup {"traces"}
                 d == c \cup {"approvals"}
                 e == d \cup {"credentials"}
                 g == e \cup {"outcomes"}
      <3>2. IsFiniteSet(a)
        BY FS_EmptySet, FS_AddElement
      <3>3. IsFiniteSet(b)
        BY <3>2, FS_AddElement
      <3>4. IsFiniteSet(c)
        BY <3>3, FS_AddElement
      <3>5. IsFiniteSet(d)
        BY <3>4, FS_AddElement
      <3>6. IsFiniteSet(e)
        BY <3>5, FS_AddElement
      <3>7. IsFiniteSet(g)
        BY <3>6, FS_AddElement
      <3>8. g = {"proofs", "state", "traces", "approvals", "credentials", "outcomes"}
        OBVIOUS
      <3> QED
        BY <3>7, <3>8
    <2> QED
      BY <2>1, FS_Subset DEF References
  <1>3. IsFiniteSet({"proofs", "state"} \cup References \cup r.artifact.gaps)
    BY <1>2, FS_Union
  <1> QED
    BY <1>1, <1>3, FS_Subset

(* A path's one graduation is never drift.                                *)
LEMMA MaturityStays ==
    ASSUME NEW S, NEW T, S \subseteq T, T \subseteq Evidence,
           NEW e \in DiffMaturity(BuildBaseline(S), BuildBaseline(T)),
           \A other \in BuildBaseline(T).maturity : other.path = e.path => other.id = e.id
    PROVE  FALSE
  <1>1. /\ BuildBaseline(S).maturity = MaturityBaseline(S)
        /\ BuildBaseline(T).maturity = MaturityBaseline(T)
    BY DEF BuildBaseline
  <1>2. e \in MaturityBaseline(S)
    BY <1>1 DEF DiffMaturity
  <1>3. PICK r \in OfKind(S, {"trust_graduation"}) :
           e = [id |-> r.id, path |-> r.artifact.state.path,
                stage |-> r.artifact.state.current, gaps |-> EntryGaps(r, S)]
    BY <1>2 DEF MaturityBaseline
  <1> DEFINE n == [id |-> r.id, path |-> r.artifact.state.path,
                   stage |-> r.artifact.state.current, gaps |-> EntryGaps(r, T)]
  <1>4. r \in OfKind(T, {"trust_graduation"}) /\ r \in Sources(Evidence)
    BY DEF OfKind, Sources
  <1>5. n \in MaturityBaseline(T) /\ n.path = e.path /\ n.id = e.id /\ n.stage = e.stage
    BY <1>3, <1>4 DEF MaturityBaseline
  <1>6. e.id \in Nat
    <2>1. r \in Evidence
      BY <1>4 DEF Sources
    <2> QED
      BY <1>3, <2>1, AuditAssumption
  <1>7. \A later \in MaturityBaseline(T) : later.path = e.path => later.id <= n.id
    BY <1>1, <1>5, <1>6
  <1>8. StageRank(n.stage) < StageRank(e.stage) \/ Cardinality(n.gaps) > Cardinality(e.gaps)
    <2> HIDE DEF n
    <2> QED
      BY <1>1, <1>5, <1>7 DEF DiffMaturity
  <1>9. ~ (StageRank(n.stage) < StageRank(e.stage))
    <2>1. StageRank(e.stage) \in Nat
      BY DEF StageRank, Stages
    <2> QED
      BY <1>5, <2>1
  <1>10. /\ IsFiniteSet(e.gaps) /\ n.gaps \subseteq e.gaps
    <2>1. IsFiniteSet(r.artifact.gaps)
      BY <1>4, AuditAssumption
    <2> QED
      BY <1>3, <2>1, GapsFinite, GapsShrink
  <1>11. Cardinality(n.gaps) <= Cardinality(e.gaps)
         /\ Cardinality(n.gaps) \in Nat /\ Cardinality(e.gaps) \in Nat
    <2> HIDE DEF n
    <2> QED
      BY <1>10, FS_Subset, FS_CardinalityType
  <1> QED
    BY <1>8, <1>9, <1>11

-----------------------------------------------------------------------------
\* What was reported is what the chain it was reported of says.
AuditInv ==
    /\ AuditTypeOK
    /\ IsFiniteSet(records)
    /\ \A x \in report : x.passed = PassesThreshold(x.seen, x.policy)

LEMMA AuditInvariant == AuditSpec => []AuditInv
  <1>1. AuditInit => AuditInv
    BY FS_EmptySet DEF AuditInit, AuditInv, AuditTypeOK
  <1>2. AuditInv /\ [AuditNext]_avars => AuditInv'
    <2> SUFFICES ASSUME AuditInv, [AuditNext]_avars PROVE AuditInv'
      OBVIOUS
    <2>1. ASSUME NEW r \in Evidence \ records, AppendRecord(r) PROVE AuditInv'
      BY <2>1, FS_AddElement DEF AppendRecord, AuditInv, AuditTypeOK
    <2>2. ASSUME NEW p \in Policies, Gaps(p) PROVE AuditInv'
      BY <2>2 DEF Gaps, AuditInv, AuditTypeOK
    <2>3. CASE UNCHANGED avars
      BY <2>3 DEF avars, AuditInv, AuditTypeOK
    <2> QED
      BY <2>1, <2>2, <2>3 DEF AuditNext
  <1> QED
    BY <1>1, <1>2, PTL DEF AuditSpec

(* More evidence never looks like less: as long as the frequency windows   *)
(* have not moved, no control drifts, a threshold that was met still is    *)
(* and no register entry lists a new gap; a path's one graduation is never *)
(* drift, and a threshold lost as windows move is. For any frameworks,     *)
(* policies, artifacts and records.                                        *)
THEOREM EvidenceCannotLower == AuditSpec => []EvidenceNeverLowers
  <1>1. AuditInv => EvidenceNeverLowers
    <2> SUFFICES ASSUME AuditInv, NEW x \in report
                 PROVE  /\ x.passed /\ ~ PassesThreshold(records, x.policy)
                             => DiffControls(BuildBaseline(x.seen), BuildBaseline(records)) # {}
                        /\ ~ \E e \in DiffMaturity(BuildBaseline(x.seen), BuildBaseline(records)) :
                               \A other \in BuildBaseline(records).maturity :
                                  other.path = e.path => other.id = e.id
                        /\ Latest(records) = Latest(x.seen) =>
                             /\ DiffControls(BuildBaseline(x.seen), BuildBaseline(records)) = {}
                             /\ x.passed => PassesThreshold(records, x.policy)
                             /\ \A r \in Sources(x.seen) :
                                   EntryGaps(r, records) \subseteq EntryGaps(r, x.seen)
      BY DEF EvidenceNeverLowers
    <2>1. /\ x.seen \subseteq records /\ records \subseteq Evidence /\ x.policy \in Policies
          /\ x.passed = PassesThreshold(x.seen, x.policy)
      BY DEF AuditInv, AuditTypeOK
    <2>2. /\ x.passed /\ NoneLower(x.seen, records)
          => PassesThreshold(records, x.policy)
      BY <2>1, ThresholdStays
    <2>3. DiffControls(BuildBaseline(x.seen), BuildBaseline(records)) = {}
             <=> NoneLower(x.seen, records)
      BY DriftIsLower
    <2>4. ~ \E e \in DiffMaturity(BuildBaseline(x.seen), BuildBaseline(records)) :
               \A other \in BuildBaseline(records).maturity :
                  other.path = e.path => other.id = e.id
      BY <2>1, MaturityStays
    <2>5. Latest(records) = Latest(x.seen) => NoneLower(x.seen, records)
      BY <2>1, ControlNeverLowers, FrameworksAssumption DEF NoneLower
    <2>6. \A r : EntryGaps(r, records) \subseteq EntryGaps(r, x.seen)
      BY <2>1, GapsShrink
    <2> QED
      BY <2>2, <2>3, <2>4, <2>5, <2>6
  <1> QED
    BY <1>1, AuditInvariant, PTL

-----------------------------------------------------------------------------
(* The advice of `axym gaps`.                                              *)

LEMMA LatestIsOne ==
    ASSUME NEW R \in SUBSET Evidence, IsFiniteSet(R), R # {}
    PROVE  \E r \in R : r.at = Latest(R)
  <1> DEFINE Above(r) == {s \in R : s.at > r.at}
             Sizes == {Cardinality(Above(r)) : r \in R}
  <1>1. ASSUME NEW r \in R
        PROVE  /\ r.at \in Int
               /\ IsFiniteSet(Above(r)) /\ Cardinality(Above(r)) \in Nat
    <2>1. r.at \in Int
      BY AuditAssumption
    <2>2. Above(r) \in SUBSET R
      OBVIOUS
    <2> HIDE DEF Above
    <2> QED
      BY <2>1, <2>2, FS_Subset, FS_CardinalityType
  <1>2. PICK m \in Sizes : \A k \in Sizes : m <= k
    <2>1. Sizes \subseteq Nat /\ Sizes # {}
      BY <1>1
    <2> HIDE DEF Sizes
    <2> QED
      BY <2>1, SmallestNumber
  <1>3. PICK r \in R : m = Cardinality(Above(r))
    BY <1>2
  <1>4. ASSUME NEW s \in R
        PROVE  r.at >= s.at
    <2>0. r.at \in Int /\ s.at \in Int
      BY AuditAssumption
    <2> SUFFICES ASSUME s.at > r.at PROVE FALSE
      BY <2>0
    <2>1. Above(s) \in SUBSET Above(r) /\ s \in Above(r) /\ s \notin Above(s)
      <3>1. \A z \in R : z.at \in Int
        BY AuditAssumption
      <3> QED
        BY <2>0, <3>1
    <2>2. Cardinality(Above(s)) \in Sizes
      OBVIOUS
    <2> HIDE DEF Above, Sizes
    <2>3. /\ Cardinality(Above(s)) <= Cardinality(Above(r))
          /\ Cardinality(Above(r)) # Cardinality(Above(s))
      BY <1>1, <2>1, FS_Subset
    <2>4. Cardinality(Above(r)) <= Cardinality(Above(s))
      BY <1>2, <1>3, <2>2
    <2> QED
      BY <1>1, <2>3, <2>4
  <1>5. Latest(R) \in {s.at : s \in R}
    <2>1. r.at \in {s.at : s \in R} /\ \A y \in {s.at : s \in R} : r.at >= y
      BY <1>4
    <2> QED
      BY <2>1 DEF Latest, Max
  <1> QED
    BY <1>5

LEMMA LatestStays ==
    ASSUME NEW R \in SUBSET Evidence, IsFiniteSet(R), R # {},
           NEW M, \A r \in M : r.at = Latest(R)
    PROVE  Latest(R \cup M) = Latest(R)
  <1>1. {r.at : r \in R \cup M} = {r.at : r \in R}
    BY LatestIsOne
  <1> QED
    BY <1>1 DEF Latest

\* A requirement set without missing fields is covered when all its types are
\* present: what is present is complete then.
LEMMA PresentIsCovered ==
    ASSUME NEW req, NEW R,
           req.types # {},
           EvaluateRequirementSet(req, R).missingFields = {},
           req.types \subseteq EvaluateRequirementSet(req, R).presentTypes
    PROVE  EvaluateRequirementSet(req, R).status = "covered"
  <1> DEFINE Candidate == {r \in R : /\ r.type \in req.types
                                     /\ req.products = {} \/ r.product \in req.products}
             Invalid == {r \in Candidate : IsInvalidEvidenceClass(r)}
             Rest == Candidate \ Invalid
             Absent(r) == {f \in req.fields : ~RecordFieldExists(r, f)}
             Lacking(r) == Absent(r) \cup IdentityMissing(r)
             Matched == {r \in Rest : Lacking(r) = {}}
             Recent == {r \in Rest : InFrequencyWindow(req.frequency, R, r)}
             Types == {r.type : r \in Matched \cap Recent}
  <1>1. /\ EvaluateRequirementSet(req, R).missingFields
             = UNION ({Lacking(r) : r \in Rest} \cup {Absent(r) : r \in Invalid})
        /\ EvaluateRequirementSet(req, R).presentTypes = {r.type : r \in Recent}
        /\ Matched \cap Recent # {} /\ req.types \subseteq Types
             => EvaluateRequirementSet(req, R).status = "covered"
    BY DEF EvaluateRequirementSet
  <1>2. \A r \in Rest : Lacking(r) = {}
    <2> HIDE DEF Rest, Invalid, Lacking, Absent
    <2> QED
      BY <1>1
  <1>3. Matched \cap Recent = Recent
    BY <1>2
  <1>4. Recent # {} /\ req.types \subseteq Types
    <2> HIDE DEF Recent, Matched
    <2> QED
      BY <1>1, <1>3
  <1> QED
    BY <1>1, <1>3, <1>4

\* A record of a missing type, as the advice asks for, is complete and recent.
LEMMA CollectedComplete ==
    ASSUME NEW req, NEW type, NEW R,
           type \in req.types, req.frequency \in DOMAIN Period,
           Latest(R) = Latest(records), Latest(records) \in Int
    PROVE  LET r == Collected(req, type) IN
           /\ r.type = type /\ (req.products = {} \/ r.product \in req.products)
           /\ ~ IsInvalidEvidenceClass(r)
           /\ {f \in req.fields : ~ RecordFieldExists(r, f)} = {}
           /\ IdentityMissing(r) = {}
           /\ InFrequencyWindow(req.frequency, R, r)
  <1> DEFINE r == Collected(req, type)
  <1>1. /\ r.type = type /\ r.at = Latest(records) /\ r.fields = req.fields
        /\ r.says = {"chain", "owner", "policy", "approval", "tool"} /\ r.reasons = {}
        /\ req.products = {} \/ r.product \in req.products
    BY DEF Collected
  <1> HIDE DEF r
  <1>2. TargetKind(r) = "other"
    BY <1>1 DEF TargetKind
  <1>3. DeriveIdentityView(r) = IdentityFields
    <2>1. /\ r.says \cap {"actor", "downstream", "agent", "chain"} # {}
          /\ r.says \cap {"owner", "reviewer"} # {}
          /\ r.says \cap {"policy", "approval"} = {"policy", "approval"}
          /\ r.says \cap {"target", "tool", "scope", "privilege", "entity"} # {}
      BY <1>1
    <2>2. DeriveIdentityView(r)
             = UNION {{"actor", "downstream", "delegation"}, {"owner"}, {"policy", "approval"},
                      {"target_kind"}, {"target_id"}}
      BY <1>2, <2>1 DEF DeriveIdentityView
    <2> QED
      BY <2>2 DEF IdentityFields
  <1>4. RequiredIdentity(r) \subseteq IdentityFields
    BY DEF RequiredIdentity, IdentityFields
  <1>5. IdentityMissing(r) = {}
    BY <1>3, <1>4 DEF IdentityMissing
  <1>6. {f \in req.fields : ~ RecordFieldExists(r, f)} = {}
    BY <1>1, <1>3 DEF RecordFieldExists
  <1>7. ~ IsInvalidEvidenceClass(r)
    BY <1>1 DEF IsInvalidEvidenceClass
  <1>8. InFrequencyWindow(req.frequency, R, r)
    BY <1>1, PeriodAssumption DEF InFrequencyWindow
  <1> QED
    BY <1>1, <1>5, <1>6, <1>7, <1>8 DEF r

\* Where only types are missing, a good record of each leaves nothing missing.
LEMMA CollectedFills ==
    ASSUME NEW req, NEW R, NEW M,
           M = {Collected(req, t) :
                   t \in req.types \ EvaluateRequirementSet(req, R).presentTypes},
           req.frequency \in DOMAIN Period,
           Latest(R) = Latest(records), Latest(R \cup M) = Latest(records),
           Latest(records) \in Int,
           EvaluateRequirementSet(req, R).missingFields = {}
    PROVE  /\ EvaluateRequirementSet(req, R \cup M).missingFields = {}
           /\ req.types \subseteq EvaluateRequirementSet(req, R \cup M).presentTypes
  <1> DEFINE missing == req.types \ EvaluateRequirementSet(req, R).presentTypes
             Q == R \cup M
             Candidate(S) == {r \in S : /\ r.type \in req.types
                                        /\ req.products = {} \/ r.product \in req.products}
             Invalid(S) == {r \in Candidate(S) : IsInvalidEvidenceClass(r)}
             Rest(S) == Candidate(S) \ Invalid(S)
             Absent(r) == {f \in req.fields : ~RecordFieldExists(r, f)}
             Lacking(r) == Absent(r) \cup IdentityMissing(r)
             Recent(S) == {r \in Rest(S) : InFrequencyWindow(req.frequency, S, r)}
  <1>1. ASSUME NEW S
        PROVE  /\ EvaluateRequirementSet(req, S).missingFields
                    = UNION ({Lacking(r) : r \in Rest(S)} \cup {Absent(r) : r \in Invalid(S)})
               /\ EvaluateRequirementSet(req, S).presentTypes = {r.type : r \in Recent(S)}
    BY DEF EvaluateRequirementSet
  <1>2. ASSUME NEW r \in M
        PROVE  /\ r.type \in missing /\ r \in Candidate(Q) /\ r \notin Invalid(Q)
               /\ Lacking(r) = {} /\ InFrequencyWindow(req.frequency, Q, r)
    <2>1. PICK t \in missing : r = Collected(req, t)
      BY <1>2
    <2>2. t \in req.types
      BY <2>1
    <2> QED
      BY <2>1, <2>2, CollectedComplete
  <1>3. /\ \A r \in Rest(R) : Lacking(r) = {}
        /\ \A r \in Invalid(R) : Absent(r) = {}
    <2> HIDE DEF Rest, Invalid, Lacking, Absent
    <2> QED
      BY <1>1
  <1>4. Rest(Q) \subseteq Rest(R) \cup M /\ Invalid(Q) \subseteq Invalid(R)
    BY <1>2
  <1>5. EvaluateRequirementSet(req, Q).missingFields = {}
    <2> HIDE DEF Rest, Invalid, Lacking, Absent, Q
    <2>1. \A r \in Rest(Q) : Lacking(r) = {}
      BY <1>2, <1>3, <1>4
    <2>2. \A r \in Invalid(Q) : Absent(r) = {}
      BY <1>3, <1>4
    <2> QED
      BY <1>1, <2>1, <2>2
  <1>6. ASSUME NEW t \in req.types
        PROVE  t \in EvaluateRequirementSet(req, Q).presentTypes
    <2>1. CASE t \in missing
      <3>1. Collected(req, t).type = t
        BY DEF Collected
      <3>3. Collected(req, t) \in M
        BY <2>1
      <3>2. Collected(req, t) \in Recent(Q)
        BY <1>2, <3>3
      <3> QED
        BY <1>1, <3>1, <3>2
    <2>2. CASE t \notin missing
      <3>1. PICK r \in Recent(R) : r.type = t
        <4> HIDE DEF Recent
        <4> QED
          BY <1>1, <2>2
      <3>2. r \in Recent(Q)
        BY <3>1 DEF InFrequencyWindow
      <3> QED
        BY <1>1, <3>1, <3>2
    <2> QED
      BY <2>1, <2>2
  <1> QED
    BY <1>5, <1>6

(* The advice that `axym gaps` gives for a control that is not covered     *)
(* names what to do, and works where it only asks for types, for any       *)
(* frameworks and records.                                                 *)
THEOREM GapsAlwaysActionable == AuditSpec => []GapsActionable
  <1>1. AuditInv => GapsActionable
    <2> DEFINE results == Evaluate(records)
    <2> SUFFICES ASSUME AuditInv, records # {},
                        NEW f \in DOMAIN results, NEW c \in DOMAIN results[f],
                        results[f][c].status # "covered"
                 PROVE  LET item == results[f][c]
                            more == {Collected(item.set, t) :
                                        t \in MissingRequiredRecordTypes(item)}
                        IN  /\ Remediation(item) # "increase frequency"
                            /\ Remediation(item) = "collect types" =>
                                 EvaluateControl(c, records \cup more).status = "covered"
      BY Zenon DEF GapsActionable
    <2>0. /\ f \in DOMAIN Frameworks /\ c \in Frameworks[f]
          /\ results[f][c] = EvaluateControl(c, records)
      BY DEF Evaluate
    <2> DEFINE item == results[f][c]
               more == {Collected(item.set, t) : t \in MissingRequiredRecordTypes(item)}
    <2>1. Len(c.sets) \in Nat \ {0}
      BY <2>0, FrameworksAssumption
    <2>2. PICK i \in 1..Len(c.sets) : item = EvaluateRequirementSet(c.sets[i], records)
      BY <2>0, <2>1, BestStatusSelected DEF SetResult
    <2> DEFINE req == c.sets[i]
    <2>3. req.types # {} /\ req.frequency \in DOMAIN Period
      BY <2>0, <2>1, FrameworksAssumption, TypesAssumption
    <2> HIDE DEF req, item
    <2>4. item = EvaluateRequirementSet(req, records) /\ item.status # "covered"
      BY <2>2 DEF req, item
    <2>5. item.types = req.types /\ item.set = req
      BY <2>4 DEF EvaluateRequirementSet
    <2>6. Remediation(item) # "increase frequency"
      <3> SUFFICES ASSUME Remediation(item) = "increase frequency" PROVE FALSE
        OBVIOUS
      <3>1. MissingRequiredRecordTypes(item) = {} /\ item.missingFields = {}
        BY DEF Remediation
      <3>2. req.types \subseteq item.presentTypes
        BY <2>5, <3>1 DEF MissingRequiredRecordTypes
      <3> QED
        BY <2>3, <2>4, <3>1, <3>2, PresentIsCovered
    <2>7. ASSUME Remediation(item) = "collect types"
          PROVE  EvaluateControl(c, records \cup more).status = "covered"
      <3>1. item.missingFields = {}
        BY <2>7 DEF Remediation
      <3>2. more = {Collected(req, t) : t \in req.types \ item.presentTypes}
        BY <2>5 DEF MissingRequiredRecordTypes
      <3> HIDE DEF more
      <3>3. records \in SUBSET Evidence /\ IsFiniteSet(records)
        BY DEF AuditInv, AuditTypeOK
      <3>4. Latest(records) \in Int
        BY <3>3, LatestIsOne, AuditAssumption
      <3>5. Latest(records \cup more) = Latest(records)
        <4>1. \A r \in more : r.at = Latest(records)
          BY <3>2 DEF Collected
        <4> QED
          BY <3>3, <4>1, LatestStays
      <3>6. EvaluateRequirementSet(req, records \cup more).status = "covered"
        <4>1. /\ EvaluateRequirementSet(req, records \cup more).missingFields = {}
              /\ req.types \subseteq EvaluateRequirementSet(req, records \cup more).presentTypes
          <5>1. more = {Collected(req, t) :
                          t \in req.types \ EvaluateRequirementSet(req, records).presentTypes}
            BY <2>4, <3>2
          <5>2. EvaluateRequirementSet(req, records).missingFields = {}
            BY <2>4, <3>1
          <5> QED
            BY <2>3, <3>4, <3>5, <5>1, <5>2, CollectedFills
        <4> QED
          BY <2>3, <4>1, PresentIsCovered
      <3>7. 2 <= RankOf(c, records \cup more)
        BY <2>1, <3>6, BestStatusSelected DEF SetResult, req, StatusRank
      <3> QED
        BY <3>7 DEF RankOf, StatusRank
    <2> QED
      BY <2>6, <2>7 DEF item
  <1> QED
    BY <1>1, AuditInvariant, PTL

-----------------------------------------------------------------------------
(* The views of one chain agree.                                           *)

LEMMA ImageFinite ==
    ASSUME NEW D, IsFiniteSet(D), NEW f, DOMAIN f = D
    PROVE  IsFiniteSet({f[d] : d \in D})
  <1> DEFINE g == [d \in D |-> f[d]]
             image == {f[d] : d \in D}
  <1>1. g \in Surjection(D, image)
    BY DEF Surjection
  <1> HIDE DEF g, image
  <1> QED
    BY <1>1, FS_Surjection DEF image

\* The controls of all frameworks are finitely many, and there is one.
LEMMA ControlsFew ==
    /\ IsFiniteSet(Controls) /\ Controls # {}
    /\ \A f \in DOMAIN Frameworks : \A c \in Frameworks[f] :
          /\ <<f, c>> \in Controls /\ <<f, c>>[1] = f /\ <<f, c>>[2] = c
    /\ \A p \in Controls : p[1] \in DOMAIN Frameworks /\ p[2] \in Frameworks[p[1]]
  <1> DEFINE part == [f \in DOMAIN Frameworks |-> {f} \X Frameworks[f]]
             parts == {part[f] : f \in DOMAIN Frameworks}
  <1>1. IsFiniteSet(parts)
    <2>1. DOMAIN part = DOMAIN Frameworks
      OBVIOUS
    <2> HIDE DEF part
    <2> QED
      BY <2>1, ImageFinite, ControlsAssumption
  <1>2. ASSUME NEW p \in parts PROVE IsFiniteSet(p)
    <2>1. PICK f \in DOMAIN Frameworks : p = {f} \X Frameworks[f]
      OBVIOUS
    <2>2. IsFiniteSet({f}) /\ IsFiniteSet(Frameworks[f])
      BY FS_Singleton, FrameworksAssumption
    <2> QED
      BY <2>1, <2>2, FS_Product
  <1>3. Controls = UNION parts
    BY DEF Controls
  <1>4. IsFiniteSet(Controls)
    <2> HIDE DEF parts
    <2> QED
      BY <1>1, <1>2, <1>3, FS_UNION
  <1>5. ASSUME NEW f \in DOMAIN Frameworks, NEW c \in Frameworks[f]
        PROVE  <<f, c>> \in Controls
    BY DEF Controls
  <1>6. Controls # {}
    BY <1>5, ControlsAssumption
  <1>7. \A p \in Controls : p[1] \in DOMAIN Frameworks /\ p[2] \in Frameworks[p[1]]
    BY DEF Controls
  <1> QED
    BY <1>4, <1>5, <1>6, <1>7

\* A result for each control; and a control's result is that of one of its sets.
LEMMA ResultsOf ==
    ASSUME NEW R
    PROVE  /\ DOMAIN Evaluate(R) = DOMAIN Frameworks
           /\ \A f \in DOMAIN Frameworks : DOMAIN Evaluate(R)[f] = Frameworks[f]
           /\ AllControls(Evaluate(R)) = Controls
           /\ AllResults(Evaluate(R)) = {Evaluate(R)[p[1]][p[2]] : p \in Controls}
  <1>1. /\ DOMAIN Evaluate(R) = DOMAIN Frameworks
        /\ \A f \in DOMAIN Frameworks : DOMAIN Evaluate(R)[f] = Frameworks[f]
    BY DEF Evaluate
  <1>2. AllControls(Evaluate(R)) = Controls
    BY <1>1 DEF AllControls, Controls
  <1>3. AllResults(Evaluate(R)) = {Evaluate(R)[p[1]][p[2]] : p \in Controls}
    <2>1. ASSUME NEW x \in AllResults(Evaluate(R))
          PROVE  \E p \in Controls : x = Evaluate(R)[p[1]][p[2]]
      <3>1. PICK f \in DOMAIN Frameworks : \E c \in Frameworks[f] : x = Evaluate(R)[f][c]
        BY <1>1 DEF AllResults
      <3>2. PICK c \in Frameworks[f] : x = Evaluate(R)[f][c]
        BY <3>1
      <3>3. <<f, c>> \in Controls /\ <<f, c>>[1] = f /\ <<f, c>>[2] = c
        BY ControlsFew
      <3>4. x = Evaluate(R)[<<f, c>>[1]][<<f, c>>[2]]
        BY <3>2, <3>3
      <3> QED
        BY <3>3, <3>4
    <2>2. ASSUME NEW p \in Controls
          PROVE  Evaluate(R)[p[1]][p[2]] \in AllResults(Evaluate(R))
      BY <1>1, ControlsFew DEF AllResults
    <2> QED
      BY <2>1, <2>2
  <1> QED
    BY <1>1, <1>2, <1>3

LEMMA ResultOfSet ==
    ASSUME NEW f \in DOMAIN Frameworks, NEW c \in Frameworks[f], NEW R
    PROVE  \E i \in 1..Len(c.sets) :
              /\ Evaluate(R)[f][c] = EvaluateRequirementSet(c.sets[i], R)
              /\ c.sets[i].types # {} /\ IsFiniteSet(c.sets[i].types)
              /\ IsFiniteSet(c.sets[i].fields)
  <1>1. Evaluate(R)[f][c] = EvaluateControl(c, R)
    BY DEF Evaluate
  <1>2. Len(c.sets) \in Nat \ {0}
    BY FrameworksAssumption
  <1>3. PICK i \in 1..Len(c.sets) :
           EvaluateControl(c, R) = EvaluateRequirementSet(c.sets[i], R)
    BY <1>2, BestStatusSelected DEF SetResult
  <1> QED
    BY <1>1, <1>3, TypesAssumption

IdentityCodes == IdentityFields \cup {"target", "drift"}

LEMMA IdentityBounded ==
    /\ IsFiniteSet(IdentityCodes)
    /\ \A r : IdentityMissing(r) \subseteq IdentityCodes
    /\ \A r : IdentityReasons(r) \subseteq IdentityCodes
  <1> DEFINE name == <<"actor", "downstream", "delegation", "owner", "policy",
                       "approval", "target_kind", "target_id", "target", "drift">>
             f == [i \in 1..10 |-> name[i]]
  <1>1. \A k \in IdentityCodes : \E i \in 1..10 : name[i] = k
    BY DEF IdentityCodes, IdentityFields
  <1>2. \A i \in 1..10 : name[i] \in IdentityCodes
    BY DEF IdentityCodes, IdentityFields
  <1> HIDE DEF name
  <1>3. f \in Surjection(1..10, IdentityCodes)
    BY <1>1, <1>2 DEF Surjection
  <1> HIDE DEF f
  <1>4. IsFiniteSet(IdentityCodes)
    <2>0. 1 \in Int /\ 10 \in Int
      OBVIOUS
    <2>1. IsFiniteSet(1..10)
      BY <2>0, FS_Interval, Zenon
    <2> QED
      BY <1>3, <2>1, FS_Surjection
  <1>5. ASSUME NEW r PROVE IdentityMissing(r) \subseteq IdentityFields
    BY DEF IdentityMissing, RequiredIdentity, IdentityFields
  <1>6. ASSUME NEW r PROVE IdentityReasons(r) \subseteq IdentityCodes
    BY <1>5 DEF IdentityReasons, IdentityCodes
  <1> QED
    BY <1>4, <1>5, <1>6 DEF IdentityCodes

\* A result is finite, and blames records of the chain; without a missing field
\* it blames none.
Sound(found, R) ==
    /\ found.status \in {"covered", "partial", "gap"}
    /\ IsFiniteSet(found.missingFields) /\ IsFiniteSet(found.weaknesses)
    /\ IsFiniteSet(MissingRequiredRecordTypes(found))
    /\ found.invalid \in Nat
    /\ found.missingFields = {} => found.weaknesses = {}
    /\ \A reason \in found.weaknesses :
          \E r \in R : r.type \in found.types /\ reason \in IdentityReasons(r)

LEMMA SetResultSound ==
    ASSUME NEW R, IsFiniteSet(R), NEW req,
           IsFiniteSet(req.types), IsFiniteSet(req.fields)
    PROVE  Sound(EvaluateRequirementSet(req, R), R)
  <1> DEFINE Candidate == {r \in R : /\ r.type \in req.types
                                     /\ req.products = {} \/ r.product \in req.products}
             Invalid == {r \in Candidate : IsInvalidEvidenceClass(r)}
             Rest == Candidate \ Invalid
             Absent(r) == {f \in req.fields : ~RecordFieldExists(r, f)}
             Lacking(r) == Absent(r) \cup IdentityMissing(r)
             Matched == {r \in Rest : Lacking(r) = {}}
             found == EvaluateRequirementSet(req, R)
  <1>1. /\ found.missingFields
             = UNION ({Lacking(r) : r \in Rest} \cup {Absent(r) : r \in Invalid})
        /\ found.weaknesses = UNION {IdentityReasons(r) : r \in Rest \ Matched}
        /\ found.invalid = Cardinality(Invalid)
        /\ found.types = req.types
        /\ found.status \in {"covered", "partial", "gap"}
    BY DEF EvaluateRequirementSet
  <1> HIDE DEF found
  <1>2. Invalid \in SUBSET R /\ Rest \subseteq Candidate /\ Rest \subseteq R
    OBVIOUS
  <1>3. found.invalid \in Nat
    <2> HIDE DEF Invalid
    <2> QED
      BY <1>1, <1>2, FS_Subset, FS_CardinalityType
  <1>4. IsFiniteSet(found.missingFields)
    <2>1. IsFiniteSet(req.fields \cup IdentityCodes)
      BY IdentityBounded, FS_Union
    <2>2. \A r : Absent(r) \subseteq req.fields /\ Lacking(r) \subseteq req.fields \cup IdentityCodes
      BY IdentityBounded
    <2>3. found.missingFields \in SUBSET (req.fields \cup IdentityCodes)
      <3> HIDE DEF Absent, Lacking, Rest, Invalid
      <3> QED
        BY <1>1, <2>2
    <2> QED
      BY <2>1, <2>3, FS_Subset
  <1>5. IsFiniteSet(found.weaknesses)
    <2>1. found.weaknesses \in SUBSET IdentityCodes
      <3> HIDE DEF Rest, Matched
      <3> QED
        BY <1>1, IdentityBounded
    <2> QED
      BY <2>1, IdentityBounded, FS_Subset
  <1>6. IsFiniteSet(MissingRequiredRecordTypes(found))
    <2>1. MissingRequiredRecordTypes(found) \in SUBSET req.types
      BY <1>1 DEF MissingRequiredRecordTypes
    <2> QED
      BY <2>1, FS_Subset
  <1>7. ASSUME found.missingFields = {} PROVE found.weaknesses = {}
    <2>1. \A r \in Rest : Lacking(r) = {}
      <3> HIDE DEF Rest, Invalid, Lacking, Absent
      <3> QED
        BY <1>1, <1>7
    <2>2. Rest \ Matched = {}
      BY <2>1
    <2> HIDE DEF Rest, Matched
    <2> QED
      BY <1>1, <2>2
  <1>8. ASSUME NEW reason \in found.weaknesses
        PROVE  \E r \in R : r.type \in found.types /\ reason \in IdentityReasons(r)
    <2>1. PICK r \in Rest \ Matched : reason \in IdentityReasons(r)
      <3> HIDE DEF Rest, Matched
      <3> QED
        BY <1>1
    <2>2. r \in R /\ r.type \in req.types
      OBVIOUS
    <2> QED
      BY <1>1, <2>1, <2>2
  <1> QED
    BY <1>1, <1>3, <1>4, <1>5, <1>6, <1>7, <1>8 DEF Sound, found

LEMMA ResultsSound ==
    ASSUME NEW R, IsFiniteSet(R), NEW p \in Controls
    PROVE  Sound(Evaluate(R)[p[1]][p[2]], R)
  <1> DEFINE f == p[1]
             c == p[2]
  <1>1. f \in DOMAIN Frameworks /\ c \in Frameworks[f]
    BY ControlsFew
  <1> HIDE DEF f, c
  <1>2. PICK i \in 1..Len(c.sets) :
           /\ Evaluate(R)[f][c] = EvaluateRequirementSet(c.sets[i], R)
           /\ IsFiniteSet(c.sets[i].types) /\ IsFiniteSet(c.sets[i].fields)
    BY <1>1, ResultOfSet
  <1> QED
    BY <1>2, SetResultSound DEF f, c

\* Every control is covered.
NoGap(R) == \A p \in Controls : Evaluate(R)[p[1]][p[2]].status = "covered"

NoWeakness(R) == \A p \in Controls : Evaluate(R)[p[1]][p[2]].weaknesses = {}

\* The gaps are the items of the controls that are not covered.
Item(results, p) ==
    [framework |-> p[1], control |-> p[2].id,
     status |-> results[p[1]][p[2]].status,
     priority |-> Priority(results[p[1]][p[2]]),
     remediation |-> Remediation(results[p[1]][p[2]]),
     effort |-> EffortFor(results[p[1]][p[2]])]

Uncovered(R) == {p \in Controls : Evaluate(R)[p[1]][p[2]].status # "covered"}

LEMMA ItemsOf ==
    ASSUME NEW R
    PROVE  GapItems(Evaluate(R)) = {Item(Evaluate(R), p) : p \in Uncovered(R)}
  <1> DEFINE results == Evaluate(R)
             open(f) == {x \in DOMAIN results[f] : results[f][x].status # "covered"}
             part(f) == {Item(results, <<f, c>>) : c \in open(f)}
  <1>1. /\ DOMAIN results = DOMAIN Frameworks
        /\ \A f \in DOMAIN Frameworks : DOMAIN results[f] = Frameworks[f]
    BY ResultsOf
  <1>2. GapItems(results) = UNION {part(f) : f \in DOMAIN results}
    BY DEF GapItems, Item
  <1>3. Uncovered(R) = {p \in Controls : results[p[1]][p[2]].status # "covered"}
    BY DEF Uncovered
  <1> HIDE DEF results
  <1>4. ASSUME NEW i \in UNION {part(f) : f \in DOMAIN results}
        PROVE  \E p \in Uncovered(R) : i = Item(results, p)
    <2>1. PICK f \in DOMAIN Frameworks : i \in part(f)
      BY <1>1
    <2>2. PICK c \in Frameworks[f] : /\ results[f][c].status # "covered"
                                     /\ i = Item(results, <<f, c>>)
      BY <1>1, <2>1
    <2>3. <<f, c>> \in Controls /\ <<f, c>>[1] = f /\ <<f, c>>[2] = c
      BY ControlsFew
    <2> QED
      BY <1>3, <2>2, <2>3
  <1>5. ASSUME NEW p \in Uncovered(R)
        PROVE  Item(results, p) \in UNION {part(f) : f \in DOMAIN results}
    <2>1. /\ p[1] \in DOMAIN Frameworks /\ p[2] \in Frameworks[p[1]]
          /\ results[p[1]][p[2]].status # "covered"
      BY <1>3, ControlsFew
    <2>2. Item(results, p) = Item(results, <<p[1], p[2]>>)
      BY DEF Item
    <2> QED
      BY <1>1, <2>1, <2>2
  <1>6. UNION {part(f) : f \in DOMAIN results} = {Item(results, p) : p \in Uncovered(R)}
    <2> HIDE DEF part
    <2> QED
      BY <1>4, <1>5
  <1> QED
    BY <1>2, <1>6 DEF results

LEMMA NoGapNoItems ==
    ASSUME NEW R
    PROVE  /\ GapItems(Evaluate(R)) = {} <=> NoGap(R)
           /\ NoGap(R) <=> \A f \in DOMAIN Frameworks : \A c \in Frameworks[f] :
                              Evaluate(R)[f][c].status = "covered"
  <1>1. GapItems(Evaluate(R)) = {} <=> Uncovered(R) = {}
    BY ItemsOf
  <1>2. Uncovered(R) = {} <=> NoGap(R)
    BY DEF Uncovered, NoGap
  <1>3. ASSUME NEW f \in DOMAIN Frameworks, NEW c \in Frameworks[f], NoGap(R)
        PROVE  Evaluate(R)[f][c].status = "covered"
    <2>1. /\ <<f, c>> \in Controls /\ <<f, c>>[1] = f /\ <<f, c>>[2] = c
      BY ControlsFew
    <2> QED
      BY <1>3, <2>1 DEF NoGap
  <1>4. ASSUME NEW p \in Controls,
               \A f \in DOMAIN Frameworks : \A c \in Frameworks[f] :
                  Evaluate(R)[f][c].status = "covered"
        PROVE  Evaluate(R)[p[1]][p[2]].status = "covered"
    BY <1>4, ControlsFew
  <1> QED
    BY <1>1, <1>2, <1>3, <1>4 DEF NoGap

LEMMA RatioBounds ==
    ASSUME NEW n \in Nat, n # 0, n < 2 * One, NEW k \in 0..n
    PROVE  /\ RoundRatio(k, n) \in Int /\ RoundRatio(k, n) <= One
           /\ RoundRatio(k, n) = One <=> k = n
  <1> DEFINE a == 20000 * k + n
             d == 2 * n
             q == a \div d
  <1>0. n \in 1..19999 /\ k \in 0..n
    BY DEF One
  <1>1. a \in Nat /\ d \in Nat \ {0}
    BY <1>0
  <1>2. /\ RoundRatio(k, n) = q /\ One = 10000
    BY DEF RoundRatio, One
  <1> HIDE DEF a, d
  <1>3. q \in Int /\ q * d <= a /\ a < (q + 1) * d
    BY <1>1
  <1> HIDE DEF q
  <1>4. q * d = 2 * (q * n) /\ (q + 1) * d = 2 * (q * n) + 2 * n
    BY <1>0, <1>3 DEF d
  <1> DEFINE x == q * n
  <1>5. x \in Int /\ 2 * x <= 20000 * k + n /\ 20000 * k + n < 2 * x + 2 * n
    BY <1>0, <1>3, <1>4 DEF a
  <1>6. /\ q >= 10001 => x >= 10001 * n
        /\ q <= 9999 => x <= 9999 * n
        /\ q = 10000 => x = 10000 * n
    BY <1>0, <1>3
  <1> HIDE DEF x
  <1>7. q <= 10000
    <2> SUFFICES ASSUME q >= 10001 PROVE FALSE
      BY <1>3
    <2>1. x >= 10001 * n /\ k <= n
      BY <1>0, <1>6
    <2> QED
      BY <1>0, <1>5, <2>1
  <1>8. ASSUME k = n PROVE q = 10000
    <2> SUFFICES ASSUME q <= 9999 PROVE FALSE
      BY <1>3, <1>7
    <2>1. x <= 9999 * n
      BY <1>6
    <2> QED
      BY <1>0, <1>5, <1>8, <2>1
  <1>9. ASSUME q = 10000 PROVE k = n
    <2> SUFFICES ASSUME k <= n - 1 PROVE FALSE
      BY <1>0
    <2>1. x = 10000 * n
      BY <1>6, <1>9
    <2> QED
      BY <1>0, <1>5, <2>1
  <1> QED
    BY <1>2, <1>3, <1>7, <1>8, <1>9

LEMMA AllCounted ==
    ASSUME NEW S, IsFiniteSet(S), NEW T \in SUBSET S
    PROVE  /\ Cardinality(T) \in 0..Cardinality(S) /\ Cardinality(S) \in Nat
           /\ Cardinality(T) = Cardinality(S) <=> T = S
           /\ Cardinality(T) = 0 <=> T = {}
           /\ Cardinality(S) = 0 <=> S = {}
  BY FS_Subset, FS_CardinalityType, FS_EmptySet

LEMMA FullyCovered ==
    ASSUME NEW R, NEW f \in DOMAIN Frameworks
    PROVE  /\ FrameworkCoverage(Evaluate(R)[f]) \in Int
           /\ FrameworkCoverage(Evaluate(R)[f]) <= One
           /\ FrameworkCoverage(Evaluate(R)[f]) = One <=>
                 \A c \in Frameworks[f] : Evaluate(R)[f][c].status = "covered"
  <1> DEFINE v == Evaluate(R)[f]
             covered == {c \in Frameworks[f] : v[c].status = "covered"}
             n == Cardinality(Frameworks[f])
             k == Cardinality(covered)
  <1>1. DOMAIN v = Frameworks[f] /\ IsFiniteSet(Frameworks[f]) /\ Frameworks[f] # {}
    BY ResultsOf, FrameworksAssumption, ControlsAssumption
  <1>2. n < 2 * One
    BY ControlsAssumption
  <1> HIDE DEF v
  <1>3. covered \in SUBSET Frameworks[f]
    OBVIOUS
  <1>4. covered = Frameworks[f] <=> \A c \in Frameworks[f] : v[c].status = "covered"
    OBVIOUS
  <1>5. FrameworkCoverage(v) = RoundRatio(k, n)
    BY <1>1 DEF FrameworkCoverage, CountIn
  <1> HIDE DEF covered
  <1>6. /\ k \in 0..n /\ n \in Nat /\ n # 0
        /\ k = n <=> covered = Frameworks[f]
    BY <1>1, <1>3, AllCounted
  <1> HIDE DEF k, n
  <1>7. /\ RoundRatio(k, n) \in Int /\ RoundRatio(k, n) <= One
        /\ RoundRatio(k, n) = One <=> k = n
    BY <1>2, <1>6, RatioBounds
  <1> QED
    BY <1>4, <1>5, <1>6, <1>7 DEF v

\* Grade A says that every control is covered and that no identity is weak.
LEMMA GradeOfAll ==
    ASSUME NEW R
    PROVE  /\ GradeDerive(Evaluate(R)) = "A" <=> NoGap(R) /\ NoWeakness(R)
           /\ IdentityWeaknessCount(Evaluate(R)) = 0 <=> NoWeakness(R)
  <1> DEFINE results == Evaluate(R)
             covered == {p \in Controls : results[p[1]][p[2]].status = "covered"}
             blamed == {p \in Controls : results[p[1]][p[2]].weaknesses # {}}
             weak == IdentityWeaknessCount(results)
             total == ControlCount(results)
  <1>1. /\ CountOf(results, "covered") = Cardinality(covered)
        /\ weak = Cardinality(blamed) /\ total = Cardinality(Controls)
    BY ResultsOf DEF CountOf, IdentityWeaknessCount, ControlCount
  <1>2. /\ covered \in SUBSET Controls /\ blamed \in SUBSET Controls
        /\ covered = Controls <=> NoGap(R)
        /\ blamed = {} <=> NoWeakness(R)
    BY DEF NoGap, NoWeakness
  <1> HIDE DEF covered, blamed, results, weak, total
  <1>3. /\ weak \in Nat /\ total \in Nat /\ total # 0
        /\ weak = 0 <=> NoWeakness(R)
        /\ CountOf(results, "covered") = total <=> NoGap(R)
    BY <1>1, <1>2, ControlsFew, AllCounted
  <1>4. /\ CountOf(results, "covered") = total => WeakestLink(results) = "A"
        /\ WeakestLink(results) = "A" => CountOf(results, "covered") = total
    BY DEF WeakestLink, total
  <1>5. GradeDerive(results) = "A" <=> WeakestLink(results) = "A" /\ weak = 0
    <2> DEFINE letter == WeakestLink(results)
    <2>1. GradeDerive(results)
             = IF total = 0 THEN "F"
               ELSE IF weak >= 3 /\ letter \in {"A", "B"} THEN "D"
               ELSE IF weak >= 2 /\ letter \in {"A", "B"} THEN "C"
               ELSE IF weak >= 1 /\ letter = "A" THEN "B"
               ELSE letter
      BY DEF GradeDerive, weak, total
    <2> HIDE DEF letter
    <2>2. CASE weak = 0
      BY <1>3, <2>1, <2>2 DEF letter
    <2>3. CASE weak >= 1
      <3>1. GradeDerive(results) # "A"
        BY <1>3, <2>1, <2>3
      <3> QED
        BY <1>3, <2>3, <3>1
    <2> QED
      BY <1>3, <2>2, <2>3
  <1> QED
    BY <1>3, <1>4, <1>5 DEF results, weak

\* One item is ranked before another.
Ahead(i, j) ==
    \/ i.priority > j.priority
    \/ i.priority = j.priority /\ i.framework < j.framework
    \/ /\ i.priority = j.priority /\ i.framework = j.framework
       /\ i.control < j.control

\* Items that differ in framework or control are ranked 1 to their number.
LEMMA RanksRun ==
    ASSUME NEW items, IsFiniteSet(items),
           \A i \in items : i.priority \in Int /\ i.framework \in Int /\ i.control \in Int,
           \A i, j \in items : i.framework = j.framework /\ i.control = j.control => i = j
    PROVE  {GapRank(items, i) : i \in items} = 1..Cardinality(items)
  <1> DEFINE leaders(i) == {j \in items : Ahead(j, i)}
             rank == [i \in items |-> GapRank(items, i)]
             n == Cardinality(items)
  <1>1. ASSUME NEW i \in items
        PROVE  /\ GapRank(items, i) = 1 + Cardinality(leaders(i))
               /\ leaders(i) \in SUBSET items /\ i \notin leaders(i)
    BY DEF GapRank, Ahead
  <1>2. ASSUME NEW i \in items, NEW j \in items, i # j
        PROVE  Ahead(i, j) \/ Ahead(j, i)
    BY <1>2 DEF Ahead
  <1>3. ASSUME NEW i \in items, NEW j \in items, Ahead(i, j)
        PROVE  leaders(i) \cup {i} \in SUBSET leaders(j)
    <2> SUFFICES ASSUME NEW k \in leaders(i) PROVE Ahead(k, j)
      BY <1>3
    <2>1. Ahead(k, i) /\ k \in items
      OBVIOUS
    <2> HIDE DEF leaders
    <2> QED
      BY <1>3, <2>1 DEF Ahead
  <1> HIDE DEF leaders
  <1>4. n \in Nat
    BY FS_CardinalityType
  <1>5. ASSUME NEW i \in items
        PROVE  /\ IsFiniteSet(leaders(i)) /\ Cardinality(leaders(i)) \in Nat
               /\ GapRank(items, i) \in 1..n
    <2>1. IsFiniteSet(leaders(i)) /\ Cardinality(leaders(i)) \in Nat
      BY <1>1, FS_Subset, FS_CardinalityType
    <2>2. IsFiniteSet(items \ {i}) /\ Cardinality(items \ {i}) = n - 1
      BY FS_RemoveElement
    <2>3. leaders(i) \in SUBSET (items \ {i})
      BY <1>1
    <2>4. Cardinality(leaders(i)) <= Cardinality(items \ {i})
      BY <2>2, <2>3, FS_Subset
    <2> HIDE DEF n
    <2> QED
      BY <1>1, <1>4, <2>1, <2>2, <2>4
  <1>6. ASSUME NEW i \in items, NEW j \in items, Ahead(i, j)
        PROVE  GapRank(items, i) # GapRank(items, j)
    <2>1. IsFiniteSet(leaders(j)) /\ Cardinality(leaders(j)) \in Nat
      BY <1>5
    <2>2. leaders(i) \in SUBSET leaders(j) /\ i \in leaders(j) /\ i \notin leaders(i)
      BY <1>1, <1>3, <1>6
    <2>3. /\ Cardinality(leaders(i)) <= Cardinality(leaders(j))
          /\ Cardinality(leaders(i)) # Cardinality(leaders(j))
      BY <2>1, <2>2, FS_Subset
    <2> QED
      BY <1>1, <1>5, <2>3
  <1>7. rank \in Injection(items, 1..n)
    <2>1. ASSUME NEW i \in items, NEW j \in items, rank[i] = rank[j]
          PROVE  i = j
      BY <1>2, <1>6, <2>1
    <2>2. rank \in [items -> 1..n]
      BY <1>5
    <2> HIDE DEF rank, n
    <2> QED
      BY <2>1, <2>2 DEF Injection, IsInjective
  <1>8. IsFiniteSet(1..n) /\ Cardinality(1..n) = n
    <2> HIDE DEF n
    <2>1. /\ IsFiniteSet(1..n)
          /\ Cardinality(1..n) = IF 1 > n THEN 0 ELSE n - 1 + 1
      BY <1>4, FS_Interval
    <2> QED
      BY <1>4, <2>1
  <1>9. rank \in Surjection(items, 1..n)
    <2> HIDE DEF rank
    <2> QED
      BY <1>7, <1>8, FS_Injection
  <1> QED
    <2>1. \A i \in items : rank[i] = GapRank(items, i)
      OBVIOUS
    <2> HIDE DEF rank
    <2>2. \A k \in 1..n : \E i \in items : rank[i] = k
      BY <1>9 DEF Surjection
    <2> HIDE DEF n
    <2>3. {GapRank(items, i) : i \in items} = 1..n
      BY <1>5, <2>1, <2>2
    <2> QED
      BY <2>3 DEF n

LEMMA GapsRanked ==
    ASSUME NEW R, IsFiniteSet(R)
    PROVE  {GapRank(GapItems(Evaluate(R)), i) : i \in GapItems(Evaluate(R))}
              = 1..Cardinality(GapItems(Evaluate(R)))
  <1> DEFINE item == [p \in Uncovered(R) |-> Item(Evaluate(R), p)]
             items == {item[p] : p \in Uncovered(R)}
  <1>0. items = GapItems(Evaluate(R))
    BY ItemsOf
  <1>1. Uncovered(R) \in SUBSET Controls /\ IsFiniteSet(Uncovered(R))
    <2>1. Uncovered(R) \in SUBSET Controls
      BY DEF Uncovered
    <2> QED
      BY <2>1, ControlsFew, FS_Subset
  <1>2. ASSUME NEW p \in Uncovered(R)
        PROVE  /\ item[p].priority \in Int
               /\ item[p].framework = p[1] /\ item[p].control = p[2].id
               /\ p[1] \in DOMAIN Frameworks /\ p[2] \in Frameworks[p[1]]
               /\ p[1] \in Int /\ p[2].id \in Int
               /\ p = <<p[1], p[2]>>
    <2> DEFINE found == Evaluate(R)[p[1]][p[2]]
    <2>1. Sound(found, R)
      BY <1>1, ResultsSound
    <2>2. p[1] \in DOMAIN Frameworks /\ p[2] \in Frameworks[p[1]] /\ p = <<p[1], p[2]>>
      BY <1>1, ControlsFew DEF Controls
    <2>3. item[p].priority = Priority(found)
      BY DEF Item
    <2>4. item[p].framework = p[1] /\ item[p].control = p[2].id
      BY DEF Item
    <2> HIDE DEF item, found
    <2>5. /\ Cardinality(MissingRequiredRecordTypes(found)) \in Nat
          /\ Cardinality(found.missingFields) \in Nat
          /\ Cardinality(found.weaknesses) \in Nat /\ found.invalid \in Nat
      BY <2>1, FS_CardinalityType DEF Sound
    <2>6. Priority(found) \in Int
      BY <2>5 DEF Priority
    <2>7. p[1] \in Int /\ p[2].id \in Int
      BY <2>2, ControlsAssumption
    <2> QED
      BY <2>2, <2>3, <2>4, <2>6, <2>7
  <1>3. IsFiniteSet(items)
    <2>1. DOMAIN item = Uncovered(R)
      OBVIOUS
    <2> HIDE DEF item
    <2> QED
      BY <1>1, <2>1, ImageFinite
  <1> HIDE DEF item
  <1>4. \A i \in items : i.priority \in Int /\ i.framework \in Int /\ i.control \in Int
    BY <1>2
  <1>5. ASSUME NEW p \in Uncovered(R), NEW q \in Uncovered(R),
               item[p].framework = item[q].framework, item[p].control = item[q].control
        PROVE  p = q
    <2>1. p[1] = q[1] /\ p[2].id = q[2].id
      BY <1>2, <1>5
    <2>2. p[2] = q[2]
      BY <1>2, <2>1, ControlsAssumption
    <2> QED
      BY <1>2, <2>1, <2>2
  <1>6. \A i, j \in items : i.framework = j.framework /\ i.control = j.control => i = j
    BY <1>5
  <1> HIDE DEF items
  <1> QED
    BY <1>0, <1>3, <1>4, <1>6, RanksRun

\* A set falls into parts, whose sizes sum up to its size.
LEMMA PartsCounted ==
    ASSUME NEW S, IsFiniteSet(S), NEW part, NEW count, DOMAIN count = DOMAIN part,
           \A d \in DOMAIN part : /\ part[d] \in SUBSET S
                                  /\ count[d] = Cardinality(part[d]),
           \A d, e \in DOMAIN part : \A r \in part[d] : r \in part[e] => d = e,
           \A r \in S : \E d \in DOMAIN part : r \in part[d]
    PROVE  Altogether(count) = Cardinality(S)
  <1> DEFINE D == DOMAIN part
             index(d) == 1..count[d]
             bij == [d \in D |-> CHOOSE g : g \in Bijection(index(d), part[d])]
             T == UNION {{d} \X index(d) : d \in D}
             F == [p \in T |-> bij[p[1]][p[2]]]
  <1>1. ASSUME NEW d \in D
        PROVE  bij[d] \in Bijection(index(d), part[d])
    <2>1. IsFiniteSet(part[d])
      BY FS_Subset
    <2>2. ExistsBijection(index(d), part[d])
      BY <2>1, FS_CardinalityType
    <2>3. \E g : g \in Bijection(index(d), part[d])
      BY <2>2 DEF ExistsBijection
    <2> HIDE DEF index
    <2> QED
      BY <2>3
  <1> HIDE DEF bij, index
  <1>2. ASSUME NEW d \in D
        PROVE  /\ bij[d] \in [index(d) -> part[d]]
               /\ \A i, j \in index(d) : bij[d][i] = bij[d][j] => i = j
               /\ \A r \in part[d] : \E i \in index(d) : bij[d][i] = r
    BY <1>1 DEF Bijection, Injection, Surjection, IsInjective
  <1>3. \A p \in T : p[1] \in D /\ p[2] \in index(p[1]) /\ p = <<p[1], p[2]>>
    OBVIOUS
  <1>4. \A d \in D : \A i \in index(d) :
           <<d, i>> \in T /\ <<d, i>>[1] = d /\ <<d, i>>[2] = i
    OBVIOUS
  <1>t. Altogether(count) = Cardinality(T)
    BY DEF Altogether, index
  <1> HIDE DEF T
  <1>5. \A p \in T : F[p] = bij[p[1]][p[2]] /\ F[p] \in part[p[1]]
    BY <1>2, <1>3
  <1>6. F \in [T -> S]
    BY <1>3, <1>5
  <1>7. DOMAIN F = T
    OBVIOUS
  <1> HIDE DEF F
  <1>8. ASSUME NEW p \in T, NEW q \in T, F[p] = F[q]
        PROVE  p = q
    <2>1. p[1] = q[1]
      BY <1>3, <1>5, <1>8
    <2>2. p[2] = q[2]
      BY <1>2, <1>3, <1>5, <1>8, <2>1
    <2> QED
      BY <1>3, <2>1, <2>2
  <1>9. ASSUME NEW r \in S
        PROVE  \E p \in T : F[p] = r
    <2>1. PICK d \in D : r \in part[d]
      OBVIOUS
    <2>2. PICK i \in index(d) : bij[d][i] = r
      BY <1>2, <2>1
    <2>3. <<d, i>> \in T /\ F[<<d, i>>] = bij[<<d, i>>[1]][<<d, i>>[2]]
      BY <1>4, <1>5
    <2>4. bij[<<d, i>>[1]][<<d, i>>[2]] = bij[d][i]
      OBVIOUS
    <2> QED
      BY <2>2, <2>3, <2>4
  <1>10. F \in Injection(T, S) /\ F \in Surjection(T, S)
    BY <1>6, <1>7, <1>8, <1>9 DEF Injection, Surjection, IsInjective
  <1> QED
    BY <1>t, <1>10, FS_Injection

\* Every record is on one of the days.
LEMMA EveryDayReviewed ==
    ASSUME NEW S \in SUBSET records, records \subseteq Evidence, IsFiniteSet(S),
           NEW count, DOMAIN count = Days,
           \A d \in Days : count[d] = Cardinality({r \in S : r.at \div DayLength = d})
    PROVE  Altogether(count) = Cardinality(S)
  <1> DEFINE part == [d \in Days |-> {r \in S : r.at \div DayLength = d}]
  <1>1. DOMAIN part = Days
    OBVIOUS
  <1>2. \A d \in DOMAIN part : part[d] \in SUBSET S /\ count[d] = Cardinality(part[d])
    OBVIOUS
  <1>3. \A d, e \in DOMAIN part : \A r \in part[d] : r \in part[e] => d = e
    OBVIOUS
  <1>4. \A r \in S : \E d \in DOMAIN part : r \in part[d]
    BY DEF Days
  <1> HIDE DEF part
  <1> QED
    BY <1>1, <1>2, <1>3, <1>4, PartsCounted

LEMMA WeakIsReviewed ==
    ASSUME NEW r
    PROVE  "identity" \in ClassifyExceptions(r) <=> Weak(r)
  <1>1. \A code \in DOMAIN ReasonClass : ReasonClass[code] # "identity"
    BY DEF ReasonClass
  <1> QED
    BY <1>1 DEF ClassifyExceptions

LEMMA ThreeParts ==
    ASSUME NEW T, IsFiniteSet(T), NEW A \in SUBSET T, NEW B \in SUBSET T, NEW C \in SUBSET T,
           A \cap B = {}, (A \cup B) \cap C = {}, (A \cup B) \cup C = T
    PROVE  Cardinality(A) + Cardinality(B) + Cardinality(C) = Cardinality(T)
  <1> DEFINE a == Cardinality(A)
             b == Cardinality(B)
             c == Cardinality(C)
             ab == Cardinality(A \cup B)
             t == Cardinality(T)
  <1>1. /\ IsFiniteSet(A) /\ IsFiniteSet(B) /\ IsFiniteSet(C)
        /\ a \in Nat /\ b \in Nat /\ c \in Nat
    BY FS_Subset, FS_CardinalityType
  <1>2. Cardinality(A \cap B) = 0 /\ Cardinality((A \cup B) \cap C) = 0
    BY FS_EmptySet
  <1>3. IsFiniteSet(A \cup B) /\ ab = a + b - Cardinality(A \cap B)
    BY <1>1, FS_Union
  <1>4. t = ab + c - Cardinality((A \cup B) \cap C)
    BY <1>3, <1>1, FS_Union
  <1>5. ab = a + b - 0 /\ t = ab + c - 0
    BY <1>2, <1>3, <1>4
  <1> HIDE DEF a, b, c, ab, t
  <1>6. a + b + c = t
    BY <1>1, <1>5
  <1> QED
    BY <1>6 DEF a, b, c, t

Gradable(T) == \A r \in T : r.graded \in {"", "high", "medium", "low"}

LEMMA GradedOnce ==
    ASSUME NEW T, IsFiniteSet(T), Gradable(T)
    PROVE  Cardinality({r \in T : DeriveAuditability(r) = "high"})
              + Cardinality({r \in T : DeriveAuditability(r) = "medium"})
              + Cardinality({r \in T : DeriveAuditability(r) = "low"})
           = Cardinality(T)
  <1> DEFINE high == {r \in T : DeriveAuditability(r) = "high"}
             medium == {r \in T : DeriveAuditability(r) = "medium"}
             low == {r \in T : DeriveAuditability(r) = "low"}
  <1>1. \A r \in T : DeriveAuditability(r) \in {"high", "medium", "low"}
    BY DEF DeriveAuditability, Gradable
  <1>2. /\ high \in SUBSET T /\ medium \in SUBSET T /\ low \in SUBSET T
        /\ high \cap medium = {} /\ (high \cup medium) \cap low = {}
        /\ (high \cup medium) \cup low = T
    BY <1>1
  <1> HIDE DEF high, medium, low
  <1>3. Cardinality(high) + Cardinality(medium) + Cardinality(low) = Cardinality(T)
    BY <1>2, ThreeParts
  <1> QED
    BY <1>3, Zenon DEF high, medium, low

LEMMA ReviewsCount ==
    ASSUME records \subseteq Evidence, IsFiniteSet(records)
    PROVE  /\ Altogether([d \in Days |-> DailyReview(records, d).identity])
                 = IdentityDigest(records).weak
           /\ Altogether([d \in Days |-> DailyReview(records, d).grades["high"]
                                           + DailyReview(records, d).grades["medium"]
                                           + DailyReview(records, d).grades["low"]])
                 = IdentityDigest(records).records
  <1> DEFINE weak == {r \in records : Weak(r)}
             identity == [d \in Days |-> DailyReview(records, d).identity]
             graded == [d \in Days |-> DailyReview(records, d).grades["high"]
                                         + DailyReview(records, d).grades["medium"]
                                         + DailyReview(records, d).grades["low"]]
  <1>1. /\ IdentityDigest(records).weak = Cardinality(weak)
        /\ IdentityDigest(records).records = Cardinality(records)
    BY DEF IdentityDigest
  <1>2. ASSUME NEW d \in Days
        PROVE  identity[d] = Cardinality({r \in weak : r.at \div DayLength = d})
    <2>1. DailyReview(records, d).identity
             = Cardinality({r \in OnDay(records, d) : "identity" \in ClassifyExceptions(r)})
      BY DEF DailyReview
    <2>2. {r \in OnDay(records, d) : "identity" \in ClassifyExceptions(r)}
             = {r \in weak : r.at \div DayLength = d}
      BY WeakIsReviewed DEF OnDay
    <2> QED
      BY <2>1, <2>2
  <1>3. ASSUME NEW d \in Days
        PROVE  graded[d] = Cardinality({r \in records : r.at \div DayLength = d})
    <2> DEFINE day == OnDay(records, d)
    <2>1. \A g \in {"high", "medium", "low"} :
             DailyReview(records, d).grades[g]
                = Cardinality({r \in day : DeriveAuditability(r) = g})
      BY DEF DailyReview
    <2>2. day \in SUBSET records /\ day = {r \in records : r.at \div DayLength = d}
      BY DEF OnDay
    <2> HIDE DEF day
    <2>3. IsFiniteSet(day)
      BY <2>2, FS_Subset
    <2>4. Gradable(day)
      BY <2>2, AuditAssumption DEF Gradable
    <2>5. Cardinality({r \in day : DeriveAuditability(r) = "high"})
             + Cardinality({r \in day : DeriveAuditability(r) = "medium"})
             + Cardinality({r \in day : DeriveAuditability(r) = "low"})
          = Cardinality(day)
      BY <2>3, <2>4, GradedOnce
    <2> QED
      BY <2>1, <2>2, <2>5
  <1>4. weak \in SUBSET records /\ records \in SUBSET records
    OBVIOUS
  <1>5. DOMAIN identity = Days /\ DOMAIN graded = Days
    OBVIOUS
  <1> HIDE DEF weak, identity, graded
  <1>6. Altogether(identity) = Cardinality(weak)
    <2>1. IsFiniteSet(weak)
      BY <1>4, FS_Subset
    <2> QED
      BY <1>2, <1>4, <1>5, <2>1, EveryDayReviewed
  <1>7. Altogether(graded) = Cardinality(records)
    BY <1>3, <1>4, <1>5, EveryDayReviewed
  <1> QED
    BY <1>1, <1>6, <1>7 DEF identity, graded

LEMMA CoveragePasses ==
    ASSUME NEW R, NoGap(R), NEW policy \in Policies
    PROVE  AllPass(Evaluate(R), policy)
  <1> SUFFICES ASSUME NEW f \in DOMAIN Frameworks, NEW least \in ResolveMinimum(policy, f)
               PROVE  ~ (FrameworkCoverage(Evaluate(R)[f]) < least)
    BY ResultsOf DEF AllPass, ThresholdFailures
  <1>1. \A c \in Frameworks[f] : Evaluate(R)[f][c].status = "covered"
    BY NoGapNoItems
  <1>2. FrameworkCoverage(Evaluate(R)[f]) = One
    BY <1>1, FullyCovered
  <1>3. least \in Int /\ least <= One
    BY AuditAssumption, MinimumRatio
  <1> QED
    BY <1>2, <1>3 DEF One

LEMMA FullCoverageMet ==
    ASSUME NEW R
    PROVE  AllPass(Evaluate(R), FullCoverage) <=> NoGap(R)
  <1>1. ASSUME NEW f PROVE ResolveMinimum(FullCoverage, f) = {One}
    <2>1. FullCoverage.override = {One} /\ Clamp(One) = One
      BY DEF FullCoverage, Clamp, One
    <2> QED
      BY <2>1 DEF ResolveMinimum
  <1>2. AllPass(Evaluate(R), FullCoverage)
           <=> \A f \in DOMAIN Frameworks : ~ (FrameworkCoverage(Evaluate(R)[f]) < One)
    BY <1>1, ResultsOf DEF AllPass, ThresholdFailures
  <1>3. ASSUME NEW f \in DOMAIN Frameworks
        PROVE  ~ (FrameworkCoverage(Evaluate(R)[f]) < One)
                  <=> \A c \in Frameworks[f] : Evaluate(R)[f][c].status = "covered"
    <2>1. One \in Int
      BY DEF One
    <2> QED
      BY <2>1, FullyCovered
  <1> QED
    BY <1>2, <1>3, NoGapNoItems

LEMMA CompleteIsCovered ==
    ASSUME NEW R, IsFiniteSet(R), Complete(Evaluate(R))
    PROVE  /\ NoGap(R) /\ NoWeakness(R)
           /\ BuildCompliance(R).missing = {}
  <1>1. ASSUME NEW p \in Controls
        PROVE  /\ Evaluate(R)[p[1]][p[2]].status = "covered"
               /\ Evaluate(R)[p[1]][p[2]].weaknesses = {}
    <2> DEFINE found == Evaluate(R)[p[1]][p[2]]
    <2>1. found \in AllResults(Evaluate(R))
      BY ResultsOf
    <2>2. Sound(found, R)
      BY ResultsSound
    <2> HIDE DEF found
    <2>3. found.status = "covered" /\ found.missingFields = {}
      BY <2>1 DEF Complete
    <2> QED
      BY <2>2, <2>3 DEF Sound, found
  <1>2. \A found \in AllResults(Evaluate(R)) : MissingRequiredRecordTypes(found) = {}
    BY DEF Complete
  <1>3. BuildCompliance(R).missing
           = UNION {MissingRequiredRecordTypes(found) : found \in AllResults(Evaluate(R))}
    BY DEF BuildCompliance
  <1> QED
    BY <1>1, <1>2, <1>3 DEF NoGap, NoWeakness

LEMMA SummariesOfOne ==
    ASSUME IsFiniteSet(records)
    PROVE  SummariesAgree(Evaluate(records))
  <1> DEFINE results == Evaluate(records)
             bundled == BuildCompliance(records)
  <1>1. bundled.complete = Complete(results) /\ bundled.grade = GradeDerive(results)
    BY DEF BuildCompliance
  <1>2. ASSUME bundled.complete
        PROVE  /\ bundled.grade = "A" /\ GapItems(results) = {} /\ bundled.missing = {}
               /\ \A p \in Policies : AllPass(results, p)
    <2>1. NoGap(records) /\ NoWeakness(records) /\ bundled.missing = {}
      BY <1>1, <1>2, CompleteIsCovered
    <2> QED
      BY <1>1, <2>1, GradeOfAll, NoGapNoItems, CoveragePasses
  <1>3. ASSUME bundled.grade = "A"
        PROVE  GapItems(results) = {} /\ IdentityWeaknessCount(results) = 0
    BY <1>1, <1>3, GradeOfAll, NoGapNoItems
  <1>4. AllPass(results, FullCoverage) <=> GapItems(results) = {}
    BY FullCoverageMet, NoGapNoItems
  <1>5. {GapRank(GapItems(results), i) : i \in GapItems(results)}
           = 1..Cardinality(GapItems(results))
    BY GapsRanked
  <1> HIDE DEF results, bundled
  <1>6. SummariesAgree(results)
    BY <1>2, <1>3, <1>4, <1>5, Zenon DEF SummariesAgree, bundled
  <1> QED
    BY <1>6 DEF results

LEMMA IdentitiesOfOne ==
    ASSUME records \subseteq Evidence, IsFiniteSet(records)
    PROVE  IdentityAgrees(Evaluate(records))
  <1>1. ASSUME NEW x \in AllResults(Evaluate(records)), NEW reason \in x.weaknesses
        PROVE  \E r \in records : r.type \in x.types /\ reason \in IdentityReasons(r)
    <2>1. PICK p \in Controls : x = Evaluate(records)[p[1]][p[2]]
      BY ResultsOf
    <2>2. Sound(x, records)
      BY <2>1, ResultsSound
    <2> QED
      BY <2>2 DEF Sound
  <1>2. ASSUME NEW r \in records, "drift" \in IdentityReasons(r),
               "target_id" \in DeriveIdentityView(r)
        PROVE  r \in UnapprovedFindings(records)
    <2>1. "drift" \notin {IF f \in {"target_kind", "target_id"} THEN "target" ELSE f :
                             f \in IdentityMissing(r)}
      BY DEF IdentityMissing, RequiredIdentity
    <2>2. UnapprovedPrivilegeDrift(r)
      BY <1>2, <2>1 DEF IdentityReasons
    <2> QED
      BY <1>2, <2>2 DEF UnapprovedPrivilegeDrift, UnapprovedFindings, PrivilegeDriftFindings
  <1> QED
    BY <1>1, <1>2, ReviewsCount, Zenon DEF IdentityAgrees

LEMMA RegistersOfOne ==
    ASSUME records \subseteq Evidence
    PROVE  RegistersAgree
  <1> DEFINE profile == InsuranceEvidenceProfile(records)
             authorizations == OfKind(records, Authorizations)
             verified == {r \in Sources(records) : EntryStatus(r, records) \in {"verified"}}
  <1>1. ASSUME NEW r \in authorizations, NEW e \in Register(records, Authorizations),
               e.id = r.id, e.status = "verified"
        PROVE  r.artifact.links.proofs \subseteq e.refs
    <2>1. PICK s \in authorizations :
             e = [id |-> s.id, status |-> EntryStatus(s, records),
                  gaps |-> EntryGaps(s, records),
                  refs |-> {o.id : o \in LinkedProofRefs(s, records)}]
      BY DEF Register
    <2>2. r \in records /\ s \in records
      BY DEF OfKind, Sources
    <2>3. s = r
      BY <1>1, <2>1, <2>2, AuditAssumption
    <2>4. /\ EntryStatus(r, records) = "verified"
          /\ e.refs = {o.id : o \in LinkedProofRefs(r, records)}
      BY <1>1, <2>1, <2>3
    <2>5. EntryStatus(r, records) = AuthorizationStatus(r, records)
      <3>1. r.artifact.kind \in Authorizations
        BY DEF OfKind
      <3> QED
        BY <3>1 DEF EntryStatus, Authorizations
    <2>6. "proofs" \notin GapReasons(r, records)
      BY <2>4, <2>5 DEF AuthorizationStatus
    <2>7. r.artifact.links.proofs \subseteq {o.id : o \in records}
      BY <2>6 DEF GapReasons
    <2>8. \A o \in records : o.id \in r.artifact.links.proofs
                                => o \in LinkedProofRefs(r, records)
      BY DEF LinkedProofRefs
    <2> QED
      BY <2>4, <2>7, <2>8
  <1>2. ASSUME profile.scoped_authority = "covered"
        PROVE  profile.proof_of_enforcement = "covered"
    <2>1. /\ profile.scoped_authority
               = FromRegister(authorizations, {r \in verified : r.artifact.policy})
          /\ profile.proof_of_enforcement = FromRegister(authorizations, verified)
      BY DEF InsuranceEvidenceProfile
    <2> HIDE DEF profile, authorizations, verified
    <2> QED
      BY <1>2, <2>1 DEF FromRegister, ClassStatus
  <1>3. ASSUME ~ ProfileWritten(records)
        PROVE  \A class \in DOMAIN profile \ {"ownership"} : profile[class] = "gap"
    <2>1. Sources(records) = {} /\ ~ HasWrkrEvidence(records)
      BY <1>3 DEF ProfileWritten
    <2>2. \A kinds : OfKind(records, kinds) = {}
      BY <2>1 DEF OfKind
    <2>3. \A good : FromRegister({}, good) = "gap" /\ ClassStatus(FALSE, good) = "gap"
      BY DEF FromRegister, ClassStatus
    <2>i. profile.inventory = "gap" /\ profile.drift_tracking = "gap"
      BY <2>1 DEF InsuranceEvidenceProfile, ClassStatus
    <2>s. profile.scoped_authority = "gap" /\ profile.approval_gates = "gap"
      BY <2>2, <2>3 DEF InsuranceEvidenceProfile
    <2>p. profile.proof_of_enforcement = "gap"
      BY <2>2, <2>3 DEF InsuranceEvidenceProfile
    <2>r. profile.incident_reconstruction = "gap"
      BY <2>2 DEF InsuranceEvidenceProfile, ClassStatus
    <2>k. profile.kill_switch = "gap" /\ profile.jit_credentials = "gap"
      BY <2>2, <2>3 DEF InsuranceEvidenceProfile
    <2>f. profile.freeze_windows = "gap" /\ profile.sandboxing = "gap"
      BY <2>2, <2>3 DEF InsuranceEvidenceProfile
    <2>d. DOMAIN profile = {"inventory", "ownership", "drift_tracking", "scoped_authority",
                            "approval_gates", "proof_of_enforcement",
                            "incident_reconstruction", "kill_switch", "jit_credentials",
                            "freeze_windows", "sandboxing"}
      BY DEF InsuranceEvidenceProfile
    <2> HIDE DEF profile
    <2> QED
      BY <2>i, <2>s, <2>p, <2>r, <2>k, <2>f, <2>d
  <1> QED
    BY <1>1, <1>2, <1>3, Zenon DEF RegistersAgree

(* What the views of one chain say of it agrees, for any frameworks,       *)
(* policies and records: a bundle is complete only with grade A and no     *)
(* gap, the gaps are ranked 1 to their number, the daily reviews sum up to *)
(* the identity summary, and registers and profile bear each other out.    *)
THEOREM ViewsAlwaysAgree == AuditSpec => []ViewsAgree
  <1>1. AuditInv => ViewsAgree
    <2> SUFFICES ASSUME AuditInv PROVE ViewsAgree
      OBVIOUS
    <2>1. records \subseteq Evidence /\ IsFiniteSet(records)
      BY DEF AuditInv, AuditTypeOK
    <2> QED
      BY <2>1, SummariesOfOne, IdentitiesOfOne, RegistersOfOne DEF ViewsAgree
  <1> QED
    BY <1>1, AuditInvariant, PTL

=============================================================================
