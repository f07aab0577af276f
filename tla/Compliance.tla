----------------------------- MODULE Compliance -----------------------------
(***************************************************************************)
(* core/compliance, core/gaps and core/review/grade: what `axym map`,      *)
(* `axym gaps` and `axym bundle` compute from the records of the chain.    *)
(* Pure definitions over a set of records; Audit and Bundle use them.      *)
(*                                                                         *)
(* A record is [id, type, product, at, fields, says, oversight, approved,  *)
(* reasons, ...]: fields are the required fields it has that are not about *)
(* identity; says is where its identity may be read from.  Ratios are in   *)
(* ten-thousandths, the precision the code rounds them to.                 *)
(*                                                                         *)
(* A definition that nothing uses is a faulty variant of the one below it; *)
(* the properties are run against it to see them violated.                 *)
(***************************************************************************)
EXTENDS Integers, Sequences, FiniteSets, FiniteSetsExt

CONSTANTS
    Frameworks, \* framework id -> its controls: [id, sets], sets a sequence
    Period      \* minimum frequency -> length of its window, 0: no window

\* A control without evidence sets has the legacy one, so that none is without.
ASSUME FrameworksAssumption ==
    \A f \in DOMAIN Frameworks :
        /\ IsFiniteSet(Frameworks[f])
        /\ \A c \in Frameworks[f] :
              /\ Len(c.sets) \in Nat \ {0}
              /\ \A i \in 1..Len(c.sets) : c.sets[i].frequency \in DOMAIN Period

\* A set names the types of the records it asks for: a control that asked for
\* none could never be covered, and there would be no advice for it.
ASSUME TypesAssumption ==
    \A f \in DOMAIN Frameworks : \A c \in Frameworks[f] :
        \A i \in 1..Len(c.sets) : /\ c.sets[i].types # {} /\ IsFiniteSet(c.sets[i].types)
                                  /\ IsFiniteSet(c.sets[i].fields)

ASSUME PeriodAssumption == \A f \in DOMAIN Period : Period[f] \in Nat

One == 10000

\* A command names a framework (LoadMany), and framework files, which are not
\* this program's, list controls under ids of their own; identifiers are numbers
\* in the order of the strings. Of 2 * One controls, one more or less would be
\* lost in the rounding of the coverage.
ASSUME ControlsAssumption ==
    /\ DOMAIN Frameworks # {} /\ IsFiniteSet(DOMAIN Frameworks)
    /\ DOMAIN Frameworks \subseteq Int
    /\ \A f \in DOMAIN Frameworks :
          /\ Frameworks[f] # {} /\ Cardinality(Frameworks[f]) < 2 * One
          /\ \A c \in Frameworks[f] : c.id \in Int
          /\ \A c, d \in Frameworks[f] : c.id = d.id => c = d

-----------------------------------------------------------------------------
(* normalize.DeriveIdentityView: who acted, through whom, under whose name *)
(* and policy, on what. One end of a delegation stands for both, and for a *)
(* chain of one; a tool, scope or privilege stands for the target.         *)
TargetKind(r) ==
    IF "privilege_kind" \in r.says THEN "privilege"
    ELSE IF r.says \cap {"kind", "tool"} # {} THEN "other"
    ELSE IF r.says \cap {"privilege", "scope"} # {} THEN "privilege"
    ELSE IF "entity" \in r.says THEN "other"
    ELSE "none"

DeriveIdentityView(r) ==
    UNION {
        IF r.says \cap {"actor", "downstream", "agent", "chain"} # {}
        THEN {"actor", "downstream", "delegation"} ELSE {},
        IF r.says \cap {"owner", "reviewer"} # {} THEN {"owner"} ELSE {},
        r.says \cap {"policy", "approval"},
        IF TargetKind(r) # "none" THEN {"target_kind"} ELSE {},
        IF r.says \cap {"target", "tool", "scope", "privilege", "entity"} # {}
        THEN {"target_id"} ELSE {}}

IdentityFields == {"actor", "downstream", "delegation", "owner", "policy",
                   "approval", "target_kind", "target_id"}

Owned == {"decision", "policy_enforcement", "approval", "scan_finding",
          "deployment", "data_pipeline_run", "permission_check", "compiled_action"}
Governed == Owned \cup {"tool_invocation"}

UnapprovedPrivilegeDrift(r) ==
    /\ r.type = "scan_finding"
    /\ TargetKind(r) = "privilege" \/ "privilege" \in r.says
    /\ r.approved = "no"
    /\ "approval" \notin r.says

RequiresApprovalBinding(r) ==
    r.type = "approval" \/ r.oversight \/ UnapprovedPrivilegeDrift(r)

RequiredIdentity(r) ==
    IF r.type \notin Governed THEN {}
    ELSE {"actor", "downstream", "target_kind", "target_id", "delegation"}
            \cup (IF r.type \in Owned THEN {"owner", "policy"} ELSE {})
            \cup (IF RequiresApprovalBinding(r) THEN {"approval"} ELSE {})

\* The two lists of IdentityWeaknesses: missing fields, reason codes.
IdentityMissing(r) == RequiredIdentity(r) \ DeriveIdentityView(r)

IdentityReasons(r) ==
    {IF f \in {"target_kind", "target_id"} THEN "target" ELSE f : f \in IdentityMissing(r)}
        \cup (IF UnapprovedPrivilegeDrift(r) THEN {"drift"} ELSE {})

-----------------------------------------------------------------------------
(* match.Evaluate: one requirement set, one control, all frameworks.       *)
RecordFieldExists(r, f) ==
    IF f \in IdentityFields THEN f \in DeriveIdentityView(r) ELSE f \in r.fields

IsInvalidEvidenceClass(r) ==
    r.reasons \cap {"invalid_record", "schema_error", "mapping_error"} # {}

Latest(records) == Max({r.at : r \in records})

\* frequencyWindowStart counts back from the latest record of the chain,
\* whatever its type.
InFrequencyWindow(frequency, records, r) ==
    Period[frequency] = 0 \/ r.at + Period[frequency] >= Latest(records)

EvaluateRequirementSet(req, records) ==
    LET candidates == {r \in records : /\ r.type \in req.types
                                       /\ req.products = {} \/ r.product \in req.products}
        invalid == {r \in candidates : IsInvalidEvidenceClass(r)}
        valid == candidates \ invalid
        Absent(r) == {f \in req.fields : ~RecordFieldExists(r, f)}
        Lacking(r) == Absent(r) \cup IdentityMissing(r)
        matched == {r \in valid : Lacking(r) = {}}
        partial == {r \in valid \ matched : Absent(r) # req.fields}
        recent == {r \in valid : InFrequencyWindow(req.frequency, records, r)}
        matchedTypes == {r.type : r \in matched \cap recent}
        frequencyMet == matched \cap recent # {}
        allTypesMet == req.all => req.types \subseteq matchedTypes
    IN [status |-> IF frequencyMet /\ allTypesMet THEN "covered"
                   ELSE IF matched \cup partial # {} THEN "partial"
                   ELSE "gap",
        set |-> req,
        types |-> req.types,
        matchedTypes |-> matchedTypes,
        presentTypes |-> {r.type : r \in recent},
        missingFields |-> UNION ({Lacking(r) : r \in valid} \cup {Absent(r) : r \in invalid}),
        weaknesses |-> UNION {IdentityReasons(r) : r \in valid \ matched},
        matched |-> Cardinality(matched),
        partial |-> Cardinality(partial),
        failed |-> Cardinality(candidates \ (matched \cup partial)),
        invalid |-> Cardinality(invalid)]

MissingTypesOfGaps(result) ==
    IF result.status = "gap" THEN result.types \ result.presentTypes ELSE {}

MissingRequiredRecordTypes(result) == result.types \ result.presentTypes

StatusRank(status) == CASE status = "covered" -> 2 [] status = "partial" -> 1 [] OTHER -> 0

\* How good a result is, most significant first. Shares of the required types
\* are compared by cross-multiplication.
Merits(a, b) ==
    <<StatusRank(a.status),
      Cardinality(a.matchedTypes) * Cardinality(b.types),
      Cardinality(a.presentTypes) * Cardinality(b.types),
      -Cardinality(MissingRequiredRecordTypes(a)),
      -Cardinality(a.missingFields),
      a.matched, a.partial, -a.failed>>

Better(a, b) ==
    \E i \in 1..Len(a) : a[i] > b[i] /\ \A j \in 1..(i - 1) : a[j] = b[j]

PreferCompleteness(candidate, current) ==
    Better(Tail(Merits(candidate, current)), Tail(Merits(current, candidate)))

PreferControlResult(candidate, current) ==
    Better(Merits(candidate, current), Merits(current, candidate))

EvaluateControl(control, records) ==
    LET result(i) == EvaluateRequirementSet(control.sets[i], records)
        selected[i \in 1..Len(control.sets)] ==
            IF i = 1 THEN result(1)
            ELSE IF PreferControlResult(result(i), selected[i - 1])
                 THEN result(i) ELSE selected[i - 1]
    IN selected[Len(control.sets)]

Evaluate(records) ==
    [f \in DOMAIN Frameworks |->
        [c \in Frameworks[f] |-> EvaluateControl(c, records)]]

-----------------------------------------------------------------------------
(* coverage.Build and threshold.Evaluate over the results of a run.        *)
CountIn(controls, status) == Cardinality({c \in DOMAIN controls : controls[c].status = status})

\* The controls of all frameworks together, each with its framework.
AllControls(results) == UNION {{f} \X DOMAIN results[f] : f \in DOMAIN results}

CountOf(results, status) ==
    Cardinality({p \in AllControls(results) : results[p[1]][p[2]].status = status})

ControlCount(results) == Cardinality(AllControls(results))

RoundRatio(part, whole) == (2 * One * part + whole) \div (2 * whole)

FrameworkCoverage(controls) ==
    IF DOMAIN controls = {} THEN 0
    ELSE RoundRatio(CountIn(controls, "covered"), Cardinality(DOMAIN controls))

Clamp(x) == IF x < 0 THEN 0 ELSE IF x > One THEN One ELSE x

\* A policy is [override, global, framework]: sets of at most one ratio, and
\* a function from some framework ids to ratios.
ResolveMinimum(policy, f) ==
    IF policy.override # {} THEN {Clamp(x) : x \in policy.override}
    ELSE IF f \in DOMAIN policy.framework THEN {Clamp(policy.framework[f])}
    ELSE {Clamp(x) : x \in policy.global}

ThresholdFailures(results, policy) ==
    {f \in DOMAIN results :
        \E minimum \in ResolveMinimum(policy, f) : FrameworkCoverage(results[f]) < minimum}

-----------------------------------------------------------------------------
(* grade.Derive: the letter and the score of all controls together.        *)
IdentityWeaknessCount(results) ==
    Cardinality({p \in AllControls(results) : results[p[1]][p[2]].weaknesses # {}})

Score(results) ==
    LET total == ControlCount(results)
        halves == 2 * CountOf(results, "covered") + CountOf(results, "partial")
        penalty == 500 * Min({3, IdentityWeaknessCount(results)})
        scaled == One * halves - 2 * total * penalty
    IN IF scaled <= 0 THEN 0 ELSE Min({One, (scaled + total) \div (2 * total)})

AtLeastOne(n) == Max({1, n})

WeakestLink(results) ==
    LET total == ControlCount(results)
        gaps == CountOf(results, "gap")
    IN IF CountOf(results, "covered") = total THEN "A"
       ELSE IF gaps = 0 /\ Score(results) >= 8500 THEN "B"
       ELSE IF gaps <= AtLeastOne(total \div 5) THEN "C"
       ELSE IF gaps <= AtLeastOne(total \div 2) THEN "D"
       ELSE IF Score(results) > 0 THEN "E"
       ELSE "F"

GradeDerive(results) ==
    LET letter == WeakestLink(results)
        weak == IdentityWeaknessCount(results)
    IN IF ControlCount(results) = 0 THEN "F"
       ELSE IF weak >= 3 /\ letter \in {"A", "B"} THEN "D"
       ELSE IF weak >= 2 /\ letter \in {"A", "B"} THEN "C"
       ELSE IF weak >= 1 /\ letter = "A" THEN "B"
       ELSE letter

-----------------------------------------------------------------------------
(* gaps.Build: the controls that are not covered, with what to do about    *)
(* each, ranked by priority.                                               *)
Priority(result) ==
    (IF result.status = "gap" THEN 20 ELSE 10)
        + 4 * Cardinality(MissingRequiredRecordTypes(result))
        + 2 * Cardinality(result.missingFields)
        + 3 * result.invalid
        + 5 * Cardinality(result.weaknesses)

Remediation(result) ==
    IF result.weaknesses # {} THEN "link identity"
    ELSE IF MissingRequiredRecordTypes(result) # {} /\ result.missingFields # {}
         THEN "collect types and populate fields"
    ELSE IF MissingRequiredRecordTypes(result) # {} THEN "collect types"
    ELSE IF result.missingFields # {} THEN "populate fields"
    ELSE "increase frequency"

EffortFor(result) ==
    IF result.status = "gap" /\ \/ Remediation(result) \in {"link identity",
                                        "collect types and populate fields"}
                                \/ Cardinality(MissingRequiredRecordTypes(result)) >= 2
                                \/ Cardinality(result.missingFields) >= 3
    THEN "high" ELSE "medium"

GapItems(results) ==
    UNION {{[framework |-> f, control |-> c.id, status |-> results[f][c].status,
             priority |-> Priority(results[f][c]),
             remediation |-> Remediation(results[f][c]),
             effort |-> EffortFor(results[f][c])] :
                c \in {x \in DOMAIN results[f] : results[f][x].status # "covered"}} :
           f \in DOMAIN results}

\* The rank of an item: one more than the items before it. Ids are ordered.
GapRank(items, item) ==
    1 + Cardinality({i \in items :
            \/ i.priority > item.priority
            \/ i.priority = item.priority /\ i.framework < item.framework
            \/ /\ i.priority = item.priority /\ i.framework = item.framework
               /\ i.control < item.control})

-----------------------------------------------------------------------------
(* buildCompliance of core/bundle and core/verify/bundle: the summary that *)
(* a bundle carries and its verification recomputes.                       *)
AllResults(results) == UNION {{results[f][c] : c \in DOMAIN results[f]} : f \in DOMAIN results}

CompleteByTypes(results) ==
    \A result \in AllResults(results) :
        MissingRequiredRecordTypes(result) = {}

Complete(results) ==
    \A result \in AllResults(results) :
        /\ MissingRequiredRecordTypes(result) = {}
        /\ result.status = "covered"
        /\ result.missingFields = {}

BuildCompliance(records) ==
    LET results == Evaluate(records)
    IN [required |-> UNION {result.types : result \in AllResults(results)},
        observed |-> {r.type : r \in records},
        missing |-> UNION {MissingRequiredRecordTypes(result) : result \in AllResults(results)},
        complete |-> Complete(results),
        grade |-> GradeDerive(results)]
=============================================================================
