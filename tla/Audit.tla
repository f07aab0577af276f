------------------------------- MODULE Audit -------------------------------
(***************************************************************************)
(* `axym gaps`, `axym map`, `axym review` and the summaries of `axym       *)
(* bundle` while the evidence chain grows: what one report says against    *)
(* the others, and against the reports of later, longer chains.            *)
(*                                                                         *)
(* A command loads the chain once (runCompliance), so its answer is a      *)
(* function of one state of the chain and of the policy it is given.       *)
(***************************************************************************)
EXTENDS DerivedRegisters

CONSTANTS
    Evidence,   \* the records that collection and ingest may append
    Policies,   \* coverage policies in use
    MaxRecords  \* bound: length of the chain

ASSUME AuditAssumption ==
    /\ MaxRecords \in Nat \ {0}
    /\ \A p \in Policies : /\ p.override \subseteq Int /\ p.global \subseteq Int
                          /\ \A f \in DOMAIN p.framework : p.framework[f] \in Int
    /\ \A r \in Evidence : /\ r.id \in Nat /\ r.at \in Int
                           /\ r.graded \in {"", "high", "medium", "low"}
    /\ \A r, s \in Evidence : r.id = s.id => r = s
    /\ \A r \in Sources(Evidence) : IsFiniteSet(r.artifact.gaps)

VARIABLES
    records, \* the chain
    report   \* the last answer of `axym gaps`: the chain it read (a regression
             \* baseline may have been taken of it), the policy
             \* and whether the threshold was met; {} before the first

avars == <<records, report>>

AuditInit == records = {} /\ report = {}

AppendRecord(r) ==
    /\ Cardinality(records) < MaxRecords
    /\ records' = records \cup {r}
    /\ UNCHANGED report

PassesThreshold(chain, policy) == ThresholdFailures(Evaluate(chain), policy) = {}

\* Without records there is nothing to match: the report is empty of evidence
\* and every control a gap.
Gaps(policy) ==
    /\ records # {}
    /\ report' = {[seen |-> records, policy |-> policy,
                   passed |-> PassesThreshold(records, policy)]}
    /\ UNCHANGED records

AuditNext ==
    \/ \E r \in Evidence \ records : AppendRecord(r)
    \/ \E p \in Policies : Gaps(p)

AuditSpec == AuditInit /\ [][AuditNext]_avars

AuditTypeOK ==
    /\ records \subseteq Evidence
    /\ \A x \in report : x.seen \subseteq records /\ x.policy \in Policies

-----------------------------------------------------------------------------

(* More evidence never looks like less: as long as the frequency windows   *)
(* have not moved, `regress run` against the baseline of an earlier report *)
(* finds no control lower, nor a maturity stage where a path has one       *)
(* graduation; a threshold that was met still is; no entry of a register   *)
(* lists a gap it did not list before. And a threshold lost as windows     *)
(* move is drift. Requirement sets compete for a control, so this needs    *)
(* the better status to win whatever else the sets match.                  *)
EvidenceNeverLowers ==
    \A x \in report :
        LET baseline == BuildBaseline(x.seen)
            current == BuildBaseline(records)
            passes == PassesThreshold(records, x.policy)
            Alone(e) == \A other \in current.maturity : other.path = e.path => other.id = e.id
        IN /\ x.passed /\ ~passes => DiffControls(baseline, current) # {}
           /\ ~ \E e \in DiffMaturity(baseline, current) : Alone(e)
           /\ Latest(records) = Latest(x.seen) =>
                /\ DiffControls(baseline, current) = {}
                /\ x.passed => passes
                /\ \A r \in Sources(x.seen) :
                        EntryGaps(r, records) \subseteq EntryGaps(r, x.seen)

\* What a collector that follows the advice delivers: a linked record of the
\* type, complete for the requirement set, from a product the set accepts.
Collected(set, type) ==
    [id |-> 0, type |-> type, at |-> Latest(records), fields |-> set.fields,
     product |-> IF set.products = {} THEN "axym" ELSE CHOOSE p \in set.products : TRUE,
     says |-> {"chain", "owner", "policy", "approval", "tool"},
     oversight |-> FALSE, approved |-> "yes", reasons |-> {}]

(* The advice of `axym gaps` works: it never falls through to the advice   *)
(* without an object, and where it only asks for record types, one good    *)
(* record of each covers the control. Types that have evidence count as    *)
(* present although it may be old, invalid or incomplete in different ways.*)
GapsActionable ==
    records # {} =>
        LET results == Evaluate(records)
        IN \A f \in DOMAIN results : \A c \in DOMAIN results[f] :
            LET result == results[f][c]
                more == {Collected(result.set, t) : t \in MissingRequiredRecordTypes(result)}
            IN result.status # "covered" =>
                /\ Remediation(result) # "increase frequency"
                /\ Remediation(result) = "collect types" =>
                        EvaluateControl(c, records \cup more).status = "covered"

AllPass(results, policy) == ThresholdFailures(results, policy) = {}

FullCoverage == [override |-> {One}, global |-> {}, framework |-> <<>>]

Days == {r.at \div DayLength : r \in records}

\* The sum of what a function counts.
Altogether(count) == Cardinality(UNION {{d} \X (1..count[d]) : d \in DOMAIN count})

\* A complete bundle has grade A, no gap, and passes every threshold; grade A
\* leaves no gap and no weak identity; full coverage is met exactly without
\* gaps; the gaps are ranked 1 to their number.
SummariesAgree(results) ==
    LET summary == BuildCompliance(records)
        items == GapItems(results)
    IN /\ summary.complete => /\ summary.grade = "A" /\ items = {} /\ summary.missing = {}
                              /\ \A p \in Policies : AllPass(results, p)
       /\ summary.grade = "A" => items = {} /\ IdentityWeaknessCount(results) = 0
       /\ AllPass(results, FullCoverage) <=> items = {}
       /\ {GapRank(items, i) : i \in items} = 1..Cardinality(items)

\* The daily reviews together count the records and the weak identities of the
\* identity summary; a control blames an identity for a record in it, and
\* unapproved drift with a known target is in the privilege drift report.
IdentityAgrees(results) ==
    LET Review(d) == DailyReview(records, d)
        digest == IdentityDigest(records)
        drift == {r \in records : "drift" \in IdentityReasons(r)}
    IN /\ Altogether([d \in Days |-> Review(d).identity]) = digest.weak
       /\ Altogether([d \in Days |-> Review(d).grades["high"] + Review(d).grades["medium"]
                                       + Review(d).grades["low"]]) = digest.records
       /\ \A result \in AllResults(results) : \A reason \in result.weaknesses :
            \E r \in records : r.type \in result.types /\ reason \in IdentityReasons(r)
       /\ \A r \in drift : "target_id" \in DeriveIdentityView(r) =>
                            r \in UnapprovedFindings(records)

\* A verified authorization lists every proof record it names, enforcement is
\* proven only within scoped authority or without a policy digest, and a
\* profile that is not written hides nothing but the ownership class.
RegistersAgree ==
    LET profile == InsuranceEvidenceProfile(records)
    IN /\ \A r \in OfKind(records, Authorizations) :
            \A e \in Register(records, Authorizations) :
                e.id = r.id /\ e.status = "verified" => r.artifact.links.proofs \subseteq e.refs
       /\ profile.scoped_authority = "covered" => profile.proof_of_enforcement = "covered"
       /\ ~ProfileWritten(records) =>
            \A class \in DOMAIN profile \ {"ownership"} : profile[class] = "gap"

(* The views of one chain do not contradict one another: the compliance    *)
(* summary of a bundle, the grade, the gaps and the thresholds; the        *)
(* reviews, the identity summary and the controls; the registers and the   *)
(* profile. Each is computed on its own from the records.                  *)
ViewsAgree ==
    records # {} =>
        LET results == Evaluate(records)
        IN /\ SummariesAgree(results)
           /\ IdentityAgrees(results)
           /\ RegistersAgree
=============================================================================
