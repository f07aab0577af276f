-------------------------- MODULE DerivedRegisters --------------------------
(***************************************************************************)
(* core/bundleartifacts, core/identitygovernance and core/review: the      *)
(* registers, coverage files and summaries derived from the records of the *)
(* chain for an audit bundle, and the review of one day. Pure definitions, *)
(* like those of Compliance.                                               *)
(*                                                                         *)
(* A record that carries a source artifact of Gait has `artifact`:         *)
(* [kind, bundle, schema, signature, policy, links, known, state, gaps],   *)
(* where links are the references it makes (proofs, traces, approvals,     *)
(* credentials, outcomes) and state what it says of its subject; `known`,  *)
(* of every record, are the references by which others may find it.        *)
(***************************************************************************)
EXTENDS Compliance

CONSTANT DayLength \* a day, on the scale of the timestamps

ASSUME DayLengthAssumption == DayLength \in Nat \ {0}

Authorizations == {"authorization_bundle", "authorization_profile"}
PostureKinds == {"credential_posture", "freeze_window", "kill_switch",
                 "enforcement_explain", "sandbox_policy", "trust_graduation"}

\* A record of an unknown artifact type, or of another product, has none.
Sources(records) ==
    {r \in records : /\ r.product = "gait"
                     /\ r.artifact.kind \in Authorizations \cup PostureKinds}

OfKind(records, kinds) == {r \in Sources(records) : r.artifact.kind \in kinds}

-----------------------------------------------------------------------------
(* linkedProofRefs: the records an artifact can be traced to, and a reason *)
(* for each sort of reference that leads nowhere. An artifact is known by  *)
(* the references it makes itself, so its own record may answer them.      *)
References == {"traces", "approvals", "credentials", "outcomes"}

Found(records, sort, wanted) == {r \in records : r.known[sort] \cap wanted # {}}

Wanted(r, sort) ==
    IF r.artifact.links[sort] = {} THEN {}
    ELSE r.artifact.links[sort] \cup (IF sort = "traces" THEN {r.artifact.trace} ELSE {})

LinkedProofRefs(r, records) ==
    UNION {
        {r},
        {o \in Sources(records) : o.artifact.bundle = r.artifact.bundle /\ r.artifact.bundle # ""},
        {o \in records : o.id \in r.artifact.links.proofs},
        UNION {Found(records, sort, Wanted(r, sort)) : sort \in References}}

GapReasons(r, records) ==
    {"proofs" : p \in r.artifact.links.proofs \ {o.id : o \in records}}
        \cup {sort \in References :
                /\ r.artifact.links[sort] # {}
                /\ Found(records, sort, Wanted(r, sort)) = {}}

-----------------------------------------------------------------------------
(* The status of an entry of each register.                                *)
AuthorizationStatus(r, records) ==
    IF ~r.artifact.schema THEN "schema_invalid"
    ELSE IF r.artifact.signature = "failed" THEN "signature_failed"
    ELSE IF "proofs" \in GapReasons(r, records) THEN "missing_link"
    ELSE IF GapReasons(r, records) # {} THEN "partial"
    ELSE "verified"

\* The state of a credential: the first thing it lacks, and its promises.
CredentialStatus(r, records) ==
    LET s == r.artifact.state
    IN IF s.lacks # "nothing" THEN s.lacks
       ELSE IF s.jit /\ s.blocked THEN "jit_verified"
       ELSE IF s.blocked THEN "standing_blocked"
       ELSE IF GapReasons(r, records) # {} THEN "missing_binding"
       ELSE "standing_blocked"

FreezeStatus(r) ==
    LET s == r.artifact.state
    IN IF s.stale \/ s.says = "stale" THEN "stale"
       ELSE IF s.says = "enforced" THEN "enforced"
       ELSE IF s.says \in {"bypassed", "bypassed_by_approval"} \/ s.approval
            THEN "bypassed_by_approval"
       ELSE IF s.says \in {"evaluated", "allow", "blocked"} THEN "evaluated"
       ELSE "missing"

KillSwitchStatus(r) ==
    LET s == r.artifact.state
    IN IF s.says \in {"stale", "expired"} THEN s.says
       ELSE IF s.dispatch THEN "blocked_dispatch"
       ELSE IF s.says = "active" THEN "active"
       ELSE "missing"

ExplainStatus(r, records) ==
    IF r.artifact.state.missing = {} /\ GapReasons(r, records) = {} THEN "verified" ELSE "partial"

SandboxStatus(r, records) ==
    IF GapReasons(r, records) \cup r.artifact.gaps # {} THEN "partial"
    ELSE IF ~r.artifact.state.described THEN "gap"
    ELSE "covered"

Stages == <<"observe", "dry_run", "read_only_allow", "approval_gated_write",
            "brokered_write", "blocked_destructive">>

\* An unknown stage ranks below the first.
StageRank(stage) ==
    IF \E i \in DOMAIN Stages : Stages[i] = stage
    THEN CHOOSE i \in DOMAIN Stages : Stages[i] = stage ELSE 0

MaturityDrift(r) ==
    LET s == r.artifact.state
    IN IF s.prior = "" THEN "introduced"
       ELSE IF StageRank(s.current) < StageRank(s.prior) THEN "regressed"
       ELSE IF StageRank(s.current) > StageRank(s.prior) THEN "advanced"
       ELSE "unchanged"

EntryStatus(r, records) ==
    CASE r.artifact.kind \in Authorizations -> AuthorizationStatus(r, records)
      [] r.artifact.kind = "credential_posture" -> CredentialStatus(r, records)
      [] r.artifact.kind = "freeze_window" -> FreezeStatus(r)
      [] r.artifact.kind = "kill_switch" -> KillSwitchStatus(r)
      [] r.artifact.kind = "enforcement_explain" -> ExplainStatus(r, records)
      [] r.artifact.kind = "sandbox_policy" -> SandboxStatus(r, records)
      [] OTHER -> MaturityDrift(r)

\* The gap reasons an entry lists.
EntryGaps(r, records) ==
    GapReasons(r, records)
        \cup (IF r.artifact.kind \in {"sandbox_policy", "trust_graduation"}
              THEN r.artifact.gaps ELSE {})
        \cup (IF /\ r.artifact.kind \in {"freeze_window", "kill_switch"}
                 /\ EntryStatus(r, records) = "missing"
              THEN {"state"} ELSE {})

\* One artifact file per kind; a file without entries is not written.
Register(records, kinds) == {[id |-> r.id, status |-> EntryStatus(r, records),
                              gaps |-> EntryGaps(r, records),
                              refs |-> {o.id : o \in LinkedProofRefs(r, records)}] :
                                r \in OfKind(records, kinds)}

-----------------------------------------------------------------------------
(* core/regress: the baseline that `axym regress init` writes, and what    *)
(* `axym regress run` reports against it. Both sides list the control      *)
(* statuses and the entries of the maturity file, sorted by path and, of   *)
(* one path, by identifiers, whose order is the records' here.             *)
MaturityBaseline(records) ==
    {[id |-> r.id, path |-> r.artifact.state.path, stage |-> r.artifact.state.current,
      gaps |-> EntryGaps(r, records)] : r \in OfKind(records, {"trust_graduation"})}

BuildBaseline(records) ==
    [controls |-> Evaluate(records), maturity |-> MaturityBaseline(records)]

\* The controls, each with its framework.
Controls == UNION {{f} \X Frameworks[f] : f \in DOMAIN Frameworks}

\* Mutant: only a control that has no evidence left is drift.
DriftToGap(baseline, current) ==
    {p \in Controls : /\ baseline.controls[p[1]][p[2]].status # "gap"
                      /\ current.controls[p[1]][p[2]].status = "gap"}

DiffControls(baseline, current) ==
    {p \in Controls : StatusRank(current.controls[p[1]][p[2]].status)
                         < StatusRank(baseline.controls[p[1]][p[2]].status)}

\* Every entry of the baseline is compared with the last one of its path.
DiffMaturity(baseline, current) ==
    {b \in baseline.maturity :
        LET ofPath == {e \in current.maturity : e.path = b.path}
        IN \A e \in ofPath :
              (\A later \in ofPath : later.id <= e.id) =>
                  \/ StageRank(e.stage) < StageRank(b.stage)
                  \/ Cardinality(e.gaps) > Cardinality(b.gaps)}

-----------------------------------------------------------------------------
(* The insurance evidence profile: one status for each evidence class.     *)
ClassStatus(exists, good) ==
    IF ~exists THEN "gap"
    ELSE IF ~good THEN "partial"
    ELSE "covered"

FromRegister(entries, good) == ClassStatus(entries # {}, entries \subseteq good)

HasWrkrEvidence(records) == \E r \in records : r.product = "wrkr"

PrivilegeDriftFindings(records) ==
    {r \in records : r.type = "scan_finding" /\ "target_id" \in DeriveIdentityView(r)}

OwnershipEntries(records) == {r \in records : "owner" \in DeriveIdentityView(r)}

InsuranceEvidenceProfile(records) ==
    LET authorizations == OfKind(records, Authorizations)
        WithStatus(allowed) == {r \in Sources(records) :
                                    EntryStatus(r, records) \in allowed}
        verified == WithStatus({"verified"})
        current == Sources(records) \ WithStatus({"stale", "expired", "missing"})
    IN [inventory |-> ClassStatus(HasWrkrEvidence(records), TRUE),
        ownership |-> ClassStatus(OwnershipEntries(records) # {}, TRUE),
        drift_tracking |-> ClassStatus(HasWrkrEvidence(records),
                                       PrivilegeDriftFindings(records) # {}),
        scoped_authority |->
            FromRegister(authorizations, {r \in verified : r.artifact.policy}),
        approval_gates |->
            FromRegister(authorizations,
                         {r \in authorizations : r.artifact.links.approvals # {}}),
        proof_of_enforcement |-> FromRegister(authorizations, verified),
        incident_reconstruction |->
            ClassStatus(/\ authorizations # {}
                        /\ OfKind(records, {"enforcement_explain"}) # {}, TRUE),
        kill_switch |-> FromRegister(OfKind(records, {"kill_switch"}), current),
        jit_credentials |->
            FromRegister(OfKind(records, {"credential_posture"}),
                         WithStatus({"jit_verified", "standing_blocked"})),
        freeze_windows |-> FromRegister(OfKind(records, {"freeze_window"}), current),
        sandboxing |->
            FromRegister(OfKind(records, {"sandbox_policy"}), WithStatus({"covered"}))]

\* The profile is left out of a bundle that has nothing to say in it.
ProfileWritten(records) == Sources(records) # {} \/ HasWrkrEvidence(records)

-----------------------------------------------------------------------------
(* identitygovernance.Build: the summary of identities in a bundle.        *)
Weak(r) == IdentityReasons(r) # {}

DelegatedChainExceptions(records) ==
    {r \in records : IdentityReasons(r) \ {"target", "drift"} # {}}

IdentityDigest(records) ==
    [records |-> Cardinality(records),
     weak |-> Cardinality({r \in records : Weak(r)}),
     findings |-> Cardinality(PrivilegeDriftFindings(records)),
     exceptions |-> Cardinality(DelegatedChainExceptions(records))]

\* A finding that does not say whether it was approved counts as unapproved.
UnapprovedFindings(records) == {r \in PrivilegeDriftFindings(records) : r.approved # "yes"}

-----------------------------------------------------------------------------
(* review.BuildFromRecords: the review of one day.                         *)
OnDay(records, day) == {r \in records : r.at \div DayLength = day}

ReasonClass ==
    [sod |-> "sod", freeze_window |-> "freeze", enrichment_lag |-> "enrichment",
     session_gap |-> "chain-session-gap", ticket_dlq |-> "attach", replay_failed |-> "replay"]

\* A decision, an attachment status or a replay status other than the good
\* one is an exception; so is an explicit "not approved".
ClassifyExceptions(r) ==
    UNION {
        {ReasonClass[code] : code \in r.reasons \cap DOMAIN ReasonClass},
        IF Weak(r) THEN {"identity"} ELSE {},
        IF r.type = "approval" /\ (r.outcome = "bad" \/ r.approved = "no")
        THEN {"approvals"} ELSE {},
        IF r.type = "ticket_attachment" /\ r.outcome = "bad" THEN {"attach"} ELSE {},
        IF r.type = "replay_certification" /\ r.outcome = "bad" THEN {"replay"} ELSE {}}

DeriveAuditability(r) ==
    LET classes == ClassifyExceptions(r)
    IN IF r.graded # "" THEN r.graded
       ELSE IF classes = {} THEN "high"
       ELSE IF classes \cap {"replay", "attach", "chain-session-gap", "identity"} # {} THEN "low"
       ELSE "medium"

DailyReview(records, day) ==
    LET target == OnDay(records, day)
        CountOfClass(class) == Cardinality({r \in target : class \in ClassifyExceptions(r)})
    IN [count |-> Cardinality(target),
        identity |-> CountOfClass("identity"),
        grades |-> [g \in {"high", "medium", "low"} |->
                        Cardinality({r \in target : DeriveAuditability(r) = g})],
        degraded |-> IF target = {} THEN {}
                     ELSE {"data_pipeline_run", "ticket_attachment", "replay_certification"}
                            \ {r.type : r \in target}]
=============================================================================
