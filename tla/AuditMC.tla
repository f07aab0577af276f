------------------------------ MODULE AuditMC ------------------------------
(* Two frameworks. One control has a legacy requirement and no window; one *)
(* has two requirement sets for two products that compete, with a window;  *)
(* one asks for two types at once. The records differ from a good one in   *)
(* one respect each: product, age, fields, identity, validity, approval.   *)
EXTENDS Audit, TLC

Set(products, types, fields, frequency, all) ==
    [products |-> products, types |-> types, fields |-> fields,
     frequency |-> frequency, all |-> all]

MCPeriod == [always |-> 0, daily |-> 2]

MCFrameworks ==
    <<{[id |-> 1, sets |-> <<Set({}, {"decision", "approval"}, {"event", "owner"}, "always", FALSE)>>],
       [id |-> 2, sets |-> <<Set({"wrkr"}, {"scan_finding", "decision"}, {"event"}, "daily", TRUE),
                             Set({"gait"}, {"approval"}, {"event", "scope"}, "daily", TRUE)>>]},
      {[id |-> 1, sets |-> <<Set({}, {"scan_finding"}, {}, "daily", TRUE)>>]}>>

NoRefs == [proofs |-> {}, traces |-> {}, approvals |-> {}, credentials |-> {}, outcomes |-> {}]
NoArtifact == [kind |-> "none"]
AllOfIt == {"actor", "owner", "policy", "approval", "tool"}

Good == [id |-> 0, type |-> "decision", product |-> "gait", at |-> 2,
         fields |-> {"event", "scope"}, says |-> AllOfIt, oversight |-> FALSE,
         approved |-> "unsaid", reasons |-> {}, outcome |-> "good", graded |-> "",
         artifact |-> NoArtifact, known |-> NoRefs]

\* Of the gait artifacts: one waits for an approval, one for a proof record.
Bundle == [kind |-> "authorization_bundle", bundle |-> "b", schema |-> TRUE,
           signature |-> "valid", policy |-> TRUE, trace |-> "t", gaps |-> {},
           state |-> "none",
           links |-> [NoRefs EXCEPT !.proofs = {1}, !.traces = {"t"}, !.outcomes = {"o"}]]
Credential == [Bundle EXCEPT !.kind = "credential_posture",
                    !.links = [NoRefs EXCEPT !.credentials = {"c"}],
                    !.state = [lacks |-> "nothing", jit |-> FALSE, blocked |-> FALSE]]
Graduation == [Bundle EXCEPT !.kind = "trust_graduation",
                    !.state = [path |-> "p", prior |-> "", current |-> "brokered_write"]]

MCEvidence ==
    {[Good EXCEPT !.id = 1, !.known = [NoRefs EXCEPT !.outcomes = {"o"}]],
     [Good EXCEPT !.id = 2, !.product = "wrkr"],
     [Good EXCEPT !.id = 3, !.at = 6],
     [Good EXCEPT !.id = 4, !.type = "approval"],
     [Good EXCEPT !.id = 5, !.type = "approval", !.fields = {"event"}, !.approved = "no"],
     [Good EXCEPT !.id = 6, !.type = "approval", !.says = {"agent", "reviewer"},
                  !.at = 3],
     [Good EXCEPT !.id = 7, !.type = "scan_finding", !.product = "wrkr", !.at = 3],
     [Good EXCEPT !.id = 8, !.type = "scan_finding", !.product = "wrkr",
                  !.says = {"actor", "owner", "policy", "privilege"}, !.approved = "no"],
     [Good EXCEPT !.id = 9, !.type = "scan_finding", !.product = "wrkr",
                  !.reasons = {"schema_error"}, !.fields = {}],
     [Good EXCEPT !.id = 10, !.fields = {}, !.says = {}, !.reasons = {"freeze_window"}],
     [Good EXCEPT !.id = 11, !.artifact = Bundle,
                  !.known = [NoRefs EXCEPT !.traces = {"t"}]],
     [Good EXCEPT !.id = 12, !.type = "permission_check", !.artifact = Credential,
                  !.known = [NoRefs EXCEPT !.credentials = {"c"}]],
     [Good EXCEPT !.id = 13, !.type = "data_pipeline_run", !.at = 1, !.oversight = TRUE,
                  !.says = AllOfIt \ {"approval"}],
     [Good EXCEPT !.id = 14, !.type = "approval", !.fields = {}],
     [Good EXCEPT !.id = 15, !.artifact = Graduation],
     [Good EXCEPT !.id = 16, !.artifact = [Graduation EXCEPT !.bundle = "c",
                                                !.state.current = "observe"]]}

NoThreshold == [override |-> {}, global |-> {}, framework |-> <<>>]

MCPolicies ==
    {NoThreshold,
     [NoThreshold EXCEPT !.global = {5000}, !.framework = <<12000>>],
     [NoThreshold EXCEPT !.override = {3333}]}
=============================================================================
