SPECIFICATION AuditSpec
CONSTANTS
    Frameworks <- MCFrameworks
    Period <- MCPeriod
    DayLength = 2
    Evidence <- MCEvidence
    Policies <- MCPolicies
    MaxRecords = 4
INVARIANTS
    EvidenceNeverLowers
    GapsActionable
    ViewsAgree
