--------------------------- MODULE WrkrIngestMC ---------------------------
(* Runs that observe overlapping privileges: "admin" is never approved and *)
(* every run sees it, each run also sees one that is its own.              *)
EXTENDS WrkrIngest, TLC

CONSTANTS p1, p2, p3

Observed(n, v, a) == [id |-> n, privilege |-> v, approved |-> a]

Batches ==
    (p1 :> <<Observed(1, "admin", FALSE), Observed(2, "read", TRUE)>>) @@
    (p2 :> <<Observed(3, "exec", FALSE), Observed(4, "admin", FALSE)>>) @@
    (p3 :> <<Observed(5, "write", FALSE)>>)
=============================================================================
