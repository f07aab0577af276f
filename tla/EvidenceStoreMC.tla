-------------------------- MODULE EvidenceStoreMC --------------------------
(***************************************************************************)
(* Small instances of EvidenceStore for TLC: two workers, in one process   *)
(* or in two, and records of four kinds: a collected record, one presented *)
(* by "record add" under a key of its own, a verified lifecycle record and *)
(* one that does not validate.                                             *)
(***************************************************************************)
EXTENDS EvidenceStore, TLC

CONSTANTS w1, w2, s1, s2, emitted, manual, lifecycle, broken,
          keyE, keyM, keyL, added

OneProcess   == [w \in Workers |-> s1]
TwoProcesses == (w1 :> s1) @@ (w2 :> s2)

DerivedKeys == [r \in Records |-> CASE r = emitted -> keyE
                                    [] r = manual -> keyM
                                    [] r = lifecycle -> keyL
                                    [] OTHER -> keyE]
\* "record add" passes "record-add:" and the record's ID.
CallerKeys == [r \in Records |-> IF r = manual THEN added ELSE DerivedKeys[r]]
=============================================================================
