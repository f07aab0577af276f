------------------------------ MODULE BundleMC ------------------------------
(***************************************************************************)
(* A small instance of Bundle for TLC: one process that appends a          *)
(* collected record and a lifecycle record, and a store without Action     *)
(* Contracts or with a proposal and an activation.                         *)
(***************************************************************************)
EXTENDS Bundle, TLC

CONSTANTS w1, s1, emitted, lifecycle, keyE, keyL

OneProcess  == [w \in Workers |-> s1]
DerivedKeys == (emitted :> keyE) @@ (lifecycle :> keyL)

NoneOrBoth == {[proposal |-> FALSE, activation |-> 0], [proposal |-> TRUE, activation |-> 1]}
=============================================================================
