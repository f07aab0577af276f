------------------------- MODULE OverrideHistoryMC -------------------------
(* Two exceptions, by name; neither is special.                            *)
EXTENDS OverrideHistory, TLC
CONSTANTS e1, e2
ExceptionSymmetry == Permutations(Exceptions)
=============================================================================
