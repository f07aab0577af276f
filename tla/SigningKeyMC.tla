--------------------------- MODULE SigningKeyMC ---------------------------
(* Two processes, by name.                                                 *)
EXTENDS SigningKey
CONSTANTS p1, p2
=============================================================================
