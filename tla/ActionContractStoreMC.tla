----------------------- MODULE ActionContractStoreMC -----------------------
(* One proposal and one activation, by name.                               *)
EXTENDS ActionContractStore
CONSTANTS p1, proposal, activation, signed, unsigned, floor, context
=============================================================================
