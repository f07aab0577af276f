--------------------------- MODULE CollectRunMC ---------------------------
(* Three collectors: one repeats a candidate of another, one returns a     *)
(* malformed candidate, one returns nothing.                               *)
EXTENDS CollectRun

CONSTANTS a, b, bad

Returned == << <<a, bad>>, <<>>, <<b, a>> >>
=============================================================================
