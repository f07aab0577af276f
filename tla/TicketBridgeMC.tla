-------------------------- MODULE TicketBridgeMC --------------------------
(* Two calls for one change with different payloads.                       *)
EXTENDS TicketBridge, TLC
CONSTANTS c1, c2, change, first, second
OneChange   == [c \in Calls |-> change]
TwoPayloads == (c1 :> first) @@ (c2 :> second)
=============================================================================
