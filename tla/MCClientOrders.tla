--------------------------- MODULE MCClientOrders ---------------------------
(***************************************************************************)
(* ClientOrders for TLC: two orders for the clients of which one order has *)
(* few states, the first of the two for the others.                        *)
(***************************************************************************)
EXTENDS ClientOrders

CONSTANTS o1, o2

MCOrders == {o1, o2}

MCPairs == {"hyperliquid", "omni", "pacifica"}

MCNext == Next /\ (client \notin MCPairs => truth'[o2] = NoOrder)

MCSpec == Init /\ [][MCNext]_vars /\ Fairness
=============================================================================
