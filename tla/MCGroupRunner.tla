--------------------------- MODULE MCGroupRunner ---------------------------
(***************************************************************************)
(* GroupRunner for TLC: four accounts, traded as one group or in pairs.    *)
(***************************************************************************)
EXTENDS GroupRunner

CONSTANTS a1, a2, a3, a4

MCConfigured == <<a1, a2, a3, a4>>
MCOrders == {<<a1, a2, a3, a4>>, <<a3, a1, a2, a4>>}
MCConfig(size, regroup) ==
  [size |-> size, regroup |-> regroup, usd |-> TRUE, pct |-> FALSE, perTrade |-> 1, symbols |-> 1]

(* The last two are refused: groups of three, and no trade size.           *)
MCConfigs ==
  {MCConfig(0, TRUE), MCConfig(2, FALSE), MCConfig(2, TRUE), MCConfig(3, TRUE),
   [MCConfig(2, TRUE) EXCEPT !.usd = FALSE]}
=============================================================================
