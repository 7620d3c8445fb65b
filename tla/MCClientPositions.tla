------------------------- MODULE MCClientPositions -------------------------
(***************************************************************************)
(* ClientPositions for TLC.                                                *)
(***************************************************************************)
EXTENDS ClientPositions

CONSTANTS a1, a2, s1, s2

MCAccounts == <<a1, a2>>

(* What the caller finds: a short of one lot or a long of the largest size *)
(* in one symbol, a long in the other, on the first account at most one    *)
(* order that may execute, two of these in all.  The cleanup has the first *)
(* account only.                                                           *)
MCInit ==
  /\ Init
  /\ pos[a1][s1] \in {-1, 0, MaxSize}
  /\ pos[a1][s2] \in {0, MaxSize}
  /\ pos[a2][s1] = 0
  /\ pos[a2][s2] \in {0, MaxSize}
  /\ Cardinality(resting[a1]) + Cardinality(late[a1]) <= 1
  /\ Cardinality({x \in AccountSet \X Symbols : pos[x[1]][x[2]] # 0})
       + Cardinality(resting[a1] \cup late[a1]) <= 2
  /\ resting[a2] = {} /\ late[a2] = {}
  /\ caller = "cleanup" => pos[a2][s2] = 0

MCSpec == MCInit /\ [][Next]_vars /\ WF_vars(Step)
=============================================================================
