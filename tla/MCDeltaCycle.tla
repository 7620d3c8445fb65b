---------------------------- MODULE MCDeltaCycle ----------------------------
(***************************************************************************)
(* DeltaCycle for TLC.                                                     *)
(***************************************************************************)
EXTENDS DeltaCycle, TLC

CONSTANTS s1, s2, a1, a2

MCSymbols == {s1}
MCTwoSymbols == {s1, s2}
MCAccounts == {a1, a2}

(* Nothing in a safety property tells symbols or accounts apart.           *)
Alike == Permutations(MCTwoSymbols) \cup Permutations(MCAccounts)

(* The exchange as a first run of the bot finds it.                        *)
CleanInit == Init /\ held = {} /\ resting = {}

CleanSpec == CleanInit /\ [][Next]_vars /\ Fairness
=============================================================================
