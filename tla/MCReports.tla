----------------------------- MODULE MCReports -----------------------------
(* The values Reports is model-checked with.                               *)
EXTENDS Reports, TLC

(* Trades 1 and 2 are of one transaction.                                  *)
MCHashOf == <<"h1", "h1", "h2">>

(* Four ticks, in four ISO weeks and two years; weeks and periods of three *)
(* days begin on different days and a year of eleven has no whole number   *)
(* of them.  The days are the last ones of two periods and the first two   *)
(* of the next but one.                                                    *)
MCDayOf == [t \in 0..3 |-> <<19, 22, 26, 27>>[t + 1]]

MCDeal == <<[vol |-> 3, pnl |-> -2, fee |-> 1, fund |-> 1, tid |-> "t1"],
            [vol |-> 5, pnl |-> 4, fee |-> 2, fund |-> -3, tid |-> "t2"],
            [vol |-> 2, pnl |-> 0, fee |-> 1, fund |-> 2, tid |-> "t3"]>>

MCTypeOf == [k \in Exchanges |->
  CASE k = "zero1" -> <<"maker", "pnl", "funding">>
    [] k = "omni" -> <<"trade", "realized_pnl", "deposit">>
    [] OTHER -> <<"trade", "trade", "trade">>]

MCPoints == [acc \in {"mine", "hedge"} |->
  IF acc = "mine" THEN [d \in {20, 23} |-> d] ELSE [d \in {22} |-> 4]]

Perms == Permutations(Commands)

(* Where two commands are at work at once, two trades will do: Onyx has    *)
(* the same pages and keys, and all three.                                 *)
MCNext == Next /\ (kind \in Overlap => Len(stamp') <= 2)
MCSpec == Init /\ [][MCNext]_vars
=============================================================================
