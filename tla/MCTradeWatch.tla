---------------------------- MODULE MCTradeWatch ----------------------------
(***************************************************************************)
(* TradeWatch for TLC: two markets traded by two accounts.                 *)
(***************************************************************************)
EXTENDS TradeWatch

CONSTANTS btc, eth, a1, a2

MCSymbols == {btc, eth}
MCAccounts == {a1, a2}
Alike == Permutations(MCSymbols)
MCQty == [a \in MCAccounts |-> 2]
MCBuys == {a1}

(* One level deep and tight, two levels and wide, and too thin for a leg.  *)
MCBooks == {
  [bids |-> <<[price |-> 100, size |-> 2]>>, asks |-> <<[price |-> 100, size |-> 3]>>],
  [bids |-> <<[price |-> 100, size |-> 2]>>,
   asks |-> <<[price |-> 100, size |-> 1], [price |-> 110, size |-> 1]>>],
  [bids |-> <<>>, asks |-> <<[price |-> 100, size |-> 1]>>]}
=============================================================================
