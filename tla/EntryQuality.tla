---------------------------- MODULE EntryQuality ----------------------------
(***************************************************************************)
(* evaluate_entry_quality (src/strategy/execution.py): what a basket would *)
(* pay to enter one market, from its order book.  Decimals are natural     *)
(* numbers of ticks and lots; an average price is a pair of naturals, so   *)
(* nothing is rounded here either.                                         *)
(***************************************************************************)
EXTENDS Naturals, Sequences, SequencesExt

(* A level of a book.                                                      *)
Level == [price : Nat \ {0}, size : Nat]

(* No average: the book is too thin, or the side is not traded.            *)
NoPrice == [paid |-> 0, lots |-> 0]

(* Eat into a level for what is still wanted.                              *)
Take(fill, level) ==
  LET take == IF level.size < fill.wanted THEN level.size ELSE fill.wanted IN
  [wanted |-> fill.wanted - take, paid |-> fill.paid + take * level.price]

(* The average price of qty lots taken from the levels in order, if they   *)
(* hold that many.                                                         *)
SimulateBookFill(levels, qty) ==
  LET fill == FoldLeft(Take, [wanted |-> qty, paid |-> 0], levels) IN
  IF qty > 0 /\ fill.wanted = 0 THEN [paid |-> fill.paid, lots |-> qty]
                                ELSE NoPrice

Distance(a, b) == IF a >= b THEN a - b ELSE b - a

(* The legs' lots on each side, and what they would cost now.              *)
EvaluateEntryQuality(book, bidQty, askQty) ==
  [bid |-> SimulateBookFill(book.asks, bidQty),
   ask |-> SimulateBookFill(book.bids, askQty)]

(* The spread is known when both sides have a price, and it is compared as *)
(* a percentage of the average selling price.                              *)
Acceptable(quality, maxPct) ==
  LET buy == quality.bid
      sell == quality.ask IN
  /\ buy # NoPrice
  /\ sell # NoPrice
  /\ 100 * Distance(sell.paid * buy.lots, buy.paid * sell.lots)
       <= maxPct * sell.paid * buy.lots
=============================================================================
