------------------------------- MODULE Sizing -------------------------------
(***************************************************************************)
(* The plan of a delta cycle: which account is the prime one, how much     *)
(* each account trades, how the basket splits that over its symbols, and   *)
(* the quantities that are ordered (src/lib/utils.py, src/strategy/        *)
(* trade.py).                                                              *)
(*                                                                         *)
(* Money is in cents and quantities in lots; a balance and a size asked    *)
(* for are whole cents.  Decimals are rounded half to even; a float, or a  *)
(* quotient of decimals cut off at 28 digits, that should lie half way     *)
(* between two units may be rounded to either.  The two sides are the      *)
(* lead's and the hedges': which of them buys does not matter here.        *)
(***************************************************************************)
EXTENDS Integers, FiniteSetsExt, Functions

CONSTANTS
  N,         (* accounts, in the order they are planned in                   *)
  K,         (* symbols of a basket                                          *)
  Leverage,
  MinTrade,  (* least size of a leg, in cents                                *)
  Balances,  (* balances an account may have, in cents                       *)
  Totals,    (* sizes asked for in dollars (trade_size_usd), in cents        *)
  Percents,  (* or in percent of the balances (trade_size_pct)               *)
  LotPrices  (* what a lot of a symbol may cost, in cents                    *)

ASSUME SizingAssumption ==
  /\ N \in Nat \ {0, 1}
  /\ K \in 1 .. 4
  /\ Leverage \in Nat \ {0}
  /\ MinTrade \in Nat
  /\ Balances \subseteq Nat
  /\ Totals \subseteq Nat
  /\ Percents \subseteq 1 .. 100
  /\ LotPrices \subseteq Nat \ {0}

VARIABLES
  stage,     (* "pick", "load", or how planning ended                        *)
  bals,      (* balance of each account                                      *)
  total,     (* size asked for                                               *)
  cand,      (* the account that find_safe_pair looks at as prime            *)
  prime,     (* the account it chose                                         *)
  sizes,     (* size of each account                                         *)
  loaded,    (* symbols whose quantities are known                           *)
  price,     (* price of a lot of each symbol                                *)
  qty        (* lots of each symbol on each account                          *)

sizingVars == <<stage, bals, total, cand, prime, sizes, loaded, price, qty>>

Accounts == 1 .. N
Symbols == 1 .. K
Hedges(p) == Accounts \ {p}

Abs(x) == IF x < 0 THEN -x ELSE x

-----------------------------------------------------------------------------
(* Rounding n / d to a whole number.                                       *)

HalfEven(n, d) ==
  LET q == n \div d
  IN  IF 2 * (n % d) < d \/ (2 * (n % d) = d /\ q % 2 = 0) THEN q ELSE q + 1

Rounded(n, d, up) ==
  LET q == n \div d
  IN  IF 2 * (n % d) < d \/ (2 * (n % d) = d /\ ~ up) THEN q ELSE q + 1

-----------------------------------------------------------------------------
(* strategy/cycle.py.                                                      *)

(* What a balance allows, with the share that the first account is meant   *)
(* to take, and the others, and a margin of 4 percent.                     *)
MaxTotal(a, pct) ==
  Leverage * bals[a] * 96 * pct * (IF a = 1 THEN 2 ELSE 2 * (N - 1))

(* calc_total_from_pct.                                                    *)
TotalsFrom(pct) ==
  {Rounded(Min({MaxTotal(a, pct) : a \in Accounts}), 10000, up) : up \in BOOLEAN}

-----------------------------------------------------------------------------
(* lib/utils.py.                                                           *)

(* Broken: the drift of the noise and the division stays.                  *)
PartsDrifting(units, hedges, noise) ==
  LET n == N - 1
  IN  [a \in hedges |-> units \div n + noise[a] - SumFunction(noise) \div n]

(* random_partition: near equal parts, the first makes up the sum.         *)
Parts(units, hedges, noise) ==
  LET n == N - 1
      values == [a \in hedges |-> units \div n + noise[a] - SumFunction(noise) \div n]
  IN  [values EXCEPT ![Min(hedges)] = @ + units - SumFunction(values)]

Noise(units, hedges) ==
  LET most == (units \div (N - 1)) \div 10 IN [hedges -> -most .. most]

(* Sizes when account p takes num / den, and the others share as much.     *)
Drawn(p, num, den) ==
  UNION {LET units == Rounded(num, den, up)
         IN  {[a \in Accounts |-> IF a = p THEN Rounded(num, den, upPrime)
                                           ELSE Parts(units, Hedges(p), noise)[a]] :
                upPrime \in BOOLEAN, noise \in Noise(units, Hedges(p))} :
         up \in BOOLEAN}

(* What a balance can carry, with the safety of nine tenths.               *)
Carries(a, cents) == 10 * cents <= 9 * Leverage * bals[a]

(* It carries half of the total.                                           *)
CanBePrime(a) == 9 * Leverage * bals[a] >= 5 * total

(* Broken: the hedges are not looked at.                                   *)
HedgesTrusted(p, drawn) == TRUE

HedgesCarry(p, drawn) == \A a \in Hedges(p) : Carries(a, drawn[a])

(* The account with the highest balance, the first of them.                *)
Richest == Min({a \in Accounts : \A b \in Accounts : bals[b] <= bals[a]})

-----------------------------------------------------------------------------
(* strategy/trade.py.                                                      *)

TotalSize == SumFunction(sizes)

(* calc_symbol_sizes: half of the total for the first half of the symbols, *)
(* which the lead account trades on one side, half for the others, which   *)
(* it trades on the other.                                                 *)
LeadSymbols == IF K = 1 THEN 1 ELSE K \div 2

TradeSize(s) ==
  CASE K = 1                     -> TotalSize
    [] K > 1 /\ s <= LeadSymbols -> HalfEven(TotalSize, 2 * LeadSymbols)
    [] OTHER                     -> HalfEven(TotalSize, 2 * (K - LeadSymbols))

LotsOf(s, a, up) == Rounded(sizes[a] * TradeSize(s), TotalSize * price'[s], up)

Imbalance(q) == q[prime] - SumFunctionOnSet(q, Hedges(prime))

(* The last leg of the larger side.                                        *)
LastLeg(q) == IF Imbalance(q) > 0 THEN prime ELSE Max(Hedges(prime))

(* Broken: the smaller side is reduced.                                    *)
BalancedWrongSide(q) ==
  LET last == IF Imbalance(q) < 0 THEN prime ELSE Max(Hedges(prime))
  IN  IF Abs(Imbalance(q)) >= q[last] THEN q
      ELSE [q EXCEPT ![last] = @ - Abs(Imbalance(q))]

(* Broken: the last leg takes the imbalance with the wrong sign.           *)
BalancedWrongSign(q) == [q EXCEPT ![Max(Hedges(prime))] = @ - Imbalance(q)]

(* load_qtys takes the imbalance from it, unless nothing would be left.    *)
Balanced(q) ==
  IF Abs(Imbalance(q)) >= q[LastLeg(q)] THEN q
  ELSE [q EXCEPT ![LastLeg(q)] = @ - Abs(Imbalance(q))]

(* check_min_sizes looks at the sizes, not at the quantities.              *)
BelowMinimum(s) == \E a \in Accounts : sizes[a] * TradeSize(s) < MinTrade * TotalSize

-----------------------------------------------------------------------------
SizingInit ==
  /\ stage = "pick"
  /\ bals \in [Accounts -> Balances]
  /\ total \in Totals \cup UNION {TotalsFrom(pct) : pct \in Percents}
  /\ cand = 1
  /\ prime = 1
  /\ sizes = [a \in Accounts |-> 0]
  /\ loaded = 0
  /\ price = [s \in Symbols |-> 1]
  /\ qty = [s \in Symbols |-> [a \in Accounts |-> 0]]

(* find_safe_pair, one round of its loop: half of the total for the        *)
(* candidate, if its balance and those of the others can carry the sizes.  *)
CandidatePoor ==
  /\ stage = "pick"
  /\ cand <= N
  /\ ~ CanBePrime(cand)
  /\ cand' = cand + 1
  /\ UNCHANGED <<stage, bals, total, prime, sizes, loaded, price, qty>>

CandidateTried ==
  /\ stage = "pick"
  /\ cand <= N
  /\ CanBePrime(cand)
  /\ \E drawn \in Drawn(cand, total, 2) :
       IF HedgesCarry(cand, drawn)
       THEN /\ stage' = "sized"
            /\ prime' = cand
            /\ sizes' = drawn
            /\ cand' = cand
       ELSE /\ cand' = cand + 1
            /\ UNCHANGED <<stage, prime, sizes>>
  /\ UNCHANGED <<bals, total, loaded, price, qty>>

(* After the loop: the richest account, with all it can carry.             *)
Fallback ==
  /\ stage = "pick"
  /\ cand = N + 1
  /\ \E drawn \in Drawn(Richest, 9 * Leverage * bals[Richest], 10) :
       IF HedgesCarry(Richest, drawn)
       THEN /\ stage' = "sized"
            /\ prime' = Richest
            /\ sizes' = drawn
       ELSE /\ stage' = "no pair"
            /\ UNCHANGED <<prime, sizes>>
  /\ UNCHANGED <<bals, total, cand, loaded, price, qty>>

PlanTrades ==
  /\ stage = "sized"
  /\ stage' = IF TotalSize <= 0 THEN "no pair" ELSE "load"
  /\ UNCHANGED <<bals, total, cand, prime, sizes, loaded, price, qty>>

(* load_qtys and check_min_sizes of the next symbol.                       *)
LoadQtys ==
  /\ stage = "load"
  /\ loaded < K
  /\ LET s == loaded + 1
     IN  /\ \E p \in LotPrices : price' = [price EXCEPT ![s] = p]
         /\ \E up \in [Accounts -> BOOLEAN] :
              qty' = [qty EXCEPT ![s] = Balanced([a \in Accounts |-> LotsOf(s, a, up[a])])]
         /\ stage' = IF BelowMinimum(s) THEN "too small" ELSE stage
         /\ loaded' = s
  /\ UNCHANGED <<bals, total, cand, prime, sizes>>

SizingNext == CandidatePoor \/ CandidateTried \/ Fallback \/ PlanTrades \/ LoadQtys

SizingSpec == SizingInit /\ [][SizingNext]_sizingVars

-----------------------------------------------------------------------------
(* The types.  A size below zero takes more than eleven hedges: the first  *)
(* of them is also what the noise and the division have left over.         *)
SizingTypeOK ==
  /\ stage \in {"pick", "sized", "load", "no pair", "too small"}
  /\ bals \in [Accounts -> Balances]
  /\ total \in Nat
  /\ cand \in 1 .. N + 1
  /\ prime \in Accounts
  /\ sizes \in [Accounts -> Int]
  /\ loaded \in 0 .. K
  /\ price \in [Symbols -> LotPrices \cup {1}]
  /\ qty \in [Symbols -> [Accounts -> Int]]
  /\ N <= 12 => \A a \in Accounts : sizes[a] >= 0 /\ \A s \in Symbols : qty[s][a] >= 0

(* Every account can carry its size, the prime one up to the half cent it   *)
(* is rounded by, whichever account was tried first and also when the      *)
(* fallback sizes by the richest (find_safe_pair).                         *)
SizesFit ==
  /\ \A a \in Hedges(prime) : Carries(a, sizes[a])
  /\ 10 * sizes[prime] <= 9 * Leverage * bals[prime] + 5

(* The hedges add up to the prime size to the cent, whatever the noise;    *)
(* only where the prime size is half way between two cents may round() and *)
(* quantize() disagree, by one.                                            *)
HalfWay(n, d) == 2 * (n % d) = d

HedgesMatchPrime ==
  Abs(sizes[prime] - SumFunctionOnSet(sizes, Hedges(prime)))
    <= IF HalfWay(total, 2) \/ HalfWay(9 * Leverage * bals[prime], 10) THEN 1 ELSE 0

(* load_qtys leaves a symbol off balance by half a lot per leg at most, and *)
(* what a cent buys, and only where a leg is that small; otherwise the     *)
(* symbol is neutral.                                                      *)
OffBalance(s) == Abs(Imbalance(qty[s]))

ImbalanceBounded ==
  \A s \in 1 .. loaded :
    OffBalance(s) # 0 =>
      /\ 2 * OffBalance(s) * price[s] <= N * price[s] + 2
      /\ \E a \in Accounts : qty[s][a] <= OffBalance(s)

(* Over a basket each account buys about as much as it sells: rounding     *)
(* leaves half a lot per symbol, balancing N half lots more, and the sizes *)
(* of the trades a cent each.                                              *)
SignedValue(s, a) == (IF s <= LeadSymbols THEN 1 ELSE -1) * qty[s][a] * price[s]

AccountsNetOut ==
  K > 1 /\ loaded = K =>
    \A a \in Accounts :
      2 * Abs(SumFunction([s \in Symbols |-> SignedValue(s, a)]))
        <= (N + 1) * SumFunction(price) + 4 * K

(* A basket is neutral as a whole, per symbol and per account, up to the   *)
(* lots it is rounded to.                                                  *)
BasketNeutral == ImbalanceBounded /\ AccountsNetOut
=============================================================================
