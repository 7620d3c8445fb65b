----------------------------- MODULE Trade_proofs -----------------------------
(***************************************************************************)
(* Proofs about the sizes of a trade and about the order that fills each   *)
(* of them.                                                                *)
(*                                                                         *)
(* Sizing, for any number of accounts, any balances, prices and sizes      *)
(* asked for.  No account is planned more than its balance can carry: the  *)
(* hedges are compared with their balances as they were drawn, the prime   *)
(* size is half a total that its balance carries or a share of the balance *)
(* itself, and rounding adds half a cent at most.  The hedges add up to    *)
(* the prime size, and symbols and accounts balance, by the facts about    *)
(* sums in Sums_proofs.                                                    *)
(*                                                                         *)
(* LimitOrder, for every quantity, timeout, retry budget and request       *)
(* latency.  The inductive invariant is Inv: the types, the accounting of  *)
(* quantities (Books) and the accounting of time (Clocks).                 *)
(***************************************************************************)
EXTENDS Sizing, LimitOrder, Sums_proofs

-----------------------------------------------------------------------------
(* Choosing and rounding.                                                  *)

(* A set of natural numbers has a least element, which Min chooses.        *)
LEMMA MinOfNat ==
  ASSUME NEW S, S \subseteq Nat, S # {}
  PROVE  Min(S) \in S /\ \A x \in S : Min(S) <= x
<1>1. PICK x \in S : \A y \in S : ~ (<<y, x>> \in OpToRel(<, Nat))
  BY NatLessThanWellFounded, WFMin, Zenon
<1>2. \A y \in S : ~ (y < x)
  BY <1>1, Zenon DEF OpToRel
<1>3. \A y \in S : x <= y
  BY <1>2
<1> QED
  BY <1>3 DEF Min

(* The quotient of natural numbers is one.                                 *)
LEMMA QuotientIsNat ==
  ASSUME NEW n \in Nat, NEW d \in Int, d > 0
  PROVE  n \div d \in Nat
<1>1. n \div d \in Int /\ n = d * (n \div d) + (n % d) /\ n % d < d /\ n % d \in Int
  BY Division
<1>2. d * (n \div d) > -d /\ d * (n \div d) \in Int
  BY <1>1, Sign
<1> QED BY <1>1, <1>2, Sign

(* Rounding to the nearest moves a number by half a unit at most.          *)
LEMMA RoundedNear ==
  ASSUME NEW n \in Int, NEW d \in Int, d > 0, NEW up
  PROVE  /\ Rounded(n, d, up) \in Int
         /\ 2 * (d * Rounded(n, d, up)) <= 2 * n + d
         /\ 2 * n - d <= 2 * (d * Rounded(n, d, up))
         /\ n >= 0 => Rounded(n, d, up) >= 0
<1> DEFINE q == n \div d
           r == n % d
<1>1. q \in Int /\ r \in Int /\ 0 <= r /\ r < d /\ n = d * q + r
  BY Division
<1>2. d * q \in Int /\ d * (q + 1) = d * q + d
  BY <1>1, Sign, OneMultipleMore
<1>3. n >= 0 => q >= 0
  BY QuotientIsNat
<1>4. \/ Rounded(n, d, up) = q /\ 2 * r <= d
      \/ Rounded(n, d, up) = q + 1 /\ 2 * r >= d
  BY <1>1 DEF Rounded
<1> HIDE DEF q, r
<1>5. CASE Rounded(n, d, up) = q /\ 2 * r <= d
  BY <1>1, <1>2, <1>3, <1>5
<1>6. CASE Rounded(n, d, up) = q + 1 /\ 2 * r >= d
  BY <1>1, <1>2, <1>3, <1>6
<1> QED BY <1>4, <1>5, <1>6

(* Two roundings agree unless the number is half way.                      *)
LEMMA RoundedTwice ==
  ASSUME NEW n \in Int, NEW d \in Int, d > 0, NEW up, NEW upToo
  PROVE  /\ Rounded(n, d, up) - Rounded(n, d, upToo) <= 1
         /\ ~ HalfWay(n, d) => Rounded(n, d, up) = Rounded(n, d, upToo)
<1>1. n \div d \in Int /\ n % d \in Int
  BY Division
<1> QED BY <1>1 DEF Rounded, HalfWay

(* HalfEven is one of the roundings.                                       *)
LEMMA HalfEvenIs ==
  ASSUME NEW n \in Int, NEW d \in Int, d > 0
  PROVE  \E up \in BOOLEAN : HalfEven(n, d) = Rounded(n, d, up)
<1>1. HalfEven(n, d) = Rounded(n, d, (n \div d) % 2 # 0)
  BY DEF HalfEven, Rounded
<1> QED BY <1>1

(* By two, and by ten.                                                     *)
LEMMA RoundedToNearest ==
  ASSUME NEW n \in Nat, NEW up \in BOOLEAN
  PROVE  /\ Rounded(n, 2, up) \in Nat /\ 2 * Rounded(n, 2, up) <= n + 1
         /\ Rounded(n, 10, up) \in Nat /\ 10 * Rounded(n, 10, up) <= n + 5
  BY DEF Rounded

(* Some account is the richest.                                            *)
LEMMA RichestExists ==
  ASSUME bals \in [Accounts -> Nat]
  PROVE  Richest \in Accounts
<1> DEFINE Best(n) == \E a \in 1 .. n : \A b \in 1 .. n : bals[b] <= bals[a]
           Bad == {n \in Accounts : ~ Best(n)}
<1>1. N \in Nat /\ N >= 2 /\ Accounts \subseteq Nat
  BY SizingAssumption DEF Accounts
<1>2. Bad = {}
  <2> SUFFICES ASSUME Bad # {} PROVE FALSE
    OBVIOUS
  <2>1. PICK n \in Bad : \A m \in Bad : n <= m
    <3>1. Bad \subseteq Nat
      BY <1>1
    <3> QED
      BY <3>1, MinOfNat, Zenon
  <2>2. n \in 1 .. N /\ n - 1 \notin Bad
    <3>1. n \in 1 .. N
      BY DEF Accounts
    <3>2. ~ (n <= n - 1)
      BY <3>1, <1>1
    <3> HIDE DEF Bad
    <3> QED
      BY <3>1, <3>2, <2>1
  <2>3. n # 1
    <3>1. bals[1] <= bals[1] /\ 1 .. 1 = {1}
      BY <1>1 DEF Accounts
    <3> QED
      BY <3>1, <2>1
  <2>4. PICK a \in 1 .. n - 1 : \A b \in 1 .. n - 1 : bals[b] <= bals[a]
    BY <2>2, <2>3, <1>1 DEF Accounts
  <2>5. \A b \in 1 .. n : b \in Accounts /\ bals[b] \in Nat /\ (b = n \/ b \in 1 .. n - 1)
    BY <2>2, <1>1 DEF Accounts
  <2>6. CASE bals[n] <= bals[a]
    <3>1. \A b \in 1 .. n : bals[b] <= bals[a]
      BY <2>4, <2>5, <2>6
    <3> QED
      BY <3>1, <2>1, <2>2
  <2>7. CASE bals[a] <= bals[n]
    <3>1. \A b \in 1 .. n : bals[b] <= bals[n]
      BY <2>4, <2>5, <2>7, <2>2
    <3> QED
      BY <3>1, <2>1, <2>2
  <2> QED
    BY <2>6, <2>7, <2>5, <2>4, <2>2
<1> DEFINE Top == {a \in Accounts : \A b \in Accounts : bals[b] <= bals[a]}
<1>3. Best(N)
  <2>1. N \in Accounts
    BY <1>1 DEF Accounts
  <2>2. N \notin Bad
    <3> HIDE DEF Bad
    <3> QED
      BY <1>2
  <2> HIDE DEF Best
  <2> QED
    BY <2>1, <2>2
<1>4. Top # {} /\ Top \subseteq Nat
  BY <1>3, <1>1 DEF Accounts
<1>5. Min(Top) \in Top
  <2> HIDE DEF Top
  <2> QED
    BY <1>4, MinOfNat
<1> QED
  BY <1>5 DEF Richest

(* A size computed from the balances is a natural number.                  *)
LEMMA TotalsAreNat ==
  ASSUME bals \in [Accounts -> Nat], NEW pct \in Percents
  PROVE  TotalsFrom(pct) \subseteq Nat
<1> DEFINE S == {MaxTotal(a, pct) : a \in Accounts}
<1>0. N \in Nat /\ N >= 2 /\ Leverage \in Nat /\ pct \in Nat
  BY SizingAssumption
<1>1. ASSUME NEW a \in Accounts PROVE MaxTotal(a, pct) \in Nat
  <2>1. bals[a] \in Nat
    OBVIOUS
  <2>2. \A x, y \in Nat : x * y \in Nat
    OBVIOUS
  <2>3. Leverage * bals[a] * 96 * pct \in Nat
    BY <2>1, <2>2, <1>0
  <2>4. 2 * (N - 1) \in Nat
    BY <1>0
  <2> QED
    BY <2>2, <2>3, <2>4 DEF MaxTotal
<1>2. S \subseteq Nat /\ S # {}
  <2>1. 1 \in Accounts
    BY <1>0 DEF Accounts
  <2> QED
    BY <1>1, <2>1
<1>3. Min(S) \in Nat
  <2> HIDE DEF S
  <2> QED
    BY <1>2, MinOfNat
<1>4. \A n \in Nat, up \in BOOLEAN : Rounded(n, 10000, up) \in Nat
  BY DEF Rounded
<1> QED
  BY <1>3, <1>4 DEF TotalsFrom

-----------------------------------------------------------------------------
(* What the argument needs of the types.                                   *)
Known ==
  /\ bals \in [Accounts -> Nat]
  /\ total \in Nat
  /\ cand \in Nat \ {0}
  /\ prime \in Accounts

IInv == Known /\ SizesFit

(* The products of the guards are natural numbers.                         *)
LEMMA LimitIsNat ==
  ASSUME Known, NEW a \in Accounts
  PROVE  9 * Leverage * bals[a] \in Nat
<1>1. Leverage \in Nat /\ bals[a] \in Nat
  BY SizingAssumption DEF Known
<1>2. \A x, y \in Nat : x * y \in Nat
  OBVIOUS
<1> QED
  BY <1>1, <1>2

(* Sizes that are drawn for a prime account, and that the hedges carry.    *)
LEMMA DrawnFits ==
  ASSUME NEW p \in Accounts, NEW num \in Nat, NEW den \in {2, 10},
         NEW drawn \in Drawn(p, num, den), HedgesCarry(p, drawn),
         num * 10 <= 9 * Leverage * bals[p] * den, Known
  PROVE  /\ \A a \in Hedges(p) : Carries(a, drawn[a])
         /\ 10 * drawn[p] <= 9 * Leverage * bals[p] + 5
<1>1. PICK up \in BOOLEAN : drawn[p] = Rounded(num, den, up)
  BY DEF Drawn
<1>2. 9 * Leverage * bals[p] \in Nat
  BY LimitIsNat
<1> DEFINE limit == 9 * Leverage * bals[p]
<1>3. limit \in Nat /\ num * 10 <= limit * den
  BY <1>2
<1>4. 10 * drawn[p] <= limit + 5
  <2> HIDE DEF limit
  <2>1. CASE den = 2
    BY <2>1, <1>1, <1>3, RoundedToNearest
  <2>2. CASE den = 10
    BY <2>2, <1>1, <1>3, RoundedToNearest
  <2> QED
    BY <2>1, <2>2
<1> QED
  BY <1>4 DEF HedgesCarry

(* Every account can carry its size (SizesFit of find_safe_pair).          *)
THEOREM SizesAreCarried == SizingSpec => []SizesFit
<1>1. SizingInit => IInv
  <2> SUFFICES ASSUME SizingInit PROVE IInv
    OBVIOUS
  <2>1. bals \in [Accounts -> Nat]
    BY SizingAssumption DEF SizingInit
  <2>2. total \in Nat
    BY <2>1, TotalsAreNat, SizingAssumption DEF SizingInit
  <2>3. Known
    BY <2>1, <2>2, SizingAssumption DEF SizingInit, Known, Accounts
  <2>4. \A a \in Accounts : sizes[a] = 0 /\ 9 * Leverage * bals[a] \in Nat
    BY <2>3, LimitIsNat DEF SizingInit
  <2>5. SizesFit
    BY <2>4, <2>3 DEF SizesFit, Carries, Hedges, Known
  <2> QED
    BY <2>3, <2>5 DEF IInv
<1>2. IInv /\ [SizingNext]_sizingVars => IInv'
  <2> SUFFICES ASSUME IInv, [SizingNext]_sizingVars PROVE IInv'
    OBVIOUS
  <2> USE DEF IInv
  <2>1. CASE CandidatePoor
    BY <2>1 DEF CandidatePoor, Known, SizesFit, Hedges, Carries
  <2>2. CASE CandidateTried
    <3>1. PICK drawn \in Drawn(cand, total, 2) :
            IF HedgesCarry(cand, drawn)
            THEN stage' = "sized" /\ prime' = cand /\ sizes' = drawn /\ cand' = cand
            ELSE cand' = cand + 1 /\ UNCHANGED <<stage, prime, sizes>>
      BY <2>2 DEF CandidateTried
    <3>2. UNCHANGED <<bals, total>> /\ cand \in Accounts
      BY <2>2, SizingAssumption DEF CandidateTried, Accounts, Known
    <3>3. CASE HedgesCarry(cand, drawn)
      <4>1. 9 * Leverage * bals[cand] \in Nat /\ 9 * Leverage * bals[cand] >= 5 * total
        BY <2>2, <3>2, LimitIsNat DEF CandidateTried, CanBePrime
      <4>2. total * 10 <= 9 * Leverage * bals[cand] * 2
        <5> DEFINE limit == 9 * Leverage * bals[cand]
        <5>1. limit \in Nat /\ limit >= 5 * total /\ total \in Nat
          BY <4>1 DEF Known
        <5>2. total * 10 <= limit * 2
          <6> HIDE DEF limit
          <6> QED
            BY <5>1
        <5> QED
          BY <5>2
      <4>3. /\ \A a \in Hedges(cand) : Carries(a, drawn[a])
            /\ 10 * drawn[cand] <= 9 * Leverage * bals[cand] + 5
        BY <3>2, <3>3, <4>2, DrawnFits DEF Known
      <4> QED
        BY <3>1, <3>2, <3>3, <4>3 DEF Known, SizesFit, Hedges, Carries
    <3>4. CASE ~ HedgesCarry(cand, drawn)
      BY <3>1, <3>2, <3>4 DEF Known, SizesFit, Hedges, Carries
    <3> QED
      BY <3>3, <3>4
  <2>3. CASE Fallback
    <3> DEFINE p == Richest
    <3>1. PICK drawn \in Drawn(p, 9 * Leverage * bals[p], 10) :
            IF HedgesCarry(p, drawn)
            THEN stage' = "sized" /\ prime' = p /\ sizes' = drawn
            ELSE stage' = "no pair" /\ UNCHANGED <<prime, sizes>>
      BY <2>3 DEF Fallback
    <3>2. UNCHANGED <<bals, total, cand>> /\ p \in Accounts
      BY <2>3, RichestExists DEF Fallback, Known
    <3> HIDE DEF p
    <3>3. CASE HedgesCarry(p, drawn)
      <4>1. 9 * Leverage * bals[p] \in Nat
        BY <3>2, LimitIsNat
      <4>2. (9 * Leverage * bals[p]) * 10 <= 9 * Leverage * bals[p] * 10
        BY <4>1
      <4>3. /\ \A a \in Hedges(p) : Carries(a, drawn[a])
            /\ 10 * drawn[p] <= 9 * Leverage * bals[p] + 5
        BY <3>2, <3>3, <4>1, <4>2, DrawnFits
      <4> QED
        BY <3>1, <3>2, <3>3, <4>3 DEF Known, SizesFit, Hedges, Carries
    <3>4. CASE ~ HedgesCarry(p, drawn)
      BY <3>1, <3>2, <3>4 DEF Known, SizesFit, Hedges, Carries
    <3> QED
      BY <3>3, <3>4
  <2>4. CASE PlanTrades
    BY <2>4 DEF PlanTrades, Known, SizesFit, Hedges, Carries
  <2>5. CASE LoadQtys
    BY <2>5 DEF LoadQtys, Known, SizesFit, Hedges, Carries
  <2>6. CASE UNCHANGED sizingVars
    BY <2>6 DEF sizingVars, Known, SizesFit, Hedges, Carries
  <2> QED
    BY <2>1, <2>2, <2>3, <2>4, <2>5, <2>6 DEF SizingNext
<1>3. IInv => SizesFit
  BY DEF IInv
<1> QED
  BY <1>1, <1>2, <1>3, PTL DEF SizingSpec

-----------------------------------------------------------------------------
(* The hedges and their shares.                                            *)

(* A set of accounts has a last one, which Max chooses.                    *)
LEMMA MaxOfAccounts ==
  ASSUME NEW S, S \subseteq Accounts, S # {}
  PROVE  Max(S) \in S /\ \A x \in S : x <= Max(S)
<1> DEFINE Mirror == {N - x : x \in S}
<1>1. N \in Nat /\ \A x \in S : x \in Nat /\ N - x \in Nat
  BY SizingAssumption DEF Accounts
<1>2. Mirror \subseteq Nat /\ Mirror # {}
  BY <1>1
<1>3. PICK y \in Mirror : \A z \in Mirror : y <= z
  <2> HIDE DEF Mirror
  <2> QED BY <1>2, MinOfNat
<1>4. PICK x \in S : y = N - x
  OBVIOUS
<1>5. \A z \in S : z <= x
  <2> TAKE z \in S
  <2>1. N - x <= N - z
    BY <1>3, <1>4
  <2> QED BY <2>1, <1>1
<1>6. \E w \in S : \A z \in S : w >= z
  BY <1>5, <1>1
<1> QED BY <1>6, <1>1 DEF Max

LEMMA HedgesKnown ==
  ASSUME NEW p \in Accounts
  PROVE  /\ N - 1 \in Nat /\ N - 1 > 0
         /\ IsFiniteSet(Hedges(p)) /\ Cardinality(Hedges(p)) = N - 1
         /\ Min(Hedges(p)) \in Hedges(p) /\ Max(Hedges(p)) \in Hedges(p)
<1>1. N \in Nat /\ N >= 2
  BY SizingAssumption
<1>2. IsFiniteSet(Accounts) /\ Cardinality(Accounts) = N
  BY <1>1, FS_Interval DEF Accounts
<1>3. IsFiniteSet(Hedges(p)) /\ Cardinality(Hedges(p)) = N - 1
  BY <1>2, FS_RemoveElement DEF Hedges
<1>4. Hedges(p) \subseteq Accounts /\ Hedges(p) \subseteq Nat /\ Hedges(p) # {}
  <2>1. 1 \in Accounts /\ 2 \in Accounts /\ Accounts \subseteq Nat
    BY <1>1 DEF Accounts
  <2> QED BY <2>1 DEF Hedges
<1> QED BY <1>1, <1>3, <1>4, MinOfNat, MaxOfAccounts

(* The parts of random_partition are integers that add up to the whole.    *)
LEMMA PartsAddUp ==
  ASSUME NEW p \in Accounts, NEW units \in Int, NEW noise \in [Hedges(p) -> Int]
  PROVE  /\ Parts(units, Hedges(p), noise) \in [Hedges(p) -> Int]
         /\ SumFunctionOnSet(Parts(units, Hedges(p), noise), Hedges(p)) = units
<1> DEFINE H == Hedges(p)
           n == N - 1
           values == [a \in H |-> units \div n + noise[a] - SumFunction(noise) \div n]
           drift == units - SumFunction(values)
<1>1. n \in Int /\ n > 0 /\ IsFiniteSet(H) /\ Min(H) \in H
  BY HedgesKnown
<1>2. units \div n \in Int /\ SumFunction(noise) \in Int
  <2>1. SumFunction(noise) = SumFunctionOnSet(noise, H)
    BY DEF SumFunction
  <2>2. SumFunctionOnSet(noise, H) \in Int
    BY <1>1, SumIsInt
  <2> QED BY <1>1, <2>1, <2>2, Division
<1>3. SumFunction(noise) \div n \in Int
  BY <1>1, <1>2, Division
<1>4. values \in [H -> Int]
  BY <1>2, <1>3
<1> HIDE DEF values
<1>5. SumFunction(values) = SumFunctionOnSet(values, H) /\ SumFunctionOnSet(values, H) \in Int
  <2>1. SumFunctionOnSet(values, H) \in Int
    BY <1>1, <1>4, SumIsInt
  <2>2. DOMAIN values = H
    BY <1>4
  <2> QED BY <2>1, <2>2 DEF SumFunction
<1>6. Parts(units, H, noise) = [values EXCEPT ![Min(H)] = values[Min(H)] + units - SumFunction(values)]
  BY DEF Parts, values
<1>7. values[Min(H)] \in Int /\ values[Min(H)] + units - SumFunction(values) \in Int
  BY <1>1, <1>4, <1>5
<1>8. Parts(units, H, noise) \in [H -> Int]
  BY <1>4, <1>6, <1>7
<1> DEFINE parts == Parts(units, H, noise)
<1>9. /\ parts[Min(H)] = values[Min(H)] + units - SumFunction(values)
      /\ \A x \in H \ {Min(H)} : values[x] = parts[x]
      /\ \A x \in H : values[x] \in Int /\ parts[x] \in Int
  BY <1>1, <1>4, <1>6, <1>8
<1> HIDE DEF H, parts
<1>10. SumFunctionOnSet(parts, H) = SumFunctionOnSet(values, H) - values[Min(H)] + parts[Min(H)]
  BY <1>1, <1>9, SumChanged
<1>11. SumFunctionOnSet(parts, H) = units
  BY <1>5, <1>7, <1>9, <1>10
<1> QED BY <1>8, <1>11 DEF H, parts

(* What the parts are.                                                     *)
LEMMA PartsAre ==
  ASSUME NEW p \in Accounts, NEW units \in Int, NEW noise \in [Hedges(p) -> Int],
         NEW n, n = N - 1, NEW S, S = SumFunctionOnSet(noise, Hedges(p))
  PROVE  LET parts == Parts(units, Hedges(p), noise)
             first == Min(Hedges(p))
         IN  /\ parts[first] = noise[first] + units \div n - S \div n
                                 + (units - n * (units \div n)) - (S - n * (S \div n))
             /\ \A a \in Hedges(p) \ {first} : parts[a] = units \div n + noise[a] - S \div n
<1> DEFINE H == Hedges(p)
           share == units \div n - S \div n
           values == [a \in H |-> units \div n + noise[a] - S \div n]
           first == Min(H)
<1>1. n \in Nat /\ n > 0 /\ IsFiniteSet(H) /\ Cardinality(H) = n /\ first \in H
  BY HedgesKnown
<1>2. S \in Int /\ SumFunction(noise) = S
  BY <1>1, SumIsInt DEF SumFunction
<1>3. S \div n \in Int /\ units \div n \in Int /\ share \in Int
  BY <1>1, <1>2, Division
<1>4. Parts(units, H, noise) = [values EXCEPT ![first] = values[first] + units - SumFunction(values)]
  BY <1>2 DEF Parts
<1>5. SumFunction(values) = n * share + S
  <2>1. SumFunction(values) = SumFunctionOnSet(values, H)
    BY DEF SumFunction
  <2> PICK one \in Int : one = 1
    OBVIOUS
  <2>2. \A a \in H : /\ values[a] \in Int /\ noise[a] \in Int
                     /\ share <= one * values[a] - one * noise[a]
                     /\ one * values[a] - one * noise[a] <= share
    <3> TAKE a \in H
    <3>1. values[a] = units \div n + noise[a] - S \div n /\ noise[a] \in Int
      OBVIOUS
    <3> HIDE DEF values
    <3> QED BY <1>3, <3>1
  <2> HIDE DEF values, share, H
  <2>3. /\ n * share <= one * SumFunctionOnSet(values, H) - one * SumFunctionOnSet(noise, H)
        /\ one * SumFunctionOnSet(values, H) - one * SumFunctionOnSet(noise, H) <= n * share
    BY <1>1, <1>3, <2>2, SumBetween
  <2>4. SumFunctionOnSet(values, H) \in Int /\ S = SumFunctionOnSet(noise, H) /\ n * share \in Int
    BY <1>1, <1>3, <2>2, SumIsInt DEF H
  <2> QED BY <1>1, <1>2, <1>3, <2>1, <2>3, <2>4
<1>6. n * share = n * (units \div n) - n * (S \div n)
  BY <1>1, <1>3, Z3
<1>7. n * (units \div n) \in Int /\ n * (S \div n) \in Int
  BY <1>1, <1>3, Sign
<1>8. values[first] = units \div n + noise[first] - S \div n /\ noise[first] \in Int
  BY <1>1
<1>9. \A a \in H \ {first} : Parts(units, H, noise)[a] = values[a]
  BY <1>4
<1>10. Parts(units, H, noise)[first] = values[first] + units - SumFunction(values)
  BY <1>1, <1>4
<1> QED BY <1>2, <1>3, <1>5, <1>6, <1>7, <1>8, <1>9, <1>10

(* The arithmetic of a part: with q the equal share, r what its division   *)
(* leaves, m the most noise, n * D + w the sum of the noise.               *)
LEMMA PartArithmetic ==
  ASSUME NEW n \in Int, n > 0, NEW units \in Int, NEW q \in Int, NEW r \in Int, NEW m \in Int,
         NEW D \in Int, NEW w \in Int, NEW nq \in Int, NEW x \in Int,
         units = nq + r, 0 <= r, q <= nq, q >= 10 * m, m >= 0, -m <= D, D <= m,
         -m <= x, x <= m, 0 <= w, w < n, m >= 1 => nq >= 10 * n, m = 0 => w = 0, q >= 0
  PROVE  /\ q + x - D >= 0 /\ 5 * (q + x - D) <= 6 * units
         /\ 10 * (x + q - D + r - w) >= -units /\ 5 * (x + q - D + r - w) <= 6 * units
OBVIOUS

(* The first part makes up for the rest.                                   *)
LEMMA FirstPartArithmetic ==
  ASSUME NEW n \in Int, n > 0, n <= 11, NEW q \in Int, NEW r \in Int, NEW m \in Int,
         NEW S \in Int, NEW D \in Int, NEW w \in Int, NEW x \in Int,
         0 <= r, q >= 10 * m, m >= 0, -m <= D, D <= m, -m <= x, x <= m,
         S = n * D + w, 0 <= w, w < n, m = 0 => w = 0, q >= 0,
         S - x <= n * m - m
  PROVE  x + q - D + r - w >= 0
<1>1. CASE m = 0
  BY <1>1
<1>2. CASE m = 1
  <2>1. CASE D = 0
    BY <1>2, <2>1
  <2>2. CASE D = 1
    BY <1>2, <2>2
  <2>3. CASE D = -1
    BY <1>2, <2>3
  <2> QED BY <1>2, <2>1, <2>2, <2>3
<1>3. CASE m >= 2
  BY <1>3
<1> QED BY <1>1, <1>2, <1>3

(* The size of the parts: none is more than a fifth above the whole, or    *)
(* more than a tenth of it below zero, and none of at most eleven is below *)
(* zero.                                                                   *)
LEMMA PartsBounded ==
  ASSUME NEW p \in Accounts, NEW units \in Nat, NEW noise \in Noise(units, Hedges(p)),
         NEW a \in Hedges(p)
  PROVE  LET part == Parts(units, Hedges(p), noise)[a]
         IN  /\ part \in Int /\ 10 * part >= -units /\ 5 * part <= 6 * units
             /\ N <= 12 => part >= 0
<1> DEFINE H == Hedges(p)
<1>a. PICK n, q, m, first, S : /\ n = N - 1 /\ q = units \div n /\ m = q \div 10
                             /\ first = Min(H) /\ S = SumFunctionOnSet(noise, H)
  OBVIOUS
<1>1. n \in Nat /\ n > 0 /\ IsFiniteSet(H) /\ Cardinality(H) = n /\ first \in H /\ N = n + 1
  <2>1. N \in Nat
    BY SizingAssumption
  <2> QED BY <2>1, <1>a, HedgesKnown
<1>2. q \in Nat /\ m \in Nat /\ q >= 10 * m
  <2>1. q \in Nat
    BY <1>1, <1>a, QuotientIsNat
  <2> QED BY <2>1, <1>a
<1>3. noise \in [H -> -m .. m] /\ noise \in [H -> Int]
  <2>1. Noise(units, H) = [H -> -m .. m]
    BY <1>a DEF Noise
  <2>2. -m .. m \subseteq Int
    BY <1>2
  <2> QED BY <2>1, <2>2
<1>4. \A x \in H : noise[x] \in Int /\ -m <= noise[x] /\ noise[x] <= m
  <2> HIDE DEF H
  <2> QED BY <1>2, <1>3
<1>5. S \in Int /\ S = SumFunctionOnSet(noise, H)
  BY <1>1, <1>4, <1>a, SumIsInt
<1> DEFINE D == S \div n
           w == S % n
           r == units % n
<1>6. D \in Int /\ w \in Int /\ 0 <= w /\ w < n /\ S = n * D + w
  <2>1. n \in Int /\ n > 0
    BY <1>1
  <2> QED BY <2>1, <1>5, Division, Zenon DEF D, w
<1>b. PICK nq : nq = n * q
  OBVIOUS
<1>7. r \in Int /\ 0 <= r /\ units = nq + r
  <2>1. n \in Int /\ n > 0 /\ units \in Int
    BY <1>1
  <2> QED BY <2>1, <1>a, <1>b, Division DEF r
<1> HIDE DEF D, w, r, H
<1>8. S <= n * m /\ n * (-m) <= S /\ n * m \in Int /\ n * (-m) = -(n * m)
  <2> PICK one \in Int, none \in Int : one = 1 /\ none = 0
    OBVIOUS
  <2>1. \A x \in H : /\ noise[x] \in Int
                     /\ -m <= one * noise[x] - none * noise[x]
                     /\ one * noise[x] - none * noise[x] <= m
    BY <1>4, <1>2
  <2>2. -m \in Int /\ m \in Int
    BY <1>2
  <2>3. n * (-m) <= one * S - none * S /\ one * S - none * S <= n * m
    BY <1>1, <1>5, <2>1, <2>2, SumBetween
  <2>4. n * m \in Int /\ n * (-m) = -(n * m)
    BY <1>1, <1>2, Z3
  <2> QED BY <1>5, <2>3, <2>4
<1>9. -m <= D /\ D <= m
  <2>1. n * (D - m) = n * D - n * m /\ n * (D + m) = n * D + n * m
    BY <1>1, <1>2, <1>6, Z3
  <2>2. n * D \in Int /\ n * m \in Int
    BY <1>1, <1>2, <1>6, Sign
  <2>3. n * (D - m) < n /\ n * (D + m) > -n
    BY <1>1, <1>5, <1>6, <1>8, <2>1, <2>2
  <2>4. D - m \in Int /\ D + m \in Int
    BY <1>2, <1>6
  <2>5. D - m <= 0 /\ D + m >= 0
    BY <1>1, <2>3, <2>4, Sign
  <2> QED BY <1>2, <1>6, <2>5
<1>10. nq \in Int /\ q <= nq /\ (m >= 1 => nq >= 10 * n)
  <2>1. n * q \in Int /\ (n - 1) * q >= 0 /\ (n - 1) * q = n * q - q
    BY <1>1, <1>2, Z3
  <2>2. m >= 1 => n * (q - 10) >= 0 /\ n * (q - 10) = n * q - 10 * n
    BY <1>1, <1>2, Z3
  <2> QED BY <1>1, <1>2, <1>b, <2>1, <2>2
<1>11. m = 0 => w = 0
  <2> SUFFICES ASSUME m = 0 PROVE w = 0
    OBVIOUS
  <2>1. n * m = 0 /\ D = 0
    BY <1>1, <1>6, <1>9
  <2>2. n * D = 0
    BY <1>1, <2>1
  <2> QED BY <1>5, <1>6, <1>8, <2>1, <2>2
<1>12. /\ Parts(units, H, noise)[first] = noise[first] + q - D + (units - nq) - (S - n * D)
       /\ \A x \in H \ {first} : Parts(units, H, noise)[x] = q + noise[x] - D
  BY <1>3, <1>a, <1>b, PartsAre DEF H, D
<1>13. CASE a # first
  <2>1. Parts(units, H, noise)[a] = q + noise[a] - D
    BY <1>12, <1>13 DEF H
  <2>2. noise[a] \in Int /\ -m <= noise[a] /\ noise[a] <= m
    BY <1>4 DEF H
  <2>3. q + noise[a] - D >= 0 /\ 5 * (q + noise[a] - D) <= 6 * units
    BY <1>1, <1>2, <1>6, <1>7, <1>9, <1>10, <1>11, <2>2, PartArithmetic
  <2>4. q + noise[a] - D \in Int
    BY <1>2, <1>6, <2>2
  <2> QED BY <2>1, <2>3, <2>4 DEF H
<1>14. CASE a = first
  <2> DEFINE x == noise[first]
             part == x + q - D + r - w
  <2>1. x \in Int /\ -m <= x /\ x <= m
    BY <1>1, <1>4
  <2> HIDE DEF x
  <2>2. Parts(units, H, noise)[a] = part /\ part \in Int
    BY <1>1, <1>2, <1>5, <1>6, <1>7, <1>10, <1>12, <1>14, <2>1, Sign DEF x
  <2>3. 10 * part >= -units /\ 5 * part <= 6 * units
    BY <1>1, <1>2, <1>6, <1>7, <1>9, <1>10, <1>11, <2>1, PartArithmetic
  <2>4. S - x <= n * m - m
    <3> PICK one \in Int, none \in Int : one = 1 /\ none = 0
      OBVIOUS
    <3> DEFINE U == H \ {first}
    <3>1. IsFiniteSet(U) /\ Cardinality(U) = n - 1
      BY <1>1, FS_RemoveElement
    <3>2. \A y \in U : /\ noise[y] \in Int
                       /\ -m <= one * noise[y] - none * noise[y]
                       /\ one * noise[y] - none * noise[y] <= m
      BY <1>4, <1>2
    <3>3. -m \in Int /\ m \in Int
      BY <1>2
    <3>4. S = x + SumFunctionOnSet(noise, U)
      BY <1>1, <1>4, <1>5, SumRest DEF x
    <3> HIDE DEF U
    <3>5. SumFunctionOnSet(noise, U) \in Int
      BY <3>1, <3>2, SumIsInt
    <3>6. one * SumFunctionOnSet(noise, U) - none * SumFunctionOnSet(noise, U) <= (n - 1) * m
      BY <3>1, <3>2, <3>3, SumBetween
    <3>7. (n - 1) * m = n * m - m
      BY <1>1, <1>2, Z3
    <3> QED BY <2>1, <3>4, <3>5, <3>6, <3>7, <1>8
  <2>5. N <= 12 => part >= 0
    BY <1>1, <1>2, <1>5, <1>6, <1>7, <1>9, <1>11, <2>1, <2>4, FirstPartArithmetic
  <2> QED BY <2>2, <2>3, <2>5 DEF H
<1> QED BY <1>13, <1>14

-----------------------------------------------------------------------------
(* The hedges match the prime account.                                     *)

(* The least the sizes that are drawn for a prime account have in common.  *)
LEMMA DrawnKnown ==
  ASSUME NEW p \in Accounts, NEW num \in Nat, NEW den \in {2, 10}, NEW drawn \in Drawn(p, num, den)
  PROVE  /\ drawn \in [Accounts -> Int]
         /\ Abs(drawn[p] - SumFunctionOnSet(drawn, Hedges(p))) <= IF HalfWay(num, den) THEN 1 ELSE 0
         /\ \A a \in Accounts : -SumFunction(drawn) <= drawn[a] /\ drawn[a] <= SumFunction(drawn)
         /\ N <= 12 => \A a \in Accounts : drawn[a] >= 0
<1> DEFINE H == Hedges(p)
<1>1. PICK up \in BOOLEAN : \E upPrime \in BOOLEAN, noise \in Noise(Rounded(num, den, up), H) :
        drawn = [a \in Accounts |-> IF a = p THEN Rounded(num, den, upPrime)
                                    ELSE Parts(Rounded(num, den, up), H, noise)[a]]
  BY DEF Drawn
<1>1a. PICK upPrime \in BOOLEAN, noise \in Noise(Rounded(num, den, up), H) :
        drawn = [a \in Accounts |-> IF a = p THEN Rounded(num, den, upPrime)
                                    ELSE Parts(Rounded(num, den, up), H, noise)[a]]
  BY <1>1
<1>2. PICK units, ofPrime : units = Rounded(num, den, up) /\ ofPrime = Rounded(num, den, upPrime)
  OBVIOUS
<1>3. /\ units \in Nat /\ ofPrime \in Nat /\ units - ofPrime <= 1 /\ ofPrime - units <= 1
      /\ ~ HalfWay(num, den) => ofPrime = units
  <2>1. den \in Int /\ den > 0 /\ num \in Int /\ num >= 0
    OBVIOUS
  <2> QED BY <1>2, <2>1, RoundedNear, RoundedTwice
<1> DEFINE parts == Parts(units, H, noise)
<1>4. noise \in Noise(units, H) /\ noise \in [H -> Int]
  <2>1. noise \in Noise(units, H)
    BY <1>2
  <2>2. N - 1 \in Int /\ N - 1 > 0
    BY HedgesKnown
  <2>3. units \div (N - 1) \in Int
    BY <1>3, <2>2, Division
  <2>4. (units \div (N - 1)) \div 10 \in Int
    BY <2>3
  <2>5. -((units \div (N - 1)) \div 10) .. ((units \div (N - 1)) \div 10) \subseteq Int
    BY <2>4
  <2> QED BY <2>1, <2>5 DEF Noise
<1>5. /\ parts \in [H -> Int] /\ SumFunctionOnSet(parts, H) = units
      /\ \A a \in H : /\ 10 * parts[a] >= -units /\ 5 * parts[a] <= 6 * units
                      /\ N <= 12 => parts[a] >= 0
  <2>1. units \in Int
    BY <1>3
  <2> QED BY <1>3, <1>4, <2>1, PartsAddUp, PartsBounded
<1>6. drawn = [a \in Accounts |-> IF a = p THEN ofPrime ELSE parts[a]]
  BY <1>1a, <1>2
<1> HIDE DEF parts
<1>7. Accounts = H \cup {p} /\ p \notin H
  BY DEF Hedges
<1>8. drawn \in [Accounts -> Int] /\ drawn[p] = ofPrime /\ \A a \in H : drawn[a] = parts[a]
  BY <1>3, <1>5, <1>6, <1>7
<1>9. IsFiniteSet(Accounts) /\ IsFiniteSet(H)
  BY SizingAssumption, FS_Interval, HedgesKnown DEF Accounts
<1>10. SumFunctionOnSet(drawn, H) = units
  <2>1. \A a \in H : parts[a] \in Int /\ parts[a] = drawn[a]
    BY <1>5, <1>8
  <2> HIDE DEF H
  <2> QED BY <1>5, <1>9, <2>1, SumSame
<1>11. SumFunction(drawn) = ofPrime + units
  <2>1. SumFunction(drawn) = SumFunctionOnSet(drawn, Accounts)
    BY <1>8 DEF SumFunction
  <2>2. Accounts \ {p} = H
    BY DEF Hedges
  <2> HIDE DEF H
  <2> QED BY <1>8, <1>9, <1>10, <2>1, <2>2, SumRest
<1>12. ASSUME NEW a \in Accounts
       PROVE  /\ -SumFunction(drawn) <= drawn[a] /\ drawn[a] <= SumFunction(drawn)
              /\ N <= 12 => drawn[a] >= 0
  <2>1. CASE a = p
    BY <1>3, <1>8, <1>11, <2>1
  <2>2. CASE a # p
    <3>1. drawn[a] = parts[a] /\ a \in H
      BY <1>7, <1>8, <2>2
    <3>2. /\ parts[a] \in Int /\ 10 * parts[a] >= -units /\ 5 * parts[a] <= 6 * units
          /\ N <= 12 => parts[a] >= 0
      BY <3>1, <1>5
    <3> QED BY <3>1, <3>2, <1>3, <1>11
  <2> QED BY <2>1, <2>2
<1>13. Abs(drawn[p] - SumFunctionOnSet(drawn, H)) <= IF HalfWay(num, den) THEN 1 ELSE 0
  BY <1>3, <1>8, <1>10 DEF Abs
<1> QED BY <1>8, <1>12, <1>13

-----------------------------------------------------------------------------
(* The quantities of a symbol.                                             *)

(* The sizes of a plan.                                                    *)
PlanOK ==
  /\ sizes \in [Accounts -> Int]
  /\ \A a \in Accounts : -TotalSize <= sizes[a] /\ sizes[a] <= TotalSize
  /\ N <= 12 => \A a \in Accounts : sizes[a] >= 0

(* From what the lots of the accounts sum to, to what they leave open.     *)
LEMMA OpenArithmetic ==
  ASSUME NEW T \in Int, T > 0, NEW c \in Int, c > 0, NEW k \in Int, NEW I \in Int,
         NEW W \in Int, 0 <= W, W <= T, NEW s \in Int, -1 <= s, s <= 1,
         -(k * (T * c)) <= 2 * ((T * c) * I) - 2 * (W * s),
         2 * ((T * c) * I) - 2 * (W * s) <= k * (T * c)
  PROVE  2 * (I * c) <= k * c + 2 /\ -(2 * (I * c)) <= k * c + 2
<1>1. -T <= W * s /\ W * s <= T
  <2>1. s = -1 \/ s = 0 \/ s = 1
    OBVIOUS
  <2> QED BY <2>1
<1>2. /\ (T * c) * I = T * (I * c) /\ k * (T * c) = T * (k * c)
      /\ I * c \in Int /\ k * c \in Int /\ T * (I * c) \in Int /\ T * (k * c) \in Int
      /\ W * s \in Int
  BY Z3
<1>3. /\ T * (2 * (I * c) - k * c - 2) = 2 * (T * (I * c)) - T * (k * c) - 2 * T
      /\ T * (-(2 * (I * c)) - k * c - 2) = -(2 * (T * (I * c))) - T * (k * c) - 2 * T
  BY Z3
<1>4. T * (2 * (I * c) - k * c - 2) < T /\ T * (-(2 * (I * c)) - k * c - 2) < T
  BY <1>1, <1>2, <1>3
<1>5. 2 * (I * c) - k * c - 2 \in Int /\ -(2 * (I * c)) - k * c - 2 \in Int
  BY <1>2
<1>6. 2 * (I * c) - k * c - 2 <= 0 /\ -(2 * (I * c)) - k * c - 2 <= 0
  BY <1>4, <1>5, Sign
<1> QED BY <1>2, <1>6

(* Lots that are each rounded from their share leave little open.          *)
LEMMA LotsLeaveOpen ==
  ASSUME Known, PlanOK, HedgesMatchPrime, TotalSize > 0,
         NEW c \in Nat \ {0}, NEW W \in Nat, W <= TotalSize, NEW lots \in [Accounts -> Int],
         \A a \in Accounts :
           LET d == TotalSize * c
           IN  /\ 2 * (d * lots[a]) <= 2 * (sizes[a] * W) + d
               /\ 2 * (sizes[a] * W) - d <= 2 * (d * lots[a])
  PROVE  /\ Imbalance(lots) \in Int
         /\ 2 * (Imbalance(lots) * c) <= N * c + 2 /\ -(2 * (Imbalance(lots) * c)) <= N * c + 2
<1> DEFINE H == Hedges(prime)
<1>1. /\ prime \in Accounts /\ N \in Nat /\ IsFiniteSet(H) /\ Cardinality(H) = N - 1
      /\ H \subseteq Accounts
  BY SizingAssumption, HedgesKnown DEF Known, Hedges
<1>2. /\ \A a \in Accounts : sizes[a] \in Int /\ lots[a] \in Int
      /\ TotalSize \in Int /\ TotalSize > 0
  <2>1. IsFiniteSet(Accounts) /\ DOMAIN sizes = Accounts
    BY SizingAssumption, FS_Interval DEF PlanOK, Accounts
  <2>2. \A a \in Accounts : sizes[a] \in Int
    BY DEF PlanOK
  <2>3. SumFunctionOnSet(sizes, Accounts) \in Int
    BY <2>1, <2>2, SumIsInt
  <2> QED BY <2>1, <2>2, <2>3 DEF TotalSize, SumFunction
<1>3. PICK T, d, e, w : T = TotalSize /\ d = T * c /\ e = 2 * d /\ w = 2 * W
  OBVIOUS
<1>4. T \in Int /\ T > 0 /\ d \in Int /\ e \in Int /\ w \in Int
  <2>1. T \in Int /\ T > 0 /\ c \in Int
    BY <1>2, <1>3
  <2>2. T * c \in Int
    BY <2>1, Sign
  <2> QED BY <2>1, <2>2, <1>3
<1>5. ASSUME NEW a \in Accounts
      PROVE  -d <= e * lots[a] - w * sizes[a] /\ e * lots[a] - w * sizes[a] <= d
  <2>1. 2 * (d * lots[a]) <= 2 * (sizes[a] * W) + d /\ 2 * (sizes[a] * W) - d <= 2 * (d * lots[a])
    BY <1>3
  <2>2. /\ e * lots[a] = 2 * (d * lots[a]) /\ w * sizes[a] = 2 * (sizes[a] * W)
        /\ d * lots[a] \in Int /\ sizes[a] * W \in Int
    <3>1. lots[a] \in Int /\ sizes[a] \in Int /\ d \in Int /\ W \in Int
      BY <1>2, <1>4
    <3> QED BY <3>1, <1>3, Z3
  <2> QED BY <2>1, <2>2, <1>4
<1> DEFINE held == SumFunctionOnSet(lots, H)
           asked == SumFunctionOnSet(sizes, H)
<1>6. /\ (N - 1) * (-d) <= e * held - w * asked /\ e * held - w * asked <= (N - 1) * d
      /\ held \in Int /\ asked \in Int
  <2>1. \A a \in H : /\ lots[a] \in Int /\ sizes[a] \in Int
                     /\ -d <= e * lots[a] - w * sizes[a] /\ e * lots[a] - w * sizes[a] <= d
    BY <1>1, <1>2, <1>5
  <2>2. -d \in Int
    BY <1>4
  <2> HIDE DEF H
  <2>3. held \in Int /\ asked \in Int
    BY <1>1, <2>1, SumIsInt
  <2> QED BY <1>1, <1>4, <2>1, <2>2, <2>3, SumBetween
<1>7. Imbalance(lots) = lots[prime] - held /\ -1 <= sizes[prime] - asked /\ sizes[prime] - asked <= 1
  <2>1. Imbalance(lots) = lots[prime] - held
    BY DEF Imbalance
  <2>2. Abs(sizes[prime] - asked) <= 1 \/ Abs(sizes[prime] - asked) <= 0
    BY Zenon DEF HedgesMatchPrime
  <2>3. sizes[prime] - asked \in Int
    BY <1>1, <1>2, <1>6
  <2> HIDE DEF asked, held
  <2> QED BY <2>1, <2>2, <2>3 DEF Abs
<1> HIDE DEF H, held, asked
<1>8. PICK I, s : I = lots[prime] - held /\ s = sizes[prime] - asked
  OBVIOUS
<1>9. I \in Int /\ s \in Int /\ lots[prime] \in Int /\ sizes[prime] \in Int
  BY <1>1, <1>2, <1>6, <1>8
<1>10. -(N * d) <= 2 * (d * I) - 2 * (W * s) /\ 2 * (d * I) - 2 * (W * s) <= N * d
  <2>1. /\ (N - 1) * (-d) = -(N * d) + d /\ (N - 1) * d = N * d - d /\ N * d \in Int
        /\ 2 * (d * I) = e * lots[prime] - e * held /\ 2 * (W * s) = w * sizes[prime] - w * asked
    BY <1>1, <1>3, <1>4, <1>6, <1>8, <1>9, Z3
  <2>2. /\ e * lots[prime] \in Int /\ e * held \in Int /\ w * sizes[prime] \in Int
        /\ w * asked \in Int
    BY <1>4, <1>6, <1>9, Z3
  <2>3. -d <= e * lots[prime] - w * sizes[prime] /\ e * lots[prime] - w * sizes[prime] <= d
    BY <1>1, <1>5
  <2> QED BY <1>4, <1>6, <2>1, <2>2, <2>3
<1>11. 2 * (I * c) <= N * c + 2 /\ -(2 * (I * c)) <= N * c + 2
  <2>1. W \in Int /\ 0 <= W /\ W <= T /\ c \in Int /\ c > 0 /\ N \in Int /\ -1 <= s /\ s <= 1
    BY <1>1, <1>3, <1>7, <1>8
  <2>2. /\ -(N * (T * c)) <= 2 * ((T * c) * I) - 2 * (W * s)
        /\ 2 * ((T * c) * I) - 2 * (W * s) <= N * (T * c)
    BY <1>3, <1>10
  <2> QED BY <1>4, <1>9, <2>1, <2>2, OpenArithmetic
<1> QED BY <1>7, <1>8, <1>9, <1>11

(* load_qtys either leaves the lots as they are, where a leg is too small  *)
(* to give up what is open, or takes that from one leg and nothing is.     *)
LEMMA BalancedLots ==
  ASSUME prime \in Accounts, NEW lots \in [Accounts -> Int]
  PROVE  /\ Imbalance(lots) \in Int /\ Abs(Imbalance(lots)) \in Nat
         /\ Balanced(lots) \in [Accounts -> Int]
         /\ Imbalance(Balanced(lots)) # 0 =>
              /\ Balanced(lots) = lots
              /\ \E a \in Accounts : lots[a] <= Abs(Imbalance(lots))
         /\ \A a \in Accounts :
              \/ Balanced(lots)[a] = lots[a]
              \/ Balanced(lots)[a] = lots[a] - Abs(Imbalance(lots)) /\ Balanced(lots)[a] > 0
<1> DEFINE H == Hedges(prime)
           I == Imbalance(lots)
           last == LastLeg(lots)
           less == [lots EXCEPT ![last] = lots[last] - Abs(I)]
<1>1. /\ IsFiniteSet(H) /\ Max(H) \in H /\ H \subseteq Accounts /\ prime \notin H
      /\ \A a \in H : lots[a] \in Int
  BY HedgesKnown DEF Hedges
<1>2. SumFunctionOnSet(lots, H) \in Int
  <2> HIDE DEF H
  <2> QED BY <1>1, SumIsInt
<1>3. I = lots[prime] - SumFunctionOnSet(lots, H) /\ I \in Int
  <2>1. I = lots[prime] - SumFunctionOnSet(lots, H)
    BY DEF Imbalance
  <2> QED BY <1>2, <2>1
<1>4. Abs(I) \in Nat /\ Abs(I) = IF I < 0 THEN -I ELSE I
  <2> HIDE DEF I
  <2> QED BY <1>3 DEF Abs
<1>5. last \in Accounts /\ last = IF I > 0 THEN prime ELSE Max(H)
  <2>1. last = IF I > 0 THEN prime ELSE Max(H)
    BY DEF LastLeg
  <2> HIDE DEF last, I, H
  <2> QED BY <1>1, <2>1
<1>6. Balanced(lots) = IF Abs(I) >= lots[last] THEN lots ELSE less
  BY DEF Balanced
<1> HIDE DEF I, last, H
<1>7. CASE Abs(I) >= lots[last]
  <2>1. Balanced(lots) = lots
    BY <1>6, <1>7
  <2>2. lots[last] <= Abs(I)
    BY <1>4, <1>5, <1>7
  <2> QED BY <1>3, <1>4, <1>5, <2>1, <2>2 DEF I
<1>8. CASE ~ (Abs(I) >= lots[last])
  <2>1. Balanced(lots) = less
    BY <1>6, <1>8
  <2>2. /\ less \in [Accounts -> Int] /\ less[last] = lots[last] - Abs(I) /\ less[last] > 0
        /\ \A a \in Accounts \ {last} : less[a] = lots[a]
    BY <1>4, <1>5, <1>8
  <2> HIDE DEF less
  <2>3. Imbalance(less) = less[prime] - SumFunctionOnSet(less, H)
    BY DEF Imbalance, H
  <2>4. \A a \in H : less[a] \in Int
    BY <1>1, <2>2
  <2>5. CASE I > 0
    <3>1. last = prime
      BY <1>5, <2>5
    <3>2. \A a \in H : lots[a] \in Int /\ lots[a] = less[a]
      BY <1>1, <2>2, <3>1
    <3>3. SumFunctionOnSet(lots, H) = SumFunctionOnSet(less, H)
      BY <1>1, <3>2, SumSame
    <3>4. Imbalance(less) = 0
      BY <1>2, <1>3, <1>4, <2>2, <2>3, <2>5, <3>1, <3>3
    <3> QED BY <1>3, <1>4, <2>1, <2>2, <3>4 DEF I
  <2>6. CASE ~ (I > 0)
    <3>1. last = Max(H) /\ last \in H
      BY <1>1, <1>5, <2>6
    <3>2. /\ \A a \in H : lots[a] \in Int /\ less[a] \in Int
          /\ \A a \in H \ {last} : lots[a] = less[a]
      BY <1>1, <2>2, <2>4
    <3>3. SumFunctionOnSet(less, H) = SumFunctionOnSet(lots, H) - lots[last] + less[last]
      <4>1. IsFiniteSet(H) /\ last \in H
        BY <1>1, <3>1
      <4>2. \A a \in H : lots[a] \in Int /\ less[a] \in Int
        BY <3>2
      <4>3. \A a \in H \ {last} : lots[a] = less[a]
        BY <3>2
      <4> QED BY <4>1, <4>2, <4>3, SumChanged
    <3>4. less[prime] = lots[prime] /\ lots[prime] \in Int /\ lots[last] \in Int
      BY <1>1, <2>2, <3>1
    <3>5. Imbalance(less) = 0
      BY <1>2, <1>3, <1>4, <2>2, <2>3, <2>6, <3>3, <3>4
    <3> QED BY <1>3, <1>4, <2>1, <2>2, <3>5 DEF I
  <2> QED BY <2>5, <2>6
<1> QED BY <1>7, <1>8

(* The size of a symbol's trade.                                           *)
LEMMA TradeSizeKnown ==
  ASSUME TotalSize \in Nat, NEW s \in Symbols
  PROVE  /\ TradeSize(s) \in Nat /\ TradeSize(s) <= TotalSize
         /\ LET d == IF s <= LeadSymbols THEN 2 * LeadSymbols ELSE 2 * (K - LeadSymbols)
            IN  K > 1 => /\ d \in {2, 4}
                         /\ 2 * (d * TradeSize(s)) <= 2 * TotalSize + d
                         /\ 2 * TotalSize - d <= 2 * (d * TradeSize(s))
<1>1. K \in Nat /\ (K = 1 \/ K = 2 \/ K = 3 \/ K = 4)
  BY SizingAssumption
<1>2. CASE K = 1
  BY <1>2 DEF TradeSize
<1>3. CASE K # 1
  <2> PICK d : d = IF s <= LeadSymbols THEN 2 * LeadSymbols ELSE 2 * (K - LeadSymbols)
    OBVIOUS
  <2>1. d \in {2, 4} /\ K > 1
    BY <1>1, <1>3 DEF LeadSymbols
  <2>2. TradeSize(s) = HalfEven(TotalSize, d)
    <3>1. s \in Int /\ s > 0
      BY <1>1 DEF Symbols
    <3> QED BY <1>1, <1>3, <3>1 DEF TradeSize
  <2>3. PICK up \in BOOLEAN : HalfEven(TotalSize, d) = Rounded(TotalSize, d, up)
    <3>1. d \in Int /\ d > 0 /\ TotalSize \in Int
      BY <2>1
    <3> QED BY <3>1, HalfEvenIs
  <2>4. /\ TradeSize(s) \in Nat
        /\ 2 * (d * TradeSize(s)) <= 2 * TotalSize + d
        /\ 2 * TotalSize - d <= 2 * (d * TradeSize(s))
    <3>1. d \in Int /\ d > 0 /\ TotalSize \in Int /\ TotalSize >= 0
      BY <2>1
    <3> QED BY <2>2, <2>3, <3>1, RoundedNear
  <2>5. TradeSize(s) <= TotalSize
    BY <2>1, <2>4
  <2> QED BY <2>1, <2>4, <2>5
<1> QED BY <1>2, <1>3

(* The value of the lots of a leg is near its share.                       *)
ValueNear(s, a) ==
  LET off == 2 * (TotalSize * (qty[s][a] * price[s])) - 2 * (sizes[a] * TradeSize(s))
      most == TotalSize * ((N + 1) * price[s] + 2)
  IN  -most <= off /\ off <= most

(* A symbol whose quantities are known.                                    *)
SymbolOK(s) ==
  /\ price[s] \in Nat \ {0}
  /\ OffBalance(s) # 0 =>
       /\ 2 * OffBalance(s) * price[s] <= N * price[s] + 2
       /\ \E a \in Accounts : qty[s][a] <= OffBalance(s)
  /\ \A a \in Accounts : ValueNear(s, a)

(* Balancing takes a leg a little further from its share.                  *)
LEMMA NearArithmetic ==
  ASSUME NEW T \in Int, T > 0, NEW c \in Int, c > 0, NEW k \in Int, k >= 0, NEW A \in Int, A >= 0,
         NEW n \in Int, NEW x \in Int, NEW y \in Int, y = x \/ y = x - A,
         2 * (A * c) <= k * c + 2,
         2 * ((T * c) * x) <= 2 * n + T * c, 2 * n - T * c <= 2 * ((T * c) * x)
  PROVE  /\ -(T * ((k + 1) * c + 2)) <= 2 * (T * (y * c)) - 2 * n
         /\ 2 * (T * (y * c)) - 2 * n <= T * ((k + 1) * c + 2)
<1>1. /\ T * ((k + 1) * c + 2) = T * (k * c) + T * c + 2 * T
      /\ T * c \in Int /\ T * (k * c) \in Int /\ (T * c) * x \in Int /\ T * (A * c) \in Int
      /\ T * (x * c) = (T * c) * x /\ T * ((x - A) * c) = (T * c) * x - T * (A * c)
  BY Z3
<1>2. 2 * (T * (A * c)) <= T * (k * c) + 2 * T /\ T * (A * c) >= 0 /\ T * (k * c) >= 0 /\ T * c >= 0
  <2>1. A * c \in Int /\ k * c \in Int /\ A * c >= 0 /\ k * c >= 0
    BY Z3
  <2>2. T * (k * c + 2 - 2 * (A * c)) >= 0
    BY <2>1, Z3
  <2>3. T * (k * c + 2 - 2 * (A * c)) = T * (k * c) + 2 * T - 2 * (T * (A * c))
    BY <2>1, Z3
  <2>4. T * (A * c) >= 0 /\ T * (k * c) >= 0 /\ T * c >= 0
    BY <2>1, Z3
  <2> QED BY <2>2, <2>3, <2>4, <1>1
<1>3. CASE y = x
  BY <1>1, <1>2, <1>3
<1>4. CASE y = x - A
  BY <1>1, <1>2, <1>4
<1> QED BY <1>3, <1>4

(* The total of a plan.                                                    *)
LEMMA TotalIsInt ==
  ASSUME PlanOK
  PROVE  TotalSize \in Int /\ \A a \in Accounts : sizes[a] \in Int
<1>1. IsFiniteSet(Accounts) /\ DOMAIN sizes = Accounts
  BY SizingAssumption, FS_Interval DEF PlanOK, Accounts
<1>2. \A a \in Accounts : sizes[a] \in Int
  BY DEF PlanOK
<1>3. SumFunctionOnSet(sizes, Accounts) \in Int
  BY <1>1, <1>2, SumIsInt
<1> QED BY <1>1, <1>2, <1>3 DEF TotalSize, SumFunction

(* The lots of a symbol, before and after they are balanced.               *)
LEMMA LotsLoaded ==
  ASSUME Known, PlanOK, HedgesMatchPrime, TotalSize > 0,
         NEW s \in Symbols, NEW c \in Nat \ {0}, price'[s] = c,
         NEW up \in [Accounts -> BOOLEAN],
         NEW lots, lots = [a \in Accounts |-> LotsOf(s, a, up[a])],
         NEW q, q = Balanced(lots)
  PROVE  /\ q \in [Accounts -> Int] /\ Imbalance(q) \in Int
         /\ N <= 12 => \A a \in Accounts : q[a] >= 0
         /\ Imbalance(q) # 0 => /\ 2 * Abs(Imbalance(q)) * c <= N * c + 2
                               /\ \E a \in Accounts : q[a] <= Abs(Imbalance(q))
         /\ \A a \in Accounts :
              LET off == 2 * (TotalSize * (q[a] * c)) - 2 * (sizes[a] * TradeSize(s))
                  most == TotalSize * ((N + 1) * c + 2)
              IN  -most <= off /\ off <= most
<1> PICK T, W : T = TotalSize /\ W = TradeSize(s)
  OBVIOUS
<1>1. /\ T \in Int /\ T > 0 /\ T \in Nat /\ T * c \in Int /\ T * c > 0
      /\ \A a \in Accounts : sizes[a] \in Int
  <2>1. T \in Int /\ T > 0 /\ c \in Int /\ c > 0 /\ \A a \in Accounts : sizes[a] \in Int
    BY TotalIsInt
  <2>2. T * c \in Int /\ T * c > 0
    BY <2>1, Z3
  <2> QED BY <2>1, <2>2
<1>2. W \in Nat /\ W <= T
  BY <1>1, TradeSizeKnown
<1>3. ASSUME NEW a \in Accounts
      PROVE  /\ lots[a] \in Int
             /\ 2 * ((T * c) * lots[a]) <= 2 * (sizes[a] * W) + T * c
             /\ 2 * (sizes[a] * W) - T * c <= 2 * ((T * c) * lots[a])
             /\ N <= 12 => lots[a] >= 0
  <2>1. lots[a] = Rounded(sizes[a] * W, T * c, up[a])
    BY DEF LotsOf
  <2>2. sizes[a] * W \in Int /\ (sizes[a] >= 0 => sizes[a] * W >= 0)
    <3>1. sizes[a] \in Int /\ W \in Int /\ W >= 0
      BY <1>1, <1>2
    <3> QED BY <3>1, Z3
  <2>3. N <= 12 => sizes[a] >= 0
    BY DEF PlanOK
  <2> QED BY <1>1, <2>1, <2>2, <2>3, RoundedNear
<1>4. lots \in [Accounts -> Int]
  <2>1. lots = [a \in Accounts |-> lots[a]]
    OBVIOUS
  <2> QED BY <1>3, <2>1
<1>5. prime \in Accounts /\ N \in Int /\ N >= 0
  BY SizingAssumption DEF Known
<1> PICK I, A : I = Imbalance(lots) /\ A = Abs(I)
  OBVIOUS
<1>6. I \in Int /\ 2 * (I * c) <= N * c + 2 /\ -(2 * (I * c)) <= N * c + 2
  BY <1>1, <1>2, <1>3, <1>4, LotsLeaveOpen
<1>7. /\ A \in Int /\ A >= 0 /\ q \in [Accounts -> Int]
      /\ Imbalance(q) # 0 => q = lots /\ \E a \in Accounts : lots[a] <= A
      /\ \A a \in Accounts : q[a] = lots[a] \/ (q[a] = lots[a] - A /\ q[a] > 0)
  BY <1>4, <1>5, BalancedLots
<1>8. 2 * (A * c) <= N * c + 2 /\ 2 * A * c = 2 * (A * c)
  <2>1. A = I \/ A = -I
    BY <1>6 DEF Abs
  <2>2. (-I) * c = -(I * c) /\ I * c \in Int /\ 2 * A * c = 2 * (A * c)
    BY <1>6, <1>7, Z3
  <2> QED BY <1>6, <2>1, <2>2
<1>9. Imbalance(q) \in Int
  BY <1>5, <1>7, BalancedLots
<1>10. ASSUME NEW a \in Accounts
       PROVE  /\ -(T * ((N + 1) * c + 2)) <= 2 * (T * (q[a] * c)) - 2 * (sizes[a] * W)
              /\ 2 * (T * (q[a] * c)) - 2 * (sizes[a] * W) <= T * ((N + 1) * c + 2)
              /\ N <= 12 => q[a] >= 0
  <2> PICK n, x, y : n = sizes[a] * W /\ x = lots[a] /\ y = q[a]
    OBVIOUS
  <2>1. n \in Int /\ x \in Int /\ y \in Int /\ (y = x \/ y = x - A) /\ c \in Int /\ c > 0
    <3>1. sizes[a] \in Int /\ W \in Int
      BY <1>1, <1>2
    <3>2. sizes[a] * W \in Int
      BY <3>1
    <3> QED BY <3>2, <1>3, <1>7
  <2>2. 2 * ((T * c) * x) <= 2 * n + T * c /\ 2 * n - T * c <= 2 * ((T * c) * x)
    BY <1>3
  <2>3. /\ -(T * ((N + 1) * c + 2)) <= 2 * (T * (y * c)) - 2 * n
        /\ 2 * (T * (y * c)) - 2 * n <= T * ((N + 1) * c + 2)
    BY <1>1, <1>5, <1>7, <1>8, <2>1, <2>2, NearArithmetic
  <2>4. N <= 12 => q[a] >= 0
    BY <1>3, <1>7
  <2> QED BY <2>3, <2>4
<1>11. Imbalance(q) # 0 => /\ 2 * Abs(Imbalance(q)) * c <= N * c + 2
                         /\ \E a \in Accounts : q[a] <= Abs(Imbalance(q))
  BY <1>7, <1>8
<1> QED BY <1>7, <1>9, <1>10, <1>11

-----------------------------------------------------------------------------
(* What an account buys and sells over the basket.                         *)

(* A sum over a basket of up to four symbols.                              *)
LEMMA SumOfOneMore ==
  ASSUME NEW f, NEW n \in Nat, \A x \in 1 .. n + 1 : f[x] \in Int
  PROVE  SumFunctionOnSet(f, 1 .. n + 1) = f[n + 1] + SumFunctionOnSet(f, 1 .. n)
<1>1. IsFiniteSet(1 .. n + 1) /\ n + 1 \in 1 .. n + 1 /\ (1 .. n + 1) \ {n + 1} = 1 .. n
  BY FS_Interval
<1> QED BY <1>1, SumRest

LEMMA SumOfSymbols ==
  ASSUME NEW f, DOMAIN f = Symbols, \A s \in Symbols : f[s] \in Int
  PROVE  /\ K = 2 => SumFunction(f) = f[1] + f[2]
         /\ K = 3 => SumFunction(f) = f[1] + f[2] + f[3]
         /\ K = 4 => SumFunction(f) = f[1] + f[2] + f[3] + f[4]
<1> DEFINE Sum(n) == SumFunctionOnSet(f, 1 .. n)
<1>1. ASSUME NEW n \in Nat, n + 1 <= K
      PROVE  Sum(n + 1) = f[n + 1] + Sum(n)
  <2>1. \A x \in 1 .. n + 1 : f[x] \in Int
    BY <1>1, SizingAssumption DEF Symbols
  <2> QED BY <2>1, SumOfOneMore
<1>2. Sum(0) = 0
  <2>1. 1 .. 0 = {}
    OBVIOUS
  <2> QED BY <2>1, SumEmpty
<1>3. SumFunction(f) = Sum(K)
  BY DEF SumFunction, Symbols
<1> HIDE DEF Sum
<1>4. K >= 2 => Sum(2) = f[1] + f[2]
  <2> SUFFICES ASSUME K >= 2 PROVE Sum(2) = f[1] + f[2]
    OBVIOUS
  <2>1. Sum(0 + 1) = f[0 + 1] + Sum(0) /\ Sum(1 + 1) = f[1 + 1] + Sum(1)
    BY <1>1, SizingAssumption
  <2>2. f[1] \in Int /\ f[2] \in Int
    BY SizingAssumption DEF Symbols
  <2> QED BY <1>2, <2>1, <2>2
<1>5. K >= 3 => Sum(3) = f[1] + f[2] + f[3]
  <2> SUFFICES ASSUME K >= 3 PROVE Sum(3) = f[1] + f[2] + f[3]
    OBVIOUS
  <2>1. Sum(2 + 1) = f[2 + 1] + Sum(2)
    BY <1>1, SizingAssumption
  <2>2. f[1] \in Int /\ f[2] \in Int /\ f[3] \in Int
    BY SizingAssumption DEF Symbols
  <2> QED BY <1>4, <2>1, <2>2, SizingAssumption
<1>6. K >= 4 => Sum(4) = f[1] + f[2] + f[3] + f[4]
  <2> SUFFICES ASSUME K >= 4 PROVE Sum(4) = f[1] + f[2] + f[3] + f[4]
    OBVIOUS
  <2>1. Sum(3 + 1) = f[3 + 1] + Sum(3)
    BY <1>1, SizingAssumption
  <2>2. f[1] \in Int /\ f[2] \in Int /\ f[3] \in Int /\ f[4] \in Int
    BY SizingAssumption DEF Symbols
  <2> QED BY <1>5, <2>1, <2>2, SizingAssumption
<1> QED BY <1>3, <1>4, <1>5, <1>6

(* From what is off for each symbol to what is off for the basket: x is    *)
(* the account's size, D what the symbols' sizes leave open, V what its    *)
(* lots do, P the sum of the prices.                                       *)
LEMMA NetArithmetic ==
  ASSUME NEW T \in Int, T > 0, NEW x \in Int, -T <= x, x <= T, NEW D \in Int, -2 <= D, D <= 2,
         NEW V \in Int, NEW k \in Int, NEW P \in Int, NEW m \in Int, m >= 2,
         -(T * (k * P + 2 * m)) <= 2 * (T * V) - 2 * (x * D),
         2 * (T * V) - 2 * (x * D) <= T * (k * P + 2 * m)
  PROVE  2 * Abs(V) <= k * P + 4 * m
<1>1. -(2 * T) <= x * D /\ x * D <= 2 * T
  <2>1. D = -2 \/ D = -1 \/ D = 0 \/ D = 1 \/ D = 2
    OBVIOUS
  <2> QED BY <2>1
<1>2. k * P \in Int /\ T * V \in Int /\ x * D \in Int /\ T * (k * P + 2 * m) \in Int
  BY Z3
<1>3. /\ T * (2 * V - (k * P + 2 * m) - 4) = 2 * (T * V) - T * (k * P + 2 * m) - 4 * T
      /\ T * (-(2 * V) - (k * P + 2 * m) - 4) = -(2 * (T * V)) - T * (k * P + 2 * m) - 4 * T
  BY Z3
<1>4. T * (2 * V - (k * P + 2 * m) - 4) < T /\ T * (-(2 * V) - (k * P + 2 * m) - 4) < T
  BY <1>1, <1>2, <1>3
<1>5. 2 * V - (k * P + 2 * m) - 4 \in Int /\ -(2 * V) - (k * P + 2 * m) - 4 \in Int
  BY <1>2
<1>6. 2 * V - (k * P + 2 * m) - 4 <= 0 /\ -(2 * V) - (k * P + 2 * m) - 4 <= 0
  BY <1>4, <1>5, Sign
<1> QED BY <1>2, <1>6 DEF Abs

(* Two symbols on the same side, or on opposite ones.                      *)
LEMMA AddNear ==
  ASSUME NEW T \in Int, NEW x \in Int, NEW k \in Int,
         NEW V \in Int, NEW D \in Int, NEW P \in Int, NEW m \in Int,
         -(T * (k * P + 2 * m)) <= 2 * (T * V) - 2 * (x * D),
         2 * (T * V) - 2 * (x * D) <= T * (k * P + 2 * m),
         NEW v \in Int, NEW w \in Int, NEW c \in Int,
         -(T * (k * c + 2)) <= 2 * (T * v) - 2 * (x * w),
         2 * (T * v) - 2 * (x * w) <= T * (k * c + 2)
  PROVE  /\ -(T * (k * (P + c) + 2 * (m + 1))) <= 2 * (T * (V + v)) - 2 * (x * (D + w))
         /\ 2 * (T * (V + v)) - 2 * (x * (D + w)) <= T * (k * (P + c) + 2 * (m + 1))
         /\ -(T * (k * (P + c) + 2 * (m + 1))) <= 2 * (T * (V - v)) - 2 * (x * (D - w))
         /\ 2 * (T * (V - v)) - 2 * (x * (D - w)) <= T * (k * (P + c) + 2 * (m + 1))
<1>1. /\ T * (k * (P + c) + 2 * (m + 1)) = T * (k * P + 2 * m) + T * (k * c + 2)
      /\ T * (V + v) = T * V + T * v /\ T * (V - v) = T * V - T * v
      /\ x * (D + w) = x * D + x * w /\ x * (D - w) = x * D - x * w
      /\ T * (k * P + 2 * m) \in Int /\ T * (k * c + 2) \in Int
      /\ T * V \in Int /\ T * v \in Int /\ x * D \in Int /\ x * w \in Int
  BY Z3
<1> QED BY <1>1

(* What the sizes of the symbols leave open is two cents at most.          *)
LEMMA SidesMatch ==
  ASSUME TotalSize \in Nat
  PROVE  /\ \A s \in Symbols : TradeSize(s) \in Nat
         /\ K = 2 => LET D == TradeSize(1) - TradeSize(2) IN -2 <= D /\ D <= 2
         /\ K = 3 => LET D == TradeSize(1) - TradeSize(2) - TradeSize(3) IN -2 <= D /\ D <= 2
         /\ K = 4 => LET D == TradeSize(1) + TradeSize(2) - TradeSize(3) - TradeSize(4)
                    IN -2 <= D /\ D <= 2
<1>1. \A s \in Symbols : TradeSize(s) \in Nat
  BY TradeSizeKnown
<1>2. CASE K = 1
  BY <1>1, <1>2
<1>3. CASE K = 2
  <2>1. LeadSymbols = 1 /\ 1 \in Symbols /\ 2 \in Symbols
    BY <1>3 DEF LeadSymbols, Symbols
  <2>2. /\ 2 * (2 * TradeSize(1)) <= 2 * TotalSize + 2 /\ 2 * TotalSize - 2 <= 2 * (2 * TradeSize(1))
        /\ 2 * (2 * TradeSize(2)) <= 2 * TotalSize + 2 /\ 2 * TotalSize - 2 <= 2 * (2 * TradeSize(2))
    BY <1>3, <2>1, TradeSizeKnown
  <2> QED BY <1>1, <1>3, <2>1, <2>2
<1>4. CASE K = 3
  <2>1. LeadSymbols = 1 /\ 1 \in Symbols /\ 2 \in Symbols /\ 3 \in Symbols
    BY <1>4 DEF LeadSymbols, Symbols
  <2>2. /\ 2 * (2 * TradeSize(1)) <= 2 * TotalSize + 2 /\ 2 * TotalSize - 2 <= 2 * (2 * TradeSize(1))
        /\ 2 * (4 * TradeSize(2)) <= 2 * TotalSize + 4 /\ 2 * TotalSize - 4 <= 2 * (4 * TradeSize(2))
        /\ 2 * (4 * TradeSize(3)) <= 2 * TotalSize + 4 /\ 2 * TotalSize - 4 <= 2 * (4 * TradeSize(3))
    BY <1>4, <2>1, TradeSizeKnown
  <2> QED BY <1>1, <1>4, <2>1, <2>2
<1>5. CASE K = 4
  <2>1. LeadSymbols = 2 /\ 1 \in Symbols /\ 2 \in Symbols /\ 3 \in Symbols /\ 4 \in Symbols
    BY <1>5 DEF LeadSymbols, Symbols
  <2>2. /\ 2 * (4 * TradeSize(1)) <= 2 * TotalSize + 4 /\ 2 * TotalSize - 4 <= 2 * (4 * TradeSize(1))
        /\ 2 * (4 * TradeSize(2)) <= 2 * TotalSize + 4 /\ 2 * TotalSize - 4 <= 2 * (4 * TradeSize(2))
        /\ 2 * (4 * TradeSize(3)) <= 2 * TotalSize + 4 /\ 2 * TotalSize - 4 <= 2 * (4 * TradeSize(3))
        /\ 2 * (4 * TradeSize(4)) <= 2 * TotalSize + 4 /\ 2 * TotalSize - 4 <= 2 * (4 * TradeSize(4))
    BY <1>5, <2>1, TradeSizeKnown
  <2> QED BY <1>1, <1>5, <2>1, <2>2
<1> QED BY <1>2, <1>3, <1>4, <1>5, SizingAssumption

(* Each account buys about as much as it sells.                            *)
LEMMA AccountBalances ==
  ASSUME PlanOK, TotalSize > 0, K > 1, qty \in [Symbols -> [Accounts -> Int]],
         DOMAIN price = Symbols, \A s \in Symbols : SymbolOK(s), NEW a \in Accounts
  PROVE  2 * Abs(SumFunction([s \in Symbols |-> SignedValue(s, a)]))
           <= (N + 1) * SumFunction(price) + 4 * K
<1> DEFINE f == [s \in Symbols |-> SignedValue(s, a)]
<1> PICK T, x, k, V, W : /\ T = TotalSize /\ x = sizes[a] /\ k = N + 1
                         /\ V = [s \in Symbols |-> qty[s][a] * price[s]]
                         /\ W = [s \in Symbols |-> TradeSize(s)]
  OBVIOUS
<1>1. T \in Nat /\ T \in Int /\ T > 0 /\ x \in Int /\ -T <= x /\ x <= T /\ k \in Int
  <2>1. T \in Int /\ x \in Int
    BY TotalIsInt
  <2>2. -T <= x /\ x <= T
    BY DEF PlanOK
  <2>3. k \in Int
    BY SizingAssumption
  <2> QED BY <2>1, <2>2, <2>3
<1>2. ASSUME NEW s \in Symbols
      PROVE  /\ V[s] \in Int /\ W[s] \in Int /\ price[s] \in Int
             /\ -(T * (k * price[s] + 2)) <= 2 * (T * V[s]) - 2 * (x * W[s])
             /\ 2 * (T * V[s]) - 2 * (x * W[s]) <= T * (k * price[s] + 2)
             /\ f[s] = IF s <= LeadSymbols THEN V[s] ELSE -V[s]
  <2>1. price[s] \in Int /\ qty[s][a] \in Int /\ W[s] = TradeSize(s) /\ V[s] = qty[s][a] * price[s]
    BY DEF SymbolOK
  <2>2. W[s] \in Int /\ V[s] \in Int
    BY <1>1, <2>1, TradeSizeKnown
  <2>3. ValueNear(s, a)
    BY DEF SymbolOK
  <2>4. /\ -(T * (k * price[s] + 2)) <= 2 * (T * V[s]) - 2 * (x * W[s])
        /\ 2 * (T * V[s]) - 2 * (x * W[s]) <= T * (k * price[s] + 2)
    BY <2>1, <2>3 DEF ValueNear
  <2>5. f[s] = (IF s <= LeadSymbols THEN 1 ELSE -1) * qty[s][a] * price[s]
    BY DEF SignedValue
  <2>6. 1 * qty[s][a] * price[s] = V[s] /\ (-1) * qty[s][a] * price[s] = -V[s]
    BY <2>1, Z3
  <2> QED BY <2>1, <2>2, <2>4, <2>5, <2>6
<1>3. DOMAIN f = Symbols /\ \A s \in Symbols : f[s] \in Int /\ price[s] \in Int
  BY <1>2
<1> SUFFICES 2 * Abs(SumFunction(f)) <= (N + 1) * SumFunction(price) + 4 * K
  OBVIOUS
<1> HIDE DEF f
<1>4. ASSUME NEW D \in Int, -2 <= D, D <= 2, NEW net \in Int, NEW P \in Int,
             SumFunction(f) = net, SumFunction(price) = P,
             -(T * (k * P + 2 * K)) <= 2 * (T * net) - 2 * (x * D),
             2 * (T * net) - 2 * (x * D) <= T * (k * P + 2 * K)
      PROVE  2 * Abs(SumFunction(f)) <= (N + 1) * SumFunction(price) + 4 * K
  <2>1. K \in Int /\ K >= 2
    BY SizingAssumption
  <2>2. 2 * Abs(net) <= k * P + 4 * K
    BY <1>1, <1>4, <2>1, NetArithmetic
  <2> QED BY <1>4, <2>2
<1>5. CASE K = 2
  <2>1. LeadSymbols = 1 /\ 1 \in Symbols /\ 2 \in Symbols
    BY <1>5 DEF LeadSymbols, Symbols
  <2> PICK v1, w1, p1, v2, w2, p2 :
         /\ v1 = V[1] /\ w1 = W[1] /\ p1 = price[1]
         /\ v2 = V[2] /\ w2 = W[2] /\ p2 = price[2]
    OBVIOUS
  <2>2. /\ v1 \in Int /\ w1 \in Int /\ p1 \in Int
        /\ v2 \in Int /\ w2 \in Int /\ p2 \in Int
    BY <1>2, <2>1
  <2>3. /\ -(T * (k * p1 + 2 * 1)) <= 2 * (T * v1) - 2 * (x * w1)
        /\ 2 * (T * v1) - 2 * (x * w1) <= T * (k * p1 + 2 * 1)
    BY <1>2, <2>1, <2>2
  <2>4. /\ -(T * (k * p2 + 2)) <= 2 * (T * v2) - 2 * (x * w2)
        /\ 2 * (T * v2) - 2 * (x * w2) <= T * (k * p2 + 2)
    BY <1>2, <2>1
  <2>5. /\ -(T * (k * (p1 + p2) + 2 * 2)) <= 2 * (T * (v1 - v2)) - 2 * (x * (w1 - w2))
        /\ 2 * (T * (v1 - v2)) - 2 * (x * (w1 - w2)) <= T * (k * (p1 + p2) + 2 * 2)
    <3>1. /\ v1 \in Int /\ w1 \in Int /\ p1 \in Int
      BY <2>2
    <3> QED BY <1>1, <2>2, <2>3, <2>4, <3>1, AddNear
  <2>6. SumFunction(f) = (v1 - v2) /\ SumFunction(price) = (p1 + p2)
    <3>1. f[1] = v1 /\ f[2] = -v2
      BY <1>2, <2>1
    <3>2. SumFunction(f) = f[1] + f[2]
      BY <1>3, <1>5, SumOfSymbols
    <3>3. SumFunction(price) = price[1] + price[2]
      BY <1>3, <1>5, SumOfSymbols
    <3> QED BY <2>2, <3>1, <3>2, <3>3
  <2>7. -2 <= (w1 - w2) /\ (w1 - w2) <= 2
    BY <1>1, <1>5, <2>1, SidesMatch
  <2>8. (w1 - w2) \in Int /\ (v1 - v2) \in Int /\ (p1 + p2) \in Int
    BY <2>2
  <2> QED BY <1>4, <1>5, <2>5, <2>6, <2>7, <2>8
<1>6. CASE K = 3
  <2>1. LeadSymbols = 1 /\ 1 \in Symbols /\ 2 \in Symbols /\ 3 \in Symbols
    BY <1>6 DEF LeadSymbols, Symbols
  <2> PICK v1, w1, p1, v2, w2, p2, v3, w3, p3 :
         /\ v1 = V[1] /\ w1 = W[1] /\ p1 = price[1]
         /\ v2 = V[2] /\ w2 = W[2] /\ p2 = price[2]
         /\ v3 = V[3] /\ w3 = W[3] /\ p3 = price[3]
    OBVIOUS
  <2>2. /\ v1 \in Int /\ w1 \in Int /\ p1 \in Int
        /\ v2 \in Int /\ w2 \in Int /\ p2 \in Int
        /\ v3 \in Int /\ w3 \in Int /\ p3 \in Int
    BY <1>2, <2>1
  <2>3. /\ -(T * (k * p1 + 2 * 1)) <= 2 * (T * v1) - 2 * (x * w1)
        /\ 2 * (T * v1) - 2 * (x * w1) <= T * (k * p1 + 2 * 1)
    BY <1>2, <2>1, <2>2
  <2>4. /\ -(T * (k * p2 + 2)) <= 2 * (T * v2) - 2 * (x * w2)
        /\ 2 * (T * v2) - 2 * (x * w2) <= T * (k * p2 + 2)
    BY <1>2, <2>1
  <2>5. /\ -(T * (k * (p1 + p2) + 2 * 2)) <= 2 * (T * (v1 - v2)) - 2 * (x * (w1 - w2))
        /\ 2 * (T * (v1 - v2)) - 2 * (x * (w1 - w2)) <= T * (k * (p1 + p2) + 2 * 2)
    <3>1. /\ v1 \in Int /\ w1 \in Int /\ p1 \in Int
      BY <2>2
    <3> QED BY <1>1, <2>2, <2>3, <2>4, <3>1, AddNear
  <2>6. /\ -(T * (k * p3 + 2)) <= 2 * (T * v3) - 2 * (x * w3)
        /\ 2 * (T * v3) - 2 * (x * w3) <= T * (k * p3 + 2)
    BY <1>2, <2>1
  <2>7. /\ -(T * (k * ((p1 + p2) + p3) + 2 * 3)) <= 2 * (T * ((v1 - v2) - v3)) - 2 * (x * ((w1 - w2) - w3))
        /\ 2 * (T * ((v1 - v2) - v3)) - 2 * (x * ((w1 - w2) - w3)) <= T * (k * ((p1 + p2) + p3) + 2 * 3)
    <3>1. /\ (v1 - v2) \in Int /\ (w1 - w2) \in Int /\ (p1 + p2) \in Int
      BY <2>2
    <3> QED BY <1>1, <2>2, <2>5, <2>6, <3>1, AddNear
  <2>8. SumFunction(f) = ((v1 - v2) - v3) /\ SumFunction(price) = ((p1 + p2) + p3)
    <3>1. f[1] = v1 /\ f[2] = -v2 /\ f[3] = -v3
      BY <1>2, <2>1
    <3>2. SumFunction(f) = f[1] + f[2] + f[3]
      BY <1>3, <1>6, SumOfSymbols
    <3>3. SumFunction(price) = price[1] + price[2] + price[3]
      BY <1>3, <1>6, SumOfSymbols
    <3> QED BY <2>2, <3>1, <3>2, <3>3
  <2>9. -2 <= ((w1 - w2) - w3) /\ ((w1 - w2) - w3) <= 2
    BY <1>1, <1>6, <2>1, SidesMatch
  <2>10. ((w1 - w2) - w3) \in Int /\ ((v1 - v2) - v3) \in Int /\ ((p1 + p2) + p3) \in Int
    BY <2>2
  <2> QED BY <1>4, <1>6, <2>7, <2>8, <2>9, <2>10
<1>7. CASE K = 4
  <2>1. LeadSymbols = 2 /\ 1 \in Symbols /\ 2 \in Symbols /\ 3 \in Symbols /\ 4 \in Symbols
    BY <1>7 DEF LeadSymbols, Symbols
  <2> PICK v1, w1, p1, v2, w2, p2, v3, w3, p3, v4, w4, p4 :
         /\ v1 = V[1] /\ w1 = W[1] /\ p1 = price[1]
         /\ v2 = V[2] /\ w2 = W[2] /\ p2 = price[2]
         /\ v3 = V[3] /\ w3 = W[3] /\ p3 = price[3]
         /\ v4 = V[4] /\ w4 = W[4] /\ p4 = price[4]
    OBVIOUS
  <2>2. /\ v1 \in Int /\ w1 \in Int /\ p1 \in Int
        /\ v2 \in Int /\ w2 \in Int /\ p2 \in Int
        /\ v3 \in Int /\ w3 \in Int /\ p3 \in Int
        /\ v4 \in Int /\ w4 \in Int /\ p4 \in Int
    BY <1>2, <2>1
  <2>3. /\ -(T * (k * p1 + 2 * 1)) <= 2 * (T * v1) - 2 * (x * w1)
        /\ 2 * (T * v1) - 2 * (x * w1) <= T * (k * p1 + 2 * 1)
    BY <1>2, <2>1, <2>2
  <2>4. /\ -(T * (k * p2 + 2)) <= 2 * (T * v2) - 2 * (x * w2)
        /\ 2 * (T * v2) - 2 * (x * w2) <= T * (k * p2 + 2)
    BY <1>2, <2>1
  <2>5. /\ -(T * (k * (p1 + p2) + 2 * 2)) <= 2 * (T * (v1 + v2)) - 2 * (x * (w1 + w2))
        /\ 2 * (T * (v1 + v2)) - 2 * (x * (w1 + w2)) <= T * (k * (p1 + p2) + 2 * 2)
    <3>1. /\ v1 \in Int /\ w1 \in Int /\ p1 \in Int
      BY <2>2
    <3> QED BY <1>1, <2>2, <2>3, <2>4, <3>1, AddNear
  <2>6. /\ -(T * (k * p3 + 2)) <= 2 * (T * v3) - 2 * (x * w3)
        /\ 2 * (T * v3) - 2 * (x * w3) <= T * (k * p3 + 2)
    BY <1>2, <2>1
  <2>7. /\ -(T * (k * ((p1 + p2) + p3) + 2 * 3)) <= 2 * (T * ((v1 + v2) - v3)) - 2 * (x * ((w1 + w2) - w3))
        /\ 2 * (T * ((v1 + v2) - v3)) - 2 * (x * ((w1 + w2) - w3)) <= T * (k * ((p1 + p2) + p3) + 2 * 3)
    <3>1. /\ (v1 + v2) \in Int /\ (w1 + w2) \in Int /\ (p1 + p2) \in Int
      BY <2>2
    <3> QED BY <1>1, <2>2, <2>5, <2>6, <3>1, AddNear
  <2>8. /\ -(T * (k * p4 + 2)) <= 2 * (T * v4) - 2 * (x * w4)
        /\ 2 * (T * v4) - 2 * (x * w4) <= T * (k * p4 + 2)
    BY <1>2, <2>1
  <2>9. /\ -(T * (k * (((p1 + p2) + p3) + p4) + 2 * 4)) <= 2 * (T * (((v1 + v2) - v3) - v4)) - 2 * (x * (((w1 + w2) - w3) - w4))
        /\ 2 * (T * (((v1 + v2) - v3) - v4)) - 2 * (x * (((w1 + w2) - w3) - w4)) <= T * (k * (((p1 + p2) + p3) + p4) + 2 * 4)
    <3>1. /\ ((v1 + v2) - v3) \in Int /\ ((w1 + w2) - w3) \in Int /\ ((p1 + p2) + p3) \in Int
      BY <2>2
    <3> QED BY <1>1, <2>2, <2>7, <2>8, <3>1, AddNear
  <2>10. SumFunction(f) = (((v1 + v2) - v3) - v4) /\ SumFunction(price) = (((p1 + p2) + p3) + p4)
    <3>1. f[1] = v1 /\ f[2] = v2 /\ f[3] = -v3 /\ f[4] = -v4
      BY <1>2, <2>1
    <3>2. SumFunction(f) = f[1] + f[2] + f[3] + f[4]
      BY <1>3, <1>7, SumOfSymbols
    <3>3. SumFunction(price) = price[1] + price[2] + price[3] + price[4]
      BY <1>3, <1>7, SumOfSymbols
    <3> QED BY <2>2, <3>1, <3>2, <3>3
  <2>11. -2 <= (((w1 + w2) - w3) - w4) /\ (((w1 + w2) - w3) - w4) <= 2
    BY <1>1, <1>7, <2>1, SidesMatch
  <2>12. (((w1 + w2) - w3) - w4) \in Int /\ (((v1 + v2) - v3) - v4) \in Int /\ (((p1 + p2) + p3) + p4) \in Int
    BY <2>2
  <2> QED BY <1>4, <1>7, <2>9, <2>10, <2>11, <2>12
<1> QED BY <1>5, <1>6, <1>7, SizingAssumption

-----------------------------------------------------------------------------
(* The plan of a cycle, from the balances to the quantities.               *)

(* When the size of a plan is known, and when it is positive.              *)
TotalKnown ==
  /\ stage \in {"pick", "sized"} => loaded = 0
  /\ stage = "load" \/ loaded > 0 => TotalSize > 0

SizingInv ==
  /\ SizingTypeOK /\ PlanOK /\ HedgesMatchPrime /\ TotalKnown
  /\ \A s \in 1 .. loaded : SymbolOK(s)

LEMMA NoneLoaded ==
  ASSUME NEW n, n = 0
  PROVE  ~ (n > 0)
OBVIOUS

LEMMA TypesKnown ==
  ASSUME SizingTypeOK
  PROVE  Known
<1>1. /\ Balances \subseteq Nat /\ bals \in [Accounts -> Balances] /\ total \in Nat
      /\ prime \in Accounts /\ N \in Nat /\ cand \in 1 .. N + 1
  BY SizingAssumption DEF SizingTypeOK
<1>2. bals \in [Accounts -> Nat]
  BY <1>1
<1>3. cand \in Nat \ {0}
  BY <1>1
<1> QED BY <1>1, <1>2, <1>3 DEF Known

(* A sum of nothing but zeros.                                             *)
LEMMA SumOfZeros ==
  ASSUME NEW S, IsFiniteSet(S), NEW f, \A x \in S : f[x] = 0
  PROVE  SumFunctionOnSet(f, S) = 0
<1> PICK one \in Int, zero \in Int : one = 1 /\ zero = 0
  OBVIOUS
<1>1. \A x \in S : /\ f[x] \in Int
                   /\ zero <= one * f[x] - zero * f[x] /\ one * f[x] - zero * f[x] <= zero
  OBVIOUS
<1>2. SumFunctionOnSet(f, S) \in Int /\ Cardinality(S) \in Nat
  BY <1>1, SumIsInt, FS_CardinalityType
<1>3. /\ Cardinality(S) * zero <= one * SumFunctionOnSet(f, S) - zero * SumFunctionOnSet(f, S)
      /\ one * SumFunctionOnSet(f, S) - zero * SumFunctionOnSet(f, S) <= Cardinality(S) * zero
  BY <1>1, SumBetween
<1> QED BY <1>2, <1>3

LEMMA PlanInit == SizingInit => SizingInv
<1> SUFFICES ASSUME SizingInit PROVE SizingInv
  OBVIOUS
<1>1. \A a \in Accounts : sizes[a] = 0
  BY DEF SizingInit
<1>2. prime \in Accounts /\ IsFiniteSet(Accounts) /\ IsFiniteSet(Hedges(prime)) /\ N \in Nat
  <2>1. prime \in Accounts /\ IsFiniteSet(Accounts) /\ N \in Nat
    BY SizingAssumption, FS_Interval DEF SizingInit, Accounts
  <2> QED BY <2>1, HedgesKnown
<1>3. SizingTypeOK
  <2>1. bals \in [Accounts -> Nat]
    BY SizingAssumption DEF SizingInit
  <2>2. total \in Nat
    BY <2>1, TotalsAreNat, SizingAssumption DEF SizingInit
  <2>3. K \in Nat /\ 1 \in 1 .. N + 1 /\ 0 \in 0 .. K
    BY SizingAssumption
  <2> QED BY <1>1, <1>2, <2>2, <2>3 DEF SizingInit, SizingTypeOK
<1>4. TotalSize = 0 /\ SumFunctionOnSet(sizes, Hedges(prime)) = 0
  <2>1. DOMAIN sizes = Accounts /\ Hedges(prime) \subseteq Accounts
    BY DEF SizingInit, Hedges
  <2>2. SumFunctionOnSet(sizes, Accounts) = 0
    BY <1>1, <1>2, SumOfZeros
  <2>3. SumFunctionOnSet(sizes, Hedges(prime)) = 0
    BY <1>1, <1>2, <2>1, SumOfZeros
  <2> QED BY <2>1, <2>2, <2>3 DEF TotalSize, SumFunction
<1>5. PlanOK
  BY <1>1, <1>4 DEF PlanOK, SizingInit
<1>6. HedgesMatchPrime
  <2>1. Abs(sizes[prime] - SumFunctionOnSet(sizes, Hedges(prime))) = 0
    BY <1>1, <1>2, <1>4 DEF Abs
  <2>2. 0 <= 0 /\ 0 <= 1
    OBVIOUS
  <2> QED BY <2>1, <2>2, Zenon DEF HedgesMatchPrime
<1>7. TotalKnown /\ \A s \in 1 .. loaded : SymbolOK(s)
  BY DEF TotalKnown, SizingInit
<1> QED BY <1>3, <1>5, <1>6, <1>7 DEF SizingInv

(* A plan with drawn sizes.                                                *)
LEMMA PlanDrawn ==
  ASSUME NEW p \in Accounts, NEW num \in Nat, NEW den \in {2, 10}, NEW drawn \in Drawn(p, num, den),
         HalfWay(num, den) => HalfWay(total, 2) \/ HalfWay(9 * Leverage * bals[p], 10),
         prime' = p, sizes' = drawn, UNCHANGED <<bals, total>>
  PROVE  PlanOK' /\ HedgesMatchPrime' /\ (TotalSize \in Int)'
<1>1. PlanOK'
  BY DrawnKnown DEF PlanOK, TotalSize
<1>2. HedgesMatchPrime'
  <2>1. Abs(drawn[p] - SumFunctionOnSet(drawn, Hedges(p))) <= IF HalfWay(num, den) THEN 1 ELSE 0
    BY DrawnKnown
  <2>2. Abs(drawn[p] - SumFunctionOnSet(drawn, Hedges(p))) \in Int
    <3>1. drawn \in [Accounts -> Int] /\ IsFiniteSet(Hedges(p)) /\ Hedges(p) \subseteq Accounts
      BY DrawnKnown, HedgesKnown DEF Hedges
    <3>2. SumFunctionOnSet(drawn, Hedges(p)) \in Int
      BY <3>1, SumIsInt
    <3>3. drawn[p] \in Int
      BY <3>1
    <3> QED BY <3>2, <3>3 DEF Abs
  <2> DEFINE apart == Abs(drawn[p] - SumFunctionOnSet(drawn, Hedges(p)))
             rounds == HalfWay(total, 2) \/ HalfWay(9 * Leverage * bals[p], 10)
             half == HalfWay(num, den)
  <2>3. (half => rounds) /\ apart \in Int /\ apart <= IF half THEN 1 ELSE 0
    BY <2>1, <2>2
  <2> HIDE DEF apart, rounds, half
  <2>4. apart <= IF rounds THEN 1 ELSE 0
    BY <2>3
  <2> QED BY <2>4 DEF HedgesMatchPrime, Hedges, apart, rounds
<1>3. (TotalSize \in Int)'
  <2>1. drawn \in [Accounts -> Int]
    BY DrawnKnown
  <2>2. IsFiniteSet(Accounts)
    BY SizingAssumption, FS_Interval DEF Accounts
  <2>3. SumFunctionOnSet(drawn, Accounts) \in Int
    BY <2>1, <2>2, SumIsInt
  <2> QED BY <2>1, <2>3 DEF TotalSize, SumFunction
<1> QED BY <1>1, <1>2, <1>3

(* What the plan's invariant says stays while its variables do.            *)
LEMMA PlanKept ==
  ASSUME PlanOK, HedgesMatchPrime, UNCHANGED <<bals, total, prime, sizes>>
  PROVE  PlanOK' /\ HedgesMatchPrime' /\ TotalSize' = TotalSize
BY DEF PlanOK, HedgesMatchPrime, TotalSize, Hedges

LEMMA SymbolKept ==
  ASSUME NEW s, SymbolOK(s), UNCHANGED <<prime, sizes>>,
         price'[s] = price[s], qty'[s] = qty[s]
  PROVE  SymbolOK(s)'
<1>1. OffBalance(s)' = OffBalance(s) /\ TotalSize' = TotalSize /\ TradeSize(s)' = TradeSize(s)
  BY DEF OffBalance, Imbalance, Hedges, TotalSize, TradeSize
<1> QED BY <1>1 DEF SymbolOK, ValueNear

(* While no quantities are known.                                          *)
LEMMA NothingLoaded ==
  ASSUME SizingTypeOK, loaded = 0, loaded' = loaded
  PROVE  (\A s \in 1 .. loaded : SymbolOK(s))'
<1>1. 1 .. loaded' = {}
  OBVIOUS
<1> QED BY <1>1

(* The next candidate is tried, or none is left.                           *)
LEMMA PickStep ==
  ASSUME SizingInv, CandidatePoor \/ CandidateTried \/ Fallback
  PROVE  SizingInv'
<1> USE DEF SizingInv
<1>1. /\ stage = "pick" /\ loaded = 0 /\ UNCHANGED <<bals, total, loaded, price, qty>>
      /\ N \in Nat
  BY SizingAssumption DEF CandidatePoor, CandidateTried, Fallback, TotalKnown
<1>2. (\A s \in 1 .. loaded : SymbolOK(s))'
  BY <1>1, NothingLoaded
<1>3. Known
  BY TypesKnown
<1>4. ASSUME UNCHANGED <<prime, sizes>>, stage' \in {"pick", "no pair"}, cand' \in 1 .. N + 1
      PROVE  SizingInv'
  <2>1. PlanOK' /\ HedgesMatchPrime'
    BY <1>1, <1>4, PlanKept
  <2>2. SizingTypeOK'
    BY <1>1, <1>4 DEF SizingTypeOK
  <2>3. TotalKnown'
    <3>1. loaded' = 0 /\ stage' # "load"
      BY <1>1, <1>4
    <3>2. ~ (loaded' > 0)
      BY <3>1, NoneLoaded
    <3> QED BY <3>1, <3>2 DEF TotalKnown
  <2> QED BY <1>2, <2>1, <2>2, <2>3
<1>5. ASSUME NEW p \in Accounts, NEW num \in Nat, NEW den \in {2, 10},
             NEW drawn \in Drawn(p, num, den),
             HalfWay(num, den) => HalfWay(total, 2) \/ HalfWay(9 * Leverage * bals[p], 10),
             prime' = p, sizes' = drawn, stage' = "sized", cand' = cand
      PROVE  SizingInv'
  <2>1. PlanOK' /\ HedgesMatchPrime'
    BY <1>1, <1>5, PlanDrawn
  <2>2. drawn \in [Accounts -> Int] /\ (N <= 12 => \A a \in Accounts : drawn[a] >= 0)
    BY <1>5, DrawnKnown
  <2>3. SizingTypeOK'
    BY <1>1, <1>5, <2>2 DEF SizingTypeOK
  <2>4. TotalKnown'
    <3>1. loaded' = 0 /\ stage' # "load"
      BY <1>1, <1>5
    <3>2. ~ (loaded' > 0)
      BY <3>1, NoneLoaded
    <3> QED BY <3>1, <3>2 DEF TotalKnown
  <2> QED BY <1>2, <2>1, <2>3, <2>4
<1>6. CASE CandidatePoor
  <2>1. cand' \in 1 .. N + 1 /\ UNCHANGED <<prime, sizes>> /\ stage' = "pick"
    BY <1>1, <1>6 DEF CandidatePoor, SizingTypeOK
  <2> QED BY <1>4, <2>1
<1>7. CASE CandidateTried
  <2>1. PICK drawn \in Drawn(cand, total, 2) :
          IF HedgesCarry(cand, drawn)
          THEN stage' = "sized" /\ prime' = cand /\ sizes' = drawn /\ cand' = cand
          ELSE cand' = cand + 1 /\ UNCHANGED <<stage, prime, sizes>>
    BY <1>7 DEF CandidateTried
  <2>2. cand \in 1 .. N + 1 /\ cand <= N /\ cand \in Accounts
    BY <1>1, <1>7 DEF CandidateTried, SizingTypeOK, Accounts
  <2>3. CASE HedgesCarry(cand, drawn)
    BY <1>3, <1>5, <2>1, <2>2, <2>3 DEF Known
  <2>4. CASE ~ HedgesCarry(cand, drawn)
    <3>1. cand' \in 1 .. N + 1
      BY <1>1, <2>1, <2>2, <2>4
    <3> QED BY <1>1, <1>4, <2>1, <2>4, <3>1
  <2> QED BY <2>3, <2>4
<1>8. CASE Fallback
  <2> DEFINE p == Richest
  <2>1. PICK drawn \in Drawn(p, 9 * Leverage * bals[p], 10) :
          IF HedgesCarry(p, drawn)
          THEN stage' = "sized" /\ prime' = p /\ sizes' = drawn
          ELSE stage' = "no pair" /\ UNCHANGED <<prime, sizes>>
    BY <1>8 DEF Fallback
  <2>2. p \in Accounts /\ cand' = cand /\ cand \in 1 .. N + 1
    BY <1>3, <1>8, RichestExists DEF Fallback, Known, SizingTypeOK
  <2> HIDE DEF p
  <2>3. 9 * Leverage * bals[p] \in Nat
    BY <1>3, <2>2, LimitIsNat
  <2>4. CASE HedgesCarry(p, drawn)
    BY <1>5, <2>1, <2>2, <2>3, <2>4
  <2>5. CASE ~ HedgesCarry(p, drawn)
    BY <1>4, <2>1, <2>2, <2>5
  <2> QED BY <2>4, <2>5
<1> QED BY <1>6, <1>7, <1>8

(* The quantities of the next symbol.                                      *)
LEMMA LoadStep ==
  ASSUME SizingInv, LoadQtys
  PROVE  SizingInv'
<1> USE DEF SizingInv
<1>1. PICK s : s = loaded + 1
  OBVIOUS
<1>2. /\ stage = "load" /\ loaded < K /\ loaded' = s
      /\ stage' = "too small" \/ stage' = stage
      /\ UNCHANGED <<bals, total, cand, prime, sizes>>
  BY <1>1 DEF LoadQtys
<1>3. PICK c \in LotPrices : price' = [price EXCEPT ![s] = c]
  BY <1>1 DEF LoadQtys
<1>4. PICK up \in [Accounts -> BOOLEAN] :
        qty' = [qty EXCEPT ![s] = Balanced([a \in Accounts |-> LotsOf(s, a, up[a])])]
  BY <1>1 DEF LoadQtys
<1>5. /\ K \in Nat /\ loaded \in 0 .. K /\ s \in Symbols /\ s \in 1 .. K /\ c \in Nat \ {0}
      /\ 1 .. loaded' = (1 .. loaded) \cup {s} /\ loaded \in Nat
  <2>1. K \in Nat
    BY SizingAssumption
  <2>2. loaded \in 0 .. K
    BY DEF SizingTypeOK
  <2>3. c \in Nat \ {0}
    BY SizingAssumption, <1>3
  <2>4. loaded \in Nat /\ loaded < K /\ s = loaded + 1 /\ loaded' = s
    <3>1. loaded \in Nat
      BY <2>1, <2>2
    <3>2. loaded < K /\ loaded' = s
      BY <1>2, Zenon
    <3> QED BY <1>1, <3>1, <3>2
  <2>5. s \in 1 .. K
    BY <2>1, <2>4
  <2>6. 1 .. loaded' = (1 .. loaded) \cup {s}
    BY <2>4
  <2> QED BY <2>1, <2>2, <2>3, <2>4, <2>5, <2>6 DEF Symbols
<1>6. /\ price \in [Symbols -> LotPrices \cup {1}] /\ qty \in [Symbols -> [Accounts -> Int]]
      /\ price'[s] = c
      /\ \A t \in Symbols \ {s} : price'[t] = price[t] /\ qty'[t] = qty[t]
  BY <1>3, <1>4, <1>5 DEF SizingTypeOK
<1>7. TotalSize > 0 /\ Known
  BY <1>2, TypesKnown DEF TotalKnown
<1> PICK lots, q : lots = [a \in Accounts |-> LotsOf(s, a, up[a])] /\ q = Balanced(lots)
  OBVIOUS
<1>8. qty' = [qty EXCEPT ![s] = q] /\ qty'[s] = q
  BY <1>4, <1>5, <1>6
<1>9. /\ q \in [Accounts -> Int] /\ Imbalance(q) \in Int
      /\ N <= 12 => \A a \in Accounts : q[a] >= 0
      /\ Imbalance(q) # 0 => /\ 2 * Abs(Imbalance(q)) * c <= N * c + 2
                            /\ \E a \in Accounts : q[a] <= Abs(Imbalance(q))
      /\ \A a \in Accounts :
           LET off == 2 * (TotalSize * (q[a] * c)) - 2 * (sizes[a] * TradeSize(s))
               most == TotalSize * ((N + 1) * c + 2)
           IN  -most <= off /\ off <= most
  BY <1>5, <1>6, <1>7, LotsLoaded
<1>10. PlanOK' /\ HedgesMatchPrime' /\ TotalSize' = TotalSize
  BY <1>2, PlanKept
<1>11. SizingTypeOK'
  <2>1. price' \in [Symbols -> LotPrices \cup {1}] /\ qty' \in [Symbols -> [Accounts -> Int]]
    BY <1>3, <1>5, <1>6, <1>8, <1>9
  <2>2. N <= 12 => \A a \in Accounts : sizes'[a] >= 0 /\ \A t \in Symbols : qty'[t][a] >= 0
    BY <1>2, <1>6, <1>8, <1>9 DEF SizingTypeOK
  <2>3. loaded' \in 0 .. K
    <3>1. s \in 0 .. K
      BY <1>5
    <3> QED BY <1>2, <3>1
  <2> QED BY <1>2, <2>1, <2>2, <2>3 DEF SizingTypeOK
<1>12. TotalKnown'
  BY <1>2, <1>7, <1>10 DEF TotalKnown
<1>13. SymbolOK(s)'
  <2>1. OffBalance(s)' = Abs(Imbalance(q)) /\ TradeSize(s)' = TradeSize(s)
    BY <1>2, <1>8 DEF OffBalance, Imbalance, Hedges, TradeSize, TotalSize
  <2>2. OffBalance(s)' # 0 => Imbalance(q) # 0
    BY <2>1 DEF Abs
  <2>3. \A a \in Accounts : ValueNear(s, a)'
    BY <1>2, <1>6, <1>8, <1>9, <1>10, <2>1 DEF ValueNear
  <2> QED BY <1>5, <1>6, <1>8, <1>9, <2>1, <2>2, <2>3 DEF SymbolOK
<1>14. (\A t \in 1 .. loaded : SymbolOK(t))'
  <2>1. ASSUME NEW t \in 1 .. loaded PROVE SymbolOK(t)'
    <3>1. t \in Symbols \ {s}
      BY <1>1, <1>5 DEF Symbols
    <3> QED BY <1>2, <1>6, <2>1, <3>1, SymbolKept
  <2> QED BY <1>5, <1>13, <2>1
<1> QED BY <1>10, <1>11, <1>12, <1>14

LEMMA SizingStep == SizingInv /\ [SizingNext]_sizingVars => SizingInv'
<1> SUFFICES ASSUME SizingInv, [SizingNext]_sizingVars PROVE SizingInv'
  OBVIOUS
<1>1. CASE CandidatePoor \/ CandidateTried \/ Fallback
  BY <1>1, PickStep
<1>2. CASE LoadQtys
  BY <1>2, LoadStep
<1>3. CASE PlanTrades
  <2>1. PlanOK' /\ HedgesMatchPrime' /\ TotalSize' = TotalSize
    BY <1>3, PlanKept DEF PlanTrades, SizingInv
  <2>2. SizingTypeOK' /\ loaded = 0 /\ loaded' = loaded
    BY <1>3 DEF PlanTrades, SizingInv, SizingTypeOK, TotalKnown
  <2>3. TotalKnown'
    <3>1. TotalSize \in Int
      BY TotalIsInt DEF SizingInv
    <3>2. stage' = (IF TotalSize <= 0 THEN "no pair" ELSE "load")
      BY <1>3 DEF PlanTrades
    <3>3. ~ (loaded' > 0)
      BY <2>2, NoneLoaded
    <3>4. stage' = "load" => TotalSize' > 0
      BY <2>1, <3>1, <3>2
    <3>5. stage' \notin {"pick", "sized"}
      BY <3>2
    <3> QED BY <3>3, <3>4, <3>5 DEF TotalKnown
  <2>4. (\A s \in 1 .. loaded : SymbolOK(s))'
    BY <2>2, NothingLoaded DEF SizingInv
  <2> QED BY <2>1, <2>2, <2>3, <2>4 DEF SizingInv
<1>4. CASE UNCHANGED sizingVars
  <2>1. PlanOK' /\ HedgesMatchPrime' /\ TotalSize' = TotalSize
    BY <1>4, PlanKept DEF sizingVars, SizingInv
  <2>2. SizingTypeOK' /\ TotalKnown'
    BY <1>4, <2>1 DEF sizingVars, SizingInv, SizingTypeOK, TotalKnown
  <2>3. (\A s \in 1 .. loaded : SymbolOK(s))'
    BY <1>4, SymbolKept DEF sizingVars, SizingInv
  <2> QED BY <2>1, <2>2, <2>3 DEF SizingInv
<1> QED BY <1>1, <1>2, <1>3, <1>4 DEF SizingNext

-----------------------------------------------------------------------------
(* The theorems about the plan.                                            *)

(* The invariant holds in every state of every plan.                       *)
THEOREM SizingInvariance == SizingSpec => []SizingInv
BY PlanInit, SizingStep, PTL DEF SizingSpec

(* Every variable keeps its type, and up to twelve accounts never have a   *)
(* size or a quantity below zero.                                          *)
THEOREM SizingTypes == SizingSpec => []SizingTypeOK
<1>1. SizingInv => SizingTypeOK
  BY DEF SizingInv
<1> QED BY SizingInvariance, <1>1, PTL

(* The hedges add up to the prime size to the cent, whatever the noise     *)
(* (random_partition and find_safe_pair).                                  *)
THEOREM HedgesAddUp == SizingSpec => []HedgesMatchPrime
<1>1. SizingInv => HedgesMatchPrime
  BY DEF SizingInv
<1> QED BY SizingInvariance, <1>1, PTL

(* Symbols and accounts balance up to the lots they are rounded to         *)
(* (calc_symbol_sizes and load_qtys).                                      *)
THEOREM BasketsBalance == SizingSpec => []BasketNeutral
<1>1. SizingInv => BasketNeutral
  <2> SUFFICES ASSUME SizingInv PROVE ImbalanceBounded /\ AccountsNetOut
    BY DEF BasketNeutral
  <2>1. ImbalanceBounded
    BY DEF SizingInv, SymbolOK, ImbalanceBounded
  <2>2. AccountsNetOut
    <3> SUFFICES ASSUME K > 1, loaded = K, NEW a \in Accounts
                 PROVE  2 * Abs(SumFunction([s \in Symbols |-> SignedValue(s, a)]))
                          <= (N + 1) * SumFunction(price) + 4 * K
      BY DEF AccountsNetOut
    <3>1. PlanOK /\ qty \in [Symbols -> [Accounts -> Int]] /\ DOMAIN price = Symbols
      BY DEF SizingInv, SizingTypeOK
    <3>2. \A s \in Symbols : SymbolOK(s)
      BY DEF SizingInv, Symbols
    <3>3. TotalSize > 0
      <4>1. loaded > 0
        BY SizingAssumption
      <4> QED BY <4>1 DEF SizingInv, TotalKnown
    <3> QED BY <3>1, <3>2, <3>3, AccountBalances
  <2> QED BY <2>1, <2>2
<1> QED BY SizingInvariance, <1>1, PTL

-----------------------------------------------------------------------------
(* The inductive invariant.                                                *)

(* What the orders of the call were asked to execute is the quantity       *)
(* wanted and what executed unseen, and a request is never empty.          *)
Books ==
  /\ staleFilled + staleOpen + size = Qty + unseen
  /\ book = "none" => filled = 0
  /\ book = "live" => filled < size
  /\ book = "filled" => filled = size
  /\ pc \in {"place", "replace", "market"} => book = "none" /\ size > 0
  /\ pc \in {"place", "replace"} => seen = 0
  /\ pc = "returned" => book # "live" /\ (book = "none" => size = 0)
  /\ staleOpen > 0 => refused

(* The span a poll loop is in: filled_since, when set, lies in the window. *)
Polling == {"sleep", "poll", "price"}

CheckAt == TimeoutStartedAt(filledSince)

SinceOK ==
  pc \in Polling /\ filledSince # Never =>
    /\ windowAt <= filledSince
    /\ filledSince - windowAt <= Patience + 2 * MaxDelay

(* How long the call has stayed in its window, by what it waits for.       *)
StageOK ==
  /\ pc \in Waiting => now - acted <= MaxDelay
  /\ pc = "place" => acted = 0 /\ started = 0 /\ windowAt = 0 /\ filledSince = Never
  /\ pc = "sleep" => acted - CheckAt <= Patience
  /\ pc = "poll" => acted - CheckAt <= Patience + MaxDelay
  /\ pc = "price" => acted - CheckAt <= Patience + 2 * MaxDelay
  /\ pc = "repriceCancel" => acted = windowAt
  /\ pc = "replace" => acted - windowAt <= MaxDelay
  /\ pc = "fallbackCancel" => acted - windowAt <= Window
  /\ pc = "market" => acted - windowAt <= Window + MaxDelay
  /\ acted - windowAt <= Window + 2 * MaxDelay

(* Every window before this one has ended in time.                         *)
WindowsOK ==
  /\ started <= windowAt
  /\ windowAt - started <= extensions * Window

Clocks == SinceOK /\ StageOK /\ WindowsOK

Inv == TypeOK /\ Books /\ Clocks

-----------------------------------------------------------------------------
(* Arithmetic.                                                             *)

(* The two spans and the five awaits of a window have a length.            *)
LEMMA WindowLength ==
  /\ Patience \in Nat /\ Timeout <= Patience /\ 2 * MaxDelay <= Patience
  /\ Window \in Nat
  /\ Window = 2 * Patience + 5 * MaxDelay
BY ParamsAssumption DEF Patience, Window

(* A sum grows with its second part.                                       *)
LEMMA SumGrows ==
  ASSUME NEW a \in Nat, NEW b \in Nat, NEW c \in Nat, NEW d \in Nat,
         a = b, c >= d
  PROVE  a + c >= b + d
OBVIOUS

(* One window more.                                                        *)
LEMMA NextWindow ==
  ASSUME NEW n \in Nat, NEW w \in Nat
  PROVE  n * w \in Nat /\ (n + 1) * w = n * w + w
OBVIOUS

(* Fewer windows take less time.                                           *)
LEMMA FewerWindows ==
  ASSUME NEW m \in Nat, NEW n \in Nat, m <= n, NEW w \in Nat
  PROVE  m * w <= n * w
<1> DEFINE d == n - m
<1>1. d \in Nat /\ n = m + d
  OBVIOUS
<1>2. d * w \in Nat /\ m * w \in Nat
  BY <1>1
<1>3. n * w = m * w + d * w
  BY <1>1
<1> QED BY <1>2, <1>3
-----------------------------------------------------------------------------
(* The initial state satisfies the invariant.                              *)
LEMMA InitInv == Init => Inv
<1> SUFFICES ASSUME Init PROVE Inv
  OBVIOUS
<1> USE ParamsAssumption DEF Init
<1>1. TypeOK
  <2>1. pc \in Waiting \cup Ended /\ book \in {"none", "live", "filled", "canceled"}
    BY DEF Waiting
  <2>2. filledSince \in {Never} \cup (0..now)
    OBVIOUS
  <2>3. refused \in BOOLEAN
    OBVIOUS
  <2> QED BY <2>1, <2>2, <2>3 DEF TypeOK
<1>2. Books
  BY DEF Books, Waiting
<1>3. Clocks
  BY WindowLength DEF Clocks, SinceOK, StageOK, WindowsOK, CheckAt,
     TimeoutStartedAt, Polling, Waiting, Never
<1> QED BY <1>1, <1>2, <1>3 DEF Inv

(* Every step of the call and of the exchange keeps the types.             *)
LEMMA TypeStep == Inv /\ [Next]_vars => TypeOK'
<1> SUFFICES ASSUME Inv, [Next]_vars PROVE TypeOK'
  OBVIOUS
<1> USE ParamsAssumption DEF Inv, TypeOK, Waiting, Ended, Goto, Never
<1>1. CASE Tick
  BY <1>1 DEF Tick, clockVars, orderVars, staleVars
<1>2. CASE Place
  BY <1>2 DEF Place, Rests, FillsAtOnce, clockVars, orderVars, staleVars, Books
<1>3. CASE Replace
  BY <1>3 DEF Replace, Rests, FillsAtOnce, clockVars, orderVars, staleVars, Books
<1>4. CASE Wake
  BY <1>4 DEF Wake, clockVars, orderVars, staleVars
<1>5. CASE PollNothing
  BY <1>5 DEF PollNothing, Elapsed, orderVars, staleVars
<1>6. CASE PollEnded
  BY <1>6 DEF PollEnded, clockVars, orderVars, staleVars
<1>7. CASE PollOpen
  BY <1>7 DEF PollOpen, FilledSinceNow, TimeoutStartedAt, orderVars, staleVars, Books
<1>8. CASE ExtendBboStable
  BY <1>8 DEF ExtendBboStable, CanRetry, orderVars, staleVars
<1>9. CASE StartReprice
  BY <1>9 DEF StartReprice, CanRetry, orderVars, staleVars
<1>10. CASE RetriesExhausted
  BY <1>10 DEF RetriesExhausted, clockVars, orderVars, staleVars
<1>11. CASE RepriceCancel
  BY <1>11 DEF RepriceCancel, CancelOrder, StillOpen, Remaining, Books
<1>12. CASE FallbackCancel
  BY <1>12 DEF FallbackCancel, CancelOrder, StillOpen, Remaining, Books
<1>13. CASE MarketOrder
  BY <1>13 DEF MarketOrder, staleVars, Books
<1>14. CASE Raise
  BY <1>14 DEF Raise, Rests, staleVars, Books
<1>15. CASE Fill
  BY <1>15 DEF Fill, clockVars, staleVars, Books
<1>16. CASE FillStale
  BY <1>16 DEF FillStale, clockVars, orderVars, staleVars
<1>17. CASE ExchangeCancels
  BY <1>17 DEF ExchangeCancels, clockVars, orderVars, staleVars
<1>18. CASE UNCHANGED vars
  BY <1>18 DEF vars, clockVars, orderVars, staleVars
<1> QED
  BY <1>1, <1>2, <1>3, <1>4, <1>5, <1>6, <1>7, <1>8, <1>9, <1>10, <1>11, <1>12, <1>13, <1>14, <1>15, <1>16, <1>17, <1>18 DEF Next, Coroutine, Exchange

(* Giving an order up moves its quantity to the past: what is left to      *)
(* order, what it executed and what still rests add up to its size and     *)
(* what was not seen of it.                                                *)
LEMMA CancelOrderBooks ==
  ASSUME Inv, NEW leftOpen \in {0, StillOpen}, CancelOrder(leftOpen)
  PROVE  /\ staleFilled' + staleOpen' + size' = Qty + unseen'
         /\ book' = "none" /\ filled' = 0 /\ seen' = 0
         /\ staleOpen' > 0 => refused'
<1> USE ParamsAssumption DEF Inv, TypeOK, Books, CancelOrder, Remaining
<1>1. leftOpen \in Nat
  BY DEF StillOpen
<1>2. staleFilled' + staleOpen' + size' = Qty + unseen'
  BY <1>1
<1>3. ASSUME staleOpen' > 0 PROVE refused'
  <2>1. CASE leftOpen > 0
    BY <2>1
  <2>2. CASE ~(leftOpen > 0)
    <3>1. staleOpen > 0
      BY <1>1, <1>3, <2>2
    <3> QED BY <3>1
  <2> QED BY <2>1, <2>2
<1> QED BY <1>2, <1>3

(* Every step keeps the accounting of quantities.                          *)
LEMMA BooksStep == Inv /\ [Next]_vars => Books'
<1> SUFFICES ASSUME Inv, [Next]_vars PROVE Books'
  OBVIOUS
<1> USE ParamsAssumption DEF Inv, TypeOK, Waiting, Ended, Goto, Books
<1>1. CASE Tick
  BY <1>1 DEF Tick, clockVars, orderVars, staleVars
<1>2. CASE Place
  BY <1>2 DEF Place, Rests, FillsAtOnce, staleVars
<1>3. CASE Replace
  BY <1>3 DEF Replace, Rests, FillsAtOnce, staleVars
<1>4. CASE Wake
  BY <1>4 DEF Wake, clockVars, orderVars, staleVars
<1>5. CASE PollNothing
  BY <1>5 DEF PollNothing, orderVars, staleVars
<1>6. CASE PollEnded
  BY <1>6 DEF PollEnded, clockVars, orderVars, staleVars
<1>7. CASE PollOpen
  BY <1>7 DEF PollOpen, FilledSinceNow, TimeoutStartedAt, orderVars, staleVars
<1>8. CASE ExtendBboStable
  BY <1>8 DEF ExtendBboStable, orderVars, staleVars
<1>9. CASE StartReprice
  BY <1>9 DEF StartReprice, orderVars, staleVars
<1>10. CASE RetriesExhausted
  BY <1>10 DEF RetriesExhausted, clockVars, orderVars, staleVars
<1>11. CASE RepriceCancel
  <2> PICK leftOpen \in {0, StillOpen} : CancelOrder(leftOpen)
    BY <1>11 DEF RepriceCancel
  <2>1. pc' \in {"replace", "returned"} /\ (pc' = "replace" => Remaining > 0)
    BY <1>11 DEF RepriceCancel, Remaining
  <2>2. size' = Remaining
    BY DEF CancelOrder
  <2>3. pc' = "returned" => size' = 0
    BY <1>11, <2>2 DEF RepriceCancel, Remaining
  <2> QED BY <2>1, <2>2, <2>3, CancelOrderBooks
<1>12. CASE FallbackCancel
  <2> PICK leftOpen \in {0, StillOpen} : CancelOrder(leftOpen)
    BY <1>12 DEF FallbackCancel
  <2>1. pc' \in {"market", "raised"} /\ (pc' = "market" => Remaining > 0)
    BY <1>12 DEF FallbackCancel, Remaining
  <2>2. size' = Remaining
    BY DEF CancelOrder
  <2> QED BY <2>1, <2>2, CancelOrderBooks
<1>13. CASE MarketOrder
  BY <1>13 DEF MarketOrder, clockVars, orderVars, staleVars
<1>14. CASE Raise
  BY <1>14 DEF Raise, Rests, staleVars
<1>15. CASE Fill
  BY <1>15 DEF Fill, clockVars, orderVars, staleVars
<1>16. CASE FillStale
  BY <1>16 DEF FillStale, clockVars, orderVars, staleVars
<1>17. CASE ExchangeCancels
  BY <1>17 DEF ExchangeCancels, clockVars, orderVars, staleVars
<1>18. CASE UNCHANGED vars
  BY <1>18 DEF vars, clockVars, orderVars, staleVars
<1> QED
  BY <1>1, <1>2, <1>3, <1>4, <1>5, <1>6, <1>7, <1>8, <1>9, <1>10, <1>11, <1>12, <1>13, <1>14, <1>15, <1>16, <1>17, <1>18 DEF Next, Coroutine, Exchange

(* Every step keeps the accounting of time.                                *)
LEMMA ClocksStep == Inv /\ [Next]_vars => Clocks'
<1> SUFFICES ASSUME Inv, [Next]_vars PROVE Clocks'
  OBVIOUS
<1> USE ParamsAssumption, WindowLength DEF Inv, TypeOK, Waiting, Ended, Goto, Polling, Clocks, SinceOK, StageOK, WindowsOK, CheckAt, TimeoutStartedAt, Never
<1>0. /\ extensions * Window \in Nat
      /\ (extensions + 1) * Window = extensions * Window + Window
  BY NextWindow
<1>1. CASE Tick
  BY <1>1 DEF Tick, clockVars, orderVars, staleVars
<1>2. CASE Place
  BY <1>2 DEF Place, staleVars
<1>3. CASE Replace
  BY <1>3 DEF Replace, staleVars
<1>4. CASE Wake
  BY <1>4 DEF Wake
<1>5. CASE PollNothing
  BY <1>5 DEF PollNothing, Elapsed
<1>6. CASE PollEnded
  BY <1>6 DEF PollEnded
<1>7. CASE PollOpen
  BY <1>7 DEF PollOpen, FilledSinceNow
<1>8. CASE ExtendBboStable
  BY <1>8 DEF ExtendBboStable, CanRetry
<1>9. CASE StartReprice
  BY <1>9 DEF StartReprice, CanRetry
<1>10. CASE RetriesExhausted
  BY <1>10 DEF RetriesExhausted
<1>11. CASE RepriceCancel
  BY <1>11 DEF RepriceCancel
<1>12. CASE FallbackCancel
  BY <1>12 DEF FallbackCancel
<1>13. CASE MarketOrder
  BY <1>13 DEF MarketOrder
<1>14. CASE Raise
  BY <1>14 DEF Raise
<1>15. CASE Fill
  BY <1>15 DEF Fill, clockVars, orderVars, staleVars
<1>16. CASE FillStale
  BY <1>16 DEF FillStale, clockVars, orderVars, staleVars
<1>17. CASE ExchangeCancels
  BY <1>17 DEF ExchangeCancels, clockVars, orderVars, staleVars
<1>18. CASE UNCHANGED vars
  BY <1>18 DEF vars, clockVars, orderVars, staleVars
<1> QED
  BY <1>1, <1>2, <1>3, <1>4, <1>5, <1>6, <1>7, <1>8, <1>9, <1>10, <1>11, <1>12, <1>13, <1>14, <1>15, <1>16, <1>17, <1>18 DEF Next, Coroutine, Exchange

-----------------------------------------------------------------------------
(* The invariant holds of every behaviour of the call.                     *)
THEOREM Invariance == Spec => []Inv
<1>1. Inv /\ [Next]_vars => Inv'
  BY TypeStep, BooksStep, ClocksStep DEF Inv
<1> QED BY InitInv, <1>1, PTL DEF Spec

(* The variables keep their types, for every value of the constants.       *)
THEOREM TypeCorrect == Spec => []TypeOK
<1>1. Inv => TypeOK
  BY DEF Inv
<1> QED BY Invariance, <1>1, PTL

(* However polls, fills, cancels and replacements interleave, the orders   *)
(* of a call execute at most the quantity asked for and what executed      *)
(* between a poll and the cancel that followed it.                         *)
THEOREM OverfillIsUnseen == Spec => []OverfillOnlyUnseen
<1>1. Inv => OverfillOnlyUnseen
  BY ParamsAssumption DEF Inv, TypeOK, Books, OverfillOnlyUnseen
<1> QED BY Invariance, <1>1, PTL

(* A call that returns has executed, over its orders, no less than it was  *)
(* asked for, but for what a refused cancel left open and what the market  *)
(* order found no counterpart for.                                         *)
THEOREM FilledIsComplete == Spec => []FilledMeansTarget
<1>1. Inv => FilledMeansTarget
  BY ParamsAssumption DEF Inv, TypeOK, Books, FilledMeansTarget
<1> QED BY Invariance, <1>1, PTL

(* No order of the call is left behind unless a cancel was refused.        *)
THEOREM NothingLeftBehind == Spec => []NoStrayOrder
<1>1. Inv => NoStrayOrder
  BY DEF Inv, Books, NoStrayOrder
<1> QED BY Invariance, <1>1, PTL

(* The three together.                                                     *)
THEOREM AddsUp == Spec => []OrdersAddUp
BY OverfillIsUnseen, FilledIsComplete, NothingLeftBehind, PTL DEF OrdersAddUp

(* The call ends, or opens its next window, within two timeouts and five   *)
(* awaits per window, for every retry budget.                              *)
THEOREM WaitIsBounded == Spec => []WaitBounded
<1>1. ASSUME Inv PROVE WaitBounded
  <2> USE <1>1, ParamsAssumption, WindowLength DEF Inv, TypeOK, Clocks
  <2>1. acted - started <= extensions * Window + Window + 2 * MaxDelay
    BY NextWindow DEF StageOK, WindowsOK
  <2>2. extensions * Window <= MaxRetries * Window
    BY FewerWindows
  <2>3. (MaxRetries + 1) * Window = MaxRetries * Window + Window
    BY NextWindow
  <2>4. extensions * Window \in Nat /\ MaxRetries * Window \in Nat
    BY NextWindow
  <2> QED BY <2>1, <2>2, <2>3, <2>4 DEF WaitBounded
<1> QED BY Invariance, <1>1, PTL

(* No step takes back what was executed, and once the call has ended       *)
(* nothing it may execute is added.                                        *)
LEMMA Monotone ==
  ASSUME Inv, [Next]_vars
  PROVE  /\ staleFilled' + filled' >= staleFilled + filled
         /\ unseen' >= unseen
         /\ pc \in Ended => pc' = pc /\ unseen' = unseen
<1> USE ParamsAssumption DEF Inv, TypeOK, Waiting, Ended, Goto, orderVars, staleVars
<1>1. CASE Tick
  BY <1>1 DEF Tick
<1>2. CASE Place
  BY <1>2 DEF Place, Rests, FillsAtOnce, Books
<1>3. CASE Replace
  BY <1>3 DEF Replace, Rests, FillsAtOnce, Books
<1>4. CASE Wake
  BY <1>4 DEF Wake
<1>5. CASE PollNothing
  BY <1>5 DEF PollNothing
<1>6. CASE PollEnded
  BY <1>6 DEF PollEnded
<1>7. CASE PollOpen
  BY <1>7 DEF PollOpen
<1>8. CASE ExtendBboStable
  BY <1>8 DEF ExtendBboStable
<1>9. CASE StartReprice
  BY <1>9 DEF StartReprice
<1>10. CASE RetriesExhausted
  BY <1>10 DEF RetriesExhausted
<1>11. CASE RepriceCancel
  <2> PICK leftOpen \in {0, StillOpen} : CancelOrder(leftOpen)
    BY <1>11 DEF RepriceCancel
  <2>1. leftOpen \in Nat
    BY DEF StillOpen
  <2>2. staleFilled' = staleFilled + filled /\ filled' = 0
        /\ unseen' = unseen + (filled - seen) + leftOpen
    BY DEF CancelOrder
  <2> QED BY <2>1, <2>2, <1>11 DEF RepriceCancel
<1>12. CASE FallbackCancel
  <2> PICK leftOpen \in {0, StillOpen} : CancelOrder(leftOpen)
    BY <1>12 DEF FallbackCancel
  <2>1. leftOpen \in Nat
    BY DEF StillOpen
  <2>2. staleFilled' = staleFilled + filled /\ filled' = 0
        /\ unseen' = unseen + (filled - seen) + leftOpen
    BY DEF CancelOrder
  <2> QED BY <2>1, <2>2, <1>12 DEF FallbackCancel
<1>13. CASE MarketOrder
  <2>1. filled = 0 /\ filled' \in Nat
    BY <1>13 DEF MarketOrder, Books
  <2>2. staleFilled' = staleFilled
    BY <1>13 DEF MarketOrder
  <2>3. unseen' = unseen
    BY <1>13 DEF MarketOrder
  <2>4. pc = "market"
    BY <1>13 DEF MarketOrder
  <2>5. staleFilled' + filled' >= staleFilled + filled
    <3>1. staleFilled \in Nat /\ staleFilled' \in Nat
      BY <2>2
    <3>2. filled \in Nat /\ filled' >= filled
      BY <2>1
    <3> QED BY <2>1, <2>2, <3>1, <3>2, SumGrows
  <2> QED BY <2>3, <2>4, <2>5
<1>14. CASE Raise
  BY <1>14 DEF Raise, Rests, Books
<1>15. CASE Fill
  BY <1>15 DEF Fill
<1>16. CASE FillStale
  BY <1>16 DEF FillStale
<1>17. CASE ExchangeCancels
  BY <1>17 DEF ExchangeCancels
<1>18. CASE UNCHANGED vars
  BY <1>18 DEF vars
<1> QED
  BY <1>1, <1>2, <1>3, <1>4, <1>5, <1>6, <1>7, <1>8, <1>9, <1>10, <1>11, <1>12, <1>13, <1>14, <1>15, <1>16, <1>17, <1>18 DEF Next, Coroutine, Exchange

(* Every step of the call is a step its contract allows: what it has       *)
(* executed stays within what it may execute, and its outcome stands.      *)
THEOREM Refinement == Spec => KeepsContract
<1>1. Init => FC!Init
  BY ParamsAssumption DEF Init, FC!Init, Outcome, Ended
<1>2. ASSUME Inv PROVE staleFilled + filled <= Qty + unseen
  BY <1>2, ParamsAssumption DEF Inv, TypeOK, Books
<1>3. ASSUME Inv, (staleFilled + filled <= Qty + unseen)', [Next]_vars
      PROVE  [FC!Next]_FC!contractVars
  <2> USE <1>3, Monotone, ParamsAssumption DEF FC!WithinAllowance, Outcome
  <2>0. unseen \in Nat /\ unseen' \in Nat /\ Qty + unseen' >= Qty + unseen
    BY TypeStep DEF Inv, TypeOK
  <2>1. CASE pc \in Ended
    <3>1. FC!Execute
      BY <2>1 DEF FC!Execute
    <3> QED BY <3>1 DEF FC!Next
  <2>2. CASE pc \notin Ended /\ pc' \in Ended
    <3>1. FC!End
      BY <2>0, <2>2 DEF FC!End, FC!Outcomes, Ended
    <3> QED BY <3>1 DEF FC!Next
  <2>3. CASE pc \notin Ended /\ pc' \notin Ended
    <3>1. FC!GiveUpOrder
      BY <2>0, <2>3 DEF FC!GiveUpOrder
    <3> QED BY <3>1 DEF FC!Next
  <2> QED BY <2>1, <2>2, <2>3
<1> QED BY Invariance, <1>1, <1>2, <1>3, PTL DEF Spec, KeepsContract, FC!Spec
=============================================================================
