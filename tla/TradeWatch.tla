----------------------------- MODULE TradeWatch -----------------------------
(***************************************************************************)
(* The two polling loops of a cycle (src/strategy): wait_for_entry_quality *)
(* holds a basket back until every market it trades is cheap enough to     *)
(* enter, and monitor_trades watches the open positions until the planned  *)
(* time is over, something is wrong with a leg, or the group must stop.    *)
(*                                                                         *)
(* Time counts in ticks.  A request is answered within MaxRequest ticks    *)
(* and a sleep ends on time; books, prices and positions change between    *)
(* any two steps.  Opening takes no time here and never fails (DeltaCycle  *)
(* has what happens when it does), and RepeatErrorGuard only logs.         *)
(***************************************************************************)
EXTENDS EntryQuality, Integers, FiniteSets, Functions

CONSTANTS
  Symbols,      (* the markets of the basket                                *)
  Accounts,     (* a leg per market and account                             *)
  Qty,          (* account -> lots of its leg                               *)
  Buys,         (* the accounts that buy                                    *)
  Books,        (* the order books the exchange can show                    *)
  Prices,       (* the mark prices                                          *)
  FirstPrice,   (* the one all markets start at                             *)
  MaxSpread,    (* cfg.max_entry_spread_pct                                 *)
  GateWait,     (* cfg.entry_gate_wait                                      *)
  GatePoll,     (* cfg.entry_gate_poll                                      *)
  Duration,     (* the planned holding time                                 *)
  Heartbeat,    (* cfg.trade_heartbeat                                      *)
  LegLimit,     (* cfg.position_roi_limit, in percent                       *)
  BasketLimit,  (* cfg.combined_roi_limit, in percent                       *)
  MaxRequest,   (* longest time a request takes                             *)
  MaxEvents     (* bound on the changes of books, prices and positions      *)

ASSUME WatchAssumption ==
  /\ Qty \in [Accounts -> Nat \ {0}]
  /\ Buys \subseteq Accounts
  /\ Prices \subseteq Nat \ {0}
  /\ FirstPrice \in Prices
  /\ GateWait \in Nat /\ GatePoll \in Nat \ {0}
  /\ Duration \in Nat /\ Heartbeat \in Nat \ {0}
  /\ MaxRequest \in Nat /\ MaxEvents \in Nat

VARIABLES
  now,       (* the clock of the gate, and again that of the hold           *)
  phase,     (* "gate", "hold", and how the basket ended                    *)
  gated,     (* the gate is configured                                      *)
  gate,      (* symbol -> the state of its gate, and when it must move on   *)
  readAt,    (* symbol -> history: when its last book was read              *)
  watch,     (* the state of monitor_trades, and when it must move on       *)
  seen,      (* leg -> what the running check has read of it                *)
  book,      (* symbol -> its order book, while a gate looks at it          *)
  price,     (* symbol -> its mark price                                    *)
  position,  (* leg -> lots and entry price of its position                 *)
  stopAt,    (* when stop_event was set, or Never                           *)
  brokenAt,  (* leg -> cause -> history: broken since when, or Never        *)
  failedAt,  (* history: when a check last failed to be answered            *)
  hurt,      (* history: a leg was broken while the basket was held         *)
  shifted,   (* history: something moved while a check was running          *)
  events     (* changes of books, prices and positions so far               *)

gateVars == <<gated, gate, readAt>>
watchVars == <<watch, seen, failedAt>>
marketVars == <<book, price, position, brokenAt, hurt, shifted, events>>
vars == <<now, phase, stopAt, gateVars, watchVars, marketVars>>

Never == -1

NoBook == [bids |-> <<>>, asks |-> <<>>]

(* What a check knows of a leg: nothing yet, that there is no position, or *)
(* the position, without and with the price it stands at.                  *)
Reading(at, p, m) == [at |-> at, lots |-> p.lots, entry |-> p.entry, price |-> m]
NoPosition == [lots |-> 0, entry |-> 0]
Unread == Reading("unread", NoPosition, 0)
Missing == Reading("missing", NoPosition, 0)

(* A leg is closed for its position or for its price.                      *)
Causes == {"position", "price"}

Legs == Symbols \X Accounts
Over == {"skipped", "failed", "full time", "closed early"}
Least(a, b) == IF a < b THEN a ELSE b

LotsOn(side) == SumFunctionOnSet(Qty, side)

(***************************************************************************)
(* The entry gate.                                                         *)
(***************************************************************************)

Verdicts == {"passed", "skipped"}
Asking(g) == g.at = "asking"

(* What the gate of s is told: what entering costs by the book of now.     *)
Cheap(s) == Acceptable(EvaluateEntryQuality(book[s], LotsOn(Buys), LotsOn(Accounts \ Buys)),
                       MaxSpread)

Init ==
  /\ now = 0
  /\ phase = "gate"
  /\ gated \in BOOLEAN
  /\ gate = [s \in Symbols |-> [at |-> IF gated THEN "asking" ELSE "passed",
                                due |-> MaxRequest]]
  /\ readAt = [s \in Symbols |-> 0]
  /\ watch = [at |-> "idle", due |-> 0]
  /\ seen = [l \in Legs |-> Unread]
  /\ book \in IF gated THEN [Symbols -> Books] ELSE {[s \in Symbols |-> NoBook]}
  /\ price = [s \in Symbols |-> FirstPrice]
  /\ position = [l \in Legs |-> NoPosition]
  /\ stopAt = Never
  /\ brokenAt = [l \in Legs |-> [c \in Causes |-> Never]]
  /\ failedAt = Never
  /\ hurt = FALSE
  /\ shifted = FALSE
  /\ events = 0

(* Broken: the last sleep overshoots the wait.                             *)
NapWholePoll(remaining) == GatePoll

(* A poll, or what is left of the wait.                                    *)
Nap(remaining) == Least(GatePoll, remaining)

(* An acceptable spread passes; anything else sleeps, and is out when      *)
(* nothing is left of the wait.                                            *)
GateAnswered(s) ==
  LET remaining == GateWait - now IN
  /\ phase = "gate"
  /\ Asking(gate[s])
  /\ readAt' = [readAt EXCEPT ![s] = now]
  /\ gate' = [gate EXCEPT ![s] =
                IF Cheap(s) THEN [@ EXCEPT !.at = "passed"]
                ELSE IF remaining <= 0 THEN [@ EXCEPT !.at = "skipped"]
                ELSE [at |-> "sleeping", due |-> now + Nap(remaining)]]
  /\ UNCHANGED <<now, phase, gated, stopAt, watchVars, marketVars>>

(* The book cannot be had: the cycle fails at once, and the other gates    *)
(* only read.                                                              *)
GateRaises(s) ==
  /\ phase = "gate"
  /\ Asking(gate[s])
  /\ phase' = "failed"
  /\ UNCHANGED <<now, stopAt, gateVars, watchVars, marketVars>>

GateWakes(s) ==
  /\ phase = "gate"
  /\ gate[s].at = "sleeping"
  /\ now = gate[s].due
  /\ gate' = [gate EXCEPT ![s] = [at |-> "asking", due |-> now + MaxRequest]]
  /\ UNCHANGED <<now, phase, gated, readAt, stopAt, watchVars, marketVars>>

AllGated == \A s \in Symbols : gate[s].at \in Verdicts

MayOpen == phase = "gate" /\ AllGated /\ \A s \in Symbols : gate[s].at = "passed"

GateSkips ==
  /\ phase = "gate"
  /\ AllGated
  /\ \E s \in Symbols : gate[s].at = "skipped"
  /\ phase' = "skipped"
  /\ UNCHANGED <<now, stopAt, gateVars, watchVars, marketVars>>

(* A leg that is far enough from its size or near enough to liquidation    *)
(* is to be closed.                                                        *)
Drifted(l, lots) == 100 * Distance(lots, Qty[l[2]]) > 5 * Qty[l[2]]
Breached(entry, m) == 100 * Distance(m, entry) >= LegLimit * entry

(* What the safety checks are there to find, in truth, and since when.     *)
Broken(l, c, p, m) ==
  CASE c = "position" -> p.lots = 0 \/ Drifted(l, p.lots)
    [] c = "price"    -> Breached(p.entry, m)

BrokenSince(positions, prices, time) ==
  [l \in Legs |-> [c \in Causes |->
     IF ~Broken(l, c, positions[l], prices[l[1]]) THEN Never
     ELSE IF brokenAt[l][c] = Never THEN time ELSE brokenAt[l][c]]]

Hurts(since) == \E l \in Legs, c \in Causes : since[l][c] # Never

(* Broken: a leg is opened with the lots of its whole side.                *)
LegLotsOfSide(a) == LotsOn(IF a \in Buys THEN Buys ELSE Accounts)

LegLots(a) == Qty[a]

(* Every leg is filled, the buyers at a price of their own, and the watch  *)
(* begins; the gates and their books are done with.                        *)
Open ==
  /\ MayOpen
  /\ phase' = "hold"
  /\ now' = 0
  /\ stopAt' = IF stopAt = Never THEN Never ELSE 0
  /\ gate' = [s \in Symbols |-> [at |-> "passed", due |-> 0]]
  /\ readAt' = [s \in Symbols |-> 0]
  /\ book' = [s \in Symbols |-> NoBook]
  /\ \E bought \in Prices :
       position' = [l \in Legs |-> [lots |-> LegLots(l[2]),
                                   entry |-> IF l[2] \in Buys THEN bought ELSE price[l[1]]]]
  /\ watch' = [at |-> "top", due |-> 0]
  /\ brokenAt' = BrokenSince(position', price, 0)
  /\ hurt' = Hurts(brokenAt')
  /\ UNCHANGED <<gated, seen, failedAt, price, shifted, events>>

(***************************************************************************)
(* The watch.                                                              *)
(***************************************************************************)

(* Broken: the last sleep overshoots the planned time.                     *)
RestWholeBeat(remaining) == Heartbeat

Rest(remaining) == Least(Heartbeat, remaining)

MustStop == stopAt # Never

MonitorReturns(how) ==
  /\ phase' = how
  /\ watch' = [at |-> "idle", due |-> 0]

(* The head of the loop.                                                   *)
WatchTop ==
  /\ phase = "hold"
  /\ watch.at = "top"
  /\ \/ now >= Duration /\ MonitorReturns("full time")
     \/ now < Duration /\ MustStop /\ MonitorReturns("closed early")
     \/ /\ now < Duration
        /\ ~MustStop
        /\ watch' = [at |-> "sleeping", due |-> now + Rest(Duration - now)]
        /\ UNCHANGED phase
  /\ UNCHANGED <<now, stopAt, gateVars, seen, failedAt, marketVars>>

(* state() asks for all legs at once.                                      *)
CheckStarts ==
  /\ phase = "hold"
  /\ watch.at = "sleeping"
  /\ now = watch.due
  /\ watch' = [at |-> "checking", due |-> now + MaxRequest]
  /\ seen' = [l \in Legs |-> Unread]
  /\ shifted' = FALSE
  /\ UNCHANGED <<now, phase, stopAt, gateVars, failedAt, book, price,
                 position, brokenAt, hurt, events>>

(* A leg's position is read first, its price after it; without a position  *)
(* the price is not asked for.                                             *)
ReadPosition(l) ==
  /\ watch.at = "checking"
  /\ seen[l].at = "unread"
  /\ seen' = [seen EXCEPT ![l] = IF position[l].lots = 0 THEN Missing
                                 ELSE Reading("held", position[l], 0)]
  /\ UNCHANGED <<now, phase, stopAt, gateVars, watch, failedAt, marketVars>>

ReadPrice(l) ==
  /\ watch.at = "checking"
  /\ seen[l].at = "held"
  /\ seen' = [seen EXCEPT ![l] = Reading("priced", seen[l], price[l[1]])]
  /\ UNCHANGED <<now, phase, stopAt, gateVars, watch, failedAt, marketVars>>

(* One request fails: gather raises, error_guard swallows it.              *)
CheckFails ==
  /\ watch.at = "checking"
  /\ watch' = [at |-> "top", due |-> now]
  /\ failedAt' = now
  /\ UNCHANGED <<now, phase, stopAt, gateVars, seen, marketVars>>

(* What a leg has won (in ticks times lots), and what it cost.             *)
Pnl(l, data) ==
  LET gain == data.lots * data.price - data.lots * data.entry IN
  IF l[2] \in Buys THEN gain ELSE -gain
Cost(data) == data.lots * data.entry

Priced == {l \in Legs : seen[l].at = "priced"}
LegHealthy(l) == ~Drifted(l, seen[l].lots) /\ ~Breached(seen[l].entry, seen[l].price)

(* Broken: only the legs that were found are looked at.                    *)
FoundAreHealthy == \A l \in Priced : LegHealthy(l)

Healthy == Priced = Legs /\ \A l \in Legs : LegHealthy(l)

(* Broken: what the legs won and lost is added up without its sign.        *)
GrossPnl == SumFunction([l \in Priced |-> Distance(Pnl(l, seen[l]), 0)])

TotalPnl == SumFunction([l \in Priced |-> Pnl(l, seen[l])])
TotalCost == SumFunction([l \in Priced |-> Cost(seen[l])])
BasketHit ==
  TotalCost # 0 /\ 100 * Distance(TotalPnl, 0) >= BasketLimit * TotalCost

CheckEnds ==
  /\ watch.at = "checking"
  /\ \A l \in Legs : seen[l].at \in {"missing", "priced"}
  /\ \/ (~Healthy \/ BasketHit) /\ MonitorReturns("closed early")
     \/ Healthy /\ ~BasketHit /\ watch' = [at |-> "top", due |-> now] /\ UNCHANGED phase
  /\ UNCHANGED <<now, stopAt, gateVars, seen, failedAt, marketVars>>

(***************************************************************************)
(* The rest of the world.                                                  *)
(***************************************************************************)

MarketMoves ==
  /\ phase \notin Over
  /\ events < MaxEvents
  /\ events' = events + 1
  /\ shifted' = TRUE
  /\ \/ \E s \in Symbols, b \in Books :
          /\ phase = "gate" /\ gated
          /\ b # book[s]
          /\ book' = [book EXCEPT ![s] = b]
          /\ UNCHANGED <<price, position>>
     \/ \E s \in Symbols, p \in Prices :
          /\ p # price[s]
          /\ price' = [price EXCEPT ![s] = p]
          /\ UNCHANGED <<book, position>>
     \/ \E l \in Legs : \E n \in 0..position[l].lots - 1 :  (* liquidated, if only in part *)
          /\ position' = [position EXCEPT ![l].lots = n]
          /\ UNCHANGED <<book, price>>
  /\ brokenAt' = IF phase = "hold" THEN BrokenSince(position', price', now) ELSE brokenAt
  /\ hurt' = (hurt \/ Hurts(brokenAt'))
  /\ UNCHANGED <<now, phase, stopAt, gateVars, watch, seen, failedAt>>

SetStop ==
  /\ phase \notin Over
  /\ stopAt = Never
  /\ stopAt' = now
  /\ UNCHANGED <<now, phase, gateVars, watchVars, marketVars>>

(* Time stops for whoever has something to do by now.                      *)
Tick ==
  /\ phase \notin Over
  /\ \A s \in Symbols : phase = "gate" /\ gate[s].at \notin Verdicts => now < gate[s].due
  /\ phase = "gate" => ~AllGated
  /\ phase = "hold" => now < watch.due
  /\ now' = now + 1
  /\ UNCHANGED <<phase, stopAt, gateVars, watchVars, marketVars>>

Gate == (\E s \in Symbols : GateAnswered(s) \/ GateRaises(s) \/ GateWakes(s)) \/ GateSkips \/ Open
Check == \E l \in Legs : ReadPosition(l) \/ ReadPrice(l)
Watch == WatchTop \/ CheckStarts \/ Check \/ CheckFails \/ CheckEnds
Next == Gate \/ Watch \/ MarketMoves \/ SetStop \/ Tick

Spec == Init /\ [][Next]_vars

(***************************************************************************)
(* Properties.                                                             *)
(***************************************************************************)

TypeOK ==
  /\ now \in Nat
  /\ phase \in {"gate", "hold"} \cup Over
  /\ gated \in BOOLEAN
  /\ gate \in [Symbols -> [at : {"asking", "sleeping"} \cup Verdicts, due : Nat]]
  /\ readAt \in [Symbols -> Nat]
  /\ watch \in [at : {"idle", "top", "sleeping", "checking"}, due : Nat]
  /\ seen \in [Legs -> [at : {"unread", "missing", "held", "priced"},
                        lots : Nat, entry : Nat, price : Nat]]
  /\ book \in [Symbols -> Books \cup {NoBook}]
  /\ price \in [Symbols -> Prices]
  /\ position \in [Legs -> [lots : Nat, entry : Nat]]
  /\ \A l \in Legs : position[l].lots <= Qty[l[2]]
  /\ stopAt \in Nat \cup {Never} /\ failedAt \in Nat \cup {Never}
  /\ brokenAt \in [Legs -> [Causes -> Nat \cup {Never}]]
  /\ hurt \in BOOLEAN /\ shifted \in BOOLEAN
  /\ events \in 0..MaxEvents

(* A basket is opened on verdicts that are no older than the longest wait  *)
(* of a gate and one request: the markets are not acceptable at one moment *)
(* (cycle.py only gathers the verdicts), but none is staler than that.     *)
VerdictsAreFresh ==
  MayOpen /\ gated => \A s \in Symbols : now - readAt[s] <= GateWait + MaxRequest

(* The watch never outlasts the planned time by more than one check.       *)
HoldBounded == phase = "hold" => now <= Duration + MaxRequest

(* A leg that is liquidated or drifted, or past its limit, is not held     *)
(* beyond a heartbeat and two checks, counted from when it broke or, since *)
(* errors of the check are swallowed (cycle.py:239), from the last failed  *)
(* check.  A leg that broke for its price and then for its position may be *)
(* seen between the two by a check that read the position before, and the  *)
(* price after: so the time is counted for each cause.                     *)
Later(a, b) == IF a < b THEN b ELSE a

BrokenIsNoticed ==
  phase = "hold" => \A l \in Legs, c \in Causes :
    brokenAt[l][c] # Never =>
      now - Later(failedAt, brokenAt[l][c]) <= Heartbeat + 2 * MaxRequest

(* A group told to stop leaves the hold within a heartbeat and a check.    *)
StopEndsHold ==
  phase = "hold" /\ stopAt # Never =>
    now - stopAt <= Heartbeat + MaxRequest

(* The hold ends in time, by itself or when the group is told to stop.     *)
HoldEnds == HoldBounded /\ StopEndsHold

TrulyHit ==
  LET worth(l) == position[l].lots * price[l[1]]
      paid(l) == position[l].lots * position[l].entry
      won(l) == worth(l) - paid(l)
      pnl == SumFunction([l \in Legs |-> IF l[2] \in Buys THEN won(l) ELSE -won(l)])
      cost == SumFunction([l \in Legs |-> paid(l)]) IN
  100 * Distance(pnl, 0) >= BasketLimit * cost

(* Positions are closed early for a cause: a stop, a leg that was broken   *)
(* at some time, or a basket past its limit on prices of one moment,       *)
(* unless the market moved while the check was reading.                    *)
ClosedForCause ==
  phase = "closed early" => stopAt # Never \/ hurt \/ shifted \/ TrulyHit

=============================================================================
