-------------------------- MODULE Strategy_proofs --------------------------
(***************************************************************************)
(* Proofs about the two strategies' loops: TradeWatch for any basket, any  *)
(* times of gates, heartbeats and requests and any number of events, and,  *)
(* at the end, SpreadCycle for any limit on failures.  The two share no    *)
(* definition.                                                             *)
(*                                                                         *)
(* The first argument is one of deadlines: at each point of the gate and   *)
(* of the watch the invariant bounds the time that is left until the loop  *)
(* must move on, and how long ago a leg may have broken, or the stop been  *)
(* set, given what the running check can still find out.                   *)
(***************************************************************************)
EXTENDS TradeWatch, SpreadCycle, TLAPS

-----------------------------------------------------------------------------
(* The inductive invariant of the watch.                                   *)

(* No gate asks or sleeps past the longest wait and one request.           *)
GateClock ==
  phase = "gate" =>
    /\ now <= GateWait + MaxRequest
    /\ \A s \in Symbols :
         /\ gate[s].at = "asking" => now <= gate[s].due /\ gate[s].due <= GateWait + MaxRequest
         /\ gate[s].at = "sleeping" => now <= gate[s].due /\ gate[s].due <= GateWait

(* The watch runs while the basket is held, and what it does ends in time. *)
HoldClock ==
  /\ phase = "hold" <=> watch.at # "idle"
  /\ phase = "hold" => now <= watch.due
  /\ watch.at = "top" => watch.due = now /\ now <= Duration + MaxRequest
  /\ watch.at = "sleeping" => watch.due <= Duration /\ watch.due <= now + Heartbeat
  /\ watch.at = "checking" => /\ watch.due <= Duration + MaxRequest
                              /\ watch.due <= now + MaxRequest

(* The history says in truth which legs are broken.                        *)
TruthOK ==
  /\ phase = "gate" => \A l \in Legs, c \in Causes : brokenAt[l][c] = Never
  /\ phase = "hold" => \A l \in Legs, c \in Causes :
       brokenAt[l][c] # Never <=> Broken(l, c, position[l], price[l[1]])
  /\ Hurts(brokenAt) => hurt

(* What a check has read of a leg is sound.                                *)
ReadingFine(l, c) ==
  CASE c = "position" -> seen[l].at \in {"held", "priced"} /\ ~Drifted(l, seen[l].lots)
    [] c = "price"    -> seen[l].at = "priced" /\ ~Breached(seen[l].entry, seen[l].price)

(* The entry price never changes; the rest is as read unless something     *)
(* has moved since.                                                        *)
SeenOK ==
  watch.at = "checking" => \A l \in Legs :
    /\ seen[l].at \in {"held", "priced"} => seen[l].entry = position[l].entry
    /\ ~shifted =>
         /\ seen[l].at = "missing" => position[l].lots = 0
         /\ seen[l].at \in {"held", "priced"} => seen[l].lots = position[l].lots
         /\ seen[l].at = "priced" => seen[l].price = price[l[1]]

(* How long a leg may have been broken, and a reading of it been sound     *)
(* only if it broke after the check began.                                 *)
NoticeClock ==
  \A l \in Legs, c \in Causes :
    brokenAt[l][c] # Never =>
      LET from == Later(failedAt, brokenAt[l][c]) IN
      /\ watch.at = "top" => now - from <= MaxRequest
      /\ watch.at = "sleeping" => watch.due - from <= Heartbeat + MaxRequest
      /\ watch.at = "checking" =>
           /\ watch.due - from <= Heartbeat + 2 * MaxRequest
           /\ ReadingFine(l, c) => watch.due - brokenAt[l][c] <= MaxRequest

(* How long ago the stop may have been set.                                *)
StopClock ==
  stopAt # Never =>
    /\ watch.at = "top" => now - stopAt <= Heartbeat + MaxRequest
    /\ watch.at = "sleeping" => watch.due - stopAt <= Heartbeat
    /\ watch.at = "checking" => watch.due - stopAt <= Heartbeat + MaxRequest

Inv ==
  /\ TypeOK /\ GateClock /\ HoldClock /\ TruthOK /\ SeenOK /\ NoticeClock /\ StopClock
  /\ ClosedForCause

-----------------------------------------------------------------------------
(* The constants, and the parts of a leg.                                  *)
LEMMA Times ==
  /\ GateWait \in Nat /\ Duration \in Nat /\ MaxRequest \in Nat /\ MaxEvents \in Nat
  /\ GatePoll \in Nat /\ GatePoll > 0 /\ Heartbeat \in Nat /\ Heartbeat > 0
BY WatchAssumption

LEMMA LegParts ==
  ASSUME NEW l \in Legs
  PROVE  l[1] \in Symbols /\ l[2] \in Accounts
BY DEF Legs

LEMMA PriceIsNat ==
  ASSUME TypeOK, NEW s \in Symbols
  PROVE  price[s] \in Nat
BY WatchAssumption DEF TypeOK

(* What brokenAt becomes.                                                  *)
LEMMA SinceType ==
  ASSUME TypeOK, NEW positions, NEW prices, NEW time \in Nat
  PROVE  BrokenSince(positions, prices, time) \in [Legs -> [Causes -> Nat \cup {Never}]]
BY DEF TypeOK, BrokenSince

LEMMA SinceIs ==
  ASSUME NEW positions, NEW prices, NEW time \in Nat, NEW l \in Legs, NEW c \in Causes
  PROVE  BrokenSince(positions, prices, time)[l][c] =
           IF ~Broken(l, c, positions[l], prices[l[1]]) THEN Never
           ELSE IF brokenAt[l][c] = Never THEN time ELSE brokenAt[l][c]
BY DEF BrokenSince

-----------------------------------------------------------------------------
(* Initially the invariant holds.                                          *)
LEMMA InitInv == Init => Inv
<1> SUFFICES ASSUME Init PROVE Inv
  OBVIOUS
<1> USE DEF Init
<1>1. TypeOK
  <2>1. \A l \in Legs : position[l].lots <= Qty[l[2]]
    <3>1. \A l \in Legs : position[l].lots = 0
      BY DEF NoPosition
    <3>2. \A l \in Legs : Qty[l[2]] \in Nat
      BY WatchAssumption, LegParts
    <3> QED BY <3>1, <3>2
  <2>2. gate \in [Symbols -> [at : {"asking", "sleeping"} \cup Verdicts, due : Nat]]
    BY Times DEF Verdicts
  <2>3. book \in [Symbols -> Books \cup {NoBook}]
    <3>1. CASE gated
      BY <3>1
    <3>2. CASE ~gated
      BY <3>2
    <3> QED BY <3>1, <3>2
  <2>4. position \in [Legs -> [lots : Nat, entry : Nat]]
    BY DEF NoPosition
  <2>5. seen \in [Legs -> [at : {"unread", "missing", "held", "priced"},
                          lots : Nat, entry : Nat, price : Nat]]
    BY DEF Unread, Reading, NoPosition
  <2>6. price \in [Symbols -> Prices] /\ events \in 0..MaxEvents
    BY WatchAssumption
  <2> QED BY <2>1, <2>2, <2>3, <2>4, <2>5, <2>6 DEF TypeOK, Never
<1>2. GateClock
  BY Times DEF GateClock
<1>3. HoldClock
  BY DEF HoldClock
<1>4. TruthOK
  BY DEF TruthOK, Hurts
<1>5. SeenOK /\ NoticeClock /\ StopClock /\ ClosedForCause
  BY DEF SeenOK, NoticeClock, StopClock, ClosedForCause
<1> QED BY <1>1, <1>2, <1>3, <1>4, <1>5 DEF Inv

-----------------------------------------------------------------------------
(* The types.                                                              *)
LEMMA TypeGate ==
  ASSUME TypeOK, NEW s \in Symbols, GateAnswered(s) \/ GateRaises(s) \/ GateWakes(s)
  PROVE  TypeOK'
<1>0. now \in Nat /\ gate \in [Symbols -> [at : {"asking", "sleeping"} \cup Verdicts, due : Nat]]
  BY DEF TypeOK
<1> USE DEF gateVars, watchVars, marketVars
<1>1. CASE GateAnswered(s)
  <2>1. GateWait - now > 0 => now + Nap(GateWait - now) \in Nat
    BY <1>0, Times DEF Nap, Least
  <2>2. gate' \in [Symbols -> [at : {"asking", "sleeping"} \cup Verdicts, due : Nat]]
    <3>1. ~(GateWait - now <= 0) => now + Nap(GateWait - now) \in Nat
      BY <2>1, <1>0, Times
    <3> QED BY <1>0, <1>1, <3>1 DEF GateAnswered, Verdicts
  <2>3. readAt' \in [Symbols -> Nat]
    BY <1>0, <1>1 DEF GateAnswered, TypeOK
  <2> QED BY <1>1, <2>2, <2>3 DEF GateAnswered, TypeOK
<1>2. CASE GateRaises(s)
  BY <1>2 DEF GateRaises, TypeOK, Over
<1>3. CASE GateWakes(s)
  <2>1. now + MaxRequest \in Nat
    BY <1>0, Times
  <2>2. gate' \in [Symbols -> [at : {"asking", "sleeping"} \cup Verdicts, due : Nat]]
    BY <1>0, <1>3, <2>1 DEF GateWakes
  <2> QED BY <1>3, <2>2 DEF GateWakes, TypeOK
<1> QED BY <1>1, <1>2, <1>3

LEMMA TypeOpen ==
  ASSUME TypeOK, Open
  PROVE  TypeOK'
<1>1. PICK bought \in Prices :
        position' = [l \in Legs |-> [lots |-> LegLots(l[2]),
                                    entry |-> IF l[2] \in Buys THEN bought ELSE price[l[1]]]]
  BY DEF Open
<1>2. /\ position' \in [Legs -> [lots : Nat, entry : Nat]]
      /\ \A l \in Legs : position'[l].lots <= Qty[l[2]]
  <2>1. \A l \in Legs : /\ Qty[l[2]] \in Nat
                        /\ (IF l[2] \in Buys THEN bought ELSE price[l[1]]) \in Nat
    BY LegParts, PriceIsNat, WatchAssumption
  <2>2. \A l \in Legs : position'[l].lots = Qty[l[2]]
    BY <1>1 DEF LegLots
  <2>3. \A l \in Legs : position'[l].lots <= Qty[l[2]]
    BY <2>1, <2>2
  <2> QED BY <1>1, <2>1, <2>3 DEF LegLots
<1>3. brokenAt' \in [Legs -> [Causes -> Nat \cup {Never}]]
  BY SinceType DEF Open
<1>4. hurt' \in BOOLEAN
  BY DEF Open, Hurts
<1>5. stopAt' \in Nat \cup {Never} /\ now' \in Nat /\ phase' = "hold"
  BY DEF Open
<1>6. /\ gate' \in [Symbols -> [at : {"asking", "sleeping"} \cup Verdicts, due : Nat]]
      /\ readAt' \in [Symbols -> Nat] /\ book' \in [Symbols -> Books \cup {NoBook}]
      /\ watch' \in [at : {"idle", "top", "sleeping", "checking"}, due : Nat]
  BY DEF Open, Verdicts
<1> QED BY <1>2, <1>3, <1>4, <1>5, <1>6 DEF Open, TypeOK

LEMMA TypeWatch ==
  ASSUME TypeOK, Watch
  PROVE  TypeOK'
<1>0. /\ now \in Nat
      /\ watch \in [at : {"idle", "top", "sleeping", "checking"}, due : Nat]
      /\ seen \in [Legs -> [at : {"unread", "missing", "held", "priced"},
                           lots : Nat, entry : Nat, price : Nat]]
      /\ position \in [Legs -> [lots : Nat, entry : Nat]]
  BY DEF TypeOK
<1> USE DEF gateVars, watchVars, marketVars, MonitorReturns
<1>1. CASE WatchTop
  <2>1. now < Duration => now + Rest(Duration - now) \in Nat
    BY <1>0, Times DEF Rest, Least
  <2>2. watch' \in [at : {"idle", "top", "sleeping", "checking"}, due : Nat]
    <3>1. \/ watch' = [at |-> "idle", due |-> 0]
          \/ now < Duration /\ watch' = [at |-> "sleeping", due |-> now + Rest(Duration - now)]
      BY <1>1 DEF WatchTop
    <3> QED BY <3>1, <2>1
  <2>3. phase' \in {"gate", "hold"} \cup Over
    BY <1>1 DEF WatchTop, TypeOK, Over
  <2> QED BY <1>1, <2>2, <2>3 DEF WatchTop, TypeOK
<1>2. CASE CheckStarts
  <2>1. now + MaxRequest \in Nat
    BY <1>0, Times
  <2> QED BY <1>2, <2>1 DEF CheckStarts, Unread, Reading, NoPosition, TypeOK
<1>3. ASSUME NEW l \in Legs, ReadPosition(l) PROVE TypeOK'
  <2>1. seen' \in [Legs -> [at : {"unread", "missing", "held", "priced"},
                           lots : Nat, entry : Nat, price : Nat]]
    BY <1>0, <1>3 DEF ReadPosition, Missing, Reading, NoPosition
  <2> QED BY <1>3, <2>1 DEF ReadPosition, TypeOK
<1>4. ASSUME NEW l \in Legs, ReadPrice(l) PROVE TypeOK'
  <2>1. price[l[1]] \in Nat
    BY LegParts, PriceIsNat
  <2>2. seen' \in [Legs -> [at : {"unread", "missing", "held", "priced"},
                           lots : Nat, entry : Nat, price : Nat]]
    BY <1>0, <1>4, <2>1 DEF ReadPrice, Reading
  <2> QED BY <1>4, <2>2 DEF ReadPrice, TypeOK
<1>5. CASE CheckFails
  BY <1>5 DEF CheckFails, TypeOK
<1>6. CASE CheckEnds
  <2>1. /\ watch' \in [at : {"idle", "top", "sleeping", "checking"}, due : Nat]
        /\ phase' \in {"gate", "hold"} \cup Over
    <3>1. phase \in {"gate", "hold"} \cup Over
      BY DEF TypeOK
    <3>2. \/ watch' = [at |-> "idle", due |-> 0] /\ phase' = "closed early"
          \/ watch' = [at |-> "top", due |-> now] /\ phase' = phase
      BY <1>6 DEF CheckEnds
    <3>3. now \in Nat
      BY DEF TypeOK
    <3>4. phase' \in {"gate", "hold"} \cup Over
      BY <3>1, <3>2 DEF Over
    <3>5. watch' \in [at : {"idle", "top", "sleeping", "checking"}, due : Nat]
      <4>1. watch' = [at |-> "idle", due |-> 0] \/ watch' = [at |-> "top", due |-> now]
        BY <3>2
      <4> QED BY <4>1, <3>3
    <3> QED BY <3>4, <3>5
  <2> QED BY <1>6, <2>1 DEF CheckEnds, TypeOK
<1> QED BY <1>1, <1>2, <1>3, <1>4, <1>5, <1>6 DEF Watch, Check

LEMMA TypeMarket ==
  ASSUME TypeOK, MarketMoves
  PROVE  TypeOK'
<1> DEFINE Typed ==
      /\ price' \in [Symbols -> Prices]
      /\ book' \in [Symbols -> Books \cup {NoBook}]
      /\ position' \in [Legs -> [lots : Nat, entry : Nat]]
      /\ \A l \in Legs : position'[l].lots <= Qty[l[2]]
<1>1. /\ price \in [Symbols -> Prices]
      /\ book \in [Symbols -> Books \cup {NoBook}]
      /\ position \in [Legs -> [lots : Nat, entry : Nat]]
      /\ \A l \in Legs : position[l].lots <= Qty[l[2]]
      /\ now \in Nat /\ events \in 0..MaxEvents
  BY DEF TypeOK
<1>2. ASSUME NEW s \in Symbols, NEW b \in Books,
             book' = [book EXCEPT ![s] = b], UNCHANGED <<price, position>>
      PROVE  Typed
  BY <1>1, <1>2
<1>3. ASSUME NEW s \in Symbols, NEW p \in Prices,
             price' = [price EXCEPT ![s] = p], UNCHANGED <<book, position>>
      PROVE  Typed
  BY <1>1, <1>3
<1>4. ASSUME NEW l \in Legs, NEW n \in 0..position[l].lots - 1,
             position' = [position EXCEPT ![l].lots = n], UNCHANGED <<book, price>>
      PROVE  Typed
  <2>1. position[l].lots \in Nat /\ Qty[l[2]] \in Nat /\ position[l].lots <= Qty[l[2]]
    BY <1>1, LegParts, WatchAssumption
  <2>2. n \in Nat /\ n <= Qty[l[2]]
    BY <2>1
  <2>3. /\ position' \in [Legs -> [lots : Nat, entry : Nat]]
        /\ \A k \in Legs : position'[k].lots = IF k = l THEN n ELSE position[k].lots
    BY <1>1, <1>4, <2>2
  <2> QED BY <1>1, <1>4, <2>2, <2>3
<1>5. Typed
  <2> HIDE DEF Typed
  <2> QED BY <1>2, <1>3, <1>4 DEF MarketMoves
<1>6. brokenAt' \in [Legs -> [Causes -> Nat \cup {Never}]]
  <2>1. CASE phase = "hold"
    <3>1. brokenAt' = BrokenSince(position', price', now)
      BY <2>1 DEF MarketMoves
    <3> QED BY <3>1, <1>1, SinceType
  <2>2. CASE phase # "hold"
    BY <2>2 DEF MarketMoves, TypeOK
  <2> QED BY <2>1, <2>2
<1>7. hurt' \in BOOLEAN
  BY DEF MarketMoves, Hurts
<1>8. shifted' \in BOOLEAN /\ events' \in 0..MaxEvents
  BY <1>1, Times DEF MarketMoves
<1>9. UNCHANGED <<now, phase, gated, gate, readAt, stopAt, watch, seen, failedAt>>
  BY DEF MarketMoves, gateVars
<1> HIDE DEF Typed
<1>10. Typed => TypeOK'
  BY <1>6, <1>7, <1>8, <1>9, Zenon DEF TypeOK, Typed
<1> QED BY <1>5, <1>10

(* Every step keeps the types.                                             *)
LEMMA TypeStep == TypeOK /\ [Next]_vars => TypeOK'
<1> SUFFICES ASSUME TypeOK, [Next]_vars PROVE TypeOK'
  OBVIOUS
<1>1. CASE GateSkips
  BY <1>1 DEF GateSkips, TypeOK, gateVars, watchVars, marketVars, Over
<1>2. CASE SetStop
  BY <1>2 DEF SetStop, TypeOK, gateVars, watchVars, marketVars
<1>3. CASE Tick
  BY <1>3 DEF Tick, TypeOK, gateVars, watchVars, marketVars
<1>4. CASE UNCHANGED vars
  BY <1>4 DEF vars, TypeOK, gateVars, watchVars, marketVars
<1> QED
  BY <1>1, <1>2, <1>3, <1>4, TypeGate, TypeOpen, TypeWatch, TypeMarket DEF Next, Gate

-----------------------------------------------------------------------------
(* The rest of the invariant, one part at a time.                          *)

LEMMA Numbers ==
  ASSUME TypeOK
  PROVE  /\ now \in Nat /\ watch.due \in Nat /\ stopAt \in Int /\ failedAt \in Int
         /\ watch.at \in {"idle", "top", "sleeping", "checking"}
         /\ \A l \in Legs, c \in Causes : brokenAt[l][c] \in Int
BY DEF TypeOK, Never

(* What Watch leaves alone, and where it goes.                             *)
LEMMA WatchFrame ==
  ASSUME Watch
  PROVE  /\ UNCHANGED <<now, stopAt, gated, gate, readAt, book, price, position, brokenAt,
                        hurt, events>>
         /\ phase' = phase \/ phase' \in {"full time", "closed early"}
BY DEF Watch, WatchTop, CheckStarts, Check, ReadPosition, ReadPrice, CheckFails, CheckEnds,
       MonitorReturns, gateVars, watchVars, marketVars

LEMMA GateClockStep ==
  ASSUME Inv, Next
  PROVE  GateClock'
<1>0. /\ TypeOK /\ GateClock /\ now \in Nat
      /\ gate \in [Symbols -> [at : {"asking", "sleeping"} \cup Verdicts, due : Nat]]
  BY DEF Inv, TypeOK
<1>1. CASE UNCHANGED <<now, phase, gate>>
  BY <1>0, <1>1 DEF GateClock
<1>2. CASE phase' # "gate"
  BY <1>2 DEF GateClock
<1>3. ASSUME NEW s \in Symbols, GateAnswered(s) PROVE GateClock'
  <2>1. UNCHANGED <<now, phase>> /\ phase = "gate"
    BY <1>3 DEF GateAnswered
  <2>2. \A r \in Symbols : r # s => gate'[r] = gate[r]
    BY <1>0, <1>3 DEF GateAnswered
  <2>3. GateWait - now > 0 => now <= now + Nap(GateWait - now) /\ now + Nap(GateWait - now) <= GateWait
    BY <1>0, Times DEF Nap, Least
  <2>4. \/ gate'[s].at \in Verdicts
        \/ /\ GateWait - now > 0
           /\ gate'[s] = [at |-> "sleeping", due |-> now + Nap(GateWait - now)]
    <3>1. \/ gate'[s].at = "passed" \/ gate'[s].at = "skipped"
          \/ /\ ~(GateWait - now <= 0)
             /\ gate'[s] = [at |-> "sleeping", due |-> now + Nap(GateWait - now)]
      BY <1>0, <1>3 DEF GateAnswered
    <3>2. ~(GateWait - now <= 0) => GateWait - now > 0
      BY <1>0, Times
    <3> QED BY <3>1, <3>2 DEF Verdicts
  <2>5. /\ gate'[s].at # "asking"
        /\ gate'[s].at = "sleeping" => now <= gate'[s].due /\ gate'[s].due <= GateWait
    BY <2>3, <2>4 DEF Verdicts
  <2> QED BY <1>0, <2>1, <2>2, <2>5 DEF GateClock
<1>4. ASSUME NEW s \in Symbols, GateWakes(s) PROVE GateClock'
  <2>1. UNCHANGED <<now, phase>> /\ phase = "gate"
    BY <1>4 DEF GateWakes
  <2>2. \A r \in Symbols : r # s => gate'[r] = gate[r]
    BY <1>0, <1>4 DEF GateWakes
  <2>3. /\ now <= GateWait
        /\ gate'[s] = [at |-> "asking", due |-> now + MaxRequest]
    BY <1>0, <1>4 DEF GateWakes, GateClock
  <2>4. /\ gate'[s].at = "asking"
        /\ now <= gate'[s].due /\ gate'[s].due <= GateWait + MaxRequest
    BY <1>0, <2>3, Times
  <2> QED BY <1>0, <2>1, <2>2, <2>4 DEF GateClock
<1>5. CASE Tick
  <2> SUFFICES ASSUME phase = "gate" PROVE GateClock'
    BY <1>5 DEF Tick, GateClock
  <2>1. /\ now' = now + 1 /\ UNCHANGED <<phase, gate>>
        /\ \A s \in Symbols : gate[s].at \notin Verdicts => now < gate[s].due
        /\ \E s \in Symbols : gate[s].at \notin Verdicts
    BY <1>5 DEF Tick, AllGated, gateVars
  <2>2. \A s \in Symbols : /\ gate[s].due \in Nat
                           /\ gate[s].at \notin Verdicts => gate[s].at \in {"asking", "sleeping"}
                           /\ gate[s].at \in {"asking", "sleeping"} => gate[s].at \notin Verdicts
    BY <1>0 DEF Verdicts
  <2>3. \A s \in Symbols : gate[s].at \in {"asking", "sleeping"} => now + 1 <= gate[s].due
    BY <1>0, <2>1, <2>2
  <2>4. now + 1 <= GateWait + MaxRequest
    <3>1. PICK s \in Symbols : gate[s].at \in {"asking", "sleeping"}
      BY <2>1, <2>2
    <3>2. gate[s].due <= GateWait + MaxRequest
      BY <1>0, <2>2, <3>1, Times DEF GateClock
    <3> QED BY <1>0, <2>2, <2>3, <3>1, <3>2, Times
  <2> QED BY <1>0, <2>1, <2>3, <2>4 DEF GateClock
<1>6. ASSUME NEW s \in Symbols, GateRaises(s) PROVE GateClock'
  BY <1>2, <1>6 DEF GateRaises
<1>7. CASE GateSkips \/ Open
  BY <1>2, <1>7 DEF GateSkips, Open
<1>8. CASE Watch
  <2>1. UNCHANGED <<now, phase, gate>> \/ phase' # "gate"
    BY <1>8, WatchFrame
  <2> QED BY <1>1, <1>2, <2>1
<1>9. CASE MarketMoves
  BY <1>1, <1>9 DEF MarketMoves, gateVars
<1>10. CASE SetStop
  BY <1>1, <1>10 DEF SetStop, gateVars
<1> QED BY <1>3, <1>4, <1>5, <1>6, <1>7, <1>8, <1>9, <1>10 DEF Next, Gate

LEMMA HoldClockStep ==
  ASSUME Inv, Next
  PROVE  HoldClock'
<1>0. TypeOK /\ HoldClock
  BY DEF Inv
<1>1. /\ now \in Nat /\ watch.due \in Nat
      /\ watch.at \in {"idle", "top", "sleeping", "checking"}
  BY <1>0, Numbers
<1>2. CASE UNCHANGED <<now, phase, watch>>
  BY <1>0, <1>2 DEF HoldClock
<1>3. CASE phase' # "hold" /\ watch'.at = "idle"
  BY <1>3 DEF HoldClock
<1>4. ASSUME NEW s \in Symbols, GateAnswered(s) \/ GateRaises(s) \/ GateWakes(s) PROVE HoldClock'
  <2>1. phase = "gate" /\ watch' = watch /\ (phase' = phase \/ phase' = "failed")
    BY <1>4 DEF GateAnswered, GateRaises, GateWakes, watchVars
  <2>2. watch.at = "idle"
    BY <1>0, <2>1 DEF HoldClock
  <2> QED BY <1>3, <2>1, <2>2
<1>5. CASE GateSkips
  <2>1. phase = "gate" /\ watch' = watch /\ phase' = "skipped"
    BY <1>5 DEF GateSkips, watchVars
  <2> QED BY <1>0, <1>3, <2>1 DEF HoldClock
<1>6. CASE Open
  BY <1>6, Times DEF Open, HoldClock
<1>7. CASE WatchTop
  <2>1. CASE watch' = [at |-> "idle", due |-> 0] /\ phase' # "hold"
    BY <1>3, <2>1
  <2>2. CASE /\ now < Duration /\ UNCHANGED <<now, phase>> /\ phase = "hold"
             /\ watch' = [at |-> "sleeping", due |-> now + Rest(Duration - now)]
    <3>1. /\ now <= now + Rest(Duration - now) /\ now + Rest(Duration - now) <= Duration
          /\ now + Rest(Duration - now) <= now + Heartbeat
      BY <1>1, <2>2, Times DEF Rest, Least
    <3> QED BY <2>2, <3>1 DEF HoldClock
  <2> QED BY <1>7, <2>1, <2>2 DEF WatchTop, MonitorReturns
<1>8. CASE CheckStarts
  <2>1. /\ UNCHANGED <<now, phase>> /\ phase = "hold" /\ now <= Duration
        /\ watch' = [at |-> "checking", due |-> now + MaxRequest]
    BY <1>0, <1>8 DEF CheckStarts, HoldClock
  <2>2. now <= now + MaxRequest /\ now + MaxRequest <= Duration + MaxRequest
    BY <1>1, <2>1, Times
  <2>3. now + MaxRequest <= now + MaxRequest
    BY <1>1, Times
  <2> QED BY <2>1, <2>2, <2>3 DEF HoldClock
<1>9. CASE Check
  BY <1>2, <1>9 DEF Check, ReadPosition, ReadPrice
<1>10. CASE CheckFails \/ CheckEnds
  <2>1. watch.at = "checking" /\ phase = "hold"
    BY <1>0, <1>10 DEF CheckFails, CheckEnds, HoldClock
  <2>2. CASE UNCHANGED <<now, phase>> /\ watch' = [at |-> "top", due |-> now]
    <3>1. now <= Duration + MaxRequest /\ now <= now
      BY <1>0, <1>1, <2>1, Times DEF HoldClock
    <3> QED BY <2>1, <2>2, <3>1 DEF HoldClock
  <2>3. CASE watch' = [at |-> "idle", due |-> 0] /\ phase' # "hold"
    BY <1>3, <2>3
  <2> QED BY <1>10, <2>2, <2>3 DEF CheckFails, CheckEnds, MonitorReturns
<1>11. CASE MarketMoves \/ SetStop
  BY <1>2, <1>11 DEF MarketMoves, SetStop, watchVars
<1>12. CASE Tick
  <2>1. now' = now + 1 /\ UNCHANGED <<phase, watch>> /\ (phase = "hold" => now < watch.due)
    BY <1>12 DEF Tick, watchVars
  <2>2. CASE phase = "hold"
    BY <1>0, <1>1, <2>1, <2>2, Times DEF HoldClock
  <2>3. CASE phase # "hold"
    BY <1>0, <2>1, <2>3 DEF HoldClock
  <2> QED BY <2>2, <2>3
<1> QED
  BY <1>4, <1>5, <1>6, <1>7, <1>8, <1>9, <1>10, <1>11, <1>12 DEF Next, Gate, Watch

(* Away from Open and MarketMoves nothing that can break is touched, and   *)
(* the basket is not held unless it was.                                   *)
LEMMA CalmFrame ==
  ASSUME Next, ~Open, ~MarketMoves
  PROVE  /\ UNCHANGED <<book, price, position, brokenAt, hurt>>
         /\ phase' = phase \/ phase' \in Over
BY WatchFrame
   DEF Next, Gate, GateAnswered, GateRaises, GateWakes, GateSkips, SetStop, Tick,
       gateVars, watchVars, marketVars, Over

LEMMA TruthStep ==
  ASSUME Inv, Next
  PROVE  TruthOK'
<1>0. TypeOK /\ TruthOK
  BY DEF Inv
<1>1. CASE Open
  <2>1. /\ phase = "gate" /\ phase' = "hold" /\ price' = price
        /\ brokenAt' = BrokenSince(position', price, 0) /\ hurt' = Hurts(brokenAt')
    BY <1>1 DEF Open, MayOpen
  <2>2. ASSUME NEW l \in Legs, NEW c \in Causes
        PROVE  brokenAt'[l][c] # Never <=> Broken(l, c, position'[l], price'[l[1]])
    <3>1. brokenAt'[l][c] = IF ~Broken(l, c, position'[l], price'[l[1]]) THEN Never
                            ELSE IF brokenAt[l][c] = Never THEN 0 ELSE brokenAt[l][c]
      BY <2>1, SinceIs
    <3> QED BY <3>1 DEF Never
  <2> QED BY <2>1, <2>2 DEF TruthOK
<1>2. CASE MarketMoves
  <2>1. phase' = phase /\ hurt' = (hurt \/ Hurts(brokenAt')) /\ now \in Nat
    BY <1>0, <1>2 DEF MarketMoves, TypeOK
  <2>2. CASE phase # "hold"
    BY <1>0, <1>2, <2>1, <2>2 DEF MarketMoves, TruthOK
  <2>3. ASSUME phase = "hold", NEW l \in Legs, NEW c \in Causes
        PROVE  brokenAt'[l][c] # Never <=> Broken(l, c, position'[l], price'[l[1]])
    <3>1. brokenAt' = BrokenSince(position', price', now)
      BY <1>2, <2>3 DEF MarketMoves
    <3>2. brokenAt'[l][c] = IF ~Broken(l, c, position'[l], price'[l[1]]) THEN Never
                            ELSE IF brokenAt[l][c] = Never THEN now ELSE brokenAt[l][c]
      BY <2>1, <3>1, SinceIs
    <3> QED BY <2>1, <3>2 DEF Never
  <2> QED BY <2>1, <2>2, <2>3 DEF TruthOK
<1>3. CASE ~Open /\ ~MarketMoves
  <2>1. /\ price' = price /\ position' = position /\ brokenAt' = brokenAt /\ hurt' = hurt
        /\ phase' = phase \/ phase' \notin {"gate", "hold"}
    BY <1>3, CalmFrame DEF Over
  <2> QED BY ONLY <1>0, <2>1 DEF TruthOK, Hurts, Broken, Drifted, Breached
<1> QED BY <1>1, <1>2, <1>3

(* What can happen while a check runs.                                     *)
LEMMA Checking ==
  ASSUME Inv, Next, watch'.at = "checking"
  PROVE  \/ CheckStarts
         \/ /\ watch.at = "checking" /\ watch' = watch /\ phase = "hold" /\ UNCHANGED failedAt
            /\ \/ Check
               \/ MarketMoves
               \/ UNCHANGED <<seen, position, price, shifted, brokenAt>>
<1>0. TypeOK /\ HoldClock
  BY DEF Inv
<1> USE DEF gateVars, watchVars, marketVars
<1>1. ASSUME NEW s \in Symbols, GateAnswered(s) \/ GateRaises(s) \/ GateWakes(s) PROVE FALSE
  BY <1>0, <1>1 DEF GateAnswered, GateRaises, GateWakes, HoldClock
<1>2. CASE GateSkips \/ Open
  BY <1>0, <1>2 DEF GateSkips, Open, HoldClock
<1>3. ASSUME WatchTop \/ CheckFails \/ CheckEnds PROVE FALSE
  <2>1. \/ watch' = [at |-> "idle", due |-> 0] \/ watch' = [at |-> "top", due |-> now]
        \/ watch' = [at |-> "sleeping", due |-> now + Rest(Duration - now)]
    BY <1>3 DEF WatchTop, CheckFails, CheckEnds, MonitorReturns
  <2> QED BY <2>1
<1>4. CASE Check
  BY <1>0, <1>4 DEF Check, ReadPosition, ReadPrice, HoldClock
<1>5. CASE MarketMoves
  BY <1>0, <1>5 DEF MarketMoves, HoldClock
<1>6. CASE SetStop \/ Tick
  BY <1>0, <1>6 DEF SetStop, Tick, HoldClock
<1> QED BY <1>1, <1>2, <1>3, <1>4, <1>5, <1>6 DEF Next, Gate, Watch

(* What the events do to a leg: its entry price stays.                     *)
LEMMA EntryStays ==
  ASSUME TypeOK, MarketMoves, NEW l \in Legs
  PROVE  position'[l].entry = position[l].entry
<1>1. position \in [Legs -> [lots : Nat, entry : Nat]]
  BY DEF TypeOK
<1>2. ASSUME NEW k \in Legs, NEW n \in 0..position[k].lots - 1,
             position' = [position EXCEPT ![k].lots = n]
      PROVE  position'[l].entry = position[l].entry
  BY <1>1, <1>2
<1> QED BY <1>1, <1>2 DEF MarketMoves

(* What a request reads.                                                   *)
LEMMA PositionRead ==
  ASSUME TypeOK, NEW l \in Legs, ReadPosition(l)
  PROVE  /\ \A k \in Legs : k # l => seen'[k] = seen[k]
         /\ \/ position[l].lots = 0 /\ seen'[l].at = "missing"
            \/ /\ position[l].lots # 0 /\ seen'[l].at = "held"
               /\ seen'[l].lots = position[l].lots /\ seen'[l].entry = position[l].entry
BY DEF ReadPosition, Missing, Reading, TypeOK

LEMMA PriceRead ==
  ASSUME TypeOK, NEW l \in Legs, ReadPrice(l)
  PROVE  /\ \A k \in Legs : k # l => seen'[k] = seen[k]
         /\ seen[l].at = "held" /\ seen'[l].at = "priced"
         /\ seen'[l].lots = seen[l].lots /\ seen'[l].entry = seen[l].entry
         /\ seen'[l].price = price[l[1]]
BY DEF ReadPrice, Reading, TypeOK

LEMMA SeenStep ==
  ASSUME Inv, Next
  PROVE  SeenOK'
<1> SUFFICES ASSUME watch'.at = "checking" PROVE SeenOK'
  BY DEF SeenOK
<1>0. TypeOK /\ SeenOK
  BY DEF Inv
<1>1. CASE CheckStarts
  BY <1>1 DEF CheckStarts, SeenOK, Unread, Reading
<1>2. CASE watch.at = "checking" /\ UNCHANGED <<seen, position, price, shifted>>
  BY <1>0, <1>2 DEF SeenOK
<1>3. CASE watch.at = "checking" /\ MarketMoves
  <2>1. shifted' = TRUE /\ seen' = seen
    BY <1>3 DEF MarketMoves
  <2> QED BY <1>0, <1>3, <2>1, EntryStays DEF SeenOK
<1>4. ASSUME NEW l \in Legs, ReadPosition(l) PROVE SeenOK'
  <2>1. UNCHANGED <<position, price, shifted>> /\ watch.at = "checking"
    BY <1>4 DEF ReadPosition, marketVars
  <2> QED BY <1>0, <1>4, <2>1, PositionRead DEF SeenOK
<1>5. ASSUME NEW l \in Legs, ReadPrice(l) PROVE SeenOK'
  <2>1. UNCHANGED <<position, price, shifted>> /\ watch.at = "checking"
    BY <1>5 DEF ReadPrice, marketVars
  <2> QED BY <1>0, <1>5, <2>1, PriceRead DEF SeenOK
<1> QED BY <1>1, <1>2, <1>3, <1>4, <1>5, Checking DEF Check

(* Where the watch goes from its head, and from the end of a check.        *)
LEMMA TopGoes ==
  ASSUME WatchTop
  PROVE  /\ watch.at = "top" /\ phase = "hold"
         /\ \/ watch' = [at |-> "idle", due |-> 0] /\ watch'.at = "idle"
            \/ /\ now < Duration /\ stopAt = Never
               /\ watch' = [at |-> "sleeping", due |-> now + Rest(Duration - now)]
<1>1. /\ watch.at = "top" /\ phase = "hold"
      /\ \/ watch' = [at |-> "idle", due |-> 0]
         \/ /\ now < Duration /\ stopAt = Never
            /\ watch' = [at |-> "sleeping", due |-> now + Rest(Duration - now)]
  BY Zenon DEF WatchTop, MonitorReturns, MustStop
<1>2. watch' = [at |-> "idle", due |-> 0] => watch'.at = "idle"
  OBVIOUS
<1> QED BY <1>1, <1>2, Zenon

LEMMA CheckGoes ==
  ASSUME CheckEnds
  PROVE  /\ watch.at = "checking"
         /\ \/ watch' = [at |-> "idle", due |-> 0] /\ watch'.at = "idle"
            \/ /\ Healthy /\ ~BasketHit
               /\ watch' = [at |-> "top", due |-> now] /\ watch'.at = "top"
<1>1. /\ watch.at = "checking"
      /\ \/ watch' = [at |-> "idle", due |-> 0]
         \/ Healthy /\ ~BasketHit /\ watch' = [at |-> "top", due |-> now]
  BY Zenon DEF CheckEnds, MonitorReturns
<1>2. /\ watch' = [at |-> "idle", due |-> 0] => watch'.at = "idle"
      /\ watch' = [at |-> "top", due |-> now] => watch'.at = "top"
  OBVIOUS
<1> QED BY <1>1, <1>2, Zenon

(* The later of two times is one of them.                                  *)
LEMMA LaterIs ==
  \A a, b \in Int : Later(a, b) \in Int /\ a <= Later(a, b) /\ b <= Later(a, b)
BY DEF Later

(* Of a leg that is broken a reading is never sound when it is taken.      *)
LEMMA FreshReading ==
  ASSUME Inv, watch.at = "checking", NEW k \in Legs, ReadPosition(k) \/ ReadPrice(k),
         NEW l \in Legs, NEW c \in Causes, brokenAt[l][c] # Never, ReadingFine(l, c)'
  PROVE  ReadingFine(l, c)
<1>0. TypeOK /\ TruthOK /\ SeenOK /\ phase = "hold"
  BY DEF Inv, HoldClock
<1>1. Broken(l, c, position[l], price[l[1]])
  BY <1>0 DEF TruthOK
<1>2. c \in {"position", "price"}
  BY DEF Causes
<1>3. CASE l # k
  BY <1>0, <1>2, <1>3, PositionRead, PriceRead DEF ReadingFine
<1>4. CASE l = k /\ ReadPosition(k)
  BY <1>0, <1>1, <1>2, <1>4, PositionRead DEF ReadingFine, Broken, Drifted
<1>5. CASE l = k /\ ReadPrice(k) /\ c = "position"
  BY <1>0, <1>5, PriceRead DEF ReadingFine, Drifted
<1>6. CASE l = k /\ ReadPrice(k) /\ c = "price"
  <2>1. seen'[l].entry = position[l].entry /\ seen'[l].price = price[l[1]]
    BY <1>0, <1>6, PriceRead DEF SeenOK
  <2> QED BY <1>1, <1>6, <2>1 DEF ReadingFine, Broken, Breached
<1> QED BY <1>2, <1>3, <1>4, <1>5, <1>6

(* A check that finds nothing has read every leg and found it sound.       *)
LEMMA HealthyReading ==
  ASSUME Healthy, NEW l \in Legs, NEW c \in Causes
  PROVE  ReadingFine(l, c)
BY DEF Healthy, Priced, LegHealthy, ReadingFine, Causes

LEMMA NoticeStep ==
  ASSUME Inv, Next
  PROVE  NoticeClock'
<1> SUFFICES ASSUME NEW l \in Legs, NEW c \in Causes, brokenAt'[l][c] # Never
             PROVE  LET from == Later(failedAt', brokenAt'[l][c]) IN
                    /\ watch'.at = "top" => now' - from <= MaxRequest
                    /\ watch'.at = "sleeping" => watch'.due - from <= Heartbeat + MaxRequest
                    /\ watch'.at = "checking" =>
                         /\ watch'.due - from <= Heartbeat + 2 * MaxRequest
                         /\ ReadingFine(l, c)' => watch'.due - brokenAt'[l][c] <= MaxRequest
  BY DEF NoticeClock
<1> DEFINE from == Later(failedAt, brokenAt[l][c])
           Goal == /\ watch'.at = "top" =>
                        now' - Later(failedAt', brokenAt'[l][c]) <= MaxRequest
                   /\ watch'.at = "sleeping" =>
                        watch'.due - Later(failedAt', brokenAt'[l][c]) <= Heartbeat + MaxRequest
                   /\ watch'.at = "checking" =>
                        /\ watch'.due - Later(failedAt', brokenAt'[l][c])
                             <= Heartbeat + 2 * MaxRequest
                        /\ ReadingFine(l, c)' => watch'.due - brokenAt'[l][c] <= MaxRequest
<1> SUFFICES Goal
  OBVIOUS
<1>0. TypeOK /\ TruthOK /\ HoldClock /\ NoticeClock
  BY DEF Inv
<1>1. /\ now \in Nat /\ watch.due \in Nat /\ failedAt \in Int /\ brokenAt[l][c] \in Int
      /\ MaxRequest \in Nat /\ Heartbeat \in Nat
  BY <1>0, Numbers, Times
<1>2. from \in Int /\ failedAt <= from /\ brokenAt[l][c] <= from
  BY <1>1, LaterIs
<1>3. brokenAt[l][c] # Never =>
        /\ watch.at = "top" => now - from <= MaxRequest
        /\ watch.at = "sleeping" => watch.due - from <= Heartbeat + MaxRequest
        /\ watch.at = "checking" =>
             /\ watch.due - from <= Heartbeat + 2 * MaxRequest
             /\ ReadingFine(l, c) => watch.due - brokenAt[l][c] <= MaxRequest
  BY <1>0 DEF NoticeClock
<1>4. CASE watch'.at = "idle"
  BY <1>4
<1>5. CASE Open
  <2>1. /\ now' = 0 /\ watch'.at = "top" /\ failedAt' = failedAt /\ phase = "gate"
        /\ brokenAt' = BrokenSince(position', price, 0)
    BY <1>5 DEF Open, MayOpen
  <2>2. brokenAt'[l][c] = 0
    <3>1. brokenAt[l][c] = Never
      BY <1>0, <2>1 DEF TruthOK
    <3> QED BY <2>1, <3>1, SinceIs
  <2>3. Later(failedAt, 0) \in Int /\ 0 <= Later(failedAt, 0)
    BY <1>1 DEF Later
  <2> QED BY <1>1, <2>1, <2>2, <2>3
<1>6. CASE MarketMoves
  <2>0. UNCHANGED <<phase, now, watch, failedAt, seen>>
    BY <1>6 DEF MarketMoves
  <2> SUFFICES ASSUME phase = "hold" PROVE Goal
    BY <1>0, <1>4, <2>0 DEF HoldClock
  <2>1. brokenAt' = BrokenSince(position', price', now)
    BY <1>6 DEF MarketMoves
  <2>2. CASE brokenAt[l][c] # Never
    <3>1. brokenAt'[l][c] = brokenAt[l][c]
      BY <1>1, <2>1, <2>2, SinceIs
    <3>2. ReadingFine(l, c)' <=> ReadingFine(l, c)
      BY <2>0 DEF ReadingFine, Drifted, Breached
    <3> QED BY <1>3, <2>0, <2>2, <3>1, <3>2
  <2>3. CASE brokenAt[l][c] = Never
    <3>1. brokenAt'[l][c] = now
      BY <1>1, <2>1, <2>3, SinceIs
    <3>2. Later(failedAt, now) \in Int /\ now <= Later(failedAt, now)
      BY <1>1 DEF Later
    <3>3. /\ watch.at = "sleeping" => watch.due - now <= Heartbeat
          /\ watch.at = "checking" => watch.due - now <= MaxRequest
      BY <1>0, <1>1 DEF HoldClock
    <3> QED BY <1>1, <2>0, <3>1, <3>2, <3>3
  <2> QED BY <2>2, <2>3
<1>7. CASE WatchTop
  <2> SUFFICES ASSUME watch'.at # "idle" PROVE Goal
    BY <1>4
  <2>1. /\ watch' = [at |-> "sleeping", due |-> now + Rest(Duration - now)]
        /\ watch.at = "top" /\ now < Duration
    BY <1>7, TopGoes
  <2>3. UNCHANGED <<brokenAt, failedAt>>
    BY <1>7 DEF WatchTop, marketVars
  <2>2. Rest(Duration - now) \in Int /\ Rest(Duration - now) <= Heartbeat
    BY <1>1, <2>1, Times DEF Rest, Least
  <2> QED BY <1>1, <1>2, <1>3, <2>1, <2>2, <2>3
<1>8. CASE CheckStarts
  <2>1. /\ watch' = [at |-> "checking", due |-> now + MaxRequest] /\ now = watch.due
        /\ watch.at = "sleeping" /\ UNCHANGED <<brokenAt, failedAt>>
    BY <1>8 DEF CheckStarts
  <2>2. ~ReadingFine(l, c)'
    BY <1>8 DEF CheckStarts, ReadingFine, Unread, Reading, Causes
  <2> QED BY <1>1, <1>2, <1>3, <2>1, <2>2
<1>9. ASSUME NEW k \in Legs, ReadPosition(k) \/ ReadPrice(k) PROVE Goal
  <2>1. watch.at = "checking" /\ UNCHANGED <<watch, brokenAt, failedAt>>
    BY <1>9 DEF ReadPosition, ReadPrice, marketVars
  <2>2. ReadingFine(l, c)' => ReadingFine(l, c)
    BY <1>9, <2>1, FreshReading
  <2> QED BY <1>3, <2>1, <2>2
<1>10. CASE CheckFails
  <2>1. failedAt' = now /\ now' = now /\ brokenAt' = brokenAt /\ watch'.at = "top"
    BY <1>10 DEF CheckFails, marketVars
  <2>2. Later(now, brokenAt[l][c]) \in Int /\ now <= Later(now, brokenAt[l][c])
    BY <1>1 DEF Later
  <2> QED BY <1>1, <2>1, <2>2
<1>11. CASE CheckEnds
  <2> SUFFICES ASSUME watch'.at # "idle" PROVE Goal
    BY <1>4
  <2>1. Healthy /\ watch.at = "checking" /\ watch'.at = "top"
    BY <1>11, CheckGoes
  <2>4. UNCHANGED <<now, brokenAt, failedAt>>
    BY <1>11 DEF CheckEnds, marketVars
  <2>2. watch.due - brokenAt[l][c] <= MaxRequest
    BY <1>3, <2>1, <2>4, HealthyReading
  <2>3. now <= watch.due
    BY <1>0, <2>1 DEF HoldClock
  <2> QED BY <1>1, <1>2, <2>1, <2>2, <2>3, <2>4
<1>12. CASE SetStop \/ Tick
  <2>1. UNCHANGED <<phase, watch, seen, brokenAt, failedAt>>
    BY <1>12 DEF SetStop, Tick, watchVars, marketVars
  <2>2. ReadingFine(l, c)' <=> ReadingFine(l, c)
    BY <2>1 DEF ReadingFine, Drifted, Breached
  <2>3. watch.at = "top" => now' = now
    BY <1>0, <1>1, <1>12 DEF SetStop, Tick, HoldClock
  <2> QED BY <1>3, <2>1, <2>2, <2>3
<1>13. ASSUME phase = "gate", brokenAt' = brokenAt PROVE Goal
  BY <1>0, <1>13 DEF TruthOK
<1>14. ASSUME NEW s \in Symbols, GateAnswered(s) \/ GateRaises(s) \/ GateWakes(s) PROVE Goal
  BY <1>13, <1>14 DEF GateAnswered, GateRaises, GateWakes, marketVars
<1>15. CASE GateSkips
  BY <1>13, <1>15 DEF GateSkips, marketVars
<1> HIDE DEF Goal
<1> QED
  BY <1>5, <1>6, <1>7, <1>8, <1>9, <1>10, <1>11, <1>12, <1>14, <1>15
  DEF Next, Gate, Watch, Check

LEMMA StopStep ==
  ASSUME Inv, Next
  PROVE  StopClock'
<1>0. TypeOK /\ HoldClock /\ StopClock
  BY DEF Inv
<1>1. /\ now \in Nat /\ watch.due \in Nat /\ stopAt \in Int
      /\ MaxRequest \in Nat /\ Heartbeat \in Nat
  BY <1>0, Numbers, Times
<1>2. CASE watch'.at = "idle"
  BY <1>2 DEF StopClock
<1>3. CASE UNCHANGED <<now, watch, stopAt>>
  BY <1>0, <1>3 DEF StopClock
<1>4. CASE Open
  BY <1>1, <1>4 DEF Open, StopClock
<1>5. CASE WatchTop
  <2>1. stopAt' = stopAt
    BY <1>5 DEF WatchTop
  <2> QED BY <1>2, <1>5, <2>1, TopGoes DEF StopClock
<1>6. CASE CheckStarts
  <2>1. /\ watch.at = "sleeping" /\ now = watch.due /\ stopAt' = stopAt
        /\ watch' = [at |-> "checking", due |-> now + MaxRequest]
    BY <1>6 DEF CheckStarts
  <2> QED BY <1>0, <1>1, <2>1 DEF StopClock
<1>7. CASE CheckFails \/ CheckEnds
  <2> SUFFICES ASSUME watch'.at # "idle" PROVE StopClock'
    BY <1>2
  <2>1. watch.at = "checking" /\ watch'.at = "top"
    BY <1>7, CheckGoes DEF CheckFails
  <2>2. UNCHANGED <<now, stopAt>>
    BY <1>7 DEF CheckFails, CheckEnds, marketVars
  <2>3. now <= watch.due
    BY <1>0, <2>1 DEF HoldClock
  <2> QED BY <1>0, <1>1, <2>1, <2>2, <2>3 DEF StopClock
<1>8. CASE SetStop
  <2>1. stopAt' = now /\ UNCHANGED <<now, watch>>
    BY <1>8 DEF SetStop, watchVars
  <2> QED BY <1>0, <1>1, <2>1 DEF StopClock, HoldClock
<1>9. CASE Tick
  <2>1. UNCHANGED <<watch, stopAt>> /\ (phase = "hold" => now < watch.due)
    BY <1>9 DEF Tick, watchVars
  <2>2. watch.at # "top"
    BY <1>0, <1>1, <2>1 DEF HoldClock
  <2> QED BY <1>0, <2>1, <2>2 DEF StopClock
<1>10. CASE Check \/ MarketMoves \/ GateSkips
  BY <1>3, <1>10 DEF Check, ReadPosition, ReadPrice, MarketMoves, GateSkips, watchVars
<1>11. ASSUME NEW s \in Symbols, GateAnswered(s) \/ GateRaises(s) \/ GateWakes(s)
       PROVE  StopClock'
  BY <1>3, <1>11 DEF GateAnswered, GateRaises, GateWakes, watchVars
<1> QED BY <1>4, <1>5, <1>6, <1>7, <1>8, <1>9, <1>10, <1>11 DEF Next, Gate, Watch

(* A check that closes the basket, with nothing broken and nothing moved,  *)
(* has read the truth.                                                     *)
LEMMA TruthRead ==
  ASSUME Inv, CheckEnds, ~hurt, ~shifted, NEW l \in Legs
  PROVE  /\ seen[l].at = "priced" /\ LegHealthy(l)
         /\ seen[l].lots = position[l].lots /\ seen[l].entry = position[l].entry
         /\ seen[l].price = price[l[1]]
<1>0. /\ TruthOK /\ SeenOK /\ watch.at = "checking" /\ phase = "hold"
      /\ seen[l].at \in {"missing", "priced"}
  BY CheckGoes DEF Inv, HoldClock, CheckEnds
<1>1. "position" \in Causes /\ "price" \in Causes
  BY DEF Causes
<1>2. \A c \in Causes : ~Broken(l, c, position[l], price[l[1]])
  BY <1>0 DEF TruthOK, Hurts
<1>3. /\ position[l].lots # 0 /\ ~Drifted(l, position[l].lots)
      /\ ~Breached(position[l].entry, price[l[1]])
  BY <1>1, <1>2 DEF Broken
<1>4. seen[l].at = "priced"
  BY <1>0, <1>3 DEF SeenOK
<1>5. /\ seen[l].lots = position[l].lots /\ seen[l].entry = position[l].entry
      /\ seen[l].price = price[l[1]]
  BY <1>0, <1>4 DEF SeenOK
<1> QED BY <1>3, <1>4, <1>5 DEF LegHealthy

LEMMA CauseStep ==
  ASSUME Inv, Next
  PROVE  ClosedForCause'
<1> SUFFICES ASSUME phase' = "closed early", stopAt' = Never, ~hurt', ~shifted'
             PROVE  TrulyHit'
  BY DEF ClosedForCause
<1>0. TypeOK /\ HoldClock
  BY DEF Inv
<1>1. WatchTop \/ CheckEnds
  <2> USE <1>0 DEF Over, HoldClock
  <2>1. ASSUME NEW s \in Symbols, GateAnswered(s) \/ GateRaises(s) \/ GateWakes(s) PROVE FALSE
    BY <2>1 DEF GateAnswered, GateRaises, GateWakes
  <2>2. ~GateSkips /\ ~Open /\ ~MarketMoves /\ ~SetStop /\ ~Tick
    BY DEF GateSkips, Open, MarketMoves, SetStop, Tick
  <2>3. ~CheckStarts /\ ~Check /\ ~CheckFails
    BY DEF CheckStarts, Check, ReadPosition, ReadPrice, CheckFails
  <2> QED BY <2>1, <2>2, <2>3 DEF Next, Gate, Watch
<1>2. CASE WatchTop
  BY <1>2 DEF WatchTop, MustStop, MonitorReturns
<1>3. CASE CheckEnds
  <2>1. UNCHANGED <<position, price, hurt, shifted>>
    BY <1>3 DEF CheckEnds, marketVars
  <2>2. \A l \in Legs : /\ seen[l].at = "priced" /\ LegHealthy(l)
                        /\ seen[l].lots = position[l].lots /\ seen[l].entry = position[l].entry
                        /\ seen[l].price = price[l[1]]
    BY <1>3, <2>1, TruthRead
  <2>3. Priced = Legs /\ Healthy
    BY <2>2 DEF Priced, Healthy
  <2>4. BasketHit
    <3>1. phase = "hold"
      BY <1>0, <1>3, CheckGoes DEF HoldClock
    <3> QED BY <1>3, <2>3, <3>1 DEF CheckEnds
  <2> DEFINE won(l) == position[l].lots * price[l[1]] - position[l].lots * position[l].entry
  <2>5. ASSUME NEW l \in Legs
        PROVE  /\ Pnl(l, seen[l]) = IF l[2] \in Buys THEN won(l) ELSE -won(l)
               /\ Cost(seen[l]) = position[l].lots * position[l].entry
    BY <2>2 DEF Pnl, Cost
  <2>6. /\ [l \in Priced |-> Pnl(l, seen[l])]
             = [l \in Legs |-> IF l[2] \in Buys THEN won(l) ELSE -won(l)]
        /\ [l \in Priced |-> Cost(seen[l])]
             = [l \in Legs |-> position[l].lots * position[l].entry]
    <3> HIDE DEF won
    <3> QED BY <2>3, <2>5
  <2>7. TrulyHit
    BY <2>4, <2>6 DEF BasketHit, TotalPnl, TotalCost, TrulyHit
  <2> QED BY <2>1, <2>7 DEF TrulyHit
<1> QED BY <1>1, <1>2, <1>3

-----------------------------------------------------------------------------
(* The theorems.                                                           *)

LEMMA InvStep == Inv /\ [Next]_vars => Inv'
<1>1. ASSUME Inv, Next PROVE Inv'
  <2>1. TypeOK'
    BY <1>1, TypeStep DEF Inv
  <2> QED
    BY <1>1, <2>1, GateClockStep, HoldClockStep, TruthStep, SeenStep, NoticeStep, StopStep,
       CauseStep DEF Inv
<1>2. ASSUME Inv, UNCHANGED vars PROVE Inv'
  <2> USE <1>2 DEF Inv, vars, gateVars, watchVars, marketVars
  <2>1. TypeOK'
    BY TypeStep
  <2>2. GateClock' /\ HoldClock' /\ StopClock'
    BY DEF GateClock, HoldClock, StopClock
  <2>3. TruthOK' /\ SeenOK'
    BY DEF TruthOK, Hurts, Broken, Drifted, Breached, SeenOK
  <2>4. NoticeClock'
    BY DEF NoticeClock, ReadingFine, Drifted, Breached
  <2>5. ClosedForCause'
    BY DEF ClosedForCause, TrulyHit
  <2> QED BY <2>1, <2>2, <2>3, <2>4, <2>5
<1> QED BY <1>1, <1>2

(* The invariant holds in every state of every run.                        *)
THEOREM WatchInvariance == Spec => []Inv
BY InitInv, InvStep, PTL DEF Spec

(* Every variable keeps its type.                                          *)
THEOREM WatchTypes == Spec => []TypeOK
<1>1. Inv => TypeOK
  BY DEF Inv
<1> QED BY WatchInvariance, <1>1, PTL

(* A basket is opened on verdicts that are no staler than the longest wait *)
(* and one request.                                                        *)
THEOREM FreshVerdicts == Spec => []VerdictsAreFresh
<1>1. Inv => VerdictsAreFresh
  <2> SUFFICES ASSUME Inv, MayOpen, NEW s \in Symbols
               PROVE  now - readAt[s] <= GateWait + MaxRequest
    BY DEF VerdictsAreFresh
  <2>1. now \in Nat /\ readAt[s] \in Nat /\ now <= GateWait + MaxRequest
    BY DEF Inv, TypeOK, GateClock, MayOpen
  <2> QED BY <2>1, Times
<1> QED BY WatchInvariance, <1>1, PTL

(* The hold ends in time, by itself or when the group is told to stop.     *)
THEOREM HoldIsBounded == Spec => []HoldEnds
<1>1. Inv => HoldEnds
  <2> SUFFICES ASSUME Inv, phase = "hold"
               PROVE  /\ now <= Duration + MaxRequest
                      /\ stopAt # Never => now - stopAt <= Heartbeat + MaxRequest
    BY DEF HoldEnds, HoldBounded, StopEndsHold
  <2>1. /\ now \in Nat /\ watch.due \in Nat /\ stopAt \in Int
        /\ watch.at \in {"top", "sleeping", "checking"} /\ HoldClock /\ StopClock
    BY Numbers DEF Inv, HoldClock
  <2> QED BY <2>1, Times DEF HoldClock, StopClock
<1> QED BY WatchInvariance, <1>1, PTL

(* A broken leg is not held beyond a heartbeat and two checks.             *)
THEOREM BrokenLegsAreClosed == Spec => []BrokenIsNoticed
<1>1. Inv => BrokenIsNoticed
  <2> SUFFICES ASSUME Inv, phase = "hold", NEW l \in Legs, NEW c \in Causes,
                      brokenAt[l][c] # Never
               PROVE  now - Later(failedAt, brokenAt[l][c]) <= Heartbeat + 2 * MaxRequest
    BY DEF BrokenIsNoticed
  <2>1. /\ now \in Nat /\ watch.due \in Nat
        /\ watch.at \in {"top", "sleeping", "checking"} /\ HoldClock /\ NoticeClock
    BY Numbers DEF Inv, HoldClock
  <2>2. Later(failedAt, brokenAt[l][c]) \in Int
    BY Numbers, LaterIs DEF Inv
  <2> QED BY <2>1, <2>2, Times DEF HoldClock, NoticeClock
<1> QED BY WatchInvariance, <1>1, PTL

(* Positions are closed early for a cause.                                 *)
THEOREM ClosedEarlyForCause == Spec => []ClosedForCause
<1>1. Inv => ClosedForCause
  BY DEF Inv
<1> QED BY WatchInvariance, <1>1, PTL

-----------------------------------------------------------------------------
(* The spread strategy, for any limit on failures.  The invariant says at  *)
(* each point of the cycle which legs the answers so far account for, and  *)
(* when run has a plan.                                                    *)

(* active_plan follows the control location.                               *)
PlanKnown ==
  /\ pc \in {"signal", "opening", "rollback", "notify", "pollWait", "cooldown",
             "backoff"} => ~plan
  /\ pc \in {"minHold", "check", "checkWait", "closing"} => plan

(* Whether a leg is held, if the exchange has done on it what the answers  *)
(* were taken for.                                                         *)
LegOK(c) ==
  /\ pc \in Waits \cup {"top", "signal", "check", "backoff"} => (c \in held <=> plan)
  /\ pc = "opening" => (c \in held <=> c \notin sent \cup failed)
  /\ pc = "rollback" => (c \in held <=> c \notin failed)
  /\ pc = "notify" => c \in held
  /\ pc = "closing" => (c \in held => c \in sent \cup failed)
  /\ pc = "returned" => c \notin held

GatherOK ==
  /\ sent \cap failed = {}
  /\ pc = "rollback" => failed # Clients

HedgeOK == late \subseteq lost /\ \A c \in Clients \ lost : LegOK(c)

(* A trade that may be checked has been held for its time.                 *)
HoldOK ==
  /\ plan /\ pc \in {"top", "check", "checkWait"} => waited
  /\ pc = "closing" /\ why = "reverted" => waited

SpreadInv == SpreadTypeOK /\ PlanKnown /\ GatherOK /\ HedgeOK /\ HoldOK

-----------------------------------------------------------------------------
(* The initial state satisfies the invariant.                              *)
LEMMA SpreadInvInit == SpreadInit => SpreadInv
<1> SUFFICES ASSUME SpreadInit PROVE SpreadInv
  OBVIOUS
<1> USE FailuresAssumption DEF SpreadInit
<1>1. failures \in 0..MaxCount
  OBVIOUS
<1>2. SpreadTypeOK
  BY <1>1, Zenon DEF SpreadTypeOK, Locations
<1>3. PlanKnown /\ GatherOK /\ HedgeOK /\ HoldOK
  BY DEF PlanKnown, GatherOK, HedgeOK, LegOK, HoldOK, Waits
<1> QED BY <1>2, <1>3 DEF SpreadInv

(* The failures stay within their bound.                                   *)
LEMMA CountBounded ==
  ASSUME failures \in 0..MaxCount, CountFailure
  PROVE  failures' \in 0..MaxCount /\ pc' \in {"returned", "backoff"}
BY FailuresAssumption DEF CountFailure

(* Every step of the strategy, and of the world, keeps the types.          *)
LEMMA SpreadTypeStep == SpreadTypeOK /\ [SpreadNext]_spreadVars => SpreadTypeOK'
<1> SUFFICES ASSUME SpreadTypeOK, [SpreadNext]_spreadVars PROVE SpreadTypeOK'
  OBVIOUS
<1> USE DEF SpreadTypeOK, Locations, Waits, Working, Ended, Goto, SendBoth, CloseSpread,
        Fail, Leave, legVars, worldVars
<1>1. CASE Top \/ WaitOver \/ WaitInterrupted \/ BackoffOver
  BY <1>1 DEF Top, WaitOver, WaitInterrupted, BackoffOver
<1>2. CASE NoSignal \/ OpenSpread \/ Opened \/ StillApart \/ Reverted
  BY <1>2 DEF NoSignal, OpenSpread, Opened, StillApart, Reverted
<1>3. CASE SignalFails \/ RevertCheckFails \/ OpenFailed
  BY <1>3, CountBounded DEF SignalFails, RevertCheckFails, OpenFailed
<1>4. CASE Rollback
  BY <1>4, CountBounded DEF Rollback
<1>5. ASSUME NEW c \in Clients,
             OpenAnswered(c) \/ OpenRaises(c) \/ CloseAnswered(c) \/ CloseRaises(c)
      PROVE  SpreadTypeOK'
  BY <1>5 DEF OpenAnswered, OpenRaises, CloseAnswered, CloseRaises
<1>6. CASE Notified
  BY <1>6, FailuresAssumption DEF Notified
<1>7. CASE Closed
  BY <1>7, CountBounded DEF Closed
<1>8. CASE CloseFailed
  BY <1>8 DEF CloseFailed
<1>9. ASSUME NEW c \in Clients, LateFill(c) \/ Liquidate(c) PROVE SpreadTypeOK'
  BY <1>9 DEF LateFill, Liquidate
<1>10. CASE RequestStop
  BY <1>10 DEF RequestStop
<1>11. CASE Cancel
  BY <1>11 DEF Cancel
<1>12. CASE UNCHANGED spreadVars
  BY <1>12 DEF spreadVars
<1> QED BY <1>1, <1>2, <1>3, <1>4, <1>5, <1>6, <1>7, <1>8, <1>9, <1>10, <1>11, <1>12
        DEF SpreadNext, Run, World

(* A failure and a departure leave a trade that is open to a close.        *)
LEMMA FailLeaves ==
  ASSUME Fail \/ Leave
  PROVE  \/ /\ plan /\ pc' = "closing" /\ why' \in {"failure", "stop"}
            /\ sent' = Clients /\ failed' = {}
         \/ /\ ~plan /\ pc' \in {"returned", "backoff"} /\ UNCHANGED <<sent, failed>>
BY DEF Fail, Leave, CloseSpread, SendBoth, CountFailure

(* Every step keeps the rest of the invariant.                             *)
LEMMA SpreadInvStep == SpreadInv /\ [SpreadNext]_spreadVars => SpreadInv'
<1> SUFFICES ASSUME SpreadInv, [SpreadNext]_spreadVars PROVE SpreadInv'
  OBVIOUS
<1> DEFINE Others == PlanKnown /\ GatherOK /\ HedgeOK /\ HoldOK
<1>1. SpreadTypeOK'
  BY SpreadTypeStep DEF SpreadInv
<1> SUFFICES Others'
  BY <1>1 DEF SpreadInv
<1> USE DEF SpreadInv, SpreadTypeOK, PlanKnown, GatherOK, HedgeOK, LegOK, HoldOK, Waits, Working,
        Goto, SendBoth, CloseSpread, legVars, worldVars
<1>2. CASE Top
  BY <1>2, FailLeaves DEF Top
<1>3. CASE WaitOver \/ BackoffOver
  BY <1>3 DEF WaitOver, BackoffOver
<1>4. CASE WaitInterrupted
  BY <1>4, FailLeaves DEF WaitInterrupted
<1>5. CASE NoSignal \/ OpenSpread \/ Opened \/ Notified
  BY <1>5 DEF NoSignal, OpenSpread, Opened, Notified
<1>6. CASE StillApart \/ Reverted
  BY <1>6 DEF StillApart, Reverted
<1>7. CASE SignalFails \/ RevertCheckFails
  BY <1>7, FailLeaves DEF SignalFails, RevertCheckFails
<1>8. CASE OpenFailed
  BY <1>8, FailLeaves DEF OpenFailed
<1>9. CASE Rollback
  BY <1>9, FailLeaves DEF Rollback
<1>10. ASSUME NEW c \in Clients, OpenAnswered(c) \/ OpenRaises(c) PROVE Others'
  BY <1>10 DEF OpenAnswered, OpenRaises
<1>11. ASSUME NEW c \in Clients, CloseAnswered(c) \/ CloseRaises(c) PROVE Others'
  BY <1>11 DEF CloseAnswered, CloseRaises
<1>12. CASE Closed
  BY <1>12 DEF Closed, CountFailure
<1>13. CASE CloseFailed
  BY <1>13 DEF CloseFailed
<1>14. ASSUME NEW c \in Clients, LateFill(c) \/ Liquidate(c) PROVE Others'
  BY <1>14 DEF LateFill, Liquidate
<1>15. CASE RequestStop
  BY <1>15 DEF RequestStop
<1>16. CASE Cancel
  <2>1. Clients # {}
    BY DEF Clients
  <2> QED BY <1>16, <2>1, FailLeaves DEF Cancel
<1>17. CASE UNCHANGED spreadVars
  BY <1>17 DEF spreadVars
<1> QED BY <1>2, <1>3, <1>4, <1>5, <1>6, <1>7, <1>8, <1>9, <1>10, <1>11, <1>12, <1>13,
           <1>14, <1>15, <1>16, <1>17 DEF SpreadNext, Run, World

-----------------------------------------------------------------------------
(* The theorems.                                                           *)

(* The invariant holds in every state of every run of the strategy.        *)
THEOREM SpreadInvariance == SpreadSpec => []SpreadInv
BY SpreadInvInit, SpreadInvStep, PTL DEF SpreadSpec

(* Every variable keeps its type.                                          *)
THEOREM SpreadTypes == SpreadSpec => []SpreadTypeOK
<1>1. SpreadInv => SpreadTypeOK
  BY DEF SpreadInv
<1> QED BY SpreadInvariance, <1>1, PTL

(* Without looking at its positions the strategy has each leg that it      *)
(* believes to have and no other, where the exchange does what its answers *)
(* are taken for.                                                          *)
THEOREM Hedged == SpreadSpec => []HedgedOrFlat
<1>1. SpreadInv => HedgedOrFlat
  BY DEF SpreadInv, HedgedOrFlat, HedgeOK, LegOK
<1> QED BY SpreadInvariance, <1>1, PTL

(* No trade is closed on its spread before its minimum hold is over.       *)
THEOREM HoldsLongEnough == SpreadSpec => []MinimumHold
<1>1. SpreadInv => MinimumHold
  BY DEF SpreadInv, MinimumHold, HoldOK
<1> QED BY SpreadInvariance, <1>1, PTL
=============================================================================
