----------------------- MODULE ClientPositions_proofs -----------------------
(***************************************************************************)
(* Proofs about ClientPositions for any accounts, symbols, sizes, numbers  *)
(* of tries, of attempts and of processes.  The invariant says what a      *)
(* client knows of the account it works on: which positions it has read,   *)
(* that these are still what they were unless something moved them, and    *)
(* that its order is about one of these.                                   *)
(***************************************************************************)
EXTENDS ClientPositions, TLAPS

(* What an order left behind is marked with is always looked at in full.   *)
USE DEF marks

-----------------------------------------------------------------------------
(* The inductive invariant.                                                *)

Sides == {"bid", "ask"}
(* A closing order, as far as it is the same when it is sent again.        *)
OrderType ==
  [symbol : Symbols, side : Sides, qty : 1..MaxSize, reduce_only : {TRUE},
   tries : 0..(MaxTries - 1), done : BOOLEAN]

Working == stage \in {"read", "close"}

(* Symbols in lists of positions that have not been answered.              *)
Unanswered == UNION {Holds(list) : list \in unread}

(* The position that was read, as a signed amount.                         *)
Value(p) == Signed(p.side, p.size)

(* The stages, and what is kept between them.                              *)
StageOK ==
  /\ explicit \subseteq Other
  /\ ~Working => seen = Flat
  /\ stage # "close" => req = NoRequest
  /\ stage # "read" => unread = {}
  /\ unread \subseteq Lists
  /\ caller = "command" => ~failed
  /\ \A s \in Symbols : seen[s] # NoPosition => Mine(s)

(* An order closes a position that was read, and only that.                *)
OrderOK ==
  req # NoRequest =>
    /\ req \in OrderType
    /\ seen[req.symbol] # NoPosition
    /\ req.side = Opposite(seen[req.symbol].side)
    /\ req.qty = seen[req.symbol].size

SessionOK == ~NeedsSession => \A a \in AccountSet : session[a] = "none"

(* A position that was read, and not moved since, is there or closed.      *)
ReadOK ==
  Working =>
    \A s \in Symbols : Mine(s) /\ s \notin moved[Here] /\ s \notin Unanswered =>
      pos[Here][s] \in {0, Value(seen[s])}

(* What is on the book has come to rest, or was refused a cancel.          *)
BookOK ==
  Working /\ ~failed =>
    \A s \in resting[Here] : s \in landed[Here] \cup refused[Here] \/ Foreign(s)

Inv == TypeOK /\ StageOK /\ OrderOK /\ SessionOK /\ ReadOK /\ BookOK /\ LeftExplained

-----------------------------------------------------------------------------
(* Facts about the definitions.                                            *)

LEMMA HereType == at \in DOMAIN Accounts => Here \in AccountSet
BY DEF Here, AccountSet

(* All clients read the same position from the same amount.                *)
LEMMA ReadIs ==
  ASSUME NEW list, NEW n \in Int
  PROVE  Read(list, Raw(n)) = IF n = 0 THEN NoPosition
                              ELSE Position(IF n > 0 THEN "bid" ELSE "ask", Abs(n))
<1> DEFINE p == IF n = 0 THEN NoPosition ELSE Position(IF n > 0 THEN "bid" ELSE "ask", Abs(n))
<1>1. BySign(Raw(n)) = p
  BY DEF BySign, Raw
<1>2. BySide(Raw(n)) = p
  BY DEF BySide, Raw, Abs
<1> HIDE DEF p
<1>3. Read(list, Raw(n)) = p
  BY <1>1, <1>2 DEF Read, HyperliquidPosition, NadoCrossPosition, NadoIsolatedPosition,
     OmniPosition, ZeroOnePosition, EtherealPosition, PacificaPosition, RisePosition
<1> QED BY <1>3 DEF p

(* What a list says of a position within the bound.                        *)
LEMMA ReadType ==
  ASSUME NEW list, NEW n \in (-MaxSize)..MaxSize
  PROVE  /\ Read(list, Raw(n)) \in {NoPosition} \cup [side : Sides, size : 1..MaxSize]
         /\ Value(Read(list, Raw(n))) = n
<1>1. MaxSize \in Nat
  BY PositionsAssumption
<1>2. CASE n = 0
  <2>1. Read(list, Raw(n)) = NoPosition
    BY <1>2, ReadIs
  <2> QED BY <1>2, <2>1 DEF NoPosition, Position, Value, Signed
<1>3. CASE n > 0
  <2>1. Read(list, Raw(n)) = Position("bid", n)
    BY <1>1, <1>3, ReadIs DEF Abs
  <2> QED BY <1>1, <1>3, <2>1 DEF Position, Value, Signed, Sides
<1>4. CASE n < 0
  <2>1. Read(list, Raw(n)) = Position("ask", -n)
    BY <1>1, <1>4, ReadIs DEF Abs
  <2> QED BY <1>1, <1>4, <2>1 DEF Position, Value, Signed, Sides
<1> QED BY <1>1, <1>2, <1>3, <1>4

(* What is not one's own is another's, and the other way round.            *)
LEMMA MineOrForeign ==
  ASSUME StageOK, NEW s \in Symbols
  PROVE  Mine(s) <=> ~Foreign(s)
BY PositionsAssumption DEF Mine, Foreign, StageOK, Symbols

(* What is one's own is in a list that is read.                            *)
LEMMA ListsCover ==
  ASSUME StageOK, NEW s \in Symbols, Mine(s)
  PROVE  \E list \in Lists : s \in Holds(list)
<1>1. CASE client = "hyena"
  BY <1>1 DEF Mine, Lists, Holds
<1>2. CASE client \in {"hyperliquid", "onyx", "nado"}
  <2>1. Lists = {"main", "other"}
    BY <1>2 DEF Lists
  <2>2. Holds("main") = Main
    BY <1>2 DEF Holds
  <2>3. Holds("other") = Other
    BY DEF Holds
  <2> QED BY <2>1, <2>2, <2>3 DEF Symbols
<1>3. CASE client \notin {"hyena", "hyperliquid", "onyx", "nado"}
  <2>1. Lists = {"main"} /\ Holds("main") = Symbols
    BY <1>3 DEF Lists, Holds
  <2> QED BY <2>1
<1> QED BY <1>1, <1>2, <1>3

(* The order that closes a position.                                       *)
LEMMA CloseOrderIs ==
  ASSUME NEW s, NEW p \in [side : Sides, size : 1..MaxSize]
  PROVE  CloseOrder(s, p) = MarketOrder(s, Opposite(p.side), p.size, TRUE)
<1>1. MaxSize \in Nat /\ p.side \in Sides /\ p.size \in 1..MaxSize
  BY PositionsAssumption
<1>2. p.side = "bid" => Signed(p.side, p.size) = p.size /\ Opposite(p.side) = "ask"
  BY DEF Signed, Opposite
<1>3. p.side = "ask" => Signed(p.side, p.size) = -p.size /\ Opposite(p.side) = "bid"
  BY DEF Signed, Opposite
<1>4. OmniClose(s, p) = MarketOrder(s, Opposite(p.side), p.size, TRUE)
  <2>1. CASE p.side = "bid"
    <3>1. -Signed(p.side, p.size) < 0 /\ Abs(-Signed(p.side, p.size)) = p.size
      BY <1>1, <1>2, <2>1 DEF Abs
    <3> QED BY <1>2, <2>1, <3>1 DEF OmniClose
  <2>2. CASE p.side = "ask"
    <3>1. ~(-Signed(p.side, p.size) < 0) /\ Abs(-Signed(p.side, p.size)) = p.size
      BY <1>1, <1>3, <2>2 DEF Abs
    <3> QED BY <1>3, <2>2, <3>1 DEF OmniClose
  <2> QED BY <1>1, <2>1, <2>2 DEF Sides
<1> QED BY <1>4 DEF CloseOrder, CloseByMarketOrder

(* A request that is sent again is about the same order.                   *)
LEMMA SentAgain ==
  ASSUME NEW r \in OrderType, NEW u \in 0..(MaxTries - 1), NEW e \in BOOLEAN
  PROVE  /\ [r EXCEPT !.tries = u, !.done = e] \in OrderType
         /\ [r EXCEPT !.tries = u, !.done = e].symbol = r.symbol
         /\ [r EXCEPT !.tries = u, !.done = e].side = r.side
         /\ [r EXCEPT !.tries = u, !.done = e].qty = r.qty
BY DEF OrderType

LEMMA OrderedType ==
  ASSUME NEW s \in Symbols, NEW p \in [side : Sides, size : 1..MaxSize]
  PROVE  /\ CloseOrder(s, p) \in OrderType
         /\ CloseOrder(s, p).symbol = s
         /\ CloseOrder(s, p).side = Opposite(p.side)
         /\ CloseOrder(s, p).qty = p.size
<1>1. Opposite(p.side) \in Sides /\ p.size \in 1..MaxSize /\ 0 \in 0..(MaxTries - 1)
  BY PositionsAssumption DEF Opposite, Sides
<1>2. CloseOrder(s, p) = [symbol |-> s, side |-> Opposite(p.side), qty |-> p.size,
                          reduce_only |-> TRUE, tries |-> 0, done |-> FALSE]
  BY CloseOrderIs DEF MarketOrder
<1> QED BY <1>1, <1>2 DEF OrderType

(* An order that only reduces moves a position towards zero, and not       *)
(* beyond; against a position of its own size it leaves nothing open.      *)
LEMMA MostReduces ==
  ASSUME NEW p \in Int, p = pos[Here][req.symbol], req.reduce_only,
         req.side \in Sides, req.qty \in Nat, NEW lots \in 0..Most
  PROVE  /\ Most \in Nat
         /\ p + Signed(req.side, lots) \in Int
         /\ \/ p + Signed(req.side, lots) \in 0..p
            \/ -(p + Signed(req.side, lots)) \in 0..(-p)
         /\ lots = Most /\ Abs(p) <= req.qty /\ p * Signed(req.side, 1) < 0
              => p + Signed(req.side, lots) = 0
<1>1. CASE req.side = "bid"
  <2>1. Most = IF p >= 0 THEN 0 ELSE Lesser(req.qty, -p)
    BY <1>1 DEF Most, Signed, Abs
  <2> QED BY <1>1, <2>1 DEF Lesser, Signed, Abs
<1>2. CASE req.side = "ask"
  <2>1. Most = IF p <= 0 THEN 0 ELSE Lesser(req.qty, p)
    BY <1>2 DEF Most, Signed, Abs
  <2> QED BY <1>2, <2>1 DEF Lesser, Signed, Abs
<1> QED BY <1>1, <1>2 DEF Sides

-----------------------------------------------------------------------------
(* What the actions leave alone.                                           *)

LEMMA SameClient ==
  ASSUME UNCHANGED <<client, explicit>>
  PROVE  /\ Lists' = Lists
         /\ NeedsSession' <=> NeedsSession
         /\ \A s : (Mine(s)' <=> Mine(s)) /\ (Foreign(s)' <=> Foreign(s))
         /\ \A list : Holds(list)' = Holds(list)
BY DEF Lists, NeedsSession, Mine, Foreign, Holds

LEMMA ClientKept == [Next]_vars => UNCHANGED <<client, explicit>>
<1> SUFFICES ASSUME [Next]_vars PROVE UNCHANGED <<client, explicit>>
  OBVIOUS
<1>1. CASE Step
  BY <1>1 DEF Step, Warmup, CancelAll, ReadList, ReadFails, ClosePosition, OrderArrives,
              OrderLost, OrderRefused, AllClosed
<1>2. CASE Environment
  BY <1>2 DEF Environment, RestingFills, LateLands, Liquidated, SessionEnds
<1>3. CASE CleanAgain \/ \E who \in {"command", "cleanup"} : Restart(who)
  BY <1>3 DEF CleanAgain, Restart, Begin
<1>4. CASE UNCHANGED vars
  BY <1>4 DEF vars
<1> QED BY <1>1, <1>2, <1>3, <1>4 DEF Next

LEMMA Bounds ==
  /\ MaxSize \in Nat \ {0} /\ MaxTries \in Nat \ {0}
  /\ MaxAttempts \in Nat \ {0} /\ MaxRuns \in Nat \ {0}
BY PositionsAssumption

(* An error ends the command, or begins the next stage or attempt of the   *)
(* cleanup; nothing that was read is kept.                                 *)
LEMMA Raised ==
  ASSUME TypeOK, Raise
  PROVE  /\ seen' = Flat /\ req' = NoRequest
         /\ UNCHANGED <<caller, runs, at>>
         /\ attempt' \in 1..MaxAttempts /\ failed' \in BOOLEAN
         /\ \/ caller = "command" /\ stage' = "raised" /\ unread' = {} /\ failed' = failed
            \/ caller = "cleanup" /\ stage' = "read" /\ unread' = Lists /\ failed'
            \/ caller = "cleanup" /\ stage' \in {"cancel", "gave up"} /\ unread' = {}
<1>1. seen' = Flat /\ req' = NoRequest /\ UNCHANGED <<caller, runs>>
  BY DEF Raise
<1>2. attempt \in 1..MaxAttempts /\ MaxAttempts \in Nat /\ failed \in BOOLEAN
  BY Bounds DEF TypeOK
<1>3. CASE caller = "command" /\ stage' = "raised" /\ unread' = {} /\ UNCHANGED <<at, attempt, failed>>
  BY <1>1, <1>2, <1>3
<1>4. CASE /\ caller = "cleanup" /\ stage' = "read" /\ unread' = Lists /\ failed' = TRUE
           /\ UNCHANGED <<at, attempt>>
  BY <1>1, <1>2, <1>4
<1>5. CASE caller = "cleanup" /\ AttemptFailed /\ unread' = {}
  <2>1. CASE attempt < MaxAttempts
    <3>1. stage' = "cancel" /\ attempt' = attempt + 1 /\ failed' = FALSE /\ UNCHANGED at
      BY <1>5, <2>1 DEF AttemptFailed
    <3>2. attempt' \in 1..MaxAttempts
      BY <1>2, <2>1, <3>1
    <3> QED BY <1>1, <1>5, <3>1, <3>2
  <2>2. CASE ~(attempt < MaxAttempts)
    BY <1>1, <1>2, <1>5, <2>2 DEF AttemptFailed
  <2> QED BY <2>1, <2>2
<1> QED BY <1>3, <1>4, <1>5 DEF Raise

(* What the exchange and the market do, none of it unrecorded.             *)
Recorded ==
  \A a \in AccountSet, s \in Symbols :
    /\ moved[a] \subseteq moved'[a] /\ landed[a] \subseteq landed'[a]
    /\ refused[a] \subseteq refused'[a]
    /\ pos'[a][s] # pos[a][s] => s \in moved'[a]
    /\ s \in resting'[a] => s \in resting[a] \/ s \in landed'[a]

LEMMA EnvironmentKeeps ==
  ASSUME TypeOK, Environment
  PROVE  /\ UNCHANGED <<client, explicit, process, reading, req>>
         /\ Recorded
         /\ Running \/ Working \/ \E s \in Symbols : seen[s] # NoPosition
         /\ pos' \in [AccountSet -> [Symbols -> (-MaxSize)..MaxSize]]
         /\ resting' \in [AccountSet -> SUBSET Symbols]
         /\ late' \in [AccountSet -> SUBSET Symbols]
         /\ moved' \in [AccountSet -> SUBSET Symbols]
         /\ landed' \in [AccountSet -> SUBSET Symbols]
         /\ refused' \in [AccountSet -> SUBSET Symbols]
         /\ \/ UNCHANGED session
            \/ \E a \in AccountSet : session[a] = "live" /\ session' = [session EXCEPT ![a] = "ended"]
<1> DEFINE Goal ==
         /\ UNCHANGED <<client, explicit, process, reading, req>>
         /\ Recorded
         /\ Running \/ Working \/ \E s \in Symbols : seen[s] # NoPosition
         /\ pos' \in [AccountSet -> [Symbols -> (-MaxSize)..MaxSize]]
         /\ resting' \in [AccountSet -> SUBSET Symbols]
         /\ late' \in [AccountSet -> SUBSET Symbols]
         /\ moved' \in [AccountSet -> SUBSET Symbols]
         /\ landed' \in [AccountSet -> SUBSET Symbols]
         /\ refused' \in [AccountSet -> SUBSET Symbols]
         /\ \/ UNCHANGED session
            \/ \E a \in AccountSet : session[a] = "live" /\ session' = [session EXCEPT ![a] = "ended"]
<1>a. ASSUME NEW a \in AccountSet, NEW s \in Symbols, NEW n \in (-MaxSize)..MaxSize, Move(a, s, n)
      PROVE  /\ pos' \in [AccountSet -> [Symbols -> (-MaxSize)..MaxSize]]
             /\ moved' \in [AccountSet -> SUBSET Symbols]
             /\ \A b \in AccountSet, t \in Symbols :
                  moved[b] \subseteq moved'[b] /\ (pos'[b][t] # pos[b][t] => t \in moved'[b])
  BY <1>a DEF Move, TypeOK
<1>b. \A a \in AccountSet, s \in Symbols : pos[a][s] \in (-MaxSize)..MaxSize
  <2> SUFFICES ASSUME NEW a \in AccountSet, NEW s \in Symbols
               PROVE  pos[a][s] \in (-MaxSize)..MaxSize
    OBVIOUS
  <2>1. pos[a] \in [Symbols -> (-MaxSize)..MaxSize]
    BY DEF TypeOK
  <2> QED BY <2>1
<1>1. ASSUME NEW a \in AccountSet, NEW s \in Symbols, RestingFills(a, s) PROVE Goal
  <2>1. pos[a][s] + 1 \in (-MaxSize)..MaxSize /\ Move(a, s, pos[a][s] + 1)
    BY <1>1, <1>b, Bounds DEF RestingFills
  <2>2. resting' \in [AccountSet -> SUBSET Symbols] /\ \A b \in AccountSet : resting'[b] \subseteq resting[b]
    <3>1. PICK left \in {resting[a], resting[a] \ {s}} : resting' = [resting EXCEPT ![a] = left]
      BY <1>1 DEF RestingFills
    <3>2. resting \in [AccountSet -> SUBSET Symbols]
      BY DEF TypeOK
    <3> QED BY <3>1, <3>2
  <2>3. Running /\ UNCHANGED <<client, explicit, late, session, process, reading, req, marks>>
    BY <1>1 DEF RestingFills
  <2>4. Recorded
    BY <1>a, <2>1, <2>2, <2>3 DEF Recorded
  <2>5. /\ late' \in [AccountSet -> SUBSET Symbols] /\ landed' \in [AccountSet -> SUBSET Symbols]
        /\ refused' \in [AccountSet -> SUBSET Symbols]
    BY <2>3 DEF TypeOK
  <2> QED BY <1>a, <2>1, <2>2, <2>3, <2>4, <2>5
<1>2. ASSUME NEW a \in AccountSet, NEW s \in Symbols, LateLands(a, s) PROVE Goal
  <2>1. CASE pos[a][s] < MaxSize /\ Move(a, s, pos[a][s] + 1) /\ UNCHANGED <<resting, landed>>
    <3>1. pos[a][s] + 1 \in (-MaxSize)..MaxSize
      BY <1>b, <2>1, Bounds
    <3> QED BY <1>2, <1>a, <2>1, <3>1 DEF LateLands, Recorded, TypeOK
  <2>2. CASE /\ resting' = [resting EXCEPT ![a] = @ \cup {s}]
             /\ landed' = [landed EXCEPT ![a] = @ \cup {s}]
             /\ UNCHANGED <<pos, moved>>
    BY <1>2, <2>2 DEF LateLands, Recorded, TypeOK
  <2> QED BY <1>2, <2>1, <2>2 DEF LateLands
<1>3. ASSUME NEW a \in AccountSet, NEW s \in Symbols, Liquidated(a, s) PROVE Goal
  <2>1. 0 \in (-MaxSize)..MaxSize /\ Move(a, s, 0)
    BY <1>3, Bounds DEF Liquidated
  <2> QED BY <1>3, <1>a, <2>1 DEF Liquidated, Recorded, TypeOK
<1>4. ASSUME NEW a \in AccountSet, SessionEnds(a) PROVE Goal
  BY <1>4 DEF SessionEnds, Recorded, market, history, TypeOK
<1>5. Goal
  BY <1>1, <1>2, <1>3, <1>4 DEF Environment
<1> QED BY <1>5

(* A new call begins when the last one is over, and knows nothing.         *)
LEMMA BeginKeeps ==
  ASSUME CleanAgain \/ \E who \in {"command", "cleanup"} : Restart(who)
  PROVE  \E who \in {"command", "cleanup"} : Begin(who)
BY DEF CleanAgain, Restart

(* What becomes of a request.                                              *)
Retried ==
  /\ req' \in OrderType
  /\ req'.symbol = req.symbol /\ req'.side = req.side /\ req'.qty = req.qty
  /\ UNCHANGED <<process, reading>>

Closed ==
  /\ seen' = [seen EXCEPT ![req.symbol] = NoPosition]
  /\ req' = NoRequest
  /\ UNCHANGED <<process, unread>>

LEMMA RetriedOrRaised ==
  ASSUME OrderOK, req # NoRequest, NEW d \in BOOLEAN, SendAgain(d)
  PROVE  Retried \/ Raise
<1> SUFFICES ASSUME ~Raise PROVE Retried
  OBVIOUS
<1>1. req \in OrderType
  BY DEF OrderOK
<1>2. req.tries + 1 < MaxTries /\ UNCHANGED <<process, reading>>
  BY DEF SendAgain
<1>3. req.tries + 1 \in 0..(MaxTries - 1)
  BY <1>1, <1>2, Bounds DEF OrderType
<1>4. PICK e \in BOOLEAN : req' = [req EXCEPT !.tries = req.tries + 1, !.done = e]
  <2> DEFINE e == req.done \/ d
  <2>1. req' = [req EXCEPT !.tries = req.tries + 1, !.done = e]
    BY <1>2, Zenon DEF SendAgain
  <2>2. e \in BOOLEAN
    OBVIOUS
  <2> HIDE DEF e
  <2> QED BY <2>1, <2>2, Zenon
<1>5. /\ req' \in OrderType
      /\ req'.symbol = req.symbol /\ req'.side = req.side /\ req'.qty = req.qty
  BY <1>1, <1>3, <1>4, SentAgain, Zenon
<1> QED BY <1>2, <1>5 DEF Retried

(* An order that arrives moves one position of the account at hand towards *)
(* zero.                                                                   *)
LEMMA Arrived ==
  ASSUME TypeOK, OrderOK, OrderArrives
  PROVE  /\ req # NoRequest /\ req \in OrderType /\ Authorized(Here)
         /\ Here \in AccountSet
         /\ pos[Here][req.symbol] \in (-MaxSize)..MaxSize
         /\ \E n \in (-MaxSize)..MaxSize :
              /\ pos' = [pos EXCEPT ![Here][req.symbol] = n]
              /\ n \in 0..pos[Here][req.symbol] \/ -n \in 0..(-pos[Here][req.symbol])
              /\ \/ req.symbol \in moved'[Here]
                 \/ /\ Abs(pos[Here][req.symbol]) <= req.qty
                    /\ pos[Here][req.symbol] * Signed(req.side, 1) < 0
                    => n = 0
         /\ \A a \in AccountSet : moved[a] \subseteq moved'[a]
         /\ moved' \in [AccountSet -> SUBSET Symbols]
         /\ Retried \/ Closed \/ Raise
         /\ UNCHANGED <<client, explicit, resting, late, session, marks>>
<1> DEFINE p == pos[Here][req.symbol]
<1>1. req # NoRequest /\ req \in OrderType /\ Authorized(Here)
  BY DEF OrderArrives, OrderOK
<1>2. Here \in AccountSet /\ req.symbol \in Symbols /\ req.side \in Sides /\ req.qty \in Nat /\ req.reduce_only
  <2>1. at \in DOMAIN Accounts
    BY DEF TypeOK
  <2>2. req.symbol \in Symbols /\ req.side \in Sides /\ req.qty \in 1..MaxSize /\ req.reduce_only = TRUE
    BY <1>1 DEF OrderType
  <2> QED BY <2>1, <2>2, HereType, Bounds
<1>3. p \in (-MaxSize)..MaxSize /\ p \in Int
  <2>1. pos[Here] \in [Symbols -> (-MaxSize)..MaxSize]
    BY <1>2 DEF TypeOK
  <2> QED BY <1>2, <2>1, Bounds
<1>4. PICK lots \in 0..Most :
        /\ Executes(lots)
        /\ moved' = IF lots < Most THEN [moved EXCEPT ![Here] = @ \cup {req.symbol}] ELSE moved
        /\ Answered(lots) \/ SendAgain(TRUE)
  BY DEF OrderArrives
<1> DEFINE n == p + Signed(req.side, lots)
<1>5. /\ Most \in Nat /\ n \in Int
      /\ n \in 0..p \/ -n \in 0..(-p)
      /\ lots = Most /\ Abs(p) <= req.qty /\ p * Signed(req.side, 1) < 0 => n = 0
  BY <1>2, <1>3, MostReduces
<1>6. pos' = [pos EXCEPT ![Here][req.symbol] = n]
  BY <1>4 DEF Executes
<1> HIDE DEF n, p
<1>7. n \in (-MaxSize)..MaxSize
  BY <1>3, <1>5, Bounds
<1>8. /\ \A a \in AccountSet : moved[a] \subseteq moved'[a]
      /\ moved' \in [AccountSet -> SUBSET Symbols]
      /\ req.symbol \in moved'[Here] \/ lots = Most
  <2>a. moved \in [AccountSet -> SUBSET Symbols]
    BY DEF TypeOK
  <2>b. lots < Most \/ lots = Most
    BY <1>4, <1>5
  <2>1. moved \in [AccountSet -> SUBSET Symbols] /\ (lots < Most \/ lots = Most)
    BY <2>a, <2>b
  <2>2. CASE lots < Most
    BY <1>2, <1>4, <2>1, <2>2
  <2>3. CASE lots = Most
    BY <1>4, <1>5, <2>1, <2>3
  <2> QED BY <2>1, <2>2, <2>3
<1>9. Retried \/ Closed \/ Raise
  <2>1. CASE Answered(lots)
    BY <2>1 DEF Answered, Closed
  <2>2. CASE SendAgain(TRUE)
    BY <1>1, <2>2, RetriedOrRaised
  <2> QED BY <1>4, <2>1, <2>2
<1>10. UNCHANGED <<client, explicit, resting, late, session, marks>>
  BY DEF OrderArrives
<1>11. \E m \in (-MaxSize)..MaxSize :
         /\ pos' = [pos EXCEPT ![Here][req.symbol] = m]
         /\ m \in 0..p \/ -m \in 0..(-p)
         /\ \/ req.symbol \in moved'[Here]
            \/ Abs(p) <= req.qty /\ p * Signed(req.side, 1) < 0 => m = 0
  BY <1>5, <1>6, <1>7, <1>8
<1> QED BY <1>1, <1>2, <1>3, <1>8, <1>9, <1>10, <1>11 DEF p

(* What else may happen to a request, and to a stage.                      *)
LEMMA Unheard ==
  ASSUME OrderOK, OrderLost \/ OrderRefused
  PROVE  /\ UNCHANGED <<client, explicit, market, session, history>>
         /\ req # NoRequest
         /\ Retried \/ Raise
BY RetriedOrRaised DEF OrderLost, OrderRefused

-----------------------------------------------------------------------------
(* The initial state satisfies the invariant.                              *)
LEMMA InitInv == Init => Inv
<1> SUFFICES ASSUME Init PROVE Inv
  OBVIOUS
<1>1. 1 \in DOMAIN Accounts
  BY PositionsAssumption
<1>2. TypeOK
  <2>1. /\ client \in Clients /\ explicit \subseteq Other
        /\ resting \in [AccountSet -> SUBSET Symbols] /\ late \in [AccountSet -> SUBSET Symbols]
        /\ moved \in [AccountSet -> SUBSET Symbols] /\ landed \in [AccountSet -> SUBSET Symbols]
        /\ refused \in [AccountSet -> SUBSET Symbols]
        /\ caller \in {"command", "cleanup"} /\ stage \in {"warmup", "cancel"}
        /\ at = 1 /\ attempt = 1 /\ failed = FALSE /\ runs = 1 /\ unread = {}
        /\ seen = Flat /\ req = NoRequest
    BY DEF Init, Start
  <2>2. pos \in [AccountSet -> [Symbols -> (-MaxSize)..MaxSize]]
    <3>1. (-1)..MaxSize \subseteq (-MaxSize)..MaxSize
      BY Bounds
    <3>2. pos \in [AccountSet -> [Symbols -> (-1)..MaxSize]]
      BY DEF Init
    <3> QED BY <3>1, <3>2
  <2>3. session \in [AccountSet -> {"none", "live", "ended"}]
    <3>1. \A a \in AccountSet :
            (CASE client = "omni" -> {"none", "ended"}
               [] client = "rise" -> {SignerAtStart(caller)}
               [] OTHER           -> {"none"}) \subseteq {"none", "live", "ended"}
      BY DEF SignerAtStart
    <3> QED BY <3>1 DEF Init
  <2>4. seen \in [Symbols -> {NoPosition} \cup [side : {"bid", "ask"}, size : 1..MaxSize]]
    BY <2>1 DEF Flat
  <2>5. 1 \in 1..MaxAttempts /\ 1 \in 1..MaxRuns /\ {} \subseteq {"main", "other"}
    BY Bounds
  <2> QED BY <1>1, <2>1, <2>2, <2>3, <2>4, <2>5 DEF TypeOK
<1>3. StageOK
  BY DEF Init, StageOK, Flat, Working, Start
<1>4. OrderOK /\ ReadOK /\ BookOK
  BY DEF Init, OrderOK, ReadOK, BookOK, Working, Start
<1>5. SessionOK
  BY DEF Init, SessionOK, NeedsSession
<1>6. LeftExplained
  <2>1. at = 1 /\ stage # "returned"
    BY DEF Init, Start
  <2>2. \A i \in DOMAIN Accounts : ~Finished(i)
    BY <2>1, PositionsAssumption DEF Finished
  <2> QED BY <2>2 DEF LeftExplained
<1> QED BY <1>2, <1>3, <1>4, <1>5, <1>6 DEF Inv

-----------------------------------------------------------------------------
(* The invariant in two parts: the sessions, and everything else.          *)

MarketType ==
  /\ pos \in [AccountSet -> [Symbols -> (-MaxSize)..MaxSize]]
  /\ resting \in [AccountSet -> SUBSET Symbols]
  /\ late \in [AccountSet -> SUBSET Symbols]
  /\ moved \in [AccountSet -> SUBSET Symbols]
  /\ landed \in [AccountSet -> SUBSET Symbols]
  /\ refused \in [AccountSet -> SUBSET Symbols]

CallType ==
  /\ caller \in {"command", "cleanup"}
  /\ stage \in {"warmup", "cancel", "read", "close", "returned", "raised", "gave up"}
  /\ at \in DOMAIN Accounts
  /\ attempt \in 1..MaxAttempts
  /\ failed \in BOOLEAN
  /\ runs \in 1..MaxRuns

SeenType == seen \in [Symbols -> {NoPosition} \cup [side : Sides, size : 1..MaxSize]]

Sessions ==
  /\ session \in [AccountSet -> {"none", "live", "ended"}]
  /\ SessionOK

Progress == StageOK /\ OrderOK /\ ReadOK /\ BookOK /\ LeftExplained

LEMMA Parts ==
  Inv <=> client \in Clients /\ MarketType /\ CallType /\ SeenType /\ Sessions /\ Progress
<1>1. TypeOK => MarketType /\ CallType /\ SeenType /\ session \in [AccountSet -> {"none", "live", "ended"}]
  BY DEF TypeOK, MarketType, CallType, SeenType, Sides
<1>2. ASSUME client \in Clients, MarketType, CallType, SeenType, StageOK, OrderOK,
             session \in [AccountSet -> {"none", "live", "ended"}]
      PROVE  TypeOK
  <2>1. unread \subseteq {"main", "other"}
    BY <1>2 DEF StageOK, Lists
  <2>2. req = NoRequest \/ /\ req.symbol \in Symbols /\ req.side \in {"bid", "ask"}
                           /\ req.qty \in 1..MaxSize /\ req.tries \in 0..(MaxTries - 1)
    BY <1>2 DEF OrderOK, OrderType, Sides
  <2>3. explicit \subseteq Other
    BY <1>2 DEF StageOK
  <2> QED BY <1>2, <2>1, <2>2, <2>3 DEF TypeOK, MarketType, CallType, SeenType, Sides
<1>3. TypeOK => client \in Clients
  BY DEF TypeOK
<1> QED BY <1>1, <1>2, <1>3 DEF Inv, Sessions, Progress

-----------------------------------------------------------------------------
(* What holds of the accounts that are done with.                          *)

(* The other accounts than the one at hand.                                *)
Elsewhere ==
  \A a \in AccountSet : a # Here =>
    /\ pos'[a] = pos[a] /\ resting'[a] = resting[a]
    /\ moved[a] \subseteq moved'[a] /\ landed[a] \subseteq landed'[a]
    /\ refused[a] \subseteq refused'[a]

(* An account that is done with is another one than the one at hand.       *)
LEMMA DoneElsewhere ==
  ASSUME at \in DOMAIN Accounts, NEW i \in DOMAIN Accounts, i < at
  PROVE  Accounts[i] \in AccountSet /\ Accounts[i] # Here
<1>1. i # at
  BY PositionsAssumption
<1> QED BY <1>1, PositionsAssumption DEF AccountSet, Here

LEMMA LeftElsewhere ==
  ASSUME at \in DOMAIN Accounts, LeftExplained, UNCHANGED <<client, explicit, at>>,
         stage' # "returned", Elsewhere
  PROVE  LeftExplained'
<1> SUFFICES ASSUME NEW i \in DOMAIN Accounts, i < at, NEW s \in Symbols
             PROVE  /\ pos'[Accounts[i]][s] # 0 => s \in moved'[Accounts[i]] \/ Foreign(s)'
                    /\ s \in resting'[Accounts[i]] =>
                         \/ s \in landed'[Accounts[i]] \cup refused'[Accounts[i]]
                         \/ Foreign(s)'
  BY DEF LeftExplained, Finished
<1>1. Accounts[i] \in AccountSet /\ Accounts[i] # Here
  BY DoneElsewhere
<1>2. /\ pos[Accounts[i]][s] # 0 => s \in moved[Accounts[i]] \/ Foreign(s)
      /\ s \in resting[Accounts[i]] =>
           s \in landed[Accounts[i]] \cup refused[Accounts[i]] \/ Foreign(s)
  BY DEF LeftExplained, Finished
<1> QED BY <1>1, <1>2, SameClient DEF Elsewhere

(* While none of the positions has been read, nothing is known.            *)
LEMMA NothingKnown ==
  ASSUME StageOK, UNCHANGED <<client, explicit>>, unread' = Lists
  PROVE  ReadOK'
<1>1. \A s \in Symbols : Mine(s) => \E list \in Lists : s \in Holds(list)
  BY ListsCover
<1>2. \A s \in Symbols : Mine(s)' => \E list \in unread' : s \in Holds(list)'
  BY <1>1, SameClient
<1>3. \A s \in Symbols : Mine(s)' => s \in Unanswered'
  BY <1>2 DEF Unanswered
<1> QED BY <1>3 DEF ReadOK

(* An error leaves the invariant as it is.                                 *)
LEMMA RaiseKeeps ==
  ASSUME Inv, Raise, UNCHANGED <<client, explicit>>, Elsewhere
  PROVE  CallType' /\ SeenType' /\ Progress'
<1>1. TypeOK /\ StageOK /\ CallType /\ LeftExplained /\ at \in DOMAIN Accounts
  BY Parts DEF Inv, CallType
<1>2. /\ seen' = Flat /\ req' = NoRequest
      /\ UNCHANGED <<caller, runs, at>>
      /\ attempt' \in 1..MaxAttempts /\ failed' \in BOOLEAN
      /\ \/ caller = "command" /\ stage' = "raised" /\ unread' = {} /\ failed' = failed
         \/ caller = "cleanup" /\ stage' = "read" /\ unread' = Lists /\ failed'
         \/ caller = "cleanup" /\ stage' \in {"cancel", "gave up"} /\ unread' = {}
  BY <1>1, Raised
<1>3. stage' \in {"raised", "read", "cancel", "gave up"} /\ (stage' = "read" => unread' = Lists /\ failed')
  BY <1>2
<1>4. CallType'
  BY <1>1, <1>2, <1>3 DEF CallType
<1>5. SeenType'
  BY <1>2 DEF SeenType, Flat
<1>6. StageOK'
  <2>1. explicit' \subseteq Other /\ Lists' = Lists
    <3>1. Lists' = Lists
      BY DEF Lists
    <3> QED BY <1>1, <3>1 DEF StageOK
  <2>2. unread' = {} \/ (stage' = "read" /\ unread' = Lists)
    BY <1>2
  <2>3. caller' = "command" => ~failed'
    BY <1>1, <1>2 DEF StageOK
  <2> QED BY <1>2, <2>1, <2>2, <2>3 DEF StageOK, Flat
<1>7. OrderOK'
  BY <1>2 DEF OrderOK
<1>8. ReadOK'
  <2>1. CASE stage' = "read"
    BY <1>1, <1>3, <2>1, NothingKnown
  <2>2. CASE stage' # "read"
    BY <1>3, <2>2 DEF ReadOK, Working
  <2> QED BY <2>1, <2>2
<1>9. BookOK'
  BY <1>3 DEF BookOK, Working
<1>10. LeftExplained'
  BY <1>1, <1>2, <1>3, LeftElsewhere
<1> QED BY <1>4, <1>5, <1>6, <1>7, <1>8, <1>9, <1>10 DEF Progress

-----------------------------------------------------------------------------
(* The steps of the callers, one by one.                                   *)

LEMMA WarmupKeeps ==
  ASSUME Inv, Warmup
  PROVE  MarketType' /\ CallType' /\ SeenType' /\ Progress'
<1>1. /\ StageOK /\ OrderOK /\ LeftExplained /\ MarketType /\ CallType /\ SeenType
      /\ at \in DOMAIN Accounts
  BY Parts DEF Inv, CallType
<1>2. stage = "warmup" /\ UNCHANGED <<client, explicit, pos, resting, late, moved, marks>>
  BY DEF Warmup, market, history
<1>3. MarketType' /\ Elsewhere
  BY <1>1, <1>2 DEF MarketType, Elsewhere
<1>4. CASE Raise
  BY <1>2, <1>3, <1>4, RaiseKeeps
<1>5. CASE stage' = "cancel" /\ UNCHANGED <<caller, at, attempt, failed, runs, reading, req>>
  <2>1. CallType' /\ SeenType'
    BY <1>1, <1>5 DEF CallType, SeenType, reading
  <2>2. LeftExplained'
    BY <1>1, <1>2, <1>3, <1>5, LeftElsewhere
  <2>3. StageOK'
    BY <1>1, <1>2, <1>5, SameClient DEF StageOK, Working, reading, Flat
  <2>4. OrderOK' /\ ReadOK' /\ BookOK'
    BY <1>1, <1>2, <1>5 DEF StageOK, OrderOK, ReadOK, BookOK, Working
  <2> QED BY <1>3, <2>1, <2>2, <2>3, <2>4 DEF Progress
<1> QED BY <1>3, <1>4, <1>5 DEF Warmup

LEMMA CancelKeeps ==
  ASSUME Inv, CancelAll
  PROVE  MarketType' /\ CallType' /\ SeenType' /\ Progress'
<1>1. /\ StageOK /\ OrderOK /\ LeftExplained /\ MarketType /\ CallType /\ SeenType
      /\ at \in DOMAIN Accounts
  BY Parts DEF Inv, CallType
<1>2. /\ stage = "cancel" /\ UNCHANGED <<client, explicit, pos, late, moved>>
      /\ landed' = [landed EXCEPT ![Here] = {}]
  BY DEF CancelAll
<1>3. PICK gone \in SUBSET {s \in resting[Here] : Cancels(s)} :
        /\ resting' = [resting EXCEPT ![Here] = @ \ gone]
        /\ \/ /\ refused' = [refused EXCEPT ![Here] = {s \in resting[Here] \ gone : Cancels(s)}]
              /\ stage' = "read"
              /\ unread' = Lists
              /\ UNCHANGED <<caller, at, attempt, failed, runs, seen, req>>
           \/ Raise /\ refused' = [refused EXCEPT ![Here] = {}]
  BY DEF CancelAll
<1>4. Here \in AccountSet
  BY <1>1, HereType
<1>5. MarketType' /\ Elsewhere
  BY <1>1, <1>2, <1>3, <1>4 DEF MarketType, Elsewhere
<1>6. CASE Raise
  BY <1>2, <1>5, <1>6, RaiseKeeps
<1>7. CASE /\ refused' = [refused EXCEPT ![Here] = {s \in resting[Here] \ gone : Cancels(s)}]
           /\ stage' = "read"
           /\ unread' = Lists
           /\ UNCHANGED <<caller, at, attempt, failed, runs, seen, req>>
  <2>1. CallType' /\ SeenType'
    BY <1>1, <1>7 DEF CallType, SeenType
  <2>2. LeftExplained'
    BY <1>1, <1>2, <1>5, <1>7, LeftElsewhere
  <2>3. StageOK'
    <3>1. Lists' = Lists /\ seen = Flat /\ req = NoRequest
      BY <1>1, <1>2, SameClient DEF StageOK, Working
    <3> QED BY <1>1, <1>2, <1>7, <3>1 DEF StageOK, Working, Flat
  <2>4. OrderOK'
    BY <1>1, <1>2, <1>7 DEF StageOK, OrderOK
  <2>5. ReadOK'
    BY <1>1, <1>2, <1>7, NothingKnown
  <2>6. BookOK'
    <3>1. Here' = Here /\ resting'[Here] = resting[Here] \ gone
      BY <1>1, <1>3, <1>4, <1>7 DEF Here, MarketType
    <3>2. \A s \in resting[Here] \ gone : Foreign(s) \/ s \in refused'[Here]
      BY <1>1, <1>4, <1>7 DEF Cancels, Foreign, MarketType
    <3> QED BY <1>2, <3>1, <3>2, SameClient DEF BookOK
  <2> QED BY <1>5, <2>1, <2>2, <2>3, <2>4, <2>5, <2>6 DEF Progress
<1> QED BY <1>3, <1>6, <1>7

LEMMA ReadKeeps ==
  ASSUME Inv, NEW list \in {"main", "other"}, ReadList(list)
  PROVE  MarketType' /\ CallType' /\ SeenType' /\ Progress'
<1>1. /\ StageOK /\ OrderOK /\ ReadOK /\ BookOK /\ LeftExplained
      /\ MarketType /\ CallType /\ SeenType
      /\ at \in DOMAIN Accounts
  BY Parts DEF Inv, CallType
<1>2. /\ stage = "read" /\ list \in unread
      /\ seen' = [s \in Symbols |-> IF s \in Holds(list) /\ Mine(s)
                                    THEN Read(list, Raw(pos[Here][s])) ELSE seen[s]]
      /\ moved' = [moved EXCEPT ![Here] = @ \ Holds(list)]
      /\ unread' = unread \ {list}
      /\ stage' = IF unread' = {} THEN "close" ELSE "read"
      /\ UNCHANGED <<client, explicit, pos, resting, late, caller, at, attempt, failed, runs, req, marks>>
  BY DEF ReadList, market
<1>3. Here \in AccountSet /\ Here' = Here
  BY <1>1, <1>2, HereType DEF Here
<1>4. MarketType' /\ Elsewhere
  BY <1>1, <1>2, <1>3 DEF MarketType, Elsewhere
<1>5. \A s \in Symbols : pos[Here][s] \in (-MaxSize)..MaxSize
  <2>1. pos[Here] \in [Symbols -> (-MaxSize)..MaxSize]
    BY <1>1, <1>3 DEF MarketType
  <2> QED BY <2>1
<1>6. \A s \in Symbols : Read(list, Raw(pos[Here][s])) \in {NoPosition} \cup [side : Sides, size : 1..MaxSize]
  BY <1>5, ReadType
<1>7. CallType' /\ SeenType'
  BY <1>1, <1>2, <1>6 DEF CallType, SeenType
<1>8. LeftExplained'
  BY <1>1, <1>2, <1>4, LeftElsewhere
<1>9. StageOK'
  <2>1. Lists' = Lists /\ \A s : Mine(s)' <=> Mine(s)
    BY <1>2, SameClient
  <2>2. \A s \in Symbols : seen'[s] # NoPosition => Mine(s)
    BY <1>1, <1>2 DEF StageOK
  <2> QED BY <1>1, <1>2, <2>1, <2>2 DEF StageOK, Working
<1>10. OrderOK'
  BY <1>1, <1>2 DEF StageOK, OrderOK
<1>11. ReadOK'
  <2> SUFFICES ASSUME NEW s \in Symbols, Mine(s), s \notin moved'[Here], s \notin Unanswered'
               PROVE  pos[Here][s] \in {0, Value(seen'[s])}
    BY <1>2, <1>3, SameClient DEF ReadOK, Value
  <2>1. CASE s \in Holds(list)
    <3>1. seen'[s] = Read(list, Raw(pos[Here][s]))
      BY <1>2, <2>1
    <3> QED BY <1>5, <3>1, ReadType
  <2>2. CASE s \notin Holds(list)
    <3>1. s \notin moved[Here]
      BY <1>1, <1>2, <1>3, <2>2 DEF MarketType
    <3>2. s \notin Unanswered
      <4>1. \A l \in unread' : s \notin Holds(l)
        BY <1>2, SameClient DEF Unanswered
      <4> QED BY <1>2, <2>2, <4>1 DEF Unanswered
    <3>3. seen'[s] = seen[s]
      BY <1>2, <2>2
    <3> QED BY <1>1, <1>2, <3>1, <3>2, <3>3 DEF ReadOK, Working
  <2> QED BY <2>1, <2>2
<1>12. BookOK'
  BY <1>1, <1>2, <1>3, SameClient DEF BookOK, Working
<1> QED BY <1>4, <1>7, <1>8, <1>9, <1>10, <1>11, <1>12 DEF Progress

LEMMA ReadFailsKeeps ==
  ASSUME Inv, ReadFails
  PROVE  MarketType' /\ CallType' /\ SeenType' /\ Progress'
<1>1. MarketType /\ UNCHANGED <<client, explicit, pos, resting, late, moved, marks>> /\ Raise
  BY Parts DEF ReadFails, market, history
<1>2. MarketType' /\ Elsewhere
  BY <1>1 DEF MarketType, Elsewhere
<1> QED BY <1>1, <1>2, RaiseKeeps

LEMMA CloseKeeps ==
  ASSUME Inv, NEW s \in Symbols, ClosePosition(s)
  PROVE  MarketType' /\ CallType' /\ SeenType' /\ Progress'
<1>1. /\ StageOK /\ ReadOK /\ BookOK /\ LeftExplained
      /\ MarketType /\ CallType /\ SeenType
      /\ at \in DOMAIN Accounts
  BY Parts DEF Inv, CallType
<1>2. /\ stage = "close" /\ seen[s] # NoPosition /\ req' = CloseOrder(s, seen[s])
      /\ UNCHANGED <<client, explicit, pos, resting, late, moved, marks>>
      /\ UNCHANGED <<caller, stage, at, attempt, failed, runs, unread, seen>>
  BY DEF ClosePosition, market, process, reading, history
<1>3. MarketType' /\ CallType' /\ SeenType' /\ Elsewhere
  BY <1>1, <1>2 DEF MarketType, CallType, SeenType, Elsewhere
<1>4. LeftExplained'
  BY <1>1, <1>2, <1>3, LeftElsewhere
<1>5. StageOK'
  <2>1. Lists' = Lists /\ \A t : Mine(t)' <=> Mine(t)
    BY <1>2, SameClient
  <2> QED BY <1>1, <1>2, <2>1 DEF StageOK, Working, Flat
<1>6. OrderOK'
  <2>1. seen[s] \in [side : Sides, size : 1..MaxSize]
    BY <1>1, <1>2 DEF SeenType
  <2>2. /\ CloseOrder(s, seen[s]) \in OrderType
        /\ CloseOrder(s, seen[s]).symbol = s
        /\ CloseOrder(s, seen[s]).side = Opposite(seen[s].side)
        /\ CloseOrder(s, seen[s]).qty = seen[s].size
    BY <2>1, OrderedType
  <2> QED BY <1>2, <2>2 DEF OrderOK
<1>7. ReadOK' /\ BookOK'
  <2>1. /\ \A t : (Mine(t)' <=> Mine(t)) /\ (Foreign(t)' <=> Foreign(t))
        /\ \A list : Holds(list)' = Holds(list)
    BY <1>2, SameClient
  <2>2. Unanswered' = Unanswered /\ Here' = Here
    BY <1>2, <2>1 DEF Unanswered, Here
  <2> QED BY <1>1, <1>2, <2>1, <2>2 DEF ReadOK, BookOK, Working, Value
<1> QED BY <1>3, <1>4, <1>5, <1>6, <1>7 DEF Progress

(* A request that ends, or is sent again.                                  *)
LEMMA RequestKeeps ==
  ASSUME Inv, req # NoRequest, UNCHANGED <<client, explicit, resting, marks>>, Elsewhere,
         Retried \/ Closed,
         \A s \in Symbols : Mine(s) /\ s \notin moved'[Here] =>
           /\ s \notin moved[Here]
           /\ s # req.symbol => pos'[Here][s] = pos[Here][s]
           /\ s = req.symbol /\ pos[Here][s] = 0 => pos'[Here][s] = 0
           /\ s = req.symbol /\ pos[Here][s] = Value(seen[s]) => pos'[Here][s] = 0
  PROVE  CallType' /\ SeenType' /\ Progress'
<1>1. /\ StageOK /\ OrderOK /\ ReadOK /\ BookOK /\ LeftExplained
      /\ CallType /\ SeenType
      /\ at \in DOMAIN Accounts
  BY Parts DEF Inv, CallType
<1>2. UNCHANGED <<caller, stage, at, attempt, failed, runs, unread>>
  BY DEF Retried, Closed, process, reading
<1>3. req \in OrderType /\ req.symbol \in Symbols /\ stage = "close" /\ unread = {}
  BY <1>1 DEF OrderOK, OrderType, StageOK
<1>4. \/ seen' = seen /\ Retried
      \/ seen' = [seen EXCEPT ![req.symbol] = NoPosition] /\ req' = NoRequest
  BY DEF Retried, Closed, reading
<1>5. CallType'
  BY <1>1, <1>2 DEF CallType
<1>6. SeenType'
  BY <1>1, <1>3, <1>4 DEF SeenType
<1>7. \A s \in Symbols : seen'[s] = seen[s] \/ (s = req.symbol /\ seen'[s] = NoPosition)
  BY <1>1, <1>4 DEF SeenType
<1>8. LeftExplained'
  BY <1>1, <1>2, <1>3, LeftElsewhere
<1>9. StageOK'
  <2>1. Lists' = Lists /\ \A t : Mine(t)' <=> Mine(t)
    BY SameClient
  <2> QED BY <1>1, <1>2, <1>3, <1>7, <2>1 DEF StageOK, Working
<1>10. OrderOK'
  BY <1>1, <1>4 DEF OrderOK, Retried
<1>11. ReadOK'
  <2>1. Unanswered' = {} /\ Unanswered = {} /\ Here' = Here
    BY <1>2, <1>3 DEF Unanswered, Here
  <2> SUFFICES ASSUME NEW s \in Symbols, Mine(s), s \notin moved'[Here]
               PROVE  pos'[Here][s] \in {0, Value(seen'[s])}
    BY <1>2, <2>1, SameClient DEF ReadOK, Value
  <2>2. pos[Here][s] \in {0, Value(seen[s])}
    BY <1>1, <1>3, <2>1 DEF ReadOK, Working
  <2>3. CASE s = req.symbol
    BY <2>2, <2>3
  <2>4. CASE s # req.symbol
    BY <1>7, <2>2, <2>4
  <2> QED BY <2>3, <2>4
<1>12. BookOK'
  <2>1. Here' = Here
    BY <1>2 DEF Here
  <2> QED BY <1>1, <1>2, <2>1, SameClient DEF BookOK, Working
<1> QED BY <1>5, <1>6, <1>8, <1>9, <1>10, <1>11, <1>12 DEF Progress

LEMMA ArrivesKeeps ==
  ASSUME Inv, OrderArrives
  PROVE  MarketType' /\ CallType' /\ SeenType' /\ Progress'
<1>1. TypeOK /\ StageOK /\ OrderOK /\ MarketType /\ SeenType
  BY Parts DEF Inv
<1> DEFINE p == pos[Here][req.symbol]
<1>2. PICK n \in (-MaxSize)..MaxSize :
        /\ pos' = [pos EXCEPT ![Here][req.symbol] = n]
        /\ n \in 0..p \/ -n \in 0..(-p)
        /\ \/ req.symbol \in moved'[Here]
           \/ Abs(p) <= req.qty /\ p * Signed(req.side, 1) < 0 => n = 0
  BY <1>1, Arrived
<1>3. /\ req # NoRequest /\ req \in OrderType /\ Here \in AccountSet
      /\ p \in (-MaxSize)..MaxSize
      /\ \A a \in AccountSet : moved[a] \subseteq moved'[a]
      /\ moved' \in [AccountSet -> SUBSET Symbols]
      /\ Retried \/ Closed \/ Raise
      /\ UNCHANGED <<client, explicit, resting, late, session, marks>>
  BY <1>1, Arrived
<1>4. req.symbol \in Symbols
  BY <1>3 DEF OrderType
<1>5. /\ pos' \in [AccountSet -> [Symbols -> (-MaxSize)..MaxSize]]
      /\ \A a \in AccountSet : a # Here => pos'[a] = pos[a]
      /\ \A s \in Symbols : s # req.symbol => pos'[Here][s] = pos[Here][s]
      /\ pos'[Here][req.symbol] = n
  <2>1. pos \in [AccountSet -> [Symbols -> (-MaxSize)..MaxSize]]
    BY <1>1 DEF MarketType
  <2>2. pos[Here] \in [Symbols -> (-MaxSize)..MaxSize]
    BY <1>3, <2>1
  <2> QED BY <1>2, <1>3, <1>4, <2>1, <2>2
<1>6. MarketType'
  BY <1>1, <1>3, <1>5 DEF MarketType
<1>7. Elsewhere
  BY <1>3, <1>5 DEF Elsewhere
<1>8. CASE Raise
  BY <1>3, <1>6, <1>7, <1>8, RaiseKeeps
<1>9. CASE Retried \/ Closed
  <2>1. p = 0 => n = 0
    BY <1>2, <1>3, Bounds
  <2>2. p = Value(seen[req.symbol]) => n = 0 \/ req.symbol \in moved'[Here]
    <3>1. /\ seen[req.symbol] # NoPosition
          /\ req.side = Opposite(seen[req.symbol].side)
          /\ req.qty = seen[req.symbol].size
      BY <1>1, <1>3 DEF OrderOK
    <3>2. seen[req.symbol].side \in Sides /\ seen[req.symbol].size \in 1..MaxSize
      BY <1>1, <1>4, <3>1 DEF SeenType
    <3>3. p = Value(seen[req.symbol]) => Abs(p) <= req.qty /\ p * Signed(req.side, 1) < 0
      <4>1. CASE seen[req.symbol].side = "bid"
        <5>1. Value(seen[req.symbol]) = seen[req.symbol].size /\ Signed(req.side, 1) = -1
          BY <3>1, <4>1 DEF Value, Signed, Opposite
        <5> QED BY <3>1, <3>2, <5>1, Bounds DEF Abs
      <4>2. CASE seen[req.symbol].side = "ask"
        <5>1. Value(seen[req.symbol]) = -seen[req.symbol].size /\ Signed(req.side, 1) = 1
          BY <3>1, <4>2 DEF Value, Signed, Opposite
        <5> QED BY <3>1, <3>2, <5>1, Bounds DEF Abs
      <4> QED BY <3>2, <4>1, <4>2 DEF Sides
    <3> QED BY <1>2, <3>3
  <2> HIDE DEF p
  <2>3. \A s \in Symbols : Mine(s) /\ s \notin moved'[Here] =>
           /\ s \notin moved[Here]
           /\ s # req.symbol => pos'[Here][s] = pos[Here][s]
           /\ s = req.symbol /\ pos[Here][s] = 0 => pos'[Here][s] = 0
           /\ s = req.symbol /\ pos[Here][s] = Value(seen[s]) => pos'[Here][s] = 0
    BY <1>3, <1>5, <2>1, <2>2 DEF p
  <2> QED BY <1>3, <1>6, <1>7, <1>9, <2>3, RequestKeeps
<1> QED BY <1>3, <1>8, <1>9

LEMMA UnheardKeeps ==
  ASSUME Inv, OrderLost \/ OrderRefused
  PROVE  MarketType' /\ CallType' /\ SeenType' /\ Progress'
<1>1. MarketType /\ OrderOK
  BY Parts DEF Inv
<1>2. /\ UNCHANGED <<client, explicit, pos, resting, late, moved, marks>>
      /\ req # NoRequest
      /\ Retried \/ Raise
  BY <1>1, Unheard DEF market, history
<1>3. MarketType' /\ Elsewhere
  BY <1>1, <1>2 DEF MarketType, Elsewhere
<1>4. CASE Raise
  BY <1>2, <1>3, <1>4, RaiseKeeps
<1>5. CASE Retried
  <2>1. StageOK /\ OrderOK /\ ReadOK /\ BookOK /\ LeftExplained /\ CallType /\ SeenType
        /\ at \in DOMAIN Accounts
    BY Parts DEF Inv, CallType
  <2>2. UNCHANGED <<caller, stage, at, attempt, failed, runs, unread, seen>>
    BY <1>5 DEF Retried, process, reading
  <2>3. CallType' /\ SeenType'
    BY <2>1, <2>2 DEF CallType, SeenType
  <2>4. OrderOK'
    BY <1>2, <1>5, <2>1, <2>2 DEF OrderOK, Retried
  <2>5. StageOK'
    <3>1. Lists' = Lists /\ \A t : Mine(t)' <=> Mine(t)
      BY <1>2, SameClient
    <3>2. stage = "close"
      BY <1>2, <2>1 DEF StageOK
    <3> QED BY <1>2, <2>1, <2>2, <3>1, <3>2 DEF StageOK, Working, Flat
  <2>6. LeftExplained'
    <3>1. stage = "close"
      BY <1>2, <2>1 DEF StageOK
    <3> QED BY <1>2, <1>3, <2>1, <2>2, <3>1, LeftElsewhere
  <2>7. ReadOK' /\ BookOK'
    <3>1. /\ \A t : (Mine(t)' <=> Mine(t)) /\ (Foreign(t)' <=> Foreign(t))
          /\ \A list : Holds(list)' = Holds(list)
       BY <1>2, SameClient
    <3>2. Unanswered' = Unanswered /\ Here' = Here
      BY <2>2, <3>1 DEF Unanswered, Here
    <3> QED BY <1>2, <2>1, <2>2, <3>1, <3>2 DEF ReadOK, BookOK, Working, Value
  <2> QED BY <1>3, <2>3, <2>4, <2>5, <2>6, <2>7 DEF Progress
<1> QED BY <1>2, <1>4, <1>5

(* An account on which everything that was read is closed.                 *)
LEMMA HereDone ==
  ASSUME Inv, stage = "close", seen = Flat, ~failed, NEW s \in Symbols
  PROVE  /\ pos[Here][s] # 0 => s \in moved[Here] \/ Foreign(s)
         /\ s \in resting[Here] =>
              s \in landed[Here] \cup refused[Here] \/ Foreign(s)
<1>1. StageOK /\ ReadOK /\ BookOK
  BY DEF Inv
<1>2. Unanswered = {} /\ Value(seen[s]) = 0
  BY <1>1 DEF StageOK, Unanswered, Flat, NoPosition, Position, Value, Signed
<1>3. Mine(s) <=> ~Foreign(s)
  BY <1>1, MineOrForeign
<1> QED BY <1>1, <1>2, <1>3 DEF ReadOK, BookOK, Working

LEMMA ClosedKeeps ==
  ASSUME Inv, AllClosed
  PROVE  MarketType' /\ CallType' /\ SeenType' /\ Progress'
<1>1. /\ StageOK /\ OrderOK /\ LeftExplained /\ MarketType /\ CallType /\ SeenType
      /\ at \in DOMAIN Accounts
  BY Parts DEF Inv, CallType
<1>2. /\ stage = "close" /\ req = NoRequest /\ seen = Flat
      /\ UNCHANGED <<client, explicit, pos, resting, late, moved, marks>>
      /\ UNCHANGED <<caller, runs, unread, seen, req>>
  BY DEF AllClosed, market, reading, history
<1>3. unread = {} /\ (caller = "command" => ~failed)
  BY <1>1, <1>2 DEF StageOK
<1>4. MarketType' /\ SeenType' /\ Elsewhere
  BY <1>1, <1>2 DEF MarketType, SeenType, Elsewhere
<1>5. /\ stage' \in {"warmup", "cancel", "gave up", "returned"}
      /\ at' \in DOMAIN Accounts /\ attempt' \in 1..MaxAttempts /\ failed' \in BOOLEAN
      /\ caller = "command" => ~failed'
      /\ \/ UNCHANGED at /\ stage' # "returned"
         \/ UNCHANGED at /\ stage' = "returned" /\ ~failed
         \/ at' = at + 1 /\ stage' = "warmup" /\ ~failed
  <2>1. attempt \in 1..MaxAttempts /\ MaxAttempts \in Nat /\ failed \in BOOLEAN
        /\ caller \in {"command", "cleanup"}
    BY <1>1, Bounds DEF CallType
  <2>2. CASE /\ caller = "command" /\ at < Len(Accounts)
             /\ stage' = "warmup" /\ at' = at + 1 /\ UNCHANGED <<attempt, failed>>
    <3>1. at + 1 \in DOMAIN Accounts
      BY <1>1, <2>2, PositionsAssumption
    <3> QED BY <1>3, <2>1, <2>2, <3>1
  <2>3. CASE caller = "cleanup" /\ AttemptFailed
    <3>1. CASE attempt < MaxAttempts
      <4>1. stage' = "cancel" /\ attempt' = attempt + 1 /\ failed' = FALSE /\ UNCHANGED at
        BY <2>3, <3>1 DEF AttemptFailed
      <4>2. attempt' \in 1..MaxAttempts
        BY <2>1, <3>1, <4>1
      <4> QED BY <1>1, <4>1, <4>2
    <3>2. CASE ~(attempt < MaxAttempts)
      BY <1>1, <2>1, <2>3, <3>2 DEF AttemptFailed
    <3> QED BY <3>1, <3>2
  <2>4. CASE /\ IF caller = "command" THEN at = Len(Accounts) ELSE ~failed
             /\ stage' = "returned" /\ UNCHANGED <<at, attempt, failed>>
    <3>1. ~failed
      BY <1>3, <2>4
    <3> QED BY <1>1, <2>1, <2>4, <3>1
  <2> QED BY <2>2, <2>3, <2>4 DEF AllClosed
<1>6. CallType'
  BY <1>1, <1>2, <1>5 DEF CallType
<1>7. StageOK'
  <2>1. Lists' = Lists
    BY <1>2, SameClient
  <2> QED BY <1>1, <1>2, <1>3, <1>5, <2>1 DEF StageOK, Working, Flat
<1>8. OrderOK' /\ ReadOK' /\ BookOK'
  BY <1>2, <1>5 DEF OrderOK, ReadOK, BookOK, Working
<1>9. LeftExplained'
  <2>1. CASE UNCHANGED at /\ stage' # "returned"
    BY <1>1, <1>2, <1>4, <2>1, LeftElsewhere
  <2>2. CASE ~failed /\ ((at' = at + 1 /\ stage' = "warmup") \/ (at' = at /\ stage' = "returned"))
    <3> SUFFICES ASSUME NEW i \in DOMAIN Accounts, Finished(i)', NEW s \in Symbols
                 PROVE  /\ pos[Accounts[i]][s] # 0 => s \in moved[Accounts[i]] \/ Foreign(s)
                        /\ s \in resting[Accounts[i]] =>
                             \/ s \in landed[Accounts[i]] \cup refused[Accounts[i]]
                             \/ Foreign(s)
      BY <1>2, SameClient DEF LeftExplained
    <3>1. i < at \/ i = at
      BY <1>1, <2>2, PositionsAssumption DEF Finished
    <3>2. CASE i < at
      BY <1>1, <3>2 DEF LeftExplained, Finished
    <3>3. CASE i = at
      <4>1. Accounts[i] = Here
        BY <3>3 DEF Here
      <4> QED BY <1>2, <2>2, <4>1, HereDone
    <3> QED BY <3>1, <3>2, <3>3
  <2> QED BY <1>5, <2>1, <2>2
<1> QED BY <1>4, <1>6, <1>7, <1>8, <1>9 DEF Progress

-----------------------------------------------------------------------------
(* The steps of the others.                                                *)

LEMMA EnvironmentStep ==
  ASSUME Inv, Environment
  PROVE  MarketType' /\ CallType' /\ SeenType' /\ Progress'
<1>1. /\ TypeOK /\ StageOK /\ OrderOK /\ ReadOK /\ BookOK /\ LeftExplained /\ CallType /\ SeenType
      /\ at \in DOMAIN Accounts
  BY Parts DEF Inv, CallType
<1>2. /\ UNCHANGED <<client, explicit>> /\ Recorded
      /\ UNCHANGED <<caller, stage, at, attempt, failed, runs, unread, seen, req>>
  BY <1>1, EnvironmentKeeps DEF process, reading
<1>3. MarketType'
  BY <1>1, EnvironmentKeeps DEF MarketType
<1>4. CallType' /\ SeenType'
  BY <1>1, <1>2 DEF CallType, SeenType
<1>5. /\ \A t : (Mine(t)' <=> Mine(t)) /\ (Foreign(t)' <=> Foreign(t))
      /\ \A list : Holds(list)' = Holds(list)
      /\ Lists' = Lists
  BY <1>2, SameClient
<1>6. Unanswered' = Unanswered /\ Here' = Here /\ Here \in AccountSet
  BY <1>1, <1>2, <1>5, HereType DEF Unanswered, Here
<1>7. StageOK'
  BY <1>1, <1>2, <1>5 DEF StageOK, Working, Flat
<1>8. OrderOK'
  BY <1>1, <1>2 DEF OrderOK
<1>9. ReadOK'
  <2> SUFFICES ASSUME Working, NEW s \in Symbols, Mine(s), s \notin moved'[Here], s \notin Unanswered
               PROVE  pos'[Here][s] \in {0, Value(seen[s])}
    BY <1>2, <1>5, <1>6 DEF ReadOK, Working, Value
  <2>1. s \notin moved[Here] /\ pos'[Here][s] = pos[Here][s]
    BY <1>2, <1>6 DEF Recorded
  <2> QED BY <1>1, <2>1 DEF ReadOK
<1>10. BookOK'
  <2> SUFFICES ASSUME Working, ~failed, NEW s \in resting'[Here]
               PROVE  s \in landed'[Here] \cup refused'[Here] \/ Foreign(s)
    BY <1>2, <1>5, <1>6 DEF BookOK, Working
  <2>1. s \in Symbols
    BY <1>3, <1>6 DEF MarketType
  <2>2. s \in resting[Here] \/ s \in landed'[Here]
    BY <1>2, <1>6, <2>1 DEF Recorded
  <2>3. landed[Here] \subseteq landed'[Here] /\ refused[Here] \subseteq refused'[Here]
    BY <1>2, <1>6, <2>1 DEF Recorded
  <2> QED BY <1>1, <2>2, <2>3 DEF BookOK
<1>11. LeftExplained'
  <2> SUFFICES ASSUME NEW i \in DOMAIN Accounts, Finished(i), NEW s \in Symbols
               PROVE  /\ pos'[Accounts[i]][s] # 0 => s \in moved'[Accounts[i]] \/ Foreign(s)
                      /\ s \in resting'[Accounts[i]] =>
                           \/ s \in landed'[Accounts[i]] \cup refused'[Accounts[i]]
                           \/ Foreign(s)
    BY <1>2, <1>5 DEF LeftExplained, Finished
  <2>1. Accounts[i] \in AccountSet
    BY DEF AccountSet
  <2>2. /\ moved[Accounts[i]] \subseteq moved'[Accounts[i]]
        /\ landed[Accounts[i]] \subseteq landed'[Accounts[i]]
        /\ refused[Accounts[i]] \subseteq refused'[Accounts[i]]
        /\ pos'[Accounts[i]][s] # pos[Accounts[i]][s] => s \in moved'[Accounts[i]]
        /\ s \in resting'[Accounts[i]] => s \in resting[Accounts[i]] \/ s \in landed'[Accounts[i]]
    BY <1>2, <2>1 DEF Recorded
  <2> QED BY <1>1, <2>2 DEF LeftExplained
<1> QED BY <1>3, <1>4, <1>7, <1>8, <1>9, <1>10, <1>11 DEF Progress

LEMMA BeginStep ==
  ASSUME Inv, NEW who \in {"command", "cleanup"}, Begin(who)
  PROVE  MarketType' /\ CallType' /\ SeenType' /\ Progress'
<1>1. StageOK /\ MarketType /\ CallType /\ SeenType
  BY Parts DEF Inv
<1>2. /\ stage \notin {"warmup", "cancel", "read", "close"}
      /\ runs < MaxRuns /\ runs' = runs + 1
      /\ caller' = who /\ stage' = Start(who) /\ at' = 1 /\ attempt' = 1 /\ failed' = FALSE
      /\ moved' = [a \in AccountSet |-> {}] /\ landed' = [a \in AccountSet |-> {}]
      /\ refused' = [a \in AccountSet |-> {}]
      /\ UNCHANGED <<client, explicit, pos, resting, late, unread, seen, req>>
  BY DEF Begin, Running, market, reading
<1>3. seen = Flat /\ unread = {} /\ req = NoRequest
  BY <1>1, <1>2 DEF StageOK, Working
<1>4. stage' \in {"warmup", "cancel"}
  BY <1>2 DEF Start
<1>5. MarketType' /\ SeenType'
  BY <1>1, <1>2 DEF MarketType, SeenType
<1>6. CallType'
  <2>1. runs' \in 1..MaxRuns /\ 1 \in 1..MaxAttempts /\ 1 \in DOMAIN Accounts
    <3>1. 1 \in DOMAIN Accounts
      BY PositionsAssumption
    <3>2. runs \in 1..MaxRuns
      BY <1>1 DEF CallType
    <3> QED BY <1>2, <3>1, <3>2, Bounds
  <2> QED BY <1>2, <1>4, <2>1 DEF CallType
<1>7. StageOK'
  BY <1>1, <1>2, <1>3, <1>4 DEF StageOK, Working, Flat
<1>8. OrderOK' /\ ReadOK' /\ BookOK'
  BY <1>2, <1>3, <1>4 DEF OrderOK, ReadOK, BookOK, Working
<1>9. LeftExplained'
  <2>1. \A i \in DOMAIN Accounts : ~Finished(i)'
    BY <1>2, <1>4, PositionsAssumption DEF Finished
  <2> QED BY <2>1 DEF LeftExplained
<1> QED BY <1>5, <1>6, <1>7, <1>8, <1>9 DEF Progress

LEMMA Stutter ==
  ASSUME Inv, UNCHANGED vars
  PROVE  MarketType' /\ CallType' /\ SeenType' /\ Progress'
<1>1. StageOK /\ OrderOK /\ ReadOK /\ BookOK /\ LeftExplained /\ MarketType /\ CallType /\ SeenType
  BY Parts DEF Inv
<1>2. /\ UNCHANGED <<client, explicit, pos, resting, late, moved, marks>>
      /\ UNCHANGED <<caller, stage, at, attempt, failed, runs, unread, seen, req>>
  BY DEF vars, market, process, reading, history
<1>3. MarketType' /\ CallType' /\ SeenType'
  BY <1>1, <1>2 DEF MarketType, CallType, SeenType
<1>4. /\ \A t : (Mine(t)' <=> Mine(t)) /\ (Foreign(t)' <=> Foreign(t))
      /\ \A list : Holds(list)' = Holds(list)
      /\ Lists' = Lists
  BY <1>2, SameClient
<1>5. Unanswered' = Unanswered /\ Here' = Here
  BY <1>2, <1>4 DEF Unanswered, Here
<1>6. StageOK' /\ OrderOK'
  BY <1>1, <1>2, <1>4 DEF StageOK, OrderOK, Working, Flat
<1>7. ReadOK' /\ BookOK'
  BY <1>1, <1>2, <1>4, <1>5 DEF ReadOK, BookOK, Working, Value
<1>8. LeftExplained'
  BY <1>1, <1>2, <1>4 DEF LeftExplained, Finished
<1> QED BY <1>3, <1>6, <1>7, <1>8 DEF Progress

-----------------------------------------------------------------------------
(* The sessions.                                                           *)

SessionState == {"none", "live", "ended"}

(* A first request opens a session, and a warm-up registers a signer; one  *)
(* that has ended is only replaced by a warm-up of Rise.                   *)
LEMMA OpenedIs ==
  ASSUME Sessions, Here \in AccountSet
  PROVE  /\ Opened \in [AccountSet -> SessionState]
         /\ ~NeedsSession => Opened = session
         /\ \A a \in AccountSet : session[a] = "ended" => Opened[a] = "ended"
<1>1. session \in [AccountSet -> SessionState] /\ session[Here] \in SessionState
  BY DEF Sessions, SessionState
<1> DEFINE st == IF client \in {"zero1", "omni"} /\ session[Here] = "none" THEN "live" ELSE session[Here]
<1>2. Opened = [session EXCEPT ![Here] = st]
  <2>1. CASE client = "zero1"
    BY <2>1 DEF Opened, ZeroOneSession
  <2>2. CASE client = "omni"
    BY <2>2 DEF Opened, OmniSession
  <2>3. CASE client \notin {"zero1", "omni"}
    BY <2>3 DEF Opened
  <2> QED BY <2>1, <2>2, <2>3
<1>3. st \in SessionState /\ (session[Here] = "ended" => st = "ended")
      /\ (~NeedsSession => st = session[Here])
  BY <1>1 DEF SessionState, NeedsSession
<1> HIDE DEF st
<1> QED BY <1>1, <1>2, <1>3

LEMMA WarmedUpIs ==
  ASSUME Sessions, Here \in AccountSet
  PROVE  /\ WarmedUp \in [AccountSet -> SessionState]
         /\ ~NeedsSession => WarmedUp = session
         /\ client # "rise" =>
              \A a \in AccountSet : session[a] = "ended" => WarmedUp[a] = "ended"
<1>1. session \in [AccountSet -> SessionState] /\ session[Here] \in SessionState
  BY DEF Sessions, SessionState
<1> DEFINE st == IF client = "rise" \/ (client = "zero1" /\ session[Here] = "none") THEN "live"
                 ELSE session[Here]
<1>2. WarmedUp = [session EXCEPT ![Here] = st]
  <2>1. CASE client = "zero1"
    BY <2>1 DEF WarmedUp, ZeroOneSession
  <2>2. CASE client = "rise"
    BY <2>2 DEF WarmedUp, RiseSession
  <2>3. CASE client \notin {"zero1", "rise"}
    BY <2>3 DEF WarmedUp
  <2> QED BY <2>1, <2>2, <2>3
<1>3. /\ st \in SessionState
      /\ client # "rise" /\ session[Here] = "ended" => st = "ended"
      /\ ~NeedsSession => st = session[Here]
  BY <1>1 DEF SessionState, NeedsSession
<1> HIDE DEF st
<1> QED BY <1>1, <1>2, <1>3

(* What becomes of the sessions in a step.                                 *)
SessionStep ==
  \/ session' = session
  \/ session' = Opened
  \/ stage = "warmup" /\ session' = WarmedUp
  \/ \E a \in AccountSet : session[a] = "live" /\ session' = [session EXCEPT ![a] = "ended"]
  \/ /\ client \notin {"omni", "rise"}
     /\ runs' = runs + 1
     /\ session' = [a \in AccountSet |-> "none"]
  \/ /\ client = "rise"
     /\ runs' = runs + 1
     /\ session' = [a \in AccountSet |-> SignerAtStart("cleanup")]

LEMMA SessionsMove == TypeOK /\ [Next]_vars => SessionStep
<1> SUFFICES ASSUME TypeOK, [Next]_vars PROVE SessionStep
  OBVIOUS
<1>1. CASE Step
  BY <1>1 DEF Step, Warmup, CancelAll, ReadList, ReadFails, ClosePosition, OrderArrives,
              OrderLost, OrderRefused, AllClosed, SessionStep
<1>2. CASE Environment
  BY <1>2, EnvironmentKeeps DEF SessionStep
<1>3. CASE CleanAgain
  BY <1>3 DEF CleanAgain, SessionStep
<1>4. ASSUME NEW who \in {"command", "cleanup"}, Restart(who) PROVE SessionStep
  <2>1. runs' = runs + 1
    BY <1>4 DEF Restart, Begin
  <2>2. CASE client = "omni" \/ (client = "rise" /\ who = "command")
    BY <1>4, <2>2 DEF Restart, SessionStep
  <2>3. CASE client = "rise" /\ who = "cleanup"
    BY <1>4, <2>1, <2>3 DEF Restart, SessionStep
  <2>4. CASE client \notin {"omni", "rise"}
    BY <1>4, <2>1, <2>4 DEF Restart, SessionStep
  <2> QED BY <2>2, <2>3, <2>4
<1>5. CASE UNCHANGED vars
  BY <1>5 DEF vars, SessionStep
<1> QED BY <1>1, <1>2, <1>3, <1>4, <1>5 DEF Next

LEMMA SessionsKeep ==
  ASSUME Sessions, at \in DOMAIN Accounts, SessionStep, UNCHANGED client
  PROVE  Sessions'
<1>1. session \in [AccountSet -> SessionState] /\ Here \in AccountSet
  BY HereType DEF Sessions, SessionState
<1>2. ~NeedsSession => \A a \in AccountSet : session[a] = "none"
  BY DEF Sessions, SessionOK
<1>3. \/ session' \in [AccountSet -> SessionState] /\ (~NeedsSession => session' = session)
      \/ session' = [a \in AccountSet |-> "none"]
  <2>1. CASE \E a \in AccountSet : session[a] = "live" /\ session' = [session EXCEPT ![a] = "ended"]
    BY <1>1, <1>2, <2>1 DEF SessionState
  <2>2. CASE client = "rise" /\ session' = [a \in AccountSet |-> SignerAtStart("cleanup")]
    BY <2>2 DEF SessionState, SignerAtStart, NeedsSession
  <2>3. CASE session' = session \/ session' = Opened \/ session' = WarmedUp
    BY <1>1, <2>3, OpenedIs, WarmedUpIs
  <2> QED BY <2>1, <2>2, <2>3 DEF SessionStep
<1>4. NeedsSession' <=> NeedsSession
  BY DEF NeedsSession
<1> QED BY <1>2, <1>3, <1>4 DEF Sessions, SessionOK, SessionState

-----------------------------------------------------------------------------
(* The invariant is inductive.                                             *)

LEMMA StepInv == Inv /\ [Next]_vars => Inv'
<1> SUFFICES ASSUME Inv, [Next]_vars PROVE Inv'
  OBVIOUS
<1>1. TypeOK /\ Sessions /\ client \in Clients /\ at \in DOMAIN Accounts
  BY Parts DEF Inv, TypeOK
<1>2. UNCHANGED <<client, explicit>>
  BY ClientKept
<1>3. Sessions'
  BY <1>1, <1>2, SessionsMove, SessionsKeep
<1>4. MarketType' /\ CallType' /\ SeenType' /\ Progress'
  <2>1. CASE Step
    BY <2>1, WarmupKeeps, CancelKeeps, ReadKeeps, ReadFailsKeeps, CloseKeeps, ArrivesKeeps,
       UnheardKeeps, ClosedKeeps DEF Step
  <2>2. CASE CleanAgain \/ \E who \in {"command", "cleanup"} : Restart(who)
    BY <2>2, BeginKeeps, BeginStep
  <2> QED BY <2>1, <2>2, EnvironmentStep, Stutter DEF Next
<1>5. (client \in Clients /\ MarketType /\ CallType /\ SeenType /\ Sessions /\ Progress)'
  BY <1>1, <1>2, <1>3, <1>4
<1> QED BY <1>5, Parts, PTL

THEOREM Invariance == Spec => []Inv
BY InitInv, StepInv, PTL DEF Spec

(* The variables hold what they are meant to.                              *)
THEOREM Types == Spec => []TypeOK
<1>1. Inv => TypeOK
  BY DEF Inv
<1> QED BY <1>1, Invariance, PTL

(* What is left on an account taken for closed has one of the reasons      *)
(* given, for whichever client.                                            *)
THEOREM Leftovers == Spec => []LeftExplained
<1>1. Inv => LeftExplained
  BY DEF Inv
<1> QED BY <1>1, Invariance, PTL

-----------------------------------------------------------------------------
(* What a step may do.                                                     *)

LEMMA OnlyArrivals ==
  ASSUME TypeOK, [Next]_vars, Executing
  PROVE  OrderArrives
<1>1. CASE Step
  BY <1>1 DEF Step, Warmup, CancelAll, ReadList, ReadFails, ClosePosition, OrderLost,
              OrderRefused, AllClosed, Executing, market
<1>2. CASE Environment
  BY <1>2, EnvironmentKeeps DEF Executing
<1>3. CASE CleanAgain \/ \E who \in {"command", "cleanup"} : Restart(who)
  BY <1>3, BeginKeeps DEF Begin, Executing, market
<1>4. CASE UNCHANGED vars
  BY <1>4 DEF vars, Executing
<1> QED BY <1>1, <1>2, <1>3, <1>4 DEF Next

(* What a step of an order does: one position of the account at hand comes *)
(* closer to zero, if at all.                                              *)
LEMMA Executed ==
  ASSUME Inv, [Next]_vars, Executing
  PROVE  /\ Authorized(Here)
         /\ req.symbol \in Symbols /\ seen[req.symbol] # NoPosition
         /\ \A a \in AccountSet, s \in Symbols :
              /\ pos'[a][s] \in 0..pos[a][s] \/ -pos'[a][s] \in 0..(-pos[a][s])
              /\ pos'[a][s] # pos[a][s] => a = Here /\ s = req.symbol
         /\ \A a \in AccountSet : a # Here => pos'[a] = pos[a]
<1>1. TypeOK /\ OrderOK /\ OrderArrives
  BY OnlyArrivals DEF Inv
<1> DEFINE p == pos[Here][req.symbol]
<1>2. PICK n \in (-MaxSize)..MaxSize :
        /\ pos' = [pos EXCEPT ![Here][req.symbol] = n]
        /\ n \in 0..p \/ -n \in 0..(-p)
  BY <1>1, Arrived
<1>3. req # NoRequest /\ req \in OrderType /\ Authorized(Here) /\ Here \in AccountSet
  BY <1>1, Arrived
<1>4. req.symbol \in Symbols /\ seen[req.symbol] # NoPosition
  BY <1>1, <1>3 DEF OrderOK, OrderType
<1>5. /\ \A a \in AccountSet : a # Here => pos'[a] = pos[a]
      /\ \A s \in Symbols : s # req.symbol => pos'[Here][s] = pos[Here][s]
      /\ pos'[Here][req.symbol] = n
  <2>1. pos \in [AccountSet -> [Symbols -> (-MaxSize)..MaxSize]]
    BY <1>1 DEF TypeOK
  <2>2. pos[Here] \in [Symbols -> (-MaxSize)..MaxSize]
    BY <1>3, <2>1
  <2> QED BY <1>2, <1>3, <1>4, <2>1, <2>2
<1> SUFFICES ASSUME NEW a \in AccountSet, NEW s \in Symbols
             PROVE  /\ pos'[a][s] \in 0..pos[a][s] \/ -pos'[a][s] \in 0..(-pos[a][s])
                    /\ pos'[a][s] # pos[a][s] => a = Here /\ s = req.symbol
  BY <1>3, <1>4, <1>5
<1>6. CASE a = Here /\ s = req.symbol
  BY <1>2, <1>5, <1>6
<1>7. CASE ~(a = Here /\ s = req.symbol)
  <2>1. pos'[a][s] = pos[a][s]
    BY <1>5, <1>7
  <2>2. pos[a] \in [Symbols -> (-MaxSize)..MaxSize]
    BY <1>1 DEF TypeOK
  <2>3. pos[a][s] \in Int
    BY <2>2, Bounds
  <2> HIDE DEF p
  <2> QED BY <1>7, <2>1, <2>3
<1> QED BY <1>6, <1>7

(* However stale the position read, and however often the order arrives,   *)
(* it never opens a position or turns one round.                           *)
THEOREM NoTurn == Spec => NeverTurnsRound
<1>1. Inv /\ [Next]_vars =>
        (Executing => \A a \in AccountSet, s \in Symbols :
           \/ pos'[a][s] \in 0..pos[a][s]
           \/ -pos'[a][s] \in 0..(-pos[a][s]))
  BY Executed
<1>2. Inv /\ [Next]_vars =>
        [Executing => \A a \in AccountSet, s \in Symbols :
           \/ pos'[a][s] \in 0..pos[a][s]
           \/ -pos'[a][s] \in 0..(-pos[a][s])]_vars
  BY <1>1
<1> QED BY <1>2, Invariance, PTL DEF Spec, NeverTurnsRound

(* The bots of Hyena and Onyx do not close what belongs to the other.      *)
THEOREM Scope == Spec => ScopeKept
<1>1. ASSUME Inv, [Next]_vars, Executing, NEW a \in AccountSet, NEW s \in Symbols,
             pos'[a][s] # pos[a][s]
      PROVE  ~Foreign(s) /\ a = Here
  <2>1. a = Here /\ s = req.symbol /\ seen[s] # NoPosition
    BY <1>1, Executed
  <2>2. StageOK /\ Mine(s)
    BY <1>1, <2>1 DEF Inv, StageOK
  <2> QED BY <2>1, <2>2, MineOrForeign
<1>2. Inv /\ [Next]_vars =>
        [Executing => \A a \in AccountSet, s \in Symbols :
           pos'[a][s] # pos[a][s] => ~Foreign(s) /\ a = Here]_vars
  BY <1>1
<1> QED BY <1>2, Invariance, PTL DEF Spec, ScopeKept

(* A session that has ended is only replaced by a restart or by a warm-up  *)
(* of Rise, and nothing is closed with it.                                 *)
THEOREM Final == Spec => EndedIsFinal
<1>1. ASSUME Inv, [Next]_vars, NEW a \in AccountSet, session[a] = "ended"
      PROVE  /\ \/ session'[a] = "ended"
                \/ client = "zero1" /\ runs' # runs
                \/ client = "rise" /\ (runs' # runs \/ stage = "warmup")
             /\ Executing => pos'[a] = pos[a]
  <2>1. TypeOK /\ Sessions /\ SessionStep /\ Here \in AccountSet /\ runs \in Nat
    <3>1. TypeOK /\ Sessions /\ at \in DOMAIN Accounts /\ runs \in 1..MaxRuns
      BY <1>1, Parts DEF Inv, CallType
    <3> QED BY <1>1, <3>1, SessionsMove, HereType, Bounds
  <2>2. NeedsSession
    BY <1>1, <2>1 DEF Sessions, SessionOK
  <2>3. session \in [AccountSet -> SessionState]
    BY <2>1 DEF Sessions, SessionState
  <2>4. \/ session'[a] = "ended"
        \/ client = "zero1" /\ runs' # runs
        \/ client = "rise" /\ (runs' # runs \/ stage = "warmup")
    <3>1. CASE session' = session \/ session' = Opened
      BY <1>1, <2>1, <3>1, OpenedIs
    <3>2. CASE stage = "warmup" /\ session' = WarmedUp
      BY <1>1, <2>1, <3>2, WarmedUpIs
    <3>3. CASE \E b \in AccountSet : session[b] = "live" /\ session' = [session EXCEPT ![b] = "ended"]
      BY <1>1, <2>3, <3>3
    <3>4. CASE runs' = runs + 1 /\ client # "omni"
      BY <2>1, <2>2, <3>4 DEF NeedsSession
    <3> QED BY <2>1, <3>1, <3>2, <3>3, <3>4 DEF SessionStep
  <2>5. Executing => pos'[a] = pos[a]
    <3> SUFFICES ASSUME Executing PROVE pos'[a] = pos[a]
      OBVIOUS
    <3>1. Authorized(Here) /\ \A b \in AccountSet : b # Here => pos'[b] = pos[b]
      BY <1>1, Executed
    <3>2. a # Here
      BY <1>1, <2>2, <3>1 DEF Authorized
    <3> QED BY <3>1, <3>2
  <2> QED BY <2>4, <2>5
<1>2. Inv /\ [Next]_vars =>
        [\A a \in AccountSet : session[a] = "ended" =>
           /\ \/ session'[a] = "ended"
              \/ client = "zero1" /\ runs' # runs
              \/ client = "rise" /\ (runs' # runs \/ stage = "warmup")
           /\ Executing => pos'[a] = pos[a]]_vars
  BY <1>1
<1> QED BY <1>2, Invariance, PTL DEF Spec, EndedIsFinal
=============================================================================
