---------------------------- MODULE ClientOrders ----------------------------
(***************************************************************************)
(* What the exchange clients (src/clients) make of an order: the answers   *)
(* of limit_order, market_order, get_order, cancel_order and               *)
(* cancel_all_orders, against what happens to the order on the exchange.   *)
(* One account and one market; the client is one of the seven              *)
(* implementations, Hyena and Onyx being Hyperliquid ones.                 *)
(*                                                                         *)
(* Everything a caller knows of an order comes through these answers.  An  *)
(* exchange shows an order in two ways: live (the order itself, or the     *)
(* list of open orders), and looked up by its id in an index that follows  *)
(* the order with a delay.  Requests that fail without having been carried *)
(* out change nothing here, except in a sweep.                             *)
(***************************************************************************)
EXTENDS Integers

CONSTANTS
  Clients,   (* the client classes to look at                                *)
  Orders,    (* order ids                                                    *)
  Qty        (* the size of an order, in lots                                *)

ASSUME ClientsAssumption ==
  /\ Clients \subseteq {"hyperliquid", "nado", "zero1", "omni", "rise",
                        "ethereal", "pacifica"}
  /\ Qty \in Nat \ {0}

VARIABLES
  client,    (* the class of the account's client                            *)
  truth,     (* the orders                                                   *)
  index,     (* what a lookup by id finds                                    *)
  told,      (* the last answer about each order, and the call that gave it  *)
  posted,    (* orders accepted while limit_order or market_order has yet to *)
             (* look them up                                                 *)
  asked,     (* answers a running get_order has from its two sources         *)
  sweeping,  (* cancel_all_orders runs                                       *)
  listed,    (* orders it has yet to cancel                                  *)
  due,       (* orders that were open when it began                          *)
  vouched,   (* history: orders canceled according to a cancel_order that    *)
             (* answered True or a cancel_all_orders that returned           *)
  refused    (* history: orders that the exchange refused to cancel, in an   *)
             (* answer of which the client does not read that                *)

sweepVars == <<sweeping, listed, due>>
historyVars == <<vouched, refused>>
vars == <<client, truth, index, told, posted, asked, sweepVars, historyVars>>

Order(state, done) == [state |-> state, done |-> done]

NoOrder == Order("none", 0)
NotAsked == Order("not asked", 0)
NothingAsked == [live |-> NotAsked, arch |-> NotAsked]

Ended == {"filled", "canceled", "expired"}
Open(o) == truth[o].state = "open"

Final == {"FILLED", "CANCELED"}

Answer(status, filled, by) == [status |-> status, filled |-> filled, by |-> by]

Nothing == Answer("unknown", 0, "nobody")

-----------------------------------------------------------------------------
(* Which client does what.                                                 *)

(* limit_order and market_order send the order and look it up.             *)
LooksUp == client \in {"ethereal", "pacifica"}

(* get_order asks two sources.                                             *)
TwoSources == client \in {"nado", "rise"}

(* cancel_all_orders cancels the open orders one by one.                   *)
OneByOne == client \in {"omni", "zero1", "ethereal"}

(* cancel_all_orders does not notice that the exchange refused to cancel   *)
(* an order: 01 and Ethereal drop what their cancel_order answers, Rise    *)
(* the success of its request, and Hyperliquid the status of each order.   *)
Swallows == client \in {"zero1", "ethereal", "rise", "hyperliquid"}

(* The order carries a time at which it expires.                           *)
Expires == client \in {"nado", "ethereal"}

-----------------------------------------------------------------------------
(* The status each client reads from an order.                             *)

HyperliquidStatus(r) ==
  CASE r.state = "filled" -> "FILLED"
    [] r.state = "open"   -> "OPEN"
    [] OTHER              -> "CANCELED"

(* Broken: more than nothing is enough.                                    *)
NadoArchiveAny(r) == IF r.done > 0 THEN "FILLED" ELSE "CANCELED"

NadoArchiveStatus(r) == IF r.done >= Qty THEN "FILLED" ELSE "CANCELED"

ZeroOneStatus(r) ==
  CASE r.state = "canceled"              -> "CANCELED"
    [] r.state # "canceled" /\ r.done >= Qty -> "FILLED"
    [] OTHER                             -> "OPEN"

OmniStatus(r) ==
  CASE r.state = "filled" -> "FILLED"
    [] r.state = "open"   -> "OPEN"
    [] OTHER              -> "CANCELED"

RiseStatus(r) ==
  CASE r.state = "filled"   -> "FILLED"
    [] r.state = "canceled" -> "CANCELED"
    [] OTHER                -> "OPEN"

(* Broken: an expired order is of unknown status.                          *)
EtherealKnows(r) ==
  CASE r.state = "filled"   -> "FILLED"
    [] r.state = "canceled" -> "CANCELED"
    [] OTHER                -> "OPEN"

EtherealStatus(r) ==
  CASE r.state = "filled"                  -> "FILLED"
    [] r.state \in {"canceled", "expired"} -> "CANCELED"
    [] OTHER                               -> "OPEN"

PacificaStatus(r) ==
  CASE r.state = "filled"   -> "FILLED"
    [] r.state = "canceled" -> "CANCELED"
    [] OTHER                -> "OPEN"

(* A lookup by id, of the clients that make only one.  Omni does not say   *)
(* how much of an unfinished order is filled.                              *)
LookedUp(r, by) ==
  CASE client = "hyperliquid" -> Answer(HyperliquidStatus(r), r.done, by)
    [] client = "zero1"       -> Answer(ZeroOneStatus(r), r.done, by)
    [] client = "omni"        -> Answer(OmniStatus(r),
                                   IF OmniStatus(r) = "FILLED" THEN Qty ELSE 0, by)
    [] client = "ethereal"    -> Answer(EtherealStatus(r), r.done, by)
    [] OTHER                  -> Answer(PacificaStatus(r), r.done, by)

(* Broken: the answer with more executions wins.                           *)
NadoFresher(a) ==
  IF a.live # NoOrder /\ a.live.done >= a.arch.done
  THEN Answer("OPEN", a.live.done, "poll")
  ELSE Answer(NadoArchiveStatus(a.arch), a.arch.done, "poll")

(* Nado: the live order while it exists, else what the archive has.        *)
NadoAnswer(a) ==
  IF a.live # NoOrder THEN Answer("OPEN", a.live.done, "poll")
  ELSE Answer(NadoArchiveStatus(a.arch), a.arch.done, "poll")

(* Rise: the first hit in the open orders, then in the history.            *)
RiseAnswer(a) ==
  LET r == IF a.live # NoOrder THEN a.live ELSE a.arch
  IN  Answer(RiseStatus(r), r.done, "poll")

(* The answers to an order of which `done` lots were executed at once.     *)

HyperliquidPlaced(kind, done) ==
  IF done = Qty \/ kind = "market" THEN Answer("FILLED", done, "place")
                                   ELSE Answer("OPEN", 0, "place")

NadoPlaced == Answer("OPEN", 0, "place")

ZeroOnePlaced(done) == Answer(IF done > 0 THEN "FILLED" ELSE "OPEN", done, "place")

OmniMarketPlaced == Answer("FILLED", Qty, "place")

OmniLimitPlaced == Answer("OPEN", 0, "place")

(* The response to an order that is over may hold a message.               *)
RisePlaced(done, message) ==
  Answer(IF done >= Qty \/ message THEN "FILLED" ELSE "OPEN", done, "place")

Placed(kind, done, message) ==
  CASE client = "hyperliquid" -> HyperliquidPlaced(kind, done)
    [] client = "nado"        -> NadoPlaced
    [] client = "zero1"       -> ZeroOnePlaced(done)
    [] client = "omni"        -> IF kind = "market" THEN OmniMarketPlaced ELSE OmniLimitPlaced
    [] OTHER                  -> RisePlaced(done, message)

-----------------------------------------------------------------------------
Init ==
  /\ client \in Clients
  /\ truth = [o \in Orders |-> NoOrder]
  /\ index = [o \in Orders |-> NoOrder]
  /\ told = [o \in Orders |-> Nothing]
  /\ posted = {}
  /\ asked = [o \in Orders |-> NothingAsked]
  /\ sweeping = FALSE
  /\ listed = {}
  /\ due = {}
  /\ vouched = {}
  /\ refused = {}

-----------------------------------------------------------------------------
(* The exchange.                                                           *)

(* Omni deals with a maker who takes an order whole.                       *)
Execute(o) ==
  /\ Open(o)
  /\ LET done == IF client = "omni" THEN Qty ELSE truth[o].done + 1
     IN  truth' = [truth EXCEPT ![o] = Order(IF done = Qty THEN "filled" ELSE "open", done)]
  /\ UNCHANGED <<client, index, told, posted, asked, sweepVars, historyVars>>

EndOrder(o) ==
  /\ Open(o)
  /\ \E state \in {"canceled"} \cup (IF Expires THEN {"expired"} ELSE {}) :
       truth' = [truth EXCEPT ![o].state = state]
  /\ UNCHANGED <<client, index, told, posted, asked, sweepVars, historyVars>>

Follow(o) ==
  /\ index[o] # truth[o]
  /\ index' = [index EXCEPT ![o] = truth[o]]
  /\ UNCHANGED <<client, truth, told, posted, asked, sweepVars, historyVars>>

(* Orders the exchange can make of a request: what is left of a limit      *)
(* order rests, what is left of a market order is dropped.                 *)
Accepted(kind) ==
  IF kind = "limit"
  THEN {Order("open", d) : d \in 0 .. Qty - 1} \cup {Order("filled", Qty)}
  ELSE {Order("canceled", d) : d \in 0 .. Qty - 1} \cup {Order("filled", Qty)}

Acceptable(kind) ==
  IF client = "omni"
  THEN {IF kind = "limit" THEN Order("open", 0) ELSE Order("filled", Qty)}
  ELSE Accepted(kind)

-----------------------------------------------------------------------------
(* limit_order and market_order.  A reduce-only limit order of 01 is an    *)
(* immediate-or-cancel order, tried again as a market order when it finds  *)
(* nobody: two orders of the kind "market".                                *)

New(o) == truth[o] = NoOrder

(* Hyperliquid and 01 raise when an order of this kind executes nothing.   *)
TurnedDown(kind, r) ==
  client \in {"hyperliquid", "zero1"} /\ kind = "market" /\ r.done = 0

PlaceAnswered(o, kind) ==
  /\ New(o)
  /\ ~ LooksUp
  /\ \E r \in Acceptable(kind), message \in BOOLEAN :
       /\ message => client = "rise" /\ r.state # "open"
       /\ truth' = [truth EXCEPT ![o] = r]
       /\ told' = IF TurnedDown(kind, r) THEN told
                  ELSE [told EXCEPT ![o] = Placed(kind, r.done, message)]
  /\ UNCHANGED <<client, index, posted, asked, sweepVars, historyVars>>

(* The answer to a request that was carried out is lost: the call raises.  *)
PlaceLost(o, kind) ==
  /\ New(o)
  /\ \E r \in Acceptable(kind) : truth' = [truth EXCEPT ![o] = r]
  /\ UNCHANGED <<client, index, told, posted, asked, sweepVars, historyVars>>

Post(o, kind) ==
  /\ New(o)
  /\ LooksUp
  /\ \E r \in Acceptable(kind) : truth' = [truth EXCEPT ![o] = r]
  /\ posted' = posted \cup {o}
  /\ UNCHANGED <<client, index, told, asked, sweepVars, historyVars>>

(* The call raises when the lookup finds nothing, though the order exists. *)
Confirm(o) ==
  /\ o \in posted
  /\ posted' = posted \ {o}
  /\ told' = IF index[o] = NoOrder THEN told
             ELSE [told EXCEPT ![o] = LookedUp(index[o], "place")]
  /\ UNCHANGED <<client, truth, index, asked, sweepVars, historyVars>>

-----------------------------------------------------------------------------
(* get_order, of an order whose id the caller was given.  None is no       *)
(* answer: it leaves the caller with what it knew.                         *)

Known(o) == told[o] # Nothing

PollOne(o) ==
  /\ Known(o)
  /\ ~ TwoSources
  /\ told' = IF index[o] = NoOrder THEN told
             ELSE [told EXCEPT ![o] = LookedUp(index[o], "poll")]
  /\ UNCHANGED <<client, truth, index, posted, asked, sweepVars, historyVars>>

AskLive(o) ==
  /\ Known(o)
  /\ TwoSources
  /\ asked[o].live = NotAsked
  /\ asked' = [asked EXCEPT ![o].live = IF Open(o) THEN truth[o] ELSE NoOrder]
  /\ UNCHANGED <<client, truth, index, told, posted, sweepVars, historyVars>>

(* Nado's archive is for orders that are over, but may hold a snapshot of  *)
(* one that is partly filled.                                              *)
InArchive(r) == IF r.state = "open" /\ r.done = 0 THEN NoOrder ELSE r

(* Nado's requests go out together and are answered in any order; Rise     *)
(* turns to the history when the order is not among the open ones, and     *)
(* finds it there when it is over.                                         *)
AskArchive(o) ==
  /\ Known(o)
  /\ TwoSources
  /\ asked[o].arch = NotAsked
  /\ \/ /\ client = "nado"
        /\ asked' = [asked EXCEPT ![o].arch = InArchive(index[o])]
     \/ /\ client = "rise"
        /\ asked[o].live = NoOrder
        /\ asked' = [asked EXCEPT ![o].arch =
                       IF index[o].state = "open" THEN NoOrder ELSE index[o]]
  /\ UNCHANGED <<client, truth, index, told, posted, sweepVars, historyVars>>

PollBoth(o) ==
  /\ asked[o].live # NotAsked
  /\ asked[o].arch # NotAsked \/ (client = "rise" /\ asked[o].live # NoOrder)
  /\ told' = IF asked[o].live = NoOrder /\ asked[o].arch = NoOrder THEN told
             ELSE [told EXCEPT ![o] = IF client = "nado" THEN NadoAnswer(asked[o])
                                                         ELSE RiseAnswer(asked[o])]
  /\ asked' = [asked EXCEPT ![o] = NothingAsked]
  /\ UNCHANGED <<client, truth, index, posted, sweepVars, historyVars>>

Poll(o) == PollOne(o) \/ AskLive(o) \/ AskArchive(o) \/ PollBoth(o)

-----------------------------------------------------------------------------
(* cancel_order and cancel_all_orders.                                     *)

Canceled(orders) ==
  [o \in Orders |-> IF o \in orders /\ Open(o) THEN Order("canceled", truth[o].done)
                                               ELSE truth[o]]

(* The exchange cancels the order and the call answers True; or it raises, *)
(* or answers False, because the exchange's answer was lost.  Hyperliquid  *)
(* answers True also when the exchange refused: that stands in the status  *)
(* of the order, which only the placing of orders reads.                   *)
CancelOrder(o) ==
  /\ Known(o)
  /\ \/ /\ truth' = Canceled({o})
        /\ vouched' \in {vouched, vouched \cup {o}}
        /\ UNCHANGED refused
     \/ /\ client = "hyperliquid"
        /\ vouched' = vouched \cup {o}
        /\ refused' = refused \cup {o}
        /\ UNCHANGED truth
  /\ UNCHANGED <<client, index, told, posted, asked, sweepVars>>

OpenOrders == {o \in Orders : Open(o)}

(* A request to cancel orders is answered: the exchange has canceled them, *)
(* except those that it may refuse to without the client noticing.         *)
CancelAnswered(orders) ==
  \E kept \in IF Swallows THEN SUBSET (orders \cap OpenOrders) ELSE {{}} :
    /\ truth' = Canceled(orders \ kept)
    /\ refused' = refused \cup kept

(* The open orders are listed.  Nado does not list them.                   *)
StartSweep ==
  /\ ~ sweeping
  /\ sweeping' = TRUE
  /\ due' = OpenOrders
  /\ listed' = OpenOrders
  /\ UNCHANGED <<client, truth, index, told, posted, asked, historyVars>>

(* Broken: no client stops at a request that fails.                        *)
SweepOnRegardless(o) ==
  /\ sweeping
  /\ OneByOne
  /\ o \in listed
  /\ listed' = listed \ {o}
  /\ truth' \in {truth, Canceled({o})}
  /\ UNCHANGED <<client, index, told, posted, asked, sweeping, due, historyVars>>

SweepOne(o) ==
  /\ sweeping
  /\ OneByOne
  /\ o \in listed
  /\ listed' = listed \ {o}
  /\ CancelAnswered({o})
  /\ UNCHANGED <<client, index, told, posted, asked, sweeping, due, vouched>>

(* One request for all: for those on the list, or for all that are open.   *)
SweepAll ==
  /\ sweeping
  /\ ~ OneByOne
  /\ listed # {} \/ client = "nado"
  /\ listed' = {}
  /\ CancelAnswered(IF client = "hyperliquid" THEN listed ELSE OpenOrders)
  /\ UNCHANGED <<client, index, told, posted, asked, sweeping, due, vouched>>

SweepReturns ==
  /\ sweeping
  /\ listed = {}
  /\ sweeping' = FALSE
  /\ due' = {}
  /\ vouched' = vouched \cup due
  /\ UNCHANGED <<client, truth, index, told, posted, asked, listed, refused>>

(* A request fails, carried out or not.                                    *)
SweepRaises ==
  /\ sweeping
  /\ truth' \in {truth} \cup {Canceled({o}) : o \in listed} \cup
                (IF OneByOne THEN {} ELSE {Canceled(listed)})
  /\ sweeping' = FALSE
  /\ listed' = {}
  /\ due' = {}
  /\ UNCHANGED <<client, index, told, posted, asked, historyVars>>

-----------------------------------------------------------------------------
Place(o) ==
  \/ \E kind \in {"limit", "market"} :
       PlaceAnswered(o, kind) \/ PlaceLost(o, kind) \/ Post(o, kind)
  \/ Confirm(o)

Exchange(o) == Execute(o) \/ EndOrder(o) \/ Follow(o)

Sweep == StartSweep \/ (\E o \in Orders : SweepOne(o)) \/ SweepAll \/ SweepReturns \/ SweepRaises

Next ==
  \/ \E o \in Orders : Exchange(o) \/ Place(o) \/ Poll(o) \/ CancelOrder(o)
  \/ Sweep

(* Callers poll an order until they are told that it is over, requests are *)
(* answered, and the index catches up.                                     *)
Fairness == \A o \in Orders : WF_vars(Poll(o)) /\ WF_vars(Follow(o))

Spec == Init /\ [][Next]_vars /\ Fairness

-----------------------------------------------------------------------------
OrderStates == {"none", "open"} \cup Ended
OrderRecords == [state : OrderStates, done : 0 .. Qty]
Found == OrderRecords \cup {NotAsked}

TypeOK ==
  /\ client \in Clients
  /\ truth \in [Orders -> OrderRecords]
  /\ index \in [Orders -> OrderRecords]
  /\ told \in [Orders -> [status : {"unknown", "OPEN"} \cup Final, filled : 0 .. Qty,
                          by : {"nobody", "place", "poll"}]]
  /\ posted \subseteq Orders
  /\ asked \in [Orders -> [live : Found, arch : Found]]
  /\ sweeping \in BOOLEAN
  /\ listed \subseteq Orders
  /\ due \subseteq Orders
  /\ vouched \subseteq Orders
  /\ refused \subseteq Orders

(* What get_order says of an order is true of it, though perhaps no longer *)
(* all of the truth: so much of it was executed, and if it says FILLED     *)
(* then all of it was.  fill_limit_order ends, or buys the remainder, on   *)
(* the strength of this, whatever source the answer came from and however  *)
(* late it arrives.                                                        *)
PolledIsTrue ==
  \A o \in Orders :
    told[o].by = "poll" =>
      /\ told[o].filled <= truth[o].done
      /\ told[o].status = "FILLED" => truth[o].state = "filled"

(* An order that the client answered for is off the book: cancel_order     *)
(* answered True, or the order was open when cancel_all_orders, which then *)
(* returned, began.  close_all, and the market order that follows a cancel *)
(* in fill_limit_order, rely on it.  It may be wrong in one way only: the  *)
(* exchange has refused to cancel that very order, in an answer of which   *)
(* the client does not read it (Swallows and CancelOrder).                 *)
VouchedIsOff == \A o \in vouched : Open(o) => o \in refused

(* Once get_order has said that an order is over it never again says that  *)
(* the order is open: with two sources, or one that lags, an answer could  *)
(* go back in time, and the caller that stopped polling would be wrong.    *)
FinalStaysFinal ==
  [][\A o \in Orders :
       told[o].by = "poll" /\ told[o].status \in Final => told'[o].status \in Final]_vars

(* Whoever polls an order it was told is open hears of its end, however    *)
(* the order ended: otherwise the wait of fill_limit_order is over only    *)
(* with its timeout.                                                       *)
EndedIsReported ==
  \A o \in Orders :
    (told[o].status = "OPEN" /\ truth[o].state \in Ended) ~> told[o].status \in Final

(* What OrderStatus says of FILLED and OPEN (strategy/models.py:23-24): an *)
(* order on the book is OPEN, partly filled or not, hence one that a       *)
(* client called FILLED is not on the book.  Checked to fail for 01.       *)
FilledIsOffBook == \A o \in Orders : told[o].status = "FILLED" => ~ Open(o)
=============================================================================
