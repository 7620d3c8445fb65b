------------------------ MODULE ClientOrders_proofs ------------------------
(***************************************************************************)
(* The safety properties of ClientOrders, for every set of clients and of  *)
(* orders and for orders of any size.                                      *)
(*                                                                         *)
(* The argument: whatever an index, an archive or an answer under way      *)
(* shows is the order at some earlier time, and an order that is over does *)
(* not change any more.                                                    *)
(***************************************************************************)
EXTENDS ClientOrders, TLAPS

(* An order that the exchange can hold.                                    *)
Sound(r) ==
  /\ r \in OrderRecords
  /\ r.state = "filled" <=> r.done = Qty
  /\ r.state = "none" => r.done = 0
  /\ r.state = "expired" => Expires

(* r is what t was, or is.                                                 *)
Before(r, t) ==
  \/ r = t
  \/ r = NoOrder
  \/ r.state = "open" /\ t.state # "none" /\ r.done <= t.done

Over(o) == truth[o].state \in Ended

(* The index lags, and never shows what was not.                           *)
IndexLags ==
  \A o \in Orders : Sound(truth[o]) /\ Sound(index[o]) /\ Before(index[o], truth[o])

(* Only orders that exist are spoken about.                                *)
OrdersExist ==
  \A o \in Orders :
    /\ told[o] # Nothing => truth[o].state # "none"
    /\ o \in posted => told[o] = Nothing
    /\ o \in listed \cup due \cup vouched => truth[o].state # "none"

(* What a running get_order has heard.  An order that was not live then is *)
(* over.                                                                   *)
AskedLags ==
  \A o \in Orders :
    /\ asked[o] # NothingAsked => TwoSources /\ told[o] # Nothing
    /\ asked[o].live = NoOrder => Over(o)
    /\ asked[o].live \notin {NoOrder, NotAsked} =>
         Sound(asked[o].live) /\ asked[o].live.state = "open"
                              /\ asked[o].live.done <= truth[o].done
    /\ asked[o].arch # NotAsked => Sound(asked[o].arch) /\ Before(asked[o].arch, truth[o])
    /\ client = "rise" /\ asked[o].arch # NotAsked =>
         asked[o].live = NoOrder /\ asked[o].arch.state # "open"

(* A polled answer that was final had seen the end of the order, and so    *)
(* has the source that the next poll asks.                                 *)
FinalWasOver ==
  \A o \in Orders :
    told[o].by = "poll" /\ told[o].status \in Final =>
      /\ Over(o)
      /\ IF TwoSources THEN asked[o].live \in {NoOrder, NotAsked}
                       ELSE index[o].state \in Ended

(* Orders the sweep is done with are over, or were refused.                *)
SweepIsThorough ==
  /\ \A o \in vouched : Over(o) \/ o \in refused
  /\ \A o \in due : Over(o) \/ o \in listed \/ o \in refused

(* Only these two clients look up an order that they have posted.          *)
PostedLooksUp == posted # {} => LooksUp

IInv ==
  /\ TypeOK
  /\ PostedLooksUp
  /\ IndexLags
  /\ OrdersExist
  /\ AskedLags
  /\ PolledIsTrue
  /\ FinalWasOver
  /\ SweepIsThorough

-----------------------------------------------------------------------------
(* The answers have their type.                                            *)
LEMMA AnswersTyped ==
  ASSUME NEW r \in OrderRecords, NEW by \in {"place", "poll"}
  PROVE  LookedUp(r, by) \in [status : {"OPEN"} \cup Final, filled : 0 .. Qty, by : {by}]
BY ClientsAssumption
   DEF LookedUp, Answer, Final, OrderRecords, HyperliquidStatus, ZeroOneStatus,
       OmniStatus, EtherealStatus, PacificaStatus

(* What a lookup by id says is true of the order as the index has it, and  *)
(* it is final if the order is over there.                                 *)
LEMMA LookedUpIsTrue ==
  ASSUME NEW r, Sound(r), r.state # "none", NEW by, client \in Clients
  PROVE  /\ LookedUp(r, by).filled <= r.done
         /\ LookedUp(r, by).status = "FILLED" => r.state = "filled"
         /\ ~ TwoSources => (LookedUp(r, by).status \in Final <=> r.state \in Ended)
<1> DEFINE s == r.state
           d == r.done
<1>1. d \in 0 .. Qty /\ s \in OrderStates /\ (s = "filled" <=> d = Qty) /\ (s = "expired" => Expires)
  BY DEF Sound, OrderRecords
<1>2. s = "expired" => client \in {"nado", "ethereal"}
  BY <1>1 DEF Expires
<1>3. s \in {"none", "open", "filled", "canceled", "expired"}
  BY <1>1 DEF OrderStates, Ended
<1> USE ClientsAssumption, <1>1, <1>2, <1>3
        DEF LookedUp, Answer, Final, Ended, TwoSources
<1>4. CASE client = "hyperliquid"
  <2>1. LookedUp(r, by) = Answer(HyperliquidStatus(r), d, by)
    BY <1>4
  <2> QED BY <1>4, <2>1 DEF HyperliquidStatus
<1>5. CASE client = "zero1"
  <2>1. LookedUp(r, by) = Answer(ZeroOneStatus(r), d, by)
    BY <1>5
  <2> QED BY <1>5, <2>1 DEF ZeroOneStatus
<1>6. CASE client = "omni"
  <2>1. LookedUp(r, by) = Answer(OmniStatus(r), IF OmniStatus(r) = "FILLED" THEN Qty ELSE 0, by)
    BY <1>6
  <2> QED BY <1>6, <2>1 DEF OmniStatus
<1>7. CASE client = "ethereal"
  <2>1. LookedUp(r, by) = Answer(EtherealStatus(r), d, by)
    BY <1>7
  <2> QED BY <1>7, <2>1 DEF EtherealStatus
<1>8. CASE client \in {"pacifica", "nado", "rise"}
  <2>1. LookedUp(r, by) = Answer(PacificaStatus(r), d, by)
    BY <1>8
  <2> QED BY <1>8, <2>1 DEF PacificaStatus
<1> QED BY <1>4, <1>5, <1>6, <1>7, <1>8

-----------------------------------------------------------------------------
(* How an order may go on.                                                 *)
Onward(t, u) ==
  \/ u = t
  \/ t.state = "open" /\ u.state \notin {"none"} /\ t.done <= u.done

(* Canceling open orders is a way to go on, and it is thorough.            *)
LEMMA CancelingMoves ==
  ASSUME IInv, NEW S, truth' = Canceled(S), client' = client
  PROVE  \A o \in Orders :
           /\ Sound(truth[o])' /\ Onward(truth[o], truth'[o])
           /\ o \in S /\ truth[o].state # "none" => Over(o)'
<1> SUFFICES ASSUME NEW o \in Orders
             PROVE  /\ Sound(truth[o])' /\ Onward(truth[o], truth'[o])
                    /\ o \in S /\ truth[o].state # "none" => Over(o)'
  OBVIOUS
<1>1. Sound(truth[o]) /\ truth[o] \in OrderRecords
  BY DEF IInv, IndexLags, Sound
<1>2. truth'[o] = IF o \in S /\ Open(o) THEN Order("canceled", truth[o].done) ELSE truth[o]
  BY DEF Canceled
<1>3. truth[o].state \in OrderStates /\ truth[o].done \in 0 .. Qty
  BY <1>1 DEF OrderRecords
<1>4. CASE o \in S /\ Open(o)
  <2>1. truth'[o] = [state |-> "canceled", done |-> truth[o].done]
    BY <1>2, <1>4 DEF Order
  <2>2. truth'[o] \in OrderRecords
    BY <2>1, <1>3 DEF OrderRecords, OrderStates, Ended
  <2>3. truth[o].state = "open" /\ truth[o].done # Qty
    BY <1>1, <1>4 DEF Open, Sound
  <2> QED BY <2>1, <2>2, <2>3, <1>3, ClientsAssumption DEF Sound, Onward, Over, Ended, OrderRecords
<1>5. CASE ~ (o \in S /\ Open(o))
  BY <1>1, <1>2, <1>3, <1>5 DEF Sound, Expires, Onward, Over, Open, OrderStates
<1> QED BY <1>4, <1>5

(* So is an execution ...                                                  *)
LEMMA ExecutingMoves ==
  ASSUME IInv, NEW p \in Orders, Execute(p)
  PROVE  \A o \in Orders : Sound(truth[o])' /\ Onward(truth[o], truth'[o])
<1> SUFFICES ASSUME NEW o \in Orders
             PROVE  Sound(truth[o])' /\ Onward(truth[o], truth'[o])
  OBVIOUS
<1> DEFINE done == IF client = "omni" THEN Qty ELSE truth[p].done + 1
<1>1. /\ Sound(truth[o]) /\ Sound(truth[p])
      /\ truth[o].state \in OrderStates /\ truth[o].done \in 0 .. Qty
      /\ truth[p].state \in OrderStates /\ truth[p].done \in 0 .. Qty
      /\ truth \in [Orders -> OrderRecords]
  BY DEF IInv, IndexLags, TypeOK, Sound, OrderRecords
<1>2. truth[p].state = "open" /\ truth[p].done < Qty /\ client' = client
  BY <1>1, ClientsAssumption DEF Execute, Open, Sound
<1>3. done \in 0 .. Qty /\ truth[p].done <= done /\ done > 0
  BY <1>1, <1>2, ClientsAssumption
<1>4. CASE o = p
  <2>1. truth'[o] = [state |-> IF done = Qty THEN "filled" ELSE "open", done |-> done]
    BY <1>1, <1>4 DEF Execute, Order
  <2>2. truth'[o] \in OrderRecords
    BY <2>1, <1>3 DEF OrderRecords, OrderStates, Ended
  <2> HIDE DEF done
  <2> QED BY <1>2, <1>3, <1>4, <2>1, <2>2 DEF Sound, Onward, OrderRecords
<1>5. CASE o # p
  <2>1. truth'[o] = truth[o]
    BY <1>1, <1>5 DEF Execute
  <2> QED BY <1>1, <1>2, <2>1 DEF Sound, Expires, Onward
<1> QED BY <1>4, <1>5

(* ... and the end of an order.                                            *)
LEMMA EndingMoves ==
  ASSUME IInv, NEW p \in Orders, EndOrder(p)
  PROVE  \A o \in Orders : Sound(truth[o])' /\ Onward(truth[o], truth'[o])
<1> SUFFICES ASSUME NEW o \in Orders
             PROVE  Sound(truth[o])' /\ Onward(truth[o], truth'[o])
  OBVIOUS
<1>1. PICK state \in {"canceled"} \cup (IF Expires THEN {"expired"} ELSE {}) :
        truth' = [truth EXCEPT ![p].state = state]
  BY DEF EndOrder
<1>2. /\ Sound(truth[o])
      /\ truth[o].state \in OrderStates /\ truth[o].done \in 0 .. Qty
      /\ truth \in [Orders -> OrderRecords]
      /\ client' = client
  BY DEF IInv, IndexLags, TypeOK, Sound, OrderRecords, EndOrder
<1>3. CASE o = p
  <2>1. truth[o].state = "open" /\ truth[o].done # Qty
    BY <1>2, <1>3 DEF EndOrder, Open, Sound
  <2>2. truth'[o] = [state |-> state, done |-> truth[o].done]
    BY <1>1, <1>2, <1>3 DEF OrderRecords
  <2>3. truth'[o] \in OrderRecords
    BY <1>2, <2>2 DEF OrderRecords, OrderStates, Ended
  <2> QED BY <1>1, <1>2, <2>1, <2>2, <2>3 DEF Sound, Expires, Onward, OrderRecords
<1>4. CASE o # p
  <2>1. truth'[o] = truth[o]
    BY <1>1, <1>2, <1>4
  <2> QED BY <1>2, <2>1 DEF Sound, Expires, Onward
<1> QED BY <1>3, <1>4

-----------------------------------------------------------------------------
(* When orders go on and nobody asks or is told, what was true stays true. *)
Lookups == IndexLags /\ AskedLags /\ PolledIsTrue /\ FinalWasOver

LEMMA OrdersGoOn ==
  ASSUME IInv, client' = client, UNCHANGED <<index, told, posted, asked>>,
         \A o \in Orders : Sound(truth[o])' /\ Onward(truth[o], truth'[o])
  PROVE  Lookups'
<1>0. \A o \in Orders :
        /\ truth[o] \in OrderRecords /\ truth'[o] \in OrderRecords
        /\ truth[o].done \in 0 .. Qty /\ truth'[o].done \in 0 .. Qty
        /\ index[o] \in OrderRecords /\ index[o].done \in 0 .. Qty
        /\ told[o].filled \in 0 .. Qty
  BY DEF IInv, TypeOK, Sound, OrderRecords
<1>1. \A o \in Orders : \A r : Sound(r) /\ Before(r, truth[o]) => Sound(r)' /\ Before(r, truth'[o])
  <2> SUFFICES ASSUME NEW o \in Orders, NEW r, Sound(r), Before(r, truth[o])
               PROVE  Sound(r)' /\ Before(r, truth'[o])
    OBVIOUS
  <2>1. Sound(r)' /\ r.done \in 0 .. Qty
    BY DEF Sound, Expires, OrderRecords
  <2>2. CASE truth'[o] = truth[o]
    BY <2>1, <2>2
  <2>3. CASE truth'[o] # truth[o]
    <3>1. truth[o].state = "open" /\ truth'[o].state # "none" /\ truth[o].done <= truth'[o].done
      BY <2>3 DEF Onward
    <3> QED BY <1>0, <2>1, <3>1 DEF Before
  <2> QED BY <2>2, <2>3
<1>2. IndexLags'
  BY <1>1 DEF IInv, IndexLags
<1>3. \A o \in Orders : Over(o) => Over(o)' /\ truth'[o] = truth[o]
  BY DEF Onward, Over, Ended
<1>4. AskedLags'
  <2> SUFFICES ASSUME NEW o \in Orders
               PROVE  /\ asked[o] # NothingAsked => TwoSources' /\ told[o] # Nothing
                      /\ asked[o].live = NoOrder => Over(o)'
                      /\ asked[o].live \notin {NoOrder, NotAsked} =>
                           /\ Sound(asked[o].live)' /\ asked[o].live.state = "open"
                           /\ asked[o].live.done <= truth'[o].done
                      /\ asked[o].arch # NotAsked =>
                           Sound(asked[o].arch)' /\ Before(asked[o].arch, truth'[o])
                      /\ client = "rise" /\ asked[o].arch # NotAsked =>
                           asked[o].live = NoOrder /\ asked[o].arch.state # "open"
    BY DEF AskedLags
  <2>1. AskedLags
    BY DEF IInv
  <2>2. TwoSources' = TwoSources
    BY DEF TwoSources
  <2>3. ASSUME asked[o].live \notin {NoOrder, NotAsked}
        PROVE  Sound(asked[o].live)' /\ asked[o].live.state = "open"
               /\ asked[o].live.done <= truth'[o].done
    <3>1. Sound(asked[o].live) /\ asked[o].live.state = "open"
          /\ asked[o].live.done <= truth[o].done
      BY <2>1, <2>3 DEF AskedLags
    <3>2. asked[o].live.done \in 0 .. Qty
      BY <3>1 DEF Sound, OrderRecords
    <3>3. truth[o].done <= truth'[o].done
      BY <1>0 DEF Onward
    <3> QED BY <1>0, <3>1, <3>2, <3>3 DEF Sound, Expires
  <2> QED BY <1>1, <1>3, <2>1, <2>2, <2>3 DEF AskedLags
<1>5. PolledIsTrue'
  <2>1. \A o \in Orders : truth[o].done <= truth'[o].done
    BY <1>0 DEF Onward
  <2>2. \A o \in Orders : truth[o].state = "filled" => truth'[o] = truth[o]
    BY DEF Onward
  <2> QED BY <1>0, <2>1, <2>2 DEF IInv, PolledIsTrue
<1>6. FinalWasOver'
  BY <1>3 DEF IInv, FinalWasOver, TwoSources
<1> QED BY <1>2, <1>4, <1>5, <1>6 DEF Lookups

-----------------------------------------------------------------------------
(* Placing an order.                                                       *)

LEMMA AcceptableIsSound ==
  ASSUME NEW kind, NEW r \in Acceptable(kind), client' = client
  PROVE  Sound(r) /\ Sound(r)' /\ r.state # "none"
<1>1. \/ r = Order("filled", Qty)
      \/ \E d \in 0 .. Qty - 1 : r = Order("open", d)
      \/ \E d \in 0 .. Qty - 1 : r = Order("canceled", d)
  BY ClientsAssumption DEF Acceptable, Accepted
<1>2. r \in OrderRecords
  BY <1>1, ClientsAssumption DEF Order, OrderRecords, OrderStates, Ended
<1> QED BY <1>1, <1>2, ClientsAssumption DEF Order, Sound

(* The answer to a placed order.                                           *)
LEMMA PlacedTyped ==
  ASSUME NEW kind, NEW done \in 0 .. Qty, NEW message
  PROVE  Placed(kind, done, message) \in [status : {"OPEN", "FILLED"}, filled : 0 .. Qty, by : {"place"}]
BY ClientsAssumption
   DEF Placed, Answer, HyperliquidPlaced, NadoPlaced, ZeroOnePlaced, OmniMarketPlaced,
       OmniLimitPlaced, RisePlaced

PlaceStep(p, kind) == PlaceAnswered(p, kind) \/ PlaceLost(p, kind) \/ Post(p, kind)

(* What a placement changes.                                               *)
LEMMA PlaceChanges ==
  ASSUME IInv, NEW p \in Orders, NEW kind, PlaceStep(p, kind)
  PROVE  /\ New(p)
         /\ \E r : Sound(r) /\ Sound(r)' /\ r.state # "none" /\ truth' = [truth EXCEPT ![p] = r]
         /\ \/ told' = told
            \/ \E answer \in [status : {"OPEN", "FILLED"}, filled : 0 .. Qty, by : {"place"}] :
                 told' = [told EXCEPT ![p] = answer] /\ posted' = posted /\ ~ LooksUp
         /\ posted' \in {posted, posted \cup {p}}
         /\ UNCHANGED <<client, index, asked, sweepVars, historyVars>>
<1>1. CASE PlaceAnswered(p, kind)
  <2>1. PICK r \in Acceptable(kind), message \in BOOLEAN :
          /\ truth' = [truth EXCEPT ![p] = r]
          /\ told' = IF TurnedDown(kind, r) THEN told
                     ELSE [told EXCEPT ![p] = Placed(kind, r.done, message)]
    BY <1>1 DEF PlaceAnswered
  <2>2. client' = client
    BY <1>1 DEF PlaceAnswered
  <2>3. Sound(r) /\ Sound(r)' /\ r.state # "none" /\ r.done \in 0 .. Qty
    BY <2>2, AcceptableIsSound DEF Sound, OrderRecords
  <2>4. Placed(kind, r.done, message) \in [status : {"OPEN", "FILLED"}, filled : 0 .. Qty, by : {"place"}]
    BY <2>3, PlacedTyped
  <2>5. /\ New(p) /\ ~ LooksUp /\ posted' = posted
        /\ UNCHANGED <<client, index, asked, sweepVars, historyVars>>
    BY <1>1 DEF PlaceAnswered
  <2>6. \/ told' = told
        \/ \E answer \in [status : {"OPEN", "FILLED"}, filled : 0 .. Qty, by : {"place"}] :
             told' = [told EXCEPT ![p] = answer]
    BY <2>1, <2>4
  <2> QED BY <2>1, <2>3, <2>5, <2>6
<1>2. CASE PlaceLost(p, kind) \/ Post(p, kind)
  <2>1. PICK r \in Acceptable(kind) : truth' = [truth EXCEPT ![p] = r]
    BY <1>2 DEF PlaceLost, Post
  <2>2. client' = client
    BY <1>2 DEF PlaceLost, Post
  <2>3. Sound(r) /\ Sound(r)' /\ r.state # "none"
    BY <2>2, AcceptableIsSound
  <2> QED BY <1>2, <2>1, <2>3 DEF PlaceLost, Post
<1> QED BY <1>1, <1>2 DEF PlaceStep

(* A new order has not been looked up.                                     *)
LEMMA NewIsUnknown ==
  ASSUME IInv, NEW p \in Orders, New(p)
  PROVE  /\ told[p] = Nothing /\ index[p] = NoOrder /\ asked[p] = NothingAsked
         /\ p \notin listed \cup due \cup vouched
         /\ truth[p].state = "none"
<1>1. truth[p].state = "none"
  BY DEF New, NoOrder, Order
<1> QED BY <1>1 DEF IInv, OrdersExist, AskedLags, IndexLags, Before, New

(* Placing an order preserves the invariant: the others are as they were,  *)
(* and of the new one nothing was known.                                   *)
LEMMA PlacePreserves ==
  ASSUME IInv, NEW p \in Orders, NEW kind, PlaceStep(p, kind)
  PROVE  IInv'
<1>1. PICK r : Sound(r) /\ Sound(r)' /\ r.state # "none" /\ truth' = [truth EXCEPT ![p] = r]
  BY PlaceChanges
<1>2. New(p)
  BY PlaceChanges
<1>3. UNCHANGED <<client, index, asked, sweepVars, historyVars>> /\ posted' \in {posted, posted \cup {p}}
  BY PlaceChanges
<1>4. /\ told[p] = Nothing /\ index[p] = NoOrder /\ asked[p] = NothingAsked
      /\ p \notin listed \cup due \cup vouched
      /\ truth[p].state = "none"
  BY <1>2, NewIsUnknown
<1>5. truth \in [Orders -> OrderRecords] /\ r \in OrderRecords
  BY <1>1 DEF IInv, TypeOK, Sound
<1>6. truth'[p] = r /\ \A o \in Orders : o # p => truth'[o] = truth[o]
  BY <1>1, <1>5
<1>7. \A o \in Orders : o # p => told'[o] = told[o] /\ (o \in posted' <=> o \in posted)
  BY <1>3, PlaceChanges DEF IInv, TypeOK
<1>8. \/ told'[p] = Nothing
      \/ p \notin posted' /\ told'[p].by = "place"
  <2>1. \/ told' = told
        \/ \E answer \in [status : {"OPEN", "FILLED"}, filled : 0 .. Qty, by : {"place"}] :
             told' = [told EXCEPT ![p] = answer] /\ posted' = posted /\ ~ LooksUp
    BY PlaceChanges
  <2>2. CASE told' = told
    BY <1>4, <2>2
  <2>3. CASE told' # told
    <3>1. PICK answer \in [status : {"OPEN", "FILLED"}, filled : 0 .. Qty, by : {"place"}] :
             told' = [told EXCEPT ![p] = answer] /\ posted' = posted /\ ~ LooksUp
      BY <2>1, <2>3
    <3>2. told'[p] = answer
      BY <3>1 DEF IInv, TypeOK
    <3>3. p \notin posted
      BY <3>1 DEF IInv, PostedLooksUp
    <3> QED BY <3>1, <3>2, <3>3
  <2> QED BY <2>2, <2>3
<1>9. TypeOK'
  <2>1. told' \in [Orders -> [status : {"unknown", "OPEN"} \cup Final, filled : 0 .. Qty,
                              by : {"nobody", "place", "poll"}]]
    BY PlaceChanges DEF IInv, TypeOK, Final
  <2>2. truth' \in [Orders -> OrderRecords]
    BY <1>1, <1>5
  <2> QED BY <1>3, <2>1, <2>2 DEF IInv, TypeOK, sweepVars, historyVars
<1>10. \A q : Sound(q)' <=> Sound(q)
  BY <1>3 DEF Sound, Expires
<1>11. IndexLags'
  BY <1>1, <1>3, <1>4, <1>6, <1>10 DEF IInv, IndexLags, Before
<1>12. OrdersExist'
  <2>1. listed' \cup due' \cup vouched' = listed \cup due \cup vouched
    BY <1>3 DEF sweepVars, historyVars
  <2>2. OrdersExist /\ truth'[p].state # "none"
    BY <1>1, <1>6 DEF IInv
  <2>3. told'[p] # Nothing => p \notin posted'
    BY <1>8 DEF Nothing, Answer
  <2> QED BY ONLY <1>4, <1>6, <1>7, <2>1, <2>2, <2>3 DEF OrdersExist
<1>13. AskedLags'
  <2>1. TwoSources' = TwoSources
    BY <1>3 DEF TwoSources
  <2>2. \A o \in Orders : o # p => (Over(o)' <=> Over(o))
    BY <1>6 DEF Over
  <2>3. NotAsked # NoOrder
    BY DEF NotAsked, NoOrder, Order
  <2> QED BY <1>3, <1>4, <1>6, <1>7, <1>10, <2>1, <2>2, <2>3
          DEF IInv, AskedLags, NothingAsked
<1>14. PolledIsTrue'
  BY <1>6, <1>7, <1>8 DEF IInv, PolledIsTrue, Nothing, Answer
<1>15. FinalWasOver'
  BY <1>3, <1>6, <1>7, <1>8 DEF IInv, FinalWasOver, TwoSources, Over, Nothing, Answer
<1>16. SweepIsThorough'
  BY <1>3, <1>4, <1>6 DEF IInv, SweepIsThorough, Over, sweepVars, historyVars, TypeOK
<1>17. PostedLooksUp'
  <2>1. \/ posted' = posted
        \/ LooksUp
    BY PlaceChanges, <1>3 DEF PlaceStep, PlaceAnswered, PlaceLost, Post
  <2> QED BY <1>3, <2>1 DEF IInv, PostedLooksUp, LooksUp
<1> QED BY <1>9, <1>11, <1>12, <1>13, <1>14, <1>15, <1>16, <1>17 DEF IInv

-----------------------------------------------------------------------------
(* Looking orders up.                                                      *)

(* When neither the order nor its index entry changes, and nothing is      *)
(* asked, only what is told of one order has to be true.                   *)
LEMMA TellingPreserves ==
  ASSUME IInv, NEW p \in Orders,
         NEW answer \in [status : {"unknown", "OPEN"} \cup Final, filled : 0 .. Qty,
                         by : {"nobody", "place", "poll"}],
         told' = [told EXCEPT ![p] = answer],
         answer # Nothing, truth[p].state # "none",
         UNCHANGED <<client, truth, index, sweepVars, historyVars>>,
         posted' = posted \ {p},
         \/ asked' = asked
         \/ asked' = [asked EXCEPT ![p] = NothingAsked],
         answer.by = "poll" =>
           /\ answer.filled <= truth[p].done
           /\ answer.status = "FILLED" => truth[p].state = "filled"
           /\ answer.status \in Final =>
                /\ Over(p)
                /\ IF TwoSources THEN asked'[p].live \in {NoOrder, NotAsked}
                                 ELSE index[p].state \in Ended
  PROVE  IInv'
<1>1. /\ told'[p] = answer
      /\ \A o \in Orders : o # p => told'[o] = told[o]
  BY DEF IInv, TypeOK
<1>2. \A o \in Orders : asked'[o] \in {asked[o], NothingAsked}
  BY DEF IInv, TypeOK
<1>3. TypeOK'
  <2>1. asked' \in [Orders -> [live : Found, arch : Found]]
    BY DEF IInv, TypeOK, NothingAsked, Found
  <2>2. told' \in [Orders -> [status : {"unknown", "OPEN"} \cup Final, filled : 0 .. Qty,
                              by : {"nobody", "place", "poll"}]]
    BY DEF IInv, TypeOK
  <2> QED BY <2>1, <2>2 DEF IInv, TypeOK, sweepVars, historyVars
<1>4. /\ \A q : Sound(q)' <=> Sound(q)
      /\ TwoSources' = TwoSources /\ LooksUp' = LooksUp
      /\ \A o \in Orders : Over(o)' <=> Over(o)
  BY DEF Sound, Expires, TwoSources, LooksUp, Over
<1>5. IndexLags'
  BY <1>4 DEF IInv, IndexLags
<1>6. OrdersExist'
  BY <1>1 DEF IInv, OrdersExist, sweepVars, historyVars
<1>7. AskedLags'
  <2>1. NotAsked # NoOrder /\ NothingAsked.live = NotAsked /\ NothingAsked.arch = NotAsked
    BY DEF NotAsked, NoOrder, NothingAsked, Order
  <2> QED BY <1>1, <1>2, <1>4, <2>1 DEF IInv, AskedLags
<1>8. PolledIsTrue'
  BY <1>1 DEF IInv, PolledIsTrue
<1>9. FinalWasOver'
  <2>1. NothingAsked.live = NotAsked
    BY DEF NothingAsked
  <2> QED BY <1>1, <1>2, <1>4, <2>1 DEF IInv, FinalWasOver
<1>10. SweepIsThorough'
  BY <1>4 DEF IInv, TypeOK, SweepIsThorough, sweepVars, historyVars
<1>11. PostedLooksUp'
  BY <1>4 DEF IInv, PostedLooksUp
<1> QED BY <1>3, <1>5, <1>6, <1>7, <1>8, <1>9, <1>10, <1>11 DEF IInv

(* A lookup by id, after placing or by get_order of a client with one      *)
(* source, tells the truth of its index.                                   *)
LEMMA LookupPreserves ==
  ASSUME IInv, NEW p \in Orders, NEW by \in {"place", "poll"},
         ~ TwoSources, index[p] # NoOrder,
         told' = [told EXCEPT ![p] = LookedUp(index[p], by)],
         posted' = posted \ {p},
         UNCHANGED <<client, truth, index, asked, sweepVars, historyVars>>
  PROVE  IInv'
<1> DEFINE r == index[p]
<1>1. Sound(r) /\ Before(r, truth[p]) /\ r \in OrderRecords /\ client \in Clients
  BY DEF IInv, IndexLags, Sound, TypeOK
<1>2. r.state # "none"
  BY <1>1 DEF Sound, OrderRecords, NoOrder, Order
<1>3. LookedUp(r, by) \in [status : {"OPEN"} \cup Final, filled : 0 .. Qty, by : {by}]
  BY <1>1, AnswersTyped
<1>4. /\ LookedUp(r, by).filled <= r.done
      /\ LookedUp(r, by).status = "FILLED" => r.state = "filled"
      /\ LookedUp(r, by).status \in Final <=> r.state \in Ended
  BY <1>1, <1>2, LookedUpIsTrue
<1>5. truth[p].state # "none" /\ r.done <= truth[p].done /\ (r.state \in Ended => truth[p] = r)
  BY <1>1, <1>2, ClientsAssumption DEF Before, NoOrder, Order, Ended, OrderRecords
<1>6. r.done \in 0 .. Qty /\ truth[p].done \in 0 .. Qty
  BY <1>1 DEF OrderRecords, IInv, TypeOK
<1> DEFINE answer == LookedUp(r, by)
<1>7. /\ answer \in [status : {"unknown", "OPEN"} \cup Final, filled : 0 .. Qty,
                     by : {"nobody", "place", "poll"}]
      /\ answer # Nothing /\ answer.filled \in 0 .. Qty
  BY <1>3 DEF Nothing, Answer
<1>8. /\ answer.filled <= truth[p].done
      /\ answer.status = "FILLED" => truth[p].state = "filled"
      /\ answer.status \in Final => Over(p) /\ index[p].state \in Ended
  BY <1>4, <1>5, <1>6, <1>7 DEF Over, Ended
<1> HIDE DEF answer
<1>9. told' = [told EXCEPT ![p] = answer]
  BY DEF answer
<1> QED BY <1>5, <1>7, <1>8, <1>9, TellingPreserves

(* The end of limit_order and market_order of the clients that look up.    *)
LEMMA ConfirmPreserves ==
  ASSUME IInv, NEW p \in Orders, Confirm(p)
  PROVE  IInv'
<1>1. ~ TwoSources
  BY DEF Confirm, IInv, PostedLooksUp, LooksUp, TwoSources
<1>2. CASE index[p] # NoOrder
  BY <1>1, <1>2, LookupPreserves DEF Confirm
<1>3. CASE index[p] = NoOrder
  <2>1. /\ UNCHANGED <<client, truth, index, told, asked, sweepVars, historyVars>>
        /\ posted' \subseteq posted
    BY <1>3 DEF Confirm
  <2>2. /\ \A q : Sound(q)' <=> Sound(q)
        /\ TwoSources' = TwoSources /\ LooksUp' = LooksUp
        /\ \A o \in Orders : Over(o)' <=> Over(o)
    BY <2>1 DEF Sound, Expires, TwoSources, LooksUp, Over
  <2>3. TypeOK' /\ PostedLooksUp' /\ OrdersExist'
    BY <2>1, <2>2 DEF IInv, TypeOK, PostedLooksUp, OrdersExist, sweepVars, historyVars
  <2>4. IndexLags' /\ AskedLags'
    BY <2>1, <2>2 DEF IInv, IndexLags, AskedLags
  <2>5. PolledIsTrue' /\ FinalWasOver'
    BY <2>1, <2>2 DEF IInv, PolledIsTrue, FinalWasOver
  <2>6. SweepIsThorough'
    BY <2>1, <2>2 DEF IInv, TypeOK, SweepIsThorough, sweepVars, historyVars
  <2> QED BY <2>3, <2>4, <2>5, <2>6 DEF IInv
<1> QED BY <1>2, <1>3

(* get_order with one source.                                              *)
LEMMA PollOnePreserves ==
  ASSUME IInv, NEW p \in Orders, PollOne(p), index[p] # NoOrder
  PROVE  IInv'
<1>1. p \notin posted
  BY DEF PollOne, Known, IInv, OrdersExist
<1>2. posted' = posted \ {p}
  BY <1>1 DEF PollOne
<1> QED BY <1>2, LookupPreserves DEF PollOne

(* get_order with two, once both have answered.                            *)
LEMMA PollBothPreserves ==
  ASSUME IInv, NEW p \in Orders, PollBoth(p)
  PROVE  IInv'
<1> DEFINE a == asked[p]
<1>1. /\ TwoSources /\ told[p] # Nothing /\ client \in {"nado", "rise"}
      /\ a.live # NotAsked /\ NotAsked # NoOrder
      /\ a.arch # NotAsked \/ (client = "rise" /\ a.live # NoOrder)
  <2>1. a # NothingAsked
    BY DEF PollBoth, NothingAsked
  <2> QED BY <2>1 DEF PollBoth, IInv, AskedLags, TwoSources, NotAsked, NoOrder, Order
<1>2. p \notin posted /\ truth[p].state # "none"
  BY <1>1 DEF IInv, OrdersExist
<1>3. /\ asked' = [asked EXCEPT ![p] = NothingAsked] /\ asked'[p].live = NotAsked
      /\ posted' = posted \ {p}
      /\ UNCHANGED <<client, truth, index, sweepVars, historyVars>>
  BY <1>2 DEF PollBoth, IInv, TypeOK, NothingAsked
<1>4. truth[p] \in OrderRecords /\ truth[p].done \in 0 .. Qty /\ Sound(truth[p])
  BY DEF IInv, TypeOK, IndexLags, OrderRecords
<1>5. CASE a.live # NoOrder
  <2>1. Sound(a.live) /\ a.live.state = "open" /\ a.live.done <= truth[p].done
    BY <1>1, <1>5 DEF IInv, AskedLags
  <2>2. a.live.done \in 0 .. Qty
    BY <2>1 DEF Sound, OrderRecords
  <2> DEFINE answer == Answer("OPEN", a.live.done, "poll")
  <2>3. told' = [told EXCEPT ![p] = answer]
    <3>1. CASE client = "nado"
      BY <1>5, <3>1 DEF PollBoth, NadoAnswer
    <3>2. CASE client = "rise"
      BY <1>5, <3>2, <2>1 DEF PollBoth, RiseAnswer, RiseStatus
    <3> QED BY <1>1, <3>1, <3>2
  <2>4. /\ answer \in [status : {"unknown", "OPEN"} \cup Final, filled : 0 .. Qty,
                       by : {"nobody", "place", "poll"}]
        /\ answer # Nothing /\ answer.filled <= truth[p].done /\ answer.status = "OPEN"
    BY <2>1, <2>2 DEF Answer, Nothing
  <2> HIDE DEF answer
  <2> QED BY <1>2, <1>3, <2>3, <2>4, TellingPreserves DEF Final
<1>6. CASE a.live = NoOrder /\ a.arch # NoOrder
  <2>1. Sound(a.arch) /\ Before(a.arch, truth[p]) /\ Over(p)
        /\ (client = "rise" => a.arch.state # "open")
    BY <1>1, <1>6 DEF IInv, AskedLags
  <2>2. a.arch.done \in 0 .. Qty /\ a.arch.state \in OrderStates /\ a.arch.state # "none"
    BY <1>6, <2>1 DEF Sound, OrderRecords, NoOrder, Order
  <2>3. a.arch.done <= truth[p].done /\ (a.arch.state # "open" => truth[p] = a.arch)
    BY <1>4, <1>6, <2>1, <2>2 DEF Before
  <2>4. CASE client = "nado"
    <3> DEFINE answer == Answer(NadoArchiveStatus(a.arch), a.arch.done, "poll")
    <3>1. told' = [told EXCEPT ![p] = answer]
      BY <1>6, <2>4 DEF PollBoth, NadoAnswer
    <3>2. answer.status = "FILLED" => truth[p].state = "filled"
      BY <2>1, <2>2, <2>3, ClientsAssumption DEF Answer, NadoArchiveStatus, Sound
    <3>3. /\ answer \in [status : {"unknown", "OPEN"} \cup Final, filled : 0 .. Qty,
                         by : {"nobody", "place", "poll"}]
          /\ answer # Nothing /\ answer.filled <= truth[p].done
      BY <2>2, <2>3 DEF Answer, Nothing, NadoArchiveStatus, Final
    <3> HIDE DEF answer
    <3> QED BY <1>1, <1>2, <1>3, <2>1, <3>1, <3>2, <3>3, TellingPreserves
  <2>5. CASE client = "rise"
    <3> DEFINE answer == Answer(RiseStatus(a.arch), a.arch.done, "poll")
    <3>1. told' = [told EXCEPT ![p] = answer]
      BY <1>6, <2>5 DEF PollBoth, RiseAnswer
    <3>2. answer.status = "FILLED" => truth[p].state = "filled"
      BY <2>1, <2>2, <2>3, <2>5 DEF Answer, RiseStatus
    <3>3. /\ answer \in [status : {"unknown", "OPEN"} \cup Final, filled : 0 .. Qty,
                         by : {"nobody", "place", "poll"}]
          /\ answer # Nothing /\ answer.filled <= truth[p].done
      BY <2>2, <2>3 DEF Answer, Nothing, RiseStatus, Final
    <3> HIDE DEF answer
    <3> QED BY <1>1, <1>2, <1>3, <2>1, <3>1, <3>2, <3>3, TellingPreserves
  <2> QED BY <1>1, <2>4, <2>5
<1>7. CASE a.live = NoOrder /\ a.arch = NoOrder
  <2> DEFINE answer == told[p]
  <2>1. told' = told /\ told \in [Orders -> [status : {"unknown", "OPEN"} \cup Final, filled : 0 .. Qty,
                                             by : {"nobody", "place", "poll"}]]
    BY <1>7 DEF PollBoth, IInv, TypeOK
  <2>2. told' = [told EXCEPT ![p] = answer]
    BY <2>1
  <2>3. answer.by = "poll" =>
          /\ answer.filled <= truth[p].done
          /\ answer.status = "FILLED" => truth[p].state = "filled"
          /\ answer.status \in Final => Over(p)
    BY DEF IInv, PolledIsTrue, FinalWasOver
  <2>4. answer \in [status : {"unknown", "OPEN"} \cup Final, filled : 0 .. Qty,
                    by : {"nobody", "place", "poll"}]
    BY <2>1
  <2> HIDE DEF answer
  <2>5. answer # Nothing
    BY <1>1 DEF answer
  <2> QED BY <1>1, <1>2, <1>3, <2>2, <2>3, <2>4, <2>5, TellingPreserves
<1> QED BY <1>5, <1>6, <1>7

(* Either of the two requests: what it hears is the order at that moment,  *)
(* or as the index has it.                                                 *)
LEMMA AskPreserves ==
  ASSUME IInv, NEW p \in Orders, AskLive(p) \/ AskArchive(p)
  PROVE  IInv'
<1>1. UNCHANGED <<client, truth, index, told, posted, sweepVars, historyVars>>
  BY DEF AskLive, AskArchive
<1>2. /\ \A q : Sound(q)' <=> Sound(q)
      /\ TwoSources' = TwoSources /\ LooksUp' = LooksUp
      /\ \A o \in Orders : Over(o)' <=> Over(o)
  BY <1>1 DEF Sound, Expires, TwoSources, LooksUp, Over
<1>3. /\ OrdersExist' /\ IndexLags' /\ PolledIsTrue' /\ PostedLooksUp'
  BY <1>1, <1>2
     DEF IInv, OrdersExist, IndexLags, PolledIsTrue, PostedLooksUp, sweepVars, historyVars
<1>4. SweepIsThorough'
  BY <1>1, <1>2 DEF IInv, TypeOK, SweepIsThorough, sweepVars, historyVars
<1>5. /\ TwoSources /\ told[p] # Nothing /\ truth[p].state # "none"
      /\ NotAsked # NoOrder /\ NothingAsked.live = NotAsked /\ NothingAsked.arch = NotAsked
  BY DEF AskLive, AskArchive, Known, IInv, OrdersExist, NotAsked, NoOrder, NothingAsked, Order
<1>6. /\ Sound(truth[p]) /\ Sound(index[p]) /\ Before(index[p], truth[p])
      /\ truth[p] \in OrderRecords /\ index[p] \in OrderRecords
      /\ truth[p].state \in OrderStates /\ truth[p].done \in 0 .. Qty
      /\ NoOrder \in OrderRecords /\ Sound(NoOrder)
  BY ClientsAssumption DEF IInv, IndexLags, TypeOK, OrderRecords, OrderStates, NoOrder, Order, Sound
<1>7. asked \in [Orders -> [live : Found, arch : Found]]
  BY DEF IInv, TypeOK
<1>8. CASE AskLive(p)
  <2> DEFINE r == IF Open(p) THEN truth[p] ELSE NoOrder
  <2>1. /\ asked' = [asked EXCEPT ![p].live = r] /\ asked[p].live = NotAsked
        /\ r \in Found
    BY <1>6, <1>8 DEF AskLive, Found
  <2>2. /\ asked'[p] = [live |-> r, arch |-> asked[p].arch]
        /\ \A o \in Orders : o # p => asked'[o] = asked[o]
    BY <1>7, <2>1
  <2>3. r = NoOrder => Over(p)
    BY <1>5, <1>6 DEF Open, Over, OrderStates, NoOrder, Order
  <2>4. r # NoOrder => Sound(r) /\ r.state = "open" /\ r.done <= truth[p].done
    BY <1>6 DEF Open
  <2>5. TypeOK'
    <3>1. asked' \in [Orders -> [live : Found, arch : Found]]
      BY <1>7, <2>1
    <3> QED BY <1>1, <3>1 DEF IInv, TypeOK, sweepVars, historyVars
  <2>6. FinalWasOver'
    <3>1. Over(p) => r = NoOrder
      BY DEF Over, Open, Ended
    <3> HIDE DEF r
    <3> QED BY <1>1, <1>2, <2>2, <3>1 DEF IInv, FinalWasOver
  <2>7. AskedLags'
    <3>1. client = "rise" => asked[p].arch = NotAsked
      BY <1>5, <2>1 DEF IInv, AskedLags
    <3> HIDE DEF r
    <3> QED BY <1>1, <1>2, <1>5, <2>2, <2>3, <2>4, <3>1 DEF IInv, AskedLags
  <2> QED BY <1>3, <1>4, <2>5, <2>6, <2>7 DEF IInv
<1>9. CASE AskArchive(p)
  <2>1. \E r : /\ asked' = [asked EXCEPT ![p].arch = r] /\ r \in {NoOrder, index[p]}
               /\ client = "rise" => asked[p].live = NoOrder /\ r.state # "open"
    BY <1>9 DEF AskArchive, InArchive, NoOrder, Order
  <2>2. PICK r \in {NoOrder, index[p]} :
               /\ asked' = [asked EXCEPT ![p].arch = r]
               /\ client = "rise" => asked[p].live = NoOrder /\ r.state # "open"
    BY <2>1
  <2>3. /\ asked'[p] = [live |-> asked[p].live, arch |-> r]
        /\ \A o \in Orders : o # p => asked'[o] = asked[o]
    BY <1>7, <2>2
  <2>4. Sound(r) /\ Before(r, truth[p])
    BY <1>6 DEF Before
  <2>5. TypeOK'
    <3>1. asked' \in [Orders -> [live : Found, arch : Found]]
      BY <1>6, <1>7, <2>2 DEF Found
    <3> QED BY <1>1, <3>1 DEF IInv, TypeOK, sweepVars, historyVars
  <2>6. FinalWasOver'
    BY <1>1, <1>2, <2>3 DEF IInv, FinalWasOver
  <2>7. AskedLags'
    BY <1>1, <1>2, <1>5, <2>2, <2>3, <2>4 DEF IInv, AskedLags
  <2> QED BY <1>3, <1>4, <2>5, <2>6, <2>7 DEF IInv
<1> QED BY <1>8, <1>9

(* The index catches up.                                                   *)
LEMMA FollowPreserves ==
  ASSUME IInv, NEW p \in Orders, Follow(p)
  PROVE  IInv'
<1>1. UNCHANGED <<client, truth, told, posted, asked, sweepVars, historyVars>>
  BY DEF Follow
<1>2. /\ \A q : Sound(q)' <=> Sound(q)
      /\ TwoSources' = TwoSources /\ LooksUp' = LooksUp
      /\ \A o \in Orders : Over(o)' <=> Over(o)
  BY <1>1 DEF Sound, Expires, TwoSources, LooksUp, Over
<1>3. OrdersExist' /\ PolledIsTrue' /\ PostedLooksUp'
  BY <1>1, <1>2 DEF IInv, OrdersExist, PolledIsTrue, PostedLooksUp, sweepVars, historyVars
<1>4. SweepIsThorough' /\ AskedLags'
  BY <1>1, <1>2 DEF IInv, TypeOK, SweepIsThorough, AskedLags, sweepVars, historyVars
<1>5. /\ index'[p] = truth[p]
      /\ \A o \in Orders : o # p => index'[o] = index[o]
      /\ index' \in [Orders -> OrderRecords]
  BY DEF Follow, IInv, TypeOK
<1>6. TypeOK'
  BY <1>1, <1>5 DEF IInv, TypeOK, sweepVars, historyVars
<1>7. IndexLags'
  BY <1>1, <1>2, <1>5 DEF IInv, IndexLags, Before
<1>8. FinalWasOver'
  BY <1>1, <1>2, <1>5 DEF IInv, FinalWasOver, Over
<1> QED BY <1>3, <1>4, <1>6, <1>7, <1>8 DEF IInv

-----------------------------------------------------------------------------
(* The exchange and the sweeps, which look nothing up.                     *)
LEMMA GoingOnPreserves ==
  ASSUME IInv, UNCHANGED <<client, index, told, posted, asked>>,
         \A o \in Orders : Sound(truth[o])' /\ Onward(truth[o], truth'[o]),
         truth' \in [Orders -> OrderRecords],
         sweeping' \in BOOLEAN, refused' \subseteq Orders,
         \A o \in listed' \cup due' \cup vouched' : o \in Orders /\ truth[o].state # "none",
         SweepIsThorough'
  PROVE  IInv'
<1>1. Lookups'
  BY OrdersGoOn
<1>2. TypeOK'
  BY DEF IInv, TypeOK
<1>3. OrdersExist'
  <2>1. \A o \in Orders : truth[o].state # "none" => truth'[o].state # "none"
    BY DEF Onward
  <2> QED BY <2>1 DEF IInv, OrdersExist
<1>4. PostedLooksUp'
  BY DEF IInv, PostedLooksUp, LooksUp
<1> QED BY <1>1, <1>2, <1>3, <1>4 DEF IInv, Lookups

LEMMA ExchangePreserves ==
  ASSUME IInv, NEW p \in Orders, Execute(p) \/ EndOrder(p)
  PROVE  IInv'
<1>1. /\ UNCHANGED <<client, index, told, posted, asked, sweepVars, historyVars>>
      /\ \A o \in Orders : Sound(truth[o])' /\ Onward(truth[o], truth'[o])
  BY ExecutingMoves, EndingMoves DEF Execute, EndOrder
<1>2. truth' \in [Orders -> OrderRecords]
  <2>1. truth' = [o \in Orders |-> truth'[o]]
    BY DEF Execute, EndOrder, IInv, TypeOK
  <2>2. \A o \in Orders : truth'[o] \in OrderRecords
    BY <1>1 DEF Sound
  <2> QED BY <2>1, <2>2
<1>3. SweepIsThorough'
  <2>1. \A o \in Orders : Over(o) => Over(o)'
    BY <1>1 DEF Over, Onward, Ended
  <2> QED BY <1>1, <2>1 DEF IInv, TypeOK, SweepIsThorough, sweepVars, historyVars
<1>4. sweeping' \in BOOLEAN /\ \A o \in listed' \cup due' \cup vouched' : o \in Orders /\ truth[o].state # "none"
  BY <1>1 DEF IInv, TypeOK, OrdersExist, sweepVars, historyVars
<1>5. refused' \subseteq Orders
  BY <1>1 DEF IInv, TypeOK, historyVars
<1> QED BY <1>1, <1>2, <1>3, <1>4, <1>5, GoingOnPreserves

(* One step of canceling: of the orders S, with what is then listed and    *)
(* what is vouched for or has been refused.                                *)
LEMMA CancelingPreserves ==
  ASSUME IInv, NEW S, truth' = Canceled(S),
         UNCHANGED <<client, index, told, posted, asked>>,
         sweeping' \in BOOLEAN,
         listed' \subseteq listed, due' \subseteq due, refused' \subseteq Orders,
         \A o \in vouched' : o \in Orders /\ truth[o].state # "none",
         \A o \in due' : Over(o) \/ o \in S \/ o \in listed' \cup refused',
         \A o \in vouched' : Over(o) \/ o \in S \/ o \in refused'
  PROVE  IInv'
<1>1. \A o \in Orders :
           /\ Sound(truth[o])' /\ Onward(truth[o], truth'[o])
           /\ o \in S /\ truth[o].state # "none" => Over(o)'
  BY CancelingMoves
<1>2. truth' \in [Orders -> OrderRecords]
  <2>1. truth' = [o \in Orders |-> truth'[o]]
    BY DEF Canceled
  <2>2. \A o \in Orders : truth'[o] \in OrderRecords
    BY <1>1 DEF Sound
  <2> QED BY <2>1, <2>2
<1>3. \A o \in listed' \cup due' \cup vouched' : o \in Orders /\ truth[o].state # "none"
  BY DEF IInv, TypeOK, OrdersExist
<1>4. SweepIsThorough'
  <2>1. \A o \in Orders : Over(o) => Over(o)'
    BY <1>1 DEF Over, Onward, Ended
  <2> QED BY <1>1, <1>3, <2>1 DEF SweepIsThorough
<1> QED BY <1>1, <1>2, <1>3, <1>4, GoingOnPreserves

(* Nothing is canceled when nothing is.                                    *)
LEMMA CancelNothing ==
  ASSUME IInv
  PROVE  truth = Canceled({})
BY DEF IInv, TypeOK, Canceled

LEMMA CancelOrderPreserves ==
  ASSUME IInv, NEW p \in Orders, CancelOrder(p)
  PROVE  IInv'
<1>1. truth[p].state # "none"
  BY DEF CancelOrder, Known, IInv, OrdersExist
<1>2. /\ vouched' \subseteq vouched \cup {p}
      /\ UNCHANGED <<client, index, told, posted, asked, sweepVars>>
  BY DEF CancelOrder
<1>3. /\ \A o \in vouched' : o \in Orders /\ truth[o].state # "none"
      /\ listed' = listed /\ due' = due /\ sweeping' \in BOOLEAN
      /\ refused \subseteq Orders
  BY <1>1, <1>2 DEF IInv, TypeOK, OrdersExist, sweepVars, historyVars
<1>4. CASE truth' = Canceled({p}) /\ refused' = refused
  <2>1. /\ \A o \in due' : Over(o) \/ o \in {p} \/ o \in listed' \cup refused'
        /\ \A o \in vouched' : Over(o) \/ o \in {p} \/ o \in refused'
    BY <1>2, <1>3, <1>4 DEF IInv, SweepIsThorough
  <2> QED BY <1>2, <1>3, <1>4, <2>1, CancelingPreserves
<1>5. CASE truth' = truth /\ refused' = refused \cup {p}
  <2>1. truth' = Canceled({})
    BY <1>5, CancelNothing
  <2>2. /\ \A o \in due' : Over(o) \/ o \in {} \/ o \in listed' \cup refused'
        /\ \A o \in vouched' : Over(o) \/ o \in {} \/ o \in refused'
    BY <1>2, <1>3, <1>5 DEF IInv, SweepIsThorough
  <2>3. refused' \subseteq Orders
    BY <1>3, <1>5
  <2> QED BY <1>2, <1>3, <2>1, <2>2, <2>3, CancelingPreserves
<1> QED BY <1>4, <1>5 DEF CancelOrder

(* What an answered request to cancel orders leaves: the others canceled,  *)
(* and those it has kept known as refused.                                 *)
LEMMA AnsweredPreserves ==
  ASSUME IInv, NEW S \in SUBSET Orders, CancelAnswered(S),
         UNCHANGED <<client, index, told, posted, asked, sweeping, due, vouched>>,
         listed' \subseteq listed, \A o \in listed \ listed' : Over(o) \/ o \in S
  PROVE  IInv'
<1>1. PICK kept \in SUBSET S : truth' = Canceled(S \ kept) /\ refused' = refused \cup kept
  BY DEF CancelAnswered
<1>2. refused' \subseteq Orders /\ sweeping' \in BOOLEAN
  BY <1>1 DEF IInv, TypeOK
<1>3. \A o \in vouched' : o \in Orders /\ truth[o].state # "none"
  BY DEF IInv, TypeOK, OrdersExist
<1>4. /\ \A o \in due' : Over(o) \/ o \in S \ kept \/ o \in listed' \cup refused'
      /\ \A o \in vouched' : Over(o) \/ o \in S \ kept \/ o \in refused'
  BY <1>1 DEF IInv, SweepIsThorough
<1> QED BY <1>1, <1>2, <1>3, <1>4, CancelingPreserves

LEMMA SweepPreserves ==
  ASSUME IInv, Sweep
  PROVE  IInv'
<1> USE DEF sweepVars, historyVars
<1>0. /\ listed \subseteq Orders /\ due \subseteq Orders /\ vouched \subseteq Orders
      /\ refused \subseteq Orders /\ sweeping \in BOOLEAN /\ truth \in [Orders -> OrderRecords]
      /\ \A o \in listed \cup due \cup vouched : truth[o].state # "none"
  BY DEF IInv, TypeOK, OrdersExist
<1>1. CASE StartSweep
  <2>1. /\ UNCHANGED <<client, index, told, posted, asked, vouched, refused, truth>>
        /\ sweeping' = TRUE /\ due' = OpenOrders /\ listed' = OpenOrders
    BY <1>1 DEF StartSweep
  <2>2. \A o \in OpenOrders : o \in Orders /\ truth[o].state # "none"
    BY DEF OpenOrders, Open
  <2>3. \A o \in Orders : Sound(truth[o])' /\ Onward(truth[o], truth'[o])
    BY <2>1 DEF IInv, IndexLags, Sound, Expires, Onward
  <2>4. SweepIsThorough'
    BY <2>1 DEF IInv, SweepIsThorough, Over
  <2> QED BY <1>0, <2>1, <2>2, <2>3, <2>4, GoingOnPreserves
<1>2. ASSUME NEW p \in Orders, SweepOne(p)
      PROVE  IInv'
  <2>1. /\ listed' = listed \ {p} /\ {p} \in SUBSET Orders /\ CancelAnswered({p})
        /\ UNCHANGED <<client, index, told, posted, asked, sweeping, due, vouched>>
    BY <1>2 DEF SweepOne
  <2>2. listed' \subseteq listed /\ \A o \in listed \ listed' : Over(o) \/ o \in {p}
    BY <2>1
  <2> QED BY <2>1, <2>2, AnsweredPreserves
<1>3. CASE SweepAll
  <2> DEFINE S == IF client = "hyperliquid" THEN listed ELSE OpenOrders
  <2>1. /\ listed' = {} /\ CancelAnswered(S)
        /\ UNCHANGED <<client, index, told, posted, asked, sweeping, due, vouched>>
    BY <1>3 DEF SweepAll
  <2>2. \A o \in listed \ listed' : Over(o) \/ o \in S
    <3> SUFFICES ASSUME NEW o \in listed, ~ Over(o)
                 PROVE  o \in S
      OBVIOUS
    <3>1. Open(o)
      BY <1>0 DEF Over, Open, OrderRecords, OrderStates
    <3> QED BY <1>0, <3>1 DEF OpenOrders
  <2>3. S \in SUBSET Orders
    BY <1>0 DEF OpenOrders
  <2> HIDE DEF S
  <2> QED BY <2>1, <2>2, <2>3, AnsweredPreserves
<1>4. CASE SweepReturns
  <2>1. /\ sweeping' = FALSE /\ due' = {} /\ vouched' = vouched \cup due /\ listed = {}
        /\ UNCHANGED <<client, truth, index, told, posted, asked, listed, refused>>
    BY <1>4 DEF SweepReturns
  <2>2. truth' = Canceled({})
    BY <2>1, CancelNothing
  <2>3. \A o \in vouched' : Over(o) \/ o \in {} \/ o \in refused'
    BY <2>1 DEF IInv, SweepIsThorough
  <2> QED BY <1>0, <2>1, <2>2, <2>3, CancelingPreserves
<1>5. CASE SweepRaises
  <2>1. /\ sweeping' = FALSE /\ due' = {} /\ listed' = {}
        /\ UNCHANGED <<client, index, told, posted, asked, vouched, refused>>
    BY <1>5 DEF SweepRaises
  <2>2. \E S : S \subseteq listed /\ truth' = Canceled(S)
    BY <1>5, CancelNothing DEF SweepRaises
  <2>3. PICK S : S \subseteq listed /\ truth' = Canceled(S)
    BY <2>2
  <2>4. \A o \in vouched' : Over(o) \/ o \in S \/ o \in refused'
    BY <2>1 DEF IInv, SweepIsThorough
  <2> QED BY <1>0, <2>1, <2>3, <2>4, CancelingPreserves
<1> QED BY <1>1, <1>2, <1>3, <1>4, <1>5 DEF Sweep

-----------------------------------------------------------------------------
(* The invariant.                                                          *)
LEMMA InitInv == Init => IInv
<1> SUFFICES ASSUME Init PROVE IInv
  OBVIOUS
<1>1. Sound(NoOrder) /\ NoOrder.state = "none" /\ NoOrder # NotAsked
  <2>1. NoOrder = [state |-> "none", done |-> 0] /\ NoOrder # NotAsked
    BY DEF NoOrder, NotAsked, Order
  <2>2. NoOrder \in OrderRecords
    BY <2>1, ClientsAssumption DEF OrderRecords, OrderStates
  <2> QED BY <2>1, <2>2, ClientsAssumption DEF Sound
<1> USE DEF Init
<1>2. TypeOK
  <2>1. NoOrder \in OrderRecords /\ NothingAsked \in [live : Found, arch : Found]
    BY <1>1 DEF Sound, NothingAsked, Found
  <2>2. Nothing \in [status : {"unknown", "OPEN"} \cup Final, filled : 0 .. Qty,
                     by : {"nobody", "place", "poll"}]
    BY ClientsAssumption DEF Nothing, Answer
  <2> QED BY <2>1, <2>2 DEF TypeOK
<1>3. IndexLags /\ OrdersExist /\ PostedLooksUp
  <2>1. \A o \in Orders : truth[o] = NoOrder /\ index[o] = NoOrder /\ told[o] = Nothing
    OBVIOUS
  <2>2. listed = {} /\ due = {} /\ vouched = {} /\ posted = {}
    OBVIOUS
  <2>3. IndexLags
    BY <1>1, <2>1 DEF IndexLags, Before
  <2> QED BY <2>1, <2>2, <2>3 DEF OrdersExist, PostedLooksUp
<1>4. AskedLags
  BY <1>1 DEF AskedLags, NothingAsked
<1>5. PolledIsTrue /\ FinalWasOver /\ SweepIsThorough
  BY DEF PolledIsTrue, FinalWasOver, SweepIsThorough, Nothing, Answer
<1> QED BY <1>2, <1>3, <1>4, <1>5 DEF IInv

LEMMA StutterPreserves == IInv /\ UNCHANGED vars => IInv'
<1> SUFFICES ASSUME IInv, UNCHANGED vars PROVE IInv'
  OBVIOUS
<1> USE DEF vars, sweepVars, historyVars
<1>1. /\ UNCHANGED <<client, truth, index, told, posted, asked, sweeping, listed, due>>
      /\ UNCHANGED historyVars
      /\ truth' = Canceled({})
  BY CancelNothing
<1>2. /\ \A o \in due' : Over(o) \/ o \in {} \/ o \in listed' \cup refused'
      /\ \A o \in vouched' : Over(o) \/ o \in {} \/ o \in refused'
  BY <1>1 DEF IInv, SweepIsThorough
<1>3. \A o \in vouched' : o \in Orders /\ truth[o].state # "none"
  BY <1>1 DEF IInv, TypeOK, OrdersExist
<1> QED BY <1>1, <1>2, <1>3, CancelingPreserves DEF IInv, TypeOK

LEMMA NextInv == IInv /\ [Next]_vars => IInv'
<1> SUFFICES ASSUME IInv, Next PROVE IInv'
  BY StutterPreserves
<1>1. ASSUME NEW p \in Orders, Exchange(p) PROVE IInv'
  BY <1>1, ExchangePreserves, FollowPreserves DEF Exchange
<1>2. ASSUME NEW p \in Orders, Place(p) PROVE IInv'
  BY <1>2, PlacePreserves, ConfirmPreserves DEF Place, PlaceStep
<1>3. ASSUME NEW p \in Orders, Poll(p) PROVE IInv'
  <2>1. ASSUME PollOne(p), index[p] = NoOrder PROVE IInv'
    <3>1. UNCHANGED vars
      BY <2>1 DEF PollOne, vars
    <3> QED BY <3>1, StutterPreserves
  <2> QED BY <1>3, <2>1, PollOnePreserves, AskPreserves, PollBothPreserves DEF Poll
<1>4. ASSUME NEW p \in Orders, CancelOrder(p) PROVE IInv'
  BY <1>4, CancelOrderPreserves
<1>5. CASE Sweep
  BY <1>5, SweepPreserves
<1> QED BY <1>1, <1>2, <1>3, <1>4, <1>5 DEF Next

LEMMA AlwaysInv == Spec => []IInv
BY InitInv, NextInv, PTL DEF Spec

-----------------------------------------------------------------------------
(* The types hold whatever the clients, orders and sizes.                  *)
THEOREM TypeCorrect == Spec => []TypeOK
<1>1. IInv => TypeOK
  BY DEF IInv
<1> QED BY <1>1, AlwaysInv, PTL

(* What get_order of any client says of an order is true: neither the lag  *)
(* of an index nor the order of two answers can make it report executions  *)
(* that were not, or a fill that is not whole.                             *)
THEOREM PollsAreTrue == Spec => []PolledIsTrue
<1>1. IInv => PolledIsTrue
  BY DEF IInv
<1> QED BY <1>1, AlwaysInv, PTL

(* An order is off the book when cancel_order answers True for it, and     *)
(* when a cancel_all_orders returns that began after it, unless the        *)
(* exchange refused to cancel it in an answer that the client did not read.*)
THEOREM VouchedStaysOff == Spec => []VouchedIsOff
<1>1. IInv => VouchedIsOff
  BY DEF IInv, TypeOK, SweepIsThorough, VouchedIsOff, Over, Open, Ended
<1> QED BY <1>1, AlwaysInv, PTL

(* No step takes back that an order is over.                               *)
LEMMA StepKeepsFinal ==
  ASSUME IInv, [Next]_vars, NEW o \in Orders, told[o].by = "poll", told[o].status \in Final
  PROVE  told'[o].status \in Final
<1>0. /\ told[o] # Nothing /\ truth[o].state # "none" /\ o \notin posted
      /\ Over(o)
      /\ IF TwoSources THEN asked[o].live \in {NoOrder, NotAsked} ELSE index[o].state \in Ended
      /\ told \in [Orders -> [status : {"unknown", "OPEN"} \cup Final, filled : 0 .. Qty,
                              by : {"nobody", "place", "poll"}]]
  BY DEF IInv, OrdersExist, FinalWasOver, TypeOK, Nothing, Answer
<1>1. CASE told' = told
  BY <1>1
<1>2. ASSUME NEW p \in Orders, NEW kind, PlaceStep(p, kind)
      PROVE  told'[o].status \in Final
  <2>1. p # o
    BY <1>0, <1>2, PlaceChanges, NewIsUnknown
  <2> QED BY <1>0, <1>2, <2>1, PlaceChanges
<1>3. ASSUME NEW p \in Orders, Confirm(p)
      PROVE  told'[o].status \in Final
  <2>1. p # o
    BY <1>0, <1>3 DEF Confirm
  <2> QED BY <1>0, <1>3, <2>1 DEF Confirm
<1>4. ASSUME NEW p \in Orders, PollOne(p)
      PROVE  told'[o].status \in Final
  <2>1. CASE index[p] = NoOrder \/ p # o
    BY <1>0, <1>4, <2>1 DEF PollOne
  <2>2. CASE index[p] # NoOrder /\ p = o
    <3>1. told'[o] = LookedUp(index[o], "poll")
      BY <1>0, <1>4, <2>2 DEF PollOne
    <3>2. Sound(index[o]) /\ index[o].state \in Ended /\ index[o].state # "none"
          /\ client \in Clients /\ ~ TwoSources
      BY <1>0, <1>4, <2>2 DEF PollOne, IInv, IndexLags, TypeOK, Ended
    <3>3. LookedUp(index[o], "poll").status \in Final
      BY <3>2, LookedUpIsTrue
    <3> QED BY <3>1, <3>3
  <2> QED BY <2>1, <2>2
<1>5. ASSUME NEW p \in Orders, PollBoth(p)
      PROVE  told'[o].status \in Final
  <2> DEFINE a == asked[o]
  <2>1. CASE p # o \/ (a.live = NoOrder /\ a.arch = NoOrder)
    BY <1>0, <1>5, <2>1 DEF PollBoth
  <2>2. CASE p = o /\ ~ (a.live = NoOrder /\ a.arch = NoOrder)
    <3>1. /\ TwoSources /\ a.live = NoOrder /\ a.arch # NoOrder /\ a.arch # NotAsked
          /\ client \in {"nado", "rise"}
      <4>1. a # NothingAsked
        BY <1>5, <2>2 DEF PollBoth, NothingAsked
      <4>2. TwoSources
        BY <4>1 DEF IInv, AskedLags
      <4> QED BY <1>0, <1>5, <2>2, <4>2 DEF PollBoth, TwoSources
    <3>2. CASE client = "nado"
      <4>1. told'[o] = Answer(NadoArchiveStatus(a.arch), a.arch.done, "poll")
        BY <1>0, <1>5, <2>2, <3>1, <3>2 DEF PollBoth, NadoAnswer
      <4> QED BY <4>1 DEF Answer, NadoArchiveStatus, Final
    <3>3. CASE client = "rise"
      <4>1. told'[o] = Answer(RiseStatus(a.arch), a.arch.done, "poll")
        BY <1>0, <1>5, <2>2, <3>1, <3>3 DEF PollBoth, RiseAnswer
      <4>2. Sound(a.arch) /\ a.arch.state # "open"
        BY <3>1, <3>3 DEF IInv, AskedLags
      <4>3. a.arch.state \in {"filled", "canceled"}
        <5>1. a.arch.state # "none"
          BY <3>1, <4>2 DEF Sound, OrderRecords, NoOrder, Order
        <5>2. a.arch.state # "expired"
          BY <3>3, <4>2 DEF Sound, Expires
        <5> QED BY <4>2, <5>1, <5>2 DEF Sound, OrderRecords, OrderStates, Ended
      <4> QED BY <4>1, <4>3 DEF Answer, RiseStatus, Final
    <3> QED BY <3>1, <3>2, <3>3
  <2> QED BY <2>1, <2>2
<1>6. CASE UNCHANGED vars
  BY <1>1, <1>6 DEF vars
<1>7. ASSUME NEW p \in Orders, Exchange(p) \/ AskLive(p) \/ AskArchive(p) \/ CancelOrder(p)
      PROVE  told' = told
  BY <1>7 DEF Exchange, Execute, EndOrder, Follow, AskLive, AskArchive, CancelOrder
<1>8. Sweep => told' = told
  BY DEF Sweep, StartSweep, SweepOne, SweepAll, SweepReturns, SweepRaises
<1> QED BY <1>1, <1>2, <1>3, <1>4, <1>5, <1>6, <1>7, <1>8 DEF Next, Place, PlaceStep, Poll

(* Once get_order has said that an order is over, it keeps saying so: the  *)
(* sources of each client are asked in an order in which none of them can  *)
(* show an earlier state than the one the answer was based on.             *)
THEOREM FinalIsFinal == Spec => FinalStaysFinal
<1>1. IInv /\ [Next]_vars =>
        [\A o \in Orders : told[o].by = "poll" /\ told[o].status \in Final
                             => told'[o].status \in Final]_vars
  BY StepKeepsFinal
<1> QED BY <1>1, AlwaysInv, PTL DEF Spec, FinalStaysFinal
=============================================================================
