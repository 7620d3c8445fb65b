----------------------------- MODULE LimitOrder -----------------------------
(***************************************************************************)
(* One call of fill_limit_order (src/strategy/execution.py) against an     *)
(* exchange: place a limit order, poll it, extend the wait while the book  *)
(* stands still, replace the order when the book has moved, and fall back  *)
(* to a market order when the retries are used up.                         *)
(*                                                                         *)
(* The exchange runs beside the coroutine.  It fills the order a lot at a  *)
(* time whenever it likes, in particular between the poll that reads the   *)
(* filled quantity and the cancel that is sent because of what was read.   *)
(*                                                                         *)
(* Time is counted in ticks.  Every await of the coroutine (a sleep or a   *)
(* request) takes at most MaxDelay ticks, and a sleep at least one.        *)
(***************************************************************************)
EXTENDS Integers

CONSTANTS
  Qty,             (* quantity to fill, in lots                              *)
  Timeout,         (* limit_wait, in ticks                                   *)
  MaxRetries,      (* limit_wait_retries                                     *)
  MarketFallback,  (* limit_market_fallback                                  *)
  MaxDelay,        (* longest await, in ticks                                *)
  MaxNow           (* bound on the clock                                     *)

ASSUME ParamsAssumption ==
  /\ Qty \in Nat \ {0}
  /\ Timeout \in Nat
  /\ MaxRetries \in Nat
  /\ MarketFallback \in BOOLEAN
  /\ MaxDelay \in Nat \ {0}
  /\ MaxNow \in Nat

VARIABLES
  pc,           (* what the coroutine is waiting for                         *)
  now,          (* the clock                                                 *)
  acted,        (* when the coroutine last ran                               *)
  started,      (* LimitOrderWaitState.order_started_at                      *)
  windowAt,     (* LimitOrderWaitState.wait_window_started_at                *)
  filledSince,  (* filled_since, or Never                                    *)
  extensions,   (* LimitOrderWaitState.wait_extensions                       *)
  seen,         (* order.filled as of the last poll                          *)
  book,         (* the current order on the exchange                         *)
  size,         (* its size: the quantity of the last request                *)
  filled,       (* its filled quantity                                       *)
  staleFilled,  (* filled quantity of this call's earlier orders             *)
  staleOpen,    (* quantity of earlier orders that still rests on the book   *)
  refused,      (* history: some cancel left a live order on the book        *)
  unseen        (* history: quantity of earlier orders executed, or left to  *)
                (* execute, after the last poll that looked at them          *)

clockVars == <<acted, started, windowAt, filledSince, extensions>>
orderVars == <<book, size, filled>>
staleVars == <<staleFilled, staleOpen, refused, unseen>>
vars == <<pc, now, clockVars, seen, orderVars, staleVars>>

Never == -1

Waiting == {"place", "sleep", "poll", "price", "repriceCancel", "replace",
            "fallbackCancel", "market"}
Ended == {"returned", "raised"}

-----------------------------------------------------------------------------
(* Reading the state.                                                      *)

CanRetry == extensions < MaxRetries

TimeoutStartedAt(since) == IF since = Never THEN windowAt ELSE since

(* filled_since as of a poll that finds the order open.                    *)
FilledSinceNow == IF filled > 0 /\ filledSince = Never THEN now ELSE filledSince

Elapsed == now - started

(* Broken: the replacement asks for the whole size again.                  *)
RemainingIsSize == size

Remaining == size - seen

-----------------------------------------------------------------------------
Init ==
  /\ pc = "place"
  /\ now = 0
  /\ acted = 0
  /\ started = 0
  /\ windowAt = 0
  /\ filledSince = Never
  /\ extensions = 0
  /\ seen = 0
  /\ book = "none"
  /\ size = Qty
  /\ filled = 0
  /\ staleFilled = 0
  /\ staleOpen = 0
  /\ refused = FALSE
  /\ unseen = 0

(* The coroutine runs, and its next await begins.                          *)
Goto(from, to) ==
  /\ pc = from
  /\ pc' = to
  /\ acted' = now

-----------------------------------------------------------------------------
(* The exchange and the clock.                                             *)

Tick ==
  /\ pc \in Waiting
  /\ now < MaxNow
  /\ now - acted < MaxDelay
  /\ now' = now + 1
  /\ UNCHANGED <<pc, clockVars, seen, orderVars, staleVars>>

Fill ==
  /\ book = "live"
  /\ filled' = filled + 1
  /\ book' = IF filled' = size THEN "filled" ELSE "live"
  /\ UNCHANGED <<pc, now, clockVars, seen, size, staleVars>>

FillStale ==
  /\ staleOpen > 0
  /\ staleOpen' = staleOpen - 1
  /\ staleFilled' = staleFilled + 1
  /\ UNCHANGED <<pc, now, clockVars, seen, orderVars, refused, unseen>>

ExchangeCancels ==
  /\ book = "live"
  /\ book' = "canceled"
  /\ UNCHANGED <<pc, now, clockVars, seen, size, filled, staleVars>>

-----------------------------------------------------------------------------
(* Placing an order.  limit_order answers with an open order or with one   *)
(* that is already filled; the first placement also starts the clocks.     *)

Rests == book' = "live" /\ filled' = 0

FillsAtOnce == book' = "filled" /\ filled' = size

Place ==
  /\ \/ Goto("place", "sleep") /\ Rests
     \/ Goto("place", "returned") /\ FillsAtOnce
  /\ started' = now
  /\ windowAt' = now
  /\ UNCHANGED <<now, filledSince, extensions, seen, size, staleVars>>

(* The replacement starts with an empty filled_since; the window it runs   *)
(* in was opened by mark_repriced, before the cancel.                      *)
Replace ==
  /\ \/ Goto("replace", "sleep") /\ Rests
     \/ Goto("replace", "returned") /\ FillsAtOnce
  /\ filledSince' = Never
  /\ UNCHANGED <<now, started, windowAt, extensions, seen, size, staleVars>>

-----------------------------------------------------------------------------
(* The poll loop.                                                          *)

Wake ==
  /\ now > acted
  /\ Goto("sleep", "poll")
  /\ UNCHANGED <<now, started, windowAt, filledSince, extensions, seen,
                 orderVars, staleVars>>

(* get_order answers None: the order is in neither the live book nor the   *)
(* archive yet, whatever its state.                                        *)
PollNothing ==
  /\ Goto("poll", IF Elapsed > Timeout THEN "raised" ELSE "sleep")
  /\ UNCHANGED <<now, started, windowAt, filledSince, extensions, seen,
                 orderVars, staleVars>>

(* Broken: any fill is taken for a complete one.                           *)
PollEndedOnAnyFill ==
  /\ \/ filled > 0 /\ Goto("poll", "returned")
     \/ book = "canceled" /\ Goto("poll", "raised")
  /\ seen' = filled
  /\ UNCHANGED <<now, started, windowAt, filledSince, extensions, orderVars,
                 staleVars>>

PollEnded ==
  /\ \/ book = "filled" /\ Goto("poll", "returned")
     \/ book = "canceled" /\ Goto("poll", "raised")
  /\ seen' = filled
  /\ UNCHANGED <<now, started, windowAt, filledSince, extensions, orderVars,
                 staleVars>>

PollOpen ==
  /\ book = "live"
  /\ seen' = filled
  /\ filledSince' = FilledSinceNow
  /\ Goto("poll", IF now - TimeoutStartedAt(FilledSinceNow) > Timeout
                  THEN "price" ELSE "sleep")
  /\ UNCHANGED <<now, started, windowAt, extensions, orderVars, staleVars>>

-----------------------------------------------------------------------------
(* The wait is over: get_bbo answers, and the drift from the limit price   *)
(* is within _LIMIT_PRICE_DRIFT_PCT or beyond it.                          *)

(* Broken: the extension is not counted.                                   *)
ExtendUncounted ==
  /\ CanRetry
  /\ Goto("price", "sleep")
  /\ windowAt' = now
  /\ filledSince' = Never
  /\ UNCHANGED <<now, started, extensions, seen, orderVars, staleVars>>

ExtendBboStable ==
  /\ CanRetry
  /\ Goto("price", "sleep")
  /\ extensions' = extensions + 1
  /\ windowAt' = now
  /\ filledSince' = Never
  /\ UNCHANGED <<now, started, seen, orderVars, staleVars>>

StartReprice ==
  /\ CanRetry
  /\ Goto("price", "repriceCancel")
  /\ extensions' = extensions + 1
  /\ windowAt' = now
  /\ UNCHANGED <<now, started, filledSince, seen, orderVars, staleVars>>

RetriesExhausted ==
  /\ ~CanRetry
  /\ Goto("price", "fallbackCancel")
  /\ UNCHANGED <<now, started, windowAt, filledSince, extensions, seen,
                 orderVars, staleVars>>

-----------------------------------------------------------------------------
(* cancel_order, whose answer the code does not read: it takes the order   *)
(* off the book, or finds it gone, or is refused and leaves it there.  The *)
(* order then belongs to the past, and what is still wanted is computed    *)
(* from the filled quantity of the last poll.                              *)

StillOpen == IF book = "live" THEN size - filled ELSE 0

CancelOrder(leftOpen) ==
  /\ refused' = (refused \/ leftOpen > 0)
  /\ staleFilled' = staleFilled + filled
  /\ staleOpen' = staleOpen + leftOpen
  /\ unseen' = unseen + (filled - seen) + leftOpen
  /\ size' = Remaining
  /\ seen' = 0
  /\ filled' = 0
  /\ book' = "none"

RepriceCancel ==
  /\ \E leftOpen \in {0, StillOpen} : CancelOrder(leftOpen)
  /\ Goto("repriceCancel", IF Remaining > 0 THEN "replace" ELSE "returned")
  /\ UNCHANGED <<now, started, windowAt, filledSince, extensions>>

FallbackCancel ==
  /\ \E leftOpen \in {0, StillOpen} : CancelOrder(leftOpen)
  /\ Goto("fallbackCancel",
          IF MarketFallback /\ Remaining > 0 THEN "market" ELSE "raised")
  /\ UNCHANGED <<now, started, windowAt, filledSince, extensions>>

(* An immediate-or-cancel order: what does not fill at once is dropped, and *)
(* the answer is returned whatever was filled.                             *)
MarketOrder ==
  /\ Goto("market", "returned")
  /\ filled' \in 0..size
  /\ book' = IF filled' = size THEN "filled" ELSE "canceled"
  /\ UNCHANGED <<now, started, windowAt, filledSince, extensions, seen, size,
                 staleVars>>

-----------------------------------------------------------------------------
(* An await raises: an API or transport error, or the task's cancellation. *)
(* The request may have been carried out all the same.                     *)

Raise ==
  /\ pc \in Waiting
  /\ pc' = "raised"
  /\ acted' = now
  /\ \/ UNCHANGED <<book, filled>>
     \/ pc \in {"place", "replace"} /\ Rests
     \/ /\ pc \in {"repriceCancel", "fallbackCancel"}
        /\ book = "live"
        /\ book' = "canceled"
        /\ UNCHANGED filled
     \/ /\ pc = "market"
        /\ filled' \in 1..size
        /\ book' = IF filled' = size THEN "filled" ELSE "canceled"
  /\ UNCHANGED <<now, started, windowAt, filledSince, extensions, seen, size,
                 staleVars>>

-----------------------------------------------------------------------------
Coroutine ==
  \/ Place \/ Replace
  \/ Wake \/ PollNothing \/ PollEnded \/ PollOpen
  \/ ExtendBboStable \/ StartReprice \/ RetriesExhausted
  \/ RepriceCancel \/ FallbackCancel \/ MarketOrder

Exchange == Fill \/ FillStale \/ ExchangeCancels

Next == Tick \/ Coroutine \/ Raise \/ Exchange

(* The event loop runs a coroutine whose await has answered, requests are  *)
(* answered (those that fail end the call at once), and time passes.  The  *)
(* exchange owes nothing: an order may rest unfilled for ever.             *)
Fairness == WF_vars(Coroutine) /\ WF_vars(Tick)

Spec == Init /\ [][Next]_vars /\ Fairness
-----------------------------------------------------------------------------
(* Correctness.                                                            *)

(* The values the variables take.                                          *)
TypeOK ==
  /\ pc \in Waiting \cup Ended
  /\ now \in 0..MaxNow /\ acted \in 0..now
  /\ started \in 0..now /\ windowAt \in 0..now
  /\ filledSince \in {Never} \cup (0..now)
  /\ extensions \in 0..MaxRetries
  /\ book \in {"none", "live", "filled", "canceled"}
  /\ size \in Nat /\ filled \in 0..size /\ seen \in 0..filled
  /\ staleFilled \in Nat /\ staleOpen \in Nat /\ unseen \in Nat
  /\ refused \in BOOLEAN

(* Whatever sequence of polls, extensions, replacements and fallback the   *)
(* call goes through, its orders together execute, or may still execute,   *)
(* at most the quantity asked for and what executed unseen between a poll  *)
(* and the cancel that followed it (_reprice_limit_order and               *)
(* _cancel_or_market_fallback order size - filled of the last snapshot).   *)
OverfillOnlyUnseen ==
  staleFilled + staleOpen + (IF book = "live" THEN size ELSE filled)
    <= Qty + unseen

(* When the call returns, other than after a market order that found too   *)
(* thin a book, its orders together have executed no less than the         *)
(* quantity asked for, unless a refused cancel left part of it resting: a  *)
(* partly filled order is never taken for done, nor what it executed       *)
(* forgotten when it is replaced.                                          *)
FilledMeansTarget ==
  pc = "returned" /\ book # "canceled"
    => staleFilled + staleOpen + filled >= Qty

(* An order of the call that it has moved on from rests on the book only   *)
(* when the exchange refused to cancel it, and a call that returns leaves  *)
(* no live last order: the trade goes on to hedge, and a lone order        *)
(* filling later would unbalance it.                                       *)
NoStrayOrder ==
  /\ staleOpen > 0 => refused
  /\ pc = "returned" => book # "live"

(* The orders of a call add up to what it was asked for: never more but    *)
(* for what slipped through, never less when it returns filled, and none   *)
(* is left behind.                                                         *)
OrdersAddUp == OverfillOnlyUnseen /\ FilledMeansTarget /\ NoStrayOrder

(* Longest stay in one wait window.  filled_since restarts the timeout     *)
(* once in it; either span is overrun by a sleep and a poll, and get_bbo   *)
(* ends the window.  Placing a replacement takes two awaits of its window, *)
(* which may be longer than the timeout itself.                            *)
Patience == IF Timeout >= 2 * MaxDelay THEN Timeout ELSE 2 * MaxDelay

Window == 2 * Patience + 5 * MaxDelay

(* The call is over, or its next window is open, in bounded time: the      *)
(* first partial fill of a window restarts the timeout once and no more.   *)
WaitBounded ==
  acted - started <= (MaxRetries + 1) * Window + 2 * MaxDelay

(* Every call returns or raises, however the exchange behaves.             *)
Ends == <>(pc \in Ended)

(* The call does what FillContract promises.                               *)
Outcome == IF pc \in Ended THEN pc ELSE "open"

FC == INSTANCE FillContract WITH
        outcome <- Outcome,
        executed <- staleFilled + filled,
        allowed <- Qty + unseen

KeepsContract == FC!Spec
=============================================================================
