----------------------------- MODULE DeltaCycle -----------------------------
(***************************************************************************)
(* DeltaStrategy.run and trade_cycle (src/strategy/cycle.py) for one group *)
(* of accounts, with DeltaTrade.open and close (src/strategy/trade.py) and *)
(* close_all: clean up, trade in cycles, clean up after a failure and back *)
(* off, and clean up and leave when the group is told to stop.             *)
(*                                                                         *)
(* Requests to several accounts run concurrently and end in any order.     *)
(* When one of them raises, asyncio.gather raises at once and the others   *)
(* go on with nobody waiting for them.                                     *)
(*                                                                         *)
(* fill_limit_order (LimitOrder) is one step here: it returns or raises,   *)
(* with any part of its quantity executed, and an order it could not       *)
(* cancel may be left resting.  A close that only reduces positions cannot *)
(* open one, so what is left of it is not recorded.                        *)
(***************************************************************************)
EXTENDS CloseAll, Sequences

CONSTANTS
  PerTrade,     (* cfg.symbols_per_trade: trades in a cycle                  *)
  UseLimit,     (* cfg.use_limit                                             *)
  MaxFailures,  (* cfg.max_failures, 0 for no limit                          *)
  MaxStreak     (* bound on the failures counted; the backoff grows no more  *)
                (* after the sixth                                           *)

ASSUME CycleAssumption ==
  /\ PerTrade \in Nat \ {0}
  /\ UseLimit \in BOOLEAN
  /\ MaxFailures \in Nat
  /\ MaxStreak \in Nat \ {0}
  /\ MaxFailures <= MaxStreak

VARIABLES
  pc,         (* where run and trade_cycle are                               *)
  why,        (* what the cleanup is for: "boot", "failure" or "stop"        *)
  failures,   (* failures in a row, as run counts them                       *)
  streak,     (* history: cycles in a row that raised                        *)
  trades,     (* the symbols of this cycle, in the order they are traded     *)
  lead,       (* the account that leads all trades of this cycle             *)
  k,          (* the trade that is being opened or closed                    *)
  success,    (* what monitor_trades returned                                *)
  awaiting,   (* legs whose answer the current gather is waiting for         *)
  stop,       (* stop_event is set                                           *)
  cancelled   (* the task has been cancelled from outside                    *)

controlVars == <<pc, why, failures, streak, trades, lead, k, success, awaiting,
                 stop, cancelled>>
vars == <<exchangeVars, sweepVars, controlVars>>

(* Inside the try of run: a failure is followed by a cleanup.              *)
Trading == {"plan", "lead", "opening", "hold", "closeLead", "closing", "report"}

(* Where the bot sits out a wait, or is about to plan the next cycle.      *)
AtRest == {"plan", "cooldown", "backoff"}

(* run has returned, given up, or let an exception out; it can do so with  *)
(* a cleanup done, or out of one.                                          *)
Over == {"returned", "crashed", "escaped", "aborted"}

Locations == Trading \cup AtRest \cup Over \cup {"boot", "cleanup"}

(* random.sample picks different symbols.                                  *)
Cycles == {chosen \in [1..PerTrade -> Symbols] :
             \A i, j \in 1..PerTrade : chosen[i] = chosen[j] => i = j}

LeadLeg == <<trades[k], lead>>
RestLegs == {<<trades[k], a>> : a \in Accounts \ {lead}}
TradeLegs == {<<trades[k], a>> : a \in Accounts}

-----------------------------------------------------------------------------
(* A group starts with what an earlier run left on the exchange.           *)
Init ==
  /\ held \in SUBSET Legs
  /\ resting \in SUBSET Legs
  /\ orphans = {} /\ closers = {} /\ unknown = {}
  /\ stage = "off" /\ attempt = 0 /\ todo = {} /\ bad = {}
  /\ pc = "boot"
  /\ why = "boot"
  /\ failures = 0 /\ streak = 0
  /\ trades \in Cycles
  /\ lead \in Accounts
  /\ k = 1
  /\ success = FALSE
  /\ awaiting = {}
  /\ stop = FALSE
  /\ cancelled = FALSE

(* The coroutine enters close_all.                                         *)
CleanUp(reason) ==
  /\ pc' = "cleanup"
  /\ why' = reason
  /\ awaiting' = {}
  /\ StartSweep

(* The except clause: the cycle has raised.                                *)
CycleFails ==
  /\ CleanUp("failure")
  /\ streak' = IF streak < MaxStreak THEN streak + 1 ELSE streak
  /\ UNCHANGED <<failures, trades, lead, k, success, stop, cancelled>>

-----------------------------------------------------------------------------
(* run: startup, and the three ends of a cleanup.                          *)

(* get_balances answers, or raises with nothing around it to catch it.     *)
Boot ==
  /\ pc = "boot"
  /\ \/ CleanUp("boot")
     \/ pc' = "escaped" /\ UNCHANGED <<why, awaiting, sweepVars>>
  /\ UNCHANGED <<exchangeVars, failures, streak, trades, lead, k, success, stop,
                 cancelled>>

Started ==
  /\ pc = "cleanup" /\ why = "boot"
  /\ SweepReturns
  /\ pc' = "plan"
  /\ UNCHANGED <<exchangeVars, why, failures, streak, trades, lead, k, success,
                 awaiting, stop, cancelled>>

Stopped ==
  /\ pc = "cleanup" /\ why = "stop"
  /\ SweepReturns
  /\ pc' = "returned"
  /\ UNCHANGED <<exchangeVars, why, failures, streak, trades, lead, k, success,
                 awaiting, stop, cancelled>>

FailuresNow == IF failures < MaxStreak THEN failures + 1 ELSE failures

Failed ==
  /\ pc = "cleanup" /\ why = "failure"
  /\ SweepReturns
  /\ failures' = FailuresNow
  /\ pc' = IF MaxFailures > 0 /\ FailuresNow >= MaxFailures
           THEN "crashed" ELSE "backoff"
  /\ UNCHANGED <<exchangeVars, why, streak, trades, lead, k, success, awaiting,
                 stop, cancelled>>

(* The shortest backoff is three minutes: every request that was in flight *)
(* when the cycle failed has been carried out or dropped by its end.       *)
BackoffOver ==
  /\ pc = "backoff"
  /\ ~stop
  /\ orphans = {} /\ closers = {}
  /\ pc' = "plan"
  /\ UNCHANGED <<exchangeVars, sweepVars, why, failures, streak, trades, lead, k,
                 success, awaiting, stop, cancelled>>

(* The wait raises CancelledError out of the except clause, and so of run. *)
BackoffInterrupted ==
  /\ pc = "backoff"
  /\ stop
  /\ pc' = "escaped"
  /\ UNCHANGED <<exchangeVars, sweepVars, why, failures, streak, trades, lead, k,
                 success, awaiting, stop, cancelled>>

(* Broken: the cooldown is slept through whatever happens.                 *)
CooldownSleptThrough ==
  /\ pc = "cooldown"
  /\ pc' = "plan"
  /\ UNCHANGED <<exchangeVars, sweepVars, why, failures, streak, trades, lead, k,
                 success, awaiting, stop, cancelled>>

CooldownOver ==
  /\ pc = "cooldown"
  /\ ~stop
  /\ pc' = "plan"
  /\ UNCHANGED <<exchangeVars, sweepVars, why, failures, streak, trades, lead, k,
                 success, awaiting, stop, cancelled>>

CooldownInterrupted ==
  /\ pc = "cooldown"
  /\ stop
  /\ CleanUp("stop")
  /\ UNCHANGED <<exchangeVars, failures, streak, trades, lead, k, success, stop,
                 cancelled>>

-----------------------------------------------------------------------------
(* trade_cycle: planning.  The cycle is skipped when too few symbols are   *)
(* tradeable, no sizes fit the balances or the entry gate stays shut; the  *)
(* lookups and the checks of the plan may raise.                           *)

(* Broken: a skipped or completed cycle leaves the count as it was.        *)
CycleReturnsKeepingCount ==
  /\ pc' = "cooldown"
  /\ streak' = 0
  /\ UNCHANGED failures

CycleReturns ==
  /\ pc' = "cooldown"
  /\ failures' = 0
  /\ streak' = 0

Skip ==
  /\ pc = "plan"
  /\ CycleReturns
  /\ UNCHANGED <<exchangeVars, sweepVars, why, trades, lead, k, success, awaiting,
                 stop, cancelled>>

PlanFails ==
  /\ pc = "plan"
  /\ CycleFails
  /\ UNCHANGED exchangeVars

(* DeltaTrade.open begins, for trade i of this cycle: the lead goes first  *)
(* with a limit order, or all legs go at once with market orders.          *)
BeginOpen(i, symbol, leader) ==
  /\ k' = i
  /\ pc' = IF UseLimit THEN "lead" ELSE "opening"
  /\ awaiting' = IF UseLimit THEN {} ELSE {<<symbol, a>> : a \in Accounts}

Plan ==
  /\ pc = "plan"
  /\ trades' \in Cycles
  /\ lead' \in Accounts
  /\ BeginOpen(1, trades'[1], lead')
  /\ UNCHANGED <<exchangeVars, sweepVars, why, failures, streak, success, stop,
                 cancelled>>

-----------------------------------------------------------------------------
(* trade_cycle: opening the trades one by one.                             *)

(* The lead's call of fill_limit_order ends, with some or nothing executed *)
(* and perhaps with an order that could not be cancelled.                  *)
LeadExecutes ==
  /\ held' \in {held, held \cup {LeadLeg}}
  /\ resting' \in {resting, resting \cup {LeadLeg}}

LeadReturns ==
  /\ pc = "lead"
  /\ LeadExecutes
  /\ pc' = "opening"
  /\ awaiting' = RestLegs
  /\ UNCHANGED <<orphans, closers, unknown, sweepVars, why, failures, streak,
                 trades, lead, k, success, stop, cancelled>>

(* It raises; the request that raised may still be under way.              *)
LeadRaises ==
  /\ pc = "lead"
  /\ LeadExecutes
  /\ orphans' \in {orphans, orphans \cup {LeadLeg}}
  /\ CycleFails
  /\ UNCHANGED <<closers, unknown>>

(* A market order is answered, with all, some or none of it executed.      *)
MarketOrderAnswered(leg) ==
  /\ pc = "opening"
  /\ leg \in awaiting
  /\ awaiting' = awaiting \ {leg}
  /\ held' \in {held, held \cup {leg}}
  /\ UNCHANGED <<resting, orphans, closers, unknown, sweepVars, pc, why, failures,
                 streak, trades, lead, k, success, stop, cancelled>>

(* A market order raises: it was refused, or carried out, or is under way. *)
(* The gather raises with it, and the other orders are left to themselves. *)
MarketOrderRaises(leg) ==
  /\ pc = "opening"
  /\ leg \in awaiting
  /\ held' \in {held, held \cup {leg}}
  /\ \E late \in SUBSET {leg} :
       orphans' = orphans \cup (awaiting \ {leg}) \cup late
  /\ CycleFails
  /\ UNCHANGED <<resting, closers, unknown>>

NextOpen ==
  /\ pc = "opening"
  /\ awaiting = {}
  /\ k < PerTrade
  /\ BeginOpen(k + 1, trades[k + 1], lead)
  /\ UNCHANGED <<exchangeVars, sweepVars, why, failures, streak, trades, lead,
                 success, stop, cancelled>>

AllOpen ==
  /\ pc = "opening"
  /\ awaiting = {}
  /\ k = PerTrade
  /\ pc' = "hold"
  /\ UNCHANGED <<exchangeVars, sweepVars, why, failures, streak, trades, lead, k,
                 success, awaiting, stop, cancelled>>

-----------------------------------------------------------------------------
(* trade_cycle: holding and closing the trades one by one.                 *)

(* DeltaTrade.close begins: after a trade that ran its time the lead may   *)
(* leave with a limit order before the others close.                       *)
BeginClosing(i, symbol, ran) ==
  /\ k' = i
  /\ pc' = IF UseLimit /\ ran THEN "closeLead" ELSE "closing"
  /\ awaiting' = IF UseLimit /\ ran THEN {} ELSE {<<symbol, a>> : a \in Accounts}

(* monitor_trades returns: the time is over, or a leg is missing or has    *)
(* drifted, a limit on the return is hit, or the group is to stop.         *)
MonitorReturns ==
  /\ pc = "hold"
  /\ success' \in BOOLEAN
  /\ BeginClosing(1, trades[1], success')
  /\ UNCHANGED <<exchangeVars, sweepVars, why, failures, streak, trades, lead,
                 stop, cancelled>>

(* A close is accepted; what it leaves open the bot does not look for.     *)
Closed(leg) ==
  \E left \in SUBSET (held \cap {leg}) :
    /\ held' = (held \ {leg}) \cup left
    /\ unknown' = Told({leg}) \cup left

LeadClosed ==
  /\ pc = "closeLead"
  /\ Closed(LeadLeg)
  /\ pc' = "closing"
  /\ awaiting' = RestLegs
  /\ UNCHANGED <<resting, orphans, closers, sweepVars, why, failures, streak,
                 trades, lead, k, success, stop, cancelled>>

LeadCloseRaises ==
  /\ pc = "closeLead"
  /\ held' \in {held, held \ {LeadLeg}}
  /\ closers' = closers \cup {LeadLeg}
  /\ CycleFails
  /\ UNCHANGED <<resting, orphans, unknown>>

PositionClosed(leg) ==
  /\ pc = "closing"
  /\ leg \in awaiting
  /\ awaiting' = awaiting \ {leg}
  /\ Closed(leg)
  /\ UNCHANGED <<resting, orphans, closers, sweepVars, pc, why, failures, streak,
                 trades, lead, k, success, stop, cancelled>>

PositionCloseRaises(leg) ==
  /\ pc = "closing"
  /\ leg \in awaiting
  /\ closers' = closers \cup awaiting
  /\ CycleFails
  /\ UNCHANGED <<held, resting, orphans, unknown>>

NextClosing ==
  /\ pc = "closing"
  /\ awaiting = {}
  /\ k < PerTrade
  /\ BeginClosing(k + 1, trades[k + 1], success)
  /\ UNCHANGED <<exchangeVars, sweepVars, why, failures, streak, trades, lead,
                 success, stop, cancelled>>

(* Broken: the report follows the first trade that is closed.              *)
AllClosedAfterOne ==
  /\ pc = "closing"
  /\ awaiting = {}
  /\ pc' = "report"
  /\ UNCHANGED <<exchangeVars, sweepVars, why, failures, streak, trades, lead, k,
                 success, awaiting, stop, cancelled>>

AllClosed ==
  /\ pc = "closing"
  /\ awaiting = {}
  /\ k = PerTrade
  /\ pc' = "report"
  /\ UNCHANGED <<exchangeVars, sweepVars, why, failures, streak, trades, lead, k,
                 success, awaiting, stop, cancelled>>

ReportFails ==
  /\ pc = "report"
  /\ CycleFails
  /\ UNCHANGED exchangeVars

Reported ==
  /\ pc = "report"
  /\ CycleReturns
  /\ UNCHANGED <<exchangeVars, sweepVars, why, trades, lead, k, success, awaiting,
                 stop, cancelled>>

-----------------------------------------------------------------------------
(* The world around the group.                                             *)

(* run_groups sets the stop event when it is time to regroup.              *)
SetStop ==
  /\ ~stop
  /\ stop' = TRUE
  /\ UNCHANGED <<exchangeVars, sweepVars, pc, why, failures, streak, trades, lead,
                 k, success, awaiting, cancelled>>

(* gather_cancel, or an interrupt from the keyboard, cancels the task.     *)
(* What it was waiting for is cancelled with it, wherever the requests     *)
(* have got to.  Only the try of run turns this into a cleanup.            *)
Cancel ==
  /\ ~cancelled
  /\ cancelled' = TRUE
  /\ \/ /\ pc \in Trading \cup {"cooldown"}
        /\ CleanUp("stop")
        /\ IF pc = "lead"
           THEN LeadExecutes /\ orphans' \in {orphans, orphans \cup {LeadLeg}}
           ELSE /\ orphans' = IF pc = "opening" THEN orphans \cup awaiting ELSE orphans
                /\ UNCHANGED <<held, resting>>
        /\ closers' = IF pc = "closing" THEN closers \cup awaiting
                      ELSE IF pc = "closeLead" THEN closers \cup {LeadLeg}
                      ELSE closers
        /\ UNCHANGED unknown
     \/ /\ pc \in {"boot", "backoff"}
        /\ pc' = "escaped"
        /\ UNCHANGED <<exchangeVars, sweepVars, why, awaiting>>
     \/ /\ pc = "cleanup"
        /\ pc' = "aborted"
        /\ UNCHANGED <<exchangeVars, sweepVars, why, awaiting>>
  /\ UNCHANGED <<failures, streak, trades, lead, k, success, stop>>

(* Only the lead of the cycle that failed can have a limit order in flight. *)
Lands(leg) ==
  OrphanLands(leg, UseLimit /\ Account(leg) = lead) \/ CloserLands(leg)

Market ==
  /\ \E leg \in Legs :
       \/ Lands(leg)
       \/ RestingFills(leg, pc # "cleanup")
       \/ Liquidate(leg)
  /\ UNCHANGED controlVars

Sweep ==
  /\ pc = "cleanup"
  /\ SweepStep
  /\ UNCHANGED controlVars

TradeCycle ==
  \/ Skip \/ PlanFails \/ Plan
  \/ LeadReturns \/ LeadRaises
  \/ \E leg \in awaiting : \/ MarketOrderAnswered(leg) \/ MarketOrderRaises(leg)
                           \/ PositionClosed(leg) \/ PositionCloseRaises(leg)
  \/ NextOpen \/ AllOpen \/ MonitorReturns
  \/ LeadClosed \/ LeadCloseRaises \/ NextClosing \/ AllClosed
  \/ ReportFails \/ Reported

Run ==
  \/ Boot \/ Started \/ Stopped \/ Failed
  \/ BackoffOver \/ BackoffInterrupted \/ CooldownOver \/ CooldownInterrupted

Bot == Run \/ Sweep \/ TradeCycle

Next == Bot \/ Market \/ SetStop \/ Cancel

(* Requests are answered or fail, calls of fill_limit_order and waits end, *)
(* and what is in flight lands or is dropped.  Nobody has to stop the bot, *)
(* and the market need not move.                                           *)
Fairness ==
  /\ WF_vars(Bot)
  /\ \A leg \in Legs : WF_vars(Lands(leg) /\ UNCHANGED controlVars)

Spec == Init /\ [][Next]_vars /\ Fairness
-----------------------------------------------------------------------------
(* Correctness.                                                            *)

(* The values the variables take.                                          *)
TypeOK ==
  /\ held \subseteq Legs /\ resting \subseteq Legs
  /\ orphans \subseteq Legs /\ closers \subseteq Legs /\ unknown \subseteq Legs
  /\ stage \in {"off", "cancel", "close"} /\ attempt \in 0..MaxAttempts
  /\ todo \subseteq Accounts /\ bad \subseteq Accounts
  /\ pc \in Locations /\ why \in {"boot", "failure", "stop"}
  /\ failures \in 0..MaxStreak /\ streak \in 0..MaxStreak
  /\ trades \in Cycles /\ lead \in Accounts /\ k \in 1..PerTrade
  /\ success \in BOOLEAN /\ awaiting \subseteq Legs
  /\ stop \in BOOLEAN /\ cancelled \in BOOLEAN

(* What is wrong on a leg is no surprise: its account failed in the last   *)
(* cleanup, or the exchange did something the bot was not told of.         *)
Excused(leg) == Account(leg) \in bad \/ leg \in unknown

(* Whenever the bot is about to plan a cycle, waits, or is done, however   *)
(* its cycles went, every leg is flat that the answers it got allow it to  *)
(* take for flat.  Orders are cancelled before positions are closed, or    *)
(* an order could execute on a leg that is already closed.                 *)
FlatAtRest ==
  pc \in AtRest \cup {"returned", "crashed"}
    => \A leg \in held : Excused(leg)

(* After a failure, and when the group has stopped, no order rests on an   *)
(* account that answered in the last cleanup, unless it came to rest late. *)
NothingResting ==
  pc \in {"backoff", "crashed", "returned"}
    => \A leg \in resting : Excused(leg)

(* close_all leaves neither positions nor orders that it could have known  *)
(* of, whichever way the cycle before it went.                             *)
CleanAtRest == FlatAtRest /\ NothingResting

(* "Too many consecutive failures": the group gives up exactly when the    *)
(* last MaxFailures cycles have all raised.                                *)
CrashedByStreak ==
  /\ pc = "crashed" => MaxFailures > 0 /\ streak = MaxFailures
  /\ pc \in AtRest /\ MaxFailures > 0 => streak < MaxFailures

(* A group that is told to stop is over in the end, wherever it was and    *)
(* whatever failed on the way: run_groups waits for it.                    *)
StopEnds == stop ~> pc \in Over
=============================================================================
