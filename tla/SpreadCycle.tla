---------------------------- MODULE SpreadCycle ----------------------------
(***************************************************************************)
(* SpreadStrategy.run (src/strategy/spread_cycle.py) with open_spread and  *)
(* close_spread (src/strategy/spread_trade.py): when one exchange bids     *)
(* more than the other asks, buy on one and sell on the other, hold for at *)
(* least min_open_time, and close both legs when the prices have met.      *)
(*                                                                         *)
(* The strategy never reads its positions.  All it knows is active_plan    *)
(* and whether its orders raised, and that says little: an order that      *)
(* raised may have executed, or execute later, and one that was answered   *)
(* may have executed in part or not at all.                                *)
(***************************************************************************)
EXTENDS Integers

CONSTANTS
  MaxFailures,   (* cfg.max_failures, 0 for no limit                         *)
  MaxCount       (* bound on the failures counted                            *)

ASSUME FailuresAssumption ==
  /\ MaxFailures \in Nat
  /\ MaxCount \in Nat \ {0}
  /\ MaxFailures <= MaxCount

VARIABLES
  pc,         (* where run is                                                *)
  why,        (* what a close is for: "reverted", "stop" or "failure"        *)
  plan,       (* active_plan is not None                                     *)
  failures,   (* failures since the last trade was opened                    *)
  sent,       (* legs whose answer the gather is waiting for                 *)
  failed,     (* legs whose order has raised                                 *)
  held,       (* legs with an open position                                  *)
  late,       (* legs whose opening order is in flight, with nobody waiting  *)
  lost,       (* history: legs on which the exchange has not done what the   *)
              (* bot takes its answer for, or did not get to answer          *)
  waited,     (* history: min_open_time has passed since the trade opened    *)
  stop,       (* stop_event is set                                           *)
  cancelled   (* the task has been cancelled from outside                    *)

legVars == <<held, late, lost>>
worldVars == <<stop, cancelled>>
spreadVars == <<pc, why, plan, failures, sent, failed, legVars, waited, worldVars>>

Clients == {"omni", "nado"}

Waits == {"pollWait", "minHold", "checkWait", "cooldown"}

(* Inside the try of run.                                                  *)
Working == {"signal", "opening", "rollback", "notify", "check"}

Ended == {"returned", "raised"}

Locations == Waits \cup Working \cup Ended \cup {"top", "closing", "backoff"}

-----------------------------------------------------------------------------
SpreadInit ==
  /\ pc = "top" /\ why = "stop"
  /\ plan = FALSE
  /\ failures = 0
  /\ sent = {} /\ failed = {}
  /\ held = {} /\ late = {} /\ lost = {}
  /\ waited = FALSE
  /\ stop = FALSE /\ cancelled = FALSE

Goto(from, to) == pc = from /\ pc' = to

(* A gather of one order per leg begins.                                   *)
SendBoth ==
  /\ sent' = Clients
  /\ failed' = {}

CloseSpread(reason) ==
  /\ pc' = "closing"
  /\ why' = reason
  /\ SendBoth

(* The except clause closes an open trade, and then counts the failure.    *)
CountFailure ==
  /\ failures' = IF failures < MaxCount THEN failures + 1 ELSE failures
  /\ pc' = IF MaxFailures > 0 /\ failures' >= MaxFailures
           THEN "returned" ELSE "backoff"

Fail ==
  \/ plan /\ CloseSpread("failure") /\ UNCHANGED failures
  \/ ~plan /\ CountFailure /\ UNCHANGED <<why, sent, failed>>

(* A wait is interrupted: run closes an open trade and returns.            *)
Leave ==
  \/ plan /\ CloseSpread("stop")
  \/ ~plan /\ pc' = "returned" /\ UNCHANGED <<why, sent, failed>>

-----------------------------------------------------------------------------
(* The top of the loop, and the waits.                                     *)

Top ==
  /\ pc = "top"
  /\ \/ stop /\ Leave
     \/ /\ ~stop
        /\ pc' = IF plan THEN "check" ELSE "signal"
        /\ UNCHANGED <<why, sent, failed>>
  /\ UNCHANGED <<plan, failures, legVars, waited, worldVars>>

(* The minimum hold is the wait that follows the opening.                  *)
WaitOver ==
  /\ pc \in Waits
  /\ ~stop
  /\ pc' = "top"
  /\ waited' = (waited \/ pc = "minHold")
  /\ UNCHANGED <<why, plan, failures, sent, failed, legVars, worldVars>>

WaitInterrupted ==
  /\ pc \in Waits
  /\ stop
  /\ Leave
  /\ UNCHANGED <<plan, failures, legVars, waited, worldVars>>

(* The wait after a failure is outside the try.                            *)
BackoffOver ==
  /\ Goto("backoff", IF stop THEN "raised" ELSE "top")
  /\ UNCHANGED <<why, plan, failures, sent, failed, legVars, waited, worldVars>>

-----------------------------------------------------------------------------
(* _try_open_trade.                                                        *)

NoSignal ==
  /\ Goto("signal", "pollWait")
  /\ UNCHANGED <<why, plan, failures, sent, failed, legVars, waited, worldVars>>

(* Quotes, leverage, sizes and minimums may raise.                         *)
SignalFails ==
  /\ pc = "signal"
  /\ Fail
  /\ UNCHANGED <<plan, legVars, waited, worldVars>>

OpenSpread ==
  /\ Goto("signal", "opening")
  /\ SendBoth
  /\ waited' = FALSE
  /\ UNCHANGED <<why, plan, failures, legVars, worldVars>>

(* Any answer counts as a leg that is open.  But Nado answers that it took *)
(* an immediate-or-cancel order, and Omni that it took a market order, not *)
(* what either has executed: that may be less, or nothing.                 *)
OpenAnswered(c) ==
  /\ pc = "opening"
  /\ c \in sent
  /\ sent' = sent \ {c}
  /\ \/ held' = held \cup {c} /\ UNCHANGED lost
     \/ held' \in {held, held \cup {c}} /\ lost' = lost \cup {c}
  /\ UNCHANGED <<pc, why, plan, failures, failed, late, waited, worldVars>>

(* The order was refused; or it has executed, or will, in spite of that.   *)
OpenRaises(c) ==
  /\ pc = "opening"
  /\ c \in sent
  /\ sent' = sent \ {c}
  /\ failed' = failed \cup {c}
  /\ \/ UNCHANGED legVars
     \/ held' = held \cup {c} /\ lost' = lost \cup {c} /\ UNCHANGED late
     \/ late' = late \cup {c} /\ lost' = lost \cup {c} /\ UNCHANGED held
  /\ UNCHANGED <<pc, why, plan, failures, waited, worldVars>>

(* Broken: the leg that did open is forgotten with the plan.               *)
OpenFailedNoRollback ==
  /\ pc = "opening"
  /\ sent = {}
  /\ failed # {}
  /\ Fail
  /\ UNCHANGED <<plan, legVars, waited, worldVars>>

OpenFailed ==
  /\ pc = "opening"
  /\ sent = {}
  /\ failed # {}
  /\ \/ failed = Clients /\ Fail
     \/ /\ failed # Clients
        /\ pc' = "rollback"
        /\ UNCHANGED <<why, failures, sent, failed>>
  /\ UNCHANGED <<plan, legVars, waited, worldVars>>

(* _rollback_leg closes the leg that opened; when it cannot, it logs that. *)
Rollback ==
  /\ pc = "rollback"
  /\ \/ held' = held \ (Clients \ failed) /\ UNCHANGED lost
     \/ /\ held' \in {held, held \ (Clients \ failed)}
        /\ lost' = lost \cup (Clients \ failed)
  /\ Fail
  /\ UNCHANGED <<plan, late, waited, worldVars>>

Opened ==
  /\ Goto("opening", "notify")
  /\ sent = {}
  /\ failed = {}
  /\ UNCHANGED <<why, plan, failures, sent, failed, legVars, waited, worldVars>>

(* Broken: the trade may be closed as soon as it is open.                  *)
NotifiedUnheld ==
  /\ Goto("notify", "top")
  /\ plan' = TRUE
  /\ failures' = 0
  /\ UNCHANGED <<why, sent, failed, legVars, waited, worldVars>>

(* on_trade_start has sent its message, and only now run learns the plan.  *)
Notified ==
  /\ Goto("notify", "minHold")
  /\ plan' = TRUE
  /\ failures' = 0
  /\ UNCHANGED <<why, sent, failed, legVars, waited, worldVars>>

-----------------------------------------------------------------------------
(* Holding and closing.                                                    *)

StillApart ==
  /\ Goto("check", "checkWait")
  /\ UNCHANGED <<why, plan, failures, sent, failed, legVars, waited, worldVars>>

Reverted ==
  /\ pc = "check"
  /\ CloseSpread("reverted")
  /\ UNCHANGED <<plan, failures, legVars, waited, worldVars>>

(* One failing quote is enough to close the trade.                         *)
RevertCheckFails ==
  /\ pc = "check"
  /\ Fail
  /\ UNCHANGED <<plan, legVars, waited, worldVars>>

(* The close is accepted, and fills in full or only in part.               *)
CloseAnswered(c) ==
  /\ pc = "closing"
  /\ c \in sent
  /\ sent' = sent \ {c}
  /\ \/ held' = held \ {c} /\ UNCHANGED lost
     \/ c \in held /\ lost' = lost \cup {c} /\ UNCHANGED held
  /\ UNCHANGED <<pc, why, plan, failures, failed, late, waited, worldVars>>

(* Also an order to reduce a position that is closed already.              *)
CloseRaises(c) ==
  /\ pc = "closing"
  /\ c \in sent
  /\ sent' = sent \ {c}
  /\ failed' = failed \cup {c}
  /\ held' \in {held, held \ {c}}
  /\ UNCHANGED <<pc, why, plan, failures, late, lost, waited, worldVars>>

Closed ==
  /\ pc = "closing"
  /\ sent = {}
  /\ failed = {}
  /\ \/ why = "reverted" /\ pc' = "cooldown" /\ UNCHANGED failures
     \/ why = "stop" /\ pc' = "returned" /\ UNCHANGED failures
     \/ why = "failure" /\ CountFailure
  /\ plan' = FALSE
  /\ UNCHANGED <<why, sent, failed, legVars, waited, worldVars>>

(* Broken: a close that fails is tried again until it succeeds.            *)
CloseRetriedForever ==
  /\ pc = "closing"
  /\ sent = {}
  /\ failed # {}
  /\ CloseSpread(why)
  /\ UNCHANGED <<plan, failures, legVars, waited, worldVars>>

(* A close that fails is tried once more, as a failure; if it fails in an  *)
(* except clause, the error leaves run.                                    *)
CloseFailed ==
  /\ pc = "closing"
  /\ sent = {}
  /\ failed # {}
  /\ IF why = "reverted" THEN CloseSpread("failure")
     ELSE pc' = "raised" /\ UNCHANGED <<why, sent, failed>>
  /\ UNCHANGED <<plan, failures, legVars, waited, worldVars>>

-----------------------------------------------------------------------------
(* The world around the strategy.                                          *)

LateFill(c) ==
  /\ c \in late
  /\ late' = late \ {c}
  /\ held' = held \cup {c}
  /\ UNCHANGED <<pc, why, plan, failures, sent, failed, lost, waited, worldVars>>

Liquidate(c) ==
  /\ c \in held
  /\ held' = held \ {c}
  /\ lost' = lost \cup {c}
  /\ UNCHANGED <<pc, why, plan, failures, sent, failed, late, waited, worldVars>>

RequestStop ==
  /\ ~stop
  /\ stop' = TRUE
  /\ UNCHANGED <<pc, why, plan, failures, sent, failed, legVars, waited, cancelled>>

(* The task is cancelled.  A trade that is being opened is not a plan yet: *)
(* run returns with whatever has been, or will be, opened.                 *)
Cancel ==
  /\ ~cancelled
  /\ cancelled' = TRUE
  /\ \/ /\ \/ pc \in Waits \cup Working
           \/ pc = "closing" /\ why = "reverted"
        /\ Leave
     \/ /\ \/ pc = "backoff"
           \/ pc = "closing" /\ why # "reverted"
        /\ pc' = "raised"
        /\ UNCHANGED <<why, sent, failed>>
  /\ late' = IF pc = "opening" THEN late \cup sent ELSE late
  /\ lost' = IF pc \in {"opening", "rollback", "notify"} THEN Clients ELSE lost
  /\ UNCHANGED <<plan, failures, held, waited, stop>>

Run ==
  \/ Top \/ WaitOver \/ WaitInterrupted \/ BackoffOver
  \/ NoSignal \/ SignalFails \/ OpenSpread
  \/ \E c \in Clients : \/ OpenAnswered(c) \/ OpenRaises(c)
                        \/ CloseAnswered(c) \/ CloseRaises(c)
  \/ OpenFailed \/ Rollback \/ Opened \/ Notified
  \/ StillApart \/ Reverted \/ RevertCheckFails \/ Closed \/ CloseFailed

World ==
  \/ \E c \in Clients : LateFill(c) \/ Liquidate(c)
  \/ RequestStop \/ Cancel

SpreadNext == Run \/ World

(* Requests are answered or fail, and waits end.                           *)
SpreadSpec == SpreadInit /\ [][SpreadNext]_spreadVars /\ WF_spreadVars(Run)
-----------------------------------------------------------------------------
(* Correctness.                                                            *)

(* The values the variables take.                                          *)
SpreadTypeOK ==
  /\ pc \in Locations /\ why \in {"reverted", "stop", "failure"}
  /\ plan \in BOOLEAN /\ failures \in 0..MaxCount
  /\ sent \subseteq Clients /\ failed \subseteq Clients
  /\ held \subseteq Clients /\ late \subseteq Clients /\ lost \subseteq Clients
  /\ waited \in BOOLEAN /\ stop \in BOOLEAN /\ cancelled \in BOOLEAN

(* The strategy has the legs it believes to have, without looking: with a  *)
(* plan a leg is open and without one it is not, through any failures of   *)
(* opening and closing orders and whatever happens to the other leg.  Left *)
(* out are the legs on which the exchange has not done what the bot took   *)
(* an answer for (an order that executed less than it asked for, a failed  *)
(* rollback, a liquidation) and those whose opening was cut off.           *)
HedgedOrFlat ==
  \A c \in Clients \ lost :
    /\ pc \in Waits \cup {"top", "signal", "check", "backoff"} => (c \in held <=> plan)
    /\ pc = "returned" => c \notin held

(* "Keep the spread open for a minimum hold window before checking close   *)
(* conditions": only an error or the end of the run closes it earlier.     *)
MinimumHold == pc = "closing" /\ why = "reverted" => waited

(* A strategy that is told to stop is over in the end, whatever fails.     *)
StopEnds == stop ~> pc \in Ended
=============================================================================
