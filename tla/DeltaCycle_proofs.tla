-------------------------- MODULE DeltaCycle_proofs --------------------------
(***************************************************************************)
(* Proofs about DeltaCycle for every set of symbols and accounts and every *)
(* setting.  The inductive invariant Inv accounts for every held leg by    *)
(* where the bot is in its cycle, for every resting order by where it is   *)
(* in its cleanup, and for the failures by the history of cycles.          *)
(***************************************************************************)
EXTENDS DeltaCycle, TLAPS

-----------------------------------------------------------------------------
(* The inductive invariant.                                                *)

(* Why a leg may be held now: the cleanup is still to close it, a trade    *)
(* that is not closed yet put it there, or it is excused.                  *)
HasSymbolOf(leg, from, to) == \E i \in from..to : leg[1] = trades[i]

Accounted(leg) ==
  \/ Excused(leg)
  \/ pc \in {"boot", "escaped", "aborted"}
  \/ pc = "cleanup" /\ (stage = "cancel" \/ Account(leg) \in todo)
  \/ pc \in {"lead", "opening"} /\ HasSymbolOf(leg, 1, k)
  \/ pc = "hold" /\ HasSymbolOf(leg, 1, PerTrade)
  \/ pc = "closeLead" /\ HasSymbolOf(leg, k, PerTrade)
  \/ pc = "closing" /\ (leg \in awaiting \/ HasSymbolOf(leg, k + 1, PerTrade))

HeldOK == \A leg \in held : Accounted(leg)

(* Which orders may rest while, and after, a cleanup cancels them.         *)
MayRest(leg) ==
  /\ pc = "cleanup" /\ stage = "cancel" => Account(leg) \in todo \/ Excused(leg)
  /\ pc = "cleanup" /\ stage = "close" => Excused(leg)
  /\ pc \in {"backoff", "crashed", "returned"} => Excused(leg)

RestingOK == \A leg \in resting : MayRest(leg)

ControlOK ==
  /\ pc = "cleanup" => stage \in {"cancel", "close"}
  /\ pc = "opening" => \A leg \in awaiting : leg[1] = trades[k]

(* The bot's count of failures is the history of its cycles.               *)
CountOK ==
  /\ IF pc = "cleanup" /\ why = "failure"
     THEN streak = FailuresNow
     ELSE pc = "aborted" \/ streak = failures
  /\ MaxFailures > 0 /\ pc # "crashed" => failures < MaxFailures
  /\ pc = "crashed" => MaxFailures > 0 /\ failures = MaxFailures

Inv == TypeOK /\ ControlOK /\ HeldOK /\ RestingOK /\ CountOK
-----------------------------------------------------------------------------
(* Legs.                                                                   *)

(* A leg is a symbol on an account.                                        *)
LEMMA LegParts ==
  ASSUME NEW leg \in Legs
  PROVE  leg = <<leg[1], leg[2]>> /\ leg[1] \in Symbols /\ Account(leg) \in Accounts
BY DEF Legs, Account

(* The legs of an account.                                                 *)
LEMMA LegsOfAccount ==
  ASSUME NEW a \in Accounts
  PROVE  /\ LegsOf(a) \subseteq Legs
         /\ \A leg \in Legs : leg \in LegsOf(a) <=> Account(leg) = a
BY DEF Legs, LegsOf, Account

(* The legs of the trade at hand.                                          *)
LEMMA LegsOfTrade ==
  ASSUME TypeOK
  PROVE  /\ trades[k] \in Symbols
         /\ LeadLeg \in Legs /\ RestLegs \subseteq Legs
         /\ LeadLeg[1] = trades[k]
         /\ \A leg \in RestLegs : leg[1] = trades[k]
         /\ \A leg \in Legs : leg[1] = trades[k] => leg \in RestLegs \cup {LeadLeg}
BY DEF TypeOK, Cycles, Legs, LeadLeg, RestLegs

-----------------------------------------------------------------------------
(* The initial state satisfies the invariant.                              *)
LEMMA InitInv == Init => Inv
<1> SUFFICES ASSUME Init PROVE Inv
  OBVIOUS
<1> USE AttemptsAssumption, CycleAssumption DEF Init
<1>1. TypeOK
  <2>1. held \subseteq Legs /\ resting \subseteq Legs
    OBVIOUS
  <2>2. pc \in Locations /\ trades \in Cycles /\ lead \in Accounts
    BY DEF Locations
  <2>3. k \in 1..PerTrade /\ failures \in 0..MaxStreak /\ streak \in 0..MaxStreak
    OBVIOUS
  <2>4. attempt \in 0..MaxAttempts
    OBVIOUS
  <2>5. success \in BOOLEAN /\ stop \in BOOLEAN /\ cancelled \in BOOLEAN
    OBVIOUS
  <2>6. /\ stage \in {"off", "cancel", "close"} /\ why \in {"boot", "failure", "stop"}
        /\ orphans \subseteq Legs /\ closers \subseteq Legs /\ unknown \subseteq Legs
        /\ todo \subseteq Accounts /\ bad \subseteq Accounts /\ awaiting \subseteq Legs
    OBVIOUS
  <2> QED BY <2>1, <2>2, <2>3, <2>4, <2>5, <2>6, Zenon DEF TypeOK
<1>2. ControlOK
  BY DEF ControlOK
<1>3. HeldOK
  BY DEF HeldOK, Accounted
<1>4. RestingOK
  BY DEF RestingOK, MayRest
<1>5. CountOK
  BY DEF CountOK
<1> QED BY <1>1, <1>2, <1>3, <1>4, <1>5 DEF Inv

-----------------------------------------------------------------------------
(* Types.                                                                  *)

(* A step of the sweep keeps the types.                                    *)
LEMMA SweepTypes == TypeOK /\ Sweep => TypeOK'
<1> SUFFICES ASSUME TypeOK, Sweep PROVE TypeOK'
  OBVIOUS
<1> USE AttemptsAssumption DEF TypeOK, Sweep, controlVars, exchangeVars
<1>1. ASSUME NEW a \in Accounts, CancelAllOrders(a) PROVE TypeOK'
  BY <1>1 DEF CancelAllOrders
<1>2. ASSUME NEW a \in Accounts, CloseAllPositions(a) PROVE TypeOK'
  BY <1>2 DEF CloseAllPositions, Told
<1>3. CASE BeginClose
  BY <1>3 DEF BeginClose
<1>4. CASE Retry
  BY <1>4 DEF Retry
<1> QED BY <1>1, <1>2, <1>3, <1>4 DEF SweepStep

(* So does a step of the exchange.                                         *)
LEMMA MarketTypes == TypeOK /\ Market => TypeOK'
<1> SUFFICES ASSUME TypeOK, Market PROVE TypeOK'
  OBVIOUS
<1> USE DEF TypeOK, Market, Lands, controlVars, sweepVars
<1>1. PICK leg \in Legs : \/ Lands(leg)
                          \/ RestingFills(leg, pc # "cleanup")
                          \/ Liquidate(leg)
  OBVIOUS
<1>2. CASE OrphanLands(leg, UseLimit /\ Account(leg) = lead)
  BY <1>2 DEF OrphanLands
<1>3. CASE CloserLands(leg)
  BY <1>3 DEF CloserLands
<1>4. CASE RestingFills(leg, pc # "cleanup")
  BY <1>4 DEF RestingFills
<1>5. CASE Liquidate(leg)
  BY <1>5 DEF Liquidate
<1> QED BY <1>1, <1>2, <1>3, <1>4, <1>5

(* A cycle that raises enters the cleanup.                                 *)
LEMMA FailTypes ==
  ASSUME TypeOK, CycleFails,
         held' \subseteq Legs, resting' \subseteq Legs, orphans' \subseteq Legs,
         closers' \subseteq Legs, unknown' \subseteq Legs
  PROVE  TypeOK'
BY AttemptsAssumption, CycleAssumption
   DEF TypeOK, CycleFails, CleanUp, StartSweep, Locations

(* Every step keeps the types.                                             *)
LEMMA TypeStep == TypeOK /\ [Next]_vars => TypeOK'
<1> SUFFICES ASSUME TypeOK, [Next]_vars PROVE TypeOK'
  OBVIOUS
<1> USE AttemptsAssumption, CycleAssumption
<1> USE DEF Locations, Trading, AtRest, Over, exchangeVars, sweepVars
<1>1. CASE Run
  <2> USE DEF TypeOK, CleanUp, StartSweep, SweepReturns, FailuresNow
  <2>1. CASE Boot
    BY <2>1 DEF Boot
  <2>2. CASE Started
    BY <2>2 DEF Started
  <2>3. CASE Stopped
    BY <2>3 DEF Stopped
  <2>4. CASE Failed
    BY <2>4 DEF Failed
  <2>5. CASE BackoffOver
    BY <2>5 DEF BackoffOver
  <2>6. CASE BackoffInterrupted
    BY <2>6 DEF BackoffInterrupted
  <2>7. CASE CooldownOver
    BY <2>7 DEF CooldownOver
  <2>8. CASE CooldownInterrupted
    BY <2>8 DEF CooldownInterrupted
  <2> QED BY <1>1, <2>1, <2>2, <2>3, <2>4, <2>5, <2>6, <2>7, <2>8 DEF Run
<1>2. CASE TradeCycle
  <2>1. CASE Skip
    BY <2>1 DEF TypeOK, Skip, CycleReturns
  <2>2. CASE PlanFails
    BY <2>2, FailTypes DEF PlanFails, TypeOK
  <2>3. CASE Plan
    <3>1. trades'[1] \in Symbols
      BY <2>3 DEF Plan, Cycles
    <3> QED BY <2>3, <3>1 DEF TypeOK, Plan, BeginOpen, Legs
  <2>4. CASE LeadReturns
    BY <2>4, LegsOfTrade DEF TypeOK, LeadReturns, LeadExecutes
  <2>5. CASE LeadRaises
    BY <2>5, LegsOfTrade, FailTypes DEF LeadRaises, LeadExecutes, TypeOK
  <2>6. ASSUME NEW leg \in awaiting, MarketOrderAnswered(leg) PROVE TypeOK'
    BY <2>6 DEF TypeOK, MarketOrderAnswered
  <2>7. ASSUME NEW leg \in awaiting, MarketOrderRaises(leg) PROVE TypeOK'
    BY <2>7, FailTypes DEF MarketOrderRaises, TypeOK
  <2>8. ASSUME NEW leg \in awaiting, PositionClosed(leg) PROVE TypeOK'
    BY <2>8 DEF TypeOK, PositionClosed, Closed, Told
  <2>9. ASSUME NEW leg \in awaiting, PositionCloseRaises(leg) PROVE TypeOK'
    BY <2>9, FailTypes DEF PositionCloseRaises, TypeOK
  <2>10. CASE NextOpen
    <3>1. trades[k + 1] \in Symbols
      BY <2>10 DEF TypeOK, NextOpen, Cycles
    <3> QED BY <2>10, <3>1 DEF TypeOK, NextOpen, BeginOpen, Legs
  <2>11. CASE AllOpen
    BY <2>11 DEF TypeOK, AllOpen
  <2>12. CASE MonitorReturns
    <3>1. trades[1] \in Symbols
      BY <2>12 DEF TypeOK, Cycles
    <3> QED BY <2>12, <3>1 DEF TypeOK, MonitorReturns, BeginClosing, Legs
  <2>13. CASE LeadClosed
    BY <2>13, LegsOfTrade DEF TypeOK, LeadClosed, Closed, Told
  <2>14. CASE LeadCloseRaises
    <3>1. LeadLeg \in Legs
      BY DEF TypeOK, Cycles, LeadLeg, Legs
    <3> QED BY <2>14, <3>1, FailTypes DEF LeadCloseRaises, TypeOK
  <2>15. CASE NextClosing
    <3>1. trades[k + 1] \in Symbols
      BY <2>15 DEF TypeOK, NextClosing, Cycles
    <3> QED BY <2>15, <3>1 DEF TypeOK, NextClosing, BeginClosing, Legs
  <2>16. CASE AllClosed
    BY <2>16 DEF TypeOK, AllClosed
  <2>17. CASE ReportFails
    BY <2>17, FailTypes DEF ReportFails, TypeOK
  <2>18. CASE Reported
    BY <2>18 DEF TypeOK, Reported, CycleReturns
  <2> QED BY <1>2, <2>1, <2>2, <2>3, <2>4, <2>5, <2>6, <2>7, <2>8, <2>9, <2>10,
             <2>11, <2>12, <2>13, <2>14, <2>15, <2>16, <2>17, <2>18 DEF TradeCycle
<1>3. CASE Sweep
  BY <1>3, SweepTypes
<1>4. CASE Market
  BY <1>4, MarketTypes
<1>5. CASE SetStop
  BY <1>5 DEF TypeOK, SetStop
<1>6. CASE Cancel
  <2>1. held' \subseteq Legs /\ resting' \subseteq Legs /\ orphans' \subseteq Legs
        /\ closers' \subseteq Legs /\ unknown' \subseteq Legs
    BY <1>6, LegsOfTrade DEF TypeOK, Cancel, LeadExecutes
  <2> QED BY <1>6, <2>1 DEF TypeOK, Cancel, CleanUp, StartSweep
<1>7. CASE UNCHANGED vars
  BY <1>7 DEF TypeOK, vars, controlVars
<1> QED BY <1>1, <1>2, <1>3, <1>4, <1>5, <1>6, <1>7 DEF Next, Bot
-----------------------------------------------------------------------------
(* The rest of the invariant.                                              *)

(* Entering a cleanup restores all of it that is about legs and orders.    *)
LEMMA CleanUpOK ==
  ASSUME TypeOK', pc' = "cleanup", stage' = "cancel", todo' = Accounts
  PROVE  ControlOK' /\ HeldOK' /\ RestingOK'
<1>1. \A leg \in Legs : Account(leg) \in todo'
  BY LegParts
<1> QED BY <1>1 DEF ControlOK, HeldOK, Accounted, RestingOK, MayRest, TypeOK

(* The actions that do so.                                                 *)
LEMMA Fails ==
  ASSUME \/ PlanFails \/ LeadRaises \/ LeadCloseRaises \/ ReportFails
         \/ \E leg \in awaiting : MarketOrderRaises(leg) \/ PositionCloseRaises(leg)
  PROVE  CycleFails /\ pc \in Trading
BY DEF PlanFails, LeadRaises, LeadCloseRaises, ReportFails, MarketOrderRaises,
   PositionCloseRaises, Trading

(* A failure in the cycle takes the count with it.                         *)
LEMMA FailCounts ==
  ASSUME TypeOK, CountOK, CycleFails, pc \in Trading
  PROVE  CountOK'
BY CycleAssumption DEF TypeOK, CountOK, CycleFails, CleanUp, FailuresNow, Trading

(* The count of failures follows the history.                              *)
LEMMA CountStep == TypeOK /\ CountOK /\ [Next]_vars => CountOK'
<1> SUFFICES ASSUME TypeOK, CountOK, [Next]_vars PROVE CountOK'
  OBVIOUS
<1> USE CycleAssumption DEF CountOK, FailuresNow
<1>1. CASE Run
  <2> USE DEF TypeOK, CleanUp
  <2>1. CASE Boot \/ Started \/ Stopped
    BY <2>1 DEF Boot, Started, Stopped
  <2>2. CASE Failed
    BY <2>2 DEF Failed
  <2>3. CASE BackoffOver \/ BackoffInterrupted \/ CooldownOver \/ CooldownInterrupted
    BY <2>3 DEF BackoffOver, BackoffInterrupted, CooldownOver, CooldownInterrupted
  <2> QED BY <1>1, <2>1, <2>2, <2>3 DEF Run
<1>2. CASE TradeCycle
  <2>1. CASE Skip \/ Reported
    BY <2>1 DEF Skip, Reported, CycleReturns, TypeOK
  <2>2. CASE Plan
    BY <2>2 DEF Plan, BeginOpen
  <2>3. CASE \/ PlanFails \/ LeadRaises \/ LeadCloseRaises \/ ReportFails
             \/ \E leg \in awaiting : MarketOrderRaises(leg) \/ PositionCloseRaises(leg)
    BY <2>3, Fails, FailCounts
  <2>4. CASE LeadReturns \/ NextOpen \/ AllOpen \/ MonitorReturns
    BY <2>4 DEF LeadReturns, NextOpen, AllOpen, MonitorReturns, BeginOpen, BeginClosing
  <2>5. CASE LeadClosed \/ NextClosing \/ AllClosed
    BY <2>5 DEF LeadClosed, NextClosing, AllClosed, BeginClosing
  <2>6. CASE \E leg \in awaiting : MarketOrderAnswered(leg) \/ PositionClosed(leg)
    BY <2>6 DEF MarketOrderAnswered, PositionClosed
  <2> QED BY <1>2, <2>1, <2>2, <2>3, <2>4, <2>5, <2>6 DEF TradeCycle
<1>3. CASE Sweep \/ Market
  BY <1>3 DEF Sweep, Market, controlVars
<1>4. CASE SetStop
  BY <1>4 DEF SetStop
<1>5. CASE Cancel
  BY <1>5 DEF Cancel, CleanUp, Trading
<1>6. CASE UNCHANGED vars
  BY <1>6 DEF vars, controlVars
<1> QED BY <1>1, <1>2, <1>3, <1>4, <1>5, <1>6 DEF Next, Bot

(* The sweep, and the exchange beside it.                                  *)
LEMMA SweepStepOK ==
  ASSUME Inv, Sweep, TypeOK'
  PROVE  ControlOK' /\ HeldOK' /\ RestingOK'
<1> USE DEF Inv, Sweep, controlVars, exchangeVars
<1>1. ASSUME NEW a \in Accounts, CancelAllOrders(a)
      PROVE  ControlOK' /\ HeldOK' /\ RestingOK'
  <2> USE <1>1 DEF CancelAllOrders
  <2>1. ControlOK'
    BY DEF ControlOK
  <2>2. HeldOK'
    BY DEF HeldOK, Accounted
  <2>3. ASSUME NEW leg \in resting' PROVE MayRest(leg)'
    <3>1. leg \in resting /\ leg \in Legs /\ MayRest(leg)
      BY <2>3 DEF RestingOK, TypeOK
    <3>2. Excused(leg) => Excused(leg)'
      BY DEF Excused
    <3>3. Account(leg) = a => Excused(leg)'
      BY <2>3, <3>1, LegsOfAccount DEF Excused
    <3> QED BY <3>1, <3>2, <3>3 DEF MayRest
  <2> QED BY <2>1, <2>2, <2>3 DEF RestingOK
<1>2. ASSUME NEW a \in Accounts, CloseAllPositions(a)
      PROVE  ControlOK' /\ HeldOK' /\ RestingOK'
  <2> USE <1>2 DEF CloseAllPositions
  <2>1. ControlOK'
    BY DEF ControlOK
  <2>2. ASSUME NEW leg \in held' PROVE Accounted(leg)'
    <3>1. leg \in held /\ leg \in Legs /\ Accounted(leg)
      BY <2>2 DEF HeldOK, TypeOK
    <3>2. CASE Account(leg) = a
      BY <2>2, <3>1, <3>2, LegsOfAccount DEF Excused, Accounted
    <3>3. CASE Account(leg) # a
      <4>1. Excused(leg) => Excused(leg)'
        BY <3>1, <3>3, LegsOfAccount DEF Excused, Told
      <4> QED BY <3>1, <3>3, <4>1 DEF Accounted
    <3> QED BY <3>2, <3>3
  <2>3. ASSUME NEW leg \in resting' PROVE MayRest(leg)'
    <3>1. leg \in resting /\ MayRest(leg)
      BY <2>3 DEF RestingOK
    <3>2. Excused(leg) => Excused(leg)'
      BY <3>1 DEF Excused, Told
    <3> QED BY <3>1, <3>2 DEF MayRest
  <2> QED BY <2>1, <2>2, <2>3 DEF HeldOK, RestingOK
<1>3. CASE BeginClose
  <2> USE <1>3 DEF BeginClose
  <2>1. ControlOK'
    BY DEF ControlOK
  <2>2. HeldOK'
    BY LegParts DEF HeldOK, Accounted, TypeOK
  <2>3. RestingOK'
    BY DEF RestingOK, MayRest, Excused
  <2> QED BY <2>1, <2>2, <2>3
<1>4. CASE Retry
  BY <1>4, CleanUpOK DEF Retry
<1> QED BY <1>1, <1>2, <1>3, <1>4 DEF SweepStep

(* What the exchange does is accounted for wherever the bot is.             *)
LEMMA MarketStepOK ==
  ASSUME Inv, Market, TypeOK'
  PROVE  ControlOK' /\ HeldOK' /\ RestingOK'
<1> USE DEF Inv, Market, controlVars, sweepVars
<1>1. PICK leg \in Legs : \/ OrphanLands(leg, UseLimit /\ Account(leg) = lead)
                          \/ CloserLands(leg)
                          \/ RestingFills(leg, pc # "cleanup")
                          \/ Liquidate(leg)
  BY DEF Lands
<1>2. UNCHANGED sweepVars /\ UNCHANGED controlVars
  BY <1>1 DEF OrphanLands, CloserLands, RestingFills, Liquidate
<1>3. ControlOK'
  BY <1>2 DEF ControlOK
<1>4. \A other : Excused(other) => Excused(other)'
  BY <1>1 DEF Excused, OrphanLands, CloserLands, RestingFills, Liquidate
<1>5. \A other : /\ Accounted(other) => Accounted(other)'
                 /\ MayRest(other) => MayRest(other)'
  BY <1>4, <1>2 DEF Accounted, MayRest, HasSymbolOf
<1>6. Excused(leg)' => Accounted(leg)' /\ MayRest(leg)'
  BY DEF Accounted, MayRest
<1>7. CASE OrphanLands(leg, UseLimit /\ Account(leg) = lead)
  BY <1>3, <1>5, <1>6, <1>7 DEF OrphanLands, HeldOK, RestingOK, Excused
<1>8. CASE CloserLands(leg) \/ Liquidate(leg)
  BY <1>3, <1>5, <1>8 DEF CloserLands, Liquidate, HeldOK, RestingOK
<1>9. CASE RestingFills(leg, pc # "cleanup")
  <2> USE <1>9 DEF RestingFills
  <2>1. RestingOK'
    BY <1>5 DEF RestingOK
  <2>2. Accounted(leg)'
    <3>1. CASE pc = "cleanup"
      <4>1. stage \in {"cancel", "close"} /\ MayRest(leg)
        BY <3>1 DEF ControlOK, RestingOK
      <4>2. Accounted(leg)
        BY <3>1, <4>1 DEF MayRest, Accounted
      <4> QED BY <4>2, <1>5
    <3>2. CASE pc # "cleanup"
      BY <1>6, <3>2 DEF Excused
    <3> QED BY <3>1, <3>2
  <2>3. HeldOK'
    BY <1>5, <2>2 DEF HeldOK
  <2> QED BY <1>3, <2>1, <2>3
<1> QED BY <1>3, <1>1, <1>7, <1>8, <1>9

(* Starting, stopping, waiting.                                            *)
LEMMA RunStepOK ==
  ASSUME Inv, Run, TypeOK'
  PROVE  ControlOK' /\ HeldOK' /\ RestingOK'
<1> USE DEF Inv, exchangeVars, sweepVars
<1>1. CASE Boot
  <2>1. CASE CleanUp("boot")
    BY <2>1, CleanUpOK DEF CleanUp, StartSweep
  <2>2. CASE pc' = "escaped"
    BY <1>1, <2>2 DEF Boot, ControlOK, HeldOK, Accounted, RestingOK, MayRest
  <2> QED BY <1>1, <2>1, <2>2 DEF Boot
<1>2. CASE Started \/ Stopped \/ Failed
  <2>1. pc = "cleanup" /\ stage = "close" /\ todo = {} /\ UNCHANGED <<exchangeVars, bad>>
    BY <1>2 DEF Started, Stopped, Failed, SweepReturns, SweepOver
  <2>2. pc' \in {"plan", "returned", "crashed", "backoff"}
    BY <1>2 DEF Started, Stopped, Failed
  <2>3. \A leg : Excused(leg) => Excused(leg)'
    BY <2>1 DEF Excused
  <2>4. \A leg : Excused(leg)' => Accounted(leg)' /\ MayRest(leg)'
    BY DEF Accounted, MayRest
  <2>5. \A leg \in held : Excused(leg)
    BY <2>1 DEF HeldOK, Accounted
  <2>6. \A leg \in resting : Excused(leg)
    BY <2>1 DEF RestingOK, MayRest
  <2>7. ControlOK'
    BY <2>2 DEF ControlOK
  <2> QED BY <2>1, <2>3, <2>4, <2>5, <2>6, <2>7 DEF HeldOK, RestingOK
<1>3. CASE BackoffOver \/ BackoffInterrupted \/ CooldownOver
  <2>1. UNCHANGED <<exchangeVars, bad>> /\ pc \in AtRest /\ pc' \in {"plan", "escaped"}
    BY <1>3 DEF BackoffOver, BackoffInterrupted, CooldownOver, AtRest
  <2>2. \A leg \in held : Excused(leg)
    BY <2>1 DEF HeldOK, Accounted, AtRest
  <2>3. ControlOK' /\ RestingOK'
    BY <2>1 DEF ControlOK, RestingOK, MayRest
  <2>4. HeldOK'
    BY <2>1, <2>2 DEF HeldOK, Accounted, Excused
  <2> QED BY <2>3, <2>4
<1>4. CASE CooldownInterrupted
  BY <1>4, CleanUpOK DEF CooldownInterrupted, CleanUp, StartSweep
<1> QED BY <1>1, <1>2, <1>3, <1>4 DEF Run

(* A step that leaves the bot trading, or at rest, owes nothing about      *)
(* resting orders.                                                         *)
LEMMA NoSweepOK ==
  ASSUME pc' \notin {"cleanup", "opening", "backoff", "crashed", "returned"}
  PROVE  ControlOK' /\ RestingOK'
BY DEF ControlOK, RestingOK, MayRest

(* Planning and opening.                                                   *)
LEMMA OpenStepOK ==
  ASSUME Inv, TypeOK',
         \/ Skip \/ Plan \/ LeadReturns \/ NextOpen \/ AllOpen
         \/ \E leg \in awaiting : MarketOrderAnswered(leg)
  PROVE  ControlOK' /\ HeldOK' /\ RestingOK'
<1> USE DEF Inv, exchangeVars, sweepVars, HasSymbolOf
<1>1. UNCHANGED <<bad, unknown>> /\ pc' \notin {"cleanup", "backoff", "crashed", "returned"}
  BY DEF Skip, CycleReturns, Plan, BeginOpen, LeadReturns, NextOpen, AllOpen,
     MarketOrderAnswered
<1>2. RestingOK'
  BY <1>1 DEF RestingOK, MayRest
<1>3. \A leg : Excused(leg) => Excused(leg)'
  BY <1>1 DEF Excused
<1>4. k \in 1..PerTrade /\ PerTrade \in Nat
  BY CycleAssumption DEF TypeOK
<1>5. CASE Skip
  <2>1. HeldOK'
    BY <1>3, <1>5 DEF Skip, CycleReturns, HeldOK, Accounted
  <2> QED BY <1>2, <1>5, <2>1 DEF Skip, CycleReturns, ControlOK
<1>6. CASE Plan
  <2>1. HeldOK'
    BY <1>3, <1>6 DEF Plan, HeldOK, Accounted
  <2>2. ControlOK'
    BY <1>6 DEF Plan, BeginOpen, ControlOK
  <2> QED BY <1>2, <2>1, <2>2
<1>7. CASE LeadReturns
  <2>1. \A leg : leg[1] = trades[k] => Accounted(leg)'
    BY <1>4, <1>7 DEF LeadReturns, Accounted
  <2>2. \A leg \in held : Accounted(leg)'
    BY <1>3, <1>7 DEF LeadReturns, HeldOK, Accounted
  <2>3. HeldOK'
    BY <1>7, <2>1, <2>2, LegsOfTrade DEF LeadReturns, LeadExecutes, HeldOK
  <2>4. ControlOK'
    BY <1>7, LegsOfTrade DEF LeadReturns, ControlOK
  <2> QED BY <1>2, <2>3, <2>4
<1>8. CASE NextOpen
  <2>1. HeldOK'
    BY <1>3, <1>4, <1>8 DEF NextOpen, BeginOpen, HeldOK, Accounted
  <2>2. ControlOK'
    BY <1>8 DEF NextOpen, BeginOpen, ControlOK
  <2> QED BY <1>2, <2>1, <2>2
<1>9. CASE AllOpen
  <2>1. HeldOK'
    BY <1>3, <1>9 DEF AllOpen, HeldOK, Accounted
  <2> QED BY <1>2, <1>9, <2>1 DEF AllOpen, ControlOK
<1>10. ASSUME NEW leg \in awaiting, MarketOrderAnswered(leg)
       PROVE  ControlOK' /\ HeldOK' /\ RestingOK'
  <2>1. ControlOK'
    BY <1>10 DEF MarketOrderAnswered, ControlOK
  <2>2. Accounted(leg)'
    BY <1>4, <1>10 DEF MarketOrderAnswered, ControlOK, Accounted
  <2>3. \A other \in held : Accounted(other)'
    BY <1>3, <1>10 DEF MarketOrderAnswered, HeldOK, Accounted
  <2>4. HeldOK'
    BY <1>10, <2>2, <2>3 DEF MarketOrderAnswered, HeldOK
  <2> QED BY <1>2, <2>1, <2>4
<1> QED BY <1>5, <1>6, <1>7, <1>8, <1>9, <1>10

(* Holding and closing.                                                    *)
LEMMA CloseStepOK ==
  ASSUME Inv, TypeOK',
         \/ MonitorReturns \/ LeadClosed \/ NextClosing \/ AllClosed \/ Reported
         \/ \E leg \in awaiting : PositionClosed(leg)
  PROVE  ControlOK' /\ HeldOK' /\ RestingOK'
<1> USE DEF Inv, exchangeVars, sweepVars, HasSymbolOf
<1>1. UNCHANGED bad /\ pc' \in {"closeLead", "closing", "report", "cooldown"}
  BY DEF MonitorReturns, BeginClosing, LeadClosed, NextClosing, AllClosed, Reported,
     CycleReturns, PositionClosed
<1>2. ControlOK' /\ RestingOK'
  BY <1>1, NoSweepOK
<1>3. k \in 1..PerTrade /\ PerTrade \in Nat
  BY CycleAssumption DEF TypeOK
<1>4. CASE MonitorReturns
  <2>1. UNCHANGED <<held, bad, unknown, trades>> /\ pc = "hold"
    BY <1>4 DEF MonitorReturns
  <2>2. ASSUME NEW leg \in held, ~Excused(leg) PROVE Accounted(leg)'
    <3>1. leg \in Legs /\ \E i \in 1..PerTrade : leg[1] = trades[i]
      BY <2>1, <2>2 DEF HeldOK, Accounted, TypeOK
    <3>2. leg[1] = trades[1] => leg \in {<<trades[1], a>> : a \in Accounts}
      BY <3>1 DEF Legs
    <3> QED BY <1>3, <1>4, <3>1, <3>2 DEF MonitorReturns, BeginClosing, Accounted
  <2>3. HeldOK'
    BY <2>1, <2>2 DEF HeldOK, Accounted, Excused
  <2> QED BY <1>2, <2>3
<1>5. CASE NextClosing
  <2>1. UNCHANGED <<held, bad, unknown, trades>> /\ pc = "closing" /\ awaiting = {}
    BY <1>5 DEF NextClosing
  <2>2. ASSUME NEW leg \in held, ~Excused(leg) PROVE Accounted(leg)'
    <3>1. leg \in Legs /\ \E i \in k + 1..PerTrade : leg[1] = trades[i]
      BY <2>1, <2>2 DEF HeldOK, Accounted, TypeOK
    <3>2. leg[1] = trades[k + 1] => leg \in {<<trades[k + 1], a>> : a \in Accounts}
      BY <3>1 DEF Legs
    <3> QED BY <1>3, <1>5, <3>1, <3>2 DEF NextClosing, BeginClosing, Accounted
  <2>3. HeldOK'
    BY <2>1, <2>2 DEF HeldOK, Accounted, Excused
  <2> QED BY <1>2, <2>3
<1>6. CASE AllClosed \/ Reported
  <2>1. UNCHANGED <<held, bad, unknown>> /\ pc' \in {"report", "cooldown"}
    BY <1>6 DEF AllClosed, Reported, CycleReturns
  <2>2. \A leg \in held : Excused(leg)
    BY <1>3, <1>6 DEF AllClosed, Reported, HeldOK, Accounted
  <2>3. HeldOK'
    BY <2>1, <2>2 DEF HeldOK, Accounted, Excused
  <2> QED BY <1>2, <2>3
<1>7. ASSUME NEW leg, Closed(leg), UNCHANGED bad
      PROVE  \A other \in held' : other \in held /\ (Excused(other) \/ other = leg
                                                      => Excused(other)')
  BY <1>7 DEF Closed, Told, Excused
<1>8. CASE LeadClosed
  <2>1. \A leg \in held' : leg \in held /\ (Excused(leg) \/ leg = LeadLeg => Excused(leg)')
    BY <1>1, <1>7, <1>8 DEF LeadClosed
  <2>2. ASSUME NEW leg \in held', ~Excused(leg)' PROVE Accounted(leg)'
    <3>1. leg \in Legs /\ leg # LeadLeg /\ \E i \in k..PerTrade : leg[1] = trades[i]
      BY <1>8, <2>1, <2>2 DEF LeadClosed, HeldOK, Accounted, TypeOK
    <3>2. leg[1] = trades[k] => leg \in RestLegs
      BY <3>1, LegsOfTrade
    <3> QED BY <1>3, <1>8, <3>1, <3>2 DEF LeadClosed, Accounted
  <2>3. HeldOK'
    BY <2>2 DEF HeldOK, Accounted
  <2> QED BY <1>2, <2>3
<1>9. ASSUME NEW leg \in awaiting, PositionClosed(leg)
      PROVE  ControlOK' /\ HeldOK' /\ RestingOK'
  <2>1. \A other \in held' : other \in held /\ (Excused(other) \/ other = leg
                                                => Excused(other)')
    BY <1>1, <1>7, <1>9 DEF PositionClosed
  <2>2. ASSUME NEW other \in held', ~Excused(other)' PROVE Accounted(other)'
    BY <1>9, <2>1, <2>2 DEF PositionClosed, HeldOK, Accounted
  <2>3. HeldOK'
    BY <2>2 DEF HeldOK, Accounted
  <2> QED BY <1>2, <2>3
<1> QED BY <1>4, <1>5, <1>6, <1>8, <1>9

(* Every step keeps the invariant.                                         *)
LEMMA InvStep == Inv /\ [Next]_vars => Inv'
<1> SUFFICES ASSUME Inv, [Next]_vars PROVE Inv'
  OBVIOUS
<1>1. TypeOK'
  BY TypeStep DEF Inv
<1>2. CountOK'
  BY CountStep DEF Inv
<1>3. CASE Run
  BY <1>1, <1>2, <1>3, RunStepOK DEF Inv
<1>4. CASE TradeCycle
  <2>1. CASE \/ Skip \/ Plan \/ LeadReturns \/ NextOpen \/ AllOpen
             \/ \E leg \in awaiting : MarketOrderAnswered(leg)
    BY <1>1, <1>2, <2>1, OpenStepOK DEF Inv
  <2>2. CASE \/ MonitorReturns \/ LeadClosed \/ NextClosing \/ AllClosed \/ Reported
             \/ \E leg \in awaiting : PositionClosed(leg)
    BY <1>1, <1>2, <2>2, CloseStepOK DEF Inv
  <2>3. CASE \/ PlanFails \/ LeadRaises \/ LeadCloseRaises \/ ReportFails
             \/ \E leg \in awaiting : MarketOrderRaises(leg) \/ PositionCloseRaises(leg)
    <3>1. CycleFails
      BY <2>3, Fails
    <3> QED BY <1>1, <1>2, <3>1, CleanUpOK DEF Inv, CycleFails, CleanUp, StartSweep
  <2> QED BY <1>4, <2>1, <2>2, <2>3 DEF TradeCycle
<1>5. CASE Sweep
  BY <1>1, <1>2, <1>5, SweepStepOK DEF Inv
<1>6. CASE Market
  BY <1>1, <1>2, <1>6, MarketStepOK DEF Inv
<1>7. CASE SetStop
  <2>1. ControlOK' /\ HeldOK' /\ RestingOK'
    BY <1>7 DEF Inv, SetStop, ControlOK, HeldOK, Accounted, RestingOK, MayRest, Excused,
       HasSymbolOf, exchangeVars, sweepVars
  <2> QED BY <1>1, <1>2, <2>1 DEF Inv
<1>8. CASE Cancel
  <2>1. CASE pc' \in {"escaped", "aborted"}
    BY <1>1, <1>2, <2>1, NoSweepOK DEF Inv, HeldOK, Accounted
  <2>2. CASE CleanUp("stop")
    BY <1>1, <1>2, <2>2, CleanUpOK DEF Inv, CleanUp, StartSweep
  <2> QED BY <1>8, <2>1, <2>2 DEF Cancel
<1>9. CASE UNCHANGED vars
  <2>1. ControlOK' /\ HeldOK' /\ RestingOK'
    BY <1>9 DEF Inv, ControlOK, HeldOK, Accounted, RestingOK, MayRest, Excused,
       HasSymbolOf, vars, exchangeVars, sweepVars, controlVars
  <2> QED BY <1>1, <1>2, <2>1 DEF Inv
<1> QED BY <1>3, <1>4, <1>5, <1>6, <1>7, <1>8, <1>9 DEF Next, Bot

-----------------------------------------------------------------------------
(* The theorems.                                                           *)

(* The invariant holds in every state of every run of the bot.             *)
THEOREM Invariance == Spec => []Inv
BY InitInv, InvStep, PTL DEF Spec

(* Every variable keeps its type.                                          *)
THEOREM TypeCorrect == Spec => []TypeOK
<1>1. Inv => TypeOK
  BY DEF Inv
<1> QED BY Invariance, <1>1, PTL

(* Between cycles, while it backs off and when it is done, the bot holds   *)
(* nothing that close_all and DeltaTrade.close were told is closed.        *)
THEOREM RestsFlat == Spec => []FlatAtRest
<1>1. Inv => FlatAtRest
  BY DEF Inv, FlatAtRest, HeldOK, Accounted, AtRest
<1> QED BY Invariance, <1>1, PTL

(* close_all leaves no order resting where the exchange answered it.       *)
THEOREM LeavesNothingResting == Spec => []NothingResting
<1>1. Inv => NothingResting
  BY DEF Inv, NothingResting, RestingOK, MayRest
<1> QED BY Invariance, <1>1, PTL

(* Both: neither positions nor orders.                                     *)
THEOREM RestsClean == Spec => []CleanAtRest
BY RestsFlat, LeavesNothingResting, PTL DEF CleanAtRest

(* run gives up after MaxFailures failures in a row, and only then.        *)
THEOREM CrashesByStreak == Spec => []CrashedByStreak
<1>1. Inv => CrashedByStreak
  BY DEF Inv, CrashedByStreak, CountOK, AtRest
<1> QED BY Invariance, <1>1, PTL
=============================================================================
