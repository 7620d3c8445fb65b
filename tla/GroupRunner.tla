---------------------------- MODULE GroupRunner ----------------------------
(***************************************************************************)
(* run_groups (src/strategy/runner.py): the accounts are dealt into groups *)
(* and each group trades in a task of its own; when groups are dealt anew, *)
(* the tasks are told to stop, given a deadline, cancelled if they miss    *)
(* it, and only when all have ended a new round begins.  DeltaStrategy.run *)
(* (DeltaCycle has it in full) is reduced to its phases: what matters here *)
(* is how each of them takes a stop, a cancellation and a failure.         *)
(*                                                                         *)
(* Time counts in ticks, and only from the moment the groups are told to   *)
(* stop.  A task that stays in a phase longer than the code plans for is   *)
(* slow.  The process may die, and start again.                            *)
(***************************************************************************)
EXTENDS Integers, Sequences, SequencesExt, FiniteSets

CONSTANTS
  Configured,   (* the accounts, as the configuration lists them            *)
  Orders,       (* the orders that sorting by balance can put them in       *)
  Configs,      (* the configurations looked at                             *)
  LimitWait,    (* ticks that limit orders may take to open, or to close    *)
  GateWait,     (* ticks of the entry gate and of the plan before it        *)
  Heartbeat,    (* ticks until a group that holds positions sees the stop   *)
  Duration,     (* cfg.trade_duration.max                                   *)
  Grace,        (* the 60 seconds that run_groups adds                      *)
  MaxLeft       (* bound on the accounts that one cleanup leaves exposed    *)

Accounts == ToSet(Configured)

ASSUME RunnerAssumption ==
  /\ Configured \in Seq(Accounts)
  /\ IsInjective(Configured)
  /\ \A o \in Orders : o \in [DOMAIN Configured -> Accounts] /\ IsInjective(o)
  /\ Configs \subseteq [size : Nat \ {1}, regroup : BOOLEAN, usd : BOOLEAN, pct : BOOLEAN,
                        perTrade : Nat \ {0}, symbols : Nat \ {0}]
  /\ \A n \in {LimitWait, GateWait, Heartbeat, Duration, Grace, MaxLeft} : n \in Nat
  /\ Heartbeat + 3 < LimitWait + Duration + Grace

VARIABLES
  cfg,      (* the configuration, size 0 for a single group                 *)
  main,     (* where run_groups is                                          *)
  tasks,    (* number of a group, in this round or an earlier -> its task   *)
  stopped,  (* the stop_event of this round is set                          *)
  clock,    (* ticks since then                                             *)
  exposed,  (* accounts that may have orders or positions                   *)
  excused   (* history: accounts whose last cleanup failed or was cut off   *)

vars == <<cfg, main, tasks, stopped, clock, exposed, excused>>

(* A group has two accounts or more (models.py).                           *)
Slots == {"now", "earlier"} \X (1..(Len(Configured) \div 2))

NoTask == [at |-> "none"]

(* The phases of a task.  "dump" closes positions at the market, "close"   *)
(* by limit orders; "cleanup" is close_all after a failure, "leave" after  *)
(* a stop.                                                                 *)
InTry == {"gate", "open", "hold", "close", "dump", "report", "cooldown"}
Phases == InTry \cup {"stagger", "boot", "cleanup", "backoff", "leave"}

(* Where the code has a task and what it works on.                         *)
Live == {s \in Slots : tasks[s].at \in Phases}
Squad(s) == tasks[s].squad
Driven == UNION {Squad(s) : s \in Live}

(* How long a phase lasts, as far as the code bounds it, once the groups   *)
(* are told to stop.  Single requests take a tick.                         *)
Longest(phase) ==
  CASE phase = "gate" -> GateWait
    [] phase \in {"open", "close"} -> LimitWait
    [] phase = "hold" -> Heartbeat
    [] phase \in {"cooldown", "backoff"} -> 0
    [] OTHER -> 1

Deadline == LimitWait * 2 + Duration + Grace

-----------------------------------------------------------------------------
(* _check_cfg.                                                             *)
Acceptable ==
  LET n == Len(Configured) IN
  /\ cfg.usd # cfg.pct
  /\ n >= 2
  /\ cfg.perTrade > 1 => cfg.symbols = cfg.perTrade
  /\ cfg.size = 0 => n <= 5
  /\ cfg.size # 0 => n % cfg.size = 0

Init ==
  /\ cfg \in Configs
  /\ main = "checking"
  /\ tasks = [s \in Slots |-> NoTask]
  /\ stopped = FALSE
  /\ clock = 0
  /\ exposed = {}
  /\ excused = {}

(* The configuration is refused, or an account cannot be warmed up, is not *)
(* registered, or does not know a symbol.                                  *)
Refused ==
  /\ main = "checking"
  /\ main' = "ended"
  /\ UNCHANGED <<cfg, tasks, stopped, clock, exposed, excused>>

Checked ==
  /\ main = "checking"
  /\ Acceptable
  /\ main' = "dealing"
  /\ UNCHANGED <<cfg, tasks, stopped, clock, exposed, excused>>

(* batched(accs, group_size).                                              *)
Batched(order, size) ==
  [i \in 1..Len(order) \div size |-> ToSet(SubSeq(order, (i - 1) * size + 1, i * size))]

NewTask(squad, first) ==
  [at |-> IF first THEN "boot" ELSE "stagger", squad |-> squad, age |-> 0,
   slow |-> FALSE, early |-> FALSE, late |-> 0]

(* The accounts are sorted by balance if groups are to be dealt anew; every*)
(* group gets a task.                                                      *)
Deal ==
  /\ main = "dealing"
  /\ \E order \in IF cfg.size # 0 /\ cfg.regroup THEN Orders ELSE {Configured} :
       LET squads == Batched(order, IF cfg.size = 0 THEN Len(Configured) ELSE cfg.size) IN
       tasks' = [s \in Slots |->
         IF s[1] = "earlier" THEN tasks[<<"now", s[2]>>]
         ELSE IF s[2] \in DOMAIN squads THEN NewTask(squads[s[2]], s[2] = 1)
         ELSE NoTask]
  /\ main' = "running"
  /\ UNCHANGED <<cfg, stopped, clock, exposed, excused>>

(* A balance cannot be had: run_groups raises.                             *)
DealFails ==
  /\ main = "dealing"
  /\ cfg.size # 0 /\ cfg.regroup
  /\ main' = "ended"
  /\ UNCHANGED <<cfg, tasks, stopped, clock, exposed, excused>>

(* Without regrouping run_groups waits for its tasks.                      *)
AllReturned ==
  /\ main \in {"running", "interrupted"}
  /\ main = "running" => ~(cfg.size # 0 /\ cfg.regroup)
  /\ Live = {}
  /\ main' = "ended"
  /\ stopped' = FALSE
  /\ UNCHANGED <<cfg, tasks, clock, exposed, excused>>

(* The interval is over.                                                   *)
SetStop ==
  /\ main = "running"
  /\ cfg.size # 0 /\ cfg.regroup
  /\ main' = "draining"
  /\ stopped' = TRUE
  /\ tasks' = [s \in Slots |->
       IF s \in Live
         THEN [tasks[s] EXCEPT !.age = 0, !.early = tasks[s].at \notin {"stagger", "boot", "gate"}]
         ELSE NoTask]
  /\ UNCHANGED <<cfg, clock, exposed, excused>>

(* Broken: the next round does not wait for those that were cancelled.     *)
DrainedAtOnce ==
  /\ main \in {"draining", "cancelling"}
  /\ main = "draining" => Live = {}

(* Broken: those that are cancelled are waited for in vain.                *)
DrainedInTime == main = "draining" /\ Live = {}

Drained ==
  /\ main \in {"draining", "cancelling"}
  /\ Live = {}

Regroup ==
  /\ Drained
  /\ main' = "dealing"
  /\ stopped' = FALSE
  /\ clock' = 0
  /\ UNCHANGED <<cfg, tasks, exposed, excused>>

-----------------------------------------------------------------------------
(* What a task goes on to; what a phase left behind is forgotten.          *)
Becomes(s, phase) == [tasks EXCEPT ![s] = [@ EXCEPT !.at = phase, !.age = 0]]
Ends(s) == [tasks EXCEPT ![s] = NoTask]

(* close_all leaves the accounts whose requests failed three times.        *)
CleanedUp(s) ==
  \E left \in {l \in SUBSET Squad(s) : Cardinality(l) <= MaxLeft} :
    /\ exposed' = (exposed \ Squad(s)) \cup left
    /\ excused' = (excused \ Squad(s)) \cup left

Started(s) ==
  /\ tasks[s].at = "stagger"
  /\ tasks' = Becomes(s, "boot")
  /\ UNCHANGED <<exposed, excused>>

(* The balances cannot be had: run raises before it cleans up.             *)
BootRaises(s) ==
  /\ tasks[s].at = "boot"
  /\ tasks' = Ends(s)
  /\ excused' = excused \cup (exposed \cap Squad(s))
  /\ UNCHANGED exposed

Booted(s) ==
  /\ tasks[s].at = "boot"
  /\ tasks' = Becomes(s, "gate")
  /\ CleanedUp(s)

(* No trade this time.                                                     *)
Skip(s) ==
  /\ tasks[s].at = "gate"
  /\ tasks' = Becomes(s, "cooldown")
  /\ UNCHANGED <<exposed, excused>>

OpenBegins(s) ==
  /\ tasks[s].at = "gate"
  /\ tasks' = [Becomes(s, "open") EXCEPT ![s].late = @ + IF stopped THEN 1 ELSE 0]
  /\ exposed' = exposed \cup Squad(s)
  /\ excused' = excused \ Squad(s)

(* A group that must stop by now does not hold what it has opened.         *)
AllOpen(s) ==
  /\ tasks[s].at = "open"
  /\ tasks' = Becomes(s, IF stopped THEN "dump" ELSE "hold")
  /\ UNCHANGED <<exposed, excused>>

(* The planned time is over, which means limit orders may be used, or      *)
(* something is wrong, or the group must stop.                             *)
HoldEnds(s) ==
  /\ tasks[s].at = "hold"
  /\ \E phase \in {"close", "dump"} : tasks' = Becomes(s, phase)
  /\ UNCHANGED <<exposed, excused>>

Closed(s) ==
  /\ tasks[s].at \in {"close", "dump"}
  /\ tasks' = Becomes(s, "report")
  /\ exposed' = exposed \ Squad(s)
  /\ UNCHANGED excused

Reported(s) ==
  /\ tasks[s].at = "report"
  /\ tasks' = Becomes(s, "cooldown")
  /\ UNCHANGED <<exposed, excused>>

(* Any request of a cycle may raise.                                       *)
CycleFails(s) ==
  /\ tasks[s].at \in {"gate", "open", "close", "dump", "report"}
  /\ tasks' = Becomes(s, "cleanup")
  /\ UNCHANGED <<exposed, excused>>

(* Too many failures (DeltaCycle counts them) end the group, and only this *)
(* one, until groups are dealt anew.                                       *)
FailureCleaned(s) ==
  /\ tasks[s].at = "cleanup"
  /\ CleanedUp(s)
  /\ tasks' \in {Ends(s), Becomes(s, "backoff")}

(* Broken: a wait does not look at the event.                              *)
WaitOverDeaf(s) ==
  /\ tasks[s].at \in {"cooldown", "backoff"}
  /\ tasks' = Becomes(s, "gate")
  /\ UNCHANGED <<exposed, excused>>

WaitOver(s) ==
  /\ tasks[s].at \in {"cooldown", "backoff"}
  /\ ~stopped
  /\ tasks' = Becomes(s, "gate")
  /\ UNCHANGED <<exposed, excused>>

(* A stop cuts a cooldown short by a CancelledError, which run catches; in *)
(* a backoff it is raised out of the except clause, and leaves run.        *)
WaitInterrupted(s) ==
  /\ stopped
  /\ \/ tasks[s].at = "cooldown" /\ tasks' = Becomes(s, "leave")
     \/ tasks[s].at = "backoff" /\ tasks' = Ends(s)
  /\ UNCHANGED <<exposed, excused>>

Left(s) ==
  /\ tasks[s].at = "leave"
  /\ tasks' = Ends(s)
  /\ CleanedUp(s)

(* Broken: positions that are held are not cleaned up.                     *)
CaughtUntilOpen == InTry \ {"hold", "close", "dump"}

(* Where run catches a cancellation and cleans up.                         *)
Caught == InTry

Cancelled(t) ==
  IF t.at \in Caught THEN [NewTask(t.squad, TRUE) EXCEPT !.at = "leave"] ELSE NoTask

(* Accounts of tasks that a cancellation reaches inside a cleanup.         *)
CutOff == UNION {Squad(s) : s \in {r \in Live : tasks[r].at \in {"boot", "stagger", "cleanup", "leave"}}}

CancelLive ==
  /\ tasks' = [s \in Slots |-> IF s \in Live THEN Cancelled(tasks[s]) ELSE NoTask]
  /\ excused' = excused \cup (exposed \cap CutOff)
  /\ clock' = 0
  /\ UNCHANGED <<cfg, stopped, exposed>>

(* Broken: the time that positions are held is left out.                   *)
DeadlineWithoutHold == Deadline - Duration

MaxWait == Deadline

(* gather_cancel.                                                          *)
Cancel ==
  /\ main = "draining"
  /\ clock >= MaxWait
  /\ Live # {}
  /\ main' = "cancelling"
  /\ CancelLive

(* The user interrupts, possibly while those that missed the deadline are  *)
(* still cleaning up.                                                      *)
Interrupt ==
  /\ main \in {"running", "draining", "cancelling"}
  /\ main' = "interrupted"
  /\ CancelLive

(* The process dies, and is started again.                                 *)
Dies ==
  /\ main \notin {"checking", "ended", "dead"}
  /\ main' = "dead"
  /\ tasks' = [s \in Slots |-> NoTask]
  /\ stopped' = FALSE /\ clock' = 0
  /\ excused' = excused \cup exposed
  /\ UNCHANGED <<cfg, exposed>>

Starts ==
  /\ main \in {"dead", "ended"}
  /\ main' = "checking"
  /\ UNCHANGED <<cfg, tasks, stopped, clock, exposed, excused>>

Tick ==
  /\ main = "draining"
  /\ clock < Deadline
  /\ clock' = clock + 1
  /\ tasks' = [s \in Slots |->
       IF s \notin Live THEN NoTask
       ELSE IF tasks[s].age < Longest(tasks[s].at) THEN [tasks[s] EXCEPT !.age = @ + 1]
       ELSE [tasks[s] EXCEPT !.slow = TRUE]]
  /\ UNCHANGED <<cfg, main, stopped, exposed, excused>>

-----------------------------------------------------------------------------
Step(s) ==
  /\ \/ Started(s) \/ BootRaises(s) \/ Booted(s)
     \/ Skip(s) \/ OpenBegins(s) \/ AllOpen(s) \/ HoldEnds(s) \/ Closed(s) \/ Reported(s)
     \/ CycleFails(s) \/ FailureCleaned(s) \/ WaitOver(s) \/ WaitInterrupted(s) \/ Left(s)
  /\ UNCHANGED <<cfg, main, stopped, clock>>

Runner == Refused \/ Checked \/ Deal \/ DealFails \/ AllReturned \/ Regroup \/ Cancel
Next ==
  \/ Runner \/ SetStop \/ Tick \/ Interrupt \/ Dies \/ Starts
  \/ \E s \in Slots : Step(s)

(* Requests are answered and sleeps end, and the clock runs; nobody has to *)
(* start, interrupt or kill the process.                                   *)
Fairness ==
  /\ WF_vars(Tick)
  /\ WF_vars(Regroup) /\ WF_vars(Cancel)
  /\ \A s \in Slots : WF_vars(Step(s))

Spec == Init /\ [][Next]_vars /\ Fairness

-----------------------------------------------------------------------------
TaskType ==
  [at : Phases, squad : SUBSET Accounts, age : Nat, slow : BOOLEAN, early : BOOLEAN, late : Nat]

TypeOK ==
  /\ cfg \in Configs
  /\ main \in {"checking", "dealing", "running", "draining", "cancelling",
               "interrupted", "ended", "dead"}
  /\ tasks \in [Slots -> TaskType \cup {NoTask}]
  /\ stopped \in BOOLEAN
  /\ clock \in 0..Deadline
  /\ exposed \subseteq Accounts
  /\ excused \subseteq exposed

(* No account is ever in the hands of two groups, which would undo each    *)
(* other's positions: not within a round, and not across a regrouping that *)
(* had to cancel (gather_cancel waits for the cancelled as well).          *)
OneDriverPerAccount ==
  \A r, s \in Live : r # s => Squad(r) \cap Squad(s) = {}

(* A group is cancelled, and so kept from closing by limit orders, only if *)
(* it was slow, or had not opened when the groups were told to stop: the   *)
(* deadline has no room for the entry gate (runner.py:288).                *)
CancelledOnlyLate ==
  main = "draining" /\ clock >= MaxWait =>
    \A s \in Live : tasks[s].slow \/ ~tasks[s].early

(* What is left on an account that no group looks after was left by a      *)
(* cleanup that failed or was cut off, or by the death of the process:     *)
(* however groups are stopped, cancelled or interrupted, none walks away   *)
(* from positions it could still close.                                    *)
LeftoversExplained == exposed \ Driven \subseteq excused

(* Told to stop, a group opens at most one more basket: the one it was     *)
(* planning, or waiting at the gate for, since neither looks at the event. *)
OneMoreTradeAfterStop == \A s \in Live : tasks[s].late <= 1

(* Told to stop, the groups all end, in time or cancelled, and are dealt   *)
(* anew, unless the user interrupts or the process dies.                   *)
Regroups == main = "draining" ~> main \in {"dealing", "interrupted", "dead"}
=============================================================================
