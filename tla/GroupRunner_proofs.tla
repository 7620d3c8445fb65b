------------------------- MODULE GroupRunner_proofs -------------------------
(***************************************************************************)
(* Proofs about GroupRunner for any number of accounts, any way to deal    *)
(* them and any durations that leave the deadline room for one trade.      *)
(***************************************************************************)
EXTENDS GroupRunner, SequenceTheorems, TLAPS

-----------------------------------------------------------------------------
(* batched deals every account to one group at most.                       *)

(* The places of the i-th group in the order.                              *)
Places(i, size) == ((i - 1) * size + 1)..(i * size)

(* The places of a group lie after those of the groups before it.          *)
LEMMA PlacesApart ==
  ASSUME NEW size \in Nat \ {0}, NEW i \in Nat, NEW j \in Nat, i < j,
         NEW k \in Places(i, size), NEW l \in Places(j, size)
  PROVE  k < l
<1> DEFINE a == i * size
<1> DEFINE b == (j - 1) * size
<1>1. a \in Nat /\ b \in Nat
  OBVIOUS
<1>2. a <= b
  <2>1. PICK d \in Nat : j - 1 = i + d
    <3>1. j - 1 - i \in Nat /\ j - 1 = i + (j - 1 - i)
      OBVIOUS
    <3> QED BY <3>1
  <2>2. (i + d) * size = i * size + d * size /\ d * size \in Nat
    OBVIOUS
  <2> QED BY <2>1, <2>2
<1>3. k <= a /\ b + 1 <= l /\ k \in Int /\ l \in Int
  BY DEF Places
<1> QED BY <1>1, <1>2, <1>3

(* There are places for as many groups as are dealt.                       *)
LEMMA PlacesExist ==
  ASSUME NEW n \in Nat, NEW size \in Nat \ {0}, NEW i \in 1..(n \div size)
  PROVE  Places(i, size) \subseteq 1..n
<1> DEFINE q == n \div size
<1>1. q \in Nat /\ q * size <= n
  OBVIOUS
<1>2. i * size <= q * size
  <2>1. PICK d \in Nat : q = i + d
    <3>1. q - i \in Nat /\ q = i + (q - i)
      BY <1>1
    <3> QED BY <3>1
  <2>2. (i + d) * size = i * size + d * size /\ d * size \in Nat
    OBVIOUS
  <2> QED BY <2>1, <2>2
<1>3. (i - 1) * size \in Nat /\ i * size \in Nat /\ q * size \in Nat
  BY <1>1
<1> HIDE DEF q
<1> QED BY <1>1, <1>2, <1>3 DEF Places

(* A group is the accounts at its places.                                  *)
LEMMA BatchedMembers ==
  ASSUME NEW S, NEW order \in Seq(S), NEW size \in Nat \ {0},
         NEW i \in 1..(Len(order) \div size)
  PROVE  Batched(order, size)[i] = {order[k] : k \in Places(i, size)}
<1> DEFINE m == (i - 1) * size + 1
<1> DEFINE n == i * size
<1> DEFINE part == SubSeq(order, m, n)
<1>1. m \in Int /\ n \in Int
  OBVIOUS
<1>2. \A k \in m..n : order[k] \in S
  BY PlacesExist DEF Places
<1>3. /\ part \in Seq(S)
      /\ Len(part) = IF m <= n THEN n - m + 1 ELSE 0
      /\ \A k \in 1..(n - m + 1) : part[k] = order[m + k - 1]
  <2> HIDE DEF m, n
  <2> QED BY <1>1, <1>2, SubSeqProperties
<1>4. ToSet(part) = {order[k] : k \in m..n}
  <2> HIDE DEF m, n, part
  <2>1. DOMAIN part = 1..(n - m + 1)
    BY <1>1, <1>3
  <2>2. \A k \in DOMAIN part : m + k - 1 \in m..n
    BY <1>1, <2>1
  <2>3. \A k \in m..n : k - m + 1 \in DOMAIN part /\ part[k - m + 1] = order[k]
    <3> SUFFICES ASSUME NEW k \in m..n
                 PROVE  k - m + 1 \in DOMAIN part /\ part[k - m + 1] = order[k]
      OBVIOUS
    <3>1. k - m + 1 \in 1..(n - m + 1) /\ m + (k - m + 1) - 1 = k
      BY <1>1
    <3> QED BY <1>3, <2>1, <3>1
  <2> QED BY <1>3, <2>1, <2>2, <2>3 DEF ToSet
<1> QED BY <1>4 DEF Batched, Places

LEMMA BatchedApart ==
  ASSUME NEW S, NEW order \in Seq(S), IsInjective(order), NEW size \in Nat \ {0},
         NEW i \in 1..(Len(order) \div size)
  PROVE  /\ Batched(order, size)[i] \subseteq S
         /\ \A j \in 1..(Len(order) \div size) :
              i # j => Batched(order, size)[i] \cap Batched(order, size)[j] = {}
<1> DEFINE N == Len(order) \div size
<1>1. \A j \in 1..N : Places(j, size) \subseteq DOMAIN order
  BY PlacesExist
<1>2. \A j \in 1..N : Batched(order, size)[j] = {order[k] : k \in Places(j, size)}
  BY BatchedMembers
<1>3. Batched(order, size)[i] \subseteq S
  BY <1>1, <1>2
<1>4. ASSUME NEW j \in 1..N, i # j
      PROVE  Batched(order, size)[i] \cap Batched(order, size)[j] = {}
  <2>0. N \in Int
    OBVIOUS
  <2>1. i \in Nat /\ j \in Nat
    BY <2>0
  <2>2. \A k \in Places(i, size), l \in Places(j, size) : k # l
    <3> SUFFICES ASSUME NEW k \in Places(i, size), NEW l \in Places(j, size) PROVE k # l
      OBVIOUS
    <3>1. CASE i < j
      BY <2>1, <3>1, PlacesApart DEF Places
    <3>2. CASE j < i
      BY <2>1, <3>2, PlacesApart DEF Places
    <3> QED BY <1>4, <2>1, <3>1, <3>2
  <2> QED BY <1>1, <1>2, <1>4, <2>2 DEF IsInjective
<1> QED BY <1>3, <1>4

-----------------------------------------------------------------------------
(* The inductive invariant.                                                *)

(* Tasks live between the dealing and the end of a round; the event and    *)
(* the clock belong to its end.                                            *)
RoundOK ==
  /\ main \in {"checking", "dealing", "ended", "dead"} => Live = {}
  /\ main \in {"dealing", "running"} => Acceptable
  /\ main \in {"checking", "dealing", "running", "ended", "dead"} => ~stopped
  /\ main \in {"draining", "cancelling"} => stopped /\ Acceptable
  /\ main # "draining" => clock = 0

(* Only a group that has not been told to stop comes back to the gate.     *)
LateOK ==
  \A s \in Live :
    /\ tasks[s].late <= 1
    /\ ~stopped \/ tasks[s].at \in {"stagger", "boot", "gate"} => tasks[s].late = 0

(* A group that opens has no excuse left, one that waits after a failure   *)
(* has one for all that its cleanup left.                                  *)
ExcusesOK ==
  \A s \in Live :
    /\ tasks[s].at \in {"open", "hold", "close", "dump"} => Squad(s) \cap excused = {}
    /\ tasks[s].at = "backoff" => exposed \cap Squad(s) \subseteq excused

(* How long after the stop a group may enter a phase that had opened by    *)
(* then and takes no longer than planned.                                  *)
Larger(m, n) == IF m > n THEN m ELSE n
ReportBy == Larger(Heartbeat + LimitWait, Larger(Heartbeat, LimitWait) + 1)
EntersBy(phase) ==
  CASE phase \in {"open", "hold"} -> 0
    [] phase = "close" -> Heartbeat
    [] phase = "dump" -> Larger(Heartbeat, LimitWait)
    [] phase = "report" -> ReportBy
    [] phase = "backoff" -> ReportBy + 2
    [] OTHER -> ReportBy + 1

InPlan(t) ==
  /\ t.at \notin {"stagger", "boot", "gate"}
  /\ t.age <= Longest(t.at)
  /\ clock <= EntersBy(t.at) + t.age

OnTime ==
  main = "draining" =>
    \A s \in Live : tasks[s].early /\ ~tasks[s].slow => InPlan(tasks[s])

Inv ==
  /\ TypeOK /\ RoundOK /\ OneDriverPerAccount
  /\ LateOK /\ ExcusesOK /\ LeftoversExplained /\ OnTime

-----------------------------------------------------------------------------
(* What a step of a task leaves alone.                                     *)

LEMMA LiveTask ==
  ASSUME TypeOK, NEW s \in Live
  PROVE  s \in Slots /\ tasks[s] \in TaskType
BY DEF TypeOK, Live, NoTask, Phases, InTry, TaskType

(* A task that goes on to another phase.                                   *)
Turns(t, phase) == [t EXCEPT !.at = phase, !.age = 0]

LEMMA TurnsType ==
  ASSUME NEW t \in TaskType, NEW phase \in Phases
  PROVE  /\ Turns(t, phase) \in TaskType
         /\ Turns(t, phase).at = phase
         /\ Turns(t, phase).age = 0
         /\ Turns(t, phase).squad = t.squad
         /\ Turns(t, phase).slow = t.slow
         /\ Turns(t, phase).early = t.early
         /\ Turns(t, phase).late = t.late
BY DEF TaskType, Turns

LEMMA DeadlineType == Deadline \in Nat /\ MaxWait = Deadline
BY RunnerAssumption DEF Deadline, MaxWait

(* The phases that follow a phase, which depends on the event alone.       *)
Follows(from, to) ==
  \/ from = "stagger" /\ to = "boot"
  \/ from = "boot" /\ to = "gate"
  \/ from = "gate" /\ to \in {"cooldown", "cleanup"}
  \/ from = "open" /\ to \in {IF stopped THEN "dump" ELSE "hold", "cleanup"}
  \/ from = "hold" /\ to \in {"close", "dump"}
  \/ from \in {"close", "dump"} /\ to \in {"report", "cleanup"}
  \/ from = "report" /\ to \in {"cooldown", "cleanup"}
  \/ from = "cleanup" /\ to = "backoff"
  \/ from \in {"cooldown", "backoff"} /\ ~stopped /\ to = "gate"
  \/ from = "cooldown" /\ stopped /\ to = "leave"

(* A task ends, goes on, or begins to open.                                *)
Own(t, u) ==
  \/ t.at \in {"boot", "cleanup", "leave", "backoff"} /\ u = NoTask
  \/ \E phase \in Phases : Follows(t.at, phase) /\ u = Turns(t, phase)
  \/ t.at = "gate" /\ u = [Turns(t, "open") EXCEPT !.late = @ + IF stopped THEN 1 ELSE 0]

LEMMA StepOwn ==
  ASSUME TypeOK, NEW s \in Slots, Step(s)
  PROVE  /\ s \in Live
         /\ tasks' = [tasks EXCEPT ![s] = tasks'[s]]
         /\ Own(tasks[s], tasks'[s])
         /\ UNCHANGED <<cfg, main, stopped, clock>>
<1>0. tasks \in [Slots -> TaskType \cup {NoTask}]
  BY DEF TypeOK
<1>a. SUFFICES /\ tasks[s].at \in Phases
               /\ \E u : tasks' = [tasks EXCEPT ![s] = u] /\ Own(tasks[s], u)
  <2>1. PICK u : tasks' = [tasks EXCEPT ![s] = u] /\ Own(tasks[s], u)
    BY <1>a
  <2>2. tasks'[s] = u
    BY <1>0, <2>1
  <2> QED BY <1>a, <2>1, <2>2 DEF Step, Live
<1>b. \A phase : Becomes(s, phase) = [tasks EXCEPT ![s] = Turns(tasks[s], phase)]
  BY DEF Becomes, Turns
<1>c. \A from, to : Follows(from, to) => from \in Phases /\ to \in Phases
  BY DEF Follows, Phases, InTry
<1>d. ASSUME NEW phase, Follows(tasks[s].at, phase), tasks' = Becomes(s, phase)
      PROVE  /\ tasks[s].at \in Phases
             /\ \E u : tasks' = [tasks EXCEPT ![s] = u] /\ Own(tasks[s], u)
  BY <1>b, <1>c, <1>d DEF Own
<1>e. ASSUME tasks[s].at \in {"boot", "cleanup", "leave", "backoff"}, tasks' = Ends(s)
      PROVE  /\ tasks[s].at \in Phases
             /\ \E u : tasks' = [tasks EXCEPT ![s] = u] /\ Own(tasks[s], u)
  BY <1>e DEF Ends, Own, Phases, InTry
<1>1. CASE Started(s) \/ Booted(s) \/ Skip(s) \/ AllOpen(s) \/ Closed(s) \/ Reported(s)
  BY <1>1, <1>d DEF Started, Booted, Skip, AllOpen, Closed, Reported, Follows
<1>2. CASE BootRaises(s) \/ Left(s)
  BY <1>2, <1>e DEF BootRaises, Left
<1>3. CASE OpenBegins(s)
  <2>1. tasks' = [tasks EXCEPT ![s] = [Turns(tasks[s], "open") EXCEPT !.late = @ + IF stopped THEN 1 ELSE 0]]
    BY <1>0, <1>3 DEF OpenBegins, Becomes, Turns
  <2> QED BY <1>3, <2>1 DEF OpenBegins, Own, Phases, InTry
<1>4. CASE HoldEnds(s) \/ CycleFails(s) \/ WaitOver(s)
  BY <1>4, <1>d DEF HoldEnds, CycleFails, WaitOver, Follows
<1>5. CASE FailureCleaned(s)
  BY <1>5, <1>d, <1>e DEF FailureCleaned, Follows
<1>6. CASE WaitInterrupted(s)
  BY <1>6, <1>d, <1>e DEF WaitInterrupted, Follows
<1> QED BY <1>1, <1>2, <1>3, <1>4, <1>5, <1>6 DEF Step

(* The squad and the record of a task go with it.                          *)
LEMMA OwnType ==
  ASSUME TypeOK, NEW t \in TaskType, NEW u, Own(t, u)
  PROVE  \/ u = NoTask
         \/ /\ u \in TaskType /\ u.squad = t.squad /\ u.slow = t.slow
            /\ u.early = t.early /\ u.age = 0
<1>1. ASSUME NEW phase \in Phases, u = Turns(t, phase)
      PROVE  u \in TaskType /\ u.squad = t.squad /\ u.slow = t.slow /\ u.early = t.early /\ u.age = 0
  BY <1>1, TurnsType
<1>2. CASE u = [Turns(t, "open") EXCEPT !.late = @ + IF stopped THEN 1 ELSE 0]
  <2>1. "open" \in Phases
    BY DEF Phases, InTry
  <2> DEFINE v == Turns(t, "open")
  <2>2. v \in TaskType /\ v.squad = t.squad /\ v.slow = t.slow /\ v.early = t.early /\ v.age = 0
    BY <2>1, TurnsType
  <2>3. u = [v EXCEPT !.late = @ + IF stopped THEN 1 ELSE 0]
    BY <1>2
  <2> HIDE DEF v
  <2> QED BY <2>2, <2>3 DEF TaskType
<1> QED BY <1>1, <1>2 DEF Own

(* Only the accounts of the group itself change.                           *)
LEMMA StepAccounts ==
  ASSUME TypeOK, NEW s \in Slots, Step(s)
  PROVE  /\ exposed' \ Squad(s) = exposed \ Squad(s)
         /\ excused' \ Squad(s) = excused \ Squad(s)
<1>1. CASE Booted(s) \/ FailureCleaned(s) \/ Left(s)
  BY <1>1 DEF Booted, FailureCleaned, Left, CleanedUp
<1>2. CASE Started(s) \/ BootRaises(s) \/ Skip(s) \/ OpenBegins(s) \/ AllOpen(s) \/ HoldEnds(s)
           \/ Closed(s) \/ Reported(s) \/ CycleFails(s) \/ WaitOver(s) \/ WaitInterrupted(s)
  BY <1>2 DEF Started, BootRaises, Skip, OpenBegins, AllOpen, HoldEnds, Closed, Reported,
              CycleFails, WaitOver, WaitInterrupted
<1> QED BY <1>1, <1>2 DEF Step

(* The other tasks go on as they were.                                     *)
LEMMA StepFrame ==
  ASSUME TypeOK, NEW s \in Slots, Step(s)
  PROVE  /\ Live' \subseteq Live
         /\ \A r \in Slots : r # s => tasks'[r] = tasks[r] /\ (r \in Live' <=> r \in Live)
         /\ \A r \in Live' : Squad(r)' = Squad(r)
<1>1. s \in Live /\ tasks[s] \in TaskType
  BY StepOwn, LiveTask
<1>2. /\ tasks' = [tasks EXCEPT ![s] = tasks'[s]]
      /\ Own(tasks[s], tasks'[s])
  BY StepOwn
<1>3. \A r \in Slots : r # s => tasks'[r] = tasks[r]
  BY <1>2 DEF TypeOK
<1>4. tasks'[s].at \in Phases => tasks'[s].squad = tasks[s].squad
  BY <1>1, <1>2, OwnType DEF NoTask, Phases, InTry
<1> QED BY <1>1, <1>3, <1>4 DEF Live, Squad

-----------------------------------------------------------------------------
(* What the runner does to the tasks.                                      *)

(* A task that is cancelled cleans up at most, and has not opened late.    *)
Leaving(t) ==
  [at |-> "leave", squad |-> t.squad, age |-> 0, slow |-> FALSE, early |-> FALSE, late |-> 0]

LEMMA CancelledTasks ==
  ASSUME TypeOK, CancelLive, NEW s \in Slots
  PROVE  /\ tasks'[s] = IF s \in Live /\ tasks[s].at \in InTry THEN Leaving(tasks[s]) ELSE NoTask
         /\ s \in Live' => s \in Live /\ tasks[s].at \in InTry /\ tasks'[s] = Leaving(tasks[s])
                           /\ Squad(s)' = Squad(s)
<1>1. tasks'[s] = IF s \in Live THEN Cancelled(tasks[s]) ELSE NoTask
  BY DEF CancelLive
<1>2. tasks'[s] = IF s \in Live /\ tasks[s].at \in InTry THEN Leaving(tasks[s]) ELSE NoTask
  BY <1>1 DEF Cancelled, Caught, NewTask, Leaving
<1>3. s \in Live' => tasks'[s] # NoTask
  BY DEF Live, NoTask, Phases, InTry
<1>4. Leaving(tasks[s]).squad = tasks[s].squad
  BY DEF Leaving
<1> QED BY <1>2, <1>3, <1>4 DEF Squad

LEMMA CancelledType ==
  ASSUME TypeOK, CancelLive
  PROVE  tasks' \in [Slots -> TaskType \cup {NoTask}]
<1>1. tasks' = [s \in Slots |-> tasks'[s]]
  BY DEF CancelLive
<1>2. \A s \in Slots : tasks'[s] \in TaskType \cup {NoTask}
  <2> SUFFICES ASSUME NEW s \in Slots PROVE tasks'[s] \in TaskType \cup {NoTask}
    OBVIOUS
  <2>1. s \in Live => Leaving(tasks[s]) \in TaskType
    BY LiveTask DEF Leaving, TaskType, Phases, InTry
  <2> QED BY <2>1, CancelledTasks
<1> QED BY <1>1, <1>2

(* The end of the interval, and a tick, leave the tasks where they are.    *)
Waited(t, u) ==
  /\ u \in TaskType
  /\ u.at = t.at /\ u.squad = t.squad /\ u.late = t.late

LEMMA MarkedType ==
  ASSUME NEW t \in TaskType, NEW e \in BOOLEAN
  PROVE  /\ Waited(t, [t EXCEPT !.age = 0, !.early = e])
         /\ [t EXCEPT !.age = 0, !.early = e].age = 0
         /\ [t EXCEPT !.age = 0, !.early = e].early = e
BY DEF TaskType, Waited

LEMMA StoppedTasks ==
  ASSUME TypeOK, SetStop, NEW s \in Slots
  PROVE  /\ s \in Live' <=> s \in Live
         /\ s \notin Live => tasks'[s] = NoTask
         /\ s \in Live => /\ Waited(tasks[s], tasks'[s])
                          /\ tasks'[s].age = 0
                          /\ tasks'[s].early = (tasks[s].at \notin {"stagger", "boot", "gate"})
<1>1. tasks'[s] = IF s \in Live
       THEN [tasks[s] EXCEPT !.age = 0, !.early = tasks[s].at \notin {"stagger", "boot", "gate"}]
       ELSE NoTask
  BY DEF SetStop
<1>2. ASSUME s \in Live
      PROVE  /\ Waited(tasks[s], tasks'[s])
             /\ tasks'[s].age = 0
             /\ tasks'[s].early = (tasks[s].at \notin {"stagger", "boot", "gate"})
  <2> DEFINE e == tasks[s].at \notin {"stagger", "boot", "gate"}
  <2>1. tasks[s] \in TaskType
    BY <1>2, LiveTask
  <2>2. e \in BOOLEAN
    OBVIOUS
  <2>3. tasks'[s] = [tasks[s] EXCEPT !.age = 0, !.early = e]
    BY <1>1, <1>2
  <2>4. Waited(tasks[s], tasks'[s]) /\ tasks'[s].age = 0 /\ tasks'[s].early = e
    <3> HIDE DEF e
    <3>1. /\ Waited(tasks[s], [tasks[s] EXCEPT !.age = 0, !.early = e])
          /\ [tasks[s] EXCEPT !.age = 0, !.early = e].age = 0
          /\ [tasks[s] EXCEPT !.age = 0, !.early = e].early = e
      BY <2>1, <2>2, MarkedType, Zenon
    <3> QED BY <2>3, <3>1, Zenon
  <2> QED BY <2>4
<1>3. s \in Live' <=> tasks'[s].at \in Phases
  BY DEF Live
<1> QED BY <1>1, <1>2, <1>3 DEF NoTask, Phases, InTry, Waited, Live

LEMMA TickedTasks ==
  ASSUME TypeOK, Tick, NEW s \in Slots
  PROVE  /\ s \in Live' <=> s \in Live
         /\ s \notin Live => tasks'[s] = NoTask
         /\ s \in Live =>
              /\ Waited(tasks[s], tasks'[s])
              /\ tasks'[s].early = tasks[s].early
              /\ tasks[s].slow => tasks'[s].slow
              /\ ~tasks'[s].slow => /\ tasks[s].age < Longest(tasks[s].at)
                                    /\ tasks'[s].age = tasks[s].age + 1
<1>1. tasks'[s] = IF s \notin Live THEN NoTask
       ELSE IF tasks[s].age < Longest(tasks[s].at) THEN [tasks[s] EXCEPT !.age = @ + 1]
       ELSE [tasks[s] EXCEPT !.slow = TRUE]
  BY DEF Tick
<1>2. ASSUME s \in Live
      PROVE  /\ Waited(tasks[s], tasks'[s])
             /\ tasks'[s].early = tasks[s].early
             /\ tasks[s].slow => tasks'[s].slow
             /\ ~tasks'[s].slow => /\ tasks[s].age < Longest(tasks[s].at)
                                   /\ tasks'[s].age = tasks[s].age + 1
  <2>1. tasks[s] \in TaskType
    BY <1>2, LiveTask
  <2>2. CASE tasks[s].age < Longest(tasks[s].at)
    <3>1. tasks'[s] = [tasks[s] EXCEPT !.age = @ + 1]
      BY <1>1, <1>2, <2>2
    <3> QED BY <2>1, <2>2, <3>1 DEF TaskType, Waited
  <2>3. CASE ~(tasks[s].age < Longest(tasks[s].at))
    <3>1. tasks'[s] = [tasks[s] EXCEPT !.slow = TRUE]
      BY <1>1, <1>2, <2>3
    <3> QED BY <2>1, <3>1 DEF TaskType, Waited
  <2> QED BY <2>2, <2>3
<1>3. s \in Live' <=> tasks'[s].at \in Phases
  BY DEF Live
<1> QED BY <1>1, <1>2, <1>3 DEF NoTask, Phases, InTry, Waited, Live

(* A round begins with a task per group in its slot, and nothing to do.    *)
Fresh(t) == /\ t \in TaskType
            /\ t.at \in {"stagger", "boot"} /\ t.late = 0 /\ t.squad \subseteq Accounts

LEMMA DealtTasks ==
  ASSUME TypeOK, RoundOK, Deal
  PROVE  /\ tasks' \in [Slots -> TaskType \cup {NoTask}]
         /\ \A s \in Slots : s \in Live' => Fresh(tasks'[s])
         /\ \A r, s \in Slots : r \in Live' /\ s \in Live' /\ r # s
              => tasks'[r].squad \cap tasks'[s].squad = {}
<1>1. PICK order \in IF cfg.size # 0 /\ cfg.regroup THEN Orders ELSE {Configured} :
       tasks' = [s \in Slots |->
         IF s[1] = "earlier" THEN tasks[<<"now", s[2]>>]
         ELSE IF s[2] \in DOMAIN Batched(order, IF cfg.size = 0 THEN Len(Configured) ELSE cfg.size)
         THEN NewTask(Batched(order, IF cfg.size = 0 THEN Len(Configured) ELSE cfg.size)[s[2]], s[2] = 1)
         ELSE NoTask]
  BY DEF Deal
<1> DEFINE size == IF cfg.size = 0 THEN Len(Configured) ELSE cfg.size
<1> DEFINE N == Len(order) \div size
<1> DEFINE squads == Batched(order, size)
<1>2. order \in Seq(Accounts) /\ IsInjective(order)
  <2>1. \A o \in Orders : o \in Seq(Accounts) /\ IsInjective(o)
    <3> SUFFICES ASSUME NEW o \in Orders PROVE o \in Seq(Accounts) /\ IsInjective(o)
      OBVIOUS
    <3>1. DOMAIN Configured = 1..Len(Configured) /\ Len(Configured) \in Nat
      BY RunnerAssumption
    <3>2. o \in [1..Len(Configured) -> Accounts] /\ IsInjective(o)
      BY <3>1, RunnerAssumption
    <3> QED BY <3>1, <3>2
  <2> QED BY <2>1, RunnerAssumption
<1>3. size \in Nat \ {0}
  <2>1. Acceptable /\ cfg \in Configs
    BY DEF Deal, RoundOK, TypeOK
  <2>2. cfg.size \in Nat
    BY <2>1, RunnerAssumption
  <2>3. Len(Configured) >= 2 /\ Len(Configured) \in Nat
    BY <2>1, RunnerAssumption DEF Acceptable
  <2> QED BY <2>2, <2>3
<1>4. DOMAIN squads = 1..N
  BY DEF Batched
<1>5. \A i \in 1..N : /\ squads[i] \subseteq Accounts
                      /\ \A j \in 1..N : i # j => squads[i] \cap squads[j] = {}
  <2> SUFFICES ASSUME NEW i \in 1..N
               PROVE  /\ squads[i] \subseteq Accounts
                      /\ \A j \in 1..N : i # j => squads[i] \cap squads[j] = {}
    OBVIOUS
  <2> QED BY <1>2, <1>3, BatchedApart
<1>6. Live = {}
  BY DEF Deal, RoundOK
<1>7. tasks' = [s \in Slots |->
         IF s[1] = "earlier" THEN tasks[<<"now", s[2]>>]
         ELSE IF s[2] \in 1..N THEN NewTask(squads[s[2]], s[2] = 1) ELSE NoTask]
  BY <1>1, <1>4
<1> HIDE DEF size, N, squads
<1>8. \A s \in Slots : \A t : <<"now", s[2]>> \in Slots /\ s[1] \in {"now", "earlier"}
  BY DEF Slots
<1>9. \A s \in Slots : s[1] = "earlier" => tasks'[s] = NoTask
  <2> SUFFICES ASSUME NEW s \in Slots, s[1] = "earlier" PROVE tasks'[s] = NoTask
    OBVIOUS
  <2>1. tasks'[s] = tasks[<<"now", s[2]>>] /\ <<"now", s[2]>> \in Slots
    BY <1>7, <1>8
  <2>2. tasks[<<"now", s[2]>>] \notin TaskType
    BY <1>6, <2>1 DEF Live, TaskType
  <2> QED BY <2>1, <2>2 DEF TypeOK
<1>10. \A s \in Slots : s[1] # "earlier" =>
         IF s[2] \in 1..N
           THEN tasks'[s] = NewTask(squads[s[2]], s[2] = 1) /\ Fresh(tasks'[s])
                /\ tasks'[s].squad = squads[s[2]]
           ELSE tasks'[s] = NoTask
  BY <1>5, <1>7 DEF NewTask, Fresh, TaskType, Phases, InTry
<1>11. \A s \in Slots : s \in Live' => s[1] = "now" /\ s[2] \in 1..N
  <2>1. \A s \in Slots : s \in Live' => tasks'[s] # NoTask
    BY DEF Live, NoTask, Phases, InTry
  <2> QED BY <1>8, <1>9, <1>10, <2>1
<1>12. \A r, s \in Slots : r[1] = s[1] /\ r[2] = s[2] => r = s
  BY DEF Slots
<1>13. \A s \in Slots : tasks'[s] \in TaskType \cup {NoTask}
  <2> SUFFICES ASSUME NEW s \in Slots PROVE tasks'[s] \in TaskType \cup {NoTask}
    OBVIOUS
  <2>1. CASE s[1] = "earlier"
    BY <1>9, <2>1
  <2>2. CASE s[1] # "earlier"
    BY <1>10, <2>2 DEF Fresh
  <2> QED BY <2>1, <2>2
<1> QED BY <1>5, <1>7, <1>10, <1>11, <1>12, <1>13

(* A step in which the runner does not touch the tasks.                    *)
Aside == Refused \/ Checked \/ DealFails \/ AllReturned \/ Regroup \/ Starts

LEMMA AsideFrame == Aside => UNCHANGED <<cfg, tasks, exposed, excused>>
BY DEF Aside, Refused, Checked, DealFails, AllReturned, Regroup, Starts

LEMMA NextCases ==
  ASSUME Next
  PROVE  \/ Aside \/ Deal
         \/ CancelLive /\ main' \in {"cancelling", "interrupted"} /\ (Cancel \/ Interrupt)
         \/ SetStop \/ Tick \/ Dies
         \/ \E s \in Slots : Step(s)
BY DEF Next, Runner, Aside, Cancel, Interrupt

LEMMA DiesTasks ==
  ASSUME Dies
  PROVE  Live' = {}
BY DEF Dies, Live, NoTask, Phases, InTry

-----------------------------------------------------------------------------
(* The initial state satisfies the invariant.                              *)
LEMMA InitInv == Init => Inv
<1> SUFFICES ASSUME Init PROVE Inv
  OBVIOUS
<1>1. Live = {}
  BY DEF Init, Live, NoTask, Phases, InTry
<1>2. TypeOK
  <2>1. clock \in 0..Deadline
    BY DeadlineType DEF Init
  <2>2. tasks \in [Slots -> TaskType \cup {NoTask}]
    BY DEF Init
  <2> QED BY <2>1, <2>2 DEF Init, TypeOK
<1>3. RoundOK
  BY <1>1 DEF Init, RoundOK
<1>4. OneDriverPerAccount /\ LateOK /\ ExcusesOK /\ OnTime
  BY <1>1 DEF OneDriverPerAccount, LateOK, ExcusesOK, OnTime
<1>5. LeftoversExplained
  BY DEF Init, LeftoversExplained
<1> QED BY <1>2, <1>3, <1>4, <1>5 DEF Inv

-----------------------------------------------------------------------------
(* Tasks end before their round does.                                      *)
LEMMA RoundStep == Inv /\ [Next]_vars => RoundOK'
<1> SUFFICES ASSUME TypeOK, RoundOK, [Next]_vars PROVE RoundOK'
  BY DEF Inv
<1>1. cfg' = cfg => (Acceptable' <=> Acceptable)
  BY DEF Acceptable
<1>2. tasks' = tasks => Live' = Live
  BY DEF Live
<1>3. CASE Aside
  <2>1. Live' = Live /\ (Acceptable' <=> Acceptable)
    BY <1>1, <1>2, <1>3, AsideFrame
  <2>2. CASE Refused \/ Checked \/ DealFails
    BY <2>1, <2>2 DEF Refused, Checked, DealFails, RoundOK
  <2>3. CASE AllReturned
    BY <2>1, <2>3 DEF AllReturned, RoundOK
  <2>4. CASE Regroup \/ Starts
    BY <2>1, <2>4 DEF Regroup, Drained, Starts, RoundOK
  <2> QED BY <1>3, <2>2, <2>3, <2>4 DEF Aside
<1>4. CASE Deal
  <2>1. main = "dealing" /\ main' = "running" /\ UNCHANGED <<cfg, stopped, clock>>
    BY <1>4 DEF Deal
  <2> QED BY <1>1, <2>1 DEF RoundOK
<1>5. CASE CancelLive /\ (Cancel \/ Interrupt)
  BY <1>1, <1>5 DEF CancelLive, Cancel, Interrupt, RoundOK
<1>6. CASE SetStop
  BY <1>1, <1>6 DEF SetStop, RoundOK
<1>7. CASE Tick
  BY <1>1, <1>7 DEF Tick, RoundOK
<1>8. CASE Dies
  BY <1>8, DiesTasks DEF Dies, RoundOK
<1>9. ASSUME NEW s \in Slots, Step(s) PROVE RoundOK'
  <2>1. UNCHANGED <<cfg, main, stopped, clock>> /\ Live' \subseteq Live
    BY <1>9, StepOwn, StepFrame
  <2> QED BY <1>1, <2>1 DEF RoundOK
<1>10. CASE UNCHANGED vars
  BY <1>1, <1>2, <1>10 DEF vars, RoundOK
<1> QED BY <1>3, <1>4, <1>5, <1>6, <1>7, <1>8, <1>9, <1>10, NextCases

(* Groups are only made by dealing, and keep their accounts.               *)
LEMMA DriverStep == Inv /\ [Next]_vars => OneDriverPerAccount'
<1> SUFFICES ASSUME TypeOK, RoundOK, OneDriverPerAccount, [Next]_vars
             PROVE  OneDriverPerAccount'
  BY DEF Inv
<1>1. SUFFICES \/ Live' \subseteq Live /\ \A r \in Live' : tasks'[r].squad = tasks[r].squad
               \/ \A r, s \in Slots : r \in Live' /\ s \in Live' /\ r # s
                    => tasks'[r].squad \cap tasks'[s].squad = {}
  BY <1>1 DEF OneDriverPerAccount, Squad, Live
<1>2. CASE Aside
  BY <1>2, AsideFrame DEF Live
<1>3. CASE Deal
  BY <1>3, DealtTasks
<1>4. CASE CancelLive
  <2>1. Live' \subseteq Slots
    BY DEF Live
  <2>2. \A r \in Live' : r \in Live /\ Squad(r)' = Squad(r)
    BY <1>4, <2>1, CancelledTasks
  <2> QED BY <2>2 DEF Squad
<1>5. CASE SetStop
  <2>1. Live' \subseteq Slots
    BY DEF Live
  <2> QED BY <1>5, <2>1, StoppedTasks DEF Waited
<1>6. CASE Tick
  <2>1. Live' \subseteq Slots
    BY DEF Live
  <2> QED BY <1>6, <2>1, TickedTasks DEF Waited
<1>7. CASE Dies
  BY <1>7, DiesTasks
<1>8. ASSUME NEW s \in Slots, Step(s)
      PROVE  Live' \subseteq Live /\ \A r \in Live' : tasks'[r].squad = tasks[r].squad
  BY <1>8, StepFrame DEF Squad
<1>9. CASE UNCHANGED vars
  BY <1>9 DEF vars, Live
<1> QED BY <1>2, <1>3, <1>4, <1>5, <1>6, <1>7, <1>8, <1>9, NextCases

(* Every step keeps the types, and an excuse is about exposed accounts.    *)
LEMMA TypeStep == Inv /\ [Next]_vars => TypeOK'
<1> SUFFICES ASSUME TypeOK, RoundOK, OneDriverPerAccount, ExcusesOK, [Next]_vars PROVE TypeOK'
  BY DEF Inv
<1>t. Deadline \in Nat /\ 0 \in 0..Deadline
  BY DeadlineType
<1>1. CASE Aside
  <2>1. UNCHANGED <<cfg, tasks, exposed, excused>>
    BY <1>1, AsideFrame
  <2>2. /\ main' \in {"ended", "dealing", "checking"}
        /\ stopped' \in {stopped, FALSE}
        /\ clock' \in {clock, 0}
    BY <1>1 DEF Aside, Refused, Checked, DealFails, AllReturned, Regroup, Starts
  <2> QED BY <1>t, <2>1, <2>2 DEF TypeOK
<1>2. CASE Deal
  <2>1. main' = "running" /\ UNCHANGED <<cfg, stopped, clock, exposed, excused>>
    BY <1>2 DEF Deal
  <2>2. tasks' \in [Slots -> TaskType \cup {NoTask}]
    BY <1>2, DealtTasks
  <2> QED BY <2>1, <2>2 DEF TypeOK
<1>3. CASE CancelLive /\ main' \in {"cancelling", "interrupted"}
  <2>1. /\ clock' = 0 /\ UNCHANGED <<cfg, stopped, exposed>>
        /\ excused' \subseteq excused \cup exposed
    BY <1>3 DEF CancelLive
  <2>2. tasks' \in [Slots -> TaskType \cup {NoTask}]
    BY <1>3, CancelledType
  <2> QED BY <1>3, <1>t, <2>1, <2>2 DEF TypeOK
<1>4. CASE SetStop
  <2>1. main' = "draining" /\ stopped' = TRUE /\ UNCHANGED <<cfg, clock, exposed, excused>>
    BY <1>4 DEF SetStop
  <2>2. \A s \in Slots : tasks'[s] \in TaskType \cup {NoTask}
    BY <1>4, StoppedTasks DEF Waited
  <2>3. tasks' \in [Slots -> TaskType \cup {NoTask}]
    <3>1. tasks' = [s \in Slots |-> tasks'[s]]
      BY <1>4 DEF SetStop
    <3> QED BY <2>2, <3>1
  <2> QED BY <2>1, <2>3 DEF TypeOK
<1>5. CASE Tick
  <2>1. clock < Deadline /\ clock' = clock + 1 /\ UNCHANGED <<cfg, main, stopped, exposed, excused>>
    BY <1>5 DEF Tick
  <2>2. \A s \in Slots : tasks'[s] \in TaskType \cup {NoTask}
    BY <1>5, TickedTasks DEF Waited
  <2>3. tasks' \in [Slots -> TaskType \cup {NoTask}]
    <3>1. tasks' = [s \in Slots |-> tasks'[s]]
      BY <1>5 DEF Tick
    <3> QED BY <2>2, <3>1
  <2>4. clock' \in 0..Deadline
    BY <1>t, <2>1 DEF TypeOK
  <2> QED BY <2>1, <2>3, <2>4 DEF TypeOK
<1>6. CASE Dies
  <2>1. /\ main' = "dead" /\ stopped' = FALSE /\ clock' = 0 /\ UNCHANGED <<cfg, exposed>>
        /\ excused' = excused \cup exposed
        /\ tasks' = [s \in Slots |-> NoTask]
    BY <1>6 DEF Dies
  <2> QED BY <1>t, <2>1 DEF TypeOK
<1>7. ASSUME NEW s \in Slots, Step(s) PROVE TypeOK'
  <2>1. /\ s \in Live /\ tasks' = [tasks EXCEPT ![s] = tasks'[s]]
        /\ UNCHANGED <<cfg, main, stopped, clock>>
    BY <1>7, StepOwn
  <2>2. tasks[s] \in TaskType /\ Own(tasks[s], tasks'[s])
    BY <1>7, <2>1, StepOwn, LiveTask
  <2>3. tasks'[s] \in TaskType \cup {NoTask}
    BY <2>2, OwnType
  <2>4. tasks' \in [Slots -> TaskType \cup {NoTask}]
    BY <2>1, <2>3 DEF TypeOK
  <2>5. Squad(s) \subseteq Accounts
    BY <2>2 DEF Squad, TaskType
  <2>6. exposed' \subseteq Accounts /\ excused' \subseteq exposed'
    <3>1. CASE Booted(s) \/ FailureCleaned(s) \/ Left(s)
      BY <2>5, <3>1 DEF Booted, FailureCleaned, Left, CleanedUp, TypeOK
    <3>2. CASE BootRaises(s) \/ OpenBegins(s)
      BY <2>5, <3>2 DEF BootRaises, OpenBegins, TypeOK
    <3>3. CASE Closed(s)
      <4>1. Squad(s) \cap excused = {}
        BY <2>1, <3>3 DEF Closed, ExcusesOK
      <4> QED BY <3>3, <4>1 DEF Closed, TypeOK
    <3>4. CASE Started(s) \/ Skip(s) \/ AllOpen(s) \/ HoldEnds(s) \/ Reported(s) \/ CycleFails(s)
               \/ WaitOver(s) \/ WaitInterrupted(s)
      <4>1. UNCHANGED <<exposed, excused>>
        BY <3>4 DEF Started, Skip, AllOpen, HoldEnds, Reported, CycleFails, WaitOver, WaitInterrupted
      <4> QED BY <4>1 DEF TypeOK
    <3> QED BY <1>7, <3>1, <3>2, <3>3, <3>4 DEF Step
  <2> QED BY <2>1, <2>4, <2>6 DEF TypeOK
<1>8. CASE UNCHANGED vars
  BY <1>8 DEF vars, TypeOK
<1> QED BY <1>1, <1>2, <1>3, <1>4, <1>5, <1>6, <1>7, <1>8, NextCases

(* A group that has opened late does not come back to the gate.            *)
LEMMA LateStep == Inv /\ [Next]_vars => LateOK'
<1> SUFFICES ASSUME TypeOK, RoundOK, LateOK, [Next]_vars PROVE LateOK'
  BY DEF Inv
<1> DEFINE Punctual(t, told) ==
             /\ t.late <= 1
             /\ ~told \/ t.at \in {"stagger", "boot", "gate"} => t.late = 0
<1>1. SUFFICES ASSUME NEW s \in Slots, s \in Live' PROVE Punctual(tasks'[s], stopped')
  BY <1>1 DEF LateOK, Live
<1>2. s \in Live => Punctual(tasks[s], stopped) /\ tasks[s] \in TaskType
  BY LiveTask DEF LateOK
<1>3. CASE Aside
  <2>1. tasks' = tasks
    BY <1>3, AsideFrame
  <2>2. s \in Live
    BY <1>1, <2>1 DEF Live
  <2>3. stopped' = stopped
    BY <1>3, <2>2 DEF Aside, Refused, Checked, DealFails, AllReturned, Regroup, Drained, Starts
  <2> QED BY <1>2, <2>1, <2>2, <2>3
<1>4. CASE Deal
  <2>1. Fresh(tasks'[s])
    BY <1>1, <1>4, DealtTasks
  <2> QED BY <2>1 DEF Fresh
<1>5. CASE CancelLive
  <2>1. tasks'[s] = Leaving(tasks[s])
    BY <1>1, <1>5, CancelledTasks
  <2>2. Leaving(tasks[s]).late = 0
    BY DEF Leaving
  <2> QED BY <2>1, <2>2
<1>6. CASE SetStop
  <2>1. s \in Live /\ tasks'[s].late = tasks[s].late
    BY <1>1, <1>6, StoppedTasks DEF Waited
  <2>2. ~stopped
    BY <1>6 DEF SetStop, RoundOK
  <2> QED BY <1>2, <2>1, <2>2
<1>7. CASE Tick
  <2>1. s \in Live /\ tasks'[s].late = tasks[s].late /\ tasks'[s].at = tasks[s].at
    BY <1>1, <1>7, TickedTasks DEF Waited
  <2>2. stopped' = stopped
    BY <1>7 DEF Tick
  <2> QED BY <1>2, <2>1, <2>2
<1>8. CASE Dies
  BY <1>1, <1>8, DiesTasks
<1>9. ASSUME NEW r \in Slots, Step(r) PROVE Punctual(tasks'[s], stopped')
  <2>1. stopped' = stopped /\ s \in Live
    BY <1>1, <1>9, StepOwn, StepFrame
  <2>2. CASE s # r
    <3>1. tasks'[s] = tasks[s]
      BY <1>9, <2>2, StepFrame
    <3> QED BY <1>2, <2>1, <3>1
  <2>3. CASE s = r
    <3>1. Own(tasks[s], tasks'[s]) /\ tasks[s] \in TaskType /\ Punctual(tasks[s], stopped)
      BY <1>2, <1>9, <2>1, <2>3, StepOwn
    <3>2. tasks'[s] # NoTask
      BY <1>1 DEF Live, NoTask, Phases, InTry
    <3>3. ASSUME NEW phase \in Phases, Follows(tasks[s].at, phase), tasks'[s] = Turns(tasks[s], phase)
          PROVE  Punctual(tasks'[s], stopped')
      <4>1. tasks'[s].late = tasks[s].late /\ tasks'[s].at = phase
        BY <3>1, <3>3, TurnsType
      <4>2. phase \in {"stagger", "boot", "gate"} =>
              ~stopped \/ tasks[s].at \in {"stagger", "boot", "gate"}
        BY <3>3 DEF Follows
      <4> QED BY <2>1, <3>1, <4>1, <4>2
    <3>4. CASE /\ tasks[s].at = "gate"
               /\ tasks'[s] = [Turns(tasks[s], "open") EXCEPT !.late = @ + IF stopped THEN 1 ELSE 0]
      <4>1. Turns(tasks[s], "open") \in TaskType /\ Turns(tasks[s], "open").late = 0
            /\ Turns(tasks[s], "open").at = "open"
        BY <3>1, <3>4, TurnsType DEF Phases, InTry
      <4>2. /\ tasks'[s].late = Turns(tasks[s], "open").late + IF stopped THEN 1 ELSE 0
            /\ tasks'[s].at = "open"
        BY <3>4, <4>1 DEF TaskType
      <4> QED BY <2>1, <4>1, <4>2
    <3> HIDE DEF Punctual
    <3> QED BY <3>1, <3>2, <3>3, <3>4 DEF Own
  <2> QED BY <2>2, <2>3
<1>10. CASE UNCHANGED vars
  BY <1>1, <1>2, <1>10 DEF vars, Live
<1> QED BY <1>3, <1>4, <1>5, <1>6, <1>7, <1>8, <1>9, <1>10, NextCases

(* An excuse is dropped when the group opens again, and given by whatever  *)
(* ends or sends a group into its backoff.                                 *)
LEMMA ExcuseStep == Inv /\ [Next]_vars => ExcusesOK'
<1> SUFFICES ASSUME TypeOK, RoundOK, OneDriverPerAccount, ExcusesOK, [Next]_vars PROVE ExcusesOK'
  BY DEF Inv
<1> DEFINE Opened(phase) == phase \in {"open", "hold", "close", "dump"}
<1>1. SUFFICES ASSUME NEW s \in Slots, s \in Live'
               PROVE  /\ Opened(tasks'[s].at) => Squad(s)' \cap excused' = {}
                      /\ tasks'[s].at = "backoff" => exposed' \cap Squad(s)' \subseteq excused'
  BY <1>1 DEF ExcusesOK, Live
<1>2. s \in Live => /\ Opened(tasks[s].at) => Squad(s) \cap excused = {}
                    /\ tasks[s].at = "backoff" => exposed \cap Squad(s) \subseteq excused
  BY DEF ExcusesOK
<1>3. CASE Aside \/ UNCHANGED vars
  <2>1. UNCHANGED <<tasks, exposed, excused>>
    BY <1>3, AsideFrame DEF vars
  <2> QED BY <1>1, <1>2, <2>1 DEF Live, Squad
<1>4. CASE Deal
  <2>1. Fresh(tasks'[s])
    BY <1>1, <1>4, DealtTasks
  <2> QED BY <2>1 DEF Fresh
<1>5. CASE CancelLive
  <2>1. tasks'[s] = Leaving(tasks[s])
    BY <1>1, <1>5, CancelledTasks
  <2>2. Leaving(tasks[s]).at = "leave"
    BY DEF Leaving
  <2> QED BY <2>1, <2>2
<1>6. CASE SetStop \/ Tick
  <2>1. s \in Live /\ tasks'[s].at = tasks[s].at /\ tasks'[s].squad = tasks[s].squad
    BY <1>1, <1>6, StoppedTasks, TickedTasks DEF Waited
  <2>2. UNCHANGED <<exposed, excused>>
    BY <1>6 DEF SetStop, Tick
  <2> QED BY <1>2, <2>1, <2>2 DEF Squad
<1>7. CASE Dies
  BY <1>1, <1>7, DiesTasks
<1>8. ASSUME NEW r \in Slots, Step(r)
      PROVE  /\ Opened(tasks'[s].at) => Squad(s)' \cap excused' = {}
             /\ tasks'[s].at = "backoff" => exposed' \cap Squad(s)' \subseteq excused'
  <2>1. s \in Live /\ r \in Live /\ Squad(s)' = Squad(s)
    BY <1>1, <1>8, StepOwn, StepFrame
  <2>2. CASE s # r
    <3>1. tasks'[s] = tasks[s]
      BY <1>8, <2>2, StepFrame
    <3>2. Squad(s) \cap Squad(r) = {}
      BY <2>1, <2>2 DEF OneDriverPerAccount
    <3>3. exposed' \ Squad(r) = exposed \ Squad(r) /\ excused' \ Squad(r) = excused \ Squad(r)
      BY <1>8, StepAccounts
    <3> QED BY <1>2, <2>1, <3>1, <3>2, <3>3
  <2>3. CASE s = r
    <3>0. tasks' = [tasks EXCEPT ![s] = tasks'[s]] /\ s \in DOMAIN tasks
          /\ tasks[s] \in TaskType
      BY <1>8, <2>1, <2>3, StepOwn, LiveTask DEF TypeOK
    <3>a. \A phase : tasks' = Becomes(s, phase) => tasks'[s].at = phase
      BY <3>0 DEF Becomes, TaskType
    <3>b. tasks' = Ends(s) => FALSE
      BY <1>1, <3>0 DEF Ends, Live, NoTask, Phases, InTry
    <3>1. CASE Started(s) \/ BootRaises(s) \/ Booted(s) \/ Skip(s) \/ Closed(s) \/ Reported(s)
               \/ CycleFails(s) \/ WaitOver(s) \/ WaitInterrupted(s) \/ Left(s)
      BY <3>1, <3>a, <3>b DEF Started, BootRaises, Booted, Skip, Closed, Reported, CycleFails,
                       WaitOver, WaitInterrupted, Left
    <3>2. CASE OpenBegins(s)
      <4>1. tasks'[s].at = "open" /\ excused' = excused \ Squad(s)
        BY <3>0, <3>2 DEF OpenBegins, Becomes, TaskType
      <4> QED BY <2>1, <4>1
    <3>3. CASE AllOpen(s) \/ HoldEnds(s)
      <4>1. tasks[s].at \in {"open", "hold"} /\ UNCHANGED <<exposed, excused>>
            /\ tasks'[s].at \in {"dump", "hold", "close"}
        BY <3>3, <3>a DEF AllOpen, HoldEnds
      <4> QED BY <1>2, <2>1, <4>1
    <3>4. CASE FailureCleaned(s)
      <4>1. tasks'[s].at = "backoff"
        BY <3>4, <3>a, <3>b DEF FailureCleaned
      <4>2. exposed' \cap Squad(s) \subseteq excused'
        BY <3>4 DEF FailureCleaned, CleanedUp
      <4> QED BY <2>1, <4>1, <4>2
    <3> QED BY <1>8, <2>3, <3>1, <3>2, <3>3, <3>4 DEF Step
  <2> QED BY <2>2, <2>3
<1> QED BY <1>3, <1>4, <1>5, <1>6, <1>7, <1>8, NextCases

(* A task that ends has cleaned up, or its accounts are excused.           *)
LEMMA LeftStep == Inv /\ [Next]_vars => LeftoversExplained'
<1> SUFFICES ASSUME TypeOK, RoundOK, OneDriverPerAccount, ExcusesOK, LeftoversExplained, [Next]_vars,
                    NEW a \in exposed', \A s \in Live' : a \notin Squad(s)'
             PROVE  a \in excused'
  BY DEF Inv, LeftoversExplained, Driven
<1>1. a \in exposed => a \in excused \/ \E s \in Live : a \in Squad(s)
  BY DEF LeftoversExplained, Driven
<1>2. CASE Aside \/ UNCHANGED vars
  <2>1. UNCHANGED <<tasks, exposed, excused>>
    BY <1>2, AsideFrame DEF vars
  <2> QED BY <1>1, <2>1 DEF Live, Squad
<1>3. CASE Deal
  <2>1. UNCHANGED <<exposed, excused>>
    BY <1>3 DEF Deal
  <2>2. Live = {}
    BY <1>3 DEF Deal, RoundOK
  <2> QED BY <1>1, <2>1, <2>2
<1>4. CASE CancelLive
  <2>1. exposed' = exposed /\ excused' = excused \cup (exposed \cap CutOff)
    BY <1>4 DEF CancelLive
  <2>2. ASSUME NEW s \in Live, a \in Squad(s) PROVE a \in excused'
    <3>1. s \in Slots /\ tasks[s].at \in Phases
      BY DEF Live
    <3>2. tasks[s].at \notin InTry
      <4> SUFFICES ASSUME tasks[s].at \in InTry PROVE FALSE
        OBVIOUS
      <4>1. tasks'[s] = Leaving(tasks[s])
        BY <1>4, <3>1, CancelledTasks
      <4>2. Leaving(tasks[s]).squad = tasks[s].squad /\ Leaving(tasks[s]).at = "leave"
        BY DEF Leaving
      <4>3. s \in Live' /\ Squad(s)' = Squad(s)
        BY <3>1, <4>1, <4>2 DEF Live, Squad, Phases
      <4> QED BY <2>2, <4>3
    <3>3. CASE tasks[s].at = "backoff"
      BY <2>1, <2>2, <3>3 DEF ExcusesOK
    <3>4. CASE tasks[s].at # "backoff"
      <4>1. tasks[s].at \in {"boot", "stagger", "cleanup", "leave"}
        BY <3>1, <3>2, <3>4 DEF Phases
      <4>2. a \in CutOff
        BY <2>2, <4>1 DEF CutOff
      <4> QED BY <2>1, <4>2
    <3> QED BY <3>3, <3>4
  <2> QED BY <1>1, <2>1, <2>2
<1>5. CASE SetStop \/ Tick
  <2>1. UNCHANGED <<exposed, excused>>
    BY <1>5 DEF SetStop, Tick
  <2>2. \A s \in Live : s \in Live' /\ tasks'[s].squad = tasks[s].squad
    <3>1. Live \subseteq Slots
      BY DEF Live
    <3> QED BY <1>5, <3>1, StoppedTasks, TickedTasks DEF Waited
  <2> QED BY <1>1, <2>1, <2>2 DEF Squad
<1>6. CASE Dies
  BY <1>6 DEF Dies
<1>7. ASSUME NEW r \in Slots, Step(r) PROVE a \in excused'
  <2>1. /\ r \in Live
        /\ \A s \in Live : s # r => s \in Live' /\ Squad(s)' = Squad(s)
        /\ r \in Live' => Squad(r)' = Squad(r)
    BY <1>7, StepOwn, StepFrame DEF Live
  <2>2. CASE a \notin Squad(r)
    <3>1. a \in exposed /\ (a \in excused => a \in excused')
      BY <1>7, <2>2, StepAccounts
    <3> QED BY <1>1, <2>1, <2>2, <3>1
  <2>3. CASE a \in Squad(r)
    <3>1. r \notin Live'
      BY <2>1, <2>3
    <3>2. ASSUME NEW phase \in Phases, tasks' = Becomes(r, phase) PROVE FALSE
      <4>1. r \in DOMAIN tasks /\ tasks[r] \in TaskType
        BY <2>1, LiveTask DEF TypeOK
      <4>2. tasks'[r].at = phase
        BY <3>2, <4>1 DEF Becomes, TaskType
      <4> QED BY <3>1, <4>2 DEF Live
    <3>3. CASE Booted(r) \/ FailureCleaned(r) \/ Left(r)
      BY <2>3, <3>3 DEF Booted, FailureCleaned, Left, CleanedUp
    <3>4. CASE BootRaises(r)
      BY <2>3, <3>4 DEF BootRaises
    <3>5. CASE OpenBegins(r)
      <4>1. r \in DOMAIN tasks /\ tasks[r] \in TaskType
        BY <2>1, LiveTask DEF TypeOK
      <4>2. tasks'[r].at = "open"
        BY <3>5, <4>1 DEF OpenBegins, Becomes, TaskType
      <4> QED BY <3>1, <4>2 DEF Live, Phases, InTry
    <3>6. CASE Started(r) \/ Skip(r) \/ AllOpen(r) \/ HoldEnds(r) \/ Closed(r) \/ Reported(r)
               \/ CycleFails(r) \/ WaitOver(r)
      BY <3>6, <3>2 DEF Started, Skip, AllOpen, HoldEnds, Closed, Reported, CycleFails, WaitOver,
                      Phases, InTry
    <3>7. CASE WaitInterrupted(r)
      <4>1. tasks[r].at = "backoff" /\ UNCHANGED <<exposed, excused>>
        BY <3>2, <3>7 DEF WaitInterrupted, Phases, InTry
      <4> QED BY <2>1, <2>3, <4>1 DEF ExcusesOK
    <3> QED BY <1>7, <3>3, <3>4, <3>5, <3>6, <3>7 DEF Step
  <2> QED BY <2>2, <2>3
<1> QED BY <1>2, <1>3, <1>4, <1>5, <1>6, <1>7, NextCases

-----------------------------------------------------------------------------
(* The deadline.                                                           *)

(* The definitions by cases, phase by phase.                               *)
LEMMA PhaseValues ==
  /\ Longest("open") = LimitWait /\ Longest("close") = LimitWait /\ Longest("gate") = GateWait
  /\ Longest("hold") = Heartbeat /\ Longest("cooldown") = 0 /\ Longest("backoff") = 0
  /\ \A phase \in {"stagger", "boot", "dump", "report", "cleanup", "leave"} : Longest(phase) = 1
  /\ EntersBy("open") = 0 /\ EntersBy("hold") = 0 /\ EntersBy("close") = Heartbeat
  /\ EntersBy("dump") = Larger(Heartbeat, LimitWait) /\ EntersBy("report") = ReportBy
  /\ EntersBy("backoff") = ReportBy + 2
  /\ \A phase \in {"stagger", "boot", "gate", "cleanup", "cooldown", "leave"} :
       EntersBy(phase) = ReportBy + 1
<1>1. /\ Longest("open") = LimitWait /\ Longest("close") = LimitWait /\ Longest("gate") = GateWait
      /\ Longest("hold") = Heartbeat /\ Longest("cooldown") = 0 /\ Longest("backoff") = 0
  BY DEF Longest
<1>2. \A phase \in {"stagger", "boot", "dump", "report", "cleanup", "leave"} : Longest(phase) = 1
  BY DEF Longest
<1>3. /\ EntersBy("open") = 0 /\ EntersBy("hold") = 0 /\ EntersBy("close") = Heartbeat
      /\ EntersBy("dump") = Larger(Heartbeat, LimitWait) /\ EntersBy("report") = ReportBy
  /\ EntersBy("backoff") = ReportBy + 2
  BY DEF EntersBy
<1>4. \A phase \in {"stagger", "boot", "gate", "cleanup", "cooldown", "leave"} :
        EntersBy(phase) = ReportBy + 1
  BY DEF EntersBy
<1> QED BY <1>1, <1>2, <1>3, <1>4

LEMMA Durations ==
  /\ LimitWait \in Nat /\ Heartbeat \in Nat /\ Duration \in Nat /\ Grace \in Nat /\ GateWait \in Nat
  /\ Heartbeat + 3 < LimitWait + Duration + Grace
BY RunnerAssumption

(* A group that had opened by the stop enters the next phase in time.      *)
LEMMA PhaseInTime ==
  ASSUME stopped, NEW from, NEW to, Follows(from, to),
         from \notin {"stagger", "boot", "gate"}
  PROVE  /\ to \notin {"stagger", "boot", "gate"}
         /\ EntersBy(from) + Longest(from) <= EntersBy(to)
<1> USE Durations, PhaseValues DEF ReportBy, Larger
<1>1. CASE from = "open"
  <2>1. to \in {"dump", "cleanup"}
    BY <1>1 DEF Follows
  <2> QED BY <1>1, <2>1
<1>2. CASE from = "hold"
  <2>1. to \in {"close", "dump"}
    BY <1>2 DEF Follows
  <2> QED BY <1>2, <2>1
<1>3. CASE from \in {"close", "dump"}
  <2>1. to \in {"report", "cleanup"}
    BY <1>3 DEF Follows
  <2>2. ReportBy \in Nat /\ Heartbeat + LimitWait <= ReportBy
        /\ Larger(Heartbeat, LimitWait) + 1 <= ReportBy
    OBVIOUS
  <2>3. EntersBy(from) + Longest(from) <= ReportBy
    <3>1. CASE from = "close"
      BY <2>2, <3>1
    <3>2. CASE from = "dump"
      BY <2>2, <3>2
    <3> QED BY <1>3, <3>1, <3>2
  <2>4. EntersBy(to) \in {ReportBy, ReportBy + 1} /\ EntersBy(from) + Longest(from) \in Nat
    BY <1>3, <2>1
  <2> QED BY <2>1, <2>2, <2>3, <2>4
<1>4. CASE from = "report"
  <2>1. to \in {"cooldown", "cleanup"}
    BY <1>4 DEF Follows
  <2> QED BY <1>4, <2>1
<1>5. CASE from = "cleanup"
  <2>1. to = "backoff"
    BY <1>5 DEF Follows
  <2> QED BY <1>5, <2>1
<1>6. CASE from = "cooldown"
  <2>1. to = "leave"
    BY <1>6 DEF Follows
  <2> QED BY <1>6, <2>1
<1>7. CASE from = "backoff"
  BY <1>7 DEF Follows
<1> QED BY <1>1, <1>2, <1>3, <1>4, <1>5, <1>6, <1>7 DEF Follows

(* It is through with everything before the deadline.                      *)
LEMMA PlanEndsInTime ==
  ASSUME NEW phase \in Phases, phase \notin {"stagger", "boot", "gate"}
  PROVE  /\ EntersBy(phase) \in Nat /\ Longest(phase) \in Nat
         /\ EntersBy(phase) + Longest(phase) < Deadline
<1> USE Durations, PhaseValues DEF ReportBy, Larger, Deadline
<1>1. CASE phase \in {"open", "hold"}
  BY <1>1
<1>2. CASE phase = "close"
  BY <1>2
<1>3. CASE phase = "dump"
  BY <1>3
<1>4. CASE phase = "report"
  BY <1>4
<1>5. CASE phase \in {"cleanup", "cooldown", "backoff", "leave"}
  <2>1. \/ EntersBy(phase) = ReportBy + 1 /\ Longest(phase) \in {0, 1}
        \/ EntersBy(phase) = ReportBy + 2 /\ Longest(phase) = 0
    BY <1>5
  <2>2. ReportBy \in Nat /\ ReportBy + 2 < Deadline
    OBVIOUS
  <2> QED BY <2>1, <2>2
<1> QED BY <1>1, <1>2, <1>3, <1>4, <1>5 DEF Phases, InTry

(* The clock is never ahead of the plan of a group that keeps to it.       *)
LEMMA TimeStep == Inv /\ [Next]_vars => OnTime'
<1> SUFFICES ASSUME TypeOK, RoundOK, OnTime, [Next]_vars, main' = "draining",
                    NEW s \in Slots, s \in Live', tasks'[s].early, ~tasks'[s].slow
             PROVE  InPlan(tasks[s])'
  BY DEF Inv, OnTime, Live
<1>1. CASE SetStop
  <2>1. s \in Live /\ tasks'[s].age = 0 /\ tasks'[s].at = tasks[s].at
        /\ tasks'[s].early = (tasks[s].at \notin {"stagger", "boot", "gate"})
    BY <1>1, StoppedTasks DEF Waited
  <2>2. clock' = 0
    BY <1>1 DEF SetStop, RoundOK
  <2>3. tasks[s].at \in Phases \ {"stagger", "boot", "gate"}
    BY <2>1 DEF Live
  <2>4. EntersBy(tasks[s].at) \in Nat /\ Longest(tasks[s].at) \in Nat
    BY <2>3, PlanEndsInTime
  <2> QED BY <2>1, <2>2, <2>3, <2>4 DEF InPlan
<1>2. CASE Tick
  <2>1. /\ s \in Live /\ tasks'[s].at = tasks[s].at
        /\ tasks[s].age < Longest(tasks[s].at) /\ tasks'[s].age = tasks[s].age + 1
        /\ tasks[s].early /\ ~tasks[s].slow
    BY <1>2, TickedTasks DEF Waited
  <2>2. InPlan(tasks[s])
    BY <1>2, <2>1 DEF OnTime, Tick
  <2>3. clock' = clock + 1 /\ clock \in Nat
    BY <1>2, DeadlineType DEF Tick, TypeOK
  <2>4. tasks[s].age \in Nat /\ tasks[s].at \in Phases
    BY <2>1, LiveTask DEF TaskType
  <2>5. EntersBy(tasks[s].at) \in Nat /\ Longest(tasks[s].at) \in Nat
    BY <2>2, <2>4, PlanEndsInTime DEF InPlan
  <2> QED BY <2>1, <2>2, <2>3, <2>4, <2>5 DEF InPlan
<1>3. ASSUME NEW r \in Slots, Step(r) PROVE InPlan(tasks[s])'
  <2>1. main = "draining" /\ clock' = clock /\ stopped /\ s \in Live
    BY <1>3, StepOwn, StepFrame DEF RoundOK
  <2>2. CASE s # r
    <3>1. tasks'[s] = tasks[s]
      BY <1>3, <2>2, StepFrame
    <3> QED BY <2>1, <3>1 DEF OnTime, InPlan
  <2>3. CASE s = r
    <3>1. Own(tasks[s], tasks'[s]) /\ tasks[s] \in TaskType
      BY <1>3, <2>1, <2>3, StepOwn, LiveTask
    <3>2. tasks'[s] # NoTask
      BY DEF Live, NoTask, Phases, InTry
    <3>3. tasks[s].early /\ ~tasks[s].slow
      BY <3>1, <3>2, OwnType
    <3>4. InPlan(tasks[s])
      BY <2>1, <3>3 DEF OnTime
    <3>5. PICK phase \in Phases : Follows(tasks[s].at, phase) /\ tasks'[s] = Turns(tasks[s], phase)
      BY <3>1, <3>2, <3>4 DEF Own, InPlan
    <3>6. tasks'[s].at = phase /\ tasks'[s].age = 0
      BY <3>1, <3>5, TurnsType
    <3>7. /\ phase \notin {"stagger", "boot", "gate"}
          /\ EntersBy(tasks[s].at) + Longest(tasks[s].at) <= EntersBy(phase)
      BY <2>1, <3>4, <3>5, PhaseInTime DEF InPlan
    <3>8. /\ EntersBy(tasks[s].at) \in Nat /\ Longest(tasks[s].at) \in Nat
          /\ EntersBy(phase) \in Nat /\ Longest(phase) \in Nat
      BY <3>1, <3>4, <3>7, PlanEndsInTime DEF InPlan, TaskType
    <3>9. clock \in Nat /\ tasks[s].age \in Nat
      BY <3>1, DeadlineType DEF TypeOK, TaskType
    <3>10. clock <= EntersBy(phase)
      BY <3>4, <3>7, <3>8, <3>9 DEF InPlan
    <3> QED BY <2>1, <3>6, <3>7, <3>8, <3>9, <3>10 DEF InPlan
  <2> QED BY <2>2, <2>3
<1>4. CASE UNCHANGED vars
  <2>1. UNCHANGED <<main, tasks, clock>> /\ s \in Live
    BY <1>4 DEF vars, Live
  <2> QED BY <2>1 DEF OnTime, InPlan
<1>5. CASE Aside \/ Deal \/ (CancelLive /\ main' \in {"cancelling", "interrupted"}) \/ Dies
  BY <1>5 DEF Aside, Refused, Checked, DealFails, AllReturned, Regroup, Starts, Deal, Dies
<1> QED BY <1>1, <1>2, <1>3, <1>4, <1>5, NextCases

-----------------------------------------------------------------------------
(* The invariant holds in every reachable state.                           *)
THEOREM Invariance == Spec => []Inv
<1>1. Inv /\ [Next]_vars => Inv'
  BY TypeStep, RoundStep, DriverStep, LateStep, ExcuseStep, LeftStep, TimeStep DEF Inv
<1> QED BY InitInv, <1>1, PTL DEF Spec

(* The variables of run_groups keep their types.                           *)
THEOREM Types == Spec => []TypeOK
<1>1. Inv => TypeOK
  BY DEF Inv
<1> QED BY <1>1, Invariance, PTL

(* No account is in two groups that trade, however they are dealt anew.    *)
THEOREM OneDriver == Spec => []OneDriverPerAccount
<1>1. Inv => OneDriverPerAccount
  BY DEF Inv
<1> QED BY <1>1, Invariance, PTL

(* The deadline of run_groups has room for a trade that had been opened.   *)
THEOREM DeadlineSuffices == Spec => []CancelledOnlyLate
<1>1. Inv => CancelledOnlyLate
  <2> SUFFICES ASSUME Inv, main = "draining", clock >= MaxWait, NEW s \in Live,
                      tasks[s].early, ~tasks[s].slow
               PROVE  FALSE
    BY DEF CancelledOnlyLate
  <2>1. InPlan(tasks[s])
    BY DEF Inv, OnTime
  <2>2. tasks[s] \in TaskType
    BY LiveTask DEF Inv
  <2>3. clock \in Nat /\ Deadline \in Nat /\ clock >= Deadline
    BY DeadlineType DEF Inv, TypeOK
  <2>4. /\ EntersBy(tasks[s].at) \in Nat /\ Longest(tasks[s].at) \in Nat
        /\ EntersBy(tasks[s].at) + Longest(tasks[s].at) < Deadline
    BY <2>1, <2>2, PlanEndsInTime DEF InPlan, TaskType
  <2> QED BY <2>1, <2>2, <2>3, <2>4 DEF InPlan, TaskType
<1> QED BY <1>1, Invariance, PTL

(* No group walks away from positions that it could still close.           *)
THEOREM Leftovers == Spec => []LeftoversExplained
<1>1. Inv => LeftoversExplained
  BY DEF Inv
<1> QED BY <1>1, Invariance, PTL

(* A group that is told to stop opens one more basket at most.             *)
THEOREM OneMoreTrade == Spec => []OneMoreTradeAfterStop
<1>1. Inv => OneMoreTradeAfterStop
  BY DEF Inv, LateOK, OneMoreTradeAfterStop
<1> QED BY <1>1, Invariance, PTL
=============================================================================
