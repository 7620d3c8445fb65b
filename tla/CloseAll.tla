------------------------------ MODULE CloseAll ------------------------------
(***************************************************************************)
(* close_all (src/strategy/execution.py) and the state on the exchange it  *)
(* works on.  It cancels the resting orders of every account, waits for    *)
(* all the answers, closes the positions of every account, and repeats     *)
(* both stages when some account failed.  It never raises, and tells its   *)
(* caller nothing.                                                         *)
(*                                                                         *)
(* A leg is a symbol on an account.  What the accounts are planned to hold *)
(* is not needed here: a leg is held or flat.  An order or position close  *)
(* that the exchange takes over after the bot stopped waiting for it is in *)
(* flight until the exchange has acted on it.                              *)
(***************************************************************************)
EXTENDS Integers

CONSTANTS
  Symbols,      (* cfg.symbols                                               *)
  Accounts,     (* the accounts of one strategy group                        *)
  MaxAttempts   (* _attempts                                                 *)

ASSUME AttemptsAssumption == MaxAttempts \in Nat \ {0}

VARIABLES
  held,      (* legs with an open position                                   *)
  resting,   (* legs with a limit order on the book that can open a position *)
  orphans,   (* legs with an opening order in flight that nobody waits for   *)
  closers,   (* legs with a reduce-only close in flight nobody waits for     *)
  unknown,   (* history: legs where the exchange did what the bot was not    *)
             (* told of: an order in flight landed, a resting order executed *)
             (* during or between trades, an accepted close filled only in   *)
             (* part, or a cancel was refused where the client does not look *)
  stage,     (* "off", or the stage of the attempt: "cancel", "close"        *)
  attempt,   (* attempts begun                                               *)
  todo,      (* accounts whose answer in this stage is outstanding           *)
  bad        (* accounts that failed in the last attempt                     *)

exchangeVars == <<held, resting, orphans, closers, unknown>>
sweepVars == <<stage, attempt, todo, bad>>

Legs == Symbols \X Accounts

Account(leg) == leg[2]

LegsOf(a) == Symbols \X {a}

(* A leg the bot was told is closed.  An order that landed unseen and now  *)
(* rests there stays unseen.                                               *)
Told(legs) == unknown \ (legs \ resting)

-----------------------------------------------------------------------------
(* The exchange, at any time.                                              *)

(* An opening order nobody waits for executes, or is dropped; a limit      *)
(* order may also come to rest.                                            *)
OrphanLands(leg, limit) ==
  /\ leg \in orphans
  /\ orphans' = orphans \ {leg}
  /\ \/ UNCHANGED <<held, resting, unknown>>
     \/ held' = held \cup {leg} /\ unknown' = unknown \cup {leg} /\ UNCHANGED resting
     \/ /\ limit
        /\ resting' = resting \cup {leg}
        /\ unknown' = unknown \cup {leg}
        /\ UNCHANGED held
  /\ UNCHANGED <<closers, sweepVars>>

CloserLands(leg) ==
  /\ leg \in closers
  /\ closers' = closers \ {leg}
  /\ held' \in {held, held \ {leg}}
  /\ UNCHANGED <<resting, orphans, unknown, sweepVars>>

(* A resting order executes, in part or in full.  That is news to the bot  *)
(* except while it is cleaning up, when it takes every leg for held.       *)
RestingFills(leg, news) ==
  /\ leg \in resting
  /\ held' = held \cup {leg}
  /\ resting' \in {resting, resting \ {leg}}
  /\ unknown' = IF news THEN unknown \cup {leg} ELSE unknown
  /\ UNCHANGED <<orphans, closers, sweepVars>>

Liquidate(leg) ==
  /\ leg \in held
  /\ held' = held \ {leg}
  /\ UNCHANGED <<resting, orphans, closers, unknown, sweepVars>>

-----------------------------------------------------------------------------
(* The sweep.                                                              *)

(* Broken: positions are closed first, with the orders still on the book.  *)
StartSweepWithClose ==
  /\ stage' = "close"
  /\ attempt' = 1
  /\ todo' = Accounts
  /\ bad' = {}

StartSweep ==
  /\ stage' = "cancel"
  /\ attempt' = 1
  /\ todo' = Accounts
  /\ bad' = {}

(* One account answers cancel_all_orders: its orders are gone, except for  *)
(* those the exchange refused to cancel, of which not every client hears   *)
(* (Swallows of ClientOrders).  Or it raises after some or none are gone.  *)
CancelAllOrders(a) ==
  /\ stage = "cancel"
  /\ a \in todo
  /\ todo' = todo \ {a}
  /\ \/ \E kept \in SUBSET (resting \cap LegsOf(a)) :
          /\ resting' = (resting \ LegsOf(a)) \cup kept
          /\ unknown' = unknown \cup kept
          /\ UNCHANGED bad
     \/ /\ \E gone \in SUBSET (resting \cap LegsOf(a)) : resting' = resting \ gone
        /\ bad' = bad \cup {a}
        /\ UNCHANGED unknown
  /\ UNCHANGED <<held, orphans, closers, stage, attempt>>

(* The second gather begins when the first has all its answers.            *)
BeginClose ==
  /\ stage = "cancel"
  /\ todo = {}
  /\ stage' = "close"
  /\ todo' = Accounts
  /\ UNCHANGED <<exchangeVars, attempt, bad>>

(* One account answers close_all_positions: its positions are closed,      *)
(* where the market was deep enough.  Or it raises on the way.             *)
CloseAllPositions(a) ==
  /\ stage = "close"
  /\ a \in todo
  /\ todo' = todo \ {a}
  /\ \/ \E left \in SUBSET (held \cap LegsOf(a)) :
          /\ held' = (held \ LegsOf(a)) \cup left
          /\ unknown' = Told(LegsOf(a)) \cup left
          /\ UNCHANGED bad
     \/ /\ \E gone \in SUBSET (held \cap LegsOf(a)) : held' = held \ gone
        /\ bad' = bad \cup {a}
        /\ UNCHANGED unknown
  /\ UNCHANGED <<resting, orphans, closers, stage, attempt>>

Retry ==
  /\ stage = "close"
  /\ todo = {}
  /\ bad # {}
  /\ attempt < MaxAttempts
  /\ stage' = "cancel"
  /\ todo' = Accounts
  /\ attempt' = attempt + 1
  /\ bad' = {}
  /\ UNCHANGED exchangeVars

SweepStep ==
  \/ \E a \in Accounts : CancelAllOrders(a) \/ CloseAllPositions(a)
  \/ BeginClose
  \/ Retry

(* close_all returns.                                                      *)
SweepOver ==
  /\ stage = "close"
  /\ todo = {}
  /\ bad = {} \/ attempt = MaxAttempts

SweepReturns ==
  /\ SweepOver
  /\ stage' = "off"
  /\ UNCHANGED <<attempt, todo, bad>>
=============================================================================
