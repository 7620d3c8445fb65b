---------------------------- MODULE FillContract ----------------------------
(***************************************************************************)
(* What a call of fill_limit_order promises to the trade that makes it,    *)
(* whatever orders it takes: it buys (or sells) its quantity once.  What   *)
(* it may execute grows beyond that quantity only while the call runs, by  *)
(* lots that slip through between a look at an order and its cancel, and   *)
(* its outcome, once given, stands.                                        *)
(***************************************************************************)
EXTENDS Integers

CONSTANT Qty       (* the quantity the caller asked for                      *)

VARIABLES
  outcome,   (* "open" until the call returns or raises                      *)
  executed,  (* quantity executed by all the orders of the call              *)
  allowed    (* quantity the call may have executed so far                   *)

contractVars == <<outcome, executed, allowed>>

Outcomes == {"returned", "raised"}

Init ==
  /\ outcome = "open"
  /\ executed = 0
  /\ allowed = Qty

WithinAllowance ==
  /\ executed' >= executed
  /\ executed' <= allowed'

(* Orders execute, also those the call has left behind.                    *)
Execute ==
  /\ WithinAllowance
  /\ UNCHANGED <<outcome, allowed>>

(* The call gives up an order, part of which it has not seen execute.      *)
GiveUpOrder ==
  /\ outcome = "open"
  /\ allowed' >= allowed
  /\ WithinAllowance
  /\ UNCHANGED outcome

End ==
  /\ outcome = "open"
  /\ outcome' \in Outcomes
  /\ allowed' >= allowed
  /\ WithinAllowance

Next == Execute \/ GiveUpOrder \/ End

Spec == Init /\ [][Next]_contractVars
=============================================================================
