-------------------------- MODULE ClientPositions --------------------------
(***************************************************************************)
(* How positions are closed: cancel_all_orders, positions, close_position  *)
(* and close_all_positions of every client (src/clients), the requests     *)
(* below them (src/lib/http.py), and the two callers: the `close` command  *)
(* (close_all of src/strategy/runner.py), which goes through the accounts  *)
(* one after the other and stops at the first error, and the cleanup of    *)
(* the strategies (close_all of src/strategy/execution.py), which tries    *)
(* again.                                                                  *)
(*                                                                         *)
(* Sizes are in lots, bids positive.  A position is read, and some time    *)
(* later a market order of the size read is sent: meanwhile the position   *)
(* may have changed, and the order may arrive twice.  ClientOrders says    *)
(* how single orders are cancelled, CloseAll how the cleanup goes over     *)
(* several accounts, which are independent of each other: here it has one. *)
(***************************************************************************)
EXTENDS Integers, Sequences, FiniteSets

CONSTANTS
  Clients,      (* the client classes to look at                             *)
  Accounts,     (* the accounts of the command, in order                     *)
  Main, Other,  (* symbols of the first and of the second list of positions  *)
  MaxSize,      (* bound on a position                                       *)
  MaxTries,     (* max_retries of a request                                  *)
  MaxAttempts,  (* _attempts of the cleanup                                  *)
  MaxRuns       (* bound on the processes started                            *)

Symbols == Main \cup Other

ASSUME PositionsAssumption ==
  /\ Clients \subseteq {"hyperliquid", "hyena", "onyx", "nado", "zero1",
                        "omni", "rise", "ethereal", "pacifica"}
  /\ Len(Accounts) \in Nat \ {0} /\ DOMAIN Accounts = 1..Len(Accounts)
  /\ \A i, j \in DOMAIN Accounts : i # j => Accounts[i] # Accounts[j]
  /\ {MaxSize, MaxTries, MaxAttempts, MaxRuns} \subseteq Nat \ {0}
  /\ Main \cap Other = {}

VARIABLES
  client,    (* the class of the clients                                     *)
  explicit,  (* Onyx: the Other symbols the configuration names              *)
  pos,       (* the positions                                                *)
  resting,   (* symbols with an order on the book: a bid that opens          *)
  late,      (* symbols with such an order in flight that nobody waits for   *)
  session,   (* of each account: "none", "live", "ended"                     *)
  caller,    (* "command" or "cleanup"                                       *)
  stage,     (* what the caller is doing                                     *)
  at,        (* index of the account it is doing it for                      *)
  attempt,   (* attempts of the cleanup begun                                *)
  failed,    (* this attempt failed                                          *)
  runs,      (* processes started                                            *)
  unread,    (* lists of positions not answered yet: "main", "other"         *)
  seen,      (* the positions read and not closed yet                        *)
  req,       (* the market order being requested                             *)
  moved,     (* history: symbols per account whose position may not be what  *)
             (* the caller was told                                          *)
  landed,    (* history: those with an order that came to rest after the     *)
             (* orders were cancelled                                        *)
  refused    (* history: those with an order that the exchange then refused  *)
             (* to cancel, which the client did not notice                   *)

market == <<pos, resting, late>>
process == <<caller, stage, at, attempt, failed, runs>>
reading == <<unread, seen>>
marks == <<landed, refused>>
history == <<moved, marks>>
vars == <<client, explicit, market, session, process, reading, req, history>>

AccountSet == {Accounts[i] : i \in DOMAIN Accounts}

Position(side, size) == [side |-> side, size |-> size]
NoPosition == Position("none", 0)
Flat == [s \in Symbols |-> NoPosition]

Abs(n) == IF n < 0 THEN -n ELSE n
Lesser(m, n) == IF m < n THEN m ELSE n

Signed(side, size) == IF side = "bid" THEN size ELSE -size

MarketOrder(symbol, side, qty, reduce_only) ==
  [symbol |-> symbol, side |-> side, qty |-> qty, reduce_only |-> reduce_only,
   tries |-> 0, done |-> FALSE]

NoRequest == MarketOrder("none", "none", 0, TRUE)

Running == stage \in {"warmup", "cancel", "read", "close"}

Here == Accounts[at]
-----------------------------------------------------------------------------
(* Which client does what.                                                 *)

(* Broken: the isolated positions of Nado are forgotten.                   *)
ListsCrossOnly ==
  CASE client = "hyena"                   -> {"other"}
    [] client \in {"hyperliquid", "onyx"} -> {"main", "other"}
    [] OTHER                              -> {"main"}

(* The lists of positions read: the exchanges on Hyperliquid, of which     *)
(* Hyena knows only its own, and the cross and the isolated ones of Nado.  *)
Lists ==
  CASE client = "hyena"                           -> {"other"}
    [] client \in {"hyperliquid", "onyx", "nado"} -> {"main", "other"}
    [] OTHER                                      -> {"main"}

Holds(list) ==
  IF list = "other" THEN Other
  ELSE IF client \in {"hyperliquid", "onyx", "nado"} THEN Main ELSE Symbols

(* Broken: Onyx takes whatever the account holds.                          *)
MineUnfiltered(s) == TRUE

(* _filter_positions.                                                      *)
Mine(s) ==
  CASE client = "hyena" -> s \in Other
    [] client = "onyx"  -> s \in Main \cup explicit
    [] OTHER            -> TRUE

(* The orders cancel_all_orders asks for: Onyx does not filter those.      *)
Cancels(s) == client = "hyena" => s \in Other

(* cancel_all_orders goes on when the exchange refused to cancel an order: *)
(* nobody reads what cancel_order answers (01, Ethereal), the success of   *)
(* the request (Rise) or the status of each order (Hyperliquid).           *)
Swallows == client \in {"zero1", "ethereal", "rise", "hyperliquid", "hyena", "onyx"}

(* Orders need a session: 01 and Omni open it at the first request and     *)
(* take it for good from then on (the one of 01 lasts a day, the cookie of *)
(* Omni is kept in a file); Rise registers its signer with the exchange.   *)
NeedsSession == client \in {"zero1", "omni", "rise"}

(* The one for which reading positions needs it too.                       *)
ReadsWithSession == client = "omni"

(* May this process send what needs a session?                             *)
Authorized(a) == NeedsSession => session[a] = "live"

-----------------------------------------------------------------------------
(* What the clients read: exchanges send a signed amount, or a size and a  *)
(* side in their own words.                                                *)

Raw(n) == [amount |-> n, size |-> Abs(n),
           side |-> IF n > 0 THEN "buy" ELSE IF n < 0 THEN "sell" ELSE "none"]

BySign(r) ==
  IF r.amount = 0 THEN NoPosition
  ELSE Position(IF r.amount > 0 THEN "bid" ELSE "ask", Abs(r.amount))

BySide(r) ==
  IF r.size = 0 THEN NoPosition
  ELSE Position(IF r.side = "buy" THEN "bid" ELSE "ask", r.size)

HyperliquidPosition(r) == BySign(r)
NadoCrossPosition(r)   == BySign(r)
NadoIsolatedPosition(r) == BySign(r)
OmniPosition(r)        == BySign(r)
ZeroOnePosition(r)     == BySide(r)
EtherealPosition(r)    == BySide(r)
PacificaPosition(r)    == BySide(r)
RisePosition(r)        == BySide(r)

Read(list, r) ==
  CASE client = "nado"     -> IF list = "main" THEN NadoCrossPosition(r)
                                               ELSE NadoIsolatedPosition(r)
    [] client = "omni"     -> OmniPosition(r)
    [] client = "zero1"    -> ZeroOnePosition(r)
    [] client = "ethereal" -> EtherealPosition(r)
    [] client = "pacifica" -> PacificaPosition(r)
    [] client = "rise"     -> RisePosition(r)
    [] OTHER               -> HyperliquidPosition(r)

-----------------------------------------------------------------------------
(* The market order that closes a position: its size, on the other side.   *)

Opposite(side) == IF side = "bid" THEN "ask" ELSE "bid"

(* Broken: an order like any other.                                        *)
CloseByPlainOrder(s, p) == MarketOrder(s, Opposite(p.side), p.size, FALSE)

CloseByMarketOrder(s, p) == MarketOrder(s, Opposite(p.side), p.size, TRUE)

(* Omni closes with a quote for the size, accepted on the side of the sign *)
(* of the amount, for reducing only.                                       *)
OmniClose(s, p) ==
  LET signed == -Signed(p.side, p.size)
  IN  MarketOrder(s, IF signed < 0 THEN "ask" ELSE "bid", Abs(signed), TRUE)

CloseOrder(s, p) == IF client = "omni" THEN OmniClose(s, p) ELSE CloseByMarketOrder(s, p)

(* What the client makes of the answer to such an order, of which so many  *)
(* lots were executed: "closed", or an error.                              *)

(* Nothing executed is an error.                                           *)
HyperliquidMakes(lots) == IF lots = 0 THEN {"error"} ELSE {"closed"}
ZeroOneMakes(lots)     == IF lots = 0 THEN {"error"} ELSE {"closed"}
OmniMakes(lots)        == IF lots = 0 THEN {"error"} ELSE {"closed"}

(* The order was accepted, and that is enough.                             *)
NadoMakes(lots) == {"closed"}
RiseMakes(lots) == {"closed"}

(* The order is looked up after it was accepted, and may not be found yet. *)
EtherealMakes(lots) == {"closed", "error"}
PacificaMakes(lots) == {"closed", "error"}

Makes(lots) ==
  CASE client = "zero1"    -> ZeroOneMakes(lots)
    [] client = "omni"     -> OmniMakes(lots)
    [] client = "nado"     -> NadoMakes(lots)
    [] client = "rise"     -> RiseMakes(lots)
    [] client = "ethereal" -> EtherealMakes(lots)
    [] client = "pacifica" -> PacificaMakes(lots)
    [] OTHER               -> HyperliquidMakes(lots)

-----------------------------------------------------------------------------
(* The signer of Rise, when a caller sets out.                             *)
SignerAtStart(who) == IF who = "command" THEN "none" ELSE "live"

Start(who) == IF who = "command" THEN "warmup" ELSE "cancel"

Init ==
  /\ client \in Clients
  /\ explicit \in SUBSET (IF client = "onyx" THEN Other ELSE {})
  /\ pos \in [AccountSet -> [Symbols -> (-1)..MaxSize]]
  /\ resting \in [AccountSet -> SUBSET Symbols]
  /\ late \in [AccountSet -> SUBSET Symbols]
  /\ caller \in {"command", "cleanup"}
  /\ session \in [AccountSet -> CASE client = "omni" -> {"none", "ended"}
                                  [] client = "rise" -> {SignerAtStart(caller)}
                                  [] OTHER           -> {"none"}]
  /\ stage = Start(caller)
  /\ at = 1
  /\ attempt = 1
  /\ failed = FALSE
  /\ runs = 1
  /\ unread = {}
  /\ seen = Flat
  /\ req = NoRequest
  /\ moved = [a \in AccountSet |-> {}]
  /\ landed = [a \in AccountSet |-> {}]
  /\ refused = [a \in AccountSet |-> {}]

-----------------------------------------------------------------------------
(* The market and the exchange, at any time of a run.                      *)

(* A position changes and the caller is not told.                          *)
Move(a, s, n) ==
  /\ pos' = [pos EXCEPT ![a][s] = n]
  /\ moved' = [moved EXCEPT ![a] = @ \cup {s}]

(* An order on the book executes a lot.                                    *)
RestingFills(a, s) ==
  /\ Running
  /\ s \in resting[a]
  /\ pos[a][s] < MaxSize
  /\ Move(a, s, pos[a][s] + 1)
  /\ \E left \in {resting[a], resting[a] \ {s}} : resting' = [resting EXCEPT ![a] = left]
  /\ UNCHANGED <<client, explicit, late, session, process, reading, req, marks>>

(* An order in flight executes, or comes to rest.                          *)
LateLands(a, s) ==
  /\ Running
  /\ s \in late[a]
  /\ late' = [late EXCEPT ![a] = @ \ {s}]
  /\ \/ /\ pos[a][s] < MaxSize
        /\ Move(a, s, pos[a][s] + 1)
        /\ UNCHANGED <<resting, landed>>
     \/ /\ resting' = [resting EXCEPT ![a] = @ \cup {s}]
        /\ landed' = [landed EXCEPT ![a] = @ \cup {s}]
        /\ UNCHANGED <<pos, moved>>
  /\ UNCHANGED <<client, explicit, session, process, reading, req, refused>>

(* The exchange takes over a position that was read: before, it is as if   *)
(* the position had not been there.                                        *)
Liquidated(a, s) ==
  /\ a = Here /\ seen[s] # NoPosition
  /\ pos[a][s] # 0
  /\ Move(a, s, 0)
  /\ UNCHANGED <<client, explicit, resting, late, session, process, reading, req, marks>>

SessionEnds(a) ==
  /\ Running
  /\ session[a] = "live"
  /\ session' = [session EXCEPT ![a] = "ended"]
  /\ UNCHANGED <<client, explicit, market, process, reading, req, history>>

-----------------------------------------------------------------------------
(* How a stage ends.                                                       *)

(* The cleanup tries again after an attempt in which a request failed.     *)
AttemptFailed ==
  /\ IF attempt < MaxAttempts
     THEN stage' = "cancel" /\ attempt' = attempt + 1 /\ failed' = FALSE
     ELSE stage' = "gave up" /\ UNCHANGED <<attempt, failed>>
  /\ UNCHANGED at

(* An error: the end of the command, but not of the cleanup.               *)
Raise ==
  /\ seen' = Flat
  /\ req' = NoRequest
  /\ \/ /\ caller = "command"
        /\ stage' = "raised"
        /\ unread' = {}
        /\ UNCHANGED <<at, attempt, failed>>
     \/ /\ caller = "cleanup" /\ stage = "cancel"
        /\ stage' = "read"
        /\ unread' = Lists
        /\ failed' = TRUE
        /\ UNCHANGED <<at, attempt>>
     \/ /\ caller = "cleanup" /\ stage # "cancel"
        /\ AttemptFailed
        /\ unread' = {}
  /\ UNCHANGED <<caller, runs>>

(* A first request opens the session; a later one takes what there is,     *)
(* also when it has ended.                                                 *)
ZeroOneSession(st) == IF st = "none" THEN "live" ELSE st
OmniSession(st)    == IF st = "none" THEN "live" ELSE st

Opened ==
  [session EXCEPT ![Here] = CASE client = "zero1" -> ZeroOneSession(@)
                              [] client = "omni"  -> OmniSession(@)
                              [] OTHER            -> @]

(* A warm-up of Rise registers the signer unless it is registered.         *)
RiseSession(st) == "live"

WarmedUp ==
  [session EXCEPT ![Here] = CASE client = "zero1" -> ZeroOneSession(@)
                              [] client = "rise"  -> RiseSession(@)
                              [] OTHER            -> @]

(* The command warms a client up; the strategies have done so at the       *)
(* start.                                                                  *)
Warmup ==
  /\ stage = "warmup"
  /\ \/ /\ session' = WarmedUp
        /\ stage' = "cancel"
        /\ UNCHANGED <<caller, at, attempt, failed, runs, reading, req>>
     \/ Raise /\ UNCHANGED session
  /\ UNCHANGED <<client, explicit, market, history>>

(* cancel_all_orders; some orders may be gone before a request fails.      *)
CancelAll ==
  /\ stage = "cancel"
  /\ session' \in {session, Opened}
  /\ \E gone \in SUBSET {s \in resting[Here] : Cancels(s)} :
       /\ NeedsSession /\ session'[Here] # "live" => gone = {}
       /\ resting' = [resting EXCEPT ![Here] = @ \ gone]
       /\ \/ /\ session' = Opened
             /\ ReadsWithSession => session'[Here] = "live"
             /\ refused' = [refused EXCEPT ![Here] = {s \in resting[Here] \ gone : Cancels(s)}]
             /\ refused'[Here] # {} => Swallows
             /\ stage' = "read"
             /\ unread' = Lists
             /\ UNCHANGED <<caller, at, attempt, failed, runs, seen, req>>
          \/ Raise /\ refused' = [refused EXCEPT ![Here] = {}]
  /\ landed' = [landed EXCEPT ![Here] = {}]
  /\ UNCHANGED <<client, explicit, pos, late, moved>>

(* One list of positions is answered.                                      *)
ReadList(list) ==
  /\ stage = "read"
  /\ list \in unread
  /\ session' = Opened
  /\ ReadsWithSession => session'[Here] = "live"
  /\ seen' = [s \in Symbols |-> IF s \in Holds(list) /\ Mine(s)
                                THEN Read(list, Raw(pos[Here][s])) ELSE seen[s]]
  /\ moved' = [moved EXCEPT ![Here] = @ \ Holds(list)]
  /\ unread' = unread \ {list}
  /\ stage' = IF unread' = {} THEN "close" ELSE "read"
  /\ UNCHANGED <<client, explicit, market, caller, at, attempt, failed, runs, req, marks>>

ReadFails ==
  /\ stage = "read"
  /\ session' \in {session, Opened}
  /\ Raise
  /\ UNCHANGED <<client, explicit, market, history>>

-----------------------------------------------------------------------------
(* Closing what was read, one position after the other.                    *)

ClosePosition(s) ==
  /\ stage = "close"
  /\ req = NoRequest
  /\ seen[s] # NoPosition
  /\ req' = CloseOrder(s, seen[s])
  /\ UNCHANGED <<client, explicit, market, session, process, reading, history>>

(* What the exchange executes of it at most.                               *)
Most ==
  LET p == pos[Here][req.symbol]
  IN  IF ~req.reduce_only                    THEN req.qty
      ELSE IF p * Signed(req.side, 1) >= 0   THEN 0
      ELSE Lesser(req.qty, Abs(p))

Executes(lots) ==
  pos' = [pos EXCEPT ![Here][req.symbol] = @ + Signed(req.side, lots)]

(* Broken: sent again for as long as it takes.                             *)
SendAlways(done) ==
  /\ req' = [req EXCEPT !.done = @ \/ done]
  /\ UNCHANGED <<process, reading>>

(* The answer is lost, or the request is: it is sent again.                *)
SendAgain(done) ==
  IF req.tries + 1 < MaxTries
  THEN /\ req' = [req EXCEPT !.tries = @ + 1, !.done = @ \/ done]
       /\ UNCHANGED <<process, reading>>
  ELSE Raise

(* The client has the answer: it is content, or finds nothing executed, or *)
(* not the order.                                                          *)
Answered(lots) ==
  \/ /\ "closed" \in Makes(lots)
     /\ seen' = [seen EXCEPT ![req.symbol] = NoPosition]
     /\ req' = NoRequest
     /\ UNCHANGED <<process, unread>>
  \/ /\ "error" \in Makes(lots)
     /\ Raise

(* The exchange has the order.                                             *)
OrderArrives ==
  /\ req # NoRequest
  /\ Authorized(Here)
  /\ \E lots \in 0..Most :
       /\ Executes(lots)
       /\ moved' = IF lots < Most THEN [moved EXCEPT ![Here] = @ \cup {req.symbol}] ELSE moved
       /\ \/ Answered(lots)
          \/ SendAgain(TRUE)
  /\ UNCHANGED <<client, explicit, resting, late, session, marks>>

OrderLost ==
  /\ req # NoRequest
  /\ SendAgain(FALSE)
  /\ UNCHANGED <<client, explicit, market, session, history>>

(* The exchange refuses it: for good, because its session has ended, or    *)
(* because it has had it already.                                          *)
OrderRefused ==
  /\ req # NoRequest
  /\ Raise
  /\ UNCHANGED <<client, explicit, market, session, history>>

(* close_all_positions returns.                                            *)
AllClosed ==
  /\ stage = "close"
  /\ req = NoRequest
  /\ seen = Flat
  /\ \/ /\ caller = "command" /\ at < Len(Accounts)
        /\ stage' = "warmup"
        /\ at' = at + 1
        /\ UNCHANGED <<attempt, failed>>
     \/ /\ caller = "cleanup" /\ failed
        /\ AttemptFailed
     \/ /\ IF caller = "command" THEN at = Len(Accounts) ELSE ~failed
        /\ stage' = "returned"
        /\ UNCHANGED <<at, attempt, failed>>
  /\ UNCHANGED <<client, explicit, market, session, caller, runs, reading, req, history>>

-----------------------------------------------------------------------------
Begin(who) ==
  /\ ~Running
  /\ runs < MaxRuns
  /\ runs' = runs + 1
  /\ caller' = who
  /\ stage' = Start(who)
  /\ at' = 1
  /\ attempt' = 1
  /\ failed' = FALSE
  /\ moved' = [a \in AccountSet |-> {}]
  /\ landed' = [a \in AccountSet |-> {}]
  /\ refused' = [a \in AccountSet |-> {}]
  /\ UNCHANGED <<client, explicit, market, reading, req>>

(* The strategy cleans up again later on.                                  *)
CleanAgain ==
  /\ caller = "cleanup"
  /\ Begin("cleanup")
  /\ UNCHANGED session

(* Broken: the cookies are not read back.                                  *)
RestartWithoutCookies(who) ==
  /\ Begin(who)
  /\ session' = [a \in AccountSet |-> "none"]

(* Another process: only the cookies of the last one are left, and what    *)
(* the exchange knows of the signer.                                       *)
Restart(who) ==
  /\ Begin(who)
  /\ session' = IF client = "omni" \/ (client = "rise" /\ who = "command") THEN session
                ELSE [a \in AccountSet |-> IF client = "rise" THEN SignerAtStart(who) ELSE "none"]

Step ==
  \/ Warmup \/ CancelAll
  \/ \E list \in {"main", "other"} : ReadList(list)
  \/ ReadFails
  \/ \E s \in Symbols : ClosePosition(s)
  \/ OrderArrives \/ OrderLost \/ OrderRefused
  \/ AllClosed

Environment ==
  \E a \in AccountSet :
    \/ \E s \in Symbols : RestingFills(a, s) \/ LateLands(a, s) \/ Liquidated(a, s)
    \/ SessionEnds(a)

Next ==
  \/ Step
  \/ Environment
  \/ CleanAgain
  \/ \E who \in {"command", "cleanup"} : Restart(who)

Spec == Init /\ [][Next]_vars /\ WF_vars(Step)
-----------------------------------------------------------------------------
(* The variables hold what they are meant to.                              *)
TypeOK ==
  /\ client \in Clients
  /\ explicit \subseteq Other
  /\ pos \in [AccountSet -> [Symbols -> (-MaxSize)..MaxSize]]
  /\ resting \in [AccountSet -> SUBSET Symbols]
  /\ late \in [AccountSet -> SUBSET Symbols]
  /\ session \in [AccountSet -> {"none", "live", "ended"}]
  /\ caller \in {"command", "cleanup"}
  /\ stage \in {"warmup", "cancel", "read", "close", "returned", "raised", "gave up"}
  /\ at \in DOMAIN Accounts
  /\ attempt \in 1..MaxAttempts
  /\ failed \in BOOLEAN
  /\ runs \in 1..MaxRuns
  /\ unread \subseteq {"main", "other"}
  /\ seen \in [Symbols -> {NoPosition} \cup [side : {"bid", "ask"}, size : 1..MaxSize]]
  /\ req = NoRequest \/ /\ req.symbol \in Symbols
                        /\ req.side \in {"bid", "ask"}
                        /\ req.qty \in 1..MaxSize
                        /\ req.tries \in 0..(MaxTries - 1)
  /\ moved \in [AccountSet -> SUBSET Symbols]
  /\ landed \in [AccountSet -> SUBSET Symbols]
  /\ refused \in [AccountSet -> SUBSET Symbols]

(* A step in which an order of the client executes: every other change of  *)
(* a position leaves the request as it is.                                 *)
Executing == pos' # pos /\ req' # req

(* An order that closes never opens a position or turns one round, however *)
(* stale the size read has become and however often the order arrives:     *)
(* "close is idempotent" (execution.py), through all of its repetitions.   *)
NeverTurnsRound ==
  [][Executing => \A a \in AccountSet, s \in Symbols :
       \/ pos'[a][s] \in 0..pos[a][s]
       \/ -pos'[a][s] \in 0..(-pos[a][s])]_vars

(* The bots of Hyena and Onyx may use one key, hence one account on        *)
(* Hyperliquid: neither closes what belongs to the other (the filters of   *)
(* positions), whichever lists of positions it has read.                   *)
Foreign(s) ==
  \/ client = "hyena" /\ s \notin Other
  \/ client = "onyx" /\ s \in Other \ explicit

ScopeKept ==
  [][Executing => \A a \in AccountSet, s \in Symbols :
       pos'[a][s] # pos[a][s] => ~Foreign(s) /\ a = Here]_vars

(* The accounts the caller takes for closed.                               *)
Finished(i) ==
  \/ i < at
  \/ stage = "returned" /\ i = at

(* Whatever is still held or on the book on an account taken for closed    *)
(* has a reason: it executed or landed after the client looked, a market   *)
(* order executed only in part, or the exchange refused to cancel that     *)
(* very order in an answer of which the client does not read it.           *)
LeftExplained ==
  \A i \in DOMAIN Accounts : Finished(i) =>
    \A s \in Symbols :
      /\ pos[Accounts[i]][s] # 0 => s \in moved[Accounts[i]] \/ Foreign(s)
      /\ s \in resting[Accounts[i]] =>
           s \in landed[Accounts[i]] \cup refused[Accounts[i]] \/ Foreign(s)

(* A session that has ended is replaced by a restart at best (Rise: by a   *)
(* warm-up), and that of Omni, kept in a file, not even then; until then   *)
(* the client closes nothing.                                              *)
EndedIsFinal ==
  [][\A a \in AccountSet : session[a] = "ended" =>
       /\ \/ session'[a] = "ended"
          \/ client = "zero1" /\ runs' # runs
          \/ client = "rise" /\ (runs' # runs \/ stage = "warmup")
       /\ Executing => pos'[a] = pos[a]]_vars

(* The command and the cleanup end, whatever fails however often.          *)
Ends == Running ~> ~Running
=============================================================================
