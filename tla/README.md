# delta-farmer in TLA+

delta-farmer holds offsetting positions on several accounts of perpetual
exchanges: it opens them, waits, closes them, and starts again, unattended and
with real money.  Everything it knows about the exchange comes from answers to
requests that may fail, arrive late, or be overtaken by the market.  These
modules describe what the code under `src/` does with those answers, TLC checks
them on small instances, and TLAPS proves the safety properties for every value
of the constants.

`PROJECT.json` ties every definition to the source lines it stands for, lists
the runs, the mutants that show each property can fail, the hazards of the code
and the findings.

## 1. The system

| Part | State it keeps | Operations | Source |
|------|----------------|------------|--------|
| Limit-order fill | the current order as last polled, clocks and retries of `LimitOrderWaitState`, `filled_since` | place, poll, extend the wait, reprice, market fallback | `strategy/execution.py:151-361` |
| Entry gate | deadline | poll the book until the spread is good enough | `strategy/execution.py:25-148` |
| Cleanup | attempt, failed accounts | cancel all orders, close all positions, retry | `strategy/execution.py:367-386` |
| Delta cycle | consecutive failures, the running cycle | clean up, plan, open, monitor, close, report, back off | `strategy/cycle.py` |
| Delta trade | legs with side, size and quantity | size, check, open (lead by limit order, the rest by market orders), state, close | `strategy/trade.py` |
| Planning | none | pick the prime account, split the size, balance the quantities | `lib/utils.py:199-276`, `strategy/trade.py:39-172` |
| Group runner | tasks, stop event | warm up, sort by balance, run groups, stop and regroup | `strategy/runner.py` |
| Spread strategy | `active_plan`, failures | watch two exchanges, open both legs, hold, close | `strategy/spread_cycle.py`, `spread_trade.py` |
| Symbols | none | check and filter symbols over exchanges | `strategy/symbols.py` |
| Exchange clients | session, nonces, cached markets | orders, positions, books, balances in each exchange's terms | `clients/*.py` |
| HTTP transport | cookies | request with retries | `lib/http.py` |
| Decorators | cached results | retry, time-limited cache | `lib/decorators.py` |
| Data store | records, time of the last sync | incremental sync, save | `lib/store.py` |
| Telegram reports | statistics since the last report | notify, report at intervals | `lib/telegram.py` |
| Configuration, CLI, telemetry, keys, tables, apps, scripts | | parse, print, sign | `strategy/models.py`, `lib/*`, `apps/*`, `scripts/*` |

How they interact: `runner` starts one `DeltaStrategy` task per group and talks
to it through a stop event and, when it takes too long, task cancellation.  The
strategy calls `DeltaTrade`, which calls `fill_limit_order` for the lead
account and the clients directly for the others; several requests run at once
under `asyncio.gather`.  Errors travel up as exceptions to `run`, which calls
`close_all` and waits.  Nothing but the report statistics, cookies and synced
histories is stored: after a restart the exchange is the only memory, which is
why `run` begins with a cleanup.

What is hard about it:

- the exchange acts between any two requests: orders fill after they were
  polled, positions are liquidated, a request that raised may have been carried
  out;
- `gather` without `return_exceptions` leaves the other requests running when
  one fails, and the cleanup runs beside them;
- timeouts are restarted by fills, extensions and replacements;
- a request whose answer is lost is sent again, also when it was an order;
- an answer says that a request was taken, not that it was carried out: an order
  taken by Nado may execute nothing, and a cancel may have been refused in a part of
  the answer that is not read;
- a file that cannot be written is warned of, and the program goes on without it;
- a position is read, and closed by its size some time later;
- groups of accounts are dealt anew while the old ones may still be busy;
- the bots of all exchanges share one statistics file, two bots may share an
  account, and two commands may write one history;
- stop and cancellation may arrive at any await, also inside an `except` clause;
- the spread strategy never reads its positions.

What makes each part correct:

- *fill*: an order is bought once, a partly filled order is never forgotten, no
  order is left behind, and the wait is bounded;
- *cleanup and cycle*: wherever a cycle fails, each leg is flat afterwards as
  far as the answers allow; the failure limit counts consecutive failures; a
  stop is obeyed in finite time;
- *spread*: with a plan both legs are open and without one none is, through any
  pattern of failing legs, except for a leg whose answer said something else than
  what was executed; a trade is held its minimum time;
- *planning*: sizes fit the balances, hedge sizes add up to the prime size,
  quantities of both sides agree;
- *runner*: no account is traded by two groups at once, also over a regroup;
- *clients*: an order reported filled is filled, one reported canceled can no
  longer fill, and one that is canceled was, unless the exchange refused and the
  client does not read it;
- *store and reports*: no record is skipped by a sync, each trade is reported
  once, as long as the files can be written.

## 2. The modules

| Module | Models | Used by |
|--------|--------|---------|
| `FillContract` | what a call of `fill_limit_order` promises, whatever orders it takes | `LimitOrder` refines it |
| `LimitOrder` | `fill_limit_order` with the exchange and a clock | |
| `CloseAll` | `close_all` and the positions and orders on the exchange | extended by `DeltaCycle` |
| `DeltaCycle` | `DeltaStrategy.run`, `trade_cycle`, `DeltaTrade.open`/`close` | |
| `SpreadCycle` | `SpreadStrategy.run`, `open_spread`, `close_spread` | |
| `GroupRunner` | `run_groups`: dealing accounts into groups, stopping, cancelling and regrouping them | |
| `EntryQuality` | `evaluate_entry_quality`: what entering a market costs, from its book | extended by `TradeWatch` |
| `TradeWatch` | the entry gates and the hold of one basket | |
| `Sizing` | the plan of a delta cycle: prime account, sizes, quantities | |
| `ClientOrders` | what each exchange client answers about its orders | |
| `ClientPositions` | how each client reads and closes positions, below the `close` command and the cleanup | |
| `History` | `DataStore` and the paged histories of the clients | extended by `Reports` |
| `Reports` | the apps' statistics and `scripts/weekly.py` over those files | |
| `TgReport` | the trade statistics behind the Telegram digest, shared by all bots | |
| `MC...` | constants, small instances and symmetry for TLC | |
| `..._proofs` | the theorems: `DeltaCycle`, `ClientOrders`, `GroupRunner`, `ClientPositions`, and together `Sizing` and `LimitOrder` (`Trade_proofs`), `TradeWatch` and `SpreadCycle` (`Strategy_proofs`), `History`, `Reports` and `TgReport` (`Files_proofs`); `Sums_proofs` has the facts on sums and division | |

Operators whose comment begins with "Broken:" are not part of the model: each
is the definition that follows it with a plausible mistake, and is put in its
place to see that a property notices.

### LimitOrder

`pc` is the await the coroutine is in: `sleep` (line 296), `poll`
(`get_order`, 299), `price` (`get_bbo`, 321), `repriceCancel` and `replace`
(`_reprice_limit_order`), `fallbackCancel` and `market`
(`_cancel_or_market_fallback`); `place` stands for the three requests before the
loop.  A step from one await to the next is the code between them.  `seen` is
`order.filled` of the local snapshot, `filled` what the exchange has executed:
they differ because the exchange's `Fill` may come at any time, and the code
computes `Remaining` from the first.  When an order is replaced its numbers move
to `staleFilled` and `staleOpen` (what a refused cancel left on the book).  `refused` and
`unseen` are history variables for the properties.  `PollNothing` is the `None`
of `get_order`, which may come in any state of the order.  `Raise` is any
request failing or the task being cancelled, with the request carried out or
not.  Prices are left out: the drift is small (`ExtendBboStable`) or large
(`StartReprice`), by choice.  Time is in ticks; every await takes at most
`MaxDelay` of them, so bounds are stated in terms of it.

The market order is immediate-or-cancel and may fill in part; the code returns
its answer without looking at the status, and so does `MarketOrder`.

### CloseAll and DeltaCycle

A leg is a symbol on an account; it is `held` or not.  `resting` are opening
limit orders on the book, `orphans` opening orders in flight that nobody waits
for any more, `closers` the same for closes.  `awaiting` are the requests of the
current gather.  `Market` is the exchange: orders in flight land or are dropped,
resting orders execute, positions are liquidated.  Because `close_all` cannot
know about what happens behind its back, or in the parts of an answer that no client
reads, `unknown` (history) records exactly those events: the correctness property
excuses them and nothing else.

`pc` and `why` say where `run` is; `why` tells the three cleanups apart (line
126 at startup, 136 on stop, 139 on failure).  `CycleFails` is the `except
Exception` clause, `Cancel` the `CancelledError` paths: inside the `try` it
leads to a cleanup, at startup, in a cleanup or in the wait of line 156 it
leaves `run`.  `failures` is the program's count, `streak` the true one.

A call of `fill_limit_order` is one step (`LeadReturns`, `LeadRaises`): it
executes something or nothing and may leave an order resting; `LimitOrder` shows
that this is all it can do.  The quantity of a leg is abstracted to held or
flat, so a partial close leaves the leg held.

`BackoffOver` waits for the requests in flight: the shortest backoff is three
minutes, longer than the connect and read timeouts of a request
(`lib/http.py:74`), so by then each has been carried out or dropped.  The
cooldown after a completed cycle needs no such assumption.

### SpreadCycle

`plan` is `active_plan is not None`.  `hold_ready` is not a variable: it is true
whenever a plan exists at the top of the loop, so lines 66-68 are never
reached.  `lost` (history) holds the legs on which the strategy was told
something else than what happened: an opening that was answered and executed
less than ordered or nothing (`OpenAnswered`: the market order of Nado is
immediate-or-cancel and answered OPEN with nothing filled, and `open_spread` takes
any answer for a leg that is open), an order that raised but executed, a failed
rollback, a partial close, a liquidation, or an opening that was cancelled
before `_try_open_trade` returned.  `HedgedOrFlat` is about each leg that is not `lost`,
so trouble on one leg does not excuse the other.

### ClientOrders

`client` is the class of the account's client, one of seven, chosen at the
start.  `truth` is the order on the exchange, `index` what a lookup by id finds,
which follows the truth by `Follow` in its own time.  `told` is the last answer
of `limit_order`, `market_order` ("place") or `get_order` ("poll") to the
caller.  The operators `...Status` and `...Placed` are the mapping of each client
from its exchange's words to `OrderStatus`; they are where the clients differ,
with these facts about their requests:

| Client | `limit_order` answers | `get_order` asks | `cancel_all_orders` |
|--------|-----------------------|------------------|---------------------|
| Hyperliquid (Hyena, Onyx) | from the response | index | lists, cancels those listed, statuses unread |
| Nado | always OPEN | live gateway and archive at once | one request for all |
| 01 | from the fills in the receipt | index | lists, one by one, refusals swallowed |
| Omni | limit OPEN, market FILLED | recent orders | lists, one by one |
| Rise | from the response | open orders, then history | lists, one request per market, success unread |
| Ethereal | by a lookup | index | lists, one by one, answers unread |
| Pacifica | by a lookup | index | lists, one request for all |

`PollOne` is a `get_order` with one source; `AskLive`, `AskArchive` and
`PollBoth` are the two requests of the others and the code that joins their
answers.  `Post` and `Confirm` are the two halves of a placement that is looked
up.  `StartSweep` to `SweepRaises` are `cancel_all_orders`.  What an exchange
does is as free as its documented behaviour allows, and external.  Nado's
archive holds an order that is still open only when it is partly filled: this is
what the comment at `nado.py:546` reports.

`LimitOrder` and `CloseAll` take two things from the clients for granted.  An
order that is placed or polled FILLED is off the book: true except for the
placements of 01 (run `client_filled`).  A cleanup that raises nothing has canceled every
order that was open: true but for an order that the exchange refused to cancel in an
answer that is not read.  01 and Ethereal drop the answers of their cancels, the
`cancel_all_orders` of Rise does not look at the success its `cancel_order` reads, and
Hyperliquid, in both, does not look at the status of each order (`Swallows`).  `refused`
(history) are the orders of which this was so; `VouchedIsOff` excuses them, one by one,
and `CloseAll` lets any order be left by an answered cancel, into `unknown`.  A poll that
says CANCELED ends the call by an exception in `LimitOrder` too, so a filled order of
Nado that is reported CANCELED from a stale snapshot of the archive (section 3) costs a cycle.

### Sizing

What `_trade_cycle` computes between reading the balances and opening, one
action per round of the loop of `find_safe_pair` (`CandidatePoor`,
`CandidateTried`), one for what follows it (`Fallback`), one for the split over
the basket (`PlanTrades`) and one per symbol for quantities and minimums
(`LoadQtys`).  Money is in cents, quantities are in lots and the price is that of
a lot.  `random.randint` is every value of its range, `up` decides a tie that a
float or a truncated quotient may settle either way.  `Carries` is the
comparison of `find_safe_pair` without its floats.  The sizes asked for are
whole cents where `trade_size_usd` may draw any float, and all accounts have the
same minimum.  The first part of `random_partition` makes up for the noise of all the
others, so with more than eleven hedges it can be planned below zero: thirteen
accounts and a prime size of $1.20 give a hedge of -1 cent, which only the
minimum sizes catch (`SizingTypeOK` says "N <= 12").
`DeltaCycle` does not use the numbers: there a leg is held or not.

### GroupRunner

`main` is where `run_groups` is: checking the configuration, dealing the
accounts into groups (`Deal`: sorted by balance when groups are dealt anew, and
cut by `batched`), `running` until the interval is over, `draining` once the stop
event is set (`SetStop`), `cancelling` after the deadline (`Cancel`, the
`gather_cancel` of the code), and back to dealing (`Regroup`).  A task is
`DeltaStrategy.run` reduced to its phases, because what matters here is how each
takes a stop, a cancellation and a failure: a cooldown is cut short and caught, a
backoff is cut short and leaves `run`, the plan and the gate hear nothing, a
cancellation is caught inside the `try` (`Caught`) and nowhere else.
`exposed` are the accounts that may have orders or positions; `excused` (history)
those of them whose last cleanup failed or was cut off.  Time passes only from the
stop to the deadline, the one interval whose length the code computes; a task that stays
in a phase longer than the configuration says is `slow`, one that had not opened
when the stop came is not `early`.  `Interrupt` is the user's Ctrl-C, `Dies` and
`Starts` a crash and a restart, with only the exchange remembering.

### EntryQuality and TradeWatch

`EntryQuality` is a pure function of a book and the lots wanted: eat through
the levels, compare the average prices of both sides.  Averages stay pairs of naturals, so
nothing is rounded.  `TradeWatch` is one basket from its gates to the end of
its hold, with a clock.  Each market has its gate, asking or sleeping;
`Nap` and `Rest` are the minimums that keep a last sleep inside the wait.
A check of the hold (`CheckStarts`, `ReadPosition`, `ReadPrice`, `CheckEnds`) reads the
legs one by one while they move, and may fail and be swallowed (`CheckFails`).
`brokenAt` (history) says since when a leg has in truth been broken, for its
position and for its price apart, since a check reads the one before the other;
it starts with the truth at the opening, which a price that moved behind the
gate may already have settled.
`MarketMoves` changes a book, a price or a position (down only: a liquidation,
possibly in part).  Opening takes no time and never fails, since `DeltaCycle` has that;
a request takes up to `MaxRequest`, and every sleep ends on time.

### ClientPositions

The path from `close_all` down to the market order that closes one position, for
the nine client classes, with two callers: the `close` command (`runner.py`: account
after account, ends at the first error) and the cleanup (`execution.py`: tries
again).  The cleanup's accounts do not affect each other, so it has one here, and
how it goes over several is in `CloseAll`.  The definitions that differ per client
are what it lists and filters (`Lists`, `Mine`, `Cancels`), how it reads a size
and a side (`BySign`, `BySide`), what it makes of an answer (`Makes`), and what it does with a
session that has ended (`NeedsSession`, `Opened`, `WarmedUp`).  A market order is a request
(`ClosePosition`) that `lib/http.py` sends up to `MaxTries` times: `OrderArrives` executes
any part of it and the answer may be lost, `OrderLost` never arrives, `OrderRefused` also
stands for an exchange that recognises a repetition.  `refused` (history) are the
orders the exchange did not cancel in an answer whose refusal is not read
(`Swallows`, as in `ClientOrders`).  That reduce-only orders
do not grow a position is the exchange's doing, and external.  `moved` and
`landed` (history) are the symbols whose position or orders changed after the
caller looked.  A liquidation before the reading is the same as no position, so
`Liquidated` waits for the reading.

### History and Reports

`History` is `DataStore` and the paged request of each client below it.  A sync is
`Opens` (load, freshness check), `Reads` (a page), for Onyx `Confirms` (its filled
orders and the builder's archive), `Saves` (merge by key; the file is open and
empty) and `Writes`; it may fail at a page or at opening the file, be overtaken by a
second command, or die or run out of space over the file.  Onyx keeps a fill only if
its order is listed as filled among the last 2000 or the archive has it: of the trades in
`Doubtful`, whose order was filled in part and then canceled, or is followed by too
many, the order list may say nothing, and the archive has each day three days late, if
at all (`Synced`: a day without a file, or one that failed before a later one, is never
asked for again; `ArchiveSaved`: a failed save is only warned of).  `Dropped` names
these trades.  The paging operators (`HyperliquidFills` to
`EtherealRawPositions`) are where the clients differ.  A trade is a number in the
order of time stamps, and is shown late, on three exchanges first as a draft.  `holes`
says that an answer was missing and the client went on regardless: a failed page
of 01, the order history of Onyx.

`Reports` has no actions of its own: `print_stats` of the eight apps (`...Row`) and
the extractors of `scripts/weekly.py` (`...Stats`, `...Burn`, `ReportRow`,
`ExchangeView`, `LabelInWeeks`, `OffsetWeek`) are operators over whatever file
`History` can leave. A tick of the clock falls on a day (`DayOf`), days form weeks
and years, a year has no whole number of weeks, and a label is a number and an end
without a year, which is what makes selecting by it delicate. A second account has
the other side of the first trade.

### TgReport

`stats` is what a bot counts in memory, `file` the one statistics file all bots
share, `digest` the text that is being sent.  `Starts` loads, `TradeCounted`
counts and saves, `DigestStarts` and `DigestSent` are the two sides of the only
await, after which everything counted is cleared, delivered or not; `Dies` may
leave the file torn.  `pickle_dump` raises nothing, so every save, also the one after
a digest, has three outcomes (`StatsSaved`): written, not opened (the file stays as it
was) and written in part.  The history variables name each way a trade can be lost or
told twice; `unsaved` are the trades no save has put on file since one failed, and
`uncleared` those that stayed on file after their digest.

## 3. What is checked

| Run | Question | Properties | Size |
|-----|----------|------------|------|
| `limit_order` | overfill, completeness, stray orders, bounded wait, termination, refinement | `OrdersAddUp`, `WaitBounded`, `Ends`, `KeepsContract` | 3 lots, timeout 2, 1 retry, delay 1: 175,000 states |
| `delta_cycle` | flat and free of orders at rest, failure count, stop | `CleanAtRest`, `CrashedByStreak`, `StopEnds` | 1 symbol, 2 accounts, limit-order lead, 2 attempts, 2 failures: 786,000 states |
| `delta_basket` | the same at rest over a basket | `CleanAtRest` | 2 symbols, 2 accounts, market orders, 1 attempt, symmetry: 853,000 states |
| `spread` | hedged or flat, minimum hold, stop | `HedgedOrFlat`, `MinimumHold`, `StopEnds` | 2 failures: 12,000 states |
| `client_orders` | are polls true, final answers final, ended orders reported, canceled orders off the book unless refused | `PolledIsTrue`, `VouchedIsOff`, `FinalStaysFinal`, `EndedIsReported` | seven clients, 2 lots, two orders for three of them: 377,000 states |
| `client_filled` | is an order called FILLED off the book? not with 01 | `FilledIsOffBook` | 2 lots |
| `sizing` | sizes fit the balances, hedges add up, symbols and accounts balance | `SizingTypeOK`, `SizesFit`, `HedgesMatchPrime`, `BasketNeutral` | 3 accounts, 3 symbols, 2 sizes, 2 percentages: 2,800 states |
| `trade_watch` | how old verdicts are, how long a hold lasts, what is noticed and when | `TypeOK`, `VerdictsAreFresh`, `HoldEnds`, `BrokenIsNoticed`, `ClosedForCause` | 2 markets, 2 accounts, 3 books, 3 prices, 1 event, symmetry: 3,020,000 states |
| `runner` | one driver per account, who misses the deadline, what is left behind | `OneDriverPerAccount`, `CancelledOnlyLate`, `LeftoversExplained`, `OneMoreTradeAfterStop`, `Regroups` | 4 accounts in one group, in fixed pairs and in pairs dealt anew: 175,000 states |
| `digest` | is every trade reported, and once? | `TradesAccounted`, `AloneIsSafe` | 3 bots, one without Telegram, 2 trades: 807,000 states |
| `reports` | is nothing lost by a sync, do reports agree, do selections select | `TypeOK`, `NothingLost`, `SumsAgree`, `SelectionExact` | 8 exchanges, 2 commands, 3 trades, symmetry: 315,000 states |
| `positions` | is everything closed, nothing turned round, nothing foreign touched | `LeftExplained`, `NeverTurnsRound`, `ScopeKept`, `EndedIsFinal`, `Ends` | 9 clients, 2 accounts, 2 symbols, 2 tries, 2 attempts, 2 processes: 858,000 states |

Some properties are conjunctions of named parts, each with a comment of its own:
`OrdersAddUp` (`OverfillOnlyUnseen`, `FilledMeansTarget`, `NoStrayOrder`),
`CleanAtRest` (`FlatAtRest`, `NothingResting`), `HoldEnds` (`HoldBounded`,
`StopEndsHold`), `AloneIsSafe` (`OverwrittenByOthers`, `ReportedOnce`),
`BasketNeutral` (`ImbalanceBounded`, `AccountsNetOut`), `SumsAgree` (`ReportsAgree`,
`PivotAgrees`, `WeeksAddUp`) and `SelectionExact` (`RangeExact`, `OffsetExact`). The
type invariant of every module but `Reports`, which has no state, is also a theorem;
`sizing`, `trade_watch` and `reports` check it on their instances.

Why the bounds are enough.

- *limit_order*: three lots and one retry let an order fill in part, be replaced,
  fill in part again and be left for a market order, with a fill slipping through
  each time; or the one retry is an extension, in which the first fill counts
  anew.  The clock bound lies above the longest call, so it never stops one
  (`Ends` would fail if it did).
- *delta_cycle, delta_basket*: two accounts are what `gather` needs to have one
  request fail and one left running; two attempts exercise the retry of
  `close_all` and its giving up.  Failures are counted up to `MaxStreak` and not
  beyond, which the code cannot tell: its backoff no longer grows after the
  sixth and its limit is below.  `Alike` permutes symbols and accounts only in
  `delta_basket`, which checks an invariant and no liveness; `CleanSpec` starts
  it with an empty exchange to keep it small.
- *client_orders*: two lots make an order that is partly filled; two orders let
  one be placed while the other is swept, and `MCNext` keeps the second from the
  clients with many states, whose sweeps are like those of the three that have
  it: the proofs cover the rest.
- *sizing*: three accounts give the prime one two hedges to jitter, three symbols
  a basket whose halves have different numbers of symbols, and a total of 61
  cents one that does not halve; a balance of nothing makes candidates fail, and
  one of 20 the fallback and its refusal.
- *trade_watch*: two markets let one gate pass long before the other; two legs
  per market let one be liquidated while the other is read.  The three books are
  cheap, wide, and too thin for a leg; the three prices are the first, one near
  it, and one so far off that a basket bought at it or a leg it moves to is past
  its limit.  One event of the market, at any moment, is enough to break a leg
  while it is read.  Only invariants are checked, so permuting the symbols is
  sound.
- *runner*: four accounts make two pairs that can be dealt differently.  The
  times satisfy `RunnerAssumption` with nothing to spare (4 against 5), and the gate is
  long enough to make a group miss the deadline.  One account left by a cleanup (`MaxLeft`) is
  enough to be left exposed in every phase.  Two of the configurations must be refused.
- *digest*: of three bots two share the file properly, and the silent one saves
  without having loaded.  Two trades let one end while the other is being sent, and
  one be thrown out by the save of the other after a save that failed.
- *reports*: pages of two and three trades make a second page; trades 1 and 2
  are of one transaction; four ticks fall into four ISO weeks and two years;
  trade 2 alone is one that Onyx may not confirm, so its neighbours must be kept;
  points are earned before the programme's first week and in it.  A lookback of 2 exceeds
  `MaxLag + MaxFetch`, as `NothingLost` requires.  Two commands overlap only for
  Hyena (`Overlap`): `DataStore` is the same for all, and Hyena's key is the one
  where merging loses records.  There `MCNext` has the two trades of one
  transaction only; Onyx has the same pages and keys with all three.
- *positions*: `MCInit` has a short, a long of two lots and at most one order that
  can still execute, two of these in all: a second market order on a position
  that has shrunk needs no more.  The code has nine tries and three attempts;
  two of each have a repetition and a giving up.  Two processes let an ended
  session meet a restart.

Deadlock is not checked anywhere: calls, groups, bots and commands end, and the
bounded clocks and counters stop.

Fairness.  `LimitOrder`: the event loop runs a coroutine whose await has
answered, and requests carry a timeout, so the coroutine is not stuck in one
for ever (`WF` of `Coroutine`), and time passes (`WF` of `Tick`).  `Raise` is
no part of `Coroutine`: no request has to fail for the call to end.  The exchange
owes nothing: an order may rest unfilled for ever, and `Ends` holds because of
the timeouts.  `DeltaCycle`: the same for the bot as a whole, including the
waits and the bounded `fill_limit_order`, and every order in flight is executed
or dropped in the end.  Nobody is obliged to stop the bot, and the market may
stand still.  `SpreadCycle`: the same for `Run` only.  `ClientOrders`: who waits
for an order goes on polling it, and the index catches up; `EndedIsReported`
needs both and nothing of the exchange.  `GroupRunner`: time passes, each task
goes on with what it is doing (weakly fair `Step`, per task), and `run_groups`
goes on after its tasks; nobody must stop, interrupt, kill or start the program.
`ClientPositions`: a request is answered or times out (`WF` of `Step`); the
environment owes nothing, and `Ends` holds because tries and attempts are
counted.  `TradeWatch`, `TgReport`, `History`, `Reports` and `Sizing` state no
fairness: their properties are invariants, and where something must happen in
time `TradeWatch` has a bound on its clock instead.

The finding, with its lines in `PROJECT.json`: the client of 01 answers FILLED for a limit
order that executes in part when it is placed, while the rest goes to the book
(`client_filled`).  `fill_limit_order` returns at once on FILLED, so the rest stays on the book
unwatched.

Observations made while modelling.  The properties are stated so as to hold with
them, and say where:

- A partial fill restarts the wait window, so the "limit_wait × (1 + retries)" of
  `readme.md` is not the worst case; `WaitBounded` is the bound that holds.
- The quantity ordered after a cancel comes from the poll before it;
  `OverfillOnlyUnseen` says what can be bought too much.
- `open_spread` reads no status and no `filled`: when Nado takes the order of its leg and
  executes nothing, the strategy holds a trade of which Omni's leg is all there is
  (`HedgedOrFlat` answers for legs that are not `lost`).
- Refusals to cancel go unread in `zero1.py`, `ethereal.py`, `rise.py:831-843` and
  `hyperliquid.py:526-549`: the cleanup then reports success with orders on the book
  (`VouchedIsOff` and `LeftExplained` allow exactly the refused orders).
- After one failing market order the others are still under way when the cleanup
  is over; `FlatAtRest` excuses exactly those legs (`unknown`).
- Nado falls back to the archive when the live order is gone, and can report a
  filled order as CANCELED from a stale snapshot.  FILLED and the executed
  quantity are always true (`PolledIsTrue`).
- `calc_total_from_pct` keeps a margin of 4 percent and `find_safe_pair` one of
  10: with balances of 50 and 70, a leverage of 10 and `trade_size_pct = 1.0` the
  total of 960 is computed and no account can carry it.  `SizesFit` is what does hold.
- `load_qtys` leaves a symbol off balance by up to half a lot per leg where a leg
  is about as small as a lot, unlike the readme's "Each symbol stays neutral"
  (`ImbalanceBounded`).  The exchanges' minimum sizes usually exclude such legs.
- An exception can leave `run` although a comment of the runner has all of them
  handled there: `get_balances` comes before the `try`, and the wait of the
  `except` clause raises when the group is told to stop.  `DeltaCycle` has both
  (the location `escaped`), `GroupRunner` what becomes of them
  (`BootRaises`, `WaitInterrupted`).
- The runner's deadline has no room for the entry gate (`runner.py:288`): a group
  that waits at it when the stop comes may be cancelled, and then closes at the
  market (`CancelledOnlyLate`).  It also opens that basket (`OneMoreTradeAfterStop`).
- The `close` command ends at the first account with an error and leaves the
  later ones open (`runner.py:146-152`); Onyx's `cancel_all_orders` is not
  filtered as its positions are; the session of 01 lasts a day (`zero1.py:458`) and is
  never renewed, and Omni's cookie is only checked for being there
  (`EndedIsFinal`).
- The statistics file is shared by all bots, so two that run at once overwrite
  each other's trades, and a trade that ends while a digest is being sent is
  cleared with it (`TradesAccounted` names each way).
- A save of the statistics that fails is only logged (`utils.py:150`).  Trades not saved are
  lost if the process dies before the next save; and when the save after a digest
  fails, its trades stay on file: a bot that goes on throws them out with its next save,
  one that is restarted reports them a second time (`AloneIsSafe` has `uncleared` for both).
- Hyena and Onyx store fills by transaction hash, so two fills of one transaction
  are one record (`Hidden`).  A resting order of Nado that fills later than the
  lookback after its creation is not asked for again.
- `_fetch_order_oids` keeps orders with the status "filled" only (`onyx.py:320`), so the fills of an
  order that is repriced after a partial fill are left out of Onyx' history, and the
  archive has them when the lookback is over (`Dropped`).
- In `weekly.py` one of `--from` and `--to` alone selects everything, although its help says
  "from ISO week" and "to ISO week" (`weekly.py:815`, `822`): a label has no year and is tried
  in three, one of which is on the right side of any single bound.  `-N` beyond the
  data shows other weeks or all, where the help says "N weeks back".  No property claims
  otherwise: `RangeExact` has both bounds given, `OffsetExact` an N within the data.
- The fees of `weekly.py` differ from those of `stats` for 01 and Onyx, and `stats` of 01
  hides an account with nothing but funding (`ReportsAgree` has the exact differences).

## 4. What is proved

The theorems have the form `Spec => []P` or `Spec => [][A]_vars`, with the constants
arbitrary up to the assumptions stated in the modules: `ParamsAssumption`,
`AttemptsAssumption`, `CycleAssumption`, `FailuresAssumption`, `ClientsAssumption`,
`SizingAssumption`, `WatchAssumption`, `HistoryAssumption`, `ReportsAssumption`,
`ReportAssumption` and `PositionsAssumption` say that counts are natural numbers,
clients are among those of the code and lists name each account once. A basket of
`Sizing` has two accounts or more and at most four symbols, as the code has it; the
trades of `History` are finitely many, numbered from 1. `RunnerAssumption` adds that
a heartbeat and three requests fit into the slack of the deadline (the 60 seconds of
the code, plus what the configuration gives). Symbols and accounts may be any sets,
also infinite ones, except for the accounts of a list.

- `Trade_proofs`, for `LimitOrder`. The inductive invariant adds to the types:
  `Books`, the bookkeeping (what stale orders executed and left open, and the size
  of the current order, make up `Qty` plus what slipped through unseen; which states
  of the order each await allows); `SinceOK`, `StageOK`, how long the call can have
  stayed in the current window, per await; and `WindowsOK`, which ties the start of
  the window to the number of extensions. `WaitIsBounded` follows by arithmetic from
  the last two, since each window may be overrun by the first fill once.
  `Refinement` maps the executed quantity to `staleFilled + filled` and the
  allowance to `Qty + unseen`.
- `DeltaCycle_proofs`.  The invariant says, for each stage of the cleanup, which
  accounts may still have orders or open legs that are not excused (those not
  yet answered in this stage), and for trading which legs of which trades can be
  held: those of trades opened so far while opening, those not yet closed while
  closing.  The order of the two stages of the cleanup is what makes it
  inductive: once all orders of an account are cancelled a leg that is closed
  stays closed.  `CrashesByStreak` needs that the program's count equals the
  true one at every point where either is read.
- `Strategy_proofs`.  For `TradeWatch` the argument is one of deadlines.
  `GateClock` and `HoldClock` bound what is left until the loop must move on;
  `TruthOK` ties `brokenAt` to the market, and `SeenOK` what a check has read to
  what it would read now, unless something moved.  `NoticeClock` then says at
  each point of the watch how long a leg may have been broken: at its head one
  request, asleep a heartbeat more, and in a check two requests and a heartbeat,
  but only one request if the check has already found it sound, because then
  it broke after the check began (`FreshReading`).  `HealthyReading` closes
  the circle.  `StopClock` is the same for a stop.  For `SpreadCycle` the
  invariant gives for each location what is held in terms of the requests
  outstanding, those that failed and the plan, for each leg that is not lost.
- `ClientOrders_proofs`.  Everything a client has heard, in its index, its
  archive or an answer under way, is the order at some earlier time (`Before`),
  and an order that is over does not change: so a final answer is the truth.
  `AskedLags` says the same of the two half-answers of a running `get_order`, and
  that an order that was not live is over; `FinalWasOver` that after a final
  answer the source asked first has nothing older to offer, which gives
  `FinalIsFinal`.  `SweepIsThorough` accounts for the orders of a sweep: over, refused, or
  still listed.
- `Trade_proofs`, for `Sizing`. The hedges' sizes were compared as drawn, so
  `SizesFit` needs that the prime size fits: half of a total that `CanBePrime`
  compared, or a share of the richest balance, and rounding adds half a cent at most
  (`RoundedToNearest`). The rest is about sums over any number of accounts. The
  library's fold takes its elements in an order of its own, so `Sums_proofs` proves
  by a least counterexample among the subsets that it has a value (`SumExists`),
  that the value does not depend on the order (`SumFirst`, `SumRest`), that changing
  a term changes it by as much (`SumChanged`) and that it lies between bounds of its
  terms (`SumBetween`). With these `PartsAddUp` gives `HedgesMatchPrime`;
  `LotsLeaveOpen` and `BalancedLots` bound what rounding leaves of a symbol before
  and after its last leg is adjusted; and `AccountBalances` adds up the rounding
  over the symbols of a basket, whose halves have sizes that match to cents
  (`SidesMatch`).
- `Files_proofs`.  For `History`: a sync is due to find what was final when it
  began (`Due`).  What of that is newer than the time it asks from is on its pages:
  for each of the eight exchanges a page leaves nothing between what it reads
  and where the next one starts (`NoGap`, `PagesHaveNoGaps`), for any page size,
  and trades that are added meanwhile move nothing behind that line
  (`ToComeGrows`), because lists that are counted from the newest only push
  older trades to later pages.  What is older was final already when the sync
  before it began, since the lookback is longer than an exchange is late
  and a sync takes, and so is on file (`SavedComplete`).  `Complete` says this
  of the file and of all that is loaded or being written, `FetchOK` and `ConfirmOK` of
  a sync under way; overlapping commands and torn files keep it because each
  of them writes something complete or leaves the file unreadable, and then
  everything is asked for again.  What Onyx is told of its orders leaves out the trades
  of `Dropped` only, whatever the archive has.  For `TgReport`: trades are numbered without gaps
  (`Numbered`), so the next one is new; a digest holds only trades its bot still
  counts (`DigestOK`); what a bot counts is on file or settled in one of the
  named ways (`BackedUp`, with `SaveIs` and `SaveMarks` on what each outcome of a save
  marks); and a bot that has been alone has all of the file in memory but what a
  failed save left there, and nothing but that was delivered before (`Alone`).
- `Files_proofs`, for `Reports`. Whatever syncs fail, overlap or die, every version
  that is shown, loaded, read or on file is of a trade that happened (`StoredInv`,
  which is inductive beside the types): so each record has a date and the rows are a
  finite set. From there `SumsAgree` is about sums. A report parts the rows, by
  account, by type, by label or by week, and the sum of the parts is that of the
  whole (`SumOverGroups`, `SumParts`); what a report leaves out adds nothing
  (`SumFunctionWhere`), and where the reports differ, for 01 and Onyx, the
  difference is the fees and a sum over the rows that one of them hides or counts
  once. `SelectionExact` is about the calendar. A label is tried with its date in
  three years. One of the three is the year it ended in, and any other lies a year
  or more off, which is before the first or after the last of the weeks that can be
  asked for (`LabelMeans`); this is where `Recent` is used, and the reason for its
  week. `RankIs` then shows that counting back from the latest week passes all weeks
  in which something ended before any other. Records, amounts, points, rates and the
  calendar are arbitrary; only that days do not run backwards, that a year is no
  shorter than a week and that days are counted from before last year is assumed.
- `GroupRunner_proofs`.  `batched` deals each account to one group, because the
  positions of two groups in the list do not meet (`Places`): this and that no
  task lives while accounts are dealt (`RoundOK`) give `OneDriver`.  `LateOK` and
  `ExcusesOK` carry the trade after a stop and the leftovers; for the deadline,
  `OnTime` says by when a punctual task has entered each phase (`EntersBy`), and
  the latest of these and the time of that phase are below the deadline by
  `RunnerAssumption`.
- `ClientPositions_proofs`.  `StageOK` and `OrderOK` say what a stage implies for
  the request under way, `ReadOK` that a position not in `moved` is as it was read,
  `BookOK` which orders can still rest after the cancelling (those that landed since, and
  those refused); `LeftElsewhere` is
  `LeftExplained` for the accounts already dealt with, which no step for a
  later one disturbs.  A position changes together with a request only in `OrderArrives`,
  where `Most` bounds it by the position itself: hence `NoTurn`, whatever the
  size that was read.

Two definitions are as they are because of these proofs. `RecentWeeks` is counted
from the end of the present period, not from today: a year before today is a week
off when periods begin on another day than ISO weeks, which not every instance
shows. So is `Recent`, which lets years have no whole number of weeks, as in any
calendar; the instance has years of eleven days and weeks of three.

Only model-checked: `Ends` (twice), `StopEnds` (twice), `EndedIsReported` and
`Regroups`, which are liveness under fairness and beyond this prover. Every
invariant and every action property of the passing runs is a theorem. The violation
of `client_filled` is TLC's alone.

## 5. Not modelled

- *Symbols* (`strategy/symbols.py`), *configuration and models*: filters and
  validation without state.  Their results appear as constants and assumptions.
- *Keys, signing, cookies, proxies* and the challenge solver: functions of external
  libraries.  Sessions are modelled only as far as they begin and end.
- *Retry and cache decorators*: `retry` is a loop around one request, and a
  request that is tried more than once before it fails is a request that fails.  What
  `ttl_cache` keeps (market lists, balances, positions pages) is not read by any
  property.
- *HTTP transport* except for repeated orders: headers and parsing.
- *Telemetry and update check*: requests whose failure is ignored.
- *Command line, logging, tables*: parsing and layout.
- Of the *clients*: books, balances, leverage, points pages, bearer tokens of the
  points services, claiming rewards, and Nado's isolated positions on a market
  that is not isolated only (the comment at `nado.py:626`), which need operations
  the bot never sends.  A position's size is a whole number of lots, as the
  exchanges hold it.
- Of the *apps and scripts*: the registration flows, which are sequences of
  single requests, and the operator tools (`orderbook`, `smoke`, `vault`).

What could follow, in this order: a repeated opening order in `ClientOrders`, which
for now has repetitions only when closing; renewing the tokens of the points
services.
