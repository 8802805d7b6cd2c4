# Trade-tracker in TLA+

This directory holds the formal model of trade-tracker: a bot that screens a
universe of stocks and crypto, decides trades by rule (with an optional model
reviewing the candidates), and executes them against its own simulated broker.
Money is simulated; the accounting is not allowed to be. The project's centre
is therefore the broker: orders, fills, cash, lots, and the jobs and requests
that work them at the same time. Around it are the cycle that decides what to
trade and the model it asks, the providers that prices come from, the store they
are kept in, and the feed that tells of it all.

Paths below are relative to `src/backend/src/tradebot/` unless they begin with
`src/`.

## The system

| Component | State it keeps | Operations | Meets the others through |
|---|---|---|---|
| Broker (`broker/`) | orders, fills, ledger entries, positions, lots of each portfolio (rows of one database) | `create_portfolio`, `update_portfolio`, `place_order`, `cancel_order`, `on_quote`, `seed_holding`, `snapshot` | the caller's database session: commit when the call returns, rollback when it raises (`db/session.py`) |
| Audit (`broker/reconcile.py`) | none | `reconcile` | reads what the broker wrote |
| Matching pass (`workers/matching.py`) and stop triggers (`engine/triggers.py`) | positions' `stop_price` | `MatchingPass.run`, `StopTrigger.on_quote` | calls `place_order` and `on_quote`, one session per portfolio; run by a scheduled job, after every cycle, and by `POST /match` |
| Decision cycle (`engine/cycle.py`), runner, scheduler | `DecisionRun` rows, positions' stops and ladder flags, per-portfolio locks | `run`, `run_portfolio`, `run_due` | places orders, then asks for a matching pass |
| Strategy, sizing, exits (`engine/strategy.py`, `analytics/`) | none | `decide` and what it calls | pure functions of features and holdings |
| AI pipeline and guardrails (`ai/`) | reviews, lessons, spend | `AIPipeline.run`, `Reflection.record` | may only change the confidence `decide` scales by |
| Providers (`providers/`) | rate windows, cooldowns, circuit breakers | `Governor.acquire`, `Router.execute` | everything that fetches prices or asks a model |
| Market data (`marketdata/`) | bars, quotes, corporate actions, sync job | refresh, stream, sync, adjust | writes the quotes the matching pass reads |
| Events (`obs/`) | event rows, subscriber queues | `record`, `publish`, `subscribe` | every component records; the UI and Slack listen |
| Tokens and vault (`services/`) | refresh tokens, credentials | `issue_session`, `rotate`, `revoke` | requests |
| Backtest (`backtest/`) | its own in-memory database | the replay loop, trials | drives broker and cycle with a simulated clock |
| API, schemas, frontend | none of their own | validation and formatting | one session per request |

What is hard in it: several jobs and requests work the same rows in overlapping
transactions; an order is granted at one price and paid at another; one pass
drives many orders against the same cash and lots, and an exception anywhere in
it takes all of it back; a decision cycle that fails half way commits its first
half, and holds positions it read minutes of model calls ago; a stop trigger
reaches from one portfolio's session into others; calls to providers and models
time out, are limited or refused while other calls wait for the same permits;
stored bars and the rows that know of them are written by different sessions;
events are published before the commit they announce, to readers that may not
keep up. `PROJECT.json` lists each of these hazards at its line, with the
properties that cover it or the reason why none does.

What makes each component correct:

* Broker: books that always reconcile, no share or dollar promised twice, no
  call or pass that raises on what placement granted, orders that move only along
  their legal transitions, expire when their time is over and exist once per client id.
* Cycle, matching and stops: one cycle at a time; nothing bought twice; shares
  promised twice by sessions that overlap do not stay so; stops that only rise,
  and that lead to an exit once breached.
* Advice: a model that can veto and shrink, and nothing else; a cycle that ends
  whatever the model does.
* Providers: a governor grants no more permits than its tier allows, no slot is lost, no caller
  waiting for ever, no failure while somebody who could serve was not asked.
* Market data: a history once on record stays; a pass that began is over some day.
* Events: a reader misses nothing in the middle, however slow it is.

## The modules

### `BrokerRules.tla`: the rules on one portfolio's books

Operators only. The *books* are a record: `cash` (what `Ledger.balance` sums),
`orders` (the order rows, id = place in the sequence) and `holding` (per
instrument its lots and what its positions booked).

| TLA+ | code |
|---|---|
| `Commission`, `BuyCost`, `FillPrice`, `Impact`, `Reservation` | `broker/costs.py` |
| `ValidRequest`, `Rejects`, `NewOrder`, `Placed` | `validate_request`, `_reject_reason`, `place_order` |
| `Committed`, `Sellable`, `ReservedCash`, `BuyingPower` | `_sellable_qty`, `reserved`, `buying_power` |
| `Elected`, `Reference` | `matching.arms`, `matching.evaluate` |
| `Affordable`, `Executable`, `FillRaises` | `_affordable_qty`, the clamp in `on_quote`, `Ledger.post`'s guard |
| `Executed` (`FilledRow`, `Bought`, `Sold`) | `_execute`, `record_fill`, `_settle_buy`, `_settle_sell` with `consume_fifo` and `project` |
| `Closed`, `IsExpired`, `Expiry` | `transition` to a terminal status with the reservation reset, `is_expired`, `_expiry` |
| `CanSeed`, `Seeded` | `seed_holding` |

Abstractions. Quantities, prices and cash are counted in their smallest units,
so products are exact and rounding remains where the code divides by 10 000
(`Quantize`, half up; `Scale` stands for 10 000). Lots are a sequence with one
element per open unit, its cost: FIFO is the order of the sequence, the
projected position is its length, and closing a position is the sequence
running empty (the next buy opens a new position row over new lots). The
square-root impact is a step: none up to `Depth`, `ImpactBps` above it. What
matters of it is that a larger order pays a worse price. `_affordable_qty`
shrinks by a factor of 0.999 until the cost fits: the model takes the largest
quantity that fits, which is what the loop finds for up to a thousand whole
shares; for fractional quantities the loop may stop a little lower. No caller
passes a participation to `fillable_qty`, so a tick offers the whole remainder.
The calendar alternates between instants inside a session (even) and between
two sessions (odd).

### `Broker.tla`: the service

Variables: the clock, `is_active`, `db` (the books as the running session sees
them), `saved` (as committed) and `pass` (the `on_quote` in progress). Calls
other than `on_quote` are one step: `PlaceOrder`, `CancelOrder`, `SeedHolding`,
`PauseOrResume`. `on_quote` is taken order by order: `BeginPass` reads the open
orders of the instrument once - the match job skips a paused portfolio
(`workers/matching.py:104`) and a closed market (`:197`), hence its guard; the backtest, whose
replay asks neither, is not modelled - then in the order of their ids each is closed as
expired (`ExpireOrder`), left to rest (`RestOrder`, which also closes an IOC
order), starved (`StarveOrder`: nothing to buy or sell with), filled
(`FillOrder`), or its settlement raises and the session rolls back
(`AbortPass`). `EndPass` commits. Sessions follow each other in this module.

### `OrderBook.tla`: the promise

The abstract specification: orders enter once, accepted or rejected (a seeded
holding is born filled); they move along `LEGAL_TRANSITIONS`; a fill adds to the
quantity and never exceeds it; a terminal status is final. `Broker` implements
it under the mapping that forgets everything but status, quantity and filled
quantity of the committed rows.

### `Sessions.tla`: transactions that overlap

One portfolio, one instrument, price 1, no costs: what is left is who reads and
writes which row when. `db` maps each table to what is committed, `own[s]` holds
the writes session `s` has flushed and not committed, `pc[s]` and `mem[s]` where
it is and what it remembers. Every query and every flush of the code is a step:

| session | steps | code |
|---|---|---|
| matcher | `BeginPass`; per order `RestOrder`, or `SizeOrder`, `NumberFill`, `InsertFill`, `SettleBuy` / `SettleSell`, `Project`, `FinishOrder`; `Commit` | `on_quote`, `_execute`, `_settle_buy`, `_settle_sell`, `project`, `record_fill` |
| request that places | `Deduplicate`, `InsertOrder`, `ReadHeld`, `Decide`, `Commit` | `place_order`, `_reject_reason` |
| request that cancels | `ReadOrder`, `WriteCancel`, `Commit` | the cancel route and `cancel_order` |
| any | `Rollback`, `Crash` | the `except` of `Database.session`; the process dying |

The database itself is not under `src/`: PostgreSQL at its default level, as
`db/session.py` opens it, and SQLAlchemy's unit of work are modelled from how
the code uses them (`View`, `Locked`, `Put`, marked external). A query sees what is
committed and its own session's writes; an UPDATE or a conflicting INSERT waits for
the session that holds the row or the key; only changed columns are
written; and an order row, once loaded, is not read again. Lots and positions
are read afresh, which is right as long as passes do not overlap; hence the
properties of `sessions` are checked with one matcher, and the run with two asks
only what their first conflict already breaks.

### `Engine.tla`: cycles, stops and passes over several portfolios

Variables: the `active` portfolios, the `quote` an order of an instrument can be
matched at, `book[p]` (positions and open orders of `p`, as committed), the locks
(`held[s]`: the asyncio locks of process `s`; `advisory`: those of the database),
`turn[c]`, the cycle caller `c` is in with what it has flushed, and `pass[w]`, the
pass matcher `w` has placed stop orders in.

| actions | code |
|---|---|
| `Acquire` | `run_due`, `POST /cycles`, `EngineRunner.run_portfolio` up to the locks |
| `Decide` | `DecisionCycle._state` and what `decide` may answer (`Decisions`) |
| `ReadPending` | `_pending_instruments` at the start of `_execute` |
| `Execute` | `_place_exit`, `_apply_stops`, `_place_entry` and the `except` of `run`: orders checked and flushed |
| `Commit` (`Marked`) | the session's commit and both locks' release |
| `Look` (`Hits`, `StopRows`, `Raises`) | `MatchingPass._match` up to the stops: `StopTrigger.on_quote`, whose orders are flushed |
| `Work` (`Works`, `Stages`, `Fates`) | the rest of that pass: `on_quote` for each instrument, the commit |
| `Match` | a pass that finds no stop to act on, in one step |
| `Crash` | a server process dies |
| `NewQuote`, `PauseOrResume`, `PlaceLimit`, `CancelLimit` | the rest of the system |

A cycle is four steps with anything in between: it reads the state and decides
(minutes of model calls are in that step), it reads what is pending, it checks its
orders against the book and flushes them, and it commits. A pass that acts on stops
is two. What one session has flushed no other sees until it commits, neither as a
working order nor as shares spoken for; so a cycle, a pass over any portfolio and a
user can be granted the same shares. Between a cycle's flush and its commit a pass may
also close a position whose row the cycle holds: `Told` notes it in `gone`, and the
commit then marks and moves the stop of that row only, not of one opened since.

What is one step here. The reads of one session on one instrument: no other
instrument's rows enter into them. `PlaceLimit` and `CancelLimit`, whose own
overlaps are the subject of Sessions, as are those of passes fill by fill: `Work`
reads the orders when it commits, and a cycle's rows and a pass's are allowed to
commit in either order even where a row lock would make one wait. Prices, stops and trailing
levels are ranks; what may become of an order in a pass (`Fates`: fill, expire,
rest) is a choice, and a buy fills whole, since Broker and Sessions are about that.
`Decisions` allows every answer `decide` could give (`Strategy` is the function
itself). An order that rounds to less than a share raises: in a cycle what came
before it commits, in a pass all of it is undone, including the orders for other holders.

### `Strategy.tla` and `Advice.tla`: the decision and the model asked about it

`Strategy` is `engine/strategy.py` with what it calls, as operators over weights
that are small whole numbers: the universe and its cut (`Resolved`), the screen,
`UpdateStop` and `Exit` in the order of `evaluate_exit`, `Size`, `NeedsRebalance`,
`FitToBudget`, `WithinTurnover`, `Entries`, and `Decision`. What the indicators
compute (scores, size caps, risk) is an input (`Market`).

The code's loops over lists are stated by what they leave: a list in some order is
`InOrder` (each element at the place that as many come before), the budget takes
the longest prefix that fits and a rest of the next candidate, and the turnover
pass takes the one set of positions in which each is taken exactly when it fits
beside those taken before it (`Takes`). Sums are `SumOf`, the cardinality of a set with
one element per unit.

`Advice` is one portfolio's cycle around it. Variables: the `scene` looked at,
the `day`, the `cycle` (number, stage, what the rules propose, the round, what the
model said so far), the `calls` under way, the `permits` free at each endpoint and
those `leaked`, the analysts' `notes`, and the last `outcome`.

| actions | code |
|---|---|
| `Start`, `AskDeep`, `Redecide`, `NextDay` | `DecisionCycle._decide`, `AIPipeline.run`, `AnalystPool.run` and its cache |
| `Enter`, `Post`, `Oversized` | the pool's semaphore, `governor.acquire` and its refusal of a prompt that never fits |
| `Rejected`, `NextEndpoint`, `Unreadable`, `Broken` | the ladder of formats and endpoints of `AIClient` |
| `Noted`, `Unadvised`, `Rebutted`, `Advised` | an analyst's answer; the deep model's: none, one to attack, the last |
| `Clamped`, `Guarded`, `Deweighted` | `guardrails.apply`, `apply_deweighting` |

What the model says is any list of verdicts from `Said`. Rate windows are
Providers' subject and part of waiting for a permit here.

### `Providers.tla` and `Adapters.tla`: where prices come from

`Providers` is one `ProviderRouter` with its governors and its health registry,
and requests that overlap on it. Stamps, penalties and breakers are ages that a
`Tick` lets grow, so that time needs no bound. A request looks its candidates up
once (`Begin`), takes a slot of the semaphore (`TakeSlot`), waits for the windows
(`Send`), and is answered (`Answered`), tries the provider's next path or its
built-in list under the same permit (`TryNextPath`, `UseBuiltIn`), goes on to the
next candidate (`FailOver`), or leaves on what no fallback catches or on a
cancellation (`Abandon`).

`Adapters` is what the seven adapters declare (capabilities, asset classes,
credentials, ranks, limits) and what they make of a venue's rows: bars, quotes,
ticks, universes, names, news, corporate actions. A field is a set with at most
one number, {} for one that is missing or unreadable. `MCProviders` takes paths,
built-in lists and ranks of its two providers from it.

### `Feed.tla` and `Market.tla`: the store and who hears of it

`Feed` is the bus and the quote stream: `sent` (the number of the last event, modulo
`Numbers`), `subs` (each reader's state and queue) and `stream`. `Publish(n)` is `n`
events with no await in between, offered to every queue (`Offered`); a reader
whose queue is full is dropped and goes on reading what it has. The stream's
`run` is `StartStream`, `Connect` (with the replay), `Tick`, `Disconnect`, `Wake`,
`StopStream` and `EndRead`.

`Market` is the instrument and bar store and the passes that fill it. Of a history
the age of its newest bar is kept: `bars[i]` as committed, `rows[i].last` as the
instrument's row says it. `pass` is the pass in flight with the objects its session
holds.

| actions | code |
|---|---|
| `Sync`, `Refresh`, `Scheduled`, `Finish`, `Fail` | `MarketSyncJob.start` / `_run`, the market routes, the scheduled job |
| `ListingFails`, `Discover`, `CloseDiscover` | `MarketSync.sync`, `MarketDataService.discover`, `_track_symbols` |
| `Load`, `OpenRefresh`, `CloseRefresh` | `MarketSync.refresh_all` and its sessions |
| `Skip`, `Fetch`, `FetchFails` | `refresh_bars`, `_store_bars` |
| `QuoteRequest`, `NewDay`, `Restart` | `GET /market/quotes` and `price_for`; the date; the process |

Each step publishes what the code records in it, so `Market` composes the two:
the properties of `Feed` are checked, and proved, of `Market`'s specification.

## What the runs check

All numbers are small on purpose: what matters is that the interesting cases
happen, and the fault operators (`X_Something` beside each `X`, one per property)
show that each property notices when they go wrong.

* `broker_trades`: every kind of order but IOC, one instrument, half-share
  quantities in a whole-share portfolio, a minimum commission of 3 (larger than
  a cheap sale's proceeds), impact above a notional of 6, four orders and three
  instants: open, closed, open again. Two sells that together ask for more than a buy brings in, a retried
  client id, a seeded odd holding, quotes below, at and above the limits, one of
  them with a book around the price. Checked: `TypeOK`; `OrdersReconcile`
  (what `reconcile.py` asserts of orders, in the middle of passes too);
  `SellsCovered` (no share promised twice); `BooksBalance` (cash moved by
  trades + cost of open lots = profit realized: the accounting identity behind
  reconcile); `BuysNeverRaise`; `RetriesAreOnce`; `WholeSharesTrade`;
  `StopsElectedFirst`; and `KeepsTheOrderBook`, the refinement.
* `broker_limits`: two instruments, one of which never closes, only limited
  buys and no impact: the setting in which a reservation is a promise.
  `ReservationsCovered` (open orders never hold back more than there is),
  `GrantedBuysFillWhole` (a granted limited buy is never cut short or starved)
  and, under fairness, `ExpiredOrdersClose`: a day order expires while its market is
  closed, where no pass runs, and one after the next open closes it unless the portfolio
  stays paused. An order on the one that never closes, and every limited buy, waits in between.
* `sessions`: a matcher that makes two passes, two requests under one client id
  and a cancellation; a resting sell of both shares held, a resting buy of three
  with cash for two (it fills in parts, the second time with what the sell
  brought in), and new orders that want the same shares or the same cash. Checked: `TypeOK`;
  `OrdersMatchFills`, `LedgerSettlesFills`, `PositionsMatchLots` (what
  `reconcile.py` compares, at every commit, whoever dies where);
  `PassesNeverRaise` (placements are granted what a pass is spending, and the
  pass copes); `RetriesAreOnce` (the second attempt is sent before the first
  is answered); and `SessionsEnd`.
* `engine`: a cron job and a request in two processes run cycles for one
  portfolio, which begins with a share or a share and a half under a stop; a second,
  which only holds, has half a share of the same name, less than it can sell. Passes, in one
  process, that act on stops, quotes, a user's limit sells, pauses and crashes come between.
  Entries are sized to half a share, which rounds to nothing and raises, and to one.
  107,112 states. `TypeOK`; `OneCycleEach`; `EntriesDoNotStack` (cycles that follow
  each other before fills arrive do not buy again); `StopsOnlyRise`; `TrimsOnce`;
  `BreachesEnd`: a breached stop is acted on while the match job keeps running; and
  `OversoldEnds`: what sessions that do not see each other's orders promised of the
  same shares, the passes sell once, and expire the rest of.
* `advice`: two rounds of a debate over three names and sixteen looks at a
  portfolio: names the rules rank, little turnover left, a name in cooldown, cash
  under its floor in a panic, a holding that fails the screen, young or old, over or under
  its stop, and a name that is always wanted or never. Verdicts on strangers, twice on one name, above full confidence; calls that fail in
  every way. `TypeOK`; `VetoHolds`; `EntriesFitTheBook`; `StopsAreHonoured`; `CyclesEnd`.
* `providers`: two requests about ETFs overlap on fmp (one call a minute, two a day,
  two slots, paths it falls back between, a built-in universe) and finnhub (unmetered, one slot). `PermitsHold`
  (of one governor, as a permit is what it counts);
  `SlotsAreReturned`; `FailsOnlyWhenAllFail`; `RequestsEnd`. The assumptions of
  `MCProviders` are checked on the way, for every answer of up to three rows: what bars,
  universes, quotes, news and authentications adapters make of them.
* `market`: syncs by listing and by name, refreshes, scheduled passes, quotes,
  days, failures and restarts over one instrument, publishing to a reader with a
  queue of two beside a quote stream whose replay brings two quotes. `TypeOK`;
  `FeedHasNoGaps`; `KnownHistoryIsKept`; `PassesEnd`; `StreamStops`.
* `broker_ioc`, `broker_sell_fee`, `sessions_cancel`, `sessions_overlap` and
  `market_refresh` find the code in disagreement with what it says of itself; see
  below.

Bounds. `Broker`: `MaxOrders` rows and `MaxTime` instants (guards of `PlaceOrder`,
`SeedHolding` and `Tick`); four rows are enough for two resting sells beside the
buy and the seed that feed them, and for a retry, three to let two buys compete
for the cash a third has reserved; and `MaxTime` 2 gives an expired order an open
instant to be closed in. `Sessions`: two passes and three requests are
the fewest in which a row loaded early is overwritten by each kind of session,
and in which an order is filled in parts. `Engine`: `MaxQty` units (a guard of `Works`: what fills may leave) and
`MaxOrders` open orders (of `Execute`, `Commit` and `PlaceLimit`), one instrument, prices of
two ranks: two cycles, a position that is trimmed and topped up, two sells granted
the same shares, and a stop on each side of the price fit in; a second instrument would only
repeat them, because cycles and passes treat instruments one by one and share
nothing between them but the session.
`Advice`: `MaxCycles` 2, so that a call of a failed cycle meets the next one's, and
`LastDay` 2, so that notes grow old. `Providers`: a minute of one tick in a day of three;
`MaxBackoff` 1, so that the doubling of the wait is met at its cap only.
`Market`: `Numbers` one more than the queue holds, so that a gap is never mistaken
for a repetition; ages up to `Old`; one instrument and owner, because passes
treat instruments one by one (`market_refresh` has two of each, and two classes);
and one server process, where `Engine` has two: `running`, the flag of the single
flight, is that process's own, and with a second one beside it `KnownHistoryIsKept`
and `PassesEnd` would not be this run's to answer.

Deadlock is checked except in `Sessions`, whose requests and passes are finite,
and in `advice`, whose cycles are: there `SessionsEnd` and `CyclesEnd` say that
nobody is left waiting.

Fairness, where a liveness property is checked.

* `Sessions`: weak fairness of each session's next step, that is, the event loop
  resumes a coroutine whose query has returned and the database wakes a waiter
  whose lock is free. A pass never has to begin.
* `Broker` (`broker_limits`): weak fairness of the steps of a pass; strong fairness
  of `Tick`, since time goes on whatever else is called, and of `BeginPass` for each
  instrument, because the scheduler runs the match job every few minutes
  (`workers/scheduler.py:81-88`) while other calls come between. `BeginPass` is enabled only
  for an active portfolio and an open market, so a portfolio that stays paused and a market
  that stays closed owe nothing, and the property asks for a portfolio that is
  active again and again. It assumes a usable quote for the instrument infinitely often:
  without one the pass skips it and the order stays open, which is what the code does.
* `Engine`: strong fairness, for each portfolio, of passes over it beginning (`Starts`)
  and coming to their end (`Ends`), for the same reason: the job runs while the server is up,
  and processes that die are started again. Nobody has to run a cycle, place an
  order or bring a quote. `BreachesEnd` and `OversoldEnds` are about active portfolios with a quote
  and passes that do not raise, the first also about instruments without an open order:
  that is when the code acts on a stop, or on an order, at all.
* `Advice`: weak fairness of the calls' progress and answers (requests have time
  limits, a free permit goes to a waiter) and of the steps that follow them. `CyclesEnd`
  assumes that no endpoint has lost all its permits (`leaked`, see below).
* `Providers`: time passes; calls time out; strong fairness of `TakeSlot` and
  `Send`: the semaphore is first come, first served, and sleepers wake with a
  random jitter, so none of them finds the window full every time there is room.
* `Market`: a pass takes its next step and a replay ends because requests have
  time limits; a stream's sleep ends; a stop that was signalled is seen. Nobody has
  to trade, publish or read.

## Where the code disagrees with itself

* An IOC order's `expires_at` is the instant it is placed, and `on_quote` tests
  expiry before the quote: it can never fill (`broker_ioc`).
* A sale whose minimum commission exceeds cash plus proceeds raises out of the
  pass and rolls back every other fill of it, on each pass (`broker_sell_fee`).
* A cancellation that read an order as open writes CANCELED over the FILLED that a
  pass committed meanwhile: legal transitions are tested on the row as loaded,
  and nothing locks or versions it (`sessions_cancel`). It goes the other way too:
  a pass writes FILLED or PARTIALLY_FILLED over CANCELED; and when the status the
  pass computes is the one it loaded, only `reserved_cash` is written, and the closed order
  holds cash that `reconcile.py:74` reports. `OrdersMatchFills` is what survives.
* Two passes that overlap fill one order twice. The scheduled job, the pass
  after a cycle (outside the cycle's locks) and `POST /match` can overlap
  (`sessions_overlap`).
* `refresh_all` loads what is tracked in one session and changes the objects in
  another: the bars of an instrument whose first fetch failed are stored, but its
  row goes on saying it has none, although refresh exists to recover such names
  (`market_refresh`). Every later refresh asks again, no universe contains it, and
  a sync by name that gets nothing deletes it together with those bars.

Noticed on the way, not the subject of a run:

* Broker: the reservation leaves out market impact (`broker/costs.py:66`); a limit
  buy can pay more than its limit, slippage being added after the limit is tested
  (`broker/matching.py:83` says "never above the limit"); realized profit leaves
  out the commission of the buy; `seed_holding` takes cash that open orders have
  reserved; a client order id is looked up across portfolios; two requests that
  place at the same time may both be granted the same cash or shares, although
  `costs.py:66` says of reservations "so two open orders cannot each pass a cash
  check and jointly overdraw the account" (the pass cuts the second one down, so
  nothing is overdrawn).
* Engine: an odd remainder of less than a share, left by a partial sale or a
  seeded holding in a whole-share portfolio, makes every later pass over a
  portfolio that has a stop on the name raise once it is breached, and so keeps the
  others from being protected (`Raises`, the condition of `BreachesEnd`); a resting
  order on the name suppresses the stop; a portfolio paused during the model's
  calls still gets its orders, since the row was loaded before
  (`engine/runner.py:61-63`); `_place_exit` marks a position trimmed even when the
  order was rejected; `highest_close` and an entry's `stop_price` are never
  written; a cycle, a pass over any portfolio that holds the name and a user do not
  see what the others have flushed, so together they can be granted more shares than
  there are, or a second stop order for them: what the sales of the others leave nothing for is
  expired by a pass (`OversoldEnds`), and a resting limit sell waits and would sell
  what is bought later; pending buys are counted neither as invested nor as turnover; a fill
  between `_state` and `_pending_instruments` lets a name be bought again.
* Advice: a veto frees room and turnover, so the second decision may add an entry nobody
  proposed at first or enlarge one; a reply that is no JSON, a prompt larger than
  the window and an address that cannot be used fail the cycle, although
  `ai/pipeline.py:131-137` says a failed model leaves the rules standing; the last
  of them keeps its permit for good (`Broken`); `max_positions` of `fit_to_budget`
  counts the batch only; `AnalystCache.prune` is never called.
* Providers: what is no `ProviderError` ends the request without a fallback
  (`Abandon`); a second 429 that asks for less shortens the penalty of the first;
  one permit covers all HTTP requests an adapter makes; half-open lets everyone
  in; each router has governors of its own; a coin can be listed by a Binance pair
  its quotes never ask for, and the answer without it counts as a success
  (`ListedMayHaveNoQuote`); Polygon's price is the previous close; a crypto candle
  of the unfinished day is stored as a bar.
* Market and feed: a sync by name that finds nothing for an instrument that knows
  no bars deletes it with its orders and positions; a scheduled pass is skipped in
  silence while another runs; nothing starts the stream worker outside tests, and
  its replay drops every reader when there are more symbols than a queue holds; a
  dropped reader is not told; listeners hear of events whose transaction then
  rolls back.
* `corporate_actions._apply` adjusts by all actions, those already applied
  included, as soon as one is pending; its own comment says "exactly once each".
  No live portfolio calls it.

## What is proved

By TLAPS, for every value of the constants that satisfies the modules' named
assumptions. Those of the broker say that amounts are natural numbers, `Scale`
and `Lot` are positive, requests, seeds and quotes are well formed and the initial
capital is positive: what the schemas and `create_portfolio` check.
`MarketAssumption`, `FeedAssumption`, `ProvidersAssumption`, `EngineAssumption` and
`SessionsAssumption` say no more than what kind of thing each constant is, that
a queue holds something, that a minute is no longer than a day, that there is a
portfolio and finitely many instruments, and that the orders there are at the start have
client ids apart from each other, as the unique index demands; `SessionsAreApart`, that sessions are
finitely many and each is of one kind; `StrategyAssumption` and `AdviceAssumption`, that
symbols are finitely many, limits are amounts and a tier has an endpoint with a permit. TLC
evaluates all of them in the runs.

What a function defined by recursion computes cannot be proved by induction here (the
library's induction theorems take operators). Where an argument goes order
by order, or number by number, the proofs take the *least* one after which the
claim fails instead (`LeastIsThere`, from the well-foundedness of `<` on the
natural numbers; `HighestIsThere` for finite sets) and show that it does not. Sums are
cardinalities of sets with one element per unit, so that the library's
finite-set theorems apply: `Cost` and `Committed` of the broker, `Sum` of the
sessions, `SumOf` of the strategy.

### The broker (`BrokerProofs`, `BrokerBooksProofs`)

* `TypeCorrect` - the books are always well formed; cash never negative is part of it;
* `OrdersAlwaysReconcile`, `RetriesAreAlwaysOnce` - the invariants of that name;
* `BuysNeverEverRaise`, `SellsAlwaysCovered`, `WholeSharesAlwaysTrade`,
  `BooksAlwaysBalance` - `BuysNeverRaise`, `SellsCovered`, `WholeSharesTrade` and
  `BooksBalance`;
* `StopsAlwaysElectedFirst` - the action property `StopsElectedFirst`;
* `ImplementsOrderBook` - the refinement of `OrderBook`.

The argument. The invariant is `IInv == TypeOK /\ OrdersReconcile /\
RetriesAreOnce /\ PassInv`. The first three are not inductive: a pass changes
`db` long before it commits, and a step that commits has to be a legal move of
every row, not only of the last one visited. `PassInv` says how far a pass may
have moved: no pass, and `db = saved`; or a pass whose unvisited rows are as
committed, open and of its instrument, and whose visited rows are each one legal
move, or none, away from what is committed (`Visited`). Lemmas follow the code:
costs are amounts (`CommissionNat`, `FillPriceNat`, ...), each operation takes
books to books (`PlacedBooks`, `ExecutedBooks`, ...), each does to a row what
`OrderBook` allows (`ClosedRowMoves`, `FilledRowMoves`, `AppendedRow`), and each
action keeps the invariant (`...Keeps`). `CommittedStep` then says what any step
commits, and both action properties follow from it. `TypeOK` needs the checks of
the code, not just the shapes: a buy leaves cash natural only because
`Ledger.post` refuses, a sell leaves a holding only because the quantity was
clamped to the position.

On top of `IInv`:

* `BuysNeverRaise` follows from the code's arithmetic, not from history
  (`BuySettles`): cash covers the reduced quantity at the price of the *full*
  quantity, whose impact is no smaller, and price, commission and cost are monotone
  (`FillPriceMonotone`, `CommissionMonotone`, `BuyCostMonotone`).
* `SellsCovered` is kept row by row. What the open sells claim is a union over the
  rows of what each still owes (`CommittedByRow`); closing or electing a row claims
  no more (`RowOwesLess`); a fill takes from the holding exactly the units it takes
  from the claim (`ExecutedCovered`); a new sell claims only what `_sellable_qty`
  left over (`PlacedCovered`). The invariant is of `db` and of `saved`, because a
  rollback brings the latter back.
* `WholeSharesTrade` rests on `SellsCovered`: a buy is rounded after it is cut, but
  a sell is cut to the position and *not* rounded, so it fills whole only because
  its remainder is always held (`SellIsHeld`, `FillsAreWhole`).
* `BooksBalance` needs that `Cost` splits: the cost of two runs of lots is the sum of
  theirs (`CostConcat`), so what a sale cuts off the front and what it leaves add up
  (`CostCut`, `SoldBalanced`).

### Sessions that overlap (`SessionsProofs`, `SessionsBooksProofs`)

Two layers. What holds *however many passes overlap* is in `SessionsProofs`:

* `SessionsTypes` (`TypeOK`) and `OncePerClient` (`RetriesAreOnce`), from
  `Shape`: which tables a session may have written where it is, that its rows are
  whole when it commits, that a key two sessions insert makes one of them wait. The
  lookup by client id does not make a retry harmless, since both requests may look
  before either inserts; the unique key does, and `Shape` carries from the insert
  to the commit that the key is taken.

What the books need is that passes over the portfolio do *not* overlap:
`SessionsBooksProofs` assumes `OneMatcher`, with any number of requests that place
and cancel beside it. The hypothesis is needed: `sessions_overlap` shows two
overlapping passes filling one order twice. Under it:

* `FillsAddUp`, `LedgerAddsUp`, `LotsAddUp`, `PassesSettle` - `OrdersMatchFills`,
  `LedgerSettlesFills`, `PositionsMatchLots`, `PassesNeverRaise`.

The invariant `Books` (`SessionsBooks`) says of two views at once, what is committed and
what the pass sees (its writes over it), that they balance up to the part of a
fill that is not yet written: a fill without its entry at `"settle"`, a position
ahead of its lots or behind its cash at `"project"`, an order behind its fills at
`"finish"` (`TradesAt`, `OrdersAt`). The first view has to balance because a pass that dies falls
back on it, the second because that is what a commit makes of it. `Untouched`
adds what makes stale order rows harmless: of the orders a pass has left it has
written nothing, and nobody else changes what they have filled. A cancellation
that commits in the middle changes only the status and the reservation, which no
sum depends on. That a pass never raises (`PassesSettle`) then is not luck: cash
and lots are spent by the pass alone, and it cut the quantity to them in the same session.

### The cycles' locks and books (`EngineProofs`)

`CyclesExclude` (`OneCycleEach`) and `LocksAreOwned`, for any processes, callers
and portfolios. That locks are taken does not make them exclude: nobody else
may give them back. The invariant `LockInv` therefore says whose each lock is:
the advisory locks are exactly the portfolios of the cycles in flight, and those
of a process exactly those of its own (`LocksHaveOwners`). A commit gives back
one cycle's lock, and exclusion says that no other cycle has the same portfolio;
a crash gives back those of a process's cycles, and again no surviving cycle has
one of them. So exclusion is needed to keep ownership, and ownership to keep
exclusion: neither is inductive alone.

On top of the locks, `EngineInvariant` for the books, and from it `EngineTypes`
(`TypeOK`), `EntriesNeverStack` (`EntriesDoNotStack`), `StopsNeverFall` (`StopsOnlyRise`)
and `TrimsAreOnce` (`TrimsOnce`). `EngineInv` is `LockInv` and `FrameTyped` (what has
no history: who is active, quotes, passes' names) with

* `BooksTyped`: every book is well formed and has at most one entry working on an instrument;
* `TurnsHold`: what a cycle decided is still allowed when it comes to placing
  (`PlanHolds`), and what it flushed when it comes to committing (`PlacedHolds`). It
  was decided from positions read minutes ago and nothing is checked again.
  Between, passes fill and close positions, users sell, stops trigger; but only a
  cycle raises a stop or marks a position, exclusion says that no other cycle
  has the portfolio, and all others leave stop and mark alone or close the
  position, which takes both (`Follows`). And an entry that works when a cycle
  places was seen to be pending when it looked (`PendingSeen`), because only a cycle
  places entries;
* `PassesPlain`: what a pass has flushed are stop orders only.

Nothing in it says that open sells fit into what is held: they need not.

A pass works orders one by one. `StageOK` says what holds after `n` of them: positions
follow those there were, and of each kind no more orders are left than were among those
`n` (`StageStep`, `WorkedOK`). What a cycle flushes it flushes once per instrument (`FlushedAre`). Each
step then is either a commit (`CommitIs`, `CommitMarks`) or leaves every book going on
(`BookGoes`): no stop lowered but by closing, no new entry, no new trim (`BooksGo`).
The action properties follow from these two.

### The rules and the model's advice (`AdviceProofs`)

`AdviceTyped` (`TypeOK`), `VetoesHold` (`VetoHolds`), `EntriesAlwaysFit`
(`EntriesFitTheBook`) and `StopsAlwaysHonoured` (`StopsAreHonoured`), for any market, book,
debate, endpoints and whatever a model says.

The rules come first, without any state. An element's place in an order is how many
come before it, and the places are those of a list because a one-to-one map between
finite sets of one size leaves nothing out (`FewerBefore`, `Listed`). From it:

* `CohortHoldsTheBook`: names always wanted or held come first, so the cut of the
  universe spares them while they fit; with `StopsSell`, a breached stop sells in every
  decision, whatever the confidence.
* `BudgetFits`: the longest prefix that fits and its rest are within the room.
  `TakesSomething` and `TakenFits`: that the turnover pass takes some set, and stays
  within what is left. Both go by the least position from which the claim fails.
* `EntriesAreSound` puts them together: what is bought has confidence, is bought once,
  and fits both budgets. What is *added* to the book is never more than the weights
  fitted to the room, and what is *traded* is the turnover pass's own sum
  (`SumIsMonotone`, `SumRenumbered`).
* `GuardrailsHold`: what the guardrails leave covers every candidate, is between none and
  full, and is none for whom the model did not endorse in its first verdict.

Then the cycle. `AdviceInv` says which decision an answer can be (`AdviceIsGuarded`: the
confidence that decided again is the guarded, weighed confidence of what is on record as
said), that a call to the deep model is of the cycle that waits for it and no cycle asks
one question twice (`CallsInv`: otherwise an answer could reach a cycle that is over, or
two calls be one), and that at each endpoint free, held and lost permits add up
(`PermitsCounted`). A veto holds in the *second* decision for two reasons together:
every candidate of the first has a confidence on record, and confidence none sizes to
none whatever the rank. A name the model was never asked about has full confidence;
that one may be bought, and `VetoHolds` does not say otherwise.

### The router (`ProvidersProofs`)

* `SlotsReturn` (`SlotsAreReturned`) and `FailoverIsComplete`
  (`FailsOnlyWhenAllFail`) from `RouterInv`: a request that waits has candidates
  left, and the ones chosen at first are those that failed it and those left
  (`NobodySkipped`); the current one is always one of them (`CurrentIsLeft`, by
  the least element of a set of numbers), so each step moves at most one request
  into or out of the holders of one provider.
* `PermitsAreKept` (`PermitsHold`) from `WindowInv` beside it: `Send` adds a stamp
  where a window has room for one (`StampedCounts`), and ageing never lets one
  back in: the stamps young enough after a tick are an injective image of those
  before it.

### The feed and the store (`MarketProofs`)

`NoGaps` (`FeedHasNoGaps`), of `Market`'s specification, for any queue size and
readers. `FeedInv` adds the bound on queues and that who is gone holds nothing.
What is appended follows the last event sent (`FollowingCounts`, arithmetic modulo
`Numbers`), and an attached reader's queue ended with that one; a queue
cut short by its bound means a reader dropped, of whom no end is asked.

`HistoryKept` (`KnownHistoryIsKept`) and `StoreInvariant`. The step that could lose
a history is the one that ends a sync's session, and it looks at objects read
when that session began. `StoreInv` says what they still have in common with the
rows (`HeldIsAhead`): what the row knows the object knows, and what the object
knows is committed or stored in the session. It holds because the single flight
leaves no other writer of dates, and because days age rows and objects alike.

`MarketTypes` (`TypeOK`): beside the shape of rows, queues and plans, the flag of
the single flight is set exactly while a pass is in flight.

### Only model-checked

* Liveness: `ExpiredOrdersClose`, `SessionsEnd`, `BreachesEnd`, `OversoldEnds`, `CyclesEnd`,
  `RequestsEnd`, `PassesEnd`, `StreamStops`. The prover handles neither fairness
  nor ENABLED.
* `ReservationsCovered` and `GrantedBuysFillWhole`, which hold in the setting of
  `broker_limits` only: limited buys, no seeds, no impact, no minimum commission. Live entries are
  market orders and impact is on by default, so a theorem about that setting would say
  nothing of them; what is proved of those is that the fill is cut to the cash there is
  (`BuysNeverRaise`).
* `Adapters`, whose operators are compared with what is expected of them for all
  answers of up to three rows.

## Not modelled

* Indicators, features and signals, backtest statistics: floating-point functions
  of price series without state. `Strategy` takes their results as inputs.
* The backtest: a sequential replay that drives the broker and the rules modelled
  here over a database of its own.
* Prompts, schemas and costs of model calls (wording and parsing), chat (one
  stateless question), reflection (never wired to a running cycle).
* Corporate actions and the market view: no entry point calls them for a live portfolio.
* Authentication and the vault: cryptography around one table of refresh tokens.
  The race in its rotation is listed among the hazards.
* Routers, schemas and wiring beyond what `Sessions`, `Engine` and `Market` take
  as requests: validation, formatting, and edits of one row. The frontend.
* Within modelled components: deleting a portfolio and editing its costs;
  snapshots; a seeded holding or an expiry beside a pass in `Sessions`, and what
  overlapping passes do to lots; `DecisionRun` rows; token windows of the governor;
  event rows and which of them reach Slack; which symbols a stream carries.

Worth doing next: a seeded holding and stop triggers as sessions of `Sessions`; that the
orders of `Sessions` implement `OrderBook`; `DecisionRun` rows; the rotation of refresh tokens.
