# Q-Lab: TLA+ models, checks and proofs

Q-Lab is a personal quant-investing system: a FastAPI backend that talks to two
Korean brokers (KIS and Toss), computes order proposals from factor strategies,
lets the user approve them from a Flutter app or from Telegram, watches price
alerts, sells at a stop-loss and keeps a trades table in step with the brokers;
a research package with ingestion, factors and backtests; and the app. This
directory holds models of the backend and of the algorithms of the research
package, the TLC runs that check them on small instances, and TLAPS proofs of
what matters most for every instance. Paths below are relative to
`src/backend/app/` unless they start with `src/` or `research/` (`src/research/`).

## 1. Inventory

The backend is one process with one asyncio event loop: HTTP handlers, the
scheduler's jobs and a few endless tasks are coroutines that give way at every
`await` and share a SQLite database (WAL mode, one writer at a time, busy
timeout of 60 s) and some in-memory singletons. Research programs are threads of
the server or commands of their own; they share files with it.

| Component | State | Operations | Talks to | Module |
|---|---|---|---|---|
| Order approval (`services/orders/approval.py`, `api/proposals.py`) | `order_proposals` (status, client_order_id, trade_id), `trades` | approve one or many, reject | guard, brokers; called by HTTP and Telegram | `OrderApproval` |
| Manual orders (`api/portfolio.py`) | `trades` | place, sync now, track | guard, brokers, order tracker | `ManualOrder` |
| Order guard and kill switch (`services/orders/guard.py`, `services/automation/`, `api/system.py`) | flag in memory, row of `settings` | set, read, restore at start-up; check value, switch and daily loss | every order path | `KillSwitch` |
| KIS order tracker, Toss order sync (`services/kis/order_tracker.py`, `services/batch/*_order_sync.py`) | `trades`, `last_checked_at` | loop over stale rows, task per order, listing of external orders | brokers | `OrderTracker` |
| Proposal generation (`services/batch/proposal_generator.py`, `account_proposals*.py`) | `order_proposals`, `rebalance_targets` | month-start run, carryover, daily rules, ramp cap, insert, expiry | balances, strategies, rejections | `ProposalGeneration`, `ProposalRules` |
| Account profiles and ramp (`services/accounts/`, `api/accounts.py`) | `account_profiles` | first use, patch, live lock, automatic ramp | proposal generation | `AccountProfiles` |
| Price alerts (`services/alerts/monitor.py`, `api/alerts.py`) | `alerts` | round of the loop or by hand, claim, order, create, delete | quotes, guard, brokers | `AlertMonitor` |
| Stop-loss and quote feed (`services/kis/risk_manager.py`, `ws_client.py`, `ws/quotes.py`) | positions, triggered codes, subscriptions, clients | tick, refresh, reconcile, reconnect, join, leave | KIS socket and REST client | `RealTime` |
| Telegram (`services/notify/`) | polling offset in memory | poll, act on a tap, restart | order approval | `TelegramCommands` |
| Language model (`services/llm/`) | log file with reservations, cache | reserve, call, book | external API | `LanguageModel` |
| Shared caches (`services/kis/auth.py`, `market_snapshot.py`, `services/market_data/fx.py`) | token file, rate, board of prices | look up, lock, fetch, store | every broker call and screen | `SharedCaches` |
| Credentials and settings (`api/settings.py`) | `settings`, `accounts`, `.env` | save, test, choose for a client | broker clients | `BrokerAccess` |
| Data synchronisation (`services/batch/data_sync.py`) | research.db | resume, ask, insert, catch up | Naver, KRX, yfinance | `DataSync` |
| Ledger, performance and tax (`services/performance/`, `services/tax/kr.py`) | `trades`, `portfolio_snapshots` | match lots, rebuild a curve, snapshot | daily loss guard | `Ledger` |
| Ratings (`services/ratings/`, `services/batch/rating_batch.py`) | `stock_ratings`, `position_ratings` | evening lane, hourly lane, one code | balances, research.db | `Ratings` |
| Insights of a day (`services/batch/daily_*.py`, `us_advisory.py`, `api/quant.py`) | `batch_analysis_results`, in-flight set, `us_advisory` | analyse, comment, report | language model | `DailyInsights` |
| Journal and principles (`api/trade_journal.py`, `api/principles.py`) | `trade_journal`, `principles` | create, edit, delete, analyse in the background | language model | `TradeJournal` |
| Overview of accounts (`api/portfolio.py`) | none | gather balances, prices, the rate | brokers | `UnifiedPortfolio` |
| Heatmap (`api/heatmap.py`) | cached closes by day | current, refreshed or past map | board, Naver, research.db | `Heatmap` |
| Backtest engine (`research/backtest/`) | one run's portfolio | a day's exits, pending orders, regime, trims, rebalance, tax | factors, `UniverseFiles` | `BacktestEngine`, `Allocation`, `Sorting` |
| Blending and validation (`research/backtest/portfolio.py`, `walk_forward.py`) | curves, folds | blend, search, validate | engine | `SleeveBlend` |
| Results of runs (`research/scripts/run_backtest.py`, `api/backtest.py`) | directories, leaderboard | write, list, serve | files | `ResearchRuns` |
| Fundamentals (`research/data_ingestion/*_loader.py`, `research/factors/`) | `financials` | load, correct, trailing year, point in time | DART, EDGAR | `Fundamentals` |
| Universe files (`research/universe/`) | dated cache, file of codes | cascade of sources, refresh | engine, settings API | `UniverseFiles` |

The interactions that matter: approvals, alerts, manual orders and the
stop-loss all go through the guard (shared flag) to a broker; approvals and the
tracker write the same `trades` rows, from which the ledger derives the loss the
guard looks at; generation, expiry, approval and rejection write the same
`order_proposals` rows; the engine and the proposals share the allocation; the
socket to the broker feeds both the clients and the stop-loss.

What is hard, and what correctness means there:

- *Approval, manual orders, Telegram.* Taps, batches and callbacks overlap; the
  process may die between the broker's acceptance and the trade row; a reply may
  be lost; the INSERT may fail. A declined proposal is never ordered; one proposal
  has one key; the tables are true; repeats have a cause; approvals end.
- *Tracker.* The loop, a task per order and the sync write the same rows with
  awaits between reading and writing. Rows never claim more than happened,
  settle on what happened, one row per order, no step back.
- *Generation.* Two nightly jobs, a button, the user and the broker act on one
  target over days. Rejections hold, no leg twice, never beyond the target, what
  is missing is proposed again, sales are of what is held, purchases keep to the ramp.
- *Alerts and switch.* Two rounds over the same alerts, deletions, failing
  transactions, restarts. One order per alert, none spent without a trace, none
  starved; a switch turned on stays on, and what passes the gateway respects it.
- *Real-time part.* Stale positions, lost answers, shared subscriptions, a
  socket that any exception closes. One sale per breach, clients keep being fed,
  a breach is acted on in the end.
- *Data that outlives a run.* Interrupted loads, files written by several jobs,
  corrections of old reports, orders filled over several days. No holes, no row
  without its run, no figure from the future or of the wrong quarters, books that
  agree with the fills.
- *Shared and cached values.* Several callers miss a value at once; budgets are
  shared; a ranking changes under its commentary. Nothing is bought twice, no
  budget exceeded, nothing old shown as new.

`PROJECT.json` lists every component with its sources and status, and under
`hazards` each of these points at its line with the properties that cover it.

## 2. Plan

Done, in this order, the most consequential first:

1. `OrderApproval`, its runs and `OrderApprovalProofs`; the abstract
   `ProposalContract` that it implements, and the proof that it does.
2. `OrderTracker` and its runs.
3. `ProposalGeneration` and its runs.
4. `KillSwitch` and `AlertMonitor` (which extends it), with their proofs.
5. `RealTime`: the feed, its clients and the stop-loss.
6. `Allocation` and, on top of it, `BacktestEngine` and `ProposalRules`;
   `ManualOrder`, `DataSync`, `LanguageModel`, `TelegramCommands`, `Ledger`,
   `Ratings`, `SharedCaches`, which `MCParts` instantiates.
7. `SleeveBlend`, `ResearchRuns`, `Fundamentals`, `AccountProfiles`,
   `UniverseFiles`, `BrokerAccess`, `Heatmap`, `UnifiedPortfolio`,
   `DailyInsights`, `TradeJournal`, which `MCDesk` instantiates.

8. The proofs of `ProposalGeneration`, `OrderTracker`, `RealTime`, of what becomes of
   spent alerts, and of five components of `MCParts`.
9. `DataLemmas`, sums over finite sets; with them the proofs of nine components of
   `MCDesk` (`DeskProofs`) and, in `PartsProofs`, of the budget of the language model
   and of the proposals of an evening.
10. `BooksProofs`, of the backtest and of the books of an account; and the types of all
   the components of `MCParts`.

Left (section 7 says what stands in the way): the blend of sleeves.

## 3. Modules

Every action is the code between two awaits, so an interleaving of actions is
an interleaving the event loop can produce. A definition called "Mutant of X"
is X with a plausible bug; no specification uses it. Replacing X by it must
break the property that `PROJECT.json` names, which shows that the property can
see that code.

### OrderApproval

A request is one call of `approve_and_execute`: a tap, an item of a batch or a
Telegram confirmation.

| Variable | Code |
|---|---|
| `status`, `clientOrderId`, `tradeId` | columns of `OrderProposal` |
| `trades` | `Trade` rows by client_order_id, with the order they record |
| `pc`, `job`, `held` | the await at which a request stands, its proposal and the key it carries |
| `wire`, `book` | orders on their way and orders the broker has (external) |
| `killSwitch`, `lossBreached` | `AutomationSafetyState`; whether today's loss is past the limit |
| `restarts`, `lost` | bound; history of proposals with an order that was sent and forgotten |

| Action | Code in `approve_and_execute` unless stated |
|---|---|
| `Start`, `ReadProposal` | the call, its first SELECT and the branch: a PROPOSED row is to be claimed, one that is APPROVED with a key goes on with it, any other is a conflict |
| `Claim`, `ClaimConflict` | the conditional UPDATE to APPROVED with a new key, and its row count |
| `Lookup`, `Replay` | `_find_trade_by_client_order_id`; an existing row answers the request |
| `Guard`, `CheckDailyLoss`, `MarkBlocked` | `guard_order`, `assert_daily_loss_ok`, FAILED |
| `Place`, `BrokerAccepts`, `BrokerRefuses`, `ReplyAccepted`, `ReplyError`, `MarkFailed` | `place_order` with a broker in between; every KISRestError, a timeout included, is FAILED |
| `InsertTrade`, `InsertFails` | `_persist_trade_skeleton` of `api/portfolio.py` |
| `MarkStored`, `MarkUnstored`, `MarkRaises` | `mark_proposal` to SUBMITTED |
| `Reject`, `RunExpiry` | `reject_proposal_cas`, `run_proposal_expiry` |
| `ToggleKillSwitch`, `LossChanges`, `Restart` | the rest of the system |

`MarkRaises` needs a word. When the INSERT of the trade row fails, the session
is rolled back, and a rollback expires the loaded `proposal` although the
sessions are made with `expire_on_commit=False`. `mark_proposal` then reads
`proposal.id`, which would load it again outside an await and raises; the
request ends and the row stays APPROVED. Both outcomes are kept.

A key is represented by the request that made it. Quantity, price and notes are
left out; a proposal's terms keep only what the gates look at.

### ProposalContract

What the user of the approve button relies on: a proposal has a status, the
broker has orders for it, and some orders may be forgotten. One decision is
taken, orders follow only an approval, SUBMITTED is reported only of a proposal
with an order, and with requests that do not overlap there is one report, and
no second order unless one was forgotten (nor FAILED for an ordered proposal, if
answers arrive). `OrderApproval` instantiates it with `orders` mapped to the
broker's book and `forgotten` to `lost`; `MeetsContract` is the refinement.

### OrderTracker

Three writers of the same rows: the loop (`track_pending_orders_once`), a task per
submitted KIS order (`track_trade_until_terminal`) and the sync jobs
(`sync_external_orders_once`, `sync_toss_orders_once`).

| Variable | Code |
|---|---|
| `submission` | how far the app has got with an order of its own: sent, recorded, lost |
| `filled`, `canceled` | the broker's books (external) |
| `trades` | rows: order, status, filled_quantity |
| `checked`, `recent` | the order of `last_checked_at`, and what the poll interval still protects |
| `agenda`, `poll` | the loop's remaining ids; where the loop and each task stand, with the answer or the pending write |
| `sync`, `writer` | each sync's session with its unflushed changes; who holds the write lock |

`checked` is a row's place in the order of `last_checked_at`, 0 for never; a check puts
the row last (`Stamped`). `Due` are the queues the query may return: never checked
first, then the longest ago, at most `Limit`. `Load`, `Ask`, `Reload`, `Commit` are the four awaits of
`track_trade_once`. `Applied` is `_apply_execution`: the quantity only grows, the
status is the answer's, and an order that is not found changes neither. A flush
writes only the columns that differ from what was read (`Flushed`), as
SQLAlchemy does: that is why an overlap can leave the columns of one row out of
step. `Match` finds a row by order number or queues an INSERT; `CommitSync`
makes the whole session visible at once. Without "overlap" among the `Faults` a
sync begins only when no poll and no other sync is under way. A Toss row has no
KIS account type, so that `Load` of one raises out of the loop's turn.

### ProposalGeneration

One account during one month. A run is an await-by-await walk through
`run_proposal_generation` (month-start: `ReadBalance`, `SaveTarget`) or
`run_carryover_generation` (`LoadTarget`, `ReadBalance`), then `FilterRejected`,
`Dedupe`, `Commit` and, when the unique index refuses a row, `RetryRow`. The
legacy job yields to an account whose profile is quant-enabled and the
managed job serves only those (`CheckProfile`); a run by hand may do either.
`Approve`, `Reject`, `Fill`, `Toggle`, `Evening` and `Morning` are the user, the
broker and the two crons.

Abstracted: legs are (stock, side) pairs both strategies want; a leg's gap is counted in
units large enough to be worth a proposal, so that the 1 % threshold and price
rounding play no part; the ramp cap is off; the unique index is
implied by `proposed` being a set of keys; approving is one action, because
`OrderApproval` is about its steps; expiry takes every PROPOSED row, since the
next business morning is the next one in the model; orders are day orders,
which do not outlive the close.

### KillSwitch

`enabled` is the flag in memory, `stored` the row (the reason, a second row written in
the same transaction, is left out). A request (`call`) sets the flag, then reads
the row, then writes it if it differs and commits (`SetSwitch`, `ReadStored`,
`WriteStored`, `WriteFails`). `RestartSwitch` is `_restore_kill_switch`: a row
overrides the environment, an error is only logged. `armed` is history: the
switch was turned on, the request was answered, none else was under way, no
start-up since failed to read the row.

### AlertMonitor

Extends `KillSwitch`. A round is `evaluate_alerts_once`, run by the loop or by
`POST /api/alerts/evaluate`: a SELECT (`Begin`), then per alert the quote
(`Fails`, `Misses`, `Hits`), the claim, the gateway, the order, and one commit at
the end (`Finish`). Since a session writes only attributes that changed, and
writes them at the next flush, the model keeps what a round has read (`read`),
what it will write (`noted`) and for which alerts (`touched`). `_claim_alert`
flushes these, makes the conditional UPDATE and commits: one action, since
SQLite holds the write lock throughout. A deleted row or a locked database ends
the round (`Dies`): the handler around each alert touches expired objects and
raises again. `excused` is history: the alerts whose outcome the code does
not claim to keep. `ALERT_ORDER_IS_MOCK=false` is assumed; no endpoint changes
`is_enabled`; ids stand for the order by created_at.

### RealTime

The upstream socket (`run_forever`, `subscribe`, `unsubscribe`), the clients of
`ws/quotes.py` and the `KISRiskManager`. `link` and `subscribed` are the client's,
`sends` the requests it still has to send under its lock, `live` what the broker has
been told. A tick is handled between awaits: `Broadcast` to the clients whose
codes match (no codes means all), then `Inspect`, with `ReadBalance` and
`Refreshed` before it when the cached positions are too old, then `BrokerSells`,
`StopBlocked`, `StopRefused` or `StopUnheard`, and at last the notification: `StopDone`,
or `NotifyRaises`, since `_notify_stop_loss` catches TelegramSendError alone. Whatever raises
(`RefreshRaises`, `BroadcastRaises`, `StopBlocked`, `StopRefused`, `StopUnheard`, `NotifyRaises`)
goes through the handler, which lets go of the trigger, and closes the socket
(`HandlerRaises`), which `Connect` opens again and subscribes anew. The task of
`main.py` refreshes positions and reconciles subscriptions (`SubscribeNew`,
`UnsubscribeOld`). History: `sales`, `lapsed` (how often the handler failed after a sale was
accepted: its answer was lost or its notification raised) and `released` (codes the
reconciliation let go, which clients may still watch). `StopSellsOnce` allows one more sale for
each time in `lapsed`: the broker refuses what is no longer held, but a position bought back
meanwhile is sold again.

### ManualOrder

One submission of `POST /api/portfolio/orders`: `LookUp` by client_order_id,
`Guard` (switch, value, daily loss for live accounts), `BrokerTakes` or a
refusal, `Persist`; `Conflict` is the unique index. Validation refuses what the
broker's client cannot express (`digits`, account). Two submissions with one key
that overlap may both order; one that comes after a stored answer may not
(`NoRepeatOfStored`).

### Allocation, BacktestEngine and ProposalRules

`Allocation` has the pure functions of the engine that the backtest and the
proposals share, with the lists of `Sorting`: equal weights for a slot count and an exposure, the band trim
and the score-exit swap. A price function is worth one share in cash.

`BacktestEngine` is one run, a stage per action in the order of the loop
(`OpenDay`, `ExitPositions`, `FillPending`, `AdjustToRegime`, `TrimDrifted`, `SwapWeak`,
`Rebalance`, `CloseDay`). A stage that trades sets a target (`Pursue`) whose trades
`ApplyTrade` takes one by one, sales first; `Settle` closes the year for the three
tax regimes. Ranking, regime and momentum gate are inputs. Entry prices are
exact fractions. After-tax runs take the year's tax from cash after purchases were sized,
so cash may go negative and a swap's purchase be skipped (the comment at
`research/backtest/engine.py` 406-408 says it never is); the property is therefore
about runs before tax.

`ProposalRules` is one sleeve, evening by evening: what `RunRules` (stop, profit,
score exit with its replacement, band trim, de-risking), `RunRebalance`, `RunCarryover`
or `RunHold` draws up, with the rejection filter (`KeptUnlessRejected`), the ramp
cap (`Ramped`) and the unique index (`Stored`); then fills, refusals, expiry. Trimming and
de-risking may both draw up a sale of one stock; only the unique index keeps one of
them. A ramp cap or a rejected purchase leaves the sale of a score exit without
its replacement, as the code does.

### DataSync

One table of research.db. A record says how it resumes: `scope` (series asked),
`grouped` (by series or by the whole table's maximum), `upsert`, `portal` (needs the
KRX login, whose failure is remembered process-wide), `asksAll`, `lag` (the source's own delay).
`Begin` fixes the window from the most stale series minus the overlap of five
calendar days; `Load` inserts what is answered. `catchUp` is the run at start-up
and its one retry. A series that was delisted keeps the minimum at its last day, so
that the whole table is fetched again from there; that costs time, not data. A run ends before the
next market day; the model lets several overlap.

### LanguageModel

A request goes through `ReadCache`, `Reserve` (an upper bound into the log file, under
a lock and only if it fits), the call, `Release` (books what the answer says it used, takes the
reservation back) and `KeepAnswer`. A call that times out or loses its connection may have been
billed, and the SDK repeats it by itself (`LoseAttempt`); if it raises in the end the reservation is
given back all the same (`CompleteFails`), and an answer without `usage` is booked as
nothing (`Complete`). `untold` is history: what was billed and no answer told of.
The length of a prompt is estimated as a third
of its characters, so an answer may exceed its estimate; a reservation made
before midnight is released into the next day. `BudgetRespected` bounds what is billed and allows for
these three; `DailyCap`, the plain sentence, does not hold.

### TelegramCommands

The poll (`Poll` drops what is below the offset it asks for), the callbacks one by one
(`Take`, `Ask`, `Act`), the proposals of a batch one by one (`DecideNext`), an
exception of the handler (`HandlingRaises`) and a restart, which forgets the offset
and so reads everything again that Telegram has not dropped.

### Ledger

Orders of one account that fill share by share, rows dated by the order or by the last fill
(`stamping`), profit matched first in, first out (`RealizedBetween` with `Matched`, row by row over
the lots), what is left (`Position`), the rebuilt curve (`EquityOn`, `CurveAt`) and the
nightly snapshot (`EndOfDay`). `LossReached` is the daily loss guard's question.
The curve drops fills on days without a bar; `CurveIsComplete` says when it claims anything.

### Ratings

The evening's lane (`FetchAccounts`, `GradeStocks`, `GradeFunds`, `ClearRows`,
`WriteRows`), the hourly lane, which regrades sales by profit alone and keeps the
rest, and the request for one code under `RATING_LOCK`. Deleting and inserting an
account's rows are two transactions, between which a lane may fail. `tells` is
history: what the rows of a wallet were made of. Pruning of old rows is left out.

### SharedCaches

`WantValue` looks, `EnterLock` looks again under the lock, `ValueArrives` stores. Every
KISRestClient has its own token manager, so its own lock, and they share the file; the board
of prices has one lock. `BoardRefreshedOnce` does not hold: the caller that waited
refreshes once more.

### SleeveBlend, ResearchRuns, Fundamentals, UniverseFiles

`SleeveBlend`: curves as functions from days to fractions, `RunPortfolioBacktest` with
`BlendCurves`, `ApplyKrwView` and its schedule of weights, and the windows of
`_search_weights` and walk-forward as `Fold`s; the score of a trial is an input.
The inner join does not rescale curves that start late, and between two periods a
day's return falls out; `BlendIsAnAccount` states what remains true.

`ResearchRuns`: jobs of the server's threads and of the command line that make a
directory named by second, write files one by one and append a row, with the
migration of an old heading (read, truncate, rewrite) and kills anywhere. A row
appended to the emptied file stands where the heading should: the reader names the columns by it
and lists the rows after it without a `run_id` (`Shown`). `ListedIsServed` allows for that
while a job rewrites the board and after a kill.

`Fundamentals`: reports are filed, corrected and loaded, perhaps with losses; an
amount is the set of quarters it is earned in, so that "discrete", "year to
date" and the trailing year are unions and differences. `Known(d)` is the
point-in-time filter, `Ttm` the sum the factors take.

`UniverseFiles`: the cascade of sources of `get_kospi200_constituents` and its sibling, in
the order of the code, each of which may fail; the cache by day that whatever was found is saved to;
the file of codes a refresh compares and rewrites; `TakeUniverse` of the engine.

### AccountProfiles, BrokerAccess

`AccountProfiles`: rows seeded on first use, patches that load, read the lock and write
(`LoadRow`, `ReadLock`, `WriteRow`), and the nightly job, which reads the rows once (`StartEvening`)
and derives the months of an entry account by account from the closes that are stored up to it
(`ApplyRamp`; a read that fails counts as no drawdown). Closes come in late and are revised
(`LoadCloses`). `settled` is history: what the last evening applied whose reads succeeded, until
a close it rests on changes. `RampSettles` says that a later evening whose reads succeed applies
the same, and that a failed read gives the months of a peak, for that evening; it fails if closes after the
entry are looked at. A patch of the type alone is not held against the stored
sleeves; closing the lock again leaves accounts on.

`BrokerAccess`: which credentials a call takes (`KeysOf`: Toss falls back from settings to
environment, KIS trades with the environment's and tests the database's), which token
the file holds, and how long it outlives the credentials. A 401 does not drop a token.

### Heatmap, UnifiedPortfolio, DailyInsights, TradeJournal

`Heatmap`: a view (`CompareLatest`, `LookInCache`, `FetchCloses`, `ReadLiveBoard`, `BuildMap`)
while phases of the day pass and bars arrive; a Naver snapshot, perhaps partial, is
kept for good. `MARKET_SNAPSHOT_AUTOSTART` is on, the default: without it the board of live prices
may be of any age. `UnifiedPortfolio`: KIS accounts answer in any order, Toss in up to
four steps, while shares are sold. `DailyInsights`: the ranking's rows are upserted by
`RunAnalysis`, a reader or the evening report starts a commentary unless one is in
flight (`DecideOnCommentary`), the model answers and is paid (`HearCommentary`), its cache
keeps the answer (`KeepCommentary`), and the rows get it (`StoreCommentary`). An answer paid for
may be lost: the write to the cache fails (`FailCommentary`) or the client repeats the call
(`AskAgain`); `unkept` counts these, each of which may cost one more purchase. Rows that
fell out of a ranking keep their commentary, whose presence then counts for the
new ranking. `TradeJournal`: requests that read, wait and commit, and
background analyses that overlap; the older one may finish last.

### MCParts and MCDesk

Components that share no state are checked by two instances that move one
component per behaviour (`part`, one of `Moving`) and hold the others at one of
their initial states. Interleaving them would add nothing to any property, each of which
is about one component; their properties are grouped by what they are about.
A component that has more initial states than one starts from each of them when it
is the one that moves. The US advice, a part of DailyInsights that shares only restarts with
the rest of it, moves as a component of its own.

## 4. Runs

| Run | Question | Distinct states |
|---|---|---|
| `approval_races` | Two proposals (KIS and Toss), three requests, every fault: TypeOK, DeclinedNeverOrdered, OneKeyPerProposal, LedgerTruthful, DecisionsAreFinal | 741,616 |
| `approval_recovery` | One proposal, three requests in turn, two restarts, failing inserts: RepeatOnlyAfterLoss, FailedMeansNoOrder, ApprovedResolves, MeetsContract | 26,688 |
| `approval_doubletap` | Is it true that taps and retries still give one order? No: violated when two requests overlap | violation |
| `tracker_serial` | A KIS and a Toss order, partial fills, failing polls and inserts, a restart, writers in turn: NeverOverstated, TerminalRowsExact, OneRowPerOrder, RowsOnlyAdvance | 1,461,279 |
| `tracker_progress` | One KIS order with overlapping writers: EveryOrderRecorded, RowsSettle | 129,444 |
| `tracker_duplicate` | Does an order have one row, whoever records it? No: a sync overlapping a submission inserts a second | violation |
| `generation_cron` | Both nightly jobs, two legs, two shares missing each, profile switched in daytime, a run that fails: RejectionRespected, OneSystemPerLeg, NeverBeyondTarget | 13,418 |
| `generation_progress` | With a run by hand and the profile switched at night: ResidualIsProposed | 636,208 |
| `alerts` | The loop and a run by hand over two alerts under a switch that is set and restored, deletions, lost answers, a locked transaction, a restart: TypeOK, OneOrderPerAlert, SpentIsAccountedFor, SwitchHolds, ArmedBlocks, RipeFires | 318,542 |
| `stop_loss` | One stock, one client, a dropped socket, an error, a trade: StopSellsOnce, WatchedIsFed, StopIsReached | 247,128 |
| `parts` | The nine components of MCParts: PartsTypeOK, BacktestHolds (EveryBuyIsFunded, EntryIsCost), ProposalsFit (SellsAreHeld, RampRespected), StopIsProposed, OnceOnly (NoRepeatOfStored, DroppedIsDone, SharedValuesHold), RecordsAgree (RowsFollowTheAccount, NoHoles), SumsAgree (BooksAgree, BudgetRespected) | 1,008,906 |
| `desk` | The ten components of MCDesk: DeskTypeOK, ResearchHolds (BlendIsAnAccount, OutOfSample, ListedIsServed, FiguresHold, FileIsWhole), AccountsHold (LiveNeedsUnlock, ForeignTokenExpires, TotalIsRight), RampSettles, ScreensAreHonest (MapIsHonest, CommentaryIsLazy, JournalIsSound) | 1,702,268 |

Each violation is a `finding` in `PROJECT.json`, with the sentence of the
repository that says otherwise.

What-ifs are not part of the runs: they show which assumption a property needs,
or that a sentence of the code is too strong. Two have a configuration here,
`KillSwitch_overlap` (two overlapping requests leave memory on and the row off, so a
restart loses the switch) and `ProposalGeneration_beyond` (a run by hand while an
order works proposes it again). The others change constants of a run:

| Start from | Change | Shows |
|---|---|---|
| `OrderApproval_doubletap` | Faults = {"restart"}, MaxRestarts = 1 | OneOrderPerProposal fails without overlap too, by a restart before the trade row |
| `OrderTracker_duplicate` | NeverOverstated, all four Faults, Limit = 2, Qty = 2, MaxRestarts = 1 | it holds with overlapping writers (2.7 million states) |
| `OrderTracker_duplicate` | TerminalRowsExact, KisSyncs = {}, Qty = 3 | it fails when two writers of a row overlap |
| `OrderTracker_progress` | RowsSettle alone, KisOrders = {k1, k2}, KisSyncs = {}, Faults = {"overlap"} | it holds for two orders when one turn polls one row (111,569 states) |
| `OrderTracker_progress` | RowsSettle alone, TossOrders = {t1}, KisSyncs = {}, Limit = 2, Faults = {"overlap"} | it fails: a Toss row raises out of every turn of the loop |
| `ProposalGeneration_beyond` | RejectionRespected | it fails: a rejection between filter and insert of a run by hand is not seen |
| `ProposalGeneration_beyond` | OneSystemPerLeg, ButtonRuns = {}, CronRuns = {legacy, managed}, Faults = {"toggle"}, MaxToggles = 1 | it fails: the profile is switched during the evening's runs |
| `Parts`, `Desk` | listed at the head of the two files | sentences of the code that are too strong, quoted at each definition |

What these say of the program is worth knowing. Of proposals: a stock sold by a stop
may be bought again the same evening by another rule (ExitIsFinal); a rotation sells a stock the user
holds beside it (ManualIsLeft); an empty target is taken for none and is not carried over
(RestIsCarriedOver). Of data: a bar taken before the close stays where rows are only inserted
(ClosingBarStays), and an index may hide the gap of another (NoMaskedGap). Of the
books: a sale of shares bought before the first row is matched against later lots
(OlderIsSkipped). Of ratings: without its strategy file a fund is graded as a
stock (FundsGradedAsFunds), and the hourly lane may change other grades (OthersKeepTheEvening).
Of research: a return is lost between periods (CompoundsCorrectly), two test windows may share a
day (TestsApart), a heading may stand among the rows and rows are lost in a migration
(NoStrayHeading, BoardAccumulates), a trailing year may have a hole or five quarters
(TtmIsAYear, LastFourAreAYear, QuartersAreDiscrete). Of universes: an
approximation is cached as the day's list and has no upper bound (MembersOfTheDay,
IndexIsTaken). Of accounts: a type may be patched without its sleeves (RegulationHolds), closes that
arrive late or are revised, or cannot be read for an evening, change the months of an entry (RampIsFixed), a token outlives its credentials
(ServedAsAsked, TradesUseTheirOwn), a blank or wrong account number is accepted
(SettingsAreUsable). Of screens: mixed days and partial snapshots (DayIsAsSaid,
RefreshIsNoStepBack, SnapshotIsWhole), sums over a moving account and gaps counted as
zero (TotalIsOfAMoment, GapsAreListed), ranks that repeat and commentaries beside another ranking
(RanksAreDistinct, CommentIsOfRanking, ReadyIsCommented, AdvisoryIsCurrent), analyses of an
older text and references to deleted principles (AnalysisIsLatest, FoundIsKept, NamedIsKept).

Run one with `tlc -config OrderApproval_races.cfg MCOrderApproval`; prove a module
with `tlapm OrderApprovalProofs.tla`.

## 5. Bounds

- *Requests, rounds, writers, callers.* Every race found or excluded here is between two
  actors on one row; a third request lets a retry follow a race. The proofs
  drop the bound.
- *Two proposals, alerts or accounts* where one may disturb the other (a round's shared
  session, batch expiry, a wallet's rows); one where rows are independent, as in
  `approval_recovery`.
- *Shares.* Two, so that a partial fill differs from a full one. In the
  algorithms a handful of price paths is chosen so that every rule acts: a fall past the
  stop, a rise past the profit target, a drift past the band, a missing price.
- *Days.* Four to six: the backtest crosses two month ends and a year's, data
  synchronisation has a gap older than its overlap, ramps have a first, a middle and a
  last step, reports seven quarters so that a trailing year can be replaced.
- *Restarts, kills.* One, or two where recovery itself may be interrupted.
- *Locks, failures, toggles, edits.* One to three: each is one event that may happen at
  any moment.
- *Polls of a task.* Two, then its deadline; the loop goes on without bound.
- *Ratings* in `parts` have one day's scores; a second is a what-if.
- *RealTime* has one stock and one client, each event once: the properties speak of
  a single stock, and interleavings of its tick with the task and the client are all there.

Deadlock is not checked: requests are finite in number and brokers, users and
crons may do nothing more, so a final state is legitimate.

Symmetry is used in `approval_races` only, which has no liveness, over actors
nothing else tells apart.

## 6. Fairness

- *Coroutines* (approval, tracker, generation, alerts, the tick's handler and the
  reconciliation task): weak fairness. The event loop runs whatever is ready, and
  HTTP calls have timeouts, so every await ends.
- *Commits and flushes* of the tracker, and recording an order: strong fairness.
  A writer waits up to 60 s for the lock, while the transaction in its way lasts
  milliseconds and has nothing remote between its statements; it cannot be
  passed over for ever.
- *The scheduler*: weak fairness on evening, morning and the start of its runs
  (`max_instances=1`, so that a run is never concurrent with itself).
- *The alert loop*: weak fairness on beginning and going on with a round. Strong
  fairness on meeting the condition restricts RipeFires to alerts whose condition
  holds again and again when the loop looks, which is what the property is about.
- *The socket*: weak fairness on connecting (run_forever retries without end) and
  sending; strong fairness on a tick of each stock the broker sends, since trading
  goes on and a socket that opens again and again hears of it.
- Users, restarts and faults get none; the number of restarts is bounded, so that
  the system is left alone in the end. Brokers get it in OrderApproval only, where
  a submission is decided because the HTTP call times out; elsewhere they owe
  nothing, and the properties start from what they did.

The components of MCParts and MCDesk are checked for safety only.

## 7. Proofs

For any sets of proposals, requests, alerts and rounds, any faults and any
bounds that satisfy the named assumptions (`ApprovalAssumption`, `SwitchAssumption`, `AlertAssumption`,
`TrackerAssumption`, `GenerationAssumption`, `RealTimeAssumption`, and those of the
components of PartsProofs and DeskProofs). Where a theorem needs more, its statement says so.

**OrderApprovalProofs.** `TypeCorrect`; then `IInv`, the conjunction of
TypeOK, Linked, DeclinedNeverOrdered, OneKeyPerProposal, Claimed, AtHand and
LedgerTruthful. What the runs check is not inductive: that an order is one of
an approved proposal needs that only a request past `Place` has one (Linked);
OneKeyPerProposal needs that a proposal has a key exactly when it was approved,
made by a request for that very proposal (Claimed); LedgerTruthful needs what a
request that is about to write a row or a mark has in hand (AtHand). From `IInv`
follow `DeclinedSafe`, `KeySafe`, `LedgerSafe` and `DecisionsFinal`. For requests
that do not overlap, `SerialInv` adds Exclusive (one request under way per
proposal), StillApproved (its proposal is not yet executed), Recorded (an order
that was not forgotten is in the table, in a final status or in the hands of a
request), NoOtherOrder (a request past the look-up is alone with its order) and
FailureHonest (a request about to note FAILED has sent nothing, if no answer is
lost), and gives `RepeatsNeedLoss` and `FailuresAreHonest`. Both state their
condition on `Faults` themselves.

Its last section proves `ContractMet`: initial states map to initial states, and
under `IInv` and `SerialInv` every step maps to a step of the contract or to a
stutter. Three lemmas carry it: a report is allowed and true
(SubmittedIsTrue, FailedIsTrue), an order has a cause (OrderHasCause).

**TriggerProofs.** The two that order by themselves. First the kill switch: `SerialSwitchHolds`, if requests do not
overlap. SwitchHolds says nothing of the row, which a restart needs, so Mirrored adds that
an armed switch is on in memory and in the row; Serial says that the one request
under way read what is still in the table and that memory shows what it asks for.

`AlertsTypeCorrect` and `AlertsOrderOnce`: OneOrderPerAlert
needs that at most one round is past the claim of an alert (OneClaimer) and that
nobody ordered before it (Unspent), which the conditional UPDATE establishes.
`ArmedSwitchBlocks` combines the guard's condition with `SwitchInv`, which every
step of the monitor keeps.

`SpentAlertsAccountedFor`: what a row of an alert says
is written at the end of a round, and by another round perhaps, so that AccountInv
follows what every round has not written yet: it has changed nothing of an alert it
has still to look at, one it wins has no error in its session (Unwritten), and only of
an excused alert has it read an error it could wipe out (Unread).

In the real-time part `RealTimeTypeCorrect`, `StopLossSellsOnce` and `WatchedCodesAreFed`, for any
finite set of stocks, any clients, drops, errors and trades. Once says that a stock stays triggered
after an accepted sale unless the handler failed after it, which `lapsed` counts sale by sale. A socket under load has requests on the way
that contradict each other; Fed says that for each code they end in what
`_subscribed_codes` says, whatever was sent before (Settles). Remembered says that what clients
watch and the risk manager reconciled is in `_subscribed_codes` or was released.

**OrderTrackerProofs.** `TrackerNeverOverstates`, with overlapping polls, restarts and
every other fault: TruthInv says of each place where a status and a number of shares wait to be
written (an answer a poll holds, its pending write, a sync's items, updates and inserts,
the rows) that they are true of the order now, and true they stay, as the broker
only fills more and never takes back an end. A write of single columns is judged by
what the row will be, which is why TruthInv speaks of rows as well.
For `"overlap" \notin Faults`, SerialInv adds that the writers take turns (InTurn: no two
pollers at one row, no poller and no submission beside a sync), that what waits to be
written is exact if it is final and no step back from the row as it stands (PollsExact,
SyncsExact), and that an order not yet recorded has no row (Unrecorded). From it follow
`SerialTerminalRowsExact`, `SerialOneRowPerOrder` and the action property
`SerialRowsOnlyAdvance`. The run `tracker_serial` has this condition; that each of
the first two needs it is shown by `tracker_duplicate` and by a what-if of section 4.

**ProposalGenerationProofs.** `GenerationTypeCorrect` for any runs; the three properties
of `generation_cron` under OneServer: the two jobs of the scheduler, each of which never
runs beside itself (`max_instances=1`), no run by hand, no change of the profile while they run.
That is how the server works by night; the what-ifs show the properties to fail
when one of these is given up. GenInv says that one run gets past the profile
(Chosen), that nothing of the evening was proposed before it (Fresh), that its drafts are what
the holding lacks, less what was rejected (Measured), and that a leg has one
proposal or one working order at most, for no more than it lacks (Covered).

**DataLemmas.** What the models add up, they add up with the library's MapThenSumSet, a
fold over a set whose order is a CHOOSE. That such a fold exists, is an integer, takes its
members in any order, grows with them and is linear is proved from a least counterexample (of
Min and the well-foundedness of Nat), once for `SumOf`, the sum of a function; a sum in
a model is first shown to be a `SumOf`. `LeastIsMin` and `GreatestIsMax` do the same for Min and Max,
and `StepByStep`, of a set of numbers, is the induction that what follows rests on.

**PartsProofs, BooksProofs.** The components of MCParts, each on its own and in the
specification of the run: `AskedTwiceDoneOnce`, `StoredRecordsAgree`, `SumsAreRight`,
`BacktestIsSound`, `ProposalsAreSound`, `PartsTyping`. BooksProofs has the lemmas about the
backtest and the ledger.

- `ManualOrderOnce`: a submission that may become an order looked its key
  up after the stored answer it has been told of.
- `DroppedTapsAreDone`: every callback before the next one is settled, the one being handled
  excepted, and Telegram has not dropped that one.
- `CachedValuesShared`: one caller fetches under a lock, and
  what was fetched under it expires no later than the stored value, which has expired when
  the fetch begins.
- `BarsWithoutHoles`: the days of a series are an interval, what a run
  under way asks for joins on to it, and its window ends at the newest day of the source; it
  needs GroupedByAll, that the resume date of a grouped table is the least over all its
  series (the queries that `run_data_sync` groups have no WHERE), and NoMaskedGap
  shows what happens without.
- `RowsOfTheLastAnswer`: between the two transactions of a lane, the
  accounts that answered have no rows, and the grades it holds agree with what it saw.
- `BudgetIsKept`: the log of a day is the sum of what each request has in it, its reservation or
  what it reported beyond it (LlmInv); and what the reservations of a day stand for is within the budget but for
  what requests of other days gave back to it, the one way to free what nobody reserved. What is
  billed is that and what no answer told of, request by request.
- `BacktestTradesLikeAnAccount`: both properties, for any prices, rankings, calendar and
  strategies. EveryBuyIsFunded needs more than the cash of now: CashInv says that, without
  taxes and with costs of both sides within half a percent, cash plus what all trades still planned bring in
  or cost is not negative. A trade moves its flow from the plan into cash; when the
  purchases' turn comes, only purchases are left, and so each can be paid. That a new
  target has this property is shown for each of the seven stages that set one: sales alone bring
  in (SalesArePaid); a target of 199/200 of the value or less pays its own costs
  (KeptBackPays, with EqualWeightFits for the division of equal weights and its rounding);
  and a swap buys for 99/100 of what its exit sells, exit by exit (SwapIsPaid, which pairs
  each purchase with its exit, SumPaired). EntryIsCost needs, during the trades, the entry of the position
  before them (EntryInv), that a target trades a code once and sells no more than there is (TradeInv),
  and that a reduced average of two prices lies between them (ReducedFits,
  BlendingFits). SignalInv keeps that no signal has more codes than slots.
- `ProposalsFitTheAccount`, `StopsAreProposed`: for any sleeve, prices, rankings and evenings.
  RulesInv says that what is held was paid for, that a code and a side have one row, that no row
  sells more than is held, and that value and purchases together fit the ramp (RampFits).
  By the evening: `Ramped` cuts the drafts in their order, and what the cuts spend never exceeds
  what is left of the budget (LeftIs, CutsFit, RampKept). By day: a fill moves its amount from
  cash or purchases into shares at the closing price that the row was sized with, so that
  the sleeve's value stays what it was (FilledSums), whatever is filled, in part or in whole;
  what `Refuse` takes away only makes room (FewerFit). A stop is the only draft of its code
  and side (Sole, ExitDraftsAre: what is past its stop is out of the reach of trims and
  de-risking), and so neither the filter, the ramp nor the unique index drops it.
- `BooksAgreeWithTheFills`: for any closes, orders, fills, inherited shares, both stampings and
  snapshots that fail. LedgerInv says that a row has the shares filled of it (RowsAreCounted), that no two rows
  have one time (RowsAreStamped), that nothing is sold that is not held, share by share
  (HeldIsCounted, NoneIsShort), and that a past day is what rows and closes
  say of it (DaysAreKept), to which later fills, being of a later day, add nothing. The curve
  of a past day is then the sum it is taken from (CurveIsWorth). For the profit the lots of a code
  are shown to be a queue of shares (Queue): a purchase joins at its end, and what a sale takes,
  lot by lot and the last one in part (Taken), is the shares from its first on (TakenIs,
  LotsLeft and GainOfLots). After k rows the queue is the shares that those rows bought less
  those they sold, and the profit so far that of the shares sold of that day, each against the one
  bought at its place (BooksAfter, RowMatched). For that a row takes up where the one before it ended
  (SharesGoByRows), which holds when the rows are in the order of the fills (InTime), and no share is sold
  before it was bought (SoldAreBought), as NoneIsShort says of the shares. That shares without a
  row break it is shown by a what-if of section 4 (OlderIsSkipped).
- `PartsTyping`: six components (orders by hand, taps, caches, the ingestion, the model's log, ratings) need
  more than their invariants say (ManualTyped and its like); `EngineTyping` and `RulesTyping` are of two more alone.

Two choices of the models serve these proofs. A list is sorted or filtered by rank (`InOrder`,
`Chosen` of Sorting) where SetToSortSeq and SelectSeq would do, and the ramp's budget is a
recursive function where a fold would do: those take an operator, and what
they return cannot be proved here. And four facts of the code are named assumptions: trading days and
evenings come in the order of their months (EngineAssumption, RulesAssumption); requests for
the model (LanguageModelAssumption), codes that are graded and codes that an account trades
(RatingsAssumption, LedgerAssumption) are finitely many.

**DeskProofs.** Nine components of MCDesk; `AccountsAreSafe`, `EntriesKeepTheirMonths`, `ScreensShowWhatIs`,
`ResearchIsServed` and `DeskTyping` are of the specification of the run, the last two for all but the blend.

- Profiles: a live row that is switched on came after the lock was opened, and what a
  request has read is no less safe than what is stored. `EntriesKeepTheirMonths` proves RampSettles, an
  action property: what an evening settled is the months of the closes now stored (SettledInv), an
  evening whose reads succeed computes them alike (MonthsAreIn), and a later or revised close that
  leaves the days up to the entry as they are leaves the months too (MonthsStay).
- Credentials (`ForeignOrdersEnd`): a client made since the last edit has the saved credentials; the token of others
  is older than the edit.
- Overview: what is added up is the sum of the answers, in any order of arrival, without
  those that failed. The attempt to prove it found that the CASE of `ToKrw` had two arms
  that overlap, of which TLA+ may choose either; they now exclude each other, as in the code.
- Map: no close is later than the day it is shown for, and a request that turns to
  snapshots was forced to or found the bars old.
- Insights: a commentary is made by one reader, who holds its key, or by the report, and one that was
  paid for is in the cache, about to be written to it, or counted as lost (PaidForOnce); none is bought that is
  kept.
- Journal: of an entry of which no two analyses ran, the one that runs knows its version.
- Results of runs: rows stand for whole directories, on the board and in the memory of a job about to
  write it back; and the board has its heading but while a job rewrites it or after a kill (NamesKept).
- Fundamentals: a row keeps its filing's figures and date; what a factor reads of
  a past day are the newest quarters filed by then, a year when there are four in
  a row, from discrete quarters or from DART's running sums (ReconstructTtm).
- Universe files (`CodesFileIsWhole`): whoever writes the file has enough codes, and unless a refresh was
  stopped with the file open, a file that is short is being written.

Only model-checked:

- ApprovedResolves, EveryOrderRecorded, RowsSettle, ResidualIsProposed, RipeFires and
  StopIsReached, which rest on fairness and ENABLED, out of the provers' reach.
- The blend's part of ResearchHolds and DeskTypeOK: its values are fractions in lowest terms, whose
  greatest common divisor and sums over days and sleeves are folds with operators of their own; what
  such a fold computes is induction over data, which the library's theorems cannot give these provers.

## 8. Not modelled

- Prices, quantities and money beyond what a decision needs; parsing of broker
  answers, except that an answer may be wrong about the state of an order
  (`AnswerFor`), lack a fill's time, a total or a price. Toss quantities are cut to
  whole shares and a KIS balance ends after ten pages; the models have neither.
- `get_order_execution` taking the only row of a listing for the order it asked
  about: what KIS returns for another number is not in the repository.
- Factor scores, performance statistics, the regime's indicators: floating-point
  computations over data frames, inputs of the models that use them. Optuna's
  sampling, and a study that is continued under its old name.
- The rebalancer of `services/kis/`, which only its tests call.
- Names and sectors of US stocks, the stocks, screener and watchlist pages, health and
  metrics: reads, forms and downloads without interaction.
- Snapshots a client gets when it subscribes, frames and encryption of the socket; the Toss
  socket is a stub.
- The app: a client whose taps are the requests. Several backend processes: the
  code is deployed as one.
