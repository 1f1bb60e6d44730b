# QuantGlass: a verification project

TLA+ models of the parts of QuantGlass where order, interleaving and failure
decide whether the program is right, TLC runs that check them on small
instances, and TLAPS proofs that hold for every instance. Paths are relative to
the repository root, and `app/` stands for `src/apps/backend/app/`.

## 1. The system

QuantGlass is a desktop application (`src/apps/desktop`) over a local Python
backend (`app/`). The backend is one process: FastAPI handlers that are
coroutines run one at a time on the event loop, plain functions (and calls given
to `run_in_threadpool`) run on worker threads, and an APScheduler instance runs
its jobs on threads of its own, one instance of each job at a time
(`app/scheduler.py:35`). All of them open their own connections to one SQLite
database (WAL, five seconds of busy timeout, `app/storage/state_store/db.py:17`)
and share one DuckDB analytics store behind a lock.

| Component | State | Operations | Hard behaviour | What makes it correct |
|---|---|---|---|---|
| Paper venue (`app/storage/state_store/trading.py`, `app/api/routes/paper.py`) | account, positions, order intents, closure ledger | submit, cancel, close, replace account; the 30 s job: fill or expire pending orders, enforce brackets, refresh marks | the job is three transactions on one price map and handlers run between them; reads before the first write are outside the transaction | no fill lost or doubled, books in step, orders filled on their terms, stops enforced |
| Alert engine (`app/services/execution_engine.py`, `app/storage/state_store/alerts.py`) | alerts, history | create, update; the 1 min job: list, evaluate, deliver, record | edits during slow deliveries, exceptions in mid-cycle | one fire per arming; an armed alert whose level holds fires |
| Market corridor and rate limiter (`app/services/market_corridor.py`, `rate_limits.py`) | request windows, diagnostics, ingest runs | refresh each target through its chain of providers | the job and any number of posts at once; a limiter without a lock; store calls that fail, also half way | the budget is exceeded by no more than the crowd explains, a failure is shown, every domain is served again and again |
| Provider manager (`app/providers/manager.py`) | registry, clients, settings | configure, register, resolve a chain | reconfigured while a refresh resolves | failover continues |
| Analytics store (`app/storage/analytics_store.py`) | candles, runs, diagnostics, calibrations | replace, list, record, resolve | delete-then-insert, newest-first windows, a limit on what a report takes | ordered series; an outcome does not depend on who asks |
| Signal engine (`app/services/signal_engine/`) | cache of signals, calibration rows | compute, serve, report | shared cache between job, warm-up and handlers; late reports; corrected candles | what is served is calibrated, outcomes are first touches, the cache catches up |
| Detection and research (`setups.py`, `backtest.py`, `indicators.py`, `macro_context.py`, `workbench.py`, `app/services/ranking.py`, `research_review.py`) | none | candidates, ladders, confidence, indicators, context, presets, verdicts | boundaries, sides, look-ahead, sparse data | levels in order, causality, verdicts that follow from the replays |
| Event bus (`app/services/event_bus.py`, `app/api/routes/events.py`) | one bounded queue per socket | publish, subscribe, drain | publishers on several threads, queues that are not made for threads | order kept, only the oldest dropped unless publishers crossed |
| Trading desk (`app/services/trading.py`, `constitution.py`, `app/api/routes/providers.py`) | mode, confirmation, rules, the day's tickets | confirm, adopt, check, submit to a broker, record | the broker's acceptance and the row are two steps; the keychain may go; a client may take less than the ticket says | no order without a confirmation; the rules bind every ticket |
| Secret store (`app/storage/secret_store.py`) | keychain entries, encrypted file, payload of older versions | save, delete, read, migrate | two back ends, refusals of any value, a file that is truncated and then written | what was saved is read back |
| Academy (`app/services/missions.py`, `learn_*.py`, `scenarios.py`, `app/storage/state_store/learn.py`) | progress, cards, missions, drills, active days | answer, complete, grade, accept, abandon, list | listings on threads read nine tables in turn and write | missions are earned, records stand, slots are bounded |
| Reviews (`app/services/trade_review.py`, `risk_meta.py`, `learn_moments.py`) | none | score, resolve, class, coach, brake | late resolution, thin samples | judgements agree with the trades |
| Settings and custom providers (`app/storage/state_store/settings.py`) | rows of JSON, the manager's copy | put, get, upsert, delete, enable | payloads of older versions, two copies | one normal form; the last call decides |
| Extensions (`app/extensions/`, packs and strategy registries, `src/packages/quantglass-sdk`) | registries | load at start, register, look up | an extension that raises half way, colliding ids | nothing unless enabled; only valid packs; lookups agree |
| Model gateway, copilot, news, locale, content, export | last error, provider order | complete, read | fallback | text only; the fact guard on narrations |
| Desktop UI, scripts, docs | - | - | - | - |

They interact through the SQLite tables (handlers and jobs), through candle
closes (corridor to venue, alerts and signals), and through events (all
services to the websocket). PROJECT.json lists every component with its status
and every hazard at its line.

## 2. Modules

| Module | Models |
|---|---|
| `PaperStore` | Tickets, positions and the arithmetic of one fill, one trigger and one bracket, as constant operators. |
| `PaperVenue` | The venue: handlers and job, interleaved at the grain of store calls and, inside the two loops of the job, of rows. |
| `VenuePromise` | The abstract specification: what the venue promises about orders and quantities. `PaperVenue` implements it. |
| `VenueClaims`, `DeskClaims` | Sentences of documentation and comments that the venue and the desk do not keep. |
| `PaperRaces` | The same store calls for one symbol at the grain of single SQL statements: stale reads, the write lock, conflicts and timeouts. |
| `AlertEngine` | The alert handlers and the evaluator job. |
| `ProviderManager` | Registry, clients, and `configure` as the sequence of steps other threads see. |
| `CandleQuality`, `MarketCalendar` | Normalisation and integrity report of a batch of candles; holidays and session gaps. |
| `MarketCorridor` | Any number of refreshes over limiter, manager, candles, diagnostics and runs; extends the three above. |
| `SignalEngine` | Cache and calibration rows under job, warm-up, reports and the corridor's candles. |
| `SetupFamilies`, `LadderBacktest` | Detection of setups, levels and sides; simulation of one trade, pooled confidence. |
| `Indicators`, `MarketContext`, `Research` | Indicators on a history; context, macro reads and ranking; presets, replays, verdicts, the fact guard. |
| `Mastery`, `TradeReview` | Streaks, levels, cards, queues, grading, readiness; scoring and resolution of trades, classes, coaching moments, mission criteria. |
| `Academy` | The learning tables, their handlers, and listings of missions on threads; extends both. |
| `SecretStore` | Credentials in file and keychain, starts, refusals, writes in two steps, migration. |
| `TradingDesk` | Tickets between settings, constitution, store and broker; extends `SecretStore`. |
| `EventBus` | Publishers, queues and sockets. |
| `Extensions`, `Settings`, `RiskBrakes` | Loading and packs; settings, profiles and the manager's copy; the risk feed. |
| `MC...` | Instances for TLC: `MCPaperVenue`, `MCVenueBooks`, `MCPaperRaces`, `MCAlertEngine`, `MCIngest`, `MCSignals`, `MCDesk`. |
| `PaperStoreProofs` | Lemmas about one fill, one trigger and one bracket. |
| `SequenceFacts` | Lemmas about least numbers, sequences, folds told as runs, sums over sets, quotients. |
| `PaperVenueProofs` | Theorems about the venue: types, safety and refinement; the books. |
| `PaperRacesProofs`, `AlertEngineProofs` | Theorems about the module of that name. |
| `MarketCorridorProofs` | Theorems about `MarketCorridor`, and about the batches and calendars of `MCIngest`. |
| `SignalEngineProofs` | Theorems about `SignalEngine`, and about the judgements of `SetupFamilies`, `LadderBacktest`, `Indicators`, `MarketContext` and `Research`. |
| `DeskProofs` | Theorems about `SecretStore`, `TradingDesk`, `EventBus` and `Academy`, and about the judgements of `Mastery`, `TradeReview`, `Extensions` and `Settings`. |

How state and actions correspond to the code, by group.

Venue and alerts:

* `account`, `balance`, `positions`, `intents`, `ledger` are the tables
  `paper_account_state`, `paper_positions`, `paper_trade_intents` and
  `paper_trade_closures`. Ids are positions in a sequence (AUTOINCREMENT).
  `fills` is the order `executed_at, id` by which two queries look for the
  latest executed order.
* `Submit`, `RecordLive`, `Cancel`, `ClosePosition` and `ReplaceAccount` are the
  handlers. A refused request changes nothing and is a disabled action.
* `StartCycle` to `RefreshMarks` are the job: the price map is read once
  (`seen`), then come `process_pending_paper_trades` (`rows`, the rows its SELECT
  returned), `enforce_paper_brackets` (`held`, likewise) and
  `refresh_paper_position_marks`. Handlers are held off inside a call (`pc` in
  `Inside`) and run between calls (`Between`).
* `NewCandle`, `NewDay` and `Restart` are the world: a refresh stores a newer
  close, the UTC day turns, the backend stops between two calls. A stop inside a
  call is rolled back by SQLite and amounts to a stop before it.
* `offbook` and `origin` are history variables. `offbook` sums what enters the
  account without a ledger row: netted positions, clamps at zero, a PUT. `origin`
  remembers which orders built a position. No guard reads them.
* In `PaperRaces`, too, `offbook` sums what netting and clamps keep from the
  ledger. A handler's or the job's local variables are `hread` and
  `jread`; `lock` says that the job's transaction is open. The sqlite3 module
  opens a transaction at the first write, so every read before it is a step of
  its own and what it read may be stale at the write. `torn` records that this
  happened.
* In `AlertEngine`, `bound` says whether the three helper calls of
  `run_alert_cycle` resolve. In the source they are nested in another function
  after its `return` (`app/services/execution_engine.py:223`), so they do not:
  `FALSE` is the source as it stands. `TRUE` is the same source with the three
  functions as methods, which is what the rest of the cycle is written for.

Market:

* `Refreshers` are the job and the pool threads that serve a post, as many as one
  likes: `refresh` takes no lock (`app/api/routes/market.py:44`).
* `window` is the limiter's deque, by age; `Prune`, `Pop`, `Admit`, `Retry` and
  `Grant` are the parts of `check_and_record` that another thread can come between. `ref` is
  what a refresh holds: the targets left, the chain, what it collected. Every
  call of the store is one step, since the store's lock is held for it, but its
  statements commit one by one: any call may fail, and half way (a series without
  its tail). What follows depends on where: inside the `try` the except clause books
  a failed fetch (`Caught`), outside it, or in the except clause itself, `refresh`
  swallows the exception and goes on (`GivesUp`).
* A batch of candles is a sequence of records with a clock in quarters of an
  hour and a zone; `CandleQuality` is
  `_normalize_and_validate_candles` and its helpers, `MarketCalendar` the holiday rules.
* In `SignalEngine` a candle is what detection would say at it and whether it
  touches the levels of an earlier signal. Signals of equal age come in any order,
  since the query orders by the time of generation alone. `comp` are the threads that compute
  (the job and one warm-up), `rep` those that report. Detection itself is in
  `SetupFamilies`, where a bar is a reading (prices, averages, bands, signs) and
  levels are exact integers; what is displayed after rounding is not modelled.
* `Indicators` computes on short integer histories where a
  quotient is rounded down; the properties leave room for that.

Desk:

* `Academy` has one action per handler. `loop` is the rest of a handler that
  makes more than one transaction and keeps the event loop meanwhile; a
  `listing` reads one table per step and writes at its end. `met` remembers
  which criteria held at some moment.
* `SecretStore` splits every write of the file at its truncation: other threads read
  it in between, and the process may die there (`Truncate`, `Land`, `Die`). The key
  that encrypts it has a file of its own, which dies empty in its own way. `wanted` is what the
  user saved last, `shaky` the keys for which keychain or disk, not the program,
  decided what is read next; no guard reads either.
* `TradingDesk` has the broker's acceptance with and without its row, `lost`
  counts the second. `custody` remembers the keychain at the confirmation.
* `EventBus` splits `publish` and the socket's `get` at each look at a queue and each
  change of it, since `asyncio.Queue` is not made for threads. `crossed` remembers
  that another publisher put between a test and its put.
* `Settings` is a fold: its handlers await nothing, so a history of calls is the
  whole behaviour. Likewise one load of extensions, one journal, one account:
  the MC modules choose them as initial states ("samples") of a scene in which
  nothing moves, and the property judges them.

Abstractions. Prices and quantities are integers; the instances take prices for
which weighted averages and trails are exact, and no property is about rounding.
NULL is 0. A symbol has one close: the choice among timeframes
(`app/services/execution_engine.py:174`) is not modelled. Time is a day number,
the finest distinction the time-in-force tests make in these instances.
`RecordLive` stands for the whole live path once the broker has answered. The day a
card can be due on ends with the program's calendar (`LastTime`, in hundredths of a
day): beyond it adding the interval raises and nothing is saved.
Constitution checks in front of `Submit` only remove behaviours. Events, labels
and free text are left out.


In the market and desk modules prices, shares, scores and percentages are
integers of a stated unit, identifiers are model values or tuples of words, text
is left out, and a day or an age in ticks stands for time. Brokers, providers,
the keychain, the cipher and APScheduler are external: they answer, refuse or
raise, as the code is prepared for.

## 3. Runs

| Run | Question | Instance |
|---|---|---|
| `VenueBooks` | Do cash, realized PnL, positions and ledger stay in step; are orders filled on their terms; does the venue implement `VenuePromise`? | "books": a long of two units and a short of one, tight cash, one PUT account, one restart; "orders": two symbols, three tickets over all order types and times in force, one live ticket, two days; 2.5 million states |
| `VenueProtection` | Are brackets enforced, trails never loosened, stop-outs one R; do orders settle and touched stops act? | two longs under different stops, a trailed short, three prices, a second day or a restart, fair job; 1.1 million states |
| `Races` | What can go wrong between two SQL statements, and what cannot? | one symbol, two orders out of a stopped long, a trailed limit and a short that turns a long around; 2.8 million states |
| `Alerts` | Does an alert fire at most once per arming, and at all? | two alerts, one edit, one failure, both values of `bound`; 635 000 states |
| `Ingest` | How far is the budget exceeded, what does a failed attempt leave behind, does serving go on through a reconfiguration or a failure; is a batch judged as it is? | one crypto series plus the watchlist, chain of two providers, limit 1. "corridor": the job and one post, one reconfiguration or one failure; "crowd": the job and two posts that find no client; "store": the job and any two failures or restarts; all batches of up to three candles from 14; the years 1990 to 2060; 515 000 states |
| `Signals` | Is what is served calibrated, are outcomes first touches, does the cache catch up and do rows resolve; are detection and research right? | a live and a delisted series, three candles, window and horizon of one, two reporters, one correction; 225 000 states, 22 000 of them readings, trades, histories, markets and studies that are judged |
| `Desk` | Are missions earned, records permanent, secrets kept, orders gated, events in order; are reviews, cards, packs, brakes and settings right? | three missions, one slot, two listings; two trade keys, three saves, two starts; three tickets, three changes; two publishers, two sockets, queues of one; 47 000 samples that are judged; 1 million states |
| `ClaimCancel`, `ClaimMargin`, `ClaimPlanStop`, `ClaimAlerts`, `ClaimBracket` | Is a sentence of the documentation true of the code? | the smallest instance that answers |

Scenes. `MCVenueBooks` plays two instances of one module, each on a part of the
constants. `MCIngest`, `MCSignals` and `MCDesk` hold several modules that share no
state. A behaviour stays in the scene it begins in: one module moves, or a
sample is judged and nothing moves. That is not a bound on any module, since a
product of independent modules has no behaviour that their single runs lack.

Why the bounds are enough.

* Every property of the venue is about one position and the orders that built
  it, or about one order: two orders are the fewest that can add, net, overshoot
  or replace each other's bracket, two prices make a position win, lose and
  trigger, a third puts a price strictly inside a bracket, and two days let an
  order outlive its day. A second symbol matters only to the frame and to the
  work lists, and the scene "orders" has one. A restart keeps nothing but the tables,
  so one is as good as many. The proofs of section 5 remove these bounds for the
  properties they cover.
* `BudgetKept` allows two requests beyond the limit for each thread after the first;
  a limit of 1 and a window of one tick are the smallest in which threads can pass the
  same count and a pruned event can still be needed, and three threads ("crowd") show
  that the excess grows with each. Which thread is which post does not matter, so the
  handlers are symmetric there. A refresh ends on a series
  before it goes to the next, so two targets show every overlap of two attempts. Two
  failures let the store refuse the write that was to tell of the first.
* A candle is followed for one candle out of a window of one: the third candle
  makes the first report late. Two rows per report are the fewest with which rows
  of a delisted series can stand in front of those of a live one. A job, one
  warm-up and two reporters give each shared table two writers.
* Two listings and one slot make a listing read before and write after whatever
  the handlers do; a second slot adds nothing to a count. Queues of one make
  every put meet a full queue; two publishers race for it.
* Samples reach each branch at its boundary: one below, at and above every
  threshold where the threshold decides a property, and every combination of the
  few values that are left. Readings of the setups are made possible first (`Fitted`
  in `MCSignals`): a channel holds the bars it is drawn from, so failed
  breakouts and breakdowns stay silent (section 4) and every other setup is found.

Fairness. The venue's and the alert engine's `FairSpec` have weak fairness of the
job's steps: the scheduler starts the job every 30 seconds (every minute for
alerts), with `coalesce` and one instance, and wraps it so that an exception does
not end it (`app/scheduler.py:114`, `:126`). `CorridorFairness` has weak fairness
of the refresh job's start, of the steps of a refresh that runs and of a
`configure` that has begun, and strong fairness of `Tick`: time passes again and
again, also in the gaps between two calls of the limiter, which alternately
enable and disable it. `EngineFairness` has weak fairness of the signal-refresh
job, of computations and reports under way and of new candles of live series.
Handlers, users, days, failures and restarts are never promised; failures and
restarts are bounded, which is the usual reading of liveness: eventually the
backend stays up long enough.

What the runs show.

* The books agree exactly, up to `offbook`: every drift between cash, realized
  PnL and ledger comes from netting opposite orders, from clamping or from a PUT,
  and the properties name each. Handlers between the calls of the job do no harm.
  Handlers between its statements can: `LedgerBalances` and `CashBalances` hold
  unless some call wrote over rows it had not read, and that is reachable with a
  single manual close against a bracket exit. No interleaving fills an order
  twice (`FilledOnce`) or holds more than was ordered (`ExposureBounded`).
* The limiter lets through up to two requests too many for each thread after the
  first, one where threads pass the same count and one where a late `popleft` takes
  an event still needed, and no more (`BudgetKept`). A failure that the tables were told
  of is shown until the next attempt clears it or stores candles (`FailureLeavesTrace`);
  attempts that tell nothing are those with an empty chain, with the limiter's own
  IndexError, and those whose first diagnostic the store refused. Serving goes on through reconfigurations, also when a
  refresh meets the registry half built (`ServingGoesOn`).
* A signal served always has its calibration row (`ServedIsCalibrated`), and the
  outcome of a row is the first touch as long as the report was not late and
  nothing was corrected (`FirstTouchKept`). An older computation that writes last
  is repaired by the next job (`EngineCatchesUp`). Rows resolve as long as fewer
  rows of delisted series than a report takes stand in front (`RowsResolve`).
* A listing of missions reads tables that change under it, and still records
  none that was not earned (`MissionsEarned`), because every criterion that it
  saw hold did hold when it looked. Nothing a learner achieved is taken back
  (`RecordsStand`).
* Credentials are read back as saved, or while the file is written as nothing, except
  where the keychain or a torn file intervenes (`SecretsKept`); no order reaches a
  broker without a confirmation made under a keychain and a ticket within the
  constitution, and the day's cap binds what was filed, and the broker's orders up to
  those no row tells of (`OrdersGated`).
* Events reach a socket in the order each publisher published them. A queue outgrows
  its size by at most one less than there are publishers, and the newest event is
  given up only where another publisher took the room (`EventsInOrder`); a single
  publisher loses none but the oldest.
* `CandlesJudged`, `EvaluationsHold` and `JudgementsSound` are conjunctions over
  what is judged. Their parts are the operators named `...Sound` at the end of
  each module, each with what it promises in words: among others that levels lie
  on their sides, an indicator does not look ahead, a ladder ends at its first
  touch, a verdict follows from its replays, a streak counts what was worked, a
  readiness level is never lost by doing more, only valid packs are in force, and
  the last call decides about a profile.

Each property has a mutant in PROJECT.json: a variation of one modelled
definition, as a slip in the code would produce, that violates it.

## 4. Where code and documentation disagree

Checked (one run each):

* `ClaimAlerts`: the evaluator raises `AttributeError` on the first armed alert
  that has a price and a parsable condition; no alert fires
  (`app/services/execution_engine.py:56`, `:223` against
  `src/docs/user-guide/09-alerts.md:75`).
* `ClaimCancel`: an order cancelled after the job selected it is executed all
  the same (`app/storage/state_store/trading.py:399` against
  `app/api/routes/paper.py:114`).
* `ClaimMargin`: closing a short credits its exit notional, so a short's profit
  is taken from buying power and its loss added (`trading.py:789` against the
  margin rule of `trading.py:184`).
* `ClaimPlanStop`: an addition without a plan disarms the stop of the whole
  position (`trading.py:578` against `src/docs/user-guide/17-portfolio.md:61`).
* `ClaimBracket`: a client of the old signature gets a market order from a ticket with
  a planned stop, and the stop is left out (`app/services/trading.py:167` against the
  comment at `:151`).

Noted while reading, modelled as the code has it, no run of their own:

* Orders are checked one by one against the same cash, so fills can still be
  clamped at zero, which the comment at `trading.py:176` rules out.
* Opposite orders that were both pending net into one position without a ledger
  row, against `src/docs/user-guide/12-paper-trading.md:41`.
* The balance formula adds realized PnL to a buying power that already has it
  (`trading.py:853`).
* Bracket exits are booked at the level and not at the close that touched it
  (`trading.py:611`), and an exit by the trail is labelled `stop`.
* Market: an empty chain or the limiter's IndexError ends an attempt without a
  run and without a diagnostic, and so does one whose first diagnostic the store
  refuses, against the comment at `market_corridor.py:171`; the success log of an overlapping refresh can
  hide a series torn by the other; 24 crypto requests a minute do not reach the
  end of 44 targets walked from the head, against `market_corridor.py:22`;
  providers of extensions vanish at the first `configure`
  (`app/providers/manager.py:81`) until the next start.
* Signals: the old record stays served when the newest candle yields none; a
  corrected candle with the same open time is not computed again
  (`service.py:118`); a report later than 320 candles resolves by later ones; 200
  rows of delisted series at the head stop all resolution; displayed levels are
  rounded to two decimals and coincide for cheap assets (`service.py:721`); the
  first target of a mean reversion can lie in its own entry zone; iterating the
  cache while a thread inserts can raise.
* Setups: family 4 asks whether the bar before exceeds a channel that ends with that
  bar, which is never so: failed breakouts and breakdowns, which `setups.py:544`
  announces and the presets of `src/apps/desktop/src/screens/BacktestScreen.tsx:152`
  offer, are never found (`setups.py:548`, `indicators.py:90`).
* Market reads: returns of one symbol in several timeframes overwrite each other,
  so a macro read can mix timeframes; the event watch ends at midnight UTC of the
  event's date; a flat series reads RSI 100; series of two sources make two
  default presets of one id; "Paper candidate" stands beside a sample called too
  thin at 20 to 29 trades.
* Reviews: outcomes are resolved again from the newest 320 candles at each call
  and can change; a stop on the wrong side still scores 70; compliance counts
  trades that exceed 1 %, whatever limit was adopted; the risk feed falls silent
  about the market when the balance is gone (`risk_meta.py:54`).
* Academy: the daily mission changes in mid-day, since its pool shrinks by what is
  completed; a completed mission can stay in its slot; a listing under way can
  record a completion after everything was cleared; a retake replaces the date
  and with it the certificate's; an exam passes on one answered question.
* Trading and events: an order the broker accepted and whose row fails is not counted
  by the daily cap (`app/services/trading.py:175`), which
  `src/docs/user-guide/16-academy-and-missions.md:64` has enforced at the ticket; `put_nowait` from a job's thread does not wake the reader, and a
  reader can raise IndexError and lose its socket (asyncio queues are not thread safe).
* Secrets: a value the keychain refuses during the migration is put in the file, which
  `write_values` then overwrites, and is gone (`secret_store.py:89` against the comment
  at `:177`); a process that dies while it makes the key leaves an empty one, after which
  every write of the file raises until it is deleted; a custom id with
  "trading" in it goes to the keychain and is not read from it; an older keychain
  value hides a newer one in the file after a restart; a torn write loses every
  value of the file; a confirmation outlives the keychain it needed.
* Settings: a stocks route with a keyed primary chosen today is rewritten to
  `yahoo_public` at the next GET or start (`settings.py:310`); PUT of an
  extension's settings without `enabled` turns it off at the next start; a profile
  that is deleted leaves its credential stored.
* Extensions: one that raises in `register` or `health` is listed as not loaded
  while what it registered stays live (`app/extensions/registry.py:217`); a
  criterion with a null value passes validation and stops every listing of
  missions; packs `a-b` with `c` and `a` with `b-c` make one id.

## 5. Proofs

The theorems are checked by TLAPS for every value of the constants that the
assumptions allow: any symbols, tickets, prices, missions, listers, publishers,
sockets, reporters, candles, and any bound. Every property of the runs is
stated by a theorem except those named under "Only model-checked".

Assumptions on constants, each evaluated by TLC on the runs:

* `TicketsAssumption` (tickets are what the payload validation lets through),
  `VenueAssumption` and `RacesAssumption` (positive prices, natural numbers, live
  tickets as `record_live_trade` stores them, one symbol in `PaperRaces`),
  `AlertAssumption` (drafts and prices of their types).
* `EngineAssumption` (horizon within the window), `BusAssumption` (queues hold at
  least one event).
* `CorridorAssumption` (a window of at least one tick, limits natural numbers;
  watchlists, targets and the ladder are lists over known markets; what a provider
  offers is a list of `RawCandle`, in any order, with doubles and broken rows) and
  `ManagerAssumption` (profiles, routes and defaults are lists, as the manifests
  have them).
* `SecretAssumption` (no value is a value, the payload maps keys to values),
  `DeskAssumption` (a rule book holds rules; clamping is the program's),
  `AcademyAssumption` (mission ids and trade ids are unique, as primary keys make
  them; three kinds of criteria compare with an integer).

The venue.

* `TypeCorrect`. It is not inductive: `TakeExit` is type correct only because the
  symbol it visits is held, which the work lists say (`WorkListsValid`), which need
  typed tables. `VenueInv`, their conjunction, is. That no row on a work list is
  settled by others holds at the grain of calls by what a call is, so it is a lemma
  here and no property; between statements it is false, as `ClaimCancel` shows.
* `TermsAreHonoured` adds `SubmittedInPast`: a day order executes on its day only
  because no order is stamped with a day to come.
* `BracketsAreEnforced`: a visit that leaves a position open leaves the price
  strictly inside (`NoExitInside`), an exit leaves no position (`ExitLeavesFlat`),
  and visiting one symbol disturbs no other (`EnforcedFrame`).
* `StopOutsAreOneR`: the bracket's query and the R multiple's query find the same
  ticket whenever the governing one has a plan stop (`QueriesAgree`), since the
  latest of all is the latest of the planned.
* `StopsNeverLoosen` adds `FilledAreExecuted`: the ticket behind a stop is in
  `fills`, so no handler rewrites it. The rest is arithmetic: a trail is at most
  half the price, so the stop it sets moves with the best close, also after it is
  rounded down (`TighterStop`).
* `VenueKeepsPromise`, the refinement. Each row of the table maps to one order of
  the promise; appending, rewriting and filling are treated once each
  (`OrdersAppend`, `OrdersRewrite`, `ExposuresFill`, `CloseMoves`), and
  `FillMovesExposure` shows that a fill, however it splits into a closing and an
  opening part, moves the signed quantity by exactly its own.

The books (the last part of `PaperVenueProofs`, and the last third of `PaperRacesProofs`).

* The properties sum over the ledger, the fills or the symbols. A sum over a
  finite set is a fold whose value the library fixes only up to the order of
  choice; `SequenceFacts` proves that adding an element adds its value
  (`TotalsSplit`) by looking at a least subset for which that fails
  (`LeastSubset`), which needs no induction theorem; `SumAdd`, `SumChange` and
  `SumAppend` follow.
* `RealizedIsTheLedger`, `PositionsAreExplained`, `NothingIsOverclosed`: each is
  inductive with `VenueInv` once a fill is split into what it closes and what it
  opens. `NothingIsOverclosed` is a consequence of the stronger statement that
  what is still held on a side fits as well.
* `CashIsConserved` and `CashExplained` have the hypothesis
  `[][AveragesExact]_vars`: every fill that adds to a position averages to a whole
  price. The program averages in floating point, where the question does not
  arise; the model has integers, so it must be said, and the runs take prices for
  which it always holds. With it the strengthening is that whatever is held was
  bought at a positive price (`PricesPositive`, `RowsPriced`), so that no exit is
  booked below zero, where the clamp would swallow it.

Between SQL statements (`PaperRacesProofs`).

* `StatementsKeepTypes`: `RacesInv` says of each control point what the local
  variables of that thread must be for its next write to be typed.
* `NoOrderFilledTwice`: an executed order is neither pending nor among the rows
  the job selected, and a rollback takes back both the fill and the status.
* `ExposureStaysBounded`. Stale reads make this one hard: a call may write over a
  position it has not read, so that the quantity held is not enough to say what
  may happen next. `BoundInv` bounds every quantity read and held by what was
  bought, and says how fresh the reads are. While a handler closes, only the job
  writes: either what the handler read is still there, or the job has written
  since and its own read is fresh. While the job exits, only handlers write, and
  those after the first work from fresh rows and can only reduce. A position that
  turned around under a call that is to close it leaves room for what that call
  will add to it instead (`RoomLeft`).
* `LedgerExplainsPnl`: as long as nothing was torn, the account read is the
  account there is.

Alerts. `FiresOncePerArming` needs a firing to be accounted for before it happens:
an alert that is armed, or that the job listed as armed and has not visited, has
a firing due (`Due`), and firings recorded plus the one due never exceed the
armings. An edit can re-arm what the job is about to record; the arming counted
then pays for it. Deliveries are one ahead of the history only while the job
stands before `record`, or for each cycle that was cut short.

Market.

* `BudgetsAreKept`: for every limit, every window and any number of threads, each
  after the first lets through at most two requests beyond the limit. `LimiterInv` compares
  the limiter's deque with the history of requests let through: from the newest
  on they agree (`Aligned`), and the requests that have lost their event, with the
  threads that are about to pop one, are fewer than the threads (`Matched`): of those
  that looked at one head, one pops what had expired. Likewise the deque with the
  threads that have passed the count exceeds the limit by less than the threads
  (`Counted`). Once for each and once more make two.
* `FailuresLeaveTraces`: `TraceInv` drops the condition that no attempt is under
  way. A report stays until the next attempt on the series clears it or stores
  candles, whichever writes fail meanwhile; what it rests on is that each write that
  reports a failure comes before the step that books it as told.
* `BatchesAreSound`: what a batch of any length is reduced to ascends without
  doubles, holds only accepted candles and the last of each time, and counts what
  it drops and the holes it keeps, where a hole is a time that no other follows within
  the cadence: those are the wide steps of a sorted series (`HolesAreGaps`). The sort is defined by rank, the candle at n
  being the one with n - 1 times below its own, so that there is one for each n
  and they ascend follows from counting (`NthMember`) and needs no induction.
* `CorridorKeepsTypes` rests on it: a refresh, a fallback and a cut replacement
  keep a series in ascending order (`KeptAscends`), and every list that a thread
  works through names known providers and markets. Those lists are folds over
  watchlists, routes and registrations. That a fold keeps what every step of it
  keeps is shown once (`FoldsExist`, `FoldedIn` of `SequenceFacts`), by the least
  index at which it would fail (`LeastNat`).
* `CalendarIsSound`: a day from March on is told from the first of March of its
  year, for which there is a closed form (`March`, `FromMarch`, `YearDays`). The
  computus of the code and the table of full moons agree since the correction of
  the moon is the same in the three centuries of the table (`CenturyMoon`), both
  come to a remainder by weeks, and the last division of the computus is the
  table's exception for two epacts (`Moons`, `Computus`). The ten holidays lie in
  windows at least 13 days apart, in the year and over its end (`HolidaysPlaced`,
  `HolidaysApart`, `ShutApart`), so of two weekdays among four days one is traded.
  The years are 1970 to 2198: the search of `YearOf` starts from the epoch, and the
  table ends with 2199.
* `CandlesAreJudged` joins it with `BatchesAreSound`: what the run `Ingest` judges on
  its samples holds for any samples of those years.

Signals.

* `ServedSignalsCalibrated`: what a computation has built has its row before it is
  put, rows are never deleted, and a second build of the same candle has the same
  version, zero, unless that candle was corrected.
* `FirstTouchStands`: the outcome found is the first touch in the candles the
  report read. That a later candle cannot change it (`TouchStands`) is a property
  of the first touch; that a correction can is why it withdraws the claim. The
  finding survives between `Judge` and `Resolve` for the same reason, and two
  reports of one row find the same.
* `EngineKeepsTypes` needs that a report's list names rows there are, which stay.
* `SetupsAreSound`: what `EvaluationsHold` samples of setup detection holds for every
  bar with prices, averages and a positive ATR (`Readable`). Each family says
  nothing or one fair candidate (`BreakoutVoice` and its siblings): its name says
  its side whatever side is fallen back to (`NamedSetups`), the multiples of `compose_candidate` keep zone, stop and
  targets in order, by enough to survive the two decimals (`LadderInOrder`). No
  setup is found twice since no word begins names of two families (`Joined`,
  applied once for each of them), which an extension, free to use any name, could
  break; and a best candidate exists since scores are bounded (`BestOf`).
* `LaddersAreHonest`. The loop of a simulated trade is a fold; told as a run from
  one candle to the next (`FoldRuns`) an invariant can be kept along it without an
  induction theorem (`KeptAlong`). `StandsAt` says of each candle which shares have
  left by then, and where; the end is compared with the first candles that reach
  stop and targets. Its hypotheses are those of an honest plan: targets beyond the
  stop, and candles whose low, close and high are in order.
* `ConfidenceIsEarned` is about what division rounds away. The shrunken edge is
  compared at two sizes of the evidence by cross multiplication; quotients are
  handled by their bounds only (`Quotient` and its siblings in `SequenceFacts`).
* `MacroNeverContradicts`, `NarrationIsGuarded`: no pair of opposite reads has a
  condition in common, and turning the returns swaps the two (`TurnedReads`); a
  number the guard lets through is near a fact in the sense the user is told of,
  and a large gain told as a loss is near none (`NearFact`, `TurnedIsFar`).
* `IndicatorsAreCausal`, `IndicatorsWarmUp`, `IndicatorsKeepScale`: for every
  series of candles an indicator says of a candle what it said when that candle
  was the last (`Causal`), has a number at every candle from the one that fills
  its window on (`WarmsUp`), and keeps its scale (`Bounded`). The recursive
  functions of `Indicators` are told as runs of a law, which says where a run
  starts, with what, and what it makes of the value before (`Follow`). Every law
  has a run (`LawsRun`) and two runs over series that agree up to a candle agree
  up to it (`RunsForetold`); what holds of a value once it holds of the earlier
  ones holds of all (`ByTheEarlier`, by the least exception). Scale is a matter
  of sums compared term by term (`SumsCompare`) and of what a quotient rounds
  away. Causality needs windows of at least one candle; the other two also candles
  that close between their low and high and trade no negative volume, which is
  what validation keeps, a fast mean of macd no longer than the slow one, and two
  candles or more in the window of adx. The proofs gave bounds a unit tighter than
  the ones first stated, and the model now states those. They are about the whole
  units of the model; what floating point rounds in the code is outside them.

Desk (`DeskProofs`).

* `CredentialsKept`: until a start has scrubbed the old payload nothing was saved
  and the keychain holds at most copies of it (`Unscrubbed`); afterwards a key
  that is not `shaky` reads as wanted, also while the backend is down (`Remembered`),
  and so will the content of a write under way (`Landing`). Giving up the keychain
  is the one step that changes what all keys read.
* `OrdersAreGated`: the cap in force is never above the loosest, a ticket is filed
  only below it, and the orders placed never outnumber the rows filed and the rows lost.
* `EventsStayInOrder`: what was sent and what waits is one sequence, in which
  each publisher's numbers ascend, and are below its count for every socket it
  has still to reach. A publisher that found room and was not crossed still has
  it, so only a crossed one can lose its newest event; and publishers about to append
  to a queue are part of its length (`QueuesBounded`), the last of which found room.
* `AcademyKeepsTypes`: between counting the slots and taking one the handler keeps
  the loop, and listings only free slots, so the room found is still there.
* `AchievementsStand` follows from the types of the rows: the better of two
  integers is not less than either.
* `MissionsAreEarned`. A listing judges what it read earlier, so the criterion
  itself need not hold when the mission is recorded. `EarnedInv` says instead that
  whatever the context read so far decides, on its day or a later one, is in `met`.
  A table read now decides alone most criteria, which then hold now
  (`MetReads`). Two kinds need more. A journal is read after the trades, and
  counts only trades of the older list; since trades are never taken away and
  annotated only when they are there, the count on the older list is no more
  than the count now (`JournaledOnce`, which needs unique trade ids). A streak is
  judged on a later day than it was read on; it can only lapse
  (`StreakLapses`, by the least day on which two computations of a run differ).
* Seven of the judgements that `JudgementsSound` samples hold for every input.
  `ReviewsAreSound`: the series is cut to the sixty bars held (`HeldBars`) and the
  outcome read off the first that touches (`OutcomeOf`); the bars up to it are all
  of the series the outcome depends on. The claim is about the bars held only: a
  touch later than the sixtieth bar resolves nothing, and a first statement of it
  that did not say so was refuted by the proof. `LadderClimbed`: rungs are
  conditions on counts that grow, provided the lessons of a level stay the same;
  a new lesson can lock a level again. `CardsComeBack` is about the rounding of
  the stored interval (`RoundedBy`) and the end of the calendar, `LevelsAreReached` about the greatest level
  reached (`MaxOfSet`). `CertificatesHold` and `AcceptedPacksWork` compare two
  places of the code that test the same thing: what is missing with what is
  earned, what validation lets through with what evaluation compares.
  `AiSettingsHaveANormalForm`: each field of the normal form is a function of the
  payload's fields (`AiFieldwise`), which reads itself back.

Only model-checked, and why.

* Liveness (`OrdersSettle`, `StopsFire`, `BoundAlertsFire`, `CyclesEnd`,
  `ServingGoesOn`, `EngineCatchesUp`, `RowsResolve`): fairness and ENABLED are out
  of the prover's reach.
* The rest of `EvaluationsHold` (the indicators of a market turned upside down,
  where what two roundings lose depends on the sign, the context listing and its
  ranking, presets, verdicts) and of `JudgementsSound` (streaks, queues, drills, the daily
  mission, journals, brakes, saved settings, registration sequences): functions of
  series, histories and journals, built from folds, recursive functions and
  products of variables; what such a recursion computes for every input is an
  induction over data, which the installed provers cannot instantiate.

## 6. Plan

1. Done: the venue, its abstract specification; alerts; the market modules; the
   signal engine with detection and research; the desk modules; a theorem for
   every safety property of a component that is a state machine.
2. Done: a theorem for the judgements named in section 5, the indicators among
   them, and for `CandlesJudged`.
   Next: those that need no induction and have none yet (the saved profiles of
   `Settings`).
3. If there is room after that: the alert history's content, brokers' clocks in
   `PaperVenue`, the archive of the analytics store.

Not modelled, and why: provider and broker HTTP clients, the keychain and the
cipher (external); the drawing of random samples (only what a resampled statistic
says of every permutation is stated), display rounding and the wording of reasons;
the parquet archive (best effort, read by nobody);
language-model features beyond the fact guard, locale and content, exports, live
lesson data (read-only text); saved strategies and catalogs of indicators and
surfaces (rows nothing else reads); the desktop user interface and the SDK's type
definitions.
