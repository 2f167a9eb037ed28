# Verification of the IDX data platform

TLA+ models, TLC runs and TLAPS proofs about the data platform of this
repository: a set of Python processes that scrape the Indonesia Stock Exchange
(IDX) and keep daily market data in PostgreSQL. The models follow the code under
`src/`; this file says what is modelled, what each run and theorem shows, and
what is left.

## 1. The system

| Part | State it keeps | Operations | Meets | What is hard | What makes it correct |
|---|---|---|---|---|---|
| Bulk backfill (`pipeline/backfill.py`, `validation/`, `stock_summary.py`) | local: chunk, results, counters; database: stocks, candles, summaries, flows, errors, `etl_runs` | `backfill_ohlcv`, `_backfill_by_trading_date` | provider (await), database (statements, commits), operator (Ctrl-C) | a date is five statements; any may fail; kills; two processes at once; payloads change while a chunk is stored | one date = one payload = one atomic step; reports never claim more than was stored; no silent gap; failures isolated; reruns fill gaps |
| Backfill by symbol (same file) | as above | `_backfill_by_symbol` | as above | one transaction per symbol, out of order completion | one symbol's failure leaves others alone |
| Daily update (`pipeline/daily.py`) | none but the stored candles | `next_market_start`, `daily_market_update` | backfill, index pipeline | its start date is a watermark that moves past failed dates | nothing is passed over silently; nothing rewritten |
| Incremental update (`pipeline/incremental.py`) | last date per symbol | `incremental_update` | backfill | start dates differ per symbol, shared ranges | as daily, per symbol |
| Job manager (`api/jobs.py`, job routes of `api/main.py`) | the slot, the time of the last start, the state of the job | `start`, `current`, `reset`, `_execute` | HTTP threads, CLI process | a lock, a thread and a process; an answer read without the lock; restart | one process, never hidden, spaced starts, honest answers |
| Scheduler (`scheduler.py`) | none | `next_scheduled_run`, `main` | CLI process | not coordinated with the job manager | runs every weekday once |
| API client (`downloader/api_client.py`) | session, warm-up flag, semaphore, next request time | `get_json`, `close` | provider, all pipelines | tasks share a session; two timeouts; retries; close under way | one warm-up at a time; session neither leaked nor closed under a request; spaced requests; bounded calls |
| Provider (`downloader/provider.py`) | none | parsing, pagination | API client | partial pages, malformed rows | every row parsed or refused |
| Index and market-broker pipelines (`index_summary.py`, `market_broker.py`) | two tables each, `etl_runs` | per-date loops | provider, daily update | same loop as the backfill; two names for one benchmark; two writes per date | both tables agree; isolation of dates |
| Symbol registry (`symbols.py`) | active flag, metadata | `sync_symbols`, `ensure_stock_symbols` | backfill (placeholders) | placeholders meet metadata in either order; a synchronization overwrites what an earlier one stored | a placeholder never replaces a synchronized symbol |
| Corporate actions, adjusted prices (`corporate_actions.py`, `adjustments.py`) | actions, adjusted candles | sync, rebuild | provider, candles | gathered tasks on one database session; stale adjustments | a failing symbol isolated; factors consistent |
| Imports (`data_import.py`, import routes) | all tables | `parse_dataset`, `_persist_import_rows` | backfill (same tables) | rows of other sources overwritten, future dates | validated rows only |
| Queries, cache (`api/main.py`, `api/cache.py`) | cached responses | reads | database | staleness until expiry | age bounded |
| Analytics, backtest, export, dashboard page, monitoring | none | pure functions, formatting | queries | arithmetic on short series | formulas |
| Command line (`cli.py`) | session lifetime | dispatch | everything | `close` in a finally clause | closed once, after all tasks |

Processes share nothing but the database. Within one process, coroutines
interleave at awaits only; in the API process, handler threads and the job's
thread interleave anywhere outside the lock.

`PROJECT.json` lists the components with their status and every hazard found in
the code with the property that covers it.

## 2. Modules

| Module | Models | Lines it follows |
|---|---|---|
| `MarketRows` | which rows of a payload become candles, summaries, flows, quarantine records | `validation/ohlcv.py`, `stock_summary.py` |
| `DateLedger` | abstract specification: a date is stored from one payload in one atomic step | what `_backfill_by_trading_date` promises |
| `BulkBackfill` | the backfill as it is, in several processes | `pipeline/backfill.py`, upserts, foreign keys |
| `DailyUpdate` | extends `BulkBackfill`: runs start where the candles end | `pipeline/daily.py` |
| `PublicationBoard` | abstract specification: a publication reaches all its cells in one step | what the loops of the two pipelines below promise |
| `DateTables` | index summary and market broker pipeline | `pipeline/index_summary.py`, `market_broker.py`, their parsers and upserts |
| `DailyStages` | extends `DateTables`: both stages of a daily update | `pipeline/daily.py` |
| `IncrementalUpdate` | the incremental command and the symbol registry | `pipeline/incremental.py`, `symbols.py`, `_backfill_by_symbol` |
| `CorporateActions` | synchronization of actions, rebuild of adjusted prices | `pipeline/corporate_actions.py`, `adjustments.py`, their upserts |
| `ApiClient` | the shared HTTP client within one command | `downloader/api_client.py`, `cli.py` |
| `JobManager` | the dashboard's job slot | `api/jobs.py` |
| `Schedule` | when the scheduler launches the daily update | `scheduler.py` |
| `DatasetImport` | the import routes | `data_import.py`, import routes of `api/main.py`, upserts |
| `ResponseCache` | `/symbols` and `/latest` with Redis | `api/cache.py`, `api/main.py` |
| `WalkForward` | which rows indicators, signals and outcomes depend on | `analytics.py`, `backtesting.py`, `api/main.py` |
| `BackfillProofs` | theorems about `BulkBackfill` and `DailyUpdate` | |
| `JobProofs` | theorems about `JobManager` and `Schedule` | |
| `QueryProofs` | theorems about `ResponseCache` and `WalkForward` | |
| other `*Proofs` | theorems about the module of that name | |
| `MC*` | instances for TLC | |

Composition: `DailyUpdate` runs the complete backfill; `DailyStages` runs the
complete index pipeline behind a candle stage taken at the level of `DateLedger`,
which the backfill implements; `IncrementalUpdate` takes a backfill at the level of
its units (a date, or a symbol) for the same reason. The refinement of `DateLedger`
is what licenses both: it holds for any number of backfills at a time.

### BulkBackfill

A worker is a process that executes `backfill_ohlcv`. Its local variables are
functions of the worker: `todo` and `chunk` (the dates of the loop not launched
and not persisted), `fetched` (the results of `gather`), `stage` and `tx` (the
statement of the transaction that comes next, and the rows it wrote so far),
`counts` and `failures`. The database variables are keyed by date and symbol and
hold the *version* of the payload that wrote a row, which is all the properties
need of prices: two rows agree when they come from the same payload.

Each action is one atomic step of the process: an await that ends
(`Fetch`, `FetchFails`, `GatherReturns`), a statement (`Statement`), a commit
with what follows it up to the next statement (`StartRun`, `CommitDate`,
`ProviderFailed`, `PersistFails`, `FinishRun`, `CancelRun`). The error handlers
contain a commit of their own; they are one step because nothing else of the
process runs and only their commit is visible outside. `Die` between any two
steps loses the local state and the open transaction. `CommitUnacknowledged` is
a commit that took effect although the client saw an exception. `Interrupt` only
sets a flag: asyncio delivers the cancellation at the next await, which is the
`gather` of the next chunk (`CancelRun`).

The fetches of a chunk answer in any order and each reads the payload IDX serves
at that moment; `Revise` replaces it in between. A foreign key that does not
hold raises in `Statement`'s place (second alternative of `PersistFails`); the
order of statements makes that unreachable, which `FailuresAreFaults` checks.

Row locks of PostgreSQL are left out: they delay a second writer of the same
rows until the first commits, so they only remove interleavings; a deadlock
between two writers is a failure of one of them (`PersistFails`).

History variables (`scope`, `covered`, `written`, `charged`, `faults`) record
what happened and are never read by a guard, except for the bound on faults.

### DailyUpdate

No state is added. `StartDaily` reads the date of the last candle and starts a
run for the day after up to the end asked for; `StartInitialLoad` is the
`backfill` the README recommends on a fresh installation. A daily run never returns to
a failed date, as README.md:162-163 says (older gaps are for `backfill`); what is
promised is that such a date is on record (`SkippedDatesAreRecorded`).

### JobManager

Handlers (`Clients`), one thread per accepted job, one CLI process per thread.
The critical sections of `start`, `current` and `reset` are single steps that
need the lock free. The thread holds the lock while it stores `exit_code`,
`status` and `finished_at` one by one, because `start` builds its answer after
releasing the lock: `ReadStatus`, `ReadFinished`, `ReadExitCode` read the fields
in the order of the dataclass while the thread may write. `StartThreadFails`,
`LaunchRaises` and `CommunicateRaises` are the failures; `Restart` is the end of
the container's main process, with which its threads and the CLI process end.

### DateTables, PublicationBoard

One loop for both pipelines; `benchmarks`, chosen at the start, says whether a
second table is written. A payload is a sequence of rows, so that it can repeat a
name; a row may carry another date than the one asked for. `Parses` and `Kept` are
the provider's checks and the merge of rows with one key; a row without a name or, in the benchmark,
without a price is dropped or makes the date fail as the code has it. Cells hold
the publication they come from, and the refinement maps both tables to one board.
The steps are those of `BulkBackfill`: fetch, gather, statement, commit, handlers,
interrupts, kills.

### DailyStages

`NextMarketStart` is computed once, before the first stage, and used by both.
`ImportCandle` adds a candle of any date, as the import route may. `StartPipeline`
is a command that runs the index or the broker pipeline alone over a range.

### IncrementalUpdate

A command reads `last_trade_date` of each symbol, groups symbols with equal ranges
and runs each group. A run does its units one by one, in date order or in any order
of symbols; a unit commits or fails, and a failure is on record with the symbols that
were asked for. Which of the two a run does is a property of the provider
(`bySymbol`): `IDXProvider` has a daily-bulk endpoint, so the commands take the path by
date; the other one exists in `backfill_ohlcv` for providers without such an endpoint.

`SyncSymbols` and the placeholders a run creates meet in either order. A
synchronization reports any symbols with any listing dates, none included, and
`upsert_stocks` overwrites what was stored. The history variables `synced` (the symbols
ever reported) and `asked` (the dates a command owes to each of them) state what a
command promises independently of the registry it reads.

### CorporateActions

A statement is a step and sees what was committed before it (read committed). Row
locks do matter here: `existing`, `snapshot` and `removed` are what a statement
found, and a writer of a locked row waits for its owner to commit. A `DELETE` that
waited sees the rows of its own snapshot only. PostgreSQL's deadlock detection is a
fault of one of the transactions.

### ApiClient

A step is what happens between two awaits. A call is at a position (`pc`): waiting
for the session lock, warming up, waiting for a permit, waiting for the rate lock,
sleeping, waiting for IDX, backing off; the locks are held by being there. Time is
relative: every call counts down its total timeout, its attempt's timeout and its
sleep; `Tick` lets a unit pass unless a timer is due. How many requests
may run at once (`permits`) is chosen at the start. So is how the command awaits its
calls (`gathers`): the loops over dates await `gather`, which ends only when its tasks
have ended; the loops over symbols (`corporate_actions.py:31`, `backfill.py:238`) await
`as_completed` and may be left while tasks are under way. Every run covers both.

### Schedule

Hours from the midnight before a Monday. The sleep may end late but on the same
day (`MaxLate`), a command takes any time, the container stops and starts.
A clock that is set back during a sleep is not modelled.

### DatasetImport

A line is a record of what it misses or holds (`Nil`, `Text`, `NaN`, a number).
Parsing happens at once, for it touches no shared state; then come the placeholders,
the upsert, and the commit, or for calendars one step that looks every row up and
one that inserts. `looked` records the commits a request could have seen, which tells a
duplicate of two overlapping imports from one that should not have been inserted.

### ResponseCache

A request asks Redis, reads the tables in one or two statements and stores its
answer; other requests and commits come between. Contents are numbered by how often
a table changed. Redis may be down at any time and may lose its keys.

### WalkForward

A field is modelled by the rows that it reads, so that "does not depend on later
rows" becomes a statement about tuples and sets of rows. `Tables` are the rows a request
reads, `Indicators` the fields of a session but for the sentiment, and `Row` adds the
sentiment, which is that of the newest news of the request whatever the session. News
are identified by the first midnight after they were published, since a request
compares the time of publication with a date. In the run the windows 5, 10, 20 and 50
of the code become 1 and 2; the thresholds are 0. The order of the unordered query of the
foreign flow is the state of the table, which an upsert changes; what is computed from
its last five rows is a sum, to which their order among themselves does not matter.

## 3. Runs

| Run | Bounds | Shows |
|---|---|---|
| `date_backfill` | 1 process, 2 symbols, 2 dates, one chunk of 2, a rerun of the range for all symbols or for one, 3 payloads (closed, one good and one quarantined row, one no-trade row and one without flow), 2 versions, 2 runs, 1 fault, fairness | `TypeOK`; `RowsBacked`, `QuarantineRecorded`, `FinishedRunsLeaveNoGap`, `ReportedRowsWereWritten`, `FailuresAreFaults`; refinement of `DateLedger` (`LedgerSpec`); `RerunIsIdempotent`; `SnapshotsAdvance`; `GapsFilled` |
| `daily_updates` | 5 days with a weekend day, chunks of 2, an initial load, daily runs that end on day 4 or 5, 3 runs, 2 faults | `SkippedDatesAreRecorded`, `CandlesAreAppended` |
| `daily_stages` | 3 dates, chunks of 2, 2 commands (daily, index alone, brokers alone), 1 fault, 1 revision, 1 import; payloads with both names of the composite, a repeated key, a row of another date, an answer that cannot be parsed | `NoSilentGap`, refinement of `PublicationBoard` (`BoardSpec`), `IndexGapsExplained`, `GapsLieBehindImports` |
| `job_manager` | 2 clients, 2 jobs, cooldown 2, clock to 4, 2 servers, 1 fault, fairness | `TypeOK`, `LiveProcessHoldsSlot`, `StartsAreSpaced`, `AnswersAreHonest`, `JobsEnd` |
| `schedule` | days of 3 hours, 26 hours (the ninth day, so one weekend), 2 stops | `MissedSlotsAreExplained`, `OneLaunchPerWeekday` |
| `api_client` | 2 calls, 1 or 2 permits, 1 retry, delays of 1 to 3 units, both kinds of loop, fairness | `WarmedUpOnce`, `OneSession`, `CallsAreBounded`, `RequestsAreSpaced`, `CallsEnd` |
| `incremental` | 2 symbols, 4 days, one symbol suspended for a day, a listing date that is reported, another or missing, 3 commands, 2 faults, by date and by symbol | `CompletedIsCurrent`, `GapsAreRecorded` |
| `incremental_gap` (violation) | as `incremental` | `GapsAreResumed`: by date, no further command returns to a failed date |
| `corporate_actions` | 2 processes, a registered and an unregistered symbol, an id that comes twice, 2 sessions, 1 revision, 1 fault | `OneEventPerAction`, `OneRebuild`, `FactorsFollowSplits` |
| `dataset_imports` | 2 clients, 6 datasets, 10 files, a backfill beside them, 1 fault | `AnsweredRowsAreStored`, `CalendarsAreKeyed` |
| `response_cache` | 2 requests, 2 dates, 2 changes, expiry after 2 ticks, fairness | `AnswersAreReads`, `EventuallyFresh` |
| `walk_forward` | 4 dates, windows 1 and 2, horizon 1, all eight tables, six of them with 1 or 2 dates | `IndicatorsAreCausal`, `RangesAgree`, `OutcomesAreFinal` |

The largest run has 1.7 million distinct states and none takes more than about two
minutes.

Why the bounds suffice for the cases of interest: two runs give a rerun after a
failed, cancelled or killed run; two versions give a payload revised between
them or between two fetches of a chunk; two symbols of different kinds give a
date with a stored and a quarantined row, and a filtered run that must leave the
other symbol alone. Several chunks, a range with a weekend, two faults and a third run
are in `daily_updates`, which executes the same backfill. Two backfill processes at
once are not in a run: the invariants of `BulkBackfill` that hold for them, and the
refinement, are proved for any number (section 5). Two jobs and two clients give
every race for the slot; two servers a restart. Two calls give a call that waits for a permit and one
that waits for the rate lock while the other sends, sleeps or backs off, and a
session opened by one while the other waits; a retry with a small total timeout makes
the timeout hit every position. Two processes give every interleaving of two
synchronizations, of two rebuilds, and of one with the other; two sessions and two
splits give a factor that is a product and candles on both sides of an ex-date. Two
clients give two overlapping imports, and a file that repeats a key the other way to
a duplicate. Two changes of a table give an answer that is two versions old. Four
dates are more than the longest window and the horizon together, and a table with a
date before and one after a session suffices for a look-ahead. The theorems remove
the bounds for the properties they are about.

**Fairness.** Weak fairness is put on the steps of a live process only.
`RerunSpec` of `BulkBackfill` (run `date_backfill`) assumes that a live process takes
its steps, since the event loop runs and a provider call returns or raises within
`IDX_TOTAL_TIMEOUT`, and that the operator starts further runs, which `GapsFilled`
is about. A process may die instead, a failure may come instead of a success; nothing
forces a fetch to succeed except the bound on faults. `FairSpec` of `JobManager`
assumes scheduled threads and that a CLI command ends; clients need not ask for
anything. `FairSpec` of `ApiClient` assumes that a call, its timers, the close of the
session and time itself go on, but IDX need not answer. In `ResponseCache` requests
are answered and time passes. No fairness is put on faults, restarts, interrupts or revisions, and the
remaining runs check safety only and need none.

**Deadlock** is checked in every run; steps named `Terminated` or `Rest` are the
intended ends.

## 4. Where the code and its documents disagree

Shown by a run:

* **`incremental` does not resume a failed date** (`incremental_gap`). The comment at
  `incremental.py:44-45` relies on symbols that commit independently; with the
  daily-bulk provider, the only one there is, dates do. A date that failed before one
  that was stored lies behind the last candle of its symbols, where no further
  incremental update starts. The failure is on record with the names of the symbols
  (`GapsAreRecorded`), and a `backfill` of the range fills the gap (`GapsFilled`). With
  a provider by symbol the comment would hold (lemma `StepBySymbol`).
Differences met while modelling; the models contain the behaviour of the code and the
properties are stated so that they allow it, no run of their own shows them:

* **The first job after boot is refused.** `_last_started = 0.0` is compared with a
  clock that counts from the boot of the host; the test of the cooldown takes the
  acceptance of a first job for granted.
* **Two data operations can run at a time.** README.md:309 says only one can; the
  scheduler does not ask the job manager. The backfill bears it, with one exception
  that is not a documented promise: of two overlapping backfills the one that fetched
  earlier may commit later and put an older payload over a newer one, which is why
  `SnapshotsAdvance` is a property of one process at a time.
* **A session is closed under its requests.** README.md:423-424 says the session is
  closed only after all concurrent requests finish, which holds for the loops over dates
  (`OneSession`). The loops over symbols await `as_completed`: an exception in their
  body, or Ctrl-C, reaches the `finally` of `_run_with_provider` while other tasks are
  waiting. `ClosedAfterRequests` is the sentence of the README; the model has behaviours
  that violate it when `gathers` is false, the shortest of eight steps.
* **A repeated event is stored twice.** README.md:267 says imports are upserts; those
  of events and news look rows up on a session that does not flush, in tables without
  a unique key. `CalendarsAreKeyed` says that nothing else makes a duplicate but this
  and two overlapping imports.
* **NaN fails a whole file.** The docstring of `parse_dataset` promises valid rows
  and errors; the comparison of a NaN raises an exception that is not caught.
* **An indicator follows the order of a table** (`analytics.py:230`). The module
  calls itself deterministic; the last five rows of an unordered query are not the
  last five dates.
* **The sentiment of a row is not dated** (`analytics.py:467-475`). Every row shows the
  sentiment of the newest news of the request, a row of the past too. No document says
  otherwise, and neither scores nor the walk-forward test read it; `IndicatorsAreCausal`
  excepts it by name.
* **A listing date may be lost.** `upsert_stocks` (`queries.py:43-50`) overwrites it with
  what IDX reports, NULL included; a symbol without candles then starts at the end asked
  for, and its earlier history is not fetched.
* **Rows are shown without averages.** The dashboard takes the first rows of a
  selection and the averages of the last ones (README.md:202).

## 5. Theorems

All theorems hold for every value of the constants that satisfies the module's
assumptions; in particular for any number of processes, symbols, dates,
versions, runs and faults, and for the job manager any number of clients, jobs,
servers, clock readings and any cooldown.

Every safety property that a passing run checks is the subject of a theorem. Each
proof has the form Init => Inv, Inv /\ [Next]_vars => Inv', Inv => property; what
follows names the invariant and says why the property alone is not inductive.

**BackfillProofs**, the backfill. `TypeCorrect` is inductive with `RunAssigned` (a
worker that is not idle executes a run). The others rest on these invariants:

* `OpenTransaction`: the pending rows of an open transaction are, for every
  statement already executed, exactly the rows of the current date's payload,
  and nothing for the others. Hence a commit applies one `Load` of `DateLedger`:
  `Refinement`. From it, with the tables' relation itself inductive,
  `RowsAlwaysBacked` and `QuarantineAlwaysRecorded`.
* `Progress` and `Settled`: while a run executes, each weekday of its scope is
  covered, recorded as failed (and counted), still in the chunk, or still to do,
  and its counters do not exceed the rows written; when it ends this becomes the
  row of `etl_runs`. Hence `NoSilentGap` and `ReportsAreHonest`. Neither property
  is inductive alone: a finished row says nothing about how it came about.
* `Charge`, with the fact that failed fetches not handled yet are charged already:
  the failures of a run plus its unhandled failed fetches do not exceed its
  faults. It needs that a foreign key never fails, which follows from
  `OpenTransaction`. Hence `FailuresAreIsolated`.
* `SnapshotInv`: two answers of one date with one version are one payload, wherever
  they are held, and a summary stored at a version has beside it the candle and the
  flow of that version's payload. So a commit of the version that is stored already
  changes nothing: `Idempotent`. The property speaks of a step; what makes it true is
  that nothing but a payload was ever stored.
* `NewestInv`: no stored row of a date is newer than an answer for it that waits to be
  persisted. This is true while one run executes at a time (`OneRun`, the hypothesis
  of `Advance`) and false otherwise, see section 4.

The daily update. The theorems assume `OneCommand`: the updates and backfills
of one process follow each other, as the scheduler runs them. Two of them at once
read the last candle twice, and the later one may store candles between those of
the first. `DailyInv` says that the remaining dates of a run are consecutive weekdays
behind every candle (`Ahead`), and that a weekday between a candle and one of them
was covered or recorded: `NothingSkipped`, `Appended`. The steps of `DailyUpdate` are
steps of the backfill, whose lemmas give the types. That `max(trade_date)` exists is
the lemma `Latest`: a finite set of dates has a last one, by the order of the sets of
dates that lie after each.

**JobProofs**, the job manager. `SlotInv` says that from its first statement until it
stores a status a job's thread finds its job RUNNING in the slot, that at most
one handler is about to start a thread (for that job), and that a live process
is waited for: `LiveProcess`. `SpacingInv` relates every start of this server to
`lastStarted` and orders the jobs: `Spacing`. `AnswerInv` says that the exit
code is stored before the status, and that an ended status once read still
stands: `Honesty`.

The scheduler. `LoopInv`: a loop that sleeps waits for the slot of a weekday, every
weekday before it was launched or has its reason, and no later one was launched; a
loop that is awake has an explanation for every slot that has passed. `Explanation`
and `Launches` follow for any length of a day, any slot in it, and any lateness that
keeps the wake-up on the day of the slot. The search for the next weekday
(`next_scheduled_run` with its loop over Saturday and Sunday) is the lemma
`NextDayIsNext`.

**ApiClientProofs.** `TypeOK` is proved with `Counted` (a call that backs off has
attempts left). `Budget` says that what a call has used of its total timeout and what is
left of it add up to it while the call is active: `Bound`. `Spaced` says that the
time since the last request plus what the throttle or a sleeping call still waits
is at least the delay, and that only one call at a time sleeps for it: `Spacing`.
`WarmUps` (`WarmedUpOnce`) holds of every command and is inductive. `SharedInv` speaks of
the commands that gather their calls: at most one session is opened, active calls are
attached to it, those past the warm-up find it warm, and the shutdown finds no active
call: `Session`. Of commands that await `as_completed` it says nothing, for they close
the session under a request when they are left early (section 4).

**DailyStagesProofs.** Every step of a command is a step of one of the pipelines of
`DateTables` or leaves their state alone (`StageStep`), so that the invariants of
the pipelines carry over.

* `TypeInv` says that a date is persisted with a payload of IDX; the commits are
  then the only steps that touch a table, and store one publication: `Refinement`.
* `Accountable`, kept while a run is under way: each date of the run is covered, or
  failed and counted, or still to come. When a run ends by itself nothing is to come:
  `NothingSilent`.
* `StageInv` says that every candle is explained (its index is stored, or an error is
  on record) or belongs to the command under way, whose index stage has the range of
  its candle stage: `IndexExplained`. This is where one start date for both stages
  matters.
* `ImportInv` orders candles, pending dates and imports: pending dates are the tail of
  the range and lie behind the candles of earlier updates; a weekday between candles
  was worked on, or is pending, or lies before an import: `Imports`.

**CorporateActionsProofs.** `EventInv`: no two open transactions write one key, for
the second upsert waits, and what a transaction found of its events still holds when
it commits: `Calendar`. The order of the two upserts is what it rests on. For
`Adjusted`: rebuilds under way have numbers of their own (`Numbered`), the rows a
rebuild holds are all of the symbol's or none (`Whole`), and since candles are never
deleted, of two sets of dates that rebuilds read one holds the other (`Growing`).
Rows that a `DELETE` did not see thus have a date of the `INSERT`, which fails.

`Factors` needs `Current`: as long as a symbol has the version at which a rebuild read
it, the splits and the candles the rebuild holds are the ones there are, and the
factor of a row that was stored at this version is the product over the splits after
its date. Every step that changes them gives a new version. The rest is arithmetic of
products: `Ratio` folds a set in the order of a choice function, and the property
splits one set in two. That `Ratio(S) = Ratio(T) * Ratio(S \ T)` (`RatioOfUnion`) is
proved without induction over data, by a smallest counterexample among the subsets of
a finite set (`Smallest`).

**DatasetImportProofs.** For `Answered`, the rows of a request that is about to answer
are in the table or were replaced by a commit numbered later, and commits only add or
replace. For `Keyed` three facts travel with the property: keys a request found in a
calendar are in it (`FoundIsStored`), every row of a calendar names the request that
committed it (`Origin`), and a key that was looked for in vain has only rows that were
committed since (`Unseen`). A second row of a key is thus of the same file, or of two
requests that each looked before the other committed.

**IncrementalUpdateProofs.** `CoverInv`: a date the command owes is stored, or a unit
failed, or its symbol is in a range that is still to run and its unit with it:
`Completed`. It needs that the days between two dates are dates, which is assumed of
the constant `Dates`. `NoSilentGap` (`GapsAreRecorded`) has an invariant for each kind
of provider. `DateInv`: a run by dates begins right behind the candles of each of its
symbols, its dates are done with in order, and each one done with is stored or recorded
with the symbol. `SymbolInv`: symbols that are stored one by one have no gap at all.

**QueryProofs.** The cached endpoints: `IInv` remembers of a request under way what
the tables held when it came (`Before`), that the date `/latest` goes on with has rows
and none of those dates is later (`Chosen`), and that an answer lies between what was
stored then and what is stored now (`Right`): `Answers`.

The analysis and the backtest: the invariant (`ResearchInv`) only says that rows have
dates; the content is in the operators. `Sorted` puts a date at its rank
(`SortedDates`), so that the rows up to a day are the first places of the whole series
and no others (`SortedPrefix`, `SeriesPrefix`), for whatever windows. Each field of a row
but the sentiment reads only places up to its own (`SameScore`, `SameBeta`), the
benchmark and the brokers cut at its date (`SameBenchmark`, `SameBrokers`) and rows of
the foreign flow, the summaries and the events that it dates (`SameForeign`); hence
`Causality`. An outcome reads no place beyond its end
(`SameOutcome`); hence `Ranges`, with the fact that a score needs as much history as
the backtest asks for (`ScoreNeedsHistory`), and `Final`.

**Only model-checked.** The liveness properties (`GapsFilled`, `JobsEnd`, `CallsEnd`,
`EventuallyFresh`): liveness under fairness and ENABLED are out of this prover's
reach. `GapsAreResumed` is violated.

## 6. Not modelled

See the component table in `PROJECT.json`. What the models leave out of the
parts they cover:

* prices, volumes and texts: a row is one of a few kinds; factors are exact
  integers, the analysis has sets of rows in the place of numbers;
* a backfill payload that names a symbol twice or carries a value PostgreSQL
  refuses: it makes the date fail at every rerun and would appear as a fault of
  each;
* PostgreSQL's deadlock detection between two imports that upsert the same rows in
  different order: an upsert is one step, such an abort counts as a fault;
* metrics and log lines; the wording of `error_message` (the number of failed
  dates it contains is kept); warnings beyond the twentieth;
* the text a job printed, and the round-up of the remaining cooldown in the
  refusal;
* the other read-only endpoints, which format one `SELECT`: among them the candle
  table of the dashboard and the CSV export, whose limits (100,000 rows, applied
  without an order) cut a result off without a sign;
* a payload of a day with rows of another day: `get_daily_market_data` takes the date
  of a row from the row and the backfill stores it there; the models assume that IDX
  serves rows of the date asked for (and actions of the symbol asked for). That a rerun
  repeats a record of `data_errors` is not counted either;
* order-book features, position sizes, the rank of a symbol among those of a request
  and the limit on its rows;
* `get_ohlcv` with its pagination, which no command reaches while the provider has
  a daily-bulk endpoint.

The Excel export, the dashboard page and monitoring have no state: they format.
Airflow, Docker and nginx are configuration; their commands are further workers.

## 7. Plan

1. Proofs: a run of `BulkBackfill` in several processes that satisfies `OneRun` only
   per date, which is enough for `Advance`; the safety part of the liveness properties
   (a step that is due is possible) as invariants of their own.
2. `_backfill_by_symbol` statement by statement, should a provider without a
   daily-bulk endpoint be added.
3. A model of publication for `daily`: a date that IDX had published in part
   when it ran (hazard at `daily.py:14`).
