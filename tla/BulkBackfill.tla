----------------------------- MODULE BulkBackfill -----------------------------
(***************************************************************************)
(* The bulk-by-date backfill of app/pipeline/backfill.py: worker processes *)
(* (CLI commands, dashboard jobs, the scheduler) that each run             *)
(* backfill_ohlcv over a range of dates against one PostgreSQL database.   *)
(*                                                                         *)
(* A run fetches the weekdays of its range in chunks.  The fetches of a    *)
(* chunk run concurrently; once all have answered, the dates are persisted *)
(* in order, each in one transaction of five statements.  The provider, a  *)
(* statement, a commit or the answer to a commit may fail; the operator    *)
(* may interrupt a run; the process may die at any step; meanwhile IDX may *)
(* publish a revised payload of a date.                                    *)
(*                                                                         *)
(* Statements of an open transaction are visible to nobody else (READ      *)
(* COMMITTED) and its row locks only delay other writers of the same rows  *)
(* until the commit, so a transaction is a set of pending rows that the    *)
(* commit applies.                                                         *)
(***************************************************************************)
EXTENDS MarketRows

CONSTANTS Workers,
          Dates,        \* calendar days, as integers
          Weekend,      \* the days of Dates that are Saturdays or Sundays
          Ranges,       \* the <<start_date, end_date>> an operator asks for
          Requests,     \* the sets of symbols an operator asks for
          Payloads,     \* the payloads IDX may publish for a date
          Concurrency,  \* dates fetched at once
          MaxVersion,   \* bound: payload revisions of one date
          MaxRuns,      \* bound: runs started
          MaxFaults     \* bound: failures, kills and interrupts injected

ASSUME ConstantsAssumption ==
    /\ IsFiniteSet(Symbols)
    /\ Dates \subseteq Int /\ IsFiniteSet(Dates)
    /\ Weekend \subseteq Dates
    /\ Ranges \subseteq Dates \X Dates
    /\ Requests \subseteq SUBSET Symbols
    /\ Payloads \subseteq Payload /\ EmptyPayload \in Payload
    /\ Concurrency \in Nat \ {0}
    /\ MaxVersion \in Nat \ {0}
    /\ MaxRuns \in Nat /\ MaxFaults \in Nat

VARIABLES
    (* the database *)
    stocks, candles, summaries, flows, rowErrors,  \* see DateLedger
    dateErrors,   \* data_errors of whole dates, tagged with the run
    etlRuns,      \* the rows of etl_runs
    (* the local state of backfill_ohlcv in each process *)
    phase,        \* idle, in the loop over dates, or awaiting gather
    request,      \* the run it executes and the symbols it was asked for
    todo, chunk,  \* dates not launched yet, dates of the chunk not persisted
    fetched,      \* the result of fetch_day for each date
    stage, tx,    \* the next statement, and the rows of the open transaction
    counts, failures,
    interrupted,  \* the workers whose operator pressed Ctrl-C
    (* the provider *)
    published,    \* the payload IDX serves for each date
    (* history *)
    scope,        \* the weekdays a run was asked for
    covered,      \* the dates a run committed
    written,      \* the number of candles a run committed
    charged,      \* the faults a run met
    faults        \* the faults injected so far

tables == <<stocks, candles, summaries, flows, rowErrors>>
transaction == <<stage, tx>>
tally == <<counts, failures>>
local == <<phase, request, todo, chunk, fetched, transaction, tally, interrupted>>
done == <<covered, written>>
vars == <<tables, dateErrors, etlRuns, local, published, scope, done, charged,
          faults>>

Runs == 1 .. MaxRuns
Versions == 1 .. MaxVersion

Ledger == INSTANCE DateLedger

-------------------------------------------------------------------------------
(* The local state of a run                                                *)

Tables == {"stocks", "ohlcv", "summary", "flow", "errors"}

\* Mutant: the candles are written before the stocks they refer to.
PositionCandlesFirst ==
    [stocks |-> 2, ohlcv |-> 1, summary |-> 3, flow |-> 4, errors |-> 5]

\* The order of the statements of a date's transaction.
Position == [stocks |-> 1, ohlcv |-> 2, summary |-> 3, flow |-> 4, errors |-> 5]
CommitStage == 6

NoTransaction == [t \in Tables |-> {}]

\* fetch_day returns the date with its records, or with the exception.
Result == [status : {"pending", "ok", "error"}, version : Versions,
           rows : Payload]
NoRecords(status) == [status |-> status, version |-> 1, rows |-> EmptyPayload]

EtlRun == [status : {"none", "RUNNING", "SUCCESS", "PARTIAL", "CANCELLED"},
           rows_loaded : Nat, rows_rejected : Nat, failed : Nat]
EmptyRun(status) == [status |-> status, rows_loaded |-> 0,
                     rows_rejected |-> 0, failed |-> 0]

NoCounts == [loaded |-> 0, rejected |-> 0]

Init == /\ Ledger!Init
        /\ dateErrors = {}
        /\ etlRuns = [r \in Runs |-> EmptyRun("none")]
        /\ phase = [w \in Workers |-> "idle"]
        /\ request = [w \in Workers |-> [run |-> 0, symbols |-> {}]]
        /\ todo = [w \in Workers |-> {}]
        /\ chunk = [w \in Workers |-> {}]
        /\ fetched = [w \in Workers |-> [d \in Dates |-> NoRecords("pending")]]
        /\ stage = [w \in Workers |-> 1]
        /\ tx = [w \in Workers |-> NoTransaction]
        /\ counts = [w \in Workers |-> NoCounts]
        /\ failures = [w \in Workers |-> 0]
        /\ interrupted = {}
        /\ published \in [Dates -> [version : {1}, rows : Payloads]]
        /\ scope = [r \in Runs |-> {}]
        /\ covered = [r \in Runs |-> {}]
        /\ written = [r \in Runs |-> 0]
        /\ charged = [r \in Runs |-> 0]
        /\ faults = 0

Weekdays(start, end) == {d \in Dates : start <= d /\ d <= end} \ Weekend

\* Mutant: the latest dates come first.
FirstChunkLatest(days) ==
    {d \in days : Cardinality({e \in days : e > d}) < Concurrency}

\* The next chunk of the loop over dates: the first Concurrency of them.
FirstChunk(days) ==
    {d \in days : Cardinality({e \in days : e < d}) < Concurrency}

\* The date of its chunk that worker w is persisting.
IsCurrent(w, d) == /\ phase[w] = "loop" /\ d \in chunk[w]
                   /\ \A e \in chunk[w] : d <= e

\* Mutant: the quarantined rows are dropped.
RowsForUnrecorded(w, d) ==
    LET rows == fetched[w][d].rows
        requested == request[w].symbols
    IN  [stocks  |-> TradeRows(rows, requested),
         ohlcv   |-> ValidRows(rows, requested),
         summary |-> TradeRows(rows, requested),
         flow    |-> FlowRows(rows, requested),
         errors  |-> {}]

\* The rows the statement on each table writes for date d: those of the payload
\* fetched for d, which carry that date (see Payload).  A rerun repeats a record of
\* data_errors; that one is there is all the model keeps of it.
RowsFor(w, d) ==
    LET rows == fetched[w][d].rows
        requested == request[w].symbols
    IN  [stocks  |-> TradeRows(rows, requested),
         ohlcv   |-> ValidRows(rows, requested),
         summary |-> TradeRows(rows, requested),
         flow    |-> FlowRows(rows, requested),
         errors  |-> ErrorRows(rows, requested)]

\* The foreign keys of ohlcv_daily and stock_summary_daily to stocks.
ForeignKeyHolds(w, d, t) ==
    t \in {"ohlcv", "summary"} =>
        RowsFor(w, d)[t] \subseteq stocks \cup tx[w]["stocks"]

\* The server commits the pending rows of w, all of them on date d.
ApplyTransaction(w, d) ==
    LET r == request[w].run
        version == fetched[w][d].version
    IN  /\ stocks' = stocks \cup tx[w]["stocks"]
        /\ candles' = Ledger!Written(candles, d, tx[w]["ohlcv"], version)
        /\ summaries' = Ledger!Written(summaries, d, tx[w]["summary"], version)
        /\ flows' = Ledger!Written(flows, d, tx[w]["flow"], version)
        /\ rowErrors' = rowErrors \cup
                          Ledger!RowErrors(d, tx[w]["errors"], version)
        /\ covered' = [covered EXCEPT ![r] = @ \cup {d}]
        /\ written' = [written EXCEPT ![r] = @ + Cardinality(tx[w]["ohlcv"])]

\* The worker is done with date d of its chunk.
NextDate(w, d) == /\ chunk' = [chunk EXCEPT ![w] = @ \ {d}]
                  /\ stage' = [stage EXCEPT ![w] = 1]
                  /\ tx' = [tx EXCEPT ![w] = NoTransaction]
                  /\ UNCHANGED <<phase, request, todo, fetched, interrupted>>

\* Mutants: the error is not counted, it counts the rows of the failed date, it
\* does not say which run it belongs to.
RecordFailureUncounted(w, d) ==
    /\ dateErrors' = dateErrors \cup {[run |-> request[w].run, date |-> d]}
    /\ UNCHANGED tally

RecordFailureCountingRows(w, d) ==
    /\ failures' = [failures EXCEPT ![w] = @ + 1]
    /\ counts' = [counts EXCEPT ![w] =
         [loaded   |-> @.loaded + Cardinality(RowsFor(w, d)["ohlcv"]),
          rejected |-> @.rejected]]
    /\ dateErrors' = dateErrors \cup {[run |-> request[w].run, date |-> d]}

RecordFailureUntagged(w, d) ==
    /\ failures' = [failures EXCEPT ![w] = @ + 1]
    /\ dateErrors' = dateErrors \cup {[run |-> 0, date |-> d]}
    /\ UNCHANGED counts

\* failures += 1, and a row of data_errors for the date is committed.
RecordFailure(w, d) ==
    /\ failures' = [failures EXCEPT ![w] = @ + 1]
    /\ dateErrors' = dateErrors \cup {[run |-> request[w].run, date |-> d]}
    /\ UNCHANGED counts

\* The process leaves backfill_ohlcv and its local state is gone.
Leave(w) == /\ phase' = [phase EXCEPT ![w] = "idle"]
            /\ request' = [request EXCEPT ![w] = [run |-> 0, symbols |-> {}]]
            /\ todo' = [todo EXCEPT ![w] = {}]
            /\ chunk' = [chunk EXCEPT ![w] = {}]
            /\ fetched' = [fetched EXCEPT
                             ![w] = [d \in Dates |-> NoRecords("pending")]]
            /\ stage' = [stage EXCEPT ![w] = 1]
            /\ tx' = [tx EXCEPT ![w] = NoTransaction]
            /\ counts' = [counts EXCEPT ![w] = NoCounts]
            /\ failures' = [failures EXCEPT ![w] = 0]
            /\ interrupted' = interrupted \ {w}

\* One more injected fault, charged to the run of w.
Fault(w) ==
    /\ faults < MaxFaults
    /\ faults' = faults + 1
    /\ charged' = [charged EXCEPT ![request[w].run] = @ + 1]

NoFault == UNCHANGED <<charged, faults>>

-------------------------------------------------------------------------------
(* backfill_ohlcv                                                          *)

\* start_etl_run and its commit; the loop over the dates is about to begin.
StartRun(w, range, symbols) ==
    /\ phase[w] = "idle"
    /\ \E r \in Runs :
         /\ etlRuns[r].status = "none"
         /\ \A q \in Runs : q < r => etlRuns[q].status # "none"
         /\ etlRuns' = [etlRuns EXCEPT ![r] = EmptyRun("RUNNING")]
         /\ request' = [request EXCEPT ![w] = [run |-> r, symbols |-> symbols]]
         /\ scope' = [scope EXCEPT ![r] = Weekdays(range[1], range[2])]
    /\ phase' = [phase EXCEPT ![w] = "loop"]
    /\ todo' = [todo EXCEPT ![w] = Weekdays(range[1], range[2])]
    /\ UNCHANGED <<tables, dateErrors, chunk, fetched, transaction, tally,
                   interrupted, published, done>>
    /\ NoFault

\* The next iteration of the chunk loop launches the fetches of its dates.
LaunchChunk(w) ==
    /\ phase[w] = "loop" /\ chunk[w] = {} /\ todo[w] # {}
    /\ phase' = [phase EXCEPT ![w] = "gather"]
    /\ chunk' = [chunk EXCEPT ![w] = FirstChunk(todo[w])]
    /\ todo' = [todo EXCEPT ![w] = @ \ FirstChunk(@)]
    /\ fetched' = [fetched EXCEPT
                     ![w] = [d \in Dates |-> NoRecords("pending")]]
    /\ UNCHANGED <<tables, dateErrors, etlRuns, request, transaction, tally,
                   interrupted, published, scope, done>>
    /\ NoFault

\* fetch_day of date d answers with result.
Answer(w, d, result) ==
    /\ phase[w] = "gather" /\ d \in chunk[w]
    /\ fetched[w][d].status = "pending"
    /\ fetched' = [fetched EXCEPT ![w][d] = result]
    /\ UNCHANGED <<tables, dateErrors, etlRuns, phase, request, todo, chunk,
                   transaction, tally, interrupted, published, scope, done>>

\* Mutant: the payload may come from a cache of older responses.
FetchCached(w, d) ==
    /\ \E v \in 1 .. published[d].version :
         Answer(w, d, [status |-> "ok", version |-> v, rows |-> published[d].rows])
    /\ NoFault

\* Mutant: a date that failed before is not asked for again.
FetchOnce(w, d) ==
    /\ IF \E r \in Runs : [run |-> r, date |-> d] \in dateErrors
       THEN Answer(w, d, NoRecords("error"))
       ELSE Answer(w, d, [status |-> "ok", version |-> published[d].version,
                          rows |-> published[d].rows])
    /\ NoFault

\* It returns the payload IDX serves at that moment.
Fetch(w, d) ==
    /\ Answer(w, d, [status |-> "ok", version |-> published[d].version,
                     rows |-> published[d].rows])
    /\ NoFault

\* It turns any exception of the provider into a failed result.
FetchFails(w, d) == Answer(w, d, NoRecords("error")) /\ Fault(w)

\* gather returns when every fetch has answered, unless it is cancelled.
GatherReturns(w) ==
    /\ phase[w] = "gather"
    /\ \A d \in chunk[w] : fetched[w][d].status # "pending"
    /\ w \notin interrupted
    /\ phase' = [phase EXCEPT ![w] = "loop"]
    /\ UNCHANGED <<tables, dateErrors, etlRuns, request, todo, chunk, fetched,
                   transaction, tally, interrupted, published, scope, done>>
    /\ NoFault

\* A date whose fetch failed: count it, record and commit the error.
ProviderFailed(w, d) ==
    /\ IsCurrent(w, d) /\ fetched[w][d].status = "error"
    /\ RecordFailure(w, d)
    /\ NextDate(w, d)
    /\ UNCHANGED <<tables, etlRuns, published, scope, done>>
    /\ NoFault

\* The next of the five statements of the transaction of date d.
Statement(w, d, t) ==
    /\ IsCurrent(w, d) /\ fetched[w][d].status = "ok"
    /\ stage[w] = Position[t]
    /\ ForeignKeyHolds(w, d, t)
    /\ tx' = [tx EXCEPT ![w][t] = RowsFor(w, d)[t]]
    /\ stage' = [stage EXCEPT ![w] = @ + 1]
    /\ UNCHANGED <<tables, dateErrors, etlRuns, phase, request, todo, chunk,
                   fetched, tally, interrupted, published, scope, done>>
    /\ NoFault

\* The commit of date d, and the counters that follow it.
CommitDate(w, d) ==
    /\ IsCurrent(w, d) /\ stage[w] = CommitStage
    /\ ApplyTransaction(w, d)
    /\ counts' = [counts EXCEPT
         ![w] = [loaded   |-> @.loaded + Cardinality(tx[w]["ohlcv"]),
                 rejected |-> @.rejected + Cardinality(tx[w]["errors"])]]
    /\ NextDate(w, d)
    /\ UNCHANGED <<dateErrors, etlRuns, failures, published, scope>>
    /\ NoFault

\* Mutant: the error is recorded without a rollback before it.
PersistFailsWithoutRollback(w, d) ==
    /\ IsCurrent(w, d) /\ fetched[w][d].status = "ok"
    /\ Fault(w)
    /\ ApplyTransaction(w, d)
    /\ RecordFailure(w, d)
    /\ NextDate(w, d)
    /\ UNCHANGED <<etlRuns, published, scope>>

\* A statement or the commit raises, for a fault or for a foreign key that is
\* not met: roll back, count the failure, record and commit the error.
PersistFails(w, d) ==
    /\ IsCurrent(w, d) /\ fetched[w][d].status = "ok"
    /\ \/ Fault(w)
       \/ /\ \E t \in Tables : stage[w] = Position[t] /\ ~ForeignKeyHolds(w, d, t)
          /\ NoFault
    /\ RecordFailure(w, d)
    /\ NextDate(w, d)
    /\ UNCHANGED <<tables, etlRuns, published, scope, done>>

\* The server commits but the connection drops before it says so: the except
\* clause runs on a fresh connection although the date is stored.
CommitUnacknowledged(w, d) ==
    /\ IsCurrent(w, d) /\ stage[w] = CommitStage
    /\ Fault(w)
    /\ ApplyTransaction(w, d)
    /\ RecordFailure(w, d)
    /\ NextDate(w, d)
    /\ UNCHANGED <<etlRuns, published, scope>>

\* The end of the loop: finish_etl_run and its commit.
FinishRun(w) ==
    /\ phase[w] = "loop" /\ chunk[w] = {} /\ todo[w] = {}
    /\ etlRuns' = [etlRuns EXCEPT ![request[w].run] =
         [status |-> IF failures[w] = 0 THEN "SUCCESS" ELSE "PARTIAL",
          rows_loaded |-> counts[w].loaded,
          rows_rejected |-> counts[w].rejected,
          failed |-> failures[w]]]
    /\ Leave(w)
    /\ UNCHANGED <<tables, dateErrors, published, scope, done>>
    /\ NoFault

-------------------------------------------------------------------------------
(* The operator, the process and IDX                                       *)

\* Ctrl-C asks the event loop to cancel the command's task.
Interrupt(w) ==
    /\ phase[w] # "idle" /\ w \notin interrupted
    /\ interrupted' = interrupted \cup {w}
    /\ UNCHANGED <<tables, dateErrors, etlRuns, phase, request, todo, chunk,
                   fetched, transaction, tally, published, scope, done>>
    /\ Fault(w)

\* CancelledError is raised at the only await, in gather; the handler
\* finishes the run as CANCELLED with zero rows, whatever was committed.
CancelRun(w) ==
    /\ phase[w] = "gather" /\ w \in interrupted
    /\ etlRuns' = [etlRuns EXCEPT ![request[w].run] = EmptyRun("CANCELLED")]
    /\ Leave(w)
    /\ UNCHANGED <<tables, dateErrors, published, scope, done>>
    /\ NoFault

\* The process is killed, or an exception escapes an error handler: the open
\* transaction is lost and nobody updates the row of etl_runs.
Die(w) ==
    /\ phase[w] # "idle"
    /\ Leave(w)
    /\ UNCHANGED <<tables, dateErrors, etlRuns, published, scope, done>>
    /\ Fault(w)

\* IDX publishes another payload for d (late rows, corrections, a halt).
Revise(d, rows) ==
    /\ published[d].version < MaxVersion
    /\ published' = [published EXCEPT
                       ![d] = [version |-> @.version + 1, rows |-> rows]]
    /\ UNCHANGED <<tables, dateErrors, etlRuns, local, scope, done>>
    /\ NoFault

-------------------------------------------------------------------------------
DateStep(w, d) == \/ Fetch(w, d)
                  \/ FetchFails(w, d)
                  \/ ProviderFailed(w, d)
                  \/ \E t \in Tables : Statement(w, d, t)
                  \/ CommitDate(w, d)
                  \/ PersistFails(w, d)
                  \/ CommitUnacknowledged(w, d)

\* A step the event loop or the database takes for the run of w.
WorkerStep(w) == \/ LaunchChunk(w)
                 \/ GatherReturns(w)
                 \/ CancelRun(w)
                 \/ FinishRun(w)
                 \/ \E d \in Dates : DateStep(w, d)

OperatorStep(w) == \/ \E range \in Ranges, symbols \in Requests :
                        StartRun(w, range, symbols)
                   \/ Interrupt(w)
                   \/ Die(w)

\* Every run of the bound was started and has ended.
Terminated == /\ \A w \in Workers : phase[w] = "idle"
              /\ \A r \in Runs : etlRuns[r].status # "none"
              /\ UNCHANGED vars

Next == \/ \E w \in Workers : WorkerStep(w) \/ OperatorStep(w)
        \/ \E d \in Dates, rows \in Payloads : Revise(d, rows)
        \/ Terminated

Spec == Init /\ [][Next]_vars

\* The event loop runs and every provider call and statement returns or
\* raises (IDX_TOTAL_TIMEOUT bounds a fetch), so a live process takes its
\* steps.
FairSpec == Spec /\ \A w \in Workers : WF_vars(WorkerStep(w))

\* Moreover the operator starts another run as long as one may be started.
RerunSpec == FairSpec /\ \A w \in Workers :
    WF_vars(\E range \in Ranges, symbols \in Requests :
               StartRun(w, range, symbols))

-------------------------------------------------------------------------------
(* Properties                                                              *)

TypeOK ==
    /\ stocks \subseteq Symbols
    /\ candles \in [Dates -> [Symbols -> 0 .. MaxVersion]]
    /\ summaries \in [Dates -> [Symbols -> 0 .. MaxVersion]]
    /\ flows \in [Dates -> [Symbols -> 0 .. MaxVersion]]
    /\ rowErrors \subseteq [date : Dates, symbol : Symbols, version : Versions]
    /\ dateErrors \subseteq [run : Runs, date : Dates]
    /\ etlRuns \in [Runs -> EtlRun]
    /\ phase \in [Workers -> {"idle", "loop", "gather"}]
    /\ request \in [Workers -> [run : Runs \cup {0}, symbols : SUBSET Symbols]]
    /\ todo \in [Workers -> SUBSET Dates]
    /\ chunk \in [Workers -> SUBSET Dates]
    /\ fetched \in [Workers -> [Dates -> Result]]
    /\ stage \in [Workers -> 1 .. CommitStage]
    /\ tx \in [Workers -> [Tables -> SUBSET Symbols]]
    /\ counts \in [Workers -> [loaded : Nat, rejected : Nat]]
    /\ failures \in [Workers -> Nat]
    /\ interrupted \subseteq Workers
    /\ published \in [Dates -> [version : Versions, rows : Payloads]]
    /\ scope \in [Runs -> SUBSET Dates]
    /\ covered \in [Runs -> SUBSET Dates]
    /\ written \in [Runs -> Nat]
    /\ charged \in [Runs -> Nat]
    /\ faults \in 0 .. MaxFaults

\* A candle or a foreign-flow row is never stored without the stock summary of
\* the same symbol and date, nor a summary without its stock: the five
\* statements of a date are committed together or rolled back together.
RowsBacked ==
    \A d \in Dates, s \in Symbols :
        /\ candles[d][s] # 0 \/ flows[d][s] # 0 => summaries[d][s] # 0
        /\ summaries[d][s] # 0 => s \in stocks

\* Whenever the stored summary and the stored candle of a symbol do not come
\* from the same payload, that payload's candle was quarantined and data_errors
\* says so: no row is dropped, and no stale candle kept, silently.
QuarantineRecorded ==
    \A d \in Dates, s \in Symbols :
        summaries[d][s] # candles[d][s] =>
            [date |-> d, symbol |-> s, version |-> summaries[d][s]]
                \in rowErrors

\* A run that says SUCCESS committed every weekday of its range; one that says
\* PARTIAL committed or recorded an error for every one of them.
FinishedRunsLeaveNoGap ==
    \A r \in Runs :
        /\ etlRuns[r].status = "SUCCESS" => scope[r] = covered[r]
        /\ etlRuns[r].status = "PARTIAL" =>
             \A d \in scope[r] \ covered[r] :
                 [run |-> r, date |-> d] \in dateErrors

\* rows_loaded never claims more candles than the run committed, and is exact
\* for a run that says SUCCESS.
ReportedRowsWereWritten ==
    \A r \in Runs :
        /\ etlRuns[r].rows_loaded <= written[r]
        /\ etlRuns[r].status = "SUCCESS" => etlRuns[r].rows_loaded = written[r]

\* Failed dates are explained by faults of the run itself: nothing in the order
\* of statements, in an earlier failure of the same run or in another process
\* makes the backfill fail a date (the isolation of one date from another).
FailuresAreFaults ==
    \A r \in Runs : etlRuns[r].failed <= charged[r]

\* Each date is stored from one snapshot in one atomic step: the backfill
\* implements DateLedger.
LedgerSpec == Ledger!Spec

\* Storing a date whose stock summaries it leaves as they are changes neither
\* its candles nor its foreign flows: a rerun over an unchanged payload is
\* idempotent.
RerunIsIdempotent ==
    [][\A d \in Dates : summaries'[d] = summaries[d] =>
           candles'[d] = candles[d] /\ flows'[d] = flows[d]]_tables

\* With one backfill at a time a stored row is never replaced by a row of an
\* older payload.
SnapshotsAdvance ==
    [][\A d \in Dates, s \in Symbols :
           /\ summaries'[d][s] >= summaries[d][s]
           /\ candles'[d][s] >= candles[d][s]]_tables

\* An operator who keeps rerunning the range gets every weekday of it stored
\* once the faults are over: no failure makes a date unrecoverable.
GapsFilled ==
    <>(\A range \in Ranges : \A d \in Weekdays(range[1], range[2]) :
           \E r \in Runs : d \in covered[r])
===============================================================================
