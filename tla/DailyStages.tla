----------------------------- MODULE DailyStages ------------------------------
(***************************************************************************)
(* Both stages of daily_market_update (app/pipeline/daily.py): the candles *)
(* of the days since the last stored candle, then the index summary of the *)
(* SAME days, in one process with one start date.  Besides, the commands   *)
(* that run the index or the broker pipeline alone.                        *)
(*                                                                         *)
(* The index stage is DateTables.  The candle stage is taken at the level  *)
(* of DateLedger, which BulkBackfill is shown to implement: its dates come *)
(* in order, each is stored or put on record in one step.                  *)
(***************************************************************************)
EXTENDS DateTables

CONSTANTS EndDates,   \* the --end of a command, or the day it runs
          MaxImports  \* bound

ASSUME EndDatesAssumption == EndDates \subseteq Dates /\ MaxImports \in Nat

VARIABLES candles,       \* the dates that have a candle
          candleErrors,  \* the dates a candle stage recorded an error for
          stage,         \* of the command: rest, candles or index
          range, pending,
          aborted,       \* the dates of commands that were killed or interrupted
          visited,       \* history: the dates a candle stage worked on
          imported       \* history: the dates of candles that were imported

seen == <<visited, imported>>
stageVars == <<candles, candleErrors, stage, range, pending, aborted, seen>>
dailyVars == <<vars, stageVars>>

DailyInit == /\ Init
             /\ candles = {} /\ candleErrors = {}
             /\ stage = "rest" /\ range = <<0, 0>> /\ pending = {} /\ aborted = {}
             /\ visited = {} /\ imported = {}

\* Mutant: one day too late.
NextMarketStartLate(end) ==
    IF candles = {} THEN end
                    ELSE 2 + CHOOSE d \in candles : \A e \in candles : e <= d

\* next_market_start: the day after the last candle, or the last day asked for.
NextMarketStart(end) ==
    IF candles = {} THEN end
                    ELSE 1 + CHOOSE d \in candles : \A e \in candles : e <= d

StartDaily(end) ==
    /\ stage = "rest" /\ benchmarks /\ run < MaxRuns
    /\ NextMarketStart(end) <= end
    /\ stage' = "candles"
    /\ range' = <<NextMarketStart(end), end>>
    /\ pending' = Weekdays(NextMarketStart(end), end)
    /\ UNCHANGED <<vars, candles, candleErrors, aborted, seen>>

\* The exchange traded and the date is stored, it was closed, or the date fails.
CandleDate(d) ==
    /\ stage = "candles" /\ d \in pending /\ \A e \in pending : d <= e
    /\ pending' = pending \ {d} /\ visited' = visited \cup {d}
    /\ \/ candles' = candles \cup {d} /\ UNCHANGED <<candleErrors, faults>>
       \/ UNCHANGED <<candles, candleErrors, faults>>
       \/ /\ faults < MaxFaults /\ faults' = faults + 1
          /\ candleErrors' = candleErrors \cup {d}
          /\ UNCHANGED candles
    /\ UNCHANGED <<database, local, idx, scope, covered, revisions, stage, range, aborted, imported>>

\* Mutant: the index stage asks for the last day only.
IndexStartLatest == range[2]

\* The start date was computed before the candles were stored.
IndexStart == range[1]

\* Whatever failed in the candle stage, the index stage follows.
StartIndexStage == /\ stage = "candles" /\ pending = {}
                   /\ StartRun(IndexStart, range[2])
                   /\ stage' = "index"
                   /\ UNCHANGED <<candles, candleErrors, range, pending, aborted, seen>>

\* The commands `index-summary`, with the start it moves back for the averages,
\* and `market-broker-summary`: a pipeline by itself.
StartPipeline(start, end) ==
    /\ stage = "rest"
    /\ StartRun(start, end)
    /\ stage' = "index" /\ range' = <<start, end>>
    /\ UNCHANGED <<candles, candleErrors, pending, aborted, seen>>

IndexStep == /\ stage = "index"
             /\ RunStep
             /\ stage' = IF phase' = "idle" THEN "rest" ELSE "index"
             /\ aborted' = IF CancelRun THEN aborted \cup Weekdays(range[1], range[2])
                                        ELSE aborted
             /\ UNCHANGED <<candles, candleErrors, range, pending, seen>>

\* The process is killed in either stage.
Kill == /\ stage # "rest"
        /\ \/ stage = "index" /\ Die
           \/ /\ stage = "candles" /\ faults < MaxFaults /\ faults' = faults + 1
              /\ UNCHANGED <<database, local, idx, scope, covered, revisions>>
        /\ stage' = "rest" /\ pending' = {}
        /\ aborted' = aborted \cup Weekdays(range[1], range[2])
        /\ UNCHANGED <<candles, candleErrors, range, seen>>

\* An OHLCV file is imported (DatasetImport); it may hold candles of any date.
ImportCandle(d) == /\ Cardinality(imported) < MaxImports
                   /\ candles' = candles \cup {d} /\ imported' = imported \cup {d}
                   /\ UNCHANGED <<vars, candleErrors, stage, range, pending, aborted,
                                  visited>>

DailyRest == stage = "rest" /\ UNCHANGED dailyVars

DailyNext == \/ \E end \in EndDates : StartDaily(end)
             \/ \E r \in Ranges : StartPipeline(r[1], r[2])
             \/ \E d \in Dates : CandleDate(d) \/ ImportCandle(d)
             \/ StartIndexStage \/ IndexStep \/ Kill \/ DailyRest
             \/ \E d \in Dates, rows \in Payloads :
                   Revise(d, rows) /\ UNCHANGED stageVars

DailySpec == DailyInit /\ [][DailyNext]_dailyVars

-------------------------------------------------------------------------------
(* Properties                                                              *)

\* Later updates start behind the candles and never return to the index of an
\* earlier day.  So, once a command is over, every day with a candle has its
\* index stored or an error on record, unless its own command was cut short or its candles
\* were imported: a failing index stage, or candle stage, leaves no silent gap.
IndexGapsExplained ==
    stage = "rest" =>
        \A d \in candles \ (aborted \cup imported) :
            \E r \in Runs : d \in covered[r] \/ [run |-> r, date |-> d] \in dateErrors

\* latest_market_date is the only memory of where to go on, and one imported
\* candle moves it.  A weekday after a candle of an update that no update has
\* worked on was left out for that reason alone, or its command was killed.
GapsLieBehindImports ==
    stage = "rest" =>
        \A e \in candles \ imported, f \in candles :
            \A d \in Weekdays(e, f) \ (visited \cup aborted) :
                \E g \in imported : d <= g
===============================================================================
