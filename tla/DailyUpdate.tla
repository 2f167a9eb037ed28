----------------------------- MODULE DailyUpdate ------------------------------
(***************************************************************************)
(* The `daily` command of app/pipeline/daily.py: a bulk backfill of every  *)
(* symbol that starts the day after the last stored candle.  It keeps no   *)
(* state of its own: where a run starts is read from the candles the       *)
(* earlier runs committed.                                                 *)
(*                                                                         *)
(* Its second stage, the index summary, is not part of this module: it     *)
(* writes other tables and starts nowhere else.                            *)
(***************************************************************************)
EXTENDS BulkBackfill

CONSTANT EndDates  \* the --end of a command, or the day it runs

ASSUME DailyAssumption == EndDates \subseteq Dates /\ Symbols \in Requests

\* latest_market_date: the dates that have a candle, and the last of them.
CandleDates == {d \in Dates : \E s \in Symbols : candles[d][s] # 0}

IsLatest(d) == d \in CandleDates /\ \A e \in CandleDates : e <= d

\* Mutant: one day too late.
NextMarketStartLate(start, end) ==
    /\ \/ CandleDates = {} /\ start = end
       \/ \E d \in CandleDates : IsLatest(d) /\ start = d + 2
    /\ start <= end

\* next_market_start: the day after the last candle, or the last day asked for
\* when there is none; no run when that is after the end.
NextMarketStart(start, end) ==
    /\ \/ CandleDates = {} /\ start = end
       \/ \E d \in CandleDates : IsLatest(d) /\ start = d + 1
    /\ start <= end

\* daily_market_update reads the latest date and starts a run for the rest.
StartDaily(w) ==
    \E start \in Dates, end \in EndDates :
        /\ NextMarketStart(start, end)
        /\ StartRun(w, <<start, end>>, Symbols)

\* A fresh installation is loaded with `backfill` first.
StartInitialLoad(w) == /\ CandleDates = {}
                       /\ \E range \in Ranges : StartRun(w, range, Symbols)

\* No run is active; whether another may be started depends on the candles.
Rest == (\A w \in Workers : phase[w] = "idle") /\ UNCHANGED vars

DailyNext == \/ \E w \in Workers : \/ WorkerStep(w)
                                   \/ StartDaily(w)
                                   \/ StartInitialLoad(w)
                                   \/ Interrupt(w)
                                   \/ Die(w)
             \/ \E d \in Dates, rows \in Payloads : Revise(d, rows)
             \/ Rest

DailySpec == Init /\ [][DailyNext]_vars

-------------------------------------------------------------------------------
(* Properties                                                              *)

\* A weekday between two dates with candles was committed by some run or has an
\* error on record: the start date of a later run never jumps over a date
\* silently, whatever failed, was killed or was interrupted in between.
SkippedDatesAreRecorded ==
    \A e, f \in CandleDates : \A d \in Weekdays(e, f) :
        \E r \in Runs : d \in covered[r] \/ [run |-> r, date |-> d] \in dateErrors

\* With one command at a time candles are only appended: a date is written
\* after every date that has candles, so no stored candle is ever rewritten.
CandlesAreAppended ==
    [][\A d \in Dates : candles'[d] # candles[d] =>
           \A e \in CandleDates : e < d]_candles
===============================================================================
