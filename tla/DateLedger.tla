------------------------------ MODULE DateLedger ------------------------------
(***************************************************************************)
(* What a backfill promises of the daily tables: a trading date is stored  *)
(* from ONE snapshot of its payload and in ONE atomic step that touches    *)
(* every table, or not at all.  There are no runs, chunks, transactions,   *)
(* failures or processes here; BulkBackfill has them and implements this.  *)
(*                                                                         *)
(* A cell of candles, summaries and flows holds the version of the payload *)
(* that wrote the row, 0 when there is no row.                             *)
(***************************************************************************)
EXTENDS MarketRows

CONSTANTS Dates, Requests, MaxVersion

VARIABLES stocks,     \* symbols with a row in the stocks table
          candles,    \* ohlcv_daily
          summaries,  \* stock_summary_daily
          flows,      \* foreign_flow_daily
          rowErrors   \* quarantine records of data_errors

tables == <<stocks, candles, summaries, flows, rowErrors>>

Versions == 1 .. MaxVersion

Empty == [d \in Dates |-> [s \in Symbols |-> 0]]

Init == /\ stocks = {}
        /\ candles = Empty
        /\ summaries = Empty
        /\ flows = Empty
        /\ rowErrors = {}

\* The rows of table after the rows of symbols on date d were written.
Written(table, d, symbols, version) ==
    [table EXCEPT ![d] = [s \in Symbols |-> IF s \in symbols THEN version
                                                             ELSE @[s]]]

RowErrors(d, symbols, version) ==
    {[date |-> d, symbol |-> s, version |-> version] : s \in symbols}

\* One date of one payload, restricted to the requested symbols.
Load(d, rows, version, requested) ==
    /\ stocks' = stocks \cup TradeRows(rows, requested)
    /\ candles' = Written(candles, d, ValidRows(rows, requested), version)
    /\ summaries' = Written(summaries, d, TradeRows(rows, requested), version)
    /\ flows' = Written(flows, d, FlowRows(rows, requested), version)
    /\ rowErrors' = rowErrors \cup
                      RowErrors(d, ErrorRows(rows, requested), version)

Next == \E d \in Dates, rows \in Payload, version \in Versions,
           requested \in Requests : Load(d, rows, version, requested)

Spec == Init /\ [][Next]_tables
===============================================================================
