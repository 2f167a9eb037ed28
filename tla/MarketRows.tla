------------------------------ MODULE MarketRows ------------------------------
(***************************************************************************)
(* What one all-market payload of IDX says about each symbol on one date,  *)
(* and which of its rows a backfill keeps (app/validation/ohlcv.py and     *)
(* app/pipeline/stock_summary.py).  Prices are abstracted to the outcome   *)
(* the code computes from them:                                            *)
(*   absent      the payload has no row for the symbol                     *)
(*   no_trade    volume is zero: the row is skipped                        *)
(*   good        a consistent candle                                       *)
(*   no_flow     a consistent candle whose raw row has no foreign volumes  *)
(*   quarantined traded volume, but validate_ohlcv refuses the candle      *)
(***************************************************************************)
EXTENDS Integers, FiniteSets

CONSTANT Symbols

Kinds == {"absent", "no_trade", "good", "no_flow", "quarantined"}

\* get_daily_market_data takes the date of a row from the row itself; the models
\* assume that IDX serves rows of the date asked for.
Payload == [Symbols -> Kinds]

\* The payload of a day on which the exchange did not trade.
EmptyPayload == [s \in Symbols |-> "absent"]

\* selected: the records of the payload the caller asked for.
Selected(rows, requested) == {s \in requested : rows[s] # "absent"}

\* is_no_trade drops a row with zero volume before it is validated.
TradeRows(rows, requested) ==
    {s \in Selected(rows, requested) : rows[s] # "no_trade"}

\* validate_batch splits the trade rows into candles and quarantined errors.
ValidRows(rows, requested) ==
    {s \in TradeRows(rows, requested) : rows[s] # "quarantined"}

ErrorRows(rows, requested) ==
    TradeRows(rows, requested) \ ValidRows(rows, requested)

\* foreign_flow_row yields nothing when the raw row has no foreign volumes.
FlowRows(rows, requested) ==
    {s \in TradeRows(rows, requested) : rows[s] # "no_flow"}
===============================================================================
