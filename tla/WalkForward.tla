----------------------------- MODULE WalkForward -----------------------------
(***************************************************************************)
(* The research indicators (app/analytics.py) and the walk-forward test    *)
(* (app/backtesting.py) of one symbol, as the routes /ui/api/analysis and  *)
(* /ui/api/backtest of app/api/main.py compute them from the tables.       *)
(*                                                                         *)
(* What matters here is which rows a number is computed from: an indicator *)
(* is the tuple of the values it reads, or None where the code returns     *)
(* None for want of history.  The thresholds of the test are 0, the least  *)
(* the route accepts, so that every signal with a score is an outcome; a   *)
(* higher one drops outcomes by a value of their own.                      *)
(***************************************************************************)
EXTENDS Integers, FiniteSets, Sequences, SequencesExt

CONSTANTS Days, BenchmarkDates, ForeignDates, BrokerDates, DatedDates, NewsDates,
                       \* the dates that the rows of each table may have
          Today,
          Averages,   \* windows of MA and EMA: 5, 10, 20, 50
          Returns,    \* windows of the returns: 5, 10, 20
          Month, Half,     \* 20 sessions, and the 10 returns a deviation needs
          Fortnight, Week, \* 14 and 5 sessions
          Horizon, MinHistory

ASSUME WalkForwardAssumption ==
    /\ Days \subseteq Nat \ {0} /\ IsFiniteSet(Days)
    /\ BenchmarkDates \subseteq Days /\ ForeignDates \subseteq Days
    /\ BrokerDates \subseteq Days /\ DatedDates \subseteq Days /\ NewsDates \subseteq Days
    /\ Today \in Days
    /\ Averages \subseteq Nat \ {0} /\ Returns \subseteq Nat \ {0}
    /\ {Month, Half, Fortnight, Week, Horizon} \subseteq Nat \ {0}
    /\ MinHistory \in Averages  \* 50

VARIABLES ohlcv,      \* the dates in ohlcv_daily
          adjusted,   \* the dates in adjusted_prices
          benchmark,  \* the dates of IHSG in benchmark_daily
          foreign,    \* the dates in foreign_flow_daily, in the order of the table
          brokers,    \* the dates in broker_summary_daily
          dated,      \* rows of stock_summary_daily and market_events: table and date
          news        \* market_news, by the first midnight after its publication
                      \* (published_at is a time, and a request compares it to a date)

flows == <<foreign, brokers, dated, news>>
walkForwardVars == <<ohlcv, adjusted, benchmark, flows>>

None == << >>
Unset == 0  \* a date that a request leaves out

Sorted(dates) == [i \in 1..Cardinality(dates) |->
                     CHOOSE d \in dates : Cardinality({e \in dates : e < d}) = i - 1]

WalkForwardInit == /\ ohlcv = {} /\ adjusted = {} /\ benchmark = {}
                   /\ foreign = << >> /\ brokers = {} /\ dated = {} /\ news = {}

StoreCandle(d) == /\ d \notin ohlcv
                  /\ ohlcv' = ohlcv \cup {d}
                  /\ UNCHANGED <<adjusted, benchmark, flows>>

\* rebuild_adjusted_prices gives every candle an adjusted row.
Rebuild == /\ adjusted' = ohlcv
           /\ UNCHANGED <<ohlcv, benchmark, flows>>

StoreBenchmark(d) == /\ benchmark' = benchmark \cup {d}
                     /\ UNCHANGED <<ohlcv, adjusted, flows>>

\* PostgreSQL writes a row that is updated to another place.
StoreForeign(d) == /\ \/ /\ d \notin Range(foreign)
                         /\ foreign' = Append(foreign, d)
                      \/ \E k \in DOMAIN foreign :
                            /\ foreign[k] = d
                            /\ foreign' = Append(RemoveAt(foreign, k), d)
                   /\ UNCHANGED <<ohlcv, adjusted, benchmark, brokers, dated, news>>

\* Imports, and for the summaries a backfill.
StoreBroker(d) == /\ brokers' = brokers \cup {d}
                  /\ UNCHANGED <<ohlcv, adjusted, benchmark, foreign, dated, news>>

StoreDated(table, d) ==
    /\ dated' = dated \cup {<<table, d>>}
    /\ UNCHANGED <<ohlcv, adjusted, benchmark, foreign, brokers, news>>

StoreNews(d) == /\ news' = news \cup {d}
                /\ UNCHANGED <<ohlcv, adjusted, benchmark, foreign, brokers, dated>>

WalkForwardNext == \/ \E d \in Days : StoreCandle(d)
                   \/ \E d \in BenchmarkDates : StoreBenchmark(d)
                   \/ \E d \in ForeignDates : StoreForeign(d)
                   \/ \E d \in BrokerDates : StoreBroker(d)
                   \/ \E table \in {"summary", "event"}, d \in DatedDates :
                         StoreDated(table, d)
                   \/ \E d \in NewsDates : StoreNews(d)
                   \/ Rebuild

WalkForwardSpec == WalkForwardInit /\ [][WalkForwardNext]_walkForwardVars

-------------------------------------------------------------------------------
(* analyze_ohlcv.  v is the price series of the symbol, an adjusted price  *)
(* where there is one, i a position in it, b the dates of the benchmark.   *)

Series(dates) == LET s == Sorted(dates)
                 IN [i \in DOMAIN s |-> <<s[i], s[i] \in adjusted>>]

\* _rolling_average
RollingAverage(v, i, w) == IF i < w THEN None ELSE SubSeq(v, i - w + 1, i)

\* _period_return
PeriodReturn(v, i, w) == IF i <= w THEN None ELSE <<v[i - w], v[i]>>

\* _ema: the seed is the first w prices.
Ema(v, i, w) == IF i < w THEN None ELSE SubSeq(v, 1, i)

\* _rsi, _atr, breakout_20: the w sessions before i, and i.
Since(v, i, w) == IF i <= w THEN None ELSE SubSeq(v, i - w, i)

\* volatility20: the returns of at most w sessions, if there are enough.
Volatility(v, i) == LET first == IF i > Month THEN i - Month ELSE 1 IN
                    IF i - first < Half THEN None ELSE SubSeq(v, first, i)

\* Mutant: the benchmark is not cut at the date of the signal.
AllKnown(b, t) == Sorted(b)

Known(b, t) == Sorted({d \in b : d <= t})

\* _benchmark_return
BenchmarkReturn(b, t) == PeriodReturn(Known(b, t), Len(Known(b, t)), Month)

\* _benchmark_volatility
BenchmarkVolatility(b, t) == Since(Known(b, t), Len(Known(b, t)), Month)

\* _beta_correlation: the sessions of the window whose two dates the benchmark has.
Beta(v, b, i) ==
    LET both == {j \in (i - Month + 1)..i : v[j - 1][1] \in b /\ v[j][1] \in b}
    IN IF i <= Month \/ Cardinality(both) < Half THEN None
       ELSE [k \in 1..Cardinality(both) |-> v[Sorted(both)[k]]]

\* _foreign_persistence: the last rows of the table, as it comes.  f gives the
\* date of each place in it.
ForeignPersistence(f, t) ==
    LET known == {k \in DOMAIN f : f[k] <= t}
    IN {f[k] : k \in {k \in known : Cardinality({j \in known : j > k}) < Week}}

\* simons_score needs every average and every return.
Score(v, i) ==
    IF \E w \in Averages : i < w THEN None
    ELSE IF \E w \in Returns : i <= w THEN None
    ELSE <<[w \in Averages |-> RollingAverage(v, i, w)],
           [w \in Returns |-> PeriodReturn(v, i, w)],
           RollingAverage(v, i, Month), Volatility(v, i)>>

\* p_final, or p_model where the benchmark is too short; None without a score.
Probability(v, b, i) ==
    IF Score(v, i) = None THEN None ELSE <<Score(v, i), BenchmarkReturn(b, v[i][1])>>

\* _broker_metrics: the net value and its concentration on the date, if it has
\* rows, and the sign of the last dates up to it.
BrokerMetrics(dates, t) ==
    LET known == Known(dates, t)
        first == IF Len(known) > Week THEN Len(known) - Week + 1 ELSE 1
    IN IF t \in dates THEN SubSeq(known, first, Len(known)) ELSE None

\* The newest news of the request, whatever the row.
LatestNews(published) == IF published = {} THEN None
                         ELSE <<CHOOSE d \in published : \A e \in published : e <= d>>

\* What analyze_ohlcv takes from the tables q for the session i: every field of its
\* row but the sentiment.  The foreign flow, the brokers, the summary and the events
\* of the date are those of the date.
Indicators(q, i) ==
    LET v == q.candles
        t == v[i][1]
    IN [date |-> t, score |-> Score(v, i), probability |-> Probability(v, q.benchmark, i),
        returns |-> [w \in Returns |-> PeriodReturn(v, i, w)],
        average |-> [w \in Averages |-> RollingAverage(v, i, w)],
        ema |-> [w \in Averages |-> Ema(v, i, w)],
        rsi |-> Since(v, i, Fortnight), breakout |-> Since(v, i, Month),
        volatility |-> Volatility(v, i), zscore |-> RollingAverage(v, i, Month),
        market |-> <<Len(Known(q.benchmark, t)), BenchmarkReturn(q.benchmark, t),
                     BenchmarkVolatility(q.benchmark, t)>>,
        beta |-> Beta(v, q.benchmark, i),
        foreign |-> ForeignPersistence(q.foreign, t),
        net |-> \E k \in DOMAIN q.foreign : q.foreign[k] = t,
        broker |-> BrokerMetrics(q.brokers, t),
        summary |-> <<"summary", t>> \in q.dated, events |-> <<"event", t>> \in q.dated]

Row(q, i) == [indicators |-> Indicators(q, i), sentiment |-> LatestNews(q.news)]

Until(dates, to) == {d \in dates : to = Unset \/ d <= to}

ForeignUntil(to) == RestrictValues(foreign, LAMBDA d : to = Unset \/ d <= to)

\* The rows that a request up to a day reads.
Tables(to) == [candles |-> Series(Until(ohlcv, to)), benchmark |-> Until(benchmark, to),
               foreign |-> ForeignUntil(to), brokers |-> Until(brokers, to),
               dated |-> {r \in dated : to = Unset \/ r[2] <= to},
               news |-> Until(news, to)]

\* _analysis_rows: every table is cut at to_date, the result at from_date.
Analysis(from, to) ==
    LET q == Tables(to)
    IN {Row(q, i) : i \in {j \in DOMAIN q.candles : q.candles[j][1] >= from}}

-------------------------------------------------------------------------------
(* walk_forward_backtest and ui_backtest                                   *)

\* Mutant: an outcome whose end is not there yet ends with the last price.
EndClipped(v, i) == IF i + Horizon <= Len(v) THEN i + Horizon ELSE Len(v)

EndOf(v, i) == i + Horizon

Outcomes(v) ==
    {[signal |-> v[i][1], start |-> v[i], end |-> v[EndOf(v, i)],
      probability |-> Probability(v, benchmark, i)] :
        i \in {j \in DOMAIN v : /\ Score(v, j) # None /\ Len(v) >= MinHistory
                                /\ EndOf(v, j) <= Len(v)}}

LastDay(from, to) == IF to = Unset /\ from # Unset THEN Today ELSE to

\* Mutant: the rows before the range are not read.
WithoutWarmUp(from, to) == {d \in Until(ohlcv, LastDay(from, to)) : d >= from}

\* The rows before the range are read for its averages.
Source(from, to) == Until(ohlcv, LastDay(from, to))

Backtest(from, to) == {o \in Outcomes(Series(Source(from, to))) :
                          o.signal >= from /\ (to # Unset => o.signal <= to)}

-------------------------------------------------------------------------------
(* Properties                                                              *)

WalkForwardTypes == /\ ohlcv \subseteq Days /\ adjusted \subseteq ohlcv
                    /\ benchmark \subseteq BenchmarkDates
                    /\ foreign \in Seq(ForeignDates) /\ IsInjective(foreign)
                    /\ brokers \subseteq BrokerDates /\ news \subseteq NewsDates
                    /\ dated \subseteq {"summary", "event"} \X DatedDates

\* No look-ahead, but for the sentiment: every other field of a row of the analysis
\* is the same for every later to_date, so no row of any table that is dated after
\* it is in one of its indicators.  sentiment_score is not so: it is that of the
\* newest news of the request in every row (analytics.py:467).
IndicatorsAreCausal ==
    \A to \in Days :
        {row.indicators : row \in Analysis(Unset, to)} =
            {known \in {row.indicators : row \in Analysis(Unset, Unset)} : known.date <= to}

\* The return of an outcome is final: rows dated after its end never change it.
OutcomesAreFinal ==
    [][adjusted' = adjusted =>
          \A o \in Outcomes(Series(ohlcv)) :
              (\A d \in (ohlcv' \ ohlcv) \cup (benchmark' \ benchmark) : d > o.end[1])
              => o \in Outcomes(Series(ohlcv))']_walkForwardVars

\* A range shows the outcomes of the whole history whose signal lies in it and
\* whose end was known at its last day, no more and no fewer: the warm-up history
\* is enough.
RangesAgree ==
    \A from, to \in Days \cup {Unset} :
        from # Unset \/ to # Unset =>
            Backtest(from, to) =
                {o \in Backtest(Unset, Unset) :
                    /\ o.signal >= from /\ o.end[1] <= LastDay(from, to)}
===============================================================================
