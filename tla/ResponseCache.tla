---------------------------- MODULE ResponseCache ----------------------------
(***************************************************************************)
(* The two endpoints that answer from the optional Redis cache             *)
(* (app/api/cache.py): GET /symbols and GET /latest of app/api/main.py, in *)
(* several threads of the API, while the pipelines change the tables.      *)
(*                                                                         *)
(* A request asks the cache, then the database, then stores its answer in  *)
(* the cache: other requests, and commits, come between these steps.  A    *)
(* database that has no Redis URL is a Redis that is never up.             *)
(***************************************************************************)
EXTENDS Integers, FiniteSets, FiniteSetsExt

CONSTANTS Requests,   \* threads that answer a request at a time
          Dates,
          Ttl,        \* API_CACHE_TTL, in ticks
          MaxChanges  \* bound: commits that change a table

ASSUME ConstantsAssumption ==
    /\ Dates \subseteq Nat /\ IsFiniteSet(Dates) /\ Ttl \in Nat \ {0}
    /\ MaxChanges \in Nat

Endpoints == {"symbols", "latest"}

VARIABLES
    stocks,    \* how often the table stocks changed; it is empty at 0
    candles,   \* of each date, how often its rows in ohlcv_daily changed
    redis,     \* of each endpoint the stored answer and the ticks it has left
    up,        \* Redis answers
    pc, endpoint,
    day,       \* latest(): latest_date
    answer,    \* the result of the request
    since      \* history: the tables when the request came, until it is over

tables == <<stocks, candles>>
request == <<pc, endpoint, day, answer, since>>
vars == <<tables, redis, up, request>>

Stored(rows) == {d \in Dates : rows[d] > 0}

\* An answer is a tuple: empty, the state of stocks, or one date and its rows.
List(n) == IF n = 0 THEN << >> ELSE <<n>>

\* Mutant: the order is ascending.
EarliestDate(rows) == Min(Stored(rows))

LatestDate(rows) == Max(Stored(rows))

Period == Ttl

NoEntry == [value |-> << >>, left |-> 0]

Init == /\ stocks = 0 /\ candles = [d \in Dates |-> 0]
        /\ redis = [e \in Endpoints |-> NoEntry]
        /\ up \in BOOLEAN
        /\ pc = [r \in Requests |-> "done"]
        /\ endpoint = [r \in Requests |-> "symbols"]
        /\ day = [r \in Requests |-> 0]
        /\ answer = [r \in Requests |-> << >>]
        /\ since = [r \in Requests |-> << >>]

\* OptionalCache.get: nothing unless Redis is up and the key has not expired.
Cached(e) == IF up /\ redis[e].left > 0 THEN {redis[e].value} ELSE {}

\* Mutant: an answer that is read is kept for another period (GETEX).
Renewed(e) == [redis EXCEPT ![e].left = IF up /\ @ > 0 THEN Ttl ELSE @]

AfterGet(e) == redis

Arrive(r, e) ==
    /\ pc[r] = "done"
    /\ endpoint' = [endpoint EXCEPT ![r] = e]
    /\ redis' = AfterGet(e)
    /\ IF Cached(e) # {}
       THEN /\ \E value \in Cached(e) : answer' = [answer EXCEPT ![r] = value]
            /\ since' = [since EXCEPT ![r] = << >>]
            /\ UNCHANGED pc
       ELSE /\ pc' = [pc EXCEPT ![r] = IF e = "symbols" THEN "rows" ELSE "date"]
            /\ since' = [since EXCEPT ![r] = tables]
            /\ UNCHANGED answer
    /\ UNCHANGED <<tables, up, day>>

\* latest(): select max(trade_date); without rows the answer is not stored.
ReadDate(r) ==
    /\ pc[r] = "date"
    /\ IF Stored(candles) = {}
       THEN /\ pc' = [pc EXCEPT ![r] = "done"]
            /\ answer' = [answer EXCEPT ![r] = << >>]
            /\ UNCHANGED day
       ELSE /\ pc' = [pc EXCEPT ![r] = "rows"]
            /\ day' = [day EXCEPT ![r] = LatestDate(candles)]
            /\ UNCHANGED answer
    /\ UNCHANGED <<tables, redis, up, endpoint, since>>

ReadRows(r) ==
    /\ pc[r] = "rows"
    /\ pc' = [pc EXCEPT ![r] = "store"]
    /\ answer' = [answer EXCEPT ![r] = IF endpoint[r] = "symbols" THEN List(stocks)
                                       ELSE <<day[r], candles[day[r]]>>]
    /\ UNCHANGED <<tables, redis, up, endpoint, day, since>>

\* OptionalCache.set: setex; a failure is only logged.
Store(r) ==
    /\ pc[r] = "store"
    /\ pc' = [pc EXCEPT ![r] = "done"]
    /\ day' = [day EXCEPT ![r] = 0] /\ since' = [since EXCEPT ![r] = << >>]
    /\ redis' = IF up THEN [redis EXCEPT ![endpoint[r]] = [value |-> answer[r], left |-> Period]]
                ELSE redis
    /\ UNCHANGED <<tables, up, endpoint, answer>>

Work(r) == ReadDate(r) \/ ReadRows(r) \/ Store(r)

Changes == stocks + FoldSet(LAMBDA d, n : candles[d] + n, 0, Dates)

ChangeStocks == /\ Changes < MaxChanges
                /\ stocks' = stocks + 1
                /\ UNCHANGED <<candles, redis, up, request>>

ChangeCandles(d) == /\ Changes < MaxChanges
                    /\ candles' = [candles EXCEPT ![d] = @ + 1]
                    /\ UNCHANGED <<stocks, redis, up, request>>

Tick == /\ \E e \in Endpoints : redis[e].left > 0
        /\ redis' = [e \in Endpoints |-> IF redis[e].left > 1
                                         THEN [redis[e] EXCEPT !.left = @ - 1] ELSE NoEntry]
        /\ UNCHANGED <<tables, up, request>>

\* Redis stops answering, for a while or for good, and keeps its keys or not.
Outage == /\ up /\ up' = FALSE
          /\ UNCHANGED <<tables, redis, request>>

Recovery == /\ ~up /\ up' = TRUE
            /\ \/ UNCHANGED redis
               \/ redis' = [e \in Endpoints |-> NoEntry]
            /\ UNCHANGED <<tables, request>>

Next == \/ \E r \in Requests : Work(r) \/ \E e \in Endpoints : Arrive(r, e)
        \/ ChangeStocks \/ \E d \in Dates : ChangeCandles(d)
        \/ Tick \/ Outage \/ Recovery

\* Requests that came are answered, and time passes.
Spec == Init /\ [][Next]_vars /\ WF_vars(Tick) /\ \A r \in Requests : WF_vars(Work(r))

-------------------------------------------------------------------------------
(* Properties                                                              *)

TypeOK ==
    /\ stocks \in Nat /\ candles \in [Dates -> Nat] /\ up \in BOOLEAN
    /\ \A e \in Endpoints : redis[e].left \in 0..Ttl
    /\ pc \in [Requests -> {"done", "date", "rows", "store"}]
    /\ endpoint \in [Requests -> Endpoints]

Current(e) == IF e = "symbols" THEN List(stocks)
              ELSE IF Stored(candles) = {} THEN << >>
              ELSE <<LatestDate(candles), candles[LatestDate(candles)]>>

\* "The API remains correct when Redis is unavailable" (README.md): an answer that
\* was not found in the cache is what the tables held while the request ran.  It
\* is empty only if a table was, and the two statements of latest() give the rows
\* of one date, which was the latest since the request came.
AnswersAreReads ==
    \A r \in Requests : pc[r] \in {"store", "done"} /\ since[r] # << >> =>
        LET then == since[r][2] IN
        IF endpoint[r] = "symbols"
        THEN \E n \in since[r][1]..stocks : answer[r] = List(n)
        ELSE IF answer[r] = << >> THEN Stored(then) = {}
        ELSE LET d == answer[r][1] IN
             /\ \A e \in Stored(then) : e <= d
             /\ answer[r][2] \in then[d]..candles[d] /\ d \in Stored(candles)

\* Once the tables rest, every answer that Redis still gives is the current one,
\* although a slow request may store an older answer over a newer one, and however
\* often the old answer is asked for.
EventuallyFresh ==
    <>[](\A e \in Endpoints : redis[e].left > 0 => redis[e].value = Current(e))
===============================================================================
