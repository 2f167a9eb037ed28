--------------------------- MODULE CorporateActions ---------------------------
(***************************************************************************)
(* The commands `corporate-actions` (app/pipeline/corporate_actions.py)    *)
(* and `adjust` (app/pipeline/adjustments.py) on one database, in several  *)
(* processes: scheduler, Airflow, dashboard jobs and operators start them  *)
(* without asking each other, while backfills add candles.                 *)
(*                                                                         *)
(* A statement is a step, for PostgreSQL gives each its own snapshot (read *)
(* committed).  Two of its rules matter: a row that one transaction wrote  *)
(* is locked for the others until it ends, and a DELETE that waited for a  *)
(* lock does not see the rows inserted meanwhile.                          *)
(***************************************************************************)
EXTENDS Integers, FiniteSets, Sequences, Functions, FiniteSetsExt

CONSTANTS Workers,     \* processes
          Symbols,
          Registered,  \* the symbols with a row in stocks
          Dates,
          Sessions,    \* the dates with trade
          Types,       \* action_type
          SplitTypes,  \* those in SPLIT_TYPES
          Payloads,    \* what IDX may list for a symbol, which is that of its rows
          Waiting, Failed, Done,  \* a task that has no payload
          MaxCommands, MaxRevisions, MaxFaults  \* bounds

\* source_id is 0 where IDX sends no id, ratio is 0 for NULL.
Action == [symbol : Symbols, date : Dates, type : Types, id : Nat, ratio : Nat]

ASSUME ConstantsAssumption ==
    /\ Registered \subseteq Symbols /\ SplitTypes \subseteq Types
    /\ Dates \subseteq Int /\ IsFiniteSet(Dates) /\ Sessions \subseteq Dates
    /\ Payloads \subseteq Seq(Action)
    /\ {Waiting, Failed, Done} \cap Payloads = {}
    /\ MaxCommands \in Nat /\ MaxRevisions \in Nat /\ MaxFaults \in Nat

VARIABLES
    candles,    \* the dates of each symbol in ohlcv_daily
    actions,    \* corporate_actions
    events,     \* how many rows of market_events each action has
    adjusted,   \* adjusted_prices: the factor of each date
    pc, symbol, \* of each worker: its next statement, its symbol
    tasks,      \* sync_corporate_actions: the result of each fetch
    existing,   \* upsert_market_events: the actions whose event was found
    usable, prices,     \* rebuild_adjusted_prices: what it read
    snapshot, removed,  \* the rows its DELETE saw, and locked
    published,  \* IDX
    version,    \* history: how often the sources of a symbol changed
    seen,       \* history: the number of a rebuild, the version it read
    commands, revisions, faults

database == <<candles, actions, events, adjusted>>
syncing == <<tasks, existing>>
rebuilding == <<usable, prices, snapshot, removed, seen>>
bounds == <<commands, revisions, faults>>
vars == <<database, pc, symbol, syncing, rebuilding, published, version, bounds>>

KeyOf(a) == <<a.symbol, a.date, a.type, a.id>>
Keys == {KeyOf(a) : a \in UNION {Range(p) : p \in Payloads}}
KeysOf(p) == {KeyOf(a) : a \in Range(p)}

\* get_corporate_actions gives every row the symbol IDX names in it, or else the
\* one asked for: the model assumes that IDX names the one asked for.
Lists(s, p) == \A a \in Range(p) : a.symbol = s

Init == /\ candles = [s \in Symbols |-> {}]
        /\ actions = {} /\ events = [k \in Keys |-> 0]
        /\ adjusted = [s \in Symbols |-> {}]
        /\ pc = [w \in Workers |-> "rest"]
        /\ symbol \in [Workers -> Symbols]
        /\ tasks = [w \in Workers |-> [s \in Symbols |-> Done]]
        /\ existing = [w \in Workers |-> {}]
        /\ usable = [w \in Workers |-> {}] /\ prices = [w \in Workers |-> {}]
        /\ snapshot = [w \in Workers |-> {}] /\ removed = [w \in Workers |-> {}]
        /\ published \in {f \in [Symbols -> Payloads] : \A s \in Symbols : Lists(s, f[s])}
        /\ version = [s \in Symbols |-> 0] /\ seen = [w \in Workers |-> <<0, 0>>]
        /\ commands = 0 /\ revisions = 0 /\ faults = 0

Goto(w, at) == pc' = [pc EXCEPT ![w] = at]

-------------------------------------------------------------------------------
(* sync_corporate_actions                                                  *)

StartSync(w) ==
    /\ pc[w] = "rest" /\ commands < MaxCommands
    /\ Goto(w, "sync")
    /\ tasks' = [tasks EXCEPT ![w] = [s \in Symbols |-> Waiting]]
    /\ commands' = commands + 1
    /\ UNCHANGED <<database, symbol, existing, rebuilding, published, version,
                   revisions, faults>>

\* A task of fetch ends; its error is a result like any other.
Fetch(w, s) ==
    /\ tasks[w][s] = Waiting
    /\ \/ tasks' = [tasks EXCEPT ![w][s] = published[s]] /\ UNCHANGED faults
       \/ /\ tasks' = [tasks EXCEPT ![w][s] = Failed]
          /\ faults < MaxFaults /\ faults' = faults + 1
    /\ UNCHANGED <<database, pc, symbol, existing, rebuilding, published, version,
                   commands, revisions>>

Skip(w, s) ==
    /\ pc[w] = "sync" /\ tasks[w][s] = Failed
    /\ tasks' = [tasks EXCEPT ![w][s] = Done]
    /\ UNCHANGED <<database, pc, symbol, existing, rebuilding, published, version,
                   bounds>>

Payload(w) == tasks[w][symbol[w]]
InTransaction(w) == pc[w] \in {"events", "commit"}

\* Mutant: the events are stored before the actions, when no row is locked yet.
LocksIgnored(w, s) == TRUE

\* The upsert waits for a transaction that wrote one of its rows.
LocksFree(w, s) ==
    \A v \in Workers \ {w} :
        InTransaction(v) => KeysOf(Payload(v)) \cap KeysOf(tasks[w][s]) = {}

\* A key that comes twice in the statement, or a symbol without a row in stocks,
\* is an error.
Acceptable(p) == /\ Cardinality(KeysOf(p)) = Len(p)
                 /\ \A a \in Range(p) : a.symbol \in Registered

UpsertActions(w, s) ==
    /\ pc[w] = "sync" /\ tasks[w][s] \in Payloads
    /\ Acceptable(tasks[w][s]) /\ LocksFree(w, s)
    /\ Goto(w, "events")
    /\ symbol' = [symbol EXCEPT ![w] = s]
    /\ UNCHANGED <<database, syncing, rebuilding, published, version, bounds>>

\* upsert_market_events asks for the events; those it did not find are added at
\* the commit.
FindEvents(w) ==
    /\ pc[w] = "events"
    /\ Goto(w, "commit")
    /\ existing' = [existing EXCEPT ![w] = {k \in Keys : events[k] > 0}]
    /\ UNCHANGED <<database, symbol, tasks, rebuilding, published, version, bounds>>

Merged(p) == {a \in actions : KeyOf(a) \notin KeysOf(p)} \cup Range(p)

CommitActions(w) ==
    /\ pc[w] = "commit"
    /\ LET p == Payload(w) IN
       /\ actions' = Merged(p)
       /\ events' = [k \in Keys |-> IF k \in KeysOf(p) \ existing[w]
                                    THEN events[k] + 1 ELSE events[k]]
       /\ version' = [s \in Symbols |-> IF \E a \in Range(p) : a.symbol = s
                                        THEN version[s] + 1 ELSE version[s]]
    /\ tasks' = [tasks EXCEPT ![w][symbol[w]] = Done]
    /\ Goto(w, "sync")
    /\ UNCHANGED <<candles, adjusted, symbol, existing, rebuilding, published,
                   bounds>>

FinishSync(w) ==
    /\ pc[w] = "sync" /\ \A s \in Symbols : tasks[w][s] = Done
    /\ Goto(w, "rest")
    /\ UNCHANGED <<database, symbol, syncing, rebuilding, published, version, bounds>>

-------------------------------------------------------------------------------
(* rebuild_adjusted_prices                                                 *)

IsSplit(a) == a.ratio > 0 /\ a.type \in SplitTypes

ReadActions(w, s) ==
    /\ pc[w] = "rest" /\ commands < MaxCommands
    /\ Goto(w, "prices")
    /\ symbol' = [symbol EXCEPT ![w] = s]
    /\ usable' = [usable EXCEPT ![w] = {a \in actions : a.symbol = s /\ IsSplit(a)}]
    /\ commands' = commands + 1
    /\ seen' = [seen EXCEPT ![w] = <<commands', version[s]>>]
    /\ UNCHANGED <<database, syncing, prices, snapshot, removed, published, version,
                   revisions, faults>>

ReadPrices(w) ==
    /\ pc[w] = "prices"
    /\ Goto(w, "delete")
    /\ prices' = [prices EXCEPT ![w] = candles[symbol[w]]]
    /\ UNCHANGED <<database, symbol, syncing, usable, snapshot, removed, seen,
                   published, version, bounds>>

StartDelete(w) ==
    /\ pc[w] = "delete"
    /\ Goto(w, "deleting")
    /\ snapshot' = [snapshot EXCEPT ![w] = adjusted[symbol[w]]]
    /\ UNCHANGED <<database, symbol, syncing, usable, prices, removed, seen,
                   published, version, bounds>>

\* It waits for a rebuild that deleted the same rows.
Delete(w) ==
    /\ pc[w] = "deleting"
    /\ \A v \in Workers \ {w} :
          pc[v] = "insert" /\ symbol[v] = symbol[w] => removed[v] \cap snapshot[w] = {}
    /\ Goto(w, "insert")
    /\ removed' = [removed EXCEPT ![w] = snapshot[w] \cap adjusted[symbol[w]]]
    /\ UNCHANGED <<database, symbol, syncing, usable, prices, snapshot, seen,
                   published, version, bounds>>

\* Mutant: the ratio of an action counts on its ex-date as well.
AppliesOnExDate(a, d) == a.date >= d

Applies(a, d) == a.date > d

Factor(w, d) ==
    FoldSet(LAMBDA a, product : a.ratio * product, 1,
            {a \in usable[w] : Applies(a, d)})

Remaining(w) == adjusted[symbol[w]] \ removed[w]

\* Mutant: rows that are there already are left alone.
ConflictNever(w) == FALSE

\* A row the DELETE did not see has the date of a new one.
Conflict(w) == \E row \in Remaining(w) : row.date \in prices[w]

Insert(w) ==
    /\ pc[w] = "insert" /\ ~Conflict(w)
    /\ Goto(w, "rest")
    /\ adjusted' = [adjusted EXCEPT ![symbol[w]] =
                       Remaining(w) \cup {[date |-> d, factor |-> Factor(w, d),
                                           read |-> seen[w]] : d \in prices[w]}]
    /\ UNCHANGED <<candles, actions, events, symbol, syncing, rebuilding, published,
                   version, bounds>>

-------------------------------------------------------------------------------
\* A statement raises, for a reason of its own or by chance, or the process is
\* killed: nothing catches it, the transaction is rolled back, the tasks that
\* are left are cancelled.
Abort(w) ==
    /\ pc[w] # "rest"
    /\ \/ /\ pc[w] = "sync"
          /\ \E s \in Symbols : tasks[w][s] \in Payloads /\ ~Acceptable(tasks[w][s])
          /\ UNCHANGED faults
       \/ pc[w] = "insert" /\ Conflict(w) /\ UNCHANGED faults
       \/ faults < MaxFaults /\ faults' = faults + 1
    /\ Goto(w, "rest")
    /\ tasks' = [tasks EXCEPT ![w] = [s \in Symbols |-> Done]]
    /\ UNCHANGED <<database, symbol, existing, rebuilding, published, version,
                   commands, revisions>>

\* A backfill stores a candle.
StoreCandle(s, d) ==
    /\ d \notin candles[s]
    /\ candles' = [candles EXCEPT ![s] = @ \cup {d}]
    /\ version' = [version EXCEPT ![s] = @ + 1]
    /\ UNCHANGED <<actions, events, adjusted, pc, symbol, syncing, rebuilding,
                   published, bounds>>

Revise(s, p) == /\ published[s] # p /\ Lists(s, p) /\ revisions < MaxRevisions
                /\ published' = [published EXCEPT ![s] = p]
                /\ revisions' = revisions + 1
                /\ UNCHANGED <<database, pc, symbol, syncing, rebuilding, version,
                               commands, faults>>

SyncStep(w) == \/ FindEvents(w) \/ CommitActions(w) \/ FinishSync(w)
               \/ \E s \in Symbols : Fetch(w, s) \/ Skip(w, s) \/ UpsertActions(w, s)

RebuildStep(w) == ReadPrices(w) \/ StartDelete(w) \/ Delete(w) \/ Insert(w)

WorkerStep(w) == SyncStep(w) \/ RebuildStep(w) \/ Abort(w)

Rest == (\A w \in Workers : pc[w] = "rest") /\ UNCHANGED vars

Next == \/ \E w \in Workers : \/ StartSync(w) \/ WorkerStep(w)
                              \/ \E s \in Symbols : ReadActions(w, s)
        \/ \E s \in Symbols : \/ \E d \in Sessions : StoreCandle(s, d)
                              \/ \E p \in Payloads : Revise(s, p)
        \/ Rest

Spec == Init /\ [][Next]_vars

-------------------------------------------------------------------------------
(* Properties                                                              *)

TypeOK ==
    /\ candles \in [Symbols -> SUBSET Dates]
    /\ actions \subseteq Action
    /\ events \in [Keys -> Nat]
    /\ \A s \in Symbols : adjusted[s] \subseteq
          [date : Dates, factor : Nat \ {0}, read : Nat \X Nat]
    /\ pc \in [Workers -> {"rest", "sync", "events", "commit", "prices", "delete",
                           "deleting", "insert"}]
    /\ symbol \in [Workers -> Symbols]
    /\ tasks \in [Workers -> [Symbols -> Payloads \cup {Waiting, Failed, Done}]]

\* Every corporate action has exactly one row in the event calendar, which has no
\* unique constraint of its own: the two are committed together, and the lock on
\* the action orders the processes that look for its event.
OneEventPerAction ==
    \A k \in Keys : events[k] = IF \E a \in actions : KeyOf(a) = k THEN 1 ELSE 0

\* The adjusted prices of a symbol all come from one rebuild, although each
\* rebuild deletes and inserts in separate statements.
OneRebuild ==
    \A s \in Symbols : \A x, y \in adjusted[s] : x.read = y.read

Product(s, from, to) ==
    FoldSet(LAMBDA a, product : a.ratio * product, 1,
            {a \in actions : /\ a.symbol = s /\ a.ratio > 0 /\ a.type \in SplitTypes
                             /\ from < a.date /\ a.date <= to})

\* "Materialized only from explicit, positive, split-like ratios" (README.md):
\* unless candles or actions changed since the rebuild read them, the factors of
\* two dates differ by exactly the splits between them, the ex-date included, and
\* a date after the last split is not adjusted.
FactorsFollowSplits ==
    \A s \in Symbols : \A x \in adjusted[s] :
        x.read[2] = version[s] =>
            /\ \A y \in adjusted[s] :
                  x.date < y.date => x.factor = y.factor * Product(s, x.date, y.date)
            /\ (\A a \in actions : a.symbol = s => a.date <= x.date) => x.factor = 1
            /\ {y.date : y \in adjusted[s]} = candles[s]
===============================================================================
