------------------------------ MODULE DateTables ------------------------------
(***************************************************************************)
(* backfill_index_summary of app/pipeline/index_summary.py and             *)
(* backfill_market_broker_summary of app/pipeline/market_broker.py: the    *)
(* same loop over the weekdays of a range, in chunks that are fetched      *)
(* together and persisted one date after the other.  The first writes two  *)
(* tables per date, in one of which COMPOSITE and IHSG are the same row;   *)
(* the second writes one.                                                  *)
(*                                                                         *)
(* A payload is a sequence of rows, for IDX may repeat a name.  A row      *)
(* carries its own date, falls back to the requested one, and may lack a   *)
(* name or a closing price.  A cell holds the publication, the date asked  *)
(* for with its payload, that its row comes from.                          *)
(***************************************************************************)
EXTENDS Integers, FiniteSets, Sequences, Functions

CONSTANTS Names,        \* of indexes and of brokers
          Brokers,      \* the names of brokers
          Aliases,      \* the names that share one benchmark: COMPOSITE, IHSG
          NoName,       \* the name of a row that has none
          Dates, Weekend,
          Ranges,       \* the <<start_date, end_date>> an operator asks for
          IndexPayloads, BrokerPayloads,  \* what IDX may publish for a date
          Concurrency,
          None,
          MaxRuns, MaxFaults, MaxRevisions  \* bounds

Row == [name : Names \cup {NoName}, date : Dates, priced : BOOLEAN]

ASSUME ConstantsAssumption ==
    /\ Brokers \subseteq Names /\ Aliases \subseteq Names \ Brokers
    /\ NoName \notin Names
    /\ Dates \subseteq Int /\ IsFiniteSet(Dates) /\ Weekend \subseteq Dates
    /\ Ranges \subseteq Dates \X Dates
    /\ IndexPayloads \cup BrokerPayloads \subseteq Seq(Row)
    /\ Concurrency \in Nat \ {0}
    /\ MaxRuns \in Nat /\ MaxFaults \in Nat /\ MaxRevisions \in Nat
    /\ None \notin Dates \X (IndexPayloads \cup BrokerPayloads)

VARIABLES
    (* the database *)
    summary,     \* index_summary_daily, or market_broker_summary_daily
    benchmark,   \* benchmark_daily
    dateErrors,  \* data_errors, tagged with the run
    etlRuns,
    (* the local state of a run *)
    phase, run, todo, chunk, fetched,
    tx,          \* the tables written in the open transaction
    loaded, failures,
    (* the provider *)
    benchmarks,  \* the endpoint of the indexes, whose pipeline has two tables
    published,
    (* history *)
    scope, covered, revisions, faults

database == <<summary, benchmark, dateErrors, etlRuns>>
local == <<phase, run, todo, chunk, fetched, tx, loaded, failures>>
idx == <<benchmarks, published>>
history == <<scope, covered, revisions, faults>>
vars == <<database, local, idx, history>>

Runs == 1 .. MaxRuns
Payloads == IndexPayloads \cup BrokerPayloads
Publications == Dates \X Payloads
Keys == Names \X Dates

-------------------------------------------------------------------------------
(* What a payload writes                                                   *)

\* get_index_summary skips a row without a name; a broker row without one makes
\* the whole answer fail.
Parses(rows) == benchmarks \/ \A row \in Range(rows) : row.name # NoName

\* _index_row: an index without a closing price is left out.  Brokers have none,
\* and their rows count as priced.
Kept(rows) == SelectSeq(rows, LAMBDA row : row.name # NoName /\ row.priced)

\* _benchmark_row: the aliases become one benchmark, named by any of them.
IHSG == CHOOSE name \in Aliases : TRUE
BenchmarkOf(name) == IF name \in Aliases THEN IHSG ELSE name

SummaryKeys(rows) == {<<row.name, row.date>> : row \in Range(Kept(rows))}
BenchmarkKeys(rows) == {<<BenchmarkOf(row.name), row.date>> :
                           row \in {r \in Range(Kept(rows)) : r.name \notin Brokers}}

\* An upsert statement that names a key twice is an error in PostgreSQL.
Distinct(keys, rows) == Cardinality(keys) = Len(Kept(rows))

Upserted(table, keys, p) == [k \in Keys |-> IF k \in keys THEN p ELSE table[k]]

-------------------------------------------------------------------------------
Weekdays(start, end) == {d \in Dates : start <= d /\ d <= end} \ Weekend

FirstChunk(days) ==
    {d \in days : Cardinality({e \in days : e < d}) < Concurrency}

IsCurrent(d) == phase = "persisting" /\ d \in chunk /\ \A e \in chunk : d <= e

NoResult == [status |-> "pending", rows |-> <<>>]

EmptyRun(status) == [status |-> status, rows_loaded |-> 0, failed |-> 0]

Init == /\ summary = [k \in Keys |-> None]
        /\ benchmark = [k \in Keys |-> None]
        /\ dateErrors = {}
        /\ etlRuns = [r \in Runs |-> EmptyRun("none")]
        /\ phase = "idle" /\ run = 0 /\ todo = {} /\ chunk = {}
        /\ fetched = [d \in Dates |-> NoResult]
        /\ tx = {} /\ loaded = 0 /\ failures = 0
        /\ benchmarks \in BOOLEAN
        /\ published \in [Dates -> IF benchmarks THEN IndexPayloads ELSE BrokerPayloads]
        /\ scope = [r \in Runs |-> {}]
        /\ covered = [r \in Runs |-> {}]
        /\ revisions = 0 /\ faults = 0

\* The run is on record before it fetches anything.
StartRun(start, end) ==
    /\ phase = "idle" /\ run < MaxRuns /\ start <= end
    /\ phase' = "launching"
    /\ run' = run + 1
    /\ todo' = Weekdays(start, end)
    /\ loaded' = 0 /\ failures' = 0
    /\ etlRuns' = [etlRuns EXCEPT ![run + 1] = EmptyRun("RUNNING")]
    /\ scope' = [scope EXCEPT ![run + 1] = Weekdays(start, end)]
    /\ UNCHANGED <<summary, benchmark, dateErrors, chunk, fetched, tx, idx,
                   covered, revisions, faults>>

LaunchChunk ==
    /\ phase = "launching" /\ todo # {}
    /\ phase' = "fetching"
    /\ chunk' = FirstChunk(todo)
    /\ todo' = todo \ chunk'
    /\ fetched' = [d \in Dates |-> NoResult]
    /\ UNCHANGED <<database, run, tx, loaded, failures, idx, history>>

\* A request fails, or the answer cannot be parsed, or it yields the rows.
Fetch(d) ==
    /\ phase = "fetching" /\ d \in chunk /\ fetched[d].status = "pending"
    /\ \E status \in {"ok", "error"} :
          /\ status = "ok" => Parses(published[d])
          /\ IF status = "error" /\ Parses(published[d])
             THEN faults < MaxFaults /\ faults' = faults + 1
             ELSE UNCHANGED faults
          /\ fetched' = [fetched EXCEPT ![d] = [status |-> status,
                                                rows |-> published[d]]]
    /\ UNCHANGED <<database, phase, run, todo, chunk, tx, loaded, failures,
                   idx, scope, covered, revisions>>

GatherReturns ==
    /\ phase = "fetching" /\ \A d \in chunk : fetched[d].status # "pending"
    /\ phase' = "persisting"
    /\ UNCHANGED <<database, run, todo, chunk, fetched, tx, loaded, failures,
                   idx, history>>

NextDate(d) == /\ chunk' = chunk \ {d}
               /\ tx' = {}
               /\ phase' = IF chunk' = {} THEN "launching" ELSE "persisting"
               /\ UNCHANGED <<run, todo, fetched>>

\* Mutant: the failure is on record, but not counted.
RecordFailureUncounted(d) ==
    /\ dateErrors' = dateErrors \cup {[run |-> run, date |-> d]}
    /\ UNCHANGED failures
    /\ NextDate(d)

RecordFailure(d) == /\ failures' = failures + 1
                    /\ dateErrors' = dateErrors \cup {[run |-> run, date |-> d]}
                    /\ NextDate(d)

ProviderFailed(d) ==
    /\ IsCurrent(d) /\ fetched[d].status = "error"
    /\ RecordFailure(d)
    /\ UNCHANGED <<summary, benchmark, etlRuns, loaded, idx, history>>

\* The upserts of the open transaction.
Upsert(d, table, keys) ==
    /\ IsCurrent(d) /\ fetched[d].status = "ok"
    /\ Distinct(keys, fetched[d].rows)
    /\ tx' = tx \cup {table}
    /\ UNCHANGED <<database, phase, run, todo, chunk, fetched, loaded, failures,
                   idx, history>>

UpsertSummary(d) == tx = {} /\ Upsert(d, "summary", SummaryKeys(fetched[d].rows))

UpsertBenchmarks(d) == /\ benchmarks /\ tx = {"summary"}
                       /\ Upsert(d, "benchmark", BenchmarkKeys(fetched[d].rows))

Complete == tx = IF benchmarks THEN {"summary", "benchmark"} ELSE {"summary"}

\* Mutant: what the transaction wrote before the error is committed.
CommittedEach(d) ==
    LET p == <<d, fetched[d].rows>>
    IN /\ summary' = IF "summary" \in tx THEN Upserted(summary, SummaryKeys(p[2]), p)
                                         ELSE summary
       /\ benchmark' = IF "benchmark" \in tx
                       THEN Upserted(benchmark, BenchmarkKeys(p[2]), p)
                       ELSE benchmark
       /\ UNCHANGED covered

\* A rollback leaves nothing of the open transaction.
RolledBack(d) == UNCHANGED <<summary, benchmark, covered>>

Committed(d) ==
    LET p == <<d, fetched[d].rows>>
    IN /\ summary' = Upserted(summary, SummaryKeys(p[2]), p)
       /\ benchmark' = Upserted(benchmark, BenchmarkKeys(p[2]), p)
       /\ covered' = [covered EXCEPT ![run] = @ \cup {d}]

Counted(d) == Len(Kept(fetched[d].rows))

CommitDate(d) ==
    /\ IsCurrent(d) /\ Complete
    /\ Committed(d)
    /\ loaded' = loaded + Counted(d)
    /\ NextDate(d)
    /\ UNCHANGED <<dateErrors, etlRuns, failures, idx, scope, revisions, faults>>

\* A statement fails, for a reason of its own or because a key came twice.
PersistFails(d) ==
    /\ IsCurrent(d) /\ fetched[d].status = "ok"
    /\ \/ tx = {} /\ ~Distinct(SummaryKeys(fetched[d].rows), fetched[d].rows)
          /\ UNCHANGED faults
       \/ tx = {"summary"} /\ benchmarks
          /\ ~Distinct(BenchmarkKeys(fetched[d].rows), fetched[d].rows)
          /\ UNCHANGED faults
       \/ faults < MaxFaults /\ faults' = faults + 1
    /\ RolledBack(d)
    /\ RecordFailure(d)
    /\ UNCHANGED <<etlRuns, loaded, idx, scope, revisions>>

\* The commit took effect, but its answer was lost.
CommitUnacknowledged(d) ==
    /\ IsCurrent(d) /\ Complete /\ faults < MaxFaults
    /\ Committed(d)
    /\ RecordFailure(d)
    /\ faults' = faults + 1
    /\ UNCHANGED <<etlRuns, loaded, idx, scope, revisions>>

Report(status) ==
    /\ etlRuns' = [etlRuns EXCEPT ![run] = [status |-> status, failed |-> failures,
                                            rows_loaded |-> loaded]]
    /\ phase' = "idle" /\ chunk' = {} /\ todo' = {} /\ tx' = {}
    /\ UNCHANGED <<summary, benchmark, dateErrors, run, fetched, loaded, failures,
                   idx>>

FinishRun == /\ phase = "launching" /\ todo = {}
             /\ Report(IF failures = 0 THEN "SUCCESS" ELSE "PARTIAL")
             /\ UNCHANGED history

\* Ctrl-C is delivered where the loop awaits gather.
CancelRun == /\ phase = "fetching" /\ faults < MaxFaults
             /\ Report("CANCELLED")
             /\ faults' = faults + 1
             /\ UNCHANGED <<scope, covered, revisions>>

\* The process is killed; PostgreSQL drops its transaction.
Die == /\ phase # "idle" /\ faults < MaxFaults
       /\ phase' = "idle" /\ chunk' = {} /\ todo' = {} /\ tx' = {}
       /\ faults' = faults + 1
       /\ UNCHANGED <<database, run, fetched, loaded, failures, idx, scope,
                      covered, revisions>>

\* IDX revises what it published for a date.
Revise(d, rows) == /\ revisions < MaxRevisions /\ published[d] # rows
                   /\ rows \in IF benchmarks THEN IndexPayloads ELSE BrokerPayloads
                   /\ published' = [published EXCEPT ![d] = rows]
                   /\ revisions' = revisions + 1
                   /\ UNCHANGED <<database, local, benchmarks, scope, covered, faults>>

DateStep(d) == \/ Fetch(d) \/ ProviderFailed(d) \/ UpsertSummary(d)
               \/ UpsertBenchmarks(d) \/ CommitDate(d) \/ PersistFails(d)
               \/ CommitUnacknowledged(d)

RunStep == \/ \E d \in Dates : DateStep(d)
           \/ LaunchChunk \/ GatherReturns \/ FinishRun \/ CancelRun

Environment == Die \/ \E d \in Dates, rows \in Payloads : Revise(d, rows)

Rest == phase = "idle" /\ UNCHANGED vars

Next == \/ \E range \in Ranges : StartRun(range[1], range[2])
        \/ RunStep \/ Environment \/ Rest

Spec == Init /\ [][Next]_vars

-------------------------------------------------------------------------------
(* Properties                                                              *)

TypeOK ==
    /\ summary \in [Keys -> Publications \cup {None}]
    /\ benchmark \in [Keys -> Publications \cup {None}]
    /\ dateErrors \subseteq [run : Runs, date : Dates]
    /\ etlRuns \in [Runs -> [status : {"none", "RUNNING", "SUCCESS", "PARTIAL",
                                       "CANCELLED"},
                             rows_loaded : Nat, failed : Nat]]
    /\ phase \in {"idle", "launching", "fetching", "persisting"}
    /\ run \in 0 .. MaxRuns
    /\ todo \subseteq Dates /\ chunk \subseteq Dates
    /\ fetched \in [Dates -> [status : {"pending", "ok", "error"},
                             rows : Payloads \cup {<<>>}]]
    /\ tx \subseteq {"summary", "benchmark"}
    /\ loaded \in Nat /\ failures \in Nat
    /\ benchmarks \in BOOLEAN /\ published \in [Dates -> Payloads]
    /\ scope \in [Runs -> SUBSET Dates] /\ covered \in [Runs -> SUBSET Dates]

Cells == {"summary", "benchmark"} \X Keys

\* One publication of IDX reaches both tables in one step, or neither: the two
\* tables of the code are one board.
Board == INSTANCE PublicationBoard WITH
    Written <- [p \in Publications |->
                   ({"summary"} \X SummaryKeys(p[2]))
                   \cup ({"benchmark"} \X BenchmarkKeys(p[2]))],
    board <- [x \in Cells |-> IF x[1] = "summary" THEN summary[x[2]]
                                                  ELSE benchmark[x[2]]]

BoardSpec == Board!Spec

\* A run that ended by itself stored, or recorded an error for, every weekday of
\* its range; SUCCESS means that all are stored.  A payload with both names of
\* the composite index can never be stored, so it is on record at every run.
NoSilentGap ==
    \A r \in Runs :
        /\ etlRuns[r].status \in {"SUCCESS", "PARTIAL"} =>
              \A d \in scope[r] \ covered[r] : [run |-> r, date |-> d] \in dateErrors
        /\ etlRuns[r].status = "SUCCESS" => scope[r] \subseteq covered[r]
===============================================================================
