--------------------------- MODULE DailyStagesProofs ---------------------------
(***************************************************************************)
(* Theorems about DailyStages, and so about the two pipelines of DateTables*)
(* as the commands run them: for any names, payloads, dates, runs, faults, *)
(* revisions and imports.                                                  *)
(***************************************************************************)
EXTENDS DailyStages, FiniteSetTheorems, WellFoundedInduction, TLAPS

-------------------------------------------------------------------------------
(* Where an update starts                                                  *)

\* A finite set of dates that is not empty has a last one, max(trade_date): the
\* one whose later dates are fewest.
LEMMA Latest ==
    ASSUME NEW S \in SUBSET Int, IsFiniteSet(S), S # {}
    PROVE  \E d \in S : \A e \in S : e <= d
  <1> DEFINE After(d) == {e \in S : d < e}
             T == {After(d) : d \in S}
  <1>1. T \subseteq FiniteSubsetsOf(S) /\ T # {}
    <2>1. \A d \in S : After(d) \subseteq S
      OBVIOUS
    <2> HIDE DEF After
    <2>2. \A d \in S : IsFiniteSet(After(d))
      BY <2>1, FS_Subset
    <2> QED
      BY <2>1, <2>2 DEF FiniteSubsetsOf
  <1>2. PICK d \in S :
            \A e \in S : <<After(e), After(d)>> \notin StrictSubsetOrdering(S)
    <2>1. PICK X \in T : \A Y \in T : <<Y, X>> \notin StrictSubsetOrdering(S)
      <3> HIDE DEF T
      <3> QED
        BY <1>1, FS_StrictSubsetOrderingWellFounded, WFMin
    <2> HIDE DEF After
    <2> QED
      BY <2>1
  <1>3. ASSUME NEW e \in S, ~(e <= d)
        PROVE  FALSE
    <2>1. d \in Int /\ e \in Int /\ d < e
      BY <1>3
    <2>2. \A x \in S : e < x => d < x
      BY <2>1
    <2>3. After(e) \subseteq After(d) /\ After(e) # After(d) /\ After(d) \subseteq S
      BY <2>1, <2>2, ~(e < e)
    <2> HIDE DEF After
    <2> QED
      BY <1>2, <2>3 DEF StrictSubsetOrdering
  <1> QED
    BY <1>3

\* next_market_start is the day after the last candle.
LEMMA StartsBehindCandles ==
    ASSUME candles \subseteq Dates, candles # {}, NEW end
    PROVE  \E l \in candles : /\ \A e \in candles : e <= l
                              /\ NextMarketStart(end) = l + 1
  <1>1. candles \in SUBSET Int /\ IsFiniteSet(candles)
    BY ConstantsAssumption, FS_Subset
  <1>2. \E d \in candles : \A e \in candles : e <= d
    BY <1>1, Latest
  <1> DEFINE l == CHOOSE d \in candles : \A e \in candles : e <= d
  <1>3. l \in candles /\ \A e \in candles : e <= l
    BY <1>2
  <1>4. NextMarketStart(end) = 1 + l
    BY DEF NextMarketStart
  <1> HIDE DEF l
  <1>5. 1 + l = l + 1
    BY <1>1, <1>3
  <1> QED
    BY <1>3, <1>4, <1>5

-------------------------------------------------------------------------------
(* The steps of the pipelines                                              *)

\* What a step of the daily command, of another command or of IDX does to the
\* pipelines' state; a fault of the candle stage only counts.
TableStep ==
    \/ \E start, end \in Int : StartRun(start, end)
    \/ RunStep \/ Die
    \/ \E d \in Dates, rows \in Payloads : Revise(d, rows)
    \/ UNCHANGED <<database, local, idx, scope, covered, revisions>>

\* The ranges of commands are ranges of days.
RangeType == /\ candles \subseteq Dates /\ imported \subseteq Dates
             /\ range[1] \in Int /\ range[2] \in Int
             /\ pending \subseteq Dates

\* At the start nothing is stored.
LEMMA InitRange == DailyInit => RangeType
  BY DEF DailyInit, RangeType

\* A daily update starts the day after a candle, or on its last day.
LEMMA StepRange == RangeType /\ [DailyNext]_dailyVars => RangeType'
  <1> SUFFICES ASSUME RangeType, [DailyNext]_dailyVars
               PROVE  RangeType'
    OBVIOUS
  <1>1. ASSUME NEW end \in EndDates, StartDaily(end)
        PROVE  RangeType'
    <2>1. end \in Int /\ NextMarketStart(end) \in Int
      <3>1. CASE candles = {}
        BY <3>1, EndDatesAssumption, ConstantsAssumption DEF NextMarketStart
      <3>2. CASE candles # {}
        <4>1. PICK l \in candles : NextMarketStart(end) = l + 1
          BY <3>2, StartsBehindCandles DEF RangeType
        <4> QED
          BY <4>1, EndDatesAssumption, ConstantsAssumption DEF RangeType
      <3> QED
        BY <3>1, <3>2
    <2> QED
      BY <1>1, <2>1 DEF StartDaily, RangeType, Weekdays, seen
  <1>2. ASSUME NEW r \in Ranges, StartPipeline(r[1], r[2])
        PROVE  RangeType'
    BY <1>2, ConstantsAssumption DEF StartPipeline, RangeType, seen
  <1>3. ASSUME NEW d \in Dates, CandleDate(d) \/ ImportCandle(d)
        PROVE  RangeType'
    BY <1>3 DEF CandleDate, ImportCandle, RangeType
  <1>4. CASE StartIndexStage \/ IndexStep \/ Kill
    BY <1>4 DEF StartIndexStage, IndexStep, Kill, RangeType, seen
  <1>5. CASE UNCHANGED stageVars
    BY <1>5 DEF stageVars, RangeType, seen
  <1> QED
    BY <1>1, <1>2, <1>3, <1>4, <1>5 DEF DailyNext, DailyRest, dailyVars

\* Every step is one of the pipelines or leaves them alone.
LEMMA StageStep == RangeType /\ [DailyNext]_dailyVars => TableStep
  <1> SUFFICES ASSUME RangeType, [DailyNext]_dailyVars
               PROVE  TableStep
    OBVIOUS
  <1>1. CASE UNCHANGED vars
    BY <1>1 DEF vars, history, TableStep
  <1>2. ASSUME NEW r \in Ranges, StartPipeline(r[1], r[2])
        PROVE  TableStep
    BY <1>2, ConstantsAssumption DEF StartPipeline, TableStep
  <1>3. ASSUME NEW d \in Dates, CandleDate(d)
        PROVE  TableStep
    BY <1>3 DEF CandleDate, TableStep
  <1>4. CASE StartIndexStage
    BY <1>4 DEF StartIndexStage, IndexStart, RangeType, TableStep
  <1>5. CASE IndexStep \/ Kill
    BY <1>5 DEF IndexStep, Kill, TableStep
  <1>6. ASSUME NEW d \in Dates, NEW rows \in Payloads, Revise(d, rows)
        PROVE  TableStep
    BY <1>6 DEF TableStep
  <1> QED
    BY <1>1, <1>2, <1>3, <1>4, <1>5, <1>6
    DEF DailyNext, DailyRest, StartDaily, ImportCandle, dailyVars

-------------------------------------------------------------------------------
(* Types of the pipelines                                                  *)

\* The type invariant without the number of loaded rows, which no property of
\* this module needs.
Typed ==
    /\ summary \in [Keys -> Publications \cup {None}]
    /\ benchmark \in [Keys -> Publications \cup {None}]
    /\ dateErrors \subseteq [run : Runs, date : Dates]
    /\ etlRuns = [r \in Runs |-> etlRuns[r]]
    /\ phase \in {"idle", "launching", "fetching", "persisting"}
    /\ run \in 0 .. MaxRuns
    /\ todo \subseteq Dates /\ chunk \subseteq Dates
    /\ fetched \in [Dates -> [status : {"pending", "ok", "error"},
                             rows : Payloads \cup {<<>>}]]
    /\ failures \in Nat
    /\ published \in [Dates -> Payloads]
    /\ scope \in [Runs -> SUBSET Dates] /\ covered \in [Runs -> SUBSET Dates]

\* What the type of a variable says of a run under way: it has a number, and the
\* dates it persists were answered, with a payload.
Working ==
    /\ phase # "idle" => run \in Runs
    /\ phase = "persisting" => \A d \in chunk : fetched[d].status # "pending"
    /\ \A d \in Dates : fetched[d].status # "pending" => fetched[d].rows \in Payloads

TypeInv == Typed /\ Working

\* The empty tables are well typed.
LEMMA InitTables == DailyInit => TypeInv
  <1> SUFFICES ASSUME DailyInit
               PROVE  TypeInv
    OBVIOUS
  <1>1. Init
    BY DEF DailyInit
  <1>2. /\ NoResult.status = "pending"
        /\ NoResult \in [status : {"pending", "ok", "error"},
                         rows : Payloads \cup {<<>>}]
    BY DEF NoResult
  <1>3. published \in [Dates -> Payloads]
    BY <1>1 DEF Init, Payloads
  <1>4. Typed
    BY <1>1, <1>2, <1>3, ConstantsAssumption DEF Init, Typed
  <1>5. Working
    BY <1>1, <1>2 DEF Init, Working
  <1> QED
    BY <1>4, <1>5 DEF TypeInv

\* A date that is done with leaves the run well typed.
LEMMA NextDateType ==
    ASSUME TypeInv, NEW d \in Dates, IsCurrent(d), NextDate(d)
    PROVE  /\ phase' \in {"idle", "launching", "fetching", "persisting"}
           /\ chunk' \subseteq Dates /\ UNCHANGED <<run, todo, fetched>>
           /\ Working'
  BY DEF TypeInv, Typed, Working, NextDate, IsCurrent

\* A commit writes a publication.
LEMMA CommitType ==
    ASSUME TypeInv, NEW d \in Dates, IsCurrent(d), Committed(d)
    PROVE  /\ <<d, fetched[d].rows>> \in Publications
           /\ summary' \in [Keys -> Publications \cup {None}]
           /\ benchmark' \in [Keys -> Publications \cup {None}]
           /\ covered' \in [Runs -> SUBSET Dates]
  <1>1. fetched[d].rows \in Payloads /\ run \in Runs
    BY DEF TypeInv, Working, IsCurrent
  <1>2. <<d, fetched[d].rows>> \in Publications
    BY <1>1 DEF Publications
  <1>3. covered' \in [Runs -> SUBSET Dates]
    BY <1>1 DEF Committed, TypeInv, Typed
  <1>4. /\ summary' \in [Keys -> Publications \cup {None}]
        /\ benchmark' \in [Keys -> Publications \cup {None}]
    BY <1>2 DEF Committed, Upserted, TypeInv, Typed
  <1> QED
    BY <1>2, <1>3, <1>4

\* A failure is on record for a date of the run.
LEMMA RecordType ==
    ASSUME TypeInv, NEW d \in Dates, IsCurrent(d), RecordFailure(d)
    PROVE  dateErrors' \subseteq [run : Runs, date : Dates] /\ failures' \in Nat
  BY DEF TypeInv, Typed, Working, IsCurrent, RecordFailure

\* The steps on one date keep the types.
LEMMA DateStepType ==
    ASSUME TypeInv, NEW d \in Dates, DateStep(d)
    PROVE  TypeInv'
  <1>1. CASE Fetch(d)
    <2>1. PICK status \in {"ok", "error"} :
              fetched' = [fetched EXCEPT ![d] = [status |-> status,
                                                 rows |-> published[d]]]
      BY <1>1 DEF Fetch
    <2>2. published[d] \in Payloads
      BY DEF TypeInv, Typed
    <2>3. Typed'
      BY <1>1, <2>1, <2>2 DEF Fetch, TypeInv, Typed, database, idx
    <2>4. Working'
      BY <1>1, <2>1, <2>2 DEF Fetch, TypeInv, Typed, Working
    <2> QED
      BY <2>3, <2>4 DEF TypeInv
  <1>2. CASE ProviderFailed(d)
    BY <1>2, NextDateType, RecordType
    DEF ProviderFailed, RecordFailure, TypeInv, Typed, idx, history
  <1>3. CASE UpsertSummary(d) \/ UpsertBenchmarks(d)
    BY <1>3
    DEF UpsertSummary, UpsertBenchmarks, Upsert, TypeInv, Typed, Working,
        database, idx, history
  <1>4. CASE CommitDate(d)
    BY <1>4, NextDateType, CommitType DEF CommitDate, TypeInv, Typed, idx
  <1>5. CASE PersistFails(d)
    BY <1>5, NextDateType, RecordType
    DEF PersistFails, RolledBack, RecordFailure, TypeInv, Typed, idx
  <1>6. CASE CommitUnacknowledged(d)
    BY <1>6, NextDateType, CommitType, RecordType
    DEF CommitUnacknowledged, RecordFailure, TypeInv, Typed, idx
  <1> QED
    BY <1>1, <1>2, <1>3, <1>4, <1>5, <1>6 DEF DateStep

\* So do all steps.
LEMMA StepTables == TypeInv /\ TableStep => TypeInv'
  <1> SUFFICES ASSUME TypeInv, TableStep
               PROVE  TypeInv'
    OBVIOUS
  <1>1. ASSUME NEW start \in Int, NEW end \in Int, StartRun(start, end)
        PROVE  TypeInv'
    <2>1. run + 1 \in Runs
      BY <1>1, ConstantsAssumption DEF StartRun, TypeInv, Typed, Runs
    <2>2. Typed'
      <3>1. etlRuns' = [r \in Runs |-> etlRuns'[r]]
        <4>1. etlRuns' = [etlRuns EXCEPT ![run + 1] = EmptyRun("RUNNING")]
          BY <1>1 DEF StartRun
        <4> QED
          BY <4>1 DEF TypeInv, Typed
      <3>2. run' \in 0 .. MaxRuns
        BY <1>1, <2>1 DEF StartRun, Runs
      <3>3. scope' \in [Runs -> SUBSET Dates] /\ todo' \subseteq Dates
        BY <1>1, <2>1 DEF StartRun, Weekdays, TypeInv, Typed
      <3> QED
        BY <1>1, <3>1, <3>2, <3>3 DEF StartRun, TypeInv, Typed, idx
    <2>3. Working'
      BY <1>1, <2>1 DEF StartRun, TypeInv, Working
    <2> QED
      BY <2>2, <2>3 DEF TypeInv
  <1>2. CASE LaunchChunk
    BY <1>2
    DEF LaunchChunk, FirstChunk, NoResult, TypeInv, Typed, Working, database,
        idx, history
  <1>3. CASE GatherReturns
    BY <1>3
    DEF GatherReturns, TypeInv, Typed, Working, database, idx, history
  <1>4. CASE FinishRun \/ CancelRun
    BY <1>4
    DEF FinishRun, CancelRun, Report, TypeInv, Typed, Working, idx, history
  <1>5. CASE Die
    BY <1>5 DEF Die, TypeInv, Typed, Working, database, idx
  <1>6. ASSUME NEW d \in Dates, NEW rows \in Payloads, Revise(d, rows)
        PROVE  TypeInv'
    BY <1>6 DEF Revise, TypeInv, Typed, Working, database, local
  <1>7. CASE UNCHANGED <<database, local, idx, scope, covered, revisions>>
    BY <1>7 DEF TypeInv, Typed, Working, database, local, idx
  <1> QED
    BY <1>1, <1>2, <1>3, <1>4, <1>5, <1>6, <1>7, DateStepType
    DEF TableStep, RunStep

\* The types hold for ever, those of the commands' ranges included.
LEMMA TypesHold == DailySpec => [](RangeType /\ TypeInv)
  <1>1. RangeType /\ TypeInv /\ [DailyNext]_dailyVars => (RangeType /\ TypeInv)'
    BY StageStep, StepRange, StepTables
  <1> QED
    BY <1>1, InitRange, InitTables, PTL DEF DailySpec

-------------------------------------------------------------------------------
(* Refinement                                                              *)

\* What the board holds, and what a publication writes on it.
Cell(x) == IF x[1] = "summary" THEN summary[x[2]] ELSE benchmark[x[2]]

CellsOf(p) == ({"summary"} \X SummaryKeys(p[2]))
              \cup ({"benchmark"} \X BenchmarkKeys(p[2]))

\* A commit puts its publication into its cells in both tables, and only there.
LEMMA CommitStores ==
    ASSUME TypeInv, NEW d \in Dates, IsCurrent(d), Committed(d)
    PROVE  Board!Next
  <1>1. PICK p \in Publications : p = <<d, fetched[d].rows>>
    BY CommitType
  <1>2. /\ summary' = Upserted(summary, SummaryKeys(p[2]), p)
        /\ benchmark' = Upserted(benchmark, BenchmarkKeys(p[2]), p)
    BY <1>1 DEF Committed
  <1>3. ASSUME NEW x \in Cells
        PROVE  Cell(x)' = IF x \in CellsOf(p) THEN p ELSE Cell(x)
    <2>1. PICK t \in {"summary", "benchmark"}, k \in Keys : x = <<t, k>>
      BY DEF Cells
    <2>2. x[1] = t /\ x[2] = k
      BY <2>1
    <2>3. CASE t = "summary"
      <3>1. x \in CellsOf(p) <=> k \in SummaryKeys(p[2])
        BY <2>1, <2>3 DEF CellsOf
      <3>2. Cell(x)' = summary'[k] /\ Cell(x) = summary[k]
        BY <2>2, <2>3 DEF Cell
      <3> QED
        BY <1>2, <3>1, <3>2 DEF Upserted
    <2>4. CASE t = "benchmark"
      <3>1. x \in CellsOf(p) <=> k \in BenchmarkKeys(p[2])
        BY <2>1, <2>4 DEF CellsOf
      <3>2. Cell(x)' = benchmark'[k] /\ Cell(x) = benchmark[k]
        BY <2>2, <2>4 DEF Cell
      <3> QED
        BY <1>2, <3>1, <3>2 DEF Upserted
    <2> QED
      BY <2>3, <2>4
  <1>4. Board!Store(p)
    BY <1>1, <1>3 DEF Board!Store, Cell, CellsOf
  <1> QED
    BY <1>1, <1>4 DEF Board!Next

\* No step but the commits touches a table.
LEMMA TablesStay ==
    ASSUME TableStep,
           \A d \in Dates : ~CommitDate(d) /\ ~CommitUnacknowledged(d)
    PROVE  UNCHANGED <<summary, benchmark, covered>>
  <1>1. ASSUME NEW d \in Dates, DateStep(d)
        PROVE  UNCHANGED <<summary, benchmark, covered>>
    BY <1>1
    DEF DateStep, Fetch, ProviderFailed, UpsertSummary, UpsertBenchmarks,
        Upsert, PersistFails, RolledBack, RecordFailure, database, history
  <1>2. ASSUME LaunchChunk \/ GatherReturns \/ FinishRun \/ CancelRun \/ Die
        PROVE  UNCHANGED <<summary, benchmark, covered>>
    BY <1>2
    DEF LaunchChunk, GatherReturns, FinishRun, CancelRun, Report, Die,
        database, history
  <1>3. ASSUME NEW start \in Int, NEW end \in Int, StartRun(start, end)
        PROVE  UNCHANGED <<summary, benchmark, covered>>
    BY <1>3 DEF StartRun
  <1>4. ASSUME NEW d \in Dates, NEW rows \in Payloads, Revise(d, rows)
        PROVE  UNCHANGED <<summary, benchmark, covered>>
    BY <1>4 DEF Revise, database
  <1> QED
    BY <1>1, <1>2, <1>3, <1>4 DEF TableStep, RunStep, database

\* BoardSpec: whatever fails or dies, a publication reaches both tables in one
\* step or neither of them.
THEOREM Refinement == DailySpec => BoardSpec
  <1>1. DailyInit => Board!Init
    <2> SUFFICES ASSUME Init
                 PROVE  Board!Init
      BY DEF DailyInit
    <2>1. \A x \in Cells : x[2] \in Keys
      BY DEF Cells
    <2> QED
      BY <2>1 DEF Init, Board!Init
  <1>2. RangeType /\ TypeInv /\ [DailyNext]_dailyVars =>
            [Board!Next]_([x \in Cells |-> IF x[1] = "summary"
                                           THEN summary[x[2]]
                                           ELSE benchmark[x[2]]])
    <2> SUFFICES ASSUME RangeType, TypeInv, [DailyNext]_dailyVars
                 PROVE  Board!Next \/ UNCHANGED <<summary, benchmark>>
      OBVIOUS
    <2>1. ASSUME NEW d \in Dates, CommitDate(d) \/ CommitUnacknowledged(d)
          PROVE  Board!Next
      BY <2>1, CommitStores DEF CommitDate, CommitUnacknowledged
    <2> QED
      BY <2>1, StageStep, TablesStay
  <1> QED
    BY <1>1, <1>2, TypesHold, PTL DEF DailySpec, BoardSpec, Board!Spec
-------------------------------------------------------------------------------
(* No silent gap                                                           *)

\* Every date of the run under way is stored, or failed, or is still to come.
Accountable ==
    \A d \in scope[run] :
        \/ d \in covered[run]
        \/ [run |-> run, date |-> d] \in dateErrors /\ failures > 0
        \/ d \in chunk \cup todo

\* NoSilentGap with what the run under way owes.
GapInv == /\ phase \in {"idle", "launching"} => chunk = {}
          /\ phase # "idle" => etlRuns[run].status = "RUNNING" /\ Accountable
          /\ NoSilentGap

\* While a run is under way, nothing is claimed of it.
LEMMA UnderWay ==
    ASSUME TypeInv, GapInv, phase # "idle",
           UNCHANGED <<etlRuns, run, scope>>, dateErrors \subseteq dateErrors',
           \A r \in Runs : covered[r] \subseteq covered'[r]
    PROVE  NoSilentGap' /\ etlRuns'[run'].status = "RUNNING"
  BY DEF GapInv, NoSilentGap, TypeInv, Working

\* Nor does the account change when only the remaining dates move.
LEMMA SameAccount ==
    ASSUME Accountable, UNCHANGED <<run, scope, covered, dateErrors, failures>>,
           chunk' \cup todo' = chunk \cup todo
    PROVE  Accountable'
  <1> SUFFICES ASSUME NEW d \in scope[run]
               PROVE  \/ d \in covered[run]
                      \/ [run |-> run, date |-> d] \in dateErrors /\ failures > 0
                      \/ d \in chunk' \cup todo'
    BY DEF Accountable
  <1> QED
    BY DEF Accountable

\* A date whose failure is put on record leaves the account balanced.
LEMMA FailureAccounted ==
    ASSUME TypeInv, GapInv, NEW d \in Dates, IsCurrent(d), RecordFailure(d),
           UNCHANGED <<etlRuns, scope>>,
           \A r \in Runs : covered[r] \subseteq covered'[r]
    PROVE  GapInv'
  <1>1. phase # "idle" /\ Accountable /\ run \in Runs
    BY DEF IsCurrent, GapInv, TypeInv, Working
  <1>2. /\ dateErrors' = dateErrors \cup {[run |-> run, date |-> d]}
        /\ failures' > 0 /\ failures' \in Nat
        /\ UNCHANGED <<run, todo>> /\ chunk' = chunk \ {d}
        /\ phase' = IF chunk' = {} THEN "launching" ELSE "persisting"
    BY DEF RecordFailure, NextDate, TypeInv, Typed
  <1>3. ASSUME NEW x \in scope[run]
        PROVE  \/ x \in covered'[run]
               \/ [run |-> run, date |-> x] \in dateErrors'
               \/ x \in chunk' \cup todo'
    BY <1>1, <1>2, <1>3 DEF Accountable
  <1>4. Accountable'
    BY <1>2, <1>3 DEF Accountable
  <1> QED
    BY <1>1, <1>2, <1>4, UnderWay DEF GapInv

\* A stored date does too.
LEMMA CommitAccounted ==
    ASSUME TypeInv, GapInv, NEW d \in Dates, IsCurrent(d), CommitDate(d)
    PROVE  GapInv'
  <1>1. phase # "idle" /\ Accountable /\ run \in Runs
    BY DEF IsCurrent, GapInv, TypeInv, Working
  <1>2. /\ UNCHANGED <<run, todo, dateErrors, etlRuns, failures, scope>>
        /\ chunk' = chunk \ {d}
        /\ phase' = IF chunk' = {} THEN "launching" ELSE "persisting"
    BY DEF CommitDate, NextDate
  <1>3. /\ \A r \in Runs : covered[r] \subseteq covered'[r]
        /\ d \in covered'[run]
    BY <1>1 DEF CommitDate, Committed, TypeInv, Typed
  <1>4. Accountable'
    BY <1>1, <1>2, <1>3 DEF Accountable
  <1> QED
    BY <1>1, <1>2, <1>3, <1>4, UnderWay DEF GapInv

\* A commit keeps what was covered.
LEMMA CommitKeeps ==
    ASSUME TypeInv, NEW d \in Dates, IsCurrent(d), Committed(d)
    PROVE  \A r \in Runs : covered[r] \subseteq covered'[r]
  BY DEF TypeInv, Typed, Working, IsCurrent, Committed

\* The steps on one date.
LEMMA DateStepGap ==
    ASSUME TypeInv, GapInv, NEW d \in Dates, DateStep(d)
    PROVE  GapInv'
  <1>1. CASE Fetch(d) \/ UpsertSummary(d) \/ UpsertBenchmarks(d)
    <2>1. /\ phase # "idle" /\ Accountable
          /\ UNCHANGED <<phase, run, todo, chunk, etlRuns, scope, covered,
                         dateErrors, failures>>
      BY <1>1
      DEF Fetch, UpsertSummary, UpsertBenchmarks, Upsert, IsCurrent, database,
          history, GapInv
    <2> QED
      BY <2>1, SameAccount, UnderWay DEF GapInv
  <1>2. CASE ProviderFailed(d)
    BY <1>2, FailureAccounted DEF ProviderFailed, history
  <1>3. CASE CommitDate(d)
    BY <1>3, CommitAccounted DEF CommitDate
  <1>4. CASE PersistFails(d)
    BY <1>4, FailureAccounted DEF PersistFails, RolledBack
  <1>5. CASE CommitUnacknowledged(d)
    BY <1>5, FailureAccounted, CommitKeeps DEF CommitUnacknowledged
  <1> QED
    BY <1>1, <1>2, <1>3, <1>4, <1>5 DEF DateStep

\* A run ends with the account settled, or says that it did not get there.
LEMMA ReportGap ==
    ASSUME TypeInv, GapInv, FinishRun \/ CancelRun
    PROVE  GapInv'
  <1>1. phase # "idle" /\ Accountable /\ run \in Runs /\ NoSilentGap
    BY DEF FinishRun, CancelRun, GapInv, TypeInv, Working
  <1>2. PICK status \in {"SUCCESS", "PARTIAL", "CANCELLED"} :
            /\ Report(status)
            /\ status # "CANCELLED" => chunk \cup todo = {}
            /\ status = "SUCCESS" => failures = 0
    BY DEF FinishRun, CancelRun, GapInv
  <1>3. /\ etlRuns' = [etlRuns EXCEPT ![run] = [status |-> status,
                           failed |-> failures, rows_loaded |-> loaded]]
        /\ phase' = "idle" /\ chunk' = {}
        /\ UNCHANGED <<run, dateErrors, scope, covered>>
    BY <1>2 DEF Report, FinishRun, CancelRun, history
  <1>4. /\ etlRuns'[run].status = status
        /\ \A r \in Runs \ {run} : etlRuns'[r] = etlRuns[r]
    BY <1>1, <1>3 DEF TypeInv, Typed
  <1>5. ASSUME NEW d \in scope[run], status # "CANCELLED"
        PROVE  \/ d \in covered[run]
               \/ [run |-> run, date |-> d] \in dateErrors /\ status # "SUCCESS"
    BY <1>1, <1>2, <1>5 DEF Accountable
  <1>6. NoSilentGap'
    <2> SUFFICES ASSUME NEW r \in Runs
                 PROVE  /\ etlRuns'[r].status \in {"SUCCESS", "PARTIAL"} =>
                              \A d \in scope[r] \ covered[r] :
                                  [run |-> r, date |-> d] \in dateErrors
                        /\ etlRuns'[r].status = "SUCCESS" => scope[r] \subseteq covered[r]
      BY <1>3 DEF NoSilentGap
    <2>1. CASE r = run
      BY <1>4, <1>5, <2>1
    <2>2. CASE r # run
      BY <1>1, <1>4, <2>2 DEF NoSilentGap
    <2> QED
      BY <2>1, <2>2
  <1> QED
    BY <1>3, <1>6 DEF GapInv

\* All steps keep the account.
LEMMA StepGap == TypeInv /\ GapInv /\ TableStep => GapInv'
  <1> SUFFICES ASSUME TypeInv, GapInv, TableStep
               PROVE  GapInv'
    OBVIOUS
  <1>1. ASSUME NEW start \in Int, NEW end \in Int, StartRun(start, end)
        PROVE  GapInv'
    <2>1. run + 1 \in Runs
      BY <1>1, ConstantsAssumption DEF StartRun, TypeInv, Typed, Runs
    <2>2. /\ phase' = "launching" /\ run' = run + 1 /\ chunk' = {}
          /\ todo' = Weekdays(start, end)
          /\ etlRuns' = [etlRuns EXCEPT ![run + 1] = EmptyRun("RUNNING")]
          /\ scope' = [scope EXCEPT ![run + 1] = Weekdays(start, end)]
          /\ UNCHANGED <<covered, dateErrors>>
      BY <1>1 DEF StartRun, GapInv
    <2>3. EmptyRun("RUNNING").status = "RUNNING"
      BY DEF EmptyRun
    <2>4. /\ etlRuns'[run + 1].status = "RUNNING" /\ scope'[run + 1] = todo'
          /\ \A r \in Runs \ {run + 1} : etlRuns'[r] = etlRuns[r] /\ scope'[r] = scope[r]
      BY <2>1, <2>2, <2>3 DEF TypeInv, Typed
    <2>5. NoSilentGap'
      BY <2>2, <2>4 DEF NoSilentGap, GapInv
    <2>6. Accountable'
      BY <2>2, <2>4 DEF Accountable
    <2> QED
      BY <2>2, <2>4, <2>5, <2>6 DEF GapInv
  <1>2. CASE LaunchChunk
    <2>1. /\ phase # "idle" /\ Accountable /\ chunk = {}
          /\ UNCHANGED <<run, etlRuns, scope, covered, dateErrors, failures>>
          /\ chunk' \subseteq todo /\ todo' = todo \ chunk' /\ phase' = "fetching"
      BY <1>2 DEF LaunchChunk, FirstChunk, database, history, GapInv
    <2>2. chunk' \cup todo' = chunk \cup todo
      BY <2>1
    <2> QED
      BY <2>1, <2>2, SameAccount, UnderWay DEF GapInv
  <1>3. CASE GatherReturns
    <2>1. /\ phase # "idle" /\ Accountable /\ phase' = "persisting"
          /\ UNCHANGED <<run, todo, chunk, etlRuns, scope, covered, dateErrors,
                         failures>>
      BY <1>3 DEF GatherReturns, database, history, GapInv
    <2> QED
      BY <2>1, SameAccount, UnderWay DEF GapInv
  <1>4. CASE Die
    BY <1>4 DEF Die, database, GapInv, NoSilentGap
  <1>5. ASSUME NEW d \in Dates, NEW rows \in Payloads, Revise(d, rows)
        PROVE  GapInv'
    BY <1>5 DEF Revise, database, local, GapInv, NoSilentGap, Accountable
  <1>6. CASE UNCHANGED <<database, local, idx, scope, covered, revisions>>
    BY <1>6 DEF database, local, GapInv, NoSilentGap, Accountable
  <1> QED
    BY <1>1, <1>2, <1>3, <1>4, <1>5, <1>6, DateStepGap, ReportGap
    DEF TableStep, RunStep

\* Nothing has run at the start.
LEMMA InitGap == DailyInit => GapInv
  <1> SUFFICES ASSUME DailyInit
               PROVE  GapInv
    OBVIOUS
  <1>1. /\ phase = "idle" /\ chunk = {}
        /\ etlRuns = [r \in Runs |-> EmptyRun("none")]
    BY DEF DailyInit, Init
  <1>2. EmptyRun("none").status = "none"
    BY DEF EmptyRun
  <1>3. \A r \in Runs : etlRuns[r].status = "none"
    BY <1>1, <1>2
  <1> QED
    BY <1>1, <1>3 DEF GapInv, NoSilentGap

\* The account is kept for ever.
LEMMA GapHolds == DailySpec => [](RangeType /\ TypeInv /\ GapInv)
  <1>1. TypeInv /\ GapInv /\ RangeType /\ [DailyNext]_dailyVars => GapInv'
    BY StageStep, StepGap
  <1> QED
    BY <1>1, InitGap, TypesHold, PTL DEF DailySpec

\* NoSilentGap: for every range, chunk size, payload and fault.
THEOREM NothingSilent == DailySpec => []NoSilentGap
  <1>1. GapInv => NoSilentGap
    BY DEF GapInv
  <1> QED
    BY <1>1, GapHolds, PTL
-------------------------------------------------------------------------------
(* The gaps of the index stage                                             *)

\* A date some run stored or recorded an error for.
Explained(d) ==
    \E r \in Runs : d \in covered[r] \/ [run |-> r, date |-> d] \in dateErrors

\* IndexGapsExplained at every stage: a candle of the command under way is in
\* its range, which the index stage gets too.
StageInv ==
    /\ stage \in {"rest", "candles", "index"}
    /\ stage = "index" <=> phase # "idle"
    /\ stage # "candles" => pending = {}
    /\ pending \subseteq Weekdays(range[1], range[2])
    /\ stage = "index" => scope[run] = Weekdays(range[1], range[2])
    /\ \A d \in candles \ (aborted \cup imported) :
          Explained(d) \/ (stage # "rest" /\ d \in Weekdays(range[1], range[2]))

\* What is explained stays so.
LEMMA StaysExplained ==
    ASSUME TypeInv, TableStep, NEW d, Explained(d)
    PROVE  Explained(d)'
  <1>1. ASSUME NEW x \in Dates, DateStep(x)
        PROVE  /\ \A r \in Runs : covered[r] \subseteq covered'[r]
               /\ dateErrors \subseteq dateErrors'
    BY <1>1, CommitKeeps
    DEF DateStep, Fetch, ProviderFailed, UpsertSummary, UpsertBenchmarks,
        Upsert, CommitDate, PersistFails, CommitUnacknowledged, RolledBack,
        RecordFailure, database, history
  <1>2. CASE ~\E x \in Dates : DateStep(x)
    BY <1>2
    DEF TableStep, RunStep, StartRun, LaunchChunk, GatherReturns, FinishRun,
        CancelRun, Report, Die, Revise, database, history, Explained
  <1> QED
    BY <1>1, <1>2 DEF Explained

\* Only the end of a run makes the pipelines idle, and only the start of one
\* sets its dates.
LEMMA DateStepRuns ==
    ASSUME NEW d \in Dates, DateStep(d)
    PROVE  phase # "idle" /\ phase' # "idle" /\ UNCHANGED <<run, scope>>
  BY DEF DateStep, Fetch, ProviderFailed, UpsertSummary, UpsertBenchmarks,
         Upsert, CommitDate, PersistFails, CommitUnacknowledged, IsCurrent,
         RecordFailure, NextDate, database, history

\* The index stage accounts for every date of its range, unless it is cut short.
LEMMA IndexStepExplains ==
    ASSUME TypeInv, GapInv, StageInv, RangeType, IndexStep
    PROVE  StageInv'
  <1>1. /\ stage = "index" /\ RunStep /\ TableStep
        /\ stage' = IF phase' = "idle" THEN "rest" ELSE "index"
        /\ UNCHANGED <<candles, imported, range, pending>>
        /\ aborted \subseteq aborted'
        /\ CancelRun => aborted' = aborted \cup Weekdays(range[1], range[2])
    BY DEF IndexStep, TableStep, seen
  <1>2. /\ UNCHANGED <<run, scope>> /\ phase # "idle"
        /\ phase' = "idle" => FinishRun \/ CancelRun
    BY <1>1, DateStepRuns
    DEF RunStep, LaunchChunk, GatherReturns, FinishRun, CancelRun, Report, history
  <1>3. \A d \in Dates : Explained(d) => Explained(d)'
    BY <1>1, StaysExplained
  <1>4. ASSUME NEW d \in Weekdays(range[1], range[2]), FinishRun
        PROVE  Explained(d)
    <2>1. d \in scope[run] /\ run \in Runs /\ Accountable
      BY <1>1, <1>2 DEF StageInv, GapInv, TypeInv, Working
    <2>2. chunk \cup todo = {}
      BY <1>4 DEF FinishRun, GapInv
    <2> QED
      BY <2>1, <2>2 DEF Accountable, Explained
  <1>5. ASSUME NEW d \in candles' \ (aborted' \cup imported')
        PROVE  \/ Explained(d)'
               \/ stage' # "rest" /\ d \in Weekdays(range[1], range[2])
    <2>1. d \in Dates /\ d \in candles \ (aborted \cup imported)
      BY <1>1 DEF RangeType
    <2>2. Explained(d) \/ d \in Weekdays(range[1], range[2])
      BY <2>1 DEF StageInv
    <2>3. CASE phase' = "idle"
      BY <1>1, <1>2, <1>3, <1>4, <2>1, <2>2, <2>3
    <2>4. CASE phase' # "idle"
      BY <1>1, <1>3, <2>1, <2>2, <2>4
    <2> QED
      BY <2>3, <2>4
  <1>6. Weekdays(range[1], range[2])' = Weekdays(range[1], range[2])
    BY <1>1 DEF Weekdays
  <1> QED
    BY <1>1, <1>2, <1>5, <1>6 DEF StageInv

\* The stages keep the invariant.
LEMMA StepStages ==
    RangeType /\ TypeInv /\ GapInv /\ StageInv /\ [DailyNext]_dailyVars => StageInv'
  <1> SUFFICES ASSUME RangeType, TypeInv, GapInv, StageInv, [DailyNext]_dailyVars
               PROVE  StageInv'
    OBVIOUS
  <1>1. TableStep
    BY StageStep
  <1>2. \A d \in Dates : Explained(d) => Explained(d)'
    BY <1>1, StaysExplained
  <1>3. ASSUME NEW end \in EndDates, StartDaily(end)
        PROVE  StageInv'
    <2>1. /\ stage = "rest" /\ stage' = "candles"
          /\ range' = <<NextMarketStart(end), end>>
          /\ pending' = Weekdays(NextMarketStart(end), end)
          /\ UNCHANGED <<candles, aborted, imported, phase>>
      BY <1>3 DEF StartDaily, seen, vars, local
    <2>2. Weekdays(range[1], range[2])' = Weekdays(NextMarketStart(end), end)
      BY <2>1 DEF Weekdays
    <2>3. \A d \in candles \ (aborted \cup imported) : Explained(d)'
      BY <1>2, <2>1 DEF StageInv, RangeType
    <2>4. phase' = "idle" /\ pending' = Weekdays(range[1], range[2])'
      BY <2>1, <2>2 DEF StageInv
    <2> QED
      BY <2>1, <2>3, <2>4 DEF StageInv
  <1>4. ASSUME NEW start, NEW end, StartRun(start, end), stage # "index"
        PROVE  /\ phase' # "idle"
               /\ scope'[run'] = Weekdays(start, end)
    <2>1. run + 1 \in Runs
      BY <1>4, ConstantsAssumption DEF StartRun, TypeInv, Typed, Runs
    <2> QED
      BY <1>4, <2>1 DEF StartRun, TypeInv, Typed
  <1>5. ASSUME NEW r \in Ranges, StartPipeline(r[1], r[2])
        PROVE  StageInv'
    <2>1. /\ stage = "rest" /\ stage' = "index" /\ range' = <<r[1], r[2]>>
          /\ pending = {}
          /\ phase' # "idle" /\ scope'[run'] = Weekdays(r[1], r[2])
          /\ UNCHANGED <<candles, aborted, imported, pending>>
      BY <1>4, <1>5 DEF StartPipeline, seen, StageInv
    <2>2. Weekdays(range[1], range[2])' = Weekdays(r[1], r[2])
      BY <2>1 DEF Weekdays
    <2>3. \A d \in candles \ (aborted \cup imported) : Explained(d)'
      BY <1>2, <2>1 DEF StageInv, RangeType
    <2> QED
      BY <2>1, <2>2, <2>3 DEF StageInv
  <1>6. CASE StartIndexStage
    <2>1. /\ stage = "candles" /\ stage' = "index" /\ pending = {}
          /\ phase' # "idle" /\ scope'[run'] = Weekdays(range[1], range[2])
          /\ UNCHANGED <<candles, aborted, imported, pending, range>>
      BY <1>4, <1>6 DEF StartIndexStage, IndexStart, seen
    <2>2. Weekdays(range[1], range[2])' = Weekdays(range[1], range[2])
      BY <2>1 DEF Weekdays
    <2> QED
      BY <1>2, <2>1, <2>2 DEF StageInv, RangeType
  <1>7. ASSUME NEW d \in Dates, CandleDate(d)
        PROVE  StageInv'
    <2>1. /\ stage = "candles" /\ d \in pending /\ candles' \subseteq candles \cup {d}
          /\ pending' \subseteq pending
          /\ UNCHANGED <<stage, phase, run, scope, covered, dateErrors, range,
                         aborted, imported>>
      BY <1>7 DEF CandleDate, database, local
    <2>2. d \in Weekdays(range[1], range[2])
      BY <2>1 DEF StageInv
    <2>3. Weekdays(range[1], range[2])' = Weekdays(range[1], range[2])
      BY <2>1 DEF Weekdays
    <2> QED
      BY <2>1, <2>2, <2>3 DEF StageInv, Explained
  <1>8. ASSUME NEW d \in Dates, ImportCandle(d)
        PROVE  StageInv'
    BY <1>8 DEF ImportCandle, StageInv, Explained, Weekdays, vars, database,
                local, history
  <1>9. CASE Kill
    <2>1. /\ stage' = "rest" /\ pending' = {} /\ phase' = "idle"
          /\ aborted' = aborted \cup Weekdays(range[1], range[2])
          /\ UNCHANGED <<candles, imported, range>>
      BY <1>9 DEF Kill, Die, StageInv, local, seen
    <2>2. \A d \in candles \ (aborted' \cup imported) : Explained(d)'
      BY <1>2, <2>1 DEF StageInv, RangeType
    <2> QED
      BY <2>1, <2>2 DEF StageInv
  <1>10. ASSUME NEW d \in Dates, NEW rows \in Payloads, Revise(d, rows),
                UNCHANGED stageVars
         PROVE  StageInv'
    BY <1>10 DEF Revise, stageVars, seen, StageInv, Explained, Weekdays,
                 database, local
  <1>11. CASE UNCHANGED dailyVars
    BY <1>11 DEF dailyVars, stageVars, seen, vars, StageInv, Explained, Weekdays,
                 database, local, history
  <1> QED
    BY <1>3, <1>5, <1>6, <1>7, <1>8, <1>9, <1>10, <1>11, IndexStepExplains
    DEF DailyNext, DailyRest

\* IndexGapsExplained: for every history of commands, faults and imports.
THEOREM IndexExplained == DailySpec => []IndexGapsExplained
  <1>1. DailyInit => StageInv
    BY DEF DailyInit, Init, StageInv
  <1>2. StageInv => IndexGapsExplained
    BY DEF StageInv, IndexGapsExplained, Explained
  <1> QED
    BY <1>1, <1>2, StepStages, GapHolds, PTL DEF DailySpec

-------------------------------------------------------------------------------
(* The gaps of the candle stage                                            *)

\* Was the date worked on, or its command killed, or does an import hide it?
Accounted(d) == d \in visited \cup aborted \/ \E g \in imported : d <= g

\* GapsLieBehindImports at every stage.  The pending dates are the last ones of
\* the range, and behind the candles of the updates.
ImportInv ==
    /\ \A e \in candles \ imported, f \in candles : \A d \in Weekdays(e, f) :
          Accounted(d)
    /\ \A e \in candles \ imported, x \in pending :
          /\ e < x
          /\ \A d \in Weekdays(e, x) : Accounted(d) \/ d \in pending
    /\ \A x \in pending : \A d \in Weekdays(x, range[2]) : d \in pending

\* The dates are numbers.
LEMMA WeekdaysType ==
    ASSUME NEW start, NEW end, NEW d \in Weekdays(start, end)
    PROVE  d \in Dates /\ d \in Int /\ start <= d /\ d <= end
  BY ConstantsAssumption DEF Weekdays

\* A daily update leaves out what lies before its first day: up to the last
\* candle all is accounted for.
LEMMA StartDailyImports ==
    ASSUME RangeType, StageInv, ImportInv, NEW end \in EndDates, StartDaily(end)
    PROVE  ImportInv'
  <1> DEFINE start == NextMarketStart(end)
  <1>1. /\ UNCHANGED <<candles, aborted, visited, imported>>
        /\ pending' = Weekdays(start, end) /\ range'[2] = end
    BY DEF StartDaily, seen
  <1>2. \A d : Accounted(d)' <=> Accounted(d)
    BY <1>1 DEF Accounted
  <1>3. ASSUME NEW e \in candles \ imported, NEW x \in Weekdays(start, end)
        PROVE  /\ e < x
               /\ \A d \in Weekdays(e, x) :
                     Accounted(d) \/ d \in Weekdays(start, end)
    <2>1. PICK l \in candles : /\ \A c \in candles : c <= l
                               /\ start = l + 1
      BY <1>3, StartsBehindCandles DEF RangeType
    <2>2. e \in Int /\ l \in Int /\ x \in Int /\ end \in Int /\ x <= end
      BY <1>3, <2>1, WeekdaysType, ConstantsAssumption, EndDatesAssumption
      DEF RangeType
    <2>3. start <= x /\ e <= l
      BY <1>3, <2>1 DEF Weekdays
    <2>4. e < x
      BY <2>1, <2>2, <2>3
    <2>5. ASSUME NEW d \in Weekdays(e, x)
          PROVE  Accounted(d) \/ d \in Weekdays(start, end)
      <3>1. d \in Dates /\ d \in Int /\ e <= d /\ d <= x /\ d \notin Weekend
        BY <2>5, WeekdaysType DEF Weekdays
      <3>2. CASE d <= l
        <4>1. d \in Weekdays(e, l)
          BY <3>1, <3>2 DEF Weekdays
        <4> QED
          BY <1>3, <2>1, <4>1 DEF ImportInv
      <3>3. CASE ~(d <= l)
        <4>1. l + 1 <= d /\ d <= end
          BY <2>2, <3>1, <3>3
        <4> QED
          BY <2>1, <3>1, <4>1 DEF Weekdays
      <3> QED
        BY <3>2, <3>3
    <2> QED
      BY <2>4, <2>5
  <1>4. ASSUME NEW x \in Weekdays(start, end), NEW d \in Weekdays(x, end)
        PROVE  d \in Weekdays(start, end)
    <2>1. start \in Int
      <3>1. CASE candles = {}
        BY <3>1, EndDatesAssumption, ConstantsAssumption DEF NextMarketStart
      <3>2. CASE candles # {}
        <4>1. PICK l \in candles : NextMarketStart(end) = l + 1
          BY <3>2, StartsBehindCandles DEF RangeType
        <4> QED
          BY <4>1, ConstantsAssumption DEF RangeType
      <3> QED
        BY <3>1, <3>2
    <2>2. x \in Int /\ start <= x
      BY <1>4, WeekdaysType
    <2>3. d \in Dates /\ x <= d /\ d <= end /\ d \notin Weekend
      BY <1>4 DEF Weekdays
    <2>4. start <= d
      <3> HIDE DEF start
      <3>1. d \in Int
        BY <2>3, ConstantsAssumption
      <3> QED
        BY <2>1, <2>2, <2>3, <3>1
    <2> QED
      BY <2>3, <2>4 DEF Weekdays
  <1>5. \A e, f : Weekdays(e, f)' = Weekdays(e, f)
    BY DEF Weekdays
  <1> HIDE DEF start
  <1> QED
    BY <1>1, <1>2, <1>3, <1>4, <1>5 DEF ImportInv
\* A date of the candle stage: it is the first that is pending, and after all
\* candles of the updates.
LEMMA CandleDateImports ==
    ASSUME RangeType, StageInv, ImportInv, NEW x \in Dates, CandleDate(x)
    PROVE  ImportInv'
  <1>1. /\ x \in pending /\ \A y \in pending : x <= y
        /\ pending' = pending \ {x} /\ visited' = visited \cup {x}
        /\ candles' \subseteq candles \cup {x} /\ candles \subseteq candles'
        /\ UNCHANGED <<range, aborted, imported>>
    BY DEF CandleDate
  <1>2. \A d : Accounted(d)' <=> d = x \/ Accounted(d)
    BY <1>1 DEF Accounted
  <1>3. \A e, f : Weekdays(e, f)' = Weekdays(e, f)
    BY DEF Weekdays
  <1>4. /\ pending \subseteq Int /\ candles \subseteq Int /\ x \in Int
        /\ \A y \in pending : x <= y /\ y <= range[2]
    BY <1>1, ConstantsAssumption DEF RangeType, StageInv, Weekdays
  <1>5. ASSUME NEW e \in candles' \ imported, NEW f \in candles',
               NEW d \in Weekdays(e, f), d # x
        PROVE  Accounted(d)
    <2>1. d \in Int /\ e <= d /\ d <= f
      BY <1>5, WeekdaysType
    <2>2. CASE e # x /\ f # x
      BY <1>1, <1>5, <2>2 DEF ImportInv
    <2>3. CASE e # x /\ f = x
      <3>1. e \in candles \ imported
        BY <1>1, <2>3
      <3>2. d \notin pending
        BY <1>1, <1>4, <1>5, <2>1, <2>3
      <3> QED
        BY <1>1, <2>3, <3>1, <3>2 DEF ImportInv
    <2>4. CASE e = x /\ f = x
      BY <1>4, <1>5, <2>1, <2>4
    <2>5. CASE e = x /\ f # x
      <3>1. f \in candles /\ f \in Int
        BY <1>1, <1>4, <2>5
      <3>2. CASE f \in imported
        BY <2>1, <3>2 DEF Accounted
      <3>3. CASE f \notin imported
        <4>1. f < x
          BY <1>1, <3>1, <3>3 DEF ImportInv
        <4> QED
          BY <1>4, <2>1, <2>5, <3>1, <4>1
      <3> QED
        BY <3>2, <3>3
    <2> QED
      BY <2>2, <2>3, <2>4, <2>5
  <1>6. ASSUME NEW e \in candles' \ imported, NEW y \in pending'
        PROVE  /\ e < y
               /\ \A d \in Weekdays(e, y) : d = x \/ Accounted(d) \/ d \in pending'
    <2>1. y \in pending /\ y # x /\ y \in Int /\ x < y
      BY <1>1, <1>4
    <2>2. CASE e # x
      BY <1>1, <2>1, <2>2 DEF ImportInv
    <2>3. CASE e = x
      <3>1. ASSUME NEW d \in Weekdays(x, y)
            PROVE  d \in pending
        <4>1. d \in Dates /\ d \in Int /\ x <= d /\ d <= y /\ d \notin Weekend
          BY WeekdaysType DEF Weekdays
        <4>2. y <= range[2] /\ range[2] \in Int
          BY <1>4, <2>1 DEF RangeType
        <4>3. d \in Weekdays(x, range[2])
          BY <2>1, <4>1, <4>2 DEF Weekdays
        <4> QED
          BY <1>1, <4>3 DEF ImportInv
      <3> QED
        BY <1>1, <2>1, <2>3, <3>1
    <2> QED
      BY <2>2, <2>3
  <1>7. ASSUME NEW y \in pending', NEW d \in Weekdays(y, range[2])
        PROVE  d \in pending'
    <2>1. y \in Int /\ x < y /\ y <= d /\ d \in Int
      BY <1>1, <1>4, <1>7, WeekdaysType
    <2>2. d \in pending /\ d # x
      BY <1>1, <1>4, <1>7, <2>1 DEF ImportInv
    <2> QED
      BY <1>1, <2>2
  <1> QED
    BY <1>1, <1>2, <1>3, <1>5, <1>6, <1>7 DEF ImportInv

\* The stages keep this one too.
LEMMA StepImports ==
    RangeType /\ StageInv /\ ImportInv /\ [DailyNext]_dailyVars => ImportInv'
  <1> SUFFICES ASSUME RangeType, StageInv, ImportInv, [DailyNext]_dailyVars
               PROVE  ImportInv'
    OBVIOUS
  <1>1. \A e, f : Weekdays(e, f)' = Weekdays(e, f)
    BY DEF Weekdays
  <1>2. ASSUME UNCHANGED <<candles, imported>>, visited \subseteq visited',
               aborted \subseteq aborted',
               pending' = {} \/ UNCHANGED <<pending, range>>
        PROVE  ImportInv'
    <2>1. \A d : Accounted(d) => Accounted(d)'
      BY <1>2 DEF Accounted
    <2> QED
      BY <1>1, <1>2, <2>1 DEF ImportInv
  <1>3. ASSUME NEW r \in Ranges, StartPipeline(r[1], r[2])
        PROVE  ImportInv'
    BY <1>2, <1>3 DEF StartPipeline, StageInv, seen
  <1>4. CASE StartIndexStage \/ IndexStep \/ Kill
    BY <1>2, <1>4 DEF StartIndexStage, IndexStep, Kill, seen
  <1>5. ASSUME NEW i \in Dates, ImportCandle(i)
        PROVE  ImportInv'
    <2>1. /\ candles' = candles \cup {i} /\ imported' = imported \cup {i}
          /\ UNCHANGED <<range, pending, aborted, visited>>
      BY <1>5 DEF ImportCandle
    <2>2. \A d : Accounted(d) => Accounted(d)'
      BY <2>1 DEF Accounted
    <2>3. ASSUME NEW e \in candles \ imported, NEW f \in candles',
                 NEW d \in Weekdays(e, f)
          PROVE  Accounted(d)'
      <3>1. CASE f = i
        BY <2>1, <2>3, <3>1, WeekdaysType DEF Accounted
      <3>2. CASE f # i
        BY <2>1, <2>2, <2>3, <3>2 DEF ImportInv
      <3> QED
        BY <3>1, <3>2
    <2>4. candles' \ imported' \subseteq candles \ imported
      BY <2>1
    <2> QED
      BY <1>1, <2>1, <2>2, <2>3, <2>4 DEF ImportInv
  <1>6. CASE UNCHANGED stageVars
    BY <1>2, <1>6 DEF stageVars, seen
  <1> QED
    BY <1>3, <1>4, <1>5, <1>6, StartDailyImports, CandleDateImports
    DEF DailyNext, DailyRest, dailyVars

\* GapsLieBehindImports: for every history of commands, faults and imports.
THEOREM Imports == DailySpec => []GapsLieBehindImports
  <1>1. DailyInit => StageInv /\ ImportInv
    BY DEF DailyInit, Init, StageInv, ImportInv
  <1>2. ImportInv => GapsLieBehindImports
    BY DEF ImportInv, GapsLieBehindImports, Accounted
  <1> QED
    BY <1>1, <1>2, StepStages, StepImports, GapHolds, PTL DEF DailySpec
===============================================================================
