---------------------------- MODULE BackfillProofs ----------------------------
(***************************************************************************)
(* Safety of the bulk backfill and of the daily update for every number of *)
(* workers, symbols, dates, payload revisions, runs and faults.  What is   *)
(* said of the dates a daily update leaves out is said of one command at a *)
(* time: two that start on an empty database may load ranges with a gap    *)
(* between them.                                                           *)
(***************************************************************************)
EXTENDS DailyUpdate, FiniteSetTheorems, TLAPS

-------------------------------------------------------------------------------
(* Facts about rows                                                        *)

\* Every set of rows a payload yields is a set of requested symbols.
LEMMA RowsAreRequested ==
    ASSUME NEW rows, NEW requested \in SUBSET Symbols
    PROVE  /\ Selected(rows, requested) \subseteq requested
           /\ TradeRows(rows, requested) \subseteq Selected(rows, requested)
           /\ ValidRows(rows, requested) \subseteq TradeRows(rows, requested)
           /\ ErrorRows(rows, requested) \subseteq TradeRows(rows, requested)
           /\ FlowRows(rows, requested) \subseteq TradeRows(rows, requested)
  BY DEF Selected, TradeRows, ValidRows, ErrorRows, FlowRows

\* Sets of symbols are finite, so their cardinalities are counts.
LEMMA CountsAreNatural ==
    ASSUME NEW rows \in SUBSET Symbols
    PROVE  Cardinality(rows) \in Nat
  BY ConstantsAssumption, FS_Subset, FS_CardinalityType

\* The position of a statement is one of the five before the commit.
LEMMA PositionType ==
    ASSUME NEW t \in Tables
    PROVE  Position[t] \in 1 .. 5
  BY DEF Position, Tables

\* The rows of a statement are symbols.
LEMMA RowsForType ==
    ASSUME NEW w, NEW d, NEW t \in Tables,
           request[w].symbols \in SUBSET Symbols
    PROVE  RowsFor(w, d)[t] \in SUBSET Symbols
  BY RowsAreRequested DEF RowsFor, Tables

\* Writing rows of a legal version keeps a table well typed.
LEMMA WrittenType ==
    ASSUME NEW table \in [Dates -> [Symbols -> 0 .. MaxVersion]],
           NEW d \in Dates, NEW symbols, NEW version \in Versions
    PROVE  Ledger!Written(table, d, symbols, version)
             \in [Dates -> [Symbols -> 0 .. MaxVersion]]
  BY DEF Ledger!Written, Versions

\* A result of fetch_day without records is well typed.
LEMMA NoRecordsType ==
    ASSUME NEW status \in {"pending", "ok", "error"}
    PROVE  NoRecords(status) \in Result
  BY ConstantsAssumption DEF NoRecords, Result, Versions, Payload

-------------------------------------------------------------------------------
(* Types                                                                   *)

\* A worker that is not idle executes one of Runs for one of Requests.
RunAssigned == \A w \in Workers : phase[w] # "idle" =>
                   request[w].run \in Runs /\ request[w].symbols \in Requests

TypeInv == TypeOK /\ RunAssigned

\* The empty database and idle workers are well-typed.
LEMMA InitType == Init => TypeInv
<1> SUFFICES ASSUME Init PROVE TypeInv
  OBVIOUS
<1>1. /\ candles \in [Dates -> [Symbols -> 0 .. MaxVersion]]
      /\ summaries \in [Dates -> [Symbols -> 0 .. MaxVersion]]
      /\ flows \in [Dates -> [Symbols -> 0 .. MaxVersion]]
      /\ stocks \subseteq Symbols /\ rowErrors = {} /\ dateErrors = {}
  BY ConstantsAssumption DEF Init, Ledger!Init, Ledger!Empty
<1>2. /\ fetched \in [Workers -> [Dates -> Result]]
      /\ tx \in [Workers -> [Tables -> SUBSET Symbols]]
      /\ stage \in [Workers -> 1 .. CommitStage]
      /\ request \in [Workers -> [run : Runs \cup {0}, symbols : SUBSET Symbols]]
  BY NoRecordsType DEF Init, NoTransaction, CommitStage
<1>3. /\ etlRuns \in [Runs -> EtlRun]
      /\ published \in [Dates -> [version : Versions, rows : Payloads]]
      /\ counts \in [Workers -> [loaded : Nat, rejected : Nat]]
      /\ faults \in 0 .. MaxFaults
  BY ConstantsAssumption DEF Init, EmptyRun, EtlRun, Versions, NoCounts
<1> QED
  BY <1>1, <1>2, <1>3 DEF Init, TypeInv, TypeOK, RunAssigned

\* What TypeInv says of the worker that takes a step.
LEMMA WorkerFields ==
    ASSUME TypeInv, NEW w \in Workers
    PROVE  /\ phase[w] # "idle" => request[w].run \in Runs
           /\ request[w].symbols \in SUBSET Symbols
           /\ \A d \in Dates : fetched[w][d] \in Result
           /\ \A t \in Tables : /\ tx[w][t] \in SUBSET Symbols
                                /\ Cardinality(tx[w][t]) \in Nat
  BY CountsAreNatural DEF TypeInv, TypeOK, RunAssigned

\* A commit keeps the tables well typed.
LEMMA ApplyType ==
    ASSUME TypeInv, NEW w \in Workers, phase[w] # "idle", NEW d \in Dates,
           ApplyTransaction(w, d)
    PROVE  /\ stocks' \subseteq Symbols
           /\ candles' \in [Dates -> [Symbols -> 0 .. MaxVersion]]
           /\ summaries' \in [Dates -> [Symbols -> 0 .. MaxVersion]]
           /\ flows' \in [Dates -> [Symbols -> 0 .. MaxVersion]]
           /\ rowErrors' \subseteq [date : Dates, symbol : Symbols,
                                    version : Versions]
           /\ covered' \in [Runs -> SUBSET Dates]
           /\ written' \in [Runs -> Nat]
<1>1. fetched[w][d].version \in Versions
  BY WorkerFields DEF Result
<1>2. \A t \in Tables : /\ tx[w][t] \in SUBSET Symbols
                        /\ Cardinality(tx[w][t]) \in Nat
  BY WorkerFields
<1>3. /\ candles' \in [Dates -> [Symbols -> 0 .. MaxVersion]]
      /\ summaries' \in [Dates -> [Symbols -> 0 .. MaxVersion]]
      /\ flows' \in [Dates -> [Symbols -> 0 .. MaxVersion]]
  BY <1>1, WrittenType DEF TypeInv, TypeOK, ApplyTransaction
<1>4. /\ stocks' \subseteq Symbols
      /\ rowErrors' \subseteq [date : Dates, symbol : Symbols,
                               version : Versions]
  BY <1>1, <1>2
     DEF TypeInv, TypeOK, ApplyTransaction, Ledger!RowErrors, Tables
<1>5. request[w].run \in Runs /\ Cardinality(tx[w]["ohlcv"]) \in Nat
  BY WorkerFields DEF Tables
<1>6. covered' \in [Runs -> SUBSET Dates] /\ written' \in [Runs -> Nat]
  BY <1>5 DEF TypeInv, TypeOK, ApplyTransaction
<1> QED
  BY <1>3, <1>4, <1>6

\* A fault keeps the counters of faults well typed.
LEMMA FaultType ==
    ASSUME TypeInv, NEW w \in Workers, phase[w] # "idle", Fault(w)
    PROVE  faults' \in 0 .. MaxFaults /\ charged' \in [Runs -> Nat]
<1>1. faults \in 0 .. MaxFaults /\ MaxFaults \in Nat /\ charged \in [Runs -> Nat]
  BY ConstantsAssumption DEF TypeInv, TypeOK
<1>2. request[w].run \in Runs
  BY WorkerFields
<1> QED
  BY <1>1, <1>2 DEF Fault

\* A process that leaves its run stays well typed.
LEMMA LeaveType ==
    ASSUME TypeInv, NEW w \in Workers, Leave(w)
    PROVE  /\ phase' \in [Workers -> {"idle", "loop", "gather"}]
           /\ request' \in [Workers -> [run : Runs \cup {0},
                                        symbols : SUBSET Symbols]]
           /\ todo' \in [Workers -> SUBSET Dates]
           /\ chunk' \in [Workers -> SUBSET Dates]
           /\ fetched' \in [Workers -> [Dates -> Result]]
           /\ stage' \in [Workers -> 1 .. CommitStage]
           /\ tx' \in [Workers -> [Tables -> SUBSET Symbols]]
           /\ counts' \in [Workers -> [loaded : Nat, rejected : Nat]]
           /\ failures' \in [Workers -> Nat]
           /\ interrupted' \subseteq Workers
           /\ RunAssigned'
<1>1. /\ NoTransaction \in [Tables -> SUBSET Symbols]
      /\ [d \in Dates |-> NoRecords("pending")] \in [Dates -> Result]
      /\ NoCounts \in [loaded : Nat, rejected : Nat]
      /\ 1 \in 1 .. CommitStage
  BY NoRecordsType DEF NoTransaction, NoCounts, CommitStage
<1> QED
  BY <1>1 DEF Leave, TypeInv, TypeOK, RunAssigned

\* A run may start over any range of dates.
LEMMA StartType ==
    ASSUME TypeInv, NEW w \in Workers, NEW range \in Dates \X Dates,
           NEW symbols \in Requests, StartRun(w, range, symbols)
    PROVE  TypeInv'
  BY ConstantsAssumption
  DEF StartRun, EmptyRun, EtlRun, Weekdays, TypeInv, TypeOK, RunAssigned,
      tables, transaction, tally, done, NoFault

\* Each step of a run, of the operator and of IDX preserves the types.
LEMMA StepType == TypeInv /\ [Next]_vars => TypeInv'
<1> SUFFICES ASSUME TypeInv, [Next]_vars PROVE TypeInv'
  OBVIOUS
<1> USE DEF TypeInv, TypeOK, RunAssigned, tables, transaction, tally, done, NoFault
<1>1. ASSUME NEW w \in Workers, LaunchChunk(w) PROVE TypeInv'
  BY <1>1, NoRecordsType DEF LaunchChunk, FirstChunk
<1>2. ASSUME NEW w \in Workers, GatherReturns(w) PROVE TypeInv'
  BY <1>2 DEF GatherReturns
<1>3. ASSUME NEW w \in Workers, CancelRun(w) PROVE TypeInv'
  BY <1>3, LeaveType DEF CancelRun, EmptyRun, EtlRun
<1>4. ASSUME NEW w \in Workers, FinishRun(w) PROVE TypeInv'
  BY <1>4, LeaveType DEF FinishRun, EtlRun
<1>5. ASSUME NEW w \in Workers, NEW d \in Dates, Fetch(w, d) PROVE TypeInv'
  BY <1>5, ConstantsAssumption DEF Fetch, Answer, Result
<1>6. ASSUME NEW w \in Workers, NEW d \in Dates, FetchFails(w, d) PROVE TypeInv'
  BY <1>6, NoRecordsType, FaultType DEF FetchFails, Answer
<1>7. ASSUME NEW w \in Workers, NEW d \in Dates, ProviderFailed(w, d)
      PROVE  TypeInv'
  BY <1>7 DEF ProviderFailed, IsCurrent, RecordFailure, NextDate,
     NoTransaction, CommitStage
<1>8. ASSUME NEW w \in Workers, NEW d \in Dates, NEW t \in Tables,
             Statement(w, d, t)
      PROVE  TypeInv'
  <2>1. tx' \in [Workers -> [Tables -> SUBSET Symbols]]
    <3>1. RowsFor(w, d)[t] \in SUBSET Symbols
      BY RowsForType
    <3> QED
      BY <1>8, <3>1 DEF Statement
  <2>2. stage' \in [Workers -> 1 .. CommitStage]
    <3>1. stage[w] \in 1 .. 5
      BY <1>8, PositionType DEF Statement
    <3> QED
      BY <1>8, <3>1 DEF Statement, CommitStage
  <2> QED
    BY <1>8, <2>1, <2>2 DEF Statement
<1>9. ASSUME NEW w \in Workers, NEW d \in Dates, CommitDate(w, d) PROVE TypeInv'
  <2>1. /\ Cardinality(tx[w]["ohlcv"]) \in Nat
        /\ Cardinality(tx[w]["errors"]) \in Nat
    BY WorkerFields DEF Tables
  <2>2. counts' \in [Workers -> [loaded : Nat, rejected : Nat]]
    BY <1>9, <2>1 DEF CommitDate
  <2>3. phase[w] # "idle" /\ ApplyTransaction(w, d) /\ NextDate(w, d)
    BY <1>9 DEF CommitDate, IsCurrent
  <2>4. /\ chunk' \in [Workers -> SUBSET Dates]
        /\ stage' \in [Workers -> 1 .. CommitStage]
        /\ tx' \in [Workers -> [Tables -> SUBSET Symbols]]
    BY <2>3 DEF NextDate, NoTransaction, CommitStage
  <2> QED
    BY <1>9, <2>2, <2>3, <2>4, ApplyType DEF CommitDate, NextDate
<1>10. ASSUME NEW w \in Workers, NEW d \in Dates, PersistFails(w, d)
       PROVE  TypeInv'
  BY <1>10, FaultType DEF PersistFails, IsCurrent, RecordFailure, NextDate,
     NoTransaction, CommitStage
<1>11. ASSUME NEW w \in Workers, NEW d \in Dates, CommitUnacknowledged(w, d)
       PROVE  TypeInv'
  BY <1>11, ApplyType, FaultType
     DEF CommitUnacknowledged, IsCurrent, RecordFailure, NextDate,
         NoTransaction, CommitStage
<1>12. ASSUME NEW w \in Workers, NEW range \in Ranges,
              NEW symbols \in Requests, StartRun(w, range, symbols)
       PROVE  TypeInv'
  BY <1>12, ConstantsAssumption, StartType
<1>13. ASSUME NEW w \in Workers, Interrupt(w) PROVE TypeInv'
  BY <1>13, FaultType DEF Interrupt
<1>14. ASSUME NEW w \in Workers, Die(w) PROVE TypeInv'
  BY <1>14, LeaveType, FaultType DEF Die
<1>15. ASSUME NEW d \in Dates, NEW rows \in Payloads, Revise(d, rows)
       PROVE  TypeInv'
  BY <1>15, ConstantsAssumption DEF Revise, Versions, local
<1>16. CASE UNCHANGED vars
  BY <1>16 DEF vars, local
<1> QED
  BY <1>1, <1>2, <1>3, <1>4, <1>5, <1>6, <1>7, <1>8, <1>9, <1>10, <1>11,
     <1>12, <1>13, <1>14, <1>15, <1>16
     DEF Next, WorkerStep, OperatorStep, DateStep, Terminated

\* Types, and the run of every worker that is not idle, are kept for ever.
LEMMA TypeInvariant == Spec => []TypeInv
  BY InitType, StepType, PTL DEF Spec

\* Every variable keeps its type.
THEOREM TypeCorrect == Spec => []TypeOK
<1>1. TypeInv => TypeOK
  BY DEF TypeInv
<1> QED
  BY <1>1, TypeInvariant, PTL

-------------------------------------------------------------------------------
(* Transactions                                                            *)

\* An open transaction holds exactly the rows of the statements executed for
\* the current date, all of them from the same fetched payload.
OpenTransaction(w, d) ==
    /\ IsCurrent(w, d) /\ fetched[w][d].status = "ok"
    /\ \A t \in Tables : tx[w][t] = IF Position[t] < stage[w]
                                    THEN RowsFor(w, d)[t] ELSE {}

TxShape == \A w \in Workers : \/ stage[w] = 1 /\ tx[w] = NoTransaction
                              \/ \E d \in Dates : OpenTransaction(w, d)

\* The current date is unique, so an open transaction is about it.
LEMMA CurrentTransaction ==
    ASSUME TypeInv, TxShape, NEW w \in Workers, NEW d \in Dates,
           IsCurrent(w, d), fetched[w][d].status = "ok"
    PROVE  OpenTransaction(w, d)
<1>1. CASE stage[w] = 1 /\ tx[w] = NoTransaction
  BY <1>1, PositionType DEF OpenTransaction, NoTransaction
<1>2. CASE \E e \in Dates : OpenTransaction(w, e)
  <2> PICK e \in Dates : OpenTransaction(w, e)
    BY <1>2
  <2>1. e = d
    <3>1. d \in Int /\ e \in Int /\ d <= e /\ e <= d
      BY ConstantsAssumption DEF OpenTransaction, IsCurrent
    <3> QED
      BY <3>1
  <2> QED
    BY <2>1
<1> QED
  BY <1>1, <1>2 DEF TxShape

\* No statement violates a foreign key: the stocks come first.
LEMMA ForeignKeysHold ==
    ASSUME TypeInv, TxShape, NEW w \in Workers, NEW d \in Dates,
           NEW t \in Tables, IsCurrent(w, d), fetched[w][d].status = "ok",
           stage[w] = Position[t]
    PROVE  ForeignKeyHolds(w, d, t)
<1> SUFFICES ASSUME t \in {"ohlcv", "summary"}
             PROVE  RowsFor(w, d)[t] \subseteq tx[w]["stocks"]
  BY DEF ForeignKeyHolds
<1>1. tx[w]["stocks"] = RowsFor(w, d)["stocks"]
  BY CurrentTransaction DEF OpenTransaction, Tables, Position
<1>2. request[w].symbols \in SUBSET Symbols
  BY WorkerFields
<1> QED
  BY <1>1, <1>2, RowsAreRequested DEF RowsFor

\* At the start no transaction is open.
LEMMA InitTx == Init => TxShape
  BY DEF Init, TxShape

\* A worker outside the persistence of a date has no open transaction.
LEMMA NoOpenTransaction ==
    ASSUME TxShape, NEW w \in Workers, phase[w] # "loop" \/ chunk[w] = {}
    PROVE  stage[w] = 1 /\ tx[w] = NoTransaction
  BY DEF TxShape, OpenTransaction, IsCurrent

\* A step of w leaves what TxShape says of worker v as it is.
Untouched(v) == /\ phase[v]' = phase[v] /\ chunk[v]' = chunk[v]
                /\ fetched[v]' = fetched[v] /\ request[v]' = request[v]
                /\ stage[v]' = stage[v] /\ tx[v]' = tx[v]

\* Only the worker that takes the step can disturb its transaction.
LEMMA TxFrame ==
    ASSUME TxShape, NEW w \in Workers,
           \A v \in Workers \ {w} : Untouched(v),
           \/ stage[w]' = 1 /\ tx[w]' = NoTransaction
           \/ \E d \in Dates : OpenTransaction(w, d)'
    PROVE  TxShape'
<1>1. \A v \in Workers \ {w}, d \in Dates :
          OpenTransaction(v, d) => OpenTransaction(v, d)'
  BY DEF Untouched, OpenTransaction, IsCurrent, RowsFor
<1>2. ASSUME NEW v \in Workers
      PROVE  \/ stage[v]' = 1 /\ tx[v]' = NoTransaction
             \/ \E d \in Dates : OpenTransaction(v, d)'
  BY <1>1 DEF TxShape, Untouched
<1> QED
  BY <1>2 DEF TxShape, NoTransaction

\* A step that touches no transaction keeps the shape of all.
LEMMA TxUnchanged ==
    ASSUME TxShape, UNCHANGED <<phase, chunk, fetched, request, stage, tx>>
    PROVE  TxShape'
<1>1. \A v \in Workers, d \in Dates :
          OpenTransaction(v, d) => OpenTransaction(v, d)'
  BY DEF OpenTransaction, IsCurrent, RowsFor
<1> QED
  BY <1>1 DEF TxShape, NoTransaction

\* Every step keeps the open transactions about the current date.
LEMMA StepTx == TypeInv /\ TxShape /\ [Next]_vars => TxShape'
<1> SUFFICES ASSUME TypeInv, TxShape, [Next]_vars PROVE TxShape'
  OBVIOUS
<1> USE DEF TypeInv, TypeOK, transaction, Untouched
<1>1. ASSUME NEW w \in Workers, LaunchChunk(w) PROVE TxShape'
  BY <1>1, NoOpenTransaction, TxFrame DEF LaunchChunk
<1>2. ASSUME NEW w \in Workers, GatherReturns(w) PROVE TxShape'
  BY <1>2, NoOpenTransaction, TxFrame DEF GatherReturns
<1>3. ASSUME NEW w \in Workers, Leave(w) PROVE TxShape'
  BY <1>3, TxFrame DEF Leave
<1>4. ASSUME NEW w \in Workers, NEW d \in Dates, NEW result, Answer(w, d, result)
      PROVE  TxShape'
  BY <1>4, NoOpenTransaction, TxFrame DEF Answer
<1>5. ASSUME NEW w \in Workers, NEW d \in Dates, NextDate(w, d)
      PROVE  TxShape'
  BY <1>5, TxFrame DEF NextDate
<1>6. ASSUME NEW w \in Workers, NEW d \in Dates, NEW t \in Tables,
             Statement(w, d, t)
      PROVE  TxShape'
  <2>1. OpenTransaction(w, d)
    BY <1>6, CurrentTransaction DEF Statement
  <2>2. /\ tx[w]' = [tx[w] EXCEPT ![t] = RowsFor(w, d)[t]]
        /\ stage[w]' = Position[t] + 1
    BY <1>6 DEF Statement
  <2>3. \A u \in Tables : Position[u] < stage[w]' <=>
                              Position[u] < Position[t] \/ u = t
    BY <2>2 DEF Tables, Position
  <2>4. RowsFor(w, d)' = RowsFor(w, d) /\ IsCurrent(w, d)'
    BY <1>6 DEF Statement, RowsFor, IsCurrent
  <2>5. \A u \in Tables : tx[w]'[u] = IF Position[u] < stage[w]'
                                      THEN RowsFor(w, d)[u] ELSE {}
    BY <1>6, <2>1, <2>2, <2>3 DEF OpenTransaction, Statement
  <2>6. OpenTransaction(w, d)'
    BY <1>6, <2>4, <2>5 DEF OpenTransaction, Statement
  <2> QED
    BY <1>6, <2>6, TxFrame DEF Statement
<1>7. ASSUME NEW w \in Workers, NEW range \in Ranges,
             NEW symbols \in Requests, StartRun(w, range, symbols)
      PROVE  TxShape'
  BY <1>7, NoOpenTransaction, TxFrame DEF StartRun
<1>8. CASE UNCHANGED local
  BY <1>8, TxUnchanged DEF local
<1>9. ASSUME NEW w \in Workers, Interrupt(w) PROVE TxShape'
  BY <1>9, TxUnchanged DEF Interrupt
<1> HIDE DEF TypeInv, TypeOK, transaction, Untouched
<1>10. ASSUME NEW w \in Workers, NEW d \in Dates, DateStep(w, d)
       PROVE  TxShape'
  <2>1. CASE Fetch(w, d) \/ FetchFails(w, d)
    BY <1>4, <2>1 DEF Fetch, FetchFails
  <2>2. CASE \E t \in Tables : Statement(w, d, t)
    BY <1>6, <2>2
  <2>3. CASE \/ ProviderFailed(w, d) \/ CommitDate(w, d)
             \/ PersistFails(w, d) \/ CommitUnacknowledged(w, d)
    BY <1>5, <2>3
       DEF ProviderFailed, CommitDate, PersistFails, CommitUnacknowledged
  <2> QED
    BY <1>10, <2>1, <2>2, <2>3 DEF DateStep
<1>11. ASSUME NEW w \in Workers, WorkerStep(w) PROVE TxShape'
  <2>1. CASE CancelRun(w) \/ FinishRun(w)
    BY <1>3, <2>1 DEF CancelRun, FinishRun
  <2> QED
    BY <1>1, <1>2, <1>10, <1>11, <2>1 DEF WorkerStep
<1>12. ASSUME NEW w \in Workers, OperatorStep(w) PROVE TxShape'
  <2>1. CASE Die(w)
    BY <1>3, <2>1 DEF Die
  <2> QED
    BY <1>7, <1>9, <1>12, <2>1 DEF OperatorStep
<1>13. ASSUME NEW d \in Dates, NEW rows \in Payloads, Revise(d, rows)
       PROVE  TxShape'
  BY <1>8, <1>13 DEF Revise
<1>14. CASE UNCHANGED vars
  BY <1>8, <1>14 DEF vars
<1> QED
  BY <1>11, <1>12, <1>13, <1>14 DEF Next, Terminated

-------------------------------------------------------------------------------
(* Refinement                                                              *)

\* The ledger keeps the same rows of a payload.
LEMMA LedgerRows ==
    ASSUME NEW rows, NEW requested
    PROVE  /\ Ledger!TradeRows(rows, requested) = TradeRows(rows, requested)
           /\ Ledger!ValidRows(rows, requested) = ValidRows(rows, requested)
           /\ Ledger!FlowRows(rows, requested) = FlowRows(rows, requested)
           /\ Ledger!ErrorRows(rows, requested) = ErrorRows(rows, requested)
  BY DEF Ledger!TradeRows, TradeRows, Ledger!ValidRows, ValidRows,
         Ledger!FlowRows, FlowRows, Ledger!ErrorRows, ErrorRows,
         Ledger!Selected, Selected

\* The commit of a date ends a transaction that has executed all statements.
LEMMA CommitIsOpen ==
    ASSUME TypeInv, TxShape, NEW w \in Workers, NEW d \in Dates,
           IsCurrent(w, d), stage[w] = CommitStage
    PROVE  OpenTransaction(w, d)
<1>1. PICK e \in Dates : OpenTransaction(w, e)
  BY DEF TxShape, CommitStage
<1>2. d \in Int /\ e \in Int /\ d <= e /\ e <= d
  BY <1>1, ConstantsAssumption DEF OpenTransaction, IsCurrent
<1> QED
  BY <1>1, <1>2

\* A commit is one load of one payload, the fetched one.
LEMMA CommitLoads ==
    ASSUME TypeInv, TxShape, NEW w \in Workers, NEW d \in Dates,
           IsCurrent(w, d), stage[w] = CommitStage, ApplyTransaction(w, d)
    PROVE  Ledger!Load(d, fetched[w][d].rows, fetched[w][d].version,
                       request[w].symbols)
<1>1. \A t \in Tables : tx[w][t] = RowsFor(w, d)[t]
  BY CommitIsOpen, PositionType DEF OpenTransaction, CommitStage
<1> DEFINE rows == fetched[w][d].rows
           version == fetched[w][d].version
           requested == request[w].symbols
<1>2. /\ tx[w]["stocks"] = TradeRows(rows, requested)
      /\ tx[w]["ohlcv"] = ValidRows(rows, requested)
      /\ tx[w]["summary"] = TradeRows(rows, requested)
      /\ tx[w]["flow"] = FlowRows(rows, requested)
      /\ tx[w]["errors"] = ErrorRows(rows, requested)
  BY <1>1 DEF RowsFor, Tables
<1> QED
  BY <1>2, LedgerRows DEF Ledger!Load, ApplyTransaction

\* So a commit is a step of the ledger.
LEMMA CommitIsLoad ==
    ASSUME TypeInv, TxShape, NEW w \in Workers, NEW d \in Dates,
           IsCurrent(w, d), stage[w] = CommitStage, ApplyTransaction(w, d)
    PROVE  Ledger!Next
<1> DEFINE rows == fetched[w][d].rows
           version == fetched[w][d].version
           requested == request[w].symbols
<1>1. Ledger!Load(d, rows, version, requested)
  BY CommitLoads
<1>2. rows \in Payload /\ version \in Versions /\ requested \in Requests
  BY WorkerFields DEF Result, TypeInv, RunAssigned, IsCurrent
<1> HIDE DEF rows, version, requested
<1> QED
  BY <1>1, <1>2
     DEF Ledger!Next, Ledger!Versions, Versions, Ledger!Payload, Payload,
         Ledger!Kinds, Kinds

\* Every step of the backfill is a load of one date or leaves the tables alone.
LEMMA StepRefines == TypeInv /\ TxShape /\ [Next]_vars => [Ledger!Next]_tables
<1> SUFFICES ASSUME TypeInv, TxShape, [Next]_vars PROVE [Ledger!Next]_tables
  OBVIOUS
<1>1. ASSUME NEW w \in Workers, NEW d \in Dates,
             CommitDate(w, d) \/ CommitUnacknowledged(w, d)
      PROVE  Ledger!Next
  BY <1>1, CommitIsLoad DEF CommitDate, CommitUnacknowledged
<1>2. ASSUME NEW w \in Workers, NEW d \in Dates, DateStep(w, d)
      PROVE  [Ledger!Next]_tables
  BY <1>1, <1>2 DEF DateStep, Fetch, FetchFails, Answer, ProviderFailed,
     Statement, PersistFails
<1>3. ASSUME NEW w \in Workers,
             LaunchChunk(w) \/ GatherReturns(w) \/ CancelRun(w) \/ FinishRun(w)
      PROVE  UNCHANGED tables
  BY <1>3 DEF LaunchChunk, GatherReturns, CancelRun, FinishRun
<1>4. ASSUME NEW w \in Workers, OperatorStep(w) PROVE UNCHANGED tables
  BY <1>4 DEF OperatorStep, StartRun, Interrupt, Die
<1>5. ASSUME NEW d \in Dates, NEW rows \in Payloads, Revise(d, rows)
      PROVE  UNCHANGED tables
  BY <1>5 DEF Revise
<1>6. CASE UNCHANGED vars
  BY <1>6 DEF vars
<1> QED
  BY <1>2, <1>3, <1>4, <1>5, <1>6 DEF Next, WorkerStep, Terminated

\* The backfill implements the ledger of dates: each date is stored from one
\* snapshot in one atomic step, whatever fails, dies or overlaps.
THEOREM Refinement == Spec => LedgerSpec
<1>1. Init => Ledger!Init
  BY DEF Init
<1> QED
  BY <1>1, InitType, StepType, InitTx, StepTx, StepRefines, PTL
     DEF Spec, LedgerSpec, Ledger!Spec, tables, Ledger!tables

-------------------------------------------------------------------------------
(* The daily tables                                                        *)

\* The cell of table for symbol s on date e after rows of date d were written.
LEMMA WrittenCell ==
    ASSUME NEW table \in [Dates -> [Symbols -> 0 .. MaxVersion]],
           NEW d \in Dates, NEW symbols, NEW version,
           NEW e \in Dates, NEW s \in Symbols
    PROVE  Ledger!Written(table, d, symbols, version)[e][s] =
             IF e = d /\ s \in symbols THEN version ELSE table[e][s]
  BY DEF Ledger!Written

\* Loading a date keeps every row backed and every quarantine recorded.
LEMMA LoadKeepsRows ==
    ASSUME TypeInv, RowsBacked, QuarantineRecorded, Ledger!Next
    PROVE  RowsBacked' /\ QuarantineRecorded'
<1>1. PICK d \in Dates, rows \in Ledger!Payload, version \in Versions, requested \in Requests :
          Ledger!Load(d, rows, version, requested)
  BY DEF Ledger!Next, Ledger!Versions, Versions
<1> DEFINE trade == TradeRows(rows, requested)
           valid == ValidRows(rows, requested)
           flow == FlowRows(rows, requested)
<1>2. /\ valid \subseteq trade /\ flow \subseteq trade
      /\ ErrorRows(rows, requested) = trade \ valid
  BY RowsAreRequested, ConstantsAssumption DEF ErrorRows
<1>3. /\ stocks' = stocks \cup trade
      /\ candles' = Ledger!Written(candles, d, valid, version)
      /\ summaries' = Ledger!Written(summaries, d, trade, version)
      /\ flows' = Ledger!Written(flows, d, flow, version)
      /\ rowErrors' = rowErrors \cup Ledger!RowErrors(d, trade \ valid, version)
  BY <1>1, <1>2, LedgerRows DEF Ledger!Load
<1>4. ASSUME NEW e \in Dates, NEW s \in Symbols
      PROVE  /\ candles[e][s]' = IF e = d /\ s \in valid THEN version
                                                         ELSE candles[e][s]
             /\ summaries[e][s]' = IF e = d /\ s \in trade THEN version
                                                           ELSE summaries[e][s]
             /\ flows[e][s]' = IF e = d /\ s \in flow THEN version
                                                      ELSE flows[e][s]
  <2>1. /\ candles \in [Dates -> [Symbols -> 0 .. MaxVersion]]
        /\ summaries \in [Dates -> [Symbols -> 0 .. MaxVersion]]
        /\ flows \in [Dates -> [Symbols -> 0 .. MaxVersion]]
    BY DEF TypeInv, TypeOK
  <2> HIDE DEF trade, valid, flow
  <2>2. candles[e][s]' = IF e = d /\ s \in valid THEN version ELSE candles[e][s]
    BY <1>3, <2>1, WrittenCell
  <2>3. summaries[e][s]' = IF e = d /\ s \in trade THEN version
                                                  ELSE summaries[e][s]
    BY <1>3, <2>1, WrittenCell
  <2>4. flows[e][s]' = IF e = d /\ s \in flow THEN version ELSE flows[e][s]
    BY <1>3, <2>1, WrittenCell
  <2> QED
    BY <2>2, <2>3, <2>4
<1>5. version \in 1 .. MaxVersion
  BY DEF Versions
<1> HIDE DEF trade, valid, flow
<1>6. RowsBacked'
  BY <1>2, <1>3, <1>4, <1>5 DEF RowsBacked
<1>7. ASSUME NEW e \in Dates, NEW s \in Symbols,
             summaries[e][s]' # candles[e][s]'
      PROVE  [date |-> e, symbol |-> s, version |-> summaries[e][s]'] \in rowErrors'
  <2>1. CASE e = d /\ s \in trade
    <3>1. s \in trade \ valid /\ summaries[e][s]' = version
      BY <1>4, <1>7, <2>1
    <3> QED
      BY <1>3, <2>1, <3>1 DEF Ledger!RowErrors
  <2>2. CASE ~(e = d /\ s \in trade)
    <3>1. /\ summaries[e][s]' = summaries[e][s]
          /\ candles[e][s]' = candles[e][s]
      BY <1>2, <1>4, <2>2
    <3>2. [date |-> e, symbol |-> s, version |-> summaries[e][s]] \in rowErrors
      BY <1>7, <3>1 DEF QuarantineRecorded
    <3> QED
      BY <1>3, <3>1, <3>2
  <2> QED
    BY <2>1, <2>2
<1> QED
  BY <1>6, <1>7 DEF QuarantineRecorded

RowsInv == RowsBacked /\ QuarantineRecorded

\* Stored rows keep their stocks and summaries, quarantined ones their record.
LEMMA RowsInvariant == Spec => []RowsInv
<1>1. Init => RowsInv
  BY DEF Init, RowsInv, RowsBacked, QuarantineRecorded, Ledger!Init, Ledger!Empty
<1>2. TypeInv /\ RowsInv /\ [Ledger!Next]_tables => RowsInv'
  <2>1. TypeInv /\ RowsInv /\ Ledger!Next => RowsInv'
    BY LoadKeepsRows DEF RowsInv
  <2>2. RowsInv /\ UNCHANGED tables => RowsInv'
    BY DEF RowsInv, RowsBacked, QuarantineRecorded, tables
  <2> QED
    BY <2>1, <2>2
<1> QED
  BY <1>1, <1>2, InitType, StepType, InitTx, StepTx, StepRefines, PTL DEF Spec

\* No candle or flow without its summary, no summary without its stock.
THEOREM RowsAlwaysBacked == Spec => []RowsBacked
<1>1. RowsInv => RowsBacked
  BY DEF RowsInv
<1> QED
  BY <1>1, RowsInvariant, PTL

\* A stored summary whose candle is missing or of another payload has its
\* quarantine record.
THEOREM QuarantineAlwaysRecorded == Spec => []QuarantineRecorded
<1>1. RowsInv => QuarantineRecorded
  BY DEF RowsInv
<1> QED
  BY <1>1, RowsInvariant, PTL

-------------------------------------------------------------------------------
(* The rows of etl_runs                                                    *)

\* What the local state of w says of the run it executes: every date of the
\* scope is still to come, committed, or recorded as failed, and the counters
\* count the committed candles.
Progress(w) ==
    LET r == request[w].run
    IN  IF phase[w] = "idle"
        THEN chunk[w] = {} /\ counts[w] = NoCounts /\ failures[w] = 0
        ELSE /\ etlRuns[r].status = "RUNNING"
             /\ todo[w] \cup chunk[w] \subseteq scope[r]
             /\ covered[r] \subseteq scope[r]
             /\ \A d \in scope[r] \ (todo[w] \cup chunk[w]) :
                    d \in covered[r] \/ (/\ failures[w] > 0
                                         /\ [run |-> r, date |-> d] \in dateErrors)
             /\ counts[w].loaded <= written[r]
             /\ failures[w] = 0 => counts[w].loaded = written[r]

\* What is promised of the row of run r.
Settled(r) ==
    /\ etlRuns[r].status = "SUCCESS" =>
         scope[r] = covered[r] /\ etlRuns[r].rows_loaded = written[r]
    /\ etlRuns[r].status = "PARTIAL" =>
         \A d \in scope[r] \ covered[r] : [run |-> r, date |-> d] \in dateErrors
    /\ etlRuns[r].rows_loaded <= written[r]
    /\ etlRuns[r].status = "none" => covered[r] = {} /\ written[r] = 0
    /\ etlRuns[r].status = "RUNNING" => etlRuns[r].rows_loaded = 0

RunInv == /\ \A w \in Workers : Progress(w)
          /\ \A v, w \in Workers :
                 phase[v] # "idle" /\ phase[w] # "idle" /\ v # w =>
                     request[v].run # request[w].run
          /\ \A r \in Runs : Settled(r)

\* At the start there is no run to account for.
LEMMA InitRuns == Init => RunInv
  BY DEF Init, RunInv, Progress, Settled, EmptyRun

SameWorker(v) == /\ phase[v]' = phase[v] /\ request[v]' = request[v]
                 /\ todo[v]' = todo[v] /\ chunk[v]' = chunk[v]
                 /\ counts[v]' = counts[v] /\ failures[v]' = failures[v]

SameRun(q) == /\ etlRuns[q]' = etlRuns[q] /\ scope[q]' = scope[q]
              /\ covered[q]' = covered[q] /\ written[q]' = written[q]

\* A step of worker w about run r disturbs neither the other workers nor the
\* other runs.
LEMMA RunFrame ==
    ASSUME TypeInv, RunInv, NEW w \in Workers, NEW r \in Runs,
           \A v \in Workers \ {w} : SameWorker(v),
           \A v \in Workers \ {w} : phase[v] # "idle" => request[v].run # r,
           \A q \in Runs \ {r} : SameRun(q),
           dateErrors \subseteq dateErrors',
           phase[w]' # "idle" => request[w]'.run = r,
           Progress(w)', Settled(r)'
    PROVE  RunInv'
<1>1. ASSUME NEW v \in Workers \ {w} PROVE Progress(v)'
  <2>1. CASE phase[v] = "idle"
    BY <2>1 DEF RunInv, Progress, SameWorker, NoCounts
  <2>2. CASE phase[v] # "idle"
    <3>1. PICK q \in Runs \ {r} : q = request[v].run
      BY <2>2, WorkerFields
    <3>2. SameRun(q)
      OBVIOUS
    <3>3. SameWorker(v) /\ Progress(v)
      BY DEF RunInv
    <3> QED
      BY <2>2, <3>1, <3>2, <3>3 DEF Progress, SameRun, SameWorker
  <2> QED
    BY <2>1, <2>2
<1>2. ASSUME NEW q \in Runs \ {r} PROVE Settled(q)'
  <2>1. Settled(q) /\ SameRun(q)
    BY DEF RunInv
  <2> QED
    BY <2>1 DEF Settled, SameRun
<1>3. ASSUME NEW u \in Workers, NEW v \in Workers,
             phase[u]' # "idle", phase[v]' # "idle", u # v
      PROVE  request[u]'.run # request[v]'.run
  BY <1>3 DEF RunInv, SameWorker
<1> QED
  BY <1>1, <1>2, <1>3 DEF RunInv

\* A step that is not about any run keeps RunInv.
LEMMA RunUnchanged ==
    ASSUME TypeInv, RunInv,
           UNCHANGED <<phase, request, todo, chunk, counts, failures, etlRuns,
                       scope, covered, written, dateErrors>>
    PROVE  RunInv'
<1>1. \A w \in Workers : Progress(w) => Progress(w)'
  BY DEF Progress
<1>2. \A r \in Runs : Settled(r) => Settled(r)'
  BY DEF Settled
<1> QED
  BY <1>1, <1>2 DEF RunInv

\* The run of a worker that is not idle is nobody else's.
LEMMA OwnRun ==
    ASSUME TypeInv, RunInv, NEW w \in Workers, phase[w] # "idle"
    PROVE  /\ request[w].run \in Runs
           /\ Progress(w) /\ Settled(request[w].run)
           /\ \A v \in Workers \ {w} :
                  phase[v] # "idle" => request[v].run # request[w].run
  BY WorkerFields DEF RunInv

\* Every step keeps the account of the dates and rows of each run.
LEMMA StepRuns == TypeInv /\ RunInv /\ [Next]_vars => RunInv'
<1> SUFFICES ASSUME TypeInv, RunInv, [Next]_vars PROVE RunInv'
  OBVIOUS
<1> USE DEF transaction, tally, done
<1>1. ASSUME NEW w \in Workers, LaunchChunk(w) PROVE RunInv'
  <2>1. PICK r \in Runs :
            /\ r = request[w].run /\ Progress(w) /\ Settled(r)
            /\ \A v \in Workers \ {w} : phase[v] # "idle" => request[v].run # r
    BY <1>1, OwnRun DEF LaunchChunk
  <2>2. /\ phase[w] # "idle" /\ phase[w]' = "gather"
        /\ todo[w]' \cup chunk[w]' = todo[w] \cup chunk[w]
    BY <1>1 DEF LaunchChunk, FirstChunk, TypeInv, TypeOK
  <2>3. Progress(w)' /\ Settled(r)'
    BY <1>1, <2>1, <2>2 DEF LaunchChunk, Progress, Settled
  <2>4. \A v \in Workers \ {w} : SameWorker(v)
    BY <1>1 DEF LaunchChunk, SameWorker, TypeInv, TypeOK
  <2>5. /\ UNCHANGED <<etlRuns, scope, covered, written, dateErrors>>
        /\ request[w]'.run = r
    BY <1>1, <2>1 DEF LaunchChunk
  <2> QED
    BY <2>1, <2>3, <2>4, <2>5, RunFrame DEF SameRun
<1>2. ASSUME NEW w \in Workers, GatherReturns(w) PROVE RunInv'
  <2>1. PICK r \in Runs :
            /\ r = request[w].run /\ Progress(w) /\ Settled(r)
            /\ \A v \in Workers \ {w} : phase[v] # "idle" => request[v].run # r
    BY <1>2, OwnRun DEF GatherReturns
  <2>2. phase[w] = "gather" /\ phase[w]' = "loop"
    BY <1>2 DEF GatherReturns, TypeInv, TypeOK
  <2>3. Progress(w)' /\ Settled(r)'
    BY <1>2, <2>1, <2>2 DEF GatherReturns, Progress, Settled
  <2>4. \A v \in Workers \ {w} : SameWorker(v)
    BY <1>2 DEF GatherReturns, SameWorker, TypeInv, TypeOK
  <2>5. /\ UNCHANGED <<etlRuns, scope, covered, written, dateErrors>>
        /\ request[w]'.run = r
    BY <1>2, <2>1 DEF GatherReturns
  <2> QED
    BY <2>1, <2>3, <2>4, <2>5, RunFrame DEF SameRun
<1>3. ASSUME NEW w \in Workers, CancelRun(w) PROVE RunInv'
  <2>1. PICK r \in Runs :
            /\ r = request[w].run /\ Progress(w) /\ Settled(r)
            /\ \A v \in Workers \ {w} : phase[v] # "idle" => request[v].run # r
    BY <1>3, OwnRun DEF CancelRun
  <2>2. Progress(w)'
    BY <1>3 DEF CancelRun, Leave, Progress, TypeInv, TypeOK
  <2>3. Settled(r)'
    <3>1. written[r] \in Nat
      BY <2>1 DEF TypeInv, TypeOK
    <3>2. /\ etlRuns[r]'.status = "CANCELLED" /\ etlRuns[r]'.rows_loaded = 0
          /\ written' = written
      BY <1>3, <2>1 DEF CancelRun, EmptyRun, TypeInv, TypeOK
    <3> QED
      BY <3>1, <3>2 DEF Settled
  <2>4. /\ \A v \in Workers \ {w} : SameWorker(v)
        /\ \A q \in Runs \ {r} : SameRun(q)
        /\ phase[w]' = "idle" /\ dateErrors' = dateErrors
    BY <1>3, <2>1 DEF CancelRun, Leave, SameWorker, SameRun, TypeInv, TypeOK
  <2> QED
    BY <2>1, <2>2, <2>3, <2>4, RunFrame
<1>4. ASSUME NEW w \in Workers, FinishRun(w) PROVE RunInv'
  <2>1. PICK r \in Runs :
            /\ r = request[w].run /\ Progress(w) /\ Settled(r)
            /\ \A v \in Workers \ {w} : phase[v] # "idle" => request[v].run # r
    BY <1>4, OwnRun DEF FinishRun
  <2>2. Progress(w)'
    BY <1>4 DEF FinishRun, Leave, Progress, TypeInv, TypeOK
  <2>3. /\ etlRuns[r]'.status = IF failures[w] = 0 THEN "SUCCESS" ELSE "PARTIAL"
        /\ etlRuns[r]'.rows_loaded = counts[w].loaded
        /\ UNCHANGED <<scope, covered, written, dateErrors>>
    BY <1>4, <2>1 DEF FinishRun, TypeInv, TypeOK
  <2>4. Settled(r)'
    <3>1. /\ covered[r] \subseteq scope[r]
          /\ \A d \in scope[r] : d \in covered[r] \/
                 (failures[w] > 0 /\ [run |-> r, date |-> d] \in dateErrors)
          /\ counts[w].loaded <= written[r]
          /\ failures[w] = 0 => counts[w].loaded = written[r]
      BY <1>4, <2>1 DEF FinishRun, Progress
    <3>2. CASE failures[w] = 0
      <4>1. scope[r] = covered[r] /\ counts[w].loaded = written[r]
        <5>1. ~(failures[w] > 0)
          BY <3>2
        <5>2. scope[r] \subseteq covered[r]
          BY <3>1, <5>1
        <5> QED
          BY <3>1, <3>2, <5>2
      <4>2. scope[r]' = covered[r]' /\ etlRuns[r]'.rows_loaded = written[r]'
        BY <2>3, <4>1
      <4>3. etlRuns[r]'.status = "SUCCESS" /\ counts[w].loaded <= written[r]
        BY <2>3, <3>1, <3>2
      <4> QED
        BY <2>3, <4>2, <4>3 DEF Settled
    <3>3. CASE failures[w] # 0
      BY <2>3, <3>1, <3>3 DEF Settled
    <3> QED
      BY <3>2, <3>3
  <2>5. /\ \A v \in Workers \ {w} : SameWorker(v)
        /\ \A q \in Runs \ {r} : SameRun(q)
        /\ phase[w]' = "idle" /\ dateErrors' = dateErrors
    BY <1>4, <2>1 DEF FinishRun, Leave, SameWorker, SameRun, TypeInv, TypeOK
  <2> QED
    BY <2>1, <2>2, <2>4, <2>5, RunFrame
<1>5. ASSUME NEW w \in Workers, Die(w) PROVE RunInv'
  <2>1. PICK r \in Runs :
            /\ r = request[w].run /\ Progress(w) /\ Settled(r)
            /\ \A v \in Workers \ {w} : phase[v] # "idle" => request[v].run # r
    BY <1>5, OwnRun DEF Die
  <2>2. Progress(w)'
    BY <1>5 DEF Die, Leave, Progress, TypeInv, TypeOK
  <2>3. Settled(r)'
    BY <1>5, <2>1 DEF Die, Settled
  <2>4. /\ \A v \in Workers \ {w} : SameWorker(v)
        /\ \A q \in Runs \ {r} : SameRun(q)
        /\ phase[w]' = "idle" /\ dateErrors' = dateErrors
    BY <1>5 DEF Die, Leave, SameWorker, SameRun, TypeInv, TypeOK
  <2> QED
    BY <2>1, <2>2, <2>3, <2>4, RunFrame
<1>6. ASSUME NEW w \in Workers, NEW d \in Dates,
             IsCurrent(w, d), NextDate(w, d), RecordFailure(w, d),
             UNCHANGED <<etlRuns, scope, done>>
      PROVE  RunInv'
  <2>1. PICK r \in Runs :
            /\ r = request[w].run /\ Progress(w) /\ Settled(r)
            /\ \A v \in Workers \ {w} : phase[v] # "idle" => request[v].run # r
    BY <1>6, OwnRun DEF IsCurrent
  <2>2. /\ phase[w] = "loop" /\ d \in chunk[w]
        /\ phase' = phase /\ request' = request /\ todo' = todo
        /\ counts' = counts
        /\ chunk[w]' = chunk[w] \ {d} /\ failures[w]' = failures[w] + 1
        /\ dateErrors' = dateErrors \cup {[run |-> r, date |-> d]}
    BY <1>6, <2>1 DEF IsCurrent, NextDate, RecordFailure, TypeInv, TypeOK
  <2>3. failures[w] \in Nat
    BY DEF TypeInv, TypeOK
  <2>4. Progress(w)' /\ Settled(r)'
    BY <1>6, <2>1, <2>2, <2>3 DEF Progress, Settled
  <2>5. /\ \A v \in Workers \ {w} : SameWorker(v)
        /\ \A q \in Runs \ {r} : SameRun(q)
    BY <1>6, <2>2 DEF NextDate, RecordFailure, SameWorker, SameRun, TypeInv, TypeOK
  <2> QED
    BY <2>1, <2>2, <2>4, <2>5, RunFrame
<1>7. ASSUME NEW w \in Workers, NEW d \in Dates, CommitDate(w, d)
      PROVE  RunInv'
  <2>1. PICK r \in Runs :
            /\ r = request[w].run /\ Progress(w) /\ Settled(r)
            /\ \A v \in Workers \ {w} : phase[v] # "idle" => request[v].run # r
    BY <1>7, OwnRun DEF CommitDate, IsCurrent
  <2> DEFINE n == Cardinality(tx[w]["ohlcv"])
  <2>2. /\ phase[w] = "loop" /\ d \in chunk[w]
        /\ phase' = phase /\ request' = request /\ todo' = todo
        /\ failures' = failures /\ scope' = scope
        /\ etlRuns' = etlRuns /\ dateErrors' = dateErrors
        /\ chunk[w]' = chunk[w] \ {d}
    BY <1>7 DEF CommitDate, IsCurrent, NextDate, TypeInv, TypeOK
  <2>3. /\ counts[w]'.loaded = counts[w].loaded + n
        /\ covered[r]' = covered[r] \cup {d} /\ written[r]' = written[r] + n
    BY <1>7, <2>1 DEF CommitDate, ApplyTransaction, TypeInv, TypeOK
  <2>4. n \in Nat /\ counts[w].loaded \in Nat /\ written[r] \in Nat
        /\ etlRuns[r].rows_loaded \in Nat
    BY <2>1, WorkerFields DEF Tables, TypeInv, TypeOK, EtlRun
  <2> HIDE DEF n
  <2>5. etlRuns[r].status = "RUNNING"
    BY <2>1, <2>2 DEF Progress
  <2>6. Progress(w)'
    BY <2>1, <2>2, <2>3, <2>4 DEF Progress
  <2>7. Settled(r)'
    BY <2>1, <2>2, <2>3, <2>4, <2>5 DEF Settled
  <2>8. /\ \A v \in Workers \ {w} : SameWorker(v)
        /\ \A q \in Runs \ {r} : SameRun(q)
    BY <1>7, <2>2, <2>1 DEF CommitDate, ApplyTransaction, NextDate, SameWorker,
       SameRun, TypeInv, TypeOK
  <2> QED
    BY <2>1, <2>2, <2>6, <2>7, <2>8, RunFrame
<1>8. ASSUME NEW w \in Workers, NEW d \in Dates, CommitUnacknowledged(w, d)
      PROVE  RunInv'
  <2>1. PICK r \in Runs :
            /\ r = request[w].run /\ Progress(w) /\ Settled(r)
            /\ \A v \in Workers \ {w} : phase[v] # "idle" => request[v].run # r
    BY <1>8, OwnRun DEF CommitUnacknowledged, IsCurrent
  <2> DEFINE n == Cardinality(tx[w]["ohlcv"])
  <2>2. /\ phase[w] = "loop" /\ d \in chunk[w]
        /\ phase' = phase /\ request' = request /\ todo' = todo
        /\ counts' = counts /\ scope' = scope /\ etlRuns' = etlRuns
        /\ chunk[w]' = chunk[w] \ {d} /\ failures[w]' = failures[w] + 1
        /\ dateErrors' = dateErrors \cup {[run |-> r, date |-> d]}
    BY <1>8, <2>1 DEF CommitUnacknowledged, IsCurrent, NextDate, RecordFailure,
       TypeInv, TypeOK
  <2>3. /\ covered[r]' = covered[r] \cup {d} /\ written[r]' = written[r] + n
    BY <1>8, <2>1 DEF CommitUnacknowledged, ApplyTransaction, TypeInv, TypeOK
  <2>4. n \in Nat /\ counts[w].loaded \in Nat /\ written[r] \in Nat
        /\ failures[w] \in Nat /\ etlRuns[r].rows_loaded \in Nat
    BY <2>1, WorkerFields DEF Tables, TypeInv, TypeOK, EtlRun
  <2> HIDE DEF n
  <2>5. etlRuns[r].status = "RUNNING"
    BY <2>1, <2>2 DEF Progress
  <2>6. Progress(w)'
    BY <2>1, <2>2, <2>3, <2>4 DEF Progress
  <2>7. Settled(r)'
    BY <2>1, <2>2, <2>3, <2>4, <2>5 DEF Settled
  <2>8. /\ \A v \in Workers \ {w} : SameWorker(v)
        /\ \A q \in Runs \ {r} : SameRun(q)
    BY <1>8, <2>2, <2>1 DEF CommitUnacknowledged, ApplyTransaction, NextDate,
       RecordFailure, SameWorker, SameRun, TypeInv, TypeOK
  <2> QED
    BY <2>1, <2>2, <2>6, <2>7, <2>8, RunFrame
<1>9. ASSUME NEW w \in Workers, NEW range \in Ranges,
             NEW symbols \in Requests, StartRun(w, range, symbols)
      PROVE  RunInv'
  <2>1. PICK r \in Runs :
            /\ etlRuns[r].status = "none"
            /\ etlRuns' = [etlRuns EXCEPT ![r] = EmptyRun("RUNNING")]
            /\ request' = [request EXCEPT ![w] = [run |-> r, symbols |-> symbols]]
            /\ scope' = [scope EXCEPT ![r] = Weekdays(range[1], range[2])]
    BY <1>9 DEF StartRun
  <2>2. /\ phase[w] = "idle" /\ phase[w]' = "loop"
        /\ todo[w]' = scope[r]' /\ request[w]'.run = r
        /\ etlRuns[r]'.status = "RUNNING" /\ etlRuns[r]'.rows_loaded = 0
        /\ chunk' = chunk /\ counts' = counts /\ failures' = failures
        /\ covered' = covered /\ written' = written
        /\ dateErrors' = dateErrors
    BY <1>9, <2>1 DEF StartRun, EmptyRun, TypeInv, TypeOK
  <2>3. Progress(w) /\ Settled(r)
    BY DEF RunInv
  <2>4. \A v \in Workers \ {w} : phase[v] # "idle" => request[v].run # r
    BY <2>1 DEF RunInv, Progress
  <2>5. Progress(w)' /\ Settled(r)'
    BY <2>1, <2>2, <2>3 DEF Progress, Settled, NoCounts
  <2>6. /\ \A v \in Workers \ {w} : SameWorker(v)
        /\ \A q \in Runs \ {r} : SameRun(q)
    BY <1>9, <2>1, <2>2 DEF StartRun, SameWorker, SameRun, TypeInv, TypeOK
  <2> QED
    BY <2>2, <2>4, <2>5, <2>6, RunFrame
<1>10. ASSUME NEW w \in Workers, NEW d \in Dates, NEW t \in Tables, NEW result,
              Answer(w, d, result) \/ Statement(w, d, t)
       PROVE  RunInv'
  BY <1>10, RunUnchanged DEF Answer, Statement
<1>11. ASSUME NEW d \in Dates, NEW rows \in Payloads, Revise(d, rows)
       PROVE  RunInv'
  BY <1>11, RunUnchanged DEF Revise, local
<1>12. CASE UNCHANGED vars
  BY <1>12, RunUnchanged DEF vars, local
<1>13. ASSUME NEW w \in Workers, NEW d \in Dates, DateStep(w, d) PROVE RunInv'
  <2>1. "stocks" \in Tables
    BY DEF Tables
  <2> QED
    BY <1>6, <1>7, <1>8, <1>10, <1>13, <2>1
       DEF DateStep, Fetch, FetchFails, ProviderFailed, PersistFails
<1>14. ASSUME NEW w \in Workers, OperatorStep(w) PROVE RunInv'
  <2>1. CASE Interrupt(w)
    BY <2>1, RunUnchanged DEF Interrupt
  <2> QED
    BY <1>5, <1>9, <1>14, <2>1 DEF OperatorStep
<1> QED
  BY <1>1, <1>2, <1>3, <1>4, <1>11, <1>12, <1>13, <1>14
     DEF Next, WorkerStep, Terminated

\* The account of the runs is an invariant of the backfill.
LEMMA RunInvariant == Spec => []RunInv
  BY InitType, StepType, InitRuns, StepRuns, PTL DEF Spec

\* A SUCCESS run committed every weekday of its range, a PARTIAL one committed
\* or recorded each of them: no date is skipped silently.
THEOREM NoSilentGap == Spec => []FinishedRunsLeaveNoGap
<1>1. RunInv => FinishedRunsLeaveNoGap
  BY DEF RunInv, Settled, FinishedRunsLeaveNoGap
<1> QED
  BY <1>1, RunInvariant, PTL

\* rows_loaded never exceeds the candles a run committed and is exact on SUCCESS.
THEOREM ReportsAreHonest == Spec => []ReportedRowsWereWritten
<1>1. RunInv => ReportedRowsWereWritten
  BY DEF RunInv, Settled, ReportedRowsWereWritten
<1> QED
  BY <1>1, RunInvariant, PTL

-------------------------------------------------------------------------------
(* Isolation of failures                                                   *)

\* The fetched failures of the chunk that are not counted yet.
ErrorsAhead(w) == {d \in chunk[w] : fetched[w][d].status = "error"}

\* Every failure counted or about to be counted was charged to the run.
Charge(w) == phase[w] # "idle" =>
    failures[w] + Cardinality(ErrorsAhead(w)) <= charged[request[w].run]

FaultInv == /\ \A w \in Workers : Charge(w)
            /\ \A r \in Runs : etlRuns[r].failed <= charged[r]

\* The failed fetches of a chunk can be counted.
LEMMA ErrorsAreFinite ==
    ASSUME TypeInv, NEW w \in Workers
    PROVE  /\ IsFiniteSet(ErrorsAhead(w))
           /\ Cardinality(ErrorsAhead(w)) \in Nat
<1>1. ErrorsAhead(w) \subseteq Dates
  BY DEF ErrorsAhead, TypeInv, TypeOK
<1> QED
  BY <1>1, ConstantsAssumption, FS_Subset, FS_CardinalityType

\* A step about worker w and run r keeps FaultInv if it keeps it for them:
\* nobody else is charged less or has more failures.
LEMMA FaultFrame ==
    ASSUME TypeInv, RunInv, FaultInv, NEW w \in Workers, NEW r \in Runs,
           \A v \in Workers \ {w} :
               /\ phase[v]' = phase[v] /\ request[v]' = request[v]
               /\ chunk[v]' = chunk[v] /\ fetched[v]' = fetched[v]
               /\ failures[v]' = failures[v],
           \A q \in Runs \ {r} : etlRuns[q]'.failed = etlRuns[q].failed
                                   /\ charged[q]' = charged[q],
           charged[r] <= charged[r]', charged[r]' \in Nat,
           Charge(w)', etlRuns[r]'.failed <= charged[r]'
    PROVE  FaultInv'
<1>1. ASSUME NEW v \in Workers \ {w} PROVE Charge(v)'
  <2> SUFFICES ASSUME phase[v] # "idle" PROVE Charge(v)'
    BY DEF Charge
  <2>1. PICK q \in Runs : q = request[v].run
    BY WorkerFields
  <2> DEFINE n == Cardinality(ErrorsAhead(v))
  <2>2. failures[v] + n <= charged[q]
    BY <2>1 DEF FaultInv, Charge
  <2>3. ErrorsAhead(v)' = ErrorsAhead(v)
    BY DEF ErrorsAhead
  <2>4. n \in Nat /\ failures[v] \in Nat /\ charged[q] \in Nat
    BY ErrorsAreFinite DEF TypeInv, TypeOK
  <2>5. charged[q] <= charged[q]' /\ charged[q]' \in Nat
    <3>1. CASE q = r
      BY <3>1
    <3>2. CASE q # r
      BY <3>2, <2>4
    <3> QED
      BY <3>1, <3>2
  <2>6. failures[v]' = failures[v] /\ request[v]'.run = q
    BY <2>1
  <2> HIDE DEF n
  <2>7. failures[v] + n <= charged[q]'
    BY <2>2, <2>4, <2>5
  <2> QED
    BY <2>3, <2>6, <2>7 DEF Charge, n
<1>2. ASSUME NEW q \in Runs \ {r} PROVE etlRuns[q]'.failed <= charged[q]'
  BY DEF FaultInv
<1> QED
  BY <1>1, <1>2 DEF FaultInv

\* At the start nothing has failed.
LEMMA InitFaults == Init => FaultInv
<1> SUFFICES ASSUME Init PROVE FaultInv
  OBVIOUS
<1> QED
  BY DEF Init, FaultInv, Charge, EmptyRun

\* A step that changes neither failures, nor errors ahead, nor charges.
LEMMA FaultUnchanged ==
    ASSUME FaultInv, UNCHANGED <<phase, request, chunk, failures, charged, etlRuns>>,
           \A w \in Workers : ErrorsAhead(w)' = ErrorsAhead(w)
    PROVE  FaultInv'
  BY DEF FaultInv, Charge

\* The charge of the run of w, before and after a fault of w.
LEMMA FaultCharges ==
    ASSUME TypeInv, NEW w \in Workers, NEW r \in Runs, r = request[w].run
    PROVE  /\ charged[r] \in Nat /\ failures[w] \in Nat
           /\ Fault(w) => charged' = [charged EXCEPT ![r] = charged[r] + 1]
           /\ NoFault => charged' = charged
  BY DEF Fault, NoFault, TypeInv, TypeOK

\* Every failure a step counts was charged to a fault of the same run.
LEMMA StepFaults == TypeInv /\ TxShape /\ RunInv /\ FaultInv /\ [Next]_vars
                        => FaultInv'
<1> SUFFICES ASSUME TypeInv, TxShape, RunInv, FaultInv, [Next]_vars
             PROVE  FaultInv'
  OBVIOUS
<1> USE DEF transaction, tally, done
<1>1. ASSUME NEW w \in Workers, LaunchChunk(w) PROVE FaultInv'
  <2>1. PICK r \in Runs : r = request[w].run
    BY <1>1, WorkerFields DEF LaunchChunk
  <2>2. ErrorsAhead(w) = {} /\ ErrorsAhead(w)' = {}
    <3>1. chunk[w]' \subseteq Dates /\ chunk[w] = {}
      BY <1>1 DEF LaunchChunk, FirstChunk, TypeInv, TypeOK
    <3>2. \A d \in Dates : fetched[w]'[d].status = "pending"
      BY <1>1 DEF LaunchChunk, NoRecords, TypeInv, TypeOK
    <3> QED
      BY <3>1, <3>2 DEF ErrorsAhead
  <2>3. Charge(w)'
    BY <1>1, <2>1, <2>2, FaultCharges
       DEF LaunchChunk, FaultInv, Charge, NoFault
  <2>4. \A v \in Workers \ {w} :
            /\ phase[v]' = phase[v] /\ request[v]' = request[v]
            /\ chunk[v]' = chunk[v] /\ fetched[v]' = fetched[v]
            /\ failures[v]' = failures[v]
    BY <1>1 DEF LaunchChunk, TypeInv, TypeOK
  <2>5. charged' = charged /\ etlRuns' = etlRuns
    BY <1>1 DEF LaunchChunk, NoFault
  <2> QED
    BY <2>1, <2>3, <2>4, <2>5, FaultCharges, FaultFrame DEF FaultInv
<1>2. ASSUME NEW w \in Workers, GatherReturns(w) PROVE FaultInv'
  BY <1>2 DEF GatherReturns, FaultInv, Charge, ErrorsAhead, NoFault, TypeInv, TypeOK
<1>3. ASSUME NEW w \in Workers, CancelRun(w) PROVE FaultInv'
  <2>1. PICK r \in Runs : r = request[w].run
    BY <1>3, WorkerFields DEF CancelRun
  <2>4. /\ \A v \in Workers \ {w} :
               /\ phase[v]' = phase[v] /\ request[v]' = request[v]
               /\ chunk[v]' = chunk[v] /\ fetched[v]' = fetched[v]
               /\ failures[v]' = failures[v]
        /\ phase[w]' = "idle"
    BY <1>3 DEF CancelRun, Leave, TypeInv, TypeOK
  <2>5. etlRuns' = [etlRuns EXCEPT ![r] = EmptyRun("CANCELLED")]
        /\ charged' = charged
    BY <1>3, <2>1 DEF CancelRun, NoFault
  <2>6. etlRuns[r]'.failed = 0
    BY <2>5 DEF EmptyRun, TypeInv, TypeOK
  <2>7. charged[r] \in Nat /\ Charge(w)'
    BY <2>1, <2>4, FaultCharges DEF Charge
  <2>8. \A q \in Runs \ {r} : etlRuns[q]' = etlRuns[q]
    BY <2>5 DEF TypeInv, TypeOK
  <2> QED
    BY <2>4, <2>5, <2>6, <2>7, <2>8, FaultFrame
<1>4. ASSUME NEW w \in Workers, FinishRun(w) PROVE FaultInv'
  <2>1. PICK r \in Runs : r = request[w].run
    BY <1>4, WorkerFields DEF FinishRun
  <2>4. /\ \A v \in Workers \ {w} :
               /\ phase[v]' = phase[v] /\ request[v]' = request[v]
               /\ chunk[v]' = chunk[v] /\ fetched[v]' = fetched[v]
               /\ failures[v]' = failures[v]
        /\ phase[w]' = "idle"
    BY <1>4 DEF FinishRun, Leave, TypeInv, TypeOK
  <2>5. etlRuns[r]'.failed = failures[w] /\ charged' = charged
    BY <1>4, <2>1 DEF FinishRun, NoFault, TypeInv, TypeOK
  <2>6. failures[w] <= charged[r]
    <3>1. ErrorsAhead(w) = {}
      BY <1>4 DEF FinishRun, ErrorsAhead
    <3> QED
      <4>1. failures[w] + Cardinality(ErrorsAhead(w)) <= charged[r]
        BY <1>4, <2>1 DEF FinishRun, FaultInv, Charge
      <4>2. Cardinality(ErrorsAhead(w)) = 0
        BY <3>1, FS_EmptySet
      <4> QED
        BY <2>1, <4>1, <4>2, FaultCharges
  <2>7. charged[r] \in Nat /\ Charge(w)'
    BY <2>1, <2>4, FaultCharges DEF Charge
  <2>8. \A q \in Runs \ {r} : etlRuns[q]' = etlRuns[q]
    BY <1>4, <2>1 DEF FinishRun, TypeInv, TypeOK
  <2> QED
    BY <2>4, <2>5, <2>6, <2>7, <2>8, FaultFrame
<1>5. ASSUME NEW w \in Workers, Die(w) PROVE FaultInv'
  <2>1. PICK r \in Runs : r = request[w].run
    BY <1>5, WorkerFields DEF Die
  <2>4. /\ \A v \in Workers \ {w} :
               /\ phase[v]' = phase[v] /\ request[v]' = request[v]
               /\ chunk[v]' = chunk[v] /\ fetched[v]' = fetched[v]
               /\ failures[v]' = failures[v]
        /\ phase[w]' = "idle"
    BY <1>5 DEF Die, Leave, TypeInv, TypeOK
  <2>5. charged' = [charged EXCEPT ![r] = charged[r] + 1] /\ charged[r] \in Nat
    BY <1>5, <2>1, FaultCharges DEF Die
  <2>6. charged[r]' = charged[r] + 1 /\ \A q \in Runs \ {r} : charged[q]' = charged[q]
    BY <2>5 DEF TypeInv, TypeOK
  <2>7. etlRuns' = etlRuns /\ etlRuns[r].failed <= charged[r]
        /\ etlRuns[r].failed \in Nat
    BY <1>5 DEF Die, FaultInv, TypeInv, TypeOK, EtlRun
  <2>8. Charge(w)'
    BY <2>4 DEF Charge
  <2> QED
    BY <2>4, <2>5, <2>6, <2>7, <2>8, FaultFrame
<1>6. ASSUME NEW w \in Workers, NEW d \in Dates, Fetch(w, d) PROVE FaultInv'
  <2>1. \A v \in Workers : ErrorsAhead(v)' = ErrorsAhead(v)
    BY <1>6 DEF Fetch, Answer, ErrorsAhead, TypeInv, TypeOK
  <2> QED
    BY <1>6, <2>1, FaultUnchanged DEF Fetch, Answer, NoFault
<1>7. ASSUME NEW w \in Workers, NEW d \in Dates, FetchFails(w, d)
      PROVE  FaultInv'
  <2>1. PICK r \in Runs : r = request[w].run
    BY <1>7, WorkerFields DEF FetchFails, Answer
  <2>2. ErrorsAhead(w)' = ErrorsAhead(w) \cup {d} /\ d \notin ErrorsAhead(w)
    BY <1>7 DEF FetchFails, Answer, ErrorsAhead, NoRecords, TypeInv, TypeOK
  <2>3. Cardinality(ErrorsAhead(w)') = Cardinality(ErrorsAhead(w)) + 1
    BY <2>2, ErrorsAreFinite, FS_AddElement
  <2>4. charged' = [charged EXCEPT ![r] = charged[r] + 1] /\ charged[r] \in Nat
    BY <1>7, <2>1, FaultCharges DEF FetchFails
  <2>5. charged[r]' = charged[r] + 1 /\ \A q \in Runs \ {r} : charged[q]' = charged[q]
    BY <2>4 DEF TypeInv, TypeOK
  <2>6. /\ \A v \in Workers \ {w} : fetched[v]' = fetched[v]
        /\ UNCHANGED <<phase, request, chunk, failures, etlRuns>>
        /\ phase[w] # "idle"
    BY <1>7 DEF FetchFails, Answer, TypeInv, TypeOK
  <2>7. failures[w] + Cardinality(ErrorsAhead(w)) <= charged[r]
    BY <2>1, <2>6 DEF FaultInv, Charge
  <2>8. failures[w] + Cardinality(ErrorsAhead(w))' <= charged[r]'
    BY <2>3, <2>4, <2>5, <2>6, <2>7, ErrorsAreFinite, FaultCharges, <2>1
  <2>9. Charge(w)'
    BY <2>1, <2>6, <2>8 DEF Charge
  <2>10. etlRuns[r].failed <= charged[r] /\ etlRuns[r].failed \in Nat
    BY DEF FaultInv, TypeInv, TypeOK, EtlRun
  <2> QED
    BY <2>4, <2>5, <2>6, <2>9, <2>10, FaultFrame
<1>8. ASSUME NEW w \in Workers, NEW d \in Dates, IsCurrent(w, d),
             NextDate(w, d), fetched[w][d].status = "error",
             failures' = [failures EXCEPT ![w] = @ + 1],
             charged' = charged, etlRuns' = etlRuns
      PROVE  FaultInv'
  <2>1. PICK r \in Runs : r = request[w].run
    BY <1>8, WorkerFields DEF IsCurrent
  <2>2. ErrorsAhead(w)' = ErrorsAhead(w) \ {d} /\ d \in ErrorsAhead(w)
    BY <1>8 DEF NextDate, IsCurrent, ErrorsAhead, TypeInv, TypeOK
  <2>3. Cardinality(ErrorsAhead(w)') = Cardinality(ErrorsAhead(w)) - 1
    BY <2>2, ErrorsAreFinite, FS_RemoveElement
  <2>4. failures[w]' = failures[w] + 1 /\ phase' = phase /\ request' = request
    BY <1>8 DEF NextDate, TypeInv, TypeOK
  <2>5. failures[w] + Cardinality(ErrorsAhead(w)) <= charged[r]
    BY <1>8, <2>1 DEF FaultInv, Charge, IsCurrent
  <2>6. failures[w]' + Cardinality(ErrorsAhead(w))' <= charged[r]'
    BY <1>8, <2>1, <2>3, <2>4, <2>5, ErrorsAreFinite, FaultCharges
  <2>7. Charge(w)'
    BY <2>1, <2>4, <2>6 DEF Charge
  <2>8. \A v \in Workers \ {w} :
            /\ phase[v]' = phase[v] /\ request[v]' = request[v]
            /\ chunk[v]' = chunk[v] /\ fetched[v]' = fetched[v]
            /\ failures[v]' = failures[v]
    BY <1>8 DEF NextDate, TypeInv, TypeOK
  <2> QED
    BY <1>8, <2>1, <2>7, <2>8, FaultCharges, FaultFrame DEF FaultInv
<1>9. ASSUME NEW w \in Workers, NEW d \in Dates, IsCurrent(w, d),
             NextDate(w, d), fetched[w][d].status = "ok",
             failures' = [failures EXCEPT ![w] = @ + 1],
             Fault(w), etlRuns' = etlRuns
      PROVE  FaultInv'
  <2>1. PICK r \in Runs : r = request[w].run
    BY <1>9, WorkerFields DEF IsCurrent
  <2>2. ErrorsAhead(w)' = ErrorsAhead(w)
    BY <1>9 DEF NextDate, IsCurrent, ErrorsAhead, TypeInv, TypeOK
  <2>3. charged' = [charged EXCEPT ![r] = charged[r] + 1] /\ charged[r] \in Nat
    BY <1>9, <2>1, FaultCharges
  <2>4. charged[r]' = charged[r] + 1 /\ \A q \in Runs \ {r} : charged[q]' = charged[q]
    BY <2>3 DEF TypeInv, TypeOK
  <2>5. failures[w]' = failures[w] + 1 /\ phase' = phase /\ request' = request
    BY <1>9 DEF NextDate, TypeInv, TypeOK
  <2>6. failures[w] + Cardinality(ErrorsAhead(w)) <= charged[r]
    BY <1>9, <2>1 DEF FaultInv, Charge, IsCurrent
  <2>7. failures[w]' + Cardinality(ErrorsAhead(w)) <= charged[r]'
    BY <2>1, <2>3, <2>4, <2>5, <2>6, ErrorsAreFinite, FaultCharges
  <2>8. Charge(w)'
    BY <2>1, <2>2, <2>5, <2>7 DEF Charge
  <2>9. \A v \in Workers \ {w} :
            /\ phase[v]' = phase[v] /\ request[v]' = request[v]
            /\ chunk[v]' = chunk[v] /\ fetched[v]' = fetched[v]
            /\ failures[v]' = failures[v]
    BY <1>9 DEF NextDate, TypeInv, TypeOK
  <2>10. etlRuns[r].failed <= charged[r] /\ etlRuns[r].failed \in Nat
    BY DEF FaultInv, TypeInv, TypeOK, EtlRun
  <2> QED
    BY <1>9, <2>3, <2>4, <2>8, <2>9, <2>10, FaultFrame
<1>10. ASSUME NEW w \in Workers, NEW d \in Dates, ProviderFailed(w, d)
       PROVE  FaultInv'
  BY <1>8, <1>10 DEF ProviderFailed, RecordFailure, NoFault
<1>11. ASSUME NEW w \in Workers, NEW d \in Dates, PersistFails(w, d)
       PROVE  FaultInv'
  <2>1. Fault(w)
    BY <1>11, ForeignKeysHold DEF PersistFails
  <2> QED
    BY <1>9, <1>11, <2>1 DEF PersistFails, RecordFailure
<1>12. ASSUME NEW w \in Workers, NEW d \in Dates, IsCurrent(w, d),
              stage[w] = CommitStage
       PROVE  fetched[w][d].status = "ok"
  <2>1. PICK e \in Dates : OpenTransaction(w, e)
    BY <1>12 DEF TxShape, CommitStage
  <2>2. d \in Int /\ e \in Int /\ d <= e /\ e <= d
    BY <1>12, <2>1, ConstantsAssumption DEF OpenTransaction, IsCurrent
  <2> QED
    BY <2>1, <2>2 DEF OpenTransaction
<1>13. ASSUME NEW w \in Workers, NEW d \in Dates, CommitUnacknowledged(w, d)
       PROVE  FaultInv'
  BY <1>9, <1>12, <1>13 DEF CommitUnacknowledged, RecordFailure
<1>14. ASSUME NEW w \in Workers, NEW d \in Dates, CommitDate(w, d)
       PROVE  FaultInv'
  <2>1. fetched[w][d].status = "ok"
    BY <1>12, <1>14 DEF CommitDate
  <2>2. \A v \in Workers : ErrorsAhead(v)' = ErrorsAhead(v)
    BY <1>14, <2>1 DEF CommitDate, NextDate, ErrorsAhead, TypeInv, TypeOK
  <2> QED
    BY <1>14, <2>2 DEF CommitDate, NextDate, NoFault, FaultInv, Charge
<1>15. ASSUME NEW w \in Workers, NEW range \in Ranges,
              NEW symbols \in Requests, StartRun(w, range, symbols)
       PROVE  FaultInv'
  <2>1. PICK r \in Runs :
            /\ etlRuns' = [etlRuns EXCEPT ![r] = EmptyRun("RUNNING")]
            /\ request' = [request EXCEPT ![w] = [run |-> r, symbols |-> symbols]]
    BY <1>15 DEF StartRun
  <2>2. phase[w] = "idle" /\ chunk[w] = {} /\ failures[w] = 0
    BY <1>15 DEF StartRun, RunInv, Progress
  <2>3. ErrorsAhead(w)' = {} /\ Cardinality(ErrorsAhead(w)') = 0
    BY <1>15, <2>2, FS_EmptySet DEF StartRun, ErrorsAhead
  <2>4. charged' = charged /\ charged[r] \in Nat /\ failures[w]' = 0
    BY <1>15, <2>2 DEF StartRun, NoFault, TypeInv, TypeOK
  <2>5. Charge(w)'
    BY <2>1, <2>3, <2>4 DEF Charge, TypeInv, TypeOK
  <2>6. etlRuns[r]'.failed = 0
    BY <2>1 DEF EmptyRun, TypeInv, TypeOK
  <2>7. \A v \in Workers \ {w} :
            /\ phase[v]' = phase[v] /\ request[v]' = request[v]
            /\ chunk[v]' = chunk[v] /\ fetched[v]' = fetched[v]
            /\ failures[v]' = failures[v]
    BY <1>15, <2>1 DEF StartRun, TypeInv, TypeOK
  <2>8. \A q \in Runs \ {r} : etlRuns[q]' = etlRuns[q]
    BY <2>1 DEF TypeInv, TypeOK
  <2> QED
    BY <2>4, <2>5, <2>6, <2>7, <2>8, FaultFrame
<1>16. ASSUME NEW w \in Workers, Interrupt(w) PROVE FaultInv'
  <2>1. PICK r \in Runs : r = request[w].run
    BY <1>16, WorkerFields DEF Interrupt
  <2>2. charged' = [charged EXCEPT ![r] = charged[r] + 1] /\ charged[r] \in Nat
    BY <1>16, <2>1, FaultCharges DEF Interrupt
  <2>3. charged[r]' = charged[r] + 1 /\ \A q \in Runs \ {r} : charged[q]' = charged[q]
    BY <2>2 DEF TypeInv, TypeOK
  <2>4. UNCHANGED <<phase, request, chunk, fetched, failures, etlRuns>>
        /\ phase[w] # "idle" /\ ErrorsAhead(w)' = ErrorsAhead(w)
    BY <1>16 DEF Interrupt, ErrorsAhead
  <2>5. failures[w] + Cardinality(ErrorsAhead(w)) <= charged[r]
    BY <2>1, <2>4 DEF FaultInv, Charge
  <2>6. failures[w] + Cardinality(ErrorsAhead(w)) <= charged[r]'
    BY <2>2, <2>3, <2>5, ErrorsAreFinite, FaultCharges, <2>1
  <2>7. Charge(w)'
    BY <2>1, <2>4, <2>6 DEF Charge
  <2>8. etlRuns[r].failed <= charged[r] /\ etlRuns[r].failed \in Nat
    BY DEF FaultInv, TypeInv, TypeOK, EtlRun
  <2> QED
    BY <2>2, <2>3, <2>4, <2>7, <2>8, FaultFrame
<1>17. CASE UNCHANGED <<phase, request, chunk, fetched, failures, charged, etlRuns>>
  BY <1>17, FaultUnchanged DEF ErrorsAhead
<1>18. ASSUME NEW w \in Workers, NEW d \in Dates, NEW t \in Tables,
              Statement(w, d, t)
       PROVE  FaultInv'
  BY <1>17, <1>18 DEF Statement, NoFault
<1>19. ASSUME NEW d \in Dates, NEW rows \in Payloads, Revise(d, rows)
       PROVE  FaultInv'
  BY <1>17, <1>19 DEF Revise, local, NoFault
<1>20. CASE UNCHANGED vars
  BY <1>17, <1>20 DEF vars, local
<1>21. ASSUME NEW w \in Workers, NEW d \in Dates, DateStep(w, d) PROVE FaultInv'
  BY <1>6, <1>7, <1>10, <1>11, <1>13, <1>14, <1>18, <1>21 DEF DateStep
<1>22. ASSUME NEW w \in Workers, OperatorStep(w) PROVE FaultInv'
  BY <1>5, <1>15, <1>16, <1>22 DEF OperatorStep
<1> QED
  BY <1>1, <1>2, <1>3, <1>4, <1>19, <1>20, <1>21, <1>22
     DEF Next, WorkerStep, Terminated

\* A failed date is always the effect of a fault of its own run: the failure of
\* one date, or another process, never makes the backfill fail a date.
THEOREM FailuresAreIsolated == Spec => []FailuresAreFaults
<1>1. FaultInv => FailuresAreFaults
  BY DEF FaultInv, FailuresAreFaults
<1> QED
  BY <1>1, InitType, StepType, InitTx, StepTx, InitRuns, StepRuns, InitFaults,
     StepFaults, PTL DEF Spec

-------------------------------------------------------------------------------
(* Snapshots of a date                                                     *)

\* The date that w still has to persist has its payload.
HasAnswer(w, d) == d \in chunk[w] /\ fetched[w][d].status = "ok"

\* A stored summary of a version has the other rows of that version's payload.
Fits(d, version, rows) ==
    \A s \in Symbols : summaries[d][s] = version =>
        /\ rows[s] # "quarantined" => candles[d][s] = version
        /\ rows[s] # "no_flow" => flows[d][s] = version

\* An answer is a payload IDX published, and a version names one payload.
Answered(w, d) ==
    LET answer == fetched[w][d] IN
    HasAnswer(w, d) =>
        /\ answer.version <= published[d].version
        /\ answer.version = published[d].version => answer.rows = published[d].rows
        /\ Fits(d, answer.version, answer.rows)
        /\ \A v \in Workers :
               HasAnswer(v, d) /\ fetched[v][d].version = answer.version =>
                   fetched[v][d].rows = answer.rows

\* No stored row and no answer is ahead of IDX, and versions name payloads.
Snapshot(d) ==
    /\ \A s \in Symbols : /\ summaries[d][s] <= published[d].version
                          /\ candles[d][s] <= published[d].version
    /\ Fits(d, published[d].version, published[d].rows)
    /\ \A w \in Workers : Answered(w, d)

\* The invariant, for every date.
SnapshotInv == \A d \in Dates : Snapshot(d)

\* The versions of the provider and of the tables are numbers.
LEMMA VersionTypes ==
    ASSUME TypeInv, NEW d \in Dates
    PROVE  /\ published[d].version \in Nat /\ published[d].version # 0
           /\ \A s \in Symbols : summaries[d][s] \in Nat /\ candles[d][s] \in Nat
           /\ \A w \in Workers : fetched[w][d].version \in Nat
  <1>1. MaxVersion \in Nat /\ \A v \in 0 .. MaxVersion : v \in Nat
    BY ConstantsAssumption
  <1>2. \A v \in Versions : v \in Nat /\ v # 0
    BY <1>1 DEF Versions
  <1>3. /\ published[d].version \in Versions
        /\ \A s \in Symbols : /\ summaries[d][s] \in 0 .. MaxVersion
                              /\ candles[d][s] \in 0 .. MaxVersion
        /\ \A w \in Workers : fetched[w][d].version \in Versions
    BY DEF TypeInv, TypeOK, Result
  <1> QED
    BY <1>1, <1>2, <1>3

\* A step that stores nothing, publishes nothing and brings no answer.
LEMMA SnapshotFrame ==
    ASSUME SnapshotInv, UNCHANGED <<tables, published>>,
           \A w \in Workers, d \in Dates : HasAnswer(w, d)' =>
               HasAnswer(w, d) /\ fetched'[w][d] = fetched[w][d]
    PROVE  SnapshotInv'
  <1>1. UNCHANGED <<summaries, candles, flows, published>>
    BY DEF tables
  <1>2. ASSUME NEW d \in Dates, NEW w \in Workers
        PROVE  Answered(w, d)'
    BY <1>1 DEF SnapshotInv, Snapshot, Answered, Fits
  <1> QED
    BY <1>1, <1>2 DEF SnapshotInv, Snapshot, Fits

\* The answer of a fetch is the payload published now.
LEMMA FetchSnapshot ==
    ASSUME TypeInv, SnapshotInv, NEW w \in Workers, NEW d \in Dates, Fetch(w, d)
    PROVE  SnapshotInv'
  <1>1. UNCHANGED <<summaries, candles, flows, published, chunk>>
    BY DEF Fetch, Answer, tables
  <1>2. /\ fetched'[w][d] = [status |-> "ok", version |-> published[d].version,
                             rows |-> published[d].rows]
        /\ \A v \in Workers, e \in Dates :
               v # w \/ e # d => fetched'[v][e] = fetched[v][e]
    BY DEF Fetch, Answer, TypeInv, TypeOK
  <1>3. ASSUME NEW e \in Dates, NEW v \in Workers, HasAnswer(v, e)',
               v # w \/ e # d
        PROVE  HasAnswer(v, e)
    BY <1>1, <1>2, <1>3 DEF HasAnswer
  <1>4. ASSUME NEW e \in Dates, NEW v \in Workers, e # d
        PROVE  Answered(v, e)'
    BY <1>1, <1>2, <1>3, <1>4 DEF SnapshotInv, Snapshot, Answered, Fits
  <1>5. ASSUME NEW v \in Workers
        PROVE  Answered(v, d)'
    <2>1. /\ Fits(d, published[d].version, published[d].rows)
          /\ published[d].version \in Nat
      BY VersionTypes DEF SnapshotInv, Snapshot
    <2>2. \A u \in Workers \ {w} : HasAnswer(u, d)' =>
              /\ fetched'[u][d] = fetched[u][d]
              /\ fetched[u][d].version <= published[d].version
              /\ fetched[u][d].version = published[d].version =>
                     fetched[u][d].rows = published[d].rows
              /\ Fits(d, fetched[u][d].version, fetched[u][d].rows)
      BY <1>2, <1>3 DEF SnapshotInv, Snapshot, Answered
    <2>3. \A u1, u2 \in Workers \ {w} :
              HasAnswer(u1, d)' /\ HasAnswer(u2, d)'
                /\ fetched[u1][d].version = fetched[u2][d].version =>
                    fetched[u1][d].rows = fetched[u2][d].rows
      BY <1>3 DEF SnapshotInv, Snapshot, Answered
    <2>4. /\ fetched'[w][d].version = published[d].version
          /\ fetched'[w][d].rows = published[d].rows
      BY <1>2
    <2>5. CASE v = w
      BY <1>1, <2>1, <2>2, <2>4, <2>5 DEF Answered, Fits
    <2>6. CASE v # w
      BY <1>1, <2>1, <2>2, <2>3, <2>4, <2>6 DEF Answered, Fits
    <2> QED
      BY <2>5, <2>6
  <1> QED
    BY <1>1, <1>4, <1>5 DEF SnapshotInv, Snapshot, Fits

\* Nothing that is stored or fetched has the version of a revision.
LEMMA ReviseSnapshot ==
    ASSUME TypeInv, SnapshotInv, NEW d \in Dates, NEW rows \in Payloads,
           Revise(d, rows)
    PROVE  SnapshotInv'
  <1>1. UNCHANGED <<summaries, candles, flows, chunk, fetched>>
    BY DEF Revise, tables, local
  <1>2. /\ published'[d].version = published[d].version + 1
        /\ \A e \in Dates \ {d} : published'[e] = published[e]
    BY DEF Revise, TypeInv, TypeOK
  <1>3. \A e \in Dates, w \in Workers : HasAnswer(w, e)' = HasAnswer(w, e)
    BY <1>1 DEF HasAnswer
  <1>4. ASSUME NEW e \in Dates \ {d}
        PROVE  Snapshot(e)'
    BY <1>1, <1>2, <1>3 DEF SnapshotInv, Snapshot, Answered, Fits
  <1>5. Snapshot(d)'
    <2>1. /\ published[d].version \in Nat
          /\ \A s \in Symbols :
                 /\ summaries[d][s] \in Nat /\ summaries[d][s] <= published[d].version
                 /\ candles[d][s] \in Nat /\ candles[d][s] <= published[d].version
      BY VersionTypes DEF SnapshotInv, Snapshot
    <2>2. \A s \in Symbols :
              /\ summaries[d][s] < published'[d].version
              /\ candles[d][s] < published'[d].version
      BY <1>2, <2>1
    <2>3. ASSUME NEW w \in Workers
          PROVE  Answered(w, d)'
      <3>1. CASE HasAnswer(w, d)
        <4>1. Answered(w, d) /\ fetched[w][d].version \in Nat
          BY VersionTypes DEF SnapshotInv, Snapshot
        <4>2. fetched[w][d].version < published'[d].version
          BY <1>2, <2>1, <3>1, <4>1 DEF Answered
        <4>3. fetched[w][d].version <= published'[d].version
                /\ fetched[w][d].version # published'[d].version
          BY <1>2, <2>1, <4>1, <4>2
        <4> QED
          BY <1>1, <1>3, <3>1, <4>1, <4>3 DEF Answered, Fits
      <3>2. CASE ~HasAnswer(w, d)
        BY <1>3, <3>2 DEF Answered
      <3> QED
        BY <3>1, <3>2
    <2>4. \A s \in Symbols :
              /\ summaries[d][s] <= published'[d].version
              /\ summaries[d][s] # published'[d].version
              /\ candles[d][s] <= published'[d].version
      BY <1>2, <2>1, <2>2
    <2> QED
      BY <1>1, <2>3, <2>4 DEF Snapshot, Fits
  <1> QED
    BY <1>4, <1>5 DEF SnapshotInv

\* The cells of a date after its commit: the version wherever the payload has a
\* row, and all of a date's rows with the summary.
LEMMA CommitCells ==
    ASSUME TypeInv, TxShape, NEW w \in Workers, NEW d \in Dates,
           IsCurrent(w, d), stage[w] = CommitStage, ApplyTransaction(w, d)
    PROVE  LET answer == fetched[w][d]
               trade == TradeRows(answer.rows, request[w].symbols)
           IN  /\ HasAnswer(w, d)
               /\ \A e \in Dates \ {d} : /\ summaries'[e] = summaries[e]
                                         /\ candles'[e] = candles[e]
                                         /\ flows'[e] = flows[e]
               /\ \A s \in Symbols :
                    IF s \in trade
                    THEN /\ summaries'[d][s] = answer.version
                         /\ candles'[d][s] = IF answer.rows[s] # "quarantined"
                                             THEN answer.version ELSE candles[d][s]
                         /\ flows'[d][s] = IF answer.rows[s] # "no_flow"
                                           THEN answer.version ELSE flows[d][s]
                    ELSE /\ summaries'[d][s] = summaries[d][s]
                         /\ candles'[d][s] = candles[d][s]
                         /\ flows'[d][s] = flows[d][s]
  <1> DEFINE rows == fetched[w][d].rows
             version == fetched[w][d].version
             requested == request[w].symbols
  <1>1. OpenTransaction(w, d)
    BY CommitIsOpen
  <1>2. Ledger!Load(d, rows, version, requested)
    BY CommitLoads
  <1>3. /\ candles' = Ledger!Written(candles, d, ValidRows(rows, requested), version)
        /\ summaries' = Ledger!Written(summaries, d, TradeRows(rows, requested), version)
        /\ flows' = Ledger!Written(flows, d, FlowRows(rows, requested), version)
    BY <1>2, LedgerRows DEF Ledger!Load
  <1>4. \A s \in Symbols :
            /\ s \in ValidRows(rows, requested) <=>
                   s \in TradeRows(rows, requested) /\ rows[s] # "quarantined"
            /\ s \in FlowRows(rows, requested) <=>
                   s \in TradeRows(rows, requested) /\ rows[s] # "no_flow"
    BY DEF ValidRows, FlowRows
  <1>5. HasAnswer(w, d)
    BY <1>1 DEF OpenTransaction, HasAnswer, IsCurrent
  <1>6. /\ candles \in [Dates -> [Symbols -> 0 .. MaxVersion]]
        /\ summaries \in [Dates -> [Symbols -> 0 .. MaxVersion]]
        /\ flows \in [Dates -> [Symbols -> 0 .. MaxVersion]]
    BY DEF TypeInv, TypeOK
  <1> HIDE DEF rows, version, requested
  <1>7. ASSUME NEW e \in Dates \ {d}
        PROVE  /\ summaries'[e] = summaries[e] /\ candles'[e] = candles[e]
               /\ flows'[e] = flows[e]
    BY <1>3, <1>6 DEF Ledger!Written
  <1>8. ASSUME NEW s \in Symbols
        PROVE  /\ summaries'[d][s] = IF s \in TradeRows(rows, requested)
                                     THEN version ELSE summaries[d][s]
               /\ candles'[d][s] = IF s \in ValidRows(rows, requested)
                                   THEN version ELSE candles[d][s]
               /\ flows'[d][s] = IF s \in FlowRows(rows, requested)
                                 THEN version ELSE flows[d][s]
    BY <1>3, <1>6 DEF Ledger!Written
  <1> QED
    BY <1>4, <1>5, <1>7, <1>8 DEF rows, version, requested

\* A commit stores the rows of one payload, and every answer of the same version
\* has the same rows.
LEMMA CommitSnapshot ==
    ASSUME TypeInv, TxShape, SnapshotInv, NEW w \in Workers, NEW d \in Dates,
           CommitDate(w, d) \/ CommitUnacknowledged(w, d)
    PROVE  SnapshotInv'
  <1> DEFINE answer == fetched[w][d]
             trade == TradeRows(answer.rows, request[w].symbols)
  <1>1. /\ IsCurrent(w, d) /\ stage[w] = CommitStage /\ ApplyTransaction(w, d)
        /\ NextDate(w, d) /\ UNCHANGED published
    BY DEF CommitDate, CommitUnacknowledged
  <1>2. /\ UNCHANGED <<fetched, published>>
        /\ \A v \in Workers, e \in Dates : HasAnswer(v, e)' => HasAnswer(v, e)
    BY <1>1 DEF NextDate, HasAnswer, TypeInv, TypeOK
  <1>3. /\ HasAnswer(w, d)
        /\ \A e \in Dates \ {d} : /\ summaries'[e] = summaries[e]
                                  /\ candles'[e] = candles[e]
                                  /\ flows'[e] = flows[e]
        /\ \A s \in Symbols :
             IF s \in trade
             THEN /\ summaries'[d][s] = answer.version
                  /\ candles'[d][s] = IF answer.rows[s] # "quarantined"
                                      THEN answer.version ELSE candles[d][s]
                  /\ flows'[d][s] = IF answer.rows[s] # "no_flow"
                                    THEN answer.version ELSE flows[d][s]
             ELSE /\ summaries'[d][s] = summaries[d][s]
                  /\ candles'[d][s] = candles[d][s]
                  /\ flows'[d][s] = flows[d][s]
    BY <1>1, CommitCells
  <1>4. Answered(w, d) /\ Snapshot(d)
    BY DEF SnapshotInv, Snapshot
  <1> HIDE DEF answer, trade
  <1>5. ASSUME NEW version, NEW rows, Fits(d, version, rows),
               version = answer.version => rows = answer.rows
        PROVE  \A s \in Symbols : summaries'[d][s] = version =>
                   /\ rows[s] # "quarantined" => candles'[d][s] = version
                   /\ rows[s] # "no_flow" => flows'[d][s] = version
    BY <1>3, <1>5 DEF Fits
  <1>6. ASSUME NEW v \in Workers
        PROVE  Answered(v, d)'
    <2>1. SUFFICES ASSUME HasAnswer(v, d)'
                   PROVE  Answered(v, d)'
      BY DEF Answered
    <2>2. HasAnswer(v, d) /\ Answered(v, d)
      BY <1>2, <1>4, <2>1 DEF Snapshot
    <2>3. fetched[v][d].version = answer.version => fetched[v][d].rows = answer.rows
      BY <1>3, <1>4, <2>2 DEF Answered, answer
    <2>4. Fits(d, fetched[v][d].version, fetched[v][d].rows)
      BY <2>2 DEF Answered
    <2>5. ASSUME NEW s \in Symbols, summaries'[d][s] = fetched[v][d].version
          PROVE  /\ fetched[v][d].rows[s] # "quarantined" => candles'[d][s] = fetched[v][d].version
                 /\ fetched[v][d].rows[s] # "no_flow" => flows'[d][s] = fetched[v][d].version
      BY <1>5, <2>3, <2>4, <2>5
    <2>6. Fits(d, fetched[v][d].version, fetched[v][d].rows)'
      BY <1>2, <2>5 DEF Fits
    <2> QED
      BY <1>2, <2>2, <2>6 DEF Answered
  <1>7. Fits(d, published[d].version, published[d].rows)'
    <2>1. published[d].version = answer.version => published[d].rows = answer.rows
      BY <1>3, <1>4 DEF Answered, answer
    <2>2. Fits(d, published[d].version, published[d].rows)
      BY <1>4 DEF Snapshot
    <2>3. ASSUME NEW s \in Symbols, summaries'[d][s] = published[d].version
          PROVE  /\ published[d].rows[s] # "quarantined" => candles'[d][s] = published[d].version
                 /\ published[d].rows[s] # "no_flow" => flows'[d][s] = published[d].version
      BY <1>5, <2>1, <2>2, <2>3
    <2> QED
      BY <1>2, <2>3 DEF Fits
  <1>8. ASSUME NEW s \in Symbols
        PROVE  /\ summaries'[d][s] <= published'[d].version
               /\ candles'[d][s] <= published'[d].version
    <2>1. answer.version <= published[d].version
      BY <1>3, <1>4 DEF Answered, answer
    <2> QED
      BY <1>2, <1>3, <1>4, <2>1 DEF Snapshot
  <1>9. ASSUME NEW e \in Dates \ {d}
        PROVE  Snapshot(e)'
    <2>1. UNCHANGED <<summaries[e], candles[e], flows[e], published>>
      BY <1>2, <1>3
    <2> QED
      BY <1>2, <2>1 DEF SnapshotInv, Snapshot, Answered, Fits
  <1> QED
    BY <1>6, <1>7, <1>8, <1>9 DEF SnapshotInv, Snapshot

\* An answer that was not there is that of a fetch.
LEMMA AnswersAreFetched ==
    ASSUME TypeInv, [Next]_vars, NEW v \in Workers, NEW e \in Dates,
           HasAnswer(v, e)', ~(HasAnswer(v, e) /\ fetched'[v][e] = fetched[v][e])
    PROVE  Fetch(v, e)
  <1>1. ~UNCHANGED vars
    BY DEF vars, local, HasAnswer
  <1>2. ASSUME NEW w \in Workers, NEW d \in Dates, DateStep(w, d)
        PROVE  Fetch(v, e)
    <2>1. CASE Fetch(w, d)
      BY <2>1 DEF Fetch, Answer, HasAnswer, TypeInv, TypeOK
    <2>2. CASE FetchFails(w, d)
      BY <2>2 DEF FetchFails, Answer, NoRecords, HasAnswer, TypeInv, TypeOK
    <2>3. CASE \/ ProviderFailed(w, d) \/ PersistFails(w, d)
               \/ CommitDate(w, d) \/ CommitUnacknowledged(w, d)
      <3>1. NextDate(w, d)
        BY <2>3 DEF ProviderFailed, PersistFails, CommitDate, CommitUnacknowledged
      <3>2. fetched' = fetched /\ chunk'[v] \subseteq chunk[v]
        BY <3>1 DEF NextDate, TypeInv, TypeOK
      <3> QED
        BY <3>2 DEF HasAnswer
    <2>4. CASE \E t \in Tables : Statement(w, d, t)
      BY <2>4 DEF Statement, HasAnswer
    <2> QED
      BY <1>2, <2>1, <2>2, <2>3, <2>4 DEF DateStep
  <1>3. ASSUME NEW w \in Workers, LaunchChunk(w)
        PROVE  FALSE
    BY <1>3 DEF LaunchChunk, HasAnswer, NoRecords, TypeInv, TypeOK
  <1>4. ASSUME NEW w \in Workers, CancelRun(w) \/ FinishRun(w) \/ Die(w)
        PROVE  FALSE
    BY <1>4 DEF CancelRun, FinishRun, Die, Leave, HasAnswer, TypeInv, TypeOK
  <1>5. ASSUME NEW w \in Workers,
               \/ GatherReturns(w) \/ Interrupt(w)
               \/ \E range \in Ranges, symbols \in Requests : StartRun(w, range, symbols)
        PROVE  FALSE
    BY <1>5 DEF GatherReturns, Interrupt, StartRun, HasAnswer
  <1>6. ASSUME NEW d \in Dates, NEW rows \in Payloads, Revise(d, rows)
        PROVE  FALSE
    BY <1>6 DEF Revise, local, HasAnswer
  <1> QED
    BY <1>1, <1>2, <1>3, <1>4, <1>5, <1>6
       DEF Next, WorkerStep, OperatorStep, Terminated

\* Nobody has an answer at the start, and no version is 0.
LEMMA InitSnapshot == Init => SnapshotInv
  <1> SUFFICES ASSUME Init, NEW d \in Dates
               PROVE  Snapshot(d)
    BY DEF SnapshotInv
  <1>1. \A s \in Symbols : summaries[d][s] = 0 /\ candles[d][s] = 0
    BY DEF Init, Ledger!Init, Ledger!Empty
  <1>2. published[d].version = 1
    BY DEF Init
  <1>3. \A w \in Workers : ~HasAnswer(w, d)
    BY DEF Init, HasAnswer
  <1> QED
    BY <1>1, <1>2, <1>3 DEF Snapshot, Answered, Fits

\* A step that changes the tables is the commit of a date.
LEMMA OnlyCommits ==
    ASSUME [Next]_vars, ~UNCHANGED tables
    PROVE  \E w \in Workers, d \in Dates :
               CommitDate(w, d) \/ CommitUnacknowledged(w, d)
  <1>1. ASSUME NEW w \in Workers, NEW d \in Dates, DateStep(w, d)
        PROVE  CommitDate(w, d) \/ CommitUnacknowledged(w, d)
    BY <1>1 DEF DateStep, Fetch, FetchFails, Answer, ProviderFailed, Statement,
                PersistFails
  <1>2. ASSUME NEW w \in Workers,
               \/ LaunchChunk(w) \/ GatherReturns(w) \/ CancelRun(w) \/ FinishRun(w)
               \/ OperatorStep(w)
        PROVE  FALSE
    BY <1>2 DEF LaunchChunk, GatherReturns, CancelRun, FinishRun, OperatorStep,
                StartRun, Interrupt, Die
  <1>3. ASSUME NEW d \in Dates, NEW rows \in Payloads, Revise(d, rows)
        PROVE  FALSE
    BY <1>3 DEF Revise
  <1>4. ~UNCHANGED vars
    BY DEF vars
  <1> QED
    BY <1>1, <1>2, <1>3, <1>4 DEF Next, WorkerStep, Terminated

\* IDX alone changes what it publishes.
LEMMA OnlyRevisions ==
    ASSUME [Next]_vars, published' # published
    PROVE  \E d \in Dates, rows \in Payloads : Revise(d, rows)
  <1>1. \A w \in Workers, d \in Dates : ~DateStep(w, d)
    BY DEF DateStep, Fetch, FetchFails, Answer, ProviderFailed, Statement,
           CommitDate, PersistFails, CommitUnacknowledged
  <1>2. \A w \in Workers : ~WorkerStep(w) /\ ~OperatorStep(w)
    BY <1>1 DEF WorkerStep, LaunchChunk, GatherReturns, CancelRun, FinishRun,
                OperatorStep, StartRun, Interrupt, Die
  <1> QED
    BY <1>2 DEF Next, Terminated, vars

\* Every step keeps the rows of a date in line with the payloads.
LEMMA StepSnapshot == TypeInv /\ TxShape /\ SnapshotInv /\ [Next]_vars => SnapshotInv'
  <1> SUFFICES ASSUME TypeInv, TxShape, SnapshotInv, [Next]_vars
               PROVE  SnapshotInv'
    OBVIOUS
  <1>1. CASE ~UNCHANGED tables
    BY <1>1, OnlyCommits, CommitSnapshot
  <1>2. CASE \E w \in Workers, d \in Dates : Fetch(w, d)
    BY <1>2, FetchSnapshot
  <1>3. CASE \E d \in Dates, rows \in Payloads : Revise(d, rows)
    BY <1>3, ReviseSnapshot
  <1>4. CASE /\ UNCHANGED tables
             /\ ~\E w \in Workers, d \in Dates : Fetch(w, d)
             /\ ~\E d \in Dates, rows \in Payloads : Revise(d, rows)
    BY <1>4, AnswersAreFetched, OnlyRevisions, SnapshotFrame
  <1> QED
    BY <1>1, <1>2, <1>3, <1>4

\* RerunIsIdempotent: a commit that leaves the summaries of a date as they are
\* stored the payload they are from, and so leaves its candles and flows alone.
THEOREM Idempotent == Spec => RerunIsIdempotent
  <1>1. TypeInv /\ TxShape /\ SnapshotInv /\ [Next]_vars =>
            [\A d \in Dates : summaries'[d] = summaries[d] =>
                 candles'[d] = candles[d] /\ flows'[d] = flows[d]]_tables
    <2> SUFFICES ASSUME TypeInv, TxShape, SnapshotInv, [Next]_vars, ~UNCHANGED tables,
                        NEW e \in Dates, summaries'[e] = summaries[e]
                 PROVE  candles'[e] = candles[e] /\ flows'[e] = flows[e]
      OBVIOUS
    <2>1. PICK w \in Workers, d \in Dates :
              CommitDate(w, d) \/ CommitUnacknowledged(w, d)
      BY OnlyCommits
    <2>2. IsCurrent(w, d) /\ stage[w] = CommitStage /\ ApplyTransaction(w, d)
      BY <2>1 DEF CommitDate, CommitUnacknowledged
    <2>3. CASE e # d
      BY <2>2, <2>3, CommitCells
    <2>4. CASE e = d
      <3>1. HasAnswer(w, d) /\ Fits(d, fetched[w][d].version, fetched[w][d].rows)
        BY <2>2, CommitCells DEF SnapshotInv, Snapshot, Answered
      <3>2. ASSUME NEW s \in Symbols
            PROVE  candles'[d][s] = candles[d][s] /\ flows'[d][s] = flows[d][s]
        BY <2>2, <2>4, <3>1, CommitCells DEF Fits
      <3>3. /\ candles[d] \in [Symbols -> 0 .. MaxVersion]
            /\ flows[d] \in [Symbols -> 0 .. MaxVersion]
            /\ candles'[d] \in [Symbols -> 0 .. MaxVersion]
            /\ flows'[d] \in [Symbols -> 0 .. MaxVersion]
        BY StepType DEF TypeInv, TypeOK
      <3> QED
        BY <2>4, <3>2, <3>3
    <2> QED
      BY <2>3, <2>4
  <1> QED
    BY <1>1, InitType, StepType, InitTx, StepTx, InitSnapshot, StepSnapshot, PTL
       DEF Spec, RerunIsIdempotent

-------------------------------------------------------------------------------
(* Snapshots of one run after the other                                    *)

\* At most one process executes a run.
OneRun == \A v, w \in Workers : phase[v] # "idle" /\ phase[w] # "idle" => v = w

\* No stored row of the date is newer than the answer.
Newest(w, d) ==
    HasAnswer(w, d) => \A s \in Symbols :
                           /\ summaries[d][s] <= fetched[w][d].version
                           /\ candles[d][s] <= fetched[w][d].version

\* The invariant, for every process and date.
NewestInv == \A w \in Workers, d \in Dates : Newest(w, d)

\* Nobody has an answer at the start.
LEMMA InitNewest == Init => NewestInv
  BY DEF Init, NewestInv, Newest, HasAnswer

\* The dates another process has are none while one executes a run.
LEMMA OthersIdle ==
    ASSUME OneRun, RunInv, NEW w \in Workers, phase[w] # "idle",
           NEW v \in Workers \ {w}
    PROVE  chunk[v] = {}
  BY DEF OneRun, RunInv, Progress

\* The rows stored by a commit are of a date that nobody has to persist any more.
LEMMA StepNewest ==
    ASSUME TypeInv, TxShape, RunInv, SnapshotInv, OneRun, NewestInv, [Next]_vars
    PROVE  NewestInv'
  <1>1. CASE UNCHANGED tables
    <2> SUFFICES ASSUME NEW w \in Workers, NEW d \in Dates, HasAnswer(w, d)',
                        NEW s \in Symbols
                 PROVE  /\ summaries'[d][s] <= fetched'[w][d].version
                        /\ candles'[d][s] <= fetched'[w][d].version
      BY DEF NewestInv, Newest
    <2>1. UNCHANGED <<summaries, candles>>
      BY <1>1 DEF tables
    <2>2. CASE HasAnswer(w, d) /\ fetched'[w][d] = fetched[w][d]
      BY <2>1, <2>2 DEF NewestInv, Newest
    <2>3. CASE ~(HasAnswer(w, d) /\ fetched'[w][d] = fetched[w][d])
      <3>1. Fetch(w, d)
        BY <2>3, AnswersAreFetched
      <3>2. fetched'[w][d].version = published[d].version
        BY <3>1 DEF Fetch, Answer, TypeInv, TypeOK
      <3> QED
        BY <2>1, <3>2 DEF SnapshotInv, Snapshot
    <2> QED
      BY <2>2, <2>3
  <1>2. CASE ~UNCHANGED tables
    <2>1. PICK w \in Workers, d \in Dates :
              CommitDate(w, d) \/ CommitUnacknowledged(w, d)
      BY <1>2, OnlyCommits
    <2>2. /\ IsCurrent(w, d) /\ stage[w] = CommitStage /\ ApplyTransaction(w, d)
          /\ NextDate(w, d)
      BY <2>1 DEF CommitDate, CommitUnacknowledged
    <2>3. ASSUME NEW v \in Workers, NEW e \in Dates, HasAnswer(v, e)'
          PROVE  Newest(v, e)'
      <3>1. /\ v = w /\ e # d /\ HasAnswer(v, e) /\ fetched' = fetched
        <4>1. phase[w] # "idle"
          BY <2>2 DEF IsCurrent
        <4> QED
          BY <2>2, <2>3, <4>1, OthersIdle DEF NextDate, HasAnswer, TypeInv, TypeOK
      <3>2. summaries'[e] = summaries[e] /\ candles'[e] = candles[e]
        BY <2>2, <3>1, CommitCells
      <3> QED
        BY <3>1, <3>2 DEF NewestInv, Newest
    <2> QED
      BY <2>3 DEF NewestInv, Newest
  <1> QED
    BY <1>1, <1>2

\* SnapshotsAdvance: as long as the runs of all processes follow one another, no
\* stored row is replaced by a row of an older payload.
THEOREM Advance == Spec /\ []OneRun => SnapshotsAdvance
  <1>1. TypeInv /\ TxShape /\ NewestInv /\ [Next]_vars =>
            [\A d \in Dates, s \in Symbols :
                 /\ summaries'[d][s] >= summaries[d][s]
                 /\ candles'[d][s] >= candles[d][s]]_tables
    <2> SUFFICES ASSUME TypeInv, TxShape, NewestInv, [Next]_vars, ~UNCHANGED tables,
                        NEW e \in Dates, NEW s \in Symbols
                 PROVE  /\ summaries'[e][s] >= summaries[e][s]
                        /\ candles'[e][s] >= candles[e][s]
      OBVIOUS
    <2>1. PICK w \in Workers, d \in Dates :
              CommitDate(w, d) \/ CommitUnacknowledged(w, d)
      BY OnlyCommits
    <2>2. IsCurrent(w, d) /\ stage[w] = CommitStage /\ ApplyTransaction(w, d)
      BY <2>1 DEF CommitDate, CommitUnacknowledged
    <2>3. /\ summaries[e][s] \in Nat /\ candles[e][s] \in Nat
          /\ fetched[w][d].version \in Nat
      BY VersionTypes
    <2>4. CASE e # d
      BY <2>2, <2>3, <2>4, CommitCells
    <2>5. CASE e = d
      <3>1. HasAnswer(w, d)
        BY <2>2, CommitCells
      <3>2. /\ summaries[d][s] <= fetched[w][d].version
            /\ candles[d][s] <= fetched[w][d].version
        BY <3>1 DEF NewestInv, Newest
      <3>3. summaries'[d][s] \in {summaries[d][s], fetched[w][d].version}
              /\ candles'[d][s] \in {candles[d][s], fetched[w][d].version}
        BY <2>2, CommitCells
      <3> QED
        BY <2>3, <2>5, <3>2, <3>3
    <2> QED
      BY <2>4, <2>5
  <1>2. TypeInv /\ TxShape /\ RunInv /\ SnapshotInv /\ OneRun /\ NewestInv
          /\ [Next]_vars => NewestInv'
    BY StepNewest
  <1> QED
    BY <1>1, <1>2, InitType, StepType, InitTx, StepTx, InitRuns, StepRuns,
       InitSnapshot, StepSnapshot, InitNewest, PTL
       DEF Spec, SnapshotsAdvance

-------------------------------------------------------------------------------
(* The daily update                                                        *)

\* At most one process runs the commands.
OneCommand == \A v, w \in Workers : v = w

-------------------------------------------------------------------------------
(* Types                                                                   *)

\* A daily run is a run over some range of dates for all symbols.
LEMMA StartsARun ==
    ASSUME NEW w \in Workers, StartDaily(w) \/ StartInitialLoad(w)
    PROVE  \E range \in Dates \X Dates : StartRun(w, range, Symbols)
  <1>1. CASE StartDaily(w)
    <2>1. PICK start \in Dates, end \in EndDates :
              StartRun(w, <<start, end>>, Symbols)
      BY <1>1 DEF StartDaily
    <2>2. <<start, end>> \in Dates \X Dates
      BY DailyAssumption
    <2> QED
      BY <2>1, <2>2
  <1>2. CASE StartInitialLoad(w)
    BY <1>2, ConstantsAssumption DEF StartInitialLoad
  <1> QED
    BY <1>1, <1>2

\* The other steps are steps of the backfill.
LEMMA DailyStep ==
    ASSUME [DailyNext]_vars
    PROVE  \/ [Next]_vars
           \/ \E w \in Workers : StartDaily(w) \/ StartInitialLoad(w)
  BY DEF DailyNext, Rest, Next, OperatorStep

\* Every variable keeps its type.
LEMMA DailyTypes == DailySpec => []TypeInv
  <1>1. TypeInv /\ [DailyNext]_vars => TypeInv'
    BY DailyStep, StartsARun, StartType, StepType, DailyAssumption
  <1> QED
    BY <1>1, InitType, PTL DEF DailySpec

-------------------------------------------------------------------------------
(* The dates ahead of a run                                                *)

Remaining(w) == todo[w] \cup chunk[w]

Recorded(d) ==
    \E r \in Runs : d \in covered[r] \/ [run |-> r, date |-> d] \in dateErrors

\* A run works its way through consecutive weekdays, all of them later than any
\* candle, and left nothing behind between the candles and them.
Ahead(w) ==
    /\ phase[w] = "idle" => Remaining(w) = {}
    /\ \A e \in CandleDates, x \in Remaining(w) :
           /\ e < x
           /\ \A d \in Weekdays(e, x) : d \in Remaining(w) \/ Recorded(d)
    /\ \A x, z \in Remaining(w) : Weekdays(x, z) \subseteq Remaining(w)
    /\ \A c \in chunk[w], t \in todo[w] : c < t

DailyInv == SkippedDatesAreRecorded /\ \A w \in Workers : Ahead(w)

\* Nothing is ahead of an idle process.
LEMMA InitDaily == Init => DailyInv
  BY DEF Init, Ledger!Init, Ledger!Empty, DailyInv, SkippedDatesAreRecorded,
         Ahead, Remaining, CandleDates

\* What is on record stays on record.
LEMMA RecordsStay ==
    ASSUME \A r \in Runs : covered[r] \subseteq covered'[r],
           dateErrors \subseteq dateErrors'
    PROVE  \A d \in Dates : Recorded(d) => Recorded(d)'
  BY DEF Recorded

\* A step that moves no date and stores no candle keeps the invariant.
LEMMA DailyFrame ==
    ASSUME DailyInv, UNCHANGED <<candles, todo, chunk, covered, dateErrors>>,
           \A w \in Workers : phase'[w] = "idle" => phase[w] = "idle"
    PROVE  DailyInv'
  <1>1. /\ CandleDates' = CandleDates
        /\ \A w \in Workers : Remaining(w)' = Remaining(w)
        /\ \A d \in Dates : Recorded(d)' <=> Recorded(d)
    BY DEF CandleDates, Remaining, Recorded
  <1>2. SkippedDatesAreRecorded'
    BY <1>1 DEF DailyInv, SkippedDatesAreRecorded, Recorded, Weekdays
  <1>3. ASSUME NEW w \in Workers
        PROVE  Ahead(w)'
    BY <1>1 DEF DailyInv, Ahead, Weekdays
  <1> QED
    BY <1>2, <1>3 DEF DailyInv

\* A process that leaves its run has nothing ahead.
LEMMA DailyLeave ==
    ASSUME TypeInv, OneCommand, DailyInv, NEW w \in Workers, Leave(w),
           UNCHANGED <<candles, covered, dateErrors>>
    PROVE  DailyInv'
  <1>1. CandleDates' = CandleDates /\ \A d \in Dates : Recorded(d)' <=> Recorded(d)
    BY DEF CandleDates, Recorded
  <1>2. SkippedDatesAreRecorded'
    BY <1>1 DEF DailyInv, SkippedDatesAreRecorded, Recorded, Weekdays
  <1>3. ASSUME NEW v \in Workers
        PROVE  Ahead(v)'
    <2>1. todo'[v] = {} /\ chunk'[v] = {}
      BY DEF Leave, OneCommand, TypeInv, TypeOK
    <2> QED
      BY <2>1 DEF Ahead, Remaining
  <1> QED
    BY <1>2, <1>3 DEF DailyInv

\* A process is done with the first of the dates ahead: the date, and it alone,
\* may have candles now, and it is on record.
LEMMA DateDone ==
    ASSUME TypeInv, OneCommand, DailyInv, NEW w \in Workers, NEW d \in Dates,
           IsCurrent(w, d), UNCHANGED <<phase, todo>>,
           chunk' = [chunk EXCEPT ![w] = @ \ {d}],
           CandleDates' \subseteq CandleDates \cup {d},
           \A r \in Runs : covered[r] \subseteq covered'[r],
           dateErrors \subseteq dateErrors', Recorded(d)'
    PROVE  DailyInv'
  <1>1. /\ Remaining(w) \subseteq Dates /\ d \in Remaining(w)
        /\ Remaining(w)' = Remaining(w) \ {d}
        /\ \A x \in Remaining(w) : d <= x
    <2>1. /\ chunk[w] \subseteq Dates /\ todo[w] \subseteq Dates
          /\ d \in chunk[w] /\ Dates \subseteq Int
          /\ \A x \in chunk[w] : d <= x
          /\ \A x \in todo[w] : d < x
      BY ConstantsAssumption DEF TypeInv, TypeOK, IsCurrent, DailyInv, Ahead
    <2>2. d \notin todo[w]
      BY <2>1
    <2>3. chunk'[w] = chunk[w] \ {d}
      BY DEF TypeInv, TypeOK
    <2>4. ASSUME NEW x \in todo[w]
          PROVE  d <= x
      <3>1. d \in Int /\ x \in Int /\ d < x
        BY <2>1
      <3> QED
        BY <3>1
    <2> QED
      BY <2>1, <2>2, <2>3, <2>4 DEF Remaining
  <1>2. /\ \A e \in CandleDates, x \in Remaining(w) :
              /\ e < x
              /\ \A y \in Weekdays(e, x) : y \in Remaining(w) \/ Recorded(y)
        /\ \A x, z \in Remaining(w) : Weekdays(x, z) \subseteq Remaining(w)
    BY DEF DailyInv, Ahead
  <1>3. /\ \A y \in Dates : Recorded(y) => Recorded(y)'
        /\ CandleDates \subseteq Dates /\ Dates \subseteq Int
    BY RecordsStay, ConstantsAssumption DEF CandleDates
  <1>4. \A e \in CandleDates \cup {d}, x \in Remaining(w) \ {d} : e < x
    BY <1>1, <1>2, <1>3
  <1>5. ASSUME NEW e \in CandleDates \cup {d}, NEW x \in Remaining(w),
               NEW y \in Weekdays(e, x), y \notin Remaining(w) \ {d}
        PROVE  Recorded(y)'
    BY <1>1, <1>2, <1>3, <1>5 DEF Weekdays
  <1>6. SkippedDatesAreRecorded'
    <2> SUFFICES ASSUME NEW e \in CandleDates \cup {d},
                        NEW f \in CandleDates \cup {d}, NEW y \in Weekdays(e, f)
                 PROVE  Recorded(y)'
      BY DEF SkippedDatesAreRecorded, Recorded, Weekdays
    <2>1. y \in Dates /\ e <= y /\ y <= f
      BY DEF Weekdays
    <2>2. CASE f = d
      <3>1. y \notin Remaining(w) \ {d}
        BY <1>1, <1>3, <2>1, <2>2
      <3> QED
        BY <1>1, <1>5, <2>2, <3>1
    <2>3. CASE e \in CandleDates /\ f \in CandleDates
      BY <1>3, <2>1, <2>3 DEF DailyInv, SkippedDatesAreRecorded, Recorded
    <2>4. CASE e = d /\ f \in CandleDates
      BY <1>1, <1>2, <1>3, <2>1, <2>4
    <2> QED
      BY <2>2, <2>3, <2>4
  <1>7. ASSUME NEW v \in Workers
        PROVE  Ahead(v)'
    <2>1. v = w
      BY DEF OneCommand
    <2>2. phase'[w] # "idle"
      BY DEF IsCurrent
    <2>3. \A x, z \in Remaining(w) \ {d} : Weekdays(x, z) \subseteq Remaining(w) \ {d}
      BY <1>1, <1>2, <1>3 DEF Weekdays
    <2>4. \A c \in chunk'[w], t \in todo'[w] : c < t
      BY DEF DailyInv, Ahead, TypeInv, TypeOK
    <2>5. \A e \in CandleDates', x \in Remaining(w)' :
              /\ e < x
              /\ \A y \in Weekdays(e, x) : y \in Remaining(w)' \/ Recorded(y)'
      BY <1>1, <1>4, <1>5
    <2>6. \A x, z \in Remaining(w)' : Weekdays(x, z) \subseteq Remaining(w)'
      BY <1>1, <2>3
    <2> HIDE DEF Remaining, Recorded
    <2> QED
      BY <2>1, <2>2, <2>4, <2>5, <2>6 DEF Ahead, Weekdays
  <1> QED
    BY <1>6, <1>7 DEF DailyInv

\* The chunk that is launched is the beginning of what is to do.
LEMMA DailyLaunch ==
    ASSUME TypeInv, OneCommand, DailyInv, NEW w \in Workers, LaunchChunk(w)
    PROVE  DailyInv'
  <1>1. /\ todo[w] \subseteq Dates /\ IsFiniteSet(todo[w])
        /\ FirstChunk(todo[w]) \subseteq todo[w]
        /\ chunk'[w] = FirstChunk(todo[w])
        /\ todo'[w] = todo[w] \ FirstChunk(todo[w])
        /\ chunk[w] = {}
    BY ConstantsAssumption, FS_Subset
    DEF LaunchChunk, FirstChunk, TypeInv, TypeOK
  <1>2. ASSUME NEW c \in FirstChunk(todo[w]),
               NEW t \in todo[w] \ FirstChunk(todo[w])
        PROVE  c < t
    <2> DEFINE before(x) == {e \in todo[w] : e < x}
    <2>1. /\ IsFiniteSet(before(c)) /\ IsFiniteSet(before(t))
          /\ Cardinality(before(c)) \in Nat /\ Cardinality(before(t)) \in Nat
      BY <1>1, FS_Subset, FS_CardinalityType
    <2>2. Cardinality(before(c)) < Concurrency /\ ~(Cardinality(before(t)) < Concurrency)
      BY <1>1 DEF FirstChunk
    <2>3. ASSUME t <= c
          PROVE  FALSE
      <3>1. ASSUME NEW e \in before(t)
            PROVE  e \in before(c)
        <4>1. e \in Int /\ t \in Int /\ c \in Int
          BY <1>1, ConstantsAssumption
        <4> QED
          BY <2>3, <4>1
      <3>2. Cardinality(before(t)) <= Cardinality(before(c))
        <4>1. before(t) \subseteq before(c)
          BY <3>1
        <4> HIDE DEF before
        <4> QED
          BY <2>1, <4>1, FS_Subset
      <3> QED
        BY <2>1, <2>2, <3>2, ConstantsAssumption
    <2> QED
      BY <1>1, <2>3, ConstantsAssumption
  <1>3. /\ Remaining(w)' = Remaining(w)
        /\ CandleDates' = CandleDates
        /\ \A d \in Dates : Recorded(d)' <=> Recorded(d)
    BY <1>1 DEF Remaining, CandleDates, Recorded, LaunchChunk, tables, done
  <1>4. SkippedDatesAreRecorded'
    BY <1>3 DEF DailyInv, SkippedDatesAreRecorded, Recorded, Weekdays
  <1>5. ASSUME NEW v \in Workers
        PROVE  Ahead(v)'
    <2>1. v = w /\ phase'[w] # "idle"
      BY DEF OneCommand, LaunchChunk, TypeInv, TypeOK
    <2>2. \A c \in chunk'[w], t \in todo'[w] : c < t
      BY <1>1, <1>2
    <2> HIDE DEF Remaining, Recorded
    <2> QED
      BY <1>3, <2>1, <2>2 DEF DailyInv, Ahead, Weekdays
  <1> QED
    BY <1>4, <1>5 DEF DailyInv

\* A run begins behind the last candle.
LEMMA DailyStart ==
    ASSUME TypeInv, OneCommand, DailyInv, NEW w \in Workers,
           StartDaily(w) \/ StartInitialLoad(w)
    PROVE  DailyInv'
  <1>1. PICK range \in Dates \X Dates :
            /\ StartRun(w, range, Symbols)
            /\ \/ CandleDates = {}
               \/ \E d \in CandleDates : IsLatest(d) /\ range[1] = d + 1
    <2>1. CASE StartDaily(w)
      <3>1. PICK start \in Dates, end \in EndDates :
                /\ NextMarketStart(start, end)
                /\ StartRun(w, <<start, end>>, Symbols)
        BY <2>1 DEF StartDaily
      <3>2. <<start, end>> \in Dates \X Dates
        BY DailyAssumption
      <3> QED
        BY <3>1, <3>2 DEF NextMarketStart
    <2>2. CASE StartInitialLoad(w)
      BY <2>2, ConstantsAssumption DEF StartInitialLoad
    <2> QED
      BY <2>1, <2>2
  <1>2. /\ phase[w] = "idle" /\ phase'[w] # "idle"
        /\ todo'[w] = Weekdays(range[1], range[2]) /\ chunk'[w] = chunk[w]
        /\ UNCHANGED <<candles, covered, dateErrors>>
    BY <1>1 DEF StartRun, TypeInv, TypeOK, tables, done
  <1>3. chunk[w] = {} /\ Remaining(w)' = Weekdays(range[1], range[2])
    BY <1>2 DEF DailyInv, Ahead, Remaining
  <1>4. /\ CandleDates' = CandleDates /\ CandleDates \subseteq Dates
        /\ Dates \subseteq Int /\ range[1] \in Int /\ range[2] \in Int
        /\ \A d \in Dates : Recorded(d)' <=> Recorded(d)
    BY <1>2, ConstantsAssumption DEF CandleDates, Recorded
  <1>5. SkippedDatesAreRecorded'
    BY <1>4 DEF DailyInv, SkippedDatesAreRecorded, Recorded, Weekdays
  <1>6. ASSUME NEW e \in CandleDates, NEW x \in Weekdays(range[1], range[2])
        PROVE  /\ e < x
               /\ \A d \in Weekdays(e, x) :
                      d \in Weekdays(range[1], range[2]) \/ Recorded(d)
    <2>1. PICK l \in CandleDates : IsLatest(l) /\ range[1] = l + 1
      BY <1>1
    <2>2. e <= l /\ l < x
      BY <1>4, <2>1 DEF IsLatest, Weekdays
    <2>3. ASSUME NEW d \in Weekdays(e, x), ~(d <= l)
          PROVE  d \in Weekdays(range[1], range[2])
      <3>1. d \in Int /\ x \in Int /\ l \in Int
        BY <1>4 DEF Weekdays
      <3>2. d <= x /\ x <= range[2] /\ range[1] <= d
        BY <1>4, <2>1, <2>3, <3>1 DEF Weekdays
      <3> QED
        BY <1>4, <3>1, <3>2 DEF Weekdays
    <2>4. ASSUME NEW d \in Weekdays(e, x), d <= l
          PROVE  Recorded(d)
      BY <2>1, <2>4 DEF Weekdays, DailyInv, SkippedDatesAreRecorded, Recorded
    <2> QED
      BY <1>4, <2>2, <2>3, <2>4 DEF Weekdays
  <1>7. ASSUME NEW v \in Workers
        PROVE  Ahead(v)'
    <2>1. v = w
      BY DEF OneCommand
    <2>2. \A x, z \in Weekdays(range[1], range[2]) :
              Weekdays(x, z) \subseteq Weekdays(range[1], range[2])
      <3> SUFFICES ASSUME NEW x \in Weekdays(range[1], range[2]),
                          NEW z \in Weekdays(range[1], range[2]),
                          NEW y \in Weekdays(x, z)
                   PROVE  y \in Weekdays(range[1], range[2])
        OBVIOUS
      <3>1. x \in Int /\ y \in Int /\ z \in Int
        BY <1>4 DEF Weekdays
      <3>2. range[1] <= x /\ x <= y /\ y <= z /\ z <= range[2]
        BY DEF Weekdays
      <3> QED
        BY <1>4, <3>1, <3>2 DEF Weekdays
    <2>3. \A e \in CandleDates', x \in Remaining(w)' :
              /\ e < x
              /\ \A d \in Weekdays(e, x) : d \in Remaining(w)' \/ Recorded(d)'
      BY <1>3, <1>4, <1>6 DEF Weekdays
    <2>4. \A x, z \in Remaining(w)' : Weekdays(x, z) \subseteq Remaining(w)'
      BY <1>3, <2>2
    <2>5. \A c \in chunk'[w], t \in todo'[w] : c < t
      BY <1>2, <1>3
    <2> HIDE DEF Remaining, Recorded
    <2> QED
      BY <1>2, <2>1, <2>3, <2>4, <2>5 DEF Ahead, Weekdays
  <1> QED
    BY <1>5, <1>7 DEF DailyInv

\* A commit stores candles of one date only.
LEMMA CandlesOfOneDate ==
    ASSUME TypeInv, NEW w \in Workers, phase[w] # "idle", NEW d \in Dates,
           ApplyTransaction(w, d)
    PROVE  /\ CandleDates' \subseteq CandleDates \cup {d}
           /\ \A e \in Dates \ {d} : candles'[e] = candles[e]
           /\ \A r \in Runs : covered[r] \subseteq covered'[r]
           /\ d \in covered'[request[w].run] /\ request[w].run \in Runs
  <1>1. \A e \in Dates \ {d} : candles'[e] = candles[e]
    BY DEF ApplyTransaction, Ledger!Written, TypeInv, TypeOK
  <1>2. CandleDates' \subseteq CandleDates \cup {d}
    BY <1>1 DEF CandleDates
  <1>3. /\ request[w].run \in Runs
        /\ covered' = [covered EXCEPT ![request[w].run] = @ \cup {d}]
    BY WorkerFields DEF ApplyTransaction
  <1> QED
    BY <1>1, <1>2, <1>3 DEF TypeInv, TypeOK

\* The three ways a process can be done with a date.
LEMMA DailyPersist ==
    ASSUME TypeInv, OneCommand, DailyInv, NEW w \in Workers, NEW d \in Dates,
           \/ ProviderFailed(w, d) \/ PersistFails(w, d)
           \/ CommitDate(w, d) \/ CommitUnacknowledged(w, d)
    PROVE  DailyInv'
  <1>1. /\ IsCurrent(w, d) /\ UNCHANGED <<phase, todo>>
        /\ chunk' = [chunk EXCEPT ![w] = @ \ {d}]
        /\ phase[w] # "idle" /\ request[w].run \in Runs
    BY WorkerFields
    DEF ProviderFailed, PersistFails, CommitDate, CommitUnacknowledged,
        NextDate, IsCurrent
  <1>2. CASE ProviderFailed(w, d) \/ PersistFails(w, d)
    <2>1. /\ UNCHANGED <<candles, covered>>
          /\ dateErrors' = dateErrors \cup {[run |-> request[w].run, date |-> d]}
      BY <1>2 DEF ProviderFailed, PersistFails, RecordFailure, tables, done
    <2>2. CandleDates' \subseteq CandleDates \cup {d} /\ Recorded(d)'
      BY <1>1, <2>1 DEF CandleDates, Recorded
    <2> QED
      BY <1>1, <2>1, <2>2, DateDone
  <1>3. CASE CommitDate(w, d) \/ CommitUnacknowledged(w, d)
    <2>1. ApplyTransaction(w, d) /\ dateErrors \subseteq dateErrors'
      BY <1>3 DEF CommitDate, CommitUnacknowledged, RecordFailure
    <2>2. /\ CandleDates' \subseteq CandleDates \cup {d} /\ Recorded(d)'
          /\ \A r \in Runs : covered[r] \subseteq covered'[r]
      BY <1>1, <2>1, CandlesOfOneDate DEF Recorded
    <2> QED
      BY <1>1, <2>1, <2>2, DateDone
  <1> QED
    BY <1>2, <1>3

\* Every step keeps the invariant.
LEMMA StepDaily ==
    ASSUME TypeInv, OneCommand, DailyInv, [DailyNext]_vars
    PROVE  DailyInv'
  <1>1. ASSUME NEW w \in Workers, FinishRun(w) \/ CancelRun(w) \/ Die(w)
        PROVE  DailyInv'
    BY <1>1, DailyLeave DEF FinishRun, CancelRun, Die, tables, done
  <1>2. ASSUME NEW w \in Workers, NEW d \in Dates,
               \/ Fetch(w, d) \/ FetchFails(w, d)
               \/ \E t \in Tables : Statement(w, d, t)
        PROVE  DailyInv'
    BY <1>2, DailyFrame DEF Fetch, FetchFails, Answer, Statement, tables, done
  <1>3. ASSUME NEW w \in Workers, GatherReturns(w) \/ Interrupt(w)
        PROVE  DailyInv'
    <2>1. /\ UNCHANGED <<candles, todo, chunk, covered, dateErrors>>
          /\ \A v \in Workers : phase'[v] = "idle" => phase[v] = "idle"
      BY <1>3 DEF GatherReturns, Interrupt, tables, done, TypeInv, TypeOK
    <2> QED
      BY <2>1, DailyFrame
  <1>4. ASSUME NEW d \in Dates, NEW rows \in Payloads, Revise(d, rows)
        PROVE  DailyInv'
    BY <1>4, DailyFrame DEF Revise, tables, local, done
  <1>5. CASE UNCHANGED vars
    BY <1>5, DailyFrame DEF vars, tables, local, done
  <1> QED
    BY <1>1, <1>2, <1>3, <1>4, <1>5, DailyStart, DailyLaunch, DailyPersist
    DEF DailyNext, Rest, WorkerStep, DateStep

\* The invariant holds for ever.
LEMMA DailyInvariant == OneCommand => (DailySpec => []DailyInv)
  <1> SUFFICES ASSUME OneCommand
               PROVE  DailySpec => []DailyInv
    OBVIOUS
  <1>1. TypeInv /\ DailyInv /\ [DailyNext]_vars => DailyInv'
    BY StepDaily
  <1> QED
    BY <1>1, InitDaily, DailyTypes, PTL DEF DailySpec

\* SkippedDatesAreRecorded: with one command at a time, the start date of a run
\* never jumps over a weekday that is neither stored nor on record.
THEOREM NothingSkipped == OneCommand => (DailySpec => []SkippedDatesAreRecorded)
  <1>1. DailyInv => SkippedDatesAreRecorded
    BY DEF DailyInv
  <1> QED
    BY <1>1, DailyInvariant, PTL

\* CandlesAreAppended: with one command at a time a date is stored after every
\* date that has candles.
THEOREM Appended == OneCommand => (DailySpec => CandlesAreAppended)
  <1>1. TypeInv /\ DailyInv /\ [DailyNext]_vars =>
            [\A d \in Dates : candles'[d] # candles[d] =>
                 \A e \in CandleDates : e < d]_candles
    <2> SUFFICES ASSUME TypeInv, DailyInv, [DailyNext]_vars, NEW d \in Dates,
                        candles'[d] # candles[d], NEW e \in CandleDates
                 PROVE  e < d
      OBVIOUS
    <2>1. PICK w \in Workers, x \in Dates :
              CommitDate(w, x) \/ CommitUnacknowledged(w, x)
      <3>1. ASSUME NEW w \in Workers, NEW x \in Dates, DateStep(w, x),
                   ~CommitDate(w, x), ~CommitUnacknowledged(w, x)
            PROVE  UNCHANGED tables
        BY <3>1 DEF DateStep, Fetch, FetchFails, Answer, ProviderFailed,
                    Statement, PersistFails
      <3>2. ASSUME NEW w \in Workers,
                   \/ LaunchChunk(w) \/ GatherReturns(w) \/ CancelRun(w)
                   \/ FinishRun(w) \/ Interrupt(w) \/ Die(w)
            PROVE  UNCHANGED tables
        BY <3>2 DEF LaunchChunk, GatherReturns, CancelRun, FinishRun,
                    Interrupt, Die
      <3>3. ASSUME NEW w \in Workers, StartDaily(w) \/ StartInitialLoad(w)
            PROVE  UNCHANGED tables
        BY <3>3, StartsARun DEF StartRun
      <3>4. ASSUME NEW x \in Dates, NEW rows \in Payloads, Revise(x, rows)
            PROVE  UNCHANGED tables
        BY <3>4 DEF Revise
      <3>5. CASE UNCHANGED vars
        BY <3>5 DEF vars, tables
      <3>6. ~UNCHANGED tables
        BY DEF tables
      <3> QED
        BY <3>1, <3>2, <3>3, <3>4, <3>5, <3>6 DEF DailyNext, WorkerStep, Rest
    <2>2. ApplyTransaction(w, x) /\ IsCurrent(w, x) /\ phase[w] # "idle"
      BY <2>1 DEF CommitDate, CommitUnacknowledged, IsCurrent
    <2>3. d = x
      BY <2>2, CandlesOfOneDate
    <2> QED
      BY <2>2, <2>3 DEF IsCurrent, DailyInv, Ahead, Remaining
  <1> QED
    BY <1>1, DailyInvariant, DailyTypes, PTL DEF DailySpec, CandlesAreAppended
===============================================================================
