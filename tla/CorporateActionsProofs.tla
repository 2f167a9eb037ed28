------------------------ MODULE CorporateActionsProofs ------------------------
(***************************************************************************)
(* Theorems about CorporateActions: the event calendar and the adjusted    *)
(* prices, for any number of processes, symbols, payloads and faults.      *)
(***************************************************************************)
EXTENDS CorporateActions, FiniteSetTheorems, WellFoundedInduction, TLAPS

-------------------------------------------------------------------------------
(* Types                                                                   *)

States == {"rest", "sync", "events", "commit", "prices", "delete", "deleting",
           "insert"}

\* The types of what a step reads; a factor has none that a property needs.
TypeInv ==
    /\ candles = [s \in Symbols |-> candles[s]]
    /\ adjusted = [s \in Symbols |-> adjusted[s]]
    /\ events \in [Keys -> Nat]
    /\ pc \in [Workers -> States]
    /\ symbol \in [Workers -> Symbols]
    /\ tasks \in [Workers -> [Symbols -> Payloads \cup {Waiting, Failed, Done}]]
    /\ existing = [w \in Workers |-> existing[w]]
    /\ prices = [w \in Workers |-> prices[w]]
    /\ snapshot = [w \in Workers |-> snapshot[w]]
    /\ removed = [w \in Workers |-> removed[w]]
    /\ seen = [w \in Workers |-> seen[w]]
    /\ published \in [Symbols -> Payloads]
    /\ commands \in Nat

\* The database is empty at first, and no process runs.
LEMMA InitType == Init => TypeInv
  BY DEF Init, TypeInv, States

\* A task is set to the payload of its symbol, or to one of the three marks.
LEMMA TaskType ==
    ASSUME TypeInv, NEW w \in Workers, NEW s \in Symbols,
           NEW result \in Payloads \cup {Waiting, Failed, Done},
           tasks' = [tasks EXCEPT ![w][s] = result]
    PROVE  /\ tasks' \in [Workers -> [Symbols -> Payloads \cup {Waiting, Failed, Done}]]
           /\ tasks'[w][s] = result
           /\ \A v \in Workers, x \in Symbols :
                 v # w \/ x # s => tasks'[v][x] = tasks[v][x]
  BY DEF TypeInv

\* Every step keeps the types.
LEMMA StepType == TypeInv /\ [Next]_vars => TypeInv'
  <1> SUFFICES ASSUME TypeInv, [Next]_vars
               PROVE  TypeInv'
    OBVIOUS
  <1>1. ASSUME NEW w \in Workers, StartSync(w)
        PROVE  TypeInv'
    BY <1>1 DEF StartSync, Goto, TypeInv, States, database, rebuilding
  <1>2. ASSUME NEW w \in Workers, NEW s \in Symbols, Fetch(w, s)
        PROVE  TypeInv'
    <2>1. PICK result \in Payloads \cup {Waiting, Failed, Done} :
              tasks' = [tasks EXCEPT ![w][s] = result]
      BY <1>2 DEF Fetch, TypeInv
    <2>2. tasks' \in [Workers -> [Symbols -> Payloads \cup {Waiting, Failed, Done}]]
      BY <2>1, TaskType
    <2> QED
      BY <1>2, <2>2 DEF Fetch, TypeInv, database, rebuilding
  <1>3. ASSUME NEW w \in Workers, NEW s \in Symbols, Skip(w, s)
        PROVE  TypeInv'
    <2>1. tasks' \in [Workers -> [Symbols -> Payloads \cup {Waiting, Failed, Done}]]
      BY <1>3, TaskType DEF Skip
    <2> QED
      BY <1>3, <2>1 DEF Skip, TypeInv, database, rebuilding, bounds
  <1>4. ASSUME NEW w \in Workers, NEW s \in Symbols, UpsertActions(w, s)
        PROVE  TypeInv'
    BY <1>4
    DEF UpsertActions, Goto, TypeInv, States, database, syncing, rebuilding, bounds
  <1>5. ASSUME NEW w \in Workers, FindEvents(w)
        PROVE  TypeInv'
    BY <1>5 DEF FindEvents, Goto, TypeInv, States, database, rebuilding, bounds
  <1>6. ASSUME NEW w \in Workers, CommitActions(w)
        PROVE  TypeInv'
    <2>1. tasks' \in [Workers -> [Symbols -> Payloads \cup {Waiting, Failed, Done}]]
      BY <1>6, TaskType DEF CommitActions, TypeInv
    <2>2. events' \in [Keys -> Nat]
      BY <1>6 DEF CommitActions, TypeInv
    <2> QED
      BY <1>6, <2>1, <2>2 DEF CommitActions, Goto, TypeInv, States, rebuilding, bounds
  <1>7. ASSUME NEW w \in Workers, FinishSync(w)
        PROVE  TypeInv'
    BY <1>7 DEF FinishSync, Goto, TypeInv, States, database, syncing, rebuilding, bounds
  <1>8. ASSUME NEW w \in Workers, NEW s \in Symbols, ReadActions(w, s)
        PROVE  TypeInv'
    <2>1. PICK x : seen' = [seen EXCEPT ![w] = x]
      BY <1>8 DEF ReadActions
    <2>2. seen' = [v \in Workers |-> seen'[v]]
      BY <2>1 DEF TypeInv
    <2>3. commands' \in Nat
      BY <1>8 DEF ReadActions, TypeInv
    <2>4. pc' \in [Workers -> States] /\ symbol' \in [Workers -> Symbols]
      BY <1>8 DEF ReadActions, Goto, TypeInv, States
    <2> QED
      BY <1>8, <2>2, <2>3, <2>4 DEF ReadActions, TypeInv, database, syncing
  <1>9. ASSUME NEW w \in Workers, ReadPrices(w) \/ StartDelete(w) \/ Delete(w)
        PROVE  TypeInv'
    BY <1>9
    DEF ReadPrices, StartDelete, Delete, Goto, TypeInv, States, database, syncing,
        bounds
  <1>10. ASSUME NEW w \in Workers, Insert(w)
         PROVE  TypeInv'
    BY <1>10 DEF Insert, Goto, TypeInv, States, syncing, rebuilding, bounds
  <1>11. ASSUME NEW w \in Workers, Abort(w)
         PROVE  TypeInv'
    BY <1>11 DEF Abort, Goto, TypeInv, States, database, rebuilding
  <1>12. ASSUME NEW s \in Symbols, NEW d \in Sessions, StoreCandle(s, d)
         PROVE  TypeInv'
    BY <1>12 DEF StoreCandle, TypeInv, syncing, rebuilding, bounds
  <1>13. ASSUME NEW s \in Symbols, NEW p \in Payloads, Revise(s, p)
         PROVE  TypeInv'
    BY <1>13 DEF Revise, TypeInv, database, syncing, rebuilding
  <1>14. CASE UNCHANGED vars
    BY <1>14 DEF vars, database, syncing, rebuilding, bounds, TypeInv
  <1> QED
    BY <1>1, <1>2, <1>3, <1>4, <1>5, <1>6, <1>7, <1>8, <1>9, <1>10, <1>11,
       <1>12, <1>13, <1>14
    DEF Next, WorkerStep, SyncStep, RebuildStep, Rest
-------------------------------------------------------------------------------
(* One event per action                                                    *)

\* A transaction writes a payload, no other one writes its keys, and what it
\* found of its events is still so when it commits.
EventInv ==
    /\ \A w \in Workers : InTransaction(w) => Payload(w) \in Payloads
    /\ \A v, w \in Workers : v # w /\ InTransaction(v) /\ InTransaction(w) =>
          KeysOf(Payload(v)) \cap KeysOf(Payload(w)) = {}
    /\ \A w \in Workers : pc[w] = "commit" =>
          \A k \in KeysOf(Payload(w)) : k \in existing[w] <=> events[k] > 0
    /\ OneEventPerAction

\* A step that neither begins a transaction nor commits.
LEMMA EventFrame ==
    ASSUME EventInv, UNCHANGED <<actions, events>>,
           \A w \in Workers : pc'[w] \in {"events", "commit"} =>
               /\ pc'[w] = pc[w] /\ existing'[w] = existing[w]
               /\ tasks'[w][symbol'[w]] = tasks[w][symbol[w]]
    PROVE  EventInv'
  <1>1. ASSUME NEW w \in Workers, InTransaction(w)'
        PROVE  InTransaction(w) /\ Payload(w)' = Payload(w)
    BY <1>1 DEF InTransaction, Payload
  <1>2. OneEventPerAction'
    BY DEF EventInv, OneEventPerAction
  <1>3. ASSUME NEW w \in Workers, pc'[w] = "commit"
        PROVE  pc[w] = "commit" /\ existing'[w] = existing[w] /\ InTransaction(w)'
    BY <1>3 DEF InTransaction
  <1> QED
    BY <1>1, <1>2, <1>3 DEF EventInv

\* The statement that locks the actions of a payload.
LEMMA EventLocks ==
    ASSUME TypeInv, EventInv, NEW w \in Workers, NEW s \in Symbols, UpsertActions(w, s)
    PROVE  EventInv'
  <1>1. /\ pc' = [pc EXCEPT ![w] = "events"] /\ symbol' = [symbol EXCEPT ![w] = s]
        /\ tasks[w][s] \in Payloads
        /\ UNCHANGED <<actions, events, tasks, existing>>
    BY DEF UpsertActions, Goto, database, syncing
  <1>2. /\ Payload(w)' = tasks[w][s]
        /\ \A v \in Workers \ {w} : /\ Payload(v)' = Payload(v) /\ pc'[v] = pc[v]
                                    /\ InTransaction(v)' <=> InTransaction(v)
        /\ pc'[w] = "events"
    BY <1>1 DEF Payload, InTransaction, TypeInv
  <1>3. \A v \in Workers \ {w} : InTransaction(v) =>
            KeysOf(Payload(v)) \cap KeysOf(Payload(w)') = {}
    BY <1>2 DEF UpsertActions, LocksFree
  <1>4. \A x : KeysOf(x)' = KeysOf(x)
    BY DEF KeysOf, KeyOf
  <1>5. OneEventPerAction'
    BY <1>1 DEF EventInv, OneEventPerAction
  <1>6. \A v \in Workers : InTransaction(v)' => Payload(v)' \in Payloads
    BY <1>1, <1>2 DEF EventInv
  <1>7. \A u, v \in Workers : u # v /\ InTransaction(u)' /\ InTransaction(v)' =>
            KeysOf(Payload(u)') \cap KeysOf(Payload(v)') = {}
    BY <1>2, <1>3 DEF EventInv
  <1>8. \A v \in Workers : pc'[v] = "commit" =>
            \A k \in KeysOf(Payload(v)') : k \in existing'[v] <=> events'[k] > 0
    BY <1>1, <1>2 DEF EventInv
  <1> QED
    BY <1>5, <1>6, <1>7, <1>8 DEF EventInv

\* A payload's keys are known.
LEMMA PayloadKeys ==
    ASSUME NEW p \in Payloads
    PROVE  KeysOf(p) \subseteq Keys
  BY DEF KeysOf, Keys

\* The query for the events of a locked payload.
LEMMA EventQuery ==
    ASSUME TypeInv, EventInv, NEW w \in Workers, FindEvents(w)
    PROVE  EventInv'
  <1>1. /\ pc[w] = "events" /\ pc' = [pc EXCEPT ![w] = "commit"]
        /\ existing' = [existing EXCEPT ![w] = {k \in Keys : events[k] > 0}]
        /\ UNCHANGED <<actions, events, tasks, symbol>>
    BY DEF FindEvents, Goto, database
  <1>2. /\ existing'[w] = {k \in Keys : events[k] > 0}
        /\ \A v \in Workers \ {w} : existing'[v] = existing[v]
        /\ \A v \in Workers : /\ Payload(v)' = Payload(v)
                              /\ InTransaction(v)' <=> InTransaction(v)
                              /\ v # w => pc'[v] = pc[v]
        /\ InTransaction(w)
    BY <1>1 DEF Payload, InTransaction, TypeInv
  <1>3. KeysOf(Payload(w)) \subseteq Keys
    BY <1>2, PayloadKeys DEF EventInv
  <1>4. OneEventPerAction'
    BY <1>1 DEF EventInv, OneEventPerAction
  <1>5. \A v \in Workers : pc'[v] = "commit" =>
            \A k \in KeysOf(Payload(v)') : k \in existing'[v] <=> events'[k] > 0
    BY <1>1, <1>2, <1>3 DEF EventInv
  <1> QED
    BY <1>2, <1>4, <1>5 DEF EventInv

\* The commit: keys that have no event get one with their action.
LEMMA EventCommit ==
    ASSUME TypeInv, EventInv, NEW w \in Workers, CommitActions(w)
    PROVE  EventInv'
  <1> DEFINE p == Payload(w)
  <1>1. /\ pc[w] = "commit" /\ pc' = [pc EXCEPT ![w] = "sync"]
        /\ actions' = Merged(p)
        /\ events' = [k \in Keys |-> IF k \in KeysOf(p) \ existing[w]
                                     THEN events[k] + 1 ELSE events[k]]
        /\ tasks' = [tasks EXCEPT ![w][symbol[w]] = Done]
        /\ UNCHANGED <<symbol, existing>>
    BY DEF CommitActions, Goto
  <1>2. /\ pc'[w] = "sync" /\ InTransaction(w)
        /\ \A v \in Workers \ {w} : /\ Payload(v)' = Payload(v) /\ pc'[v] = pc[v]
                                    /\ InTransaction(v)' <=> InTransaction(v)
        /\ ~InTransaction(w)'
    BY <1>1 DEF Payload, InTransaction, TypeInv
  <1>3. p \in Payloads /\ KeysOf(p) \subseteq Keys
    BY <1>2, PayloadKeys DEF EventInv
  <1>4. \A k \in KeysOf(p) : k \in existing[w] <=> events[k] > 0
    BY <1>1 DEF EventInv
  <1>5. \A k \in Keys : (\E a \in actions' : KeyOf(a) = k) <=>
                        (k \in KeysOf(p) \/ \E a \in actions : KeyOf(a) = k)
    BY <1>1 DEF Merged, KeysOf
  <1>6. ASSUME NEW k \in Keys
        PROVE  events'[k] = IF \E a \in actions' : KeyOf(a) = k THEN 1 ELSE 0
    <2>1. events[k] \in Nat
      BY DEF TypeInv
    <2>2. events[k] = IF \E a \in actions : KeyOf(a) = k THEN 1 ELSE 0
      BY DEF EventInv, OneEventPerAction
    <2>3. CASE k \in KeysOf(p) \ existing[w]
      <3>1. events'[k] = events[k] + 1 /\ ~(events[k] > 0)
        BY <1>1, <1>4, <2>3
      <3>2. events'[k] = 1
        BY <2>1, <3>1
      <3> QED
        BY <1>5, <2>3, <3>2
    <2>4. CASE k \in KeysOf(p) /\ k \in existing[w]
      <3>1. events'[k] = events[k] /\ events[k] > 0
        BY <1>1, <1>4, <2>4
      <3>2. events'[k] = 1
        BY <2>1, <2>2, <3>1
      <3> QED
        BY <1>5, <2>4, <3>2
    <2>5. CASE k \notin KeysOf(p)
      BY <1>1, <1>5, <2>2, <2>5
    <2> QED
      BY <2>3, <2>4, <2>5
  <1>7. OneEventPerAction'
    BY <1>6 DEF OneEventPerAction
  <1>8. ASSUME NEW v \in Workers, pc'[v] = "commit", NEW k \in KeysOf(Payload(v)')
        PROVE  k \in existing'[v] <=> events'[k] > 0
    <2>1. v # w /\ Payload(v)' = Payload(v) /\ InTransaction(v) /\ pc[v] = "commit"
      BY <1>2, <1>8 DEF InTransaction
    <2>2. k \notin KeysOf(p) /\ k \in Keys
      BY <1>2, <1>8, <2>1, PayloadKeys DEF EventInv
    <2>3. events'[k] = events[k] /\ existing'[v] = existing[v]
      BY <1>1, <2>2
    <2> QED
      BY <1>8, <2>1, <2>3 DEF EventInv
  <1> HIDE DEF p
  <1> QED
    BY <1>2, <1>7, <1>8 DEF EventInv

\* All steps keep the calendar.
LEMMA StepEvents == TypeInv /\ EventInv /\ [Next]_vars => EventInv'
  <1> SUFFICES ASSUME TypeInv, EventInv, [Next]_vars
               PROVE  EventInv'
    OBVIOUS
  <1>1. ASSUME NEW w \in Workers, NEW at \in States \ {"events", "commit"},
               pc' = [pc EXCEPT ![w] = at],
               UNCHANGED <<actions, events, existing>>,
               \A v \in Workers \ {w} : tasks'[v] = tasks[v] /\ symbol'[v] = symbol[v]
        PROVE  EventInv'
    BY <1>1, EventFrame DEF TypeInv
  <1>2. ASSUME NEW w \in Workers,
               StartSync(w) \/ FinishSync(w) \/ ReadPrices(w) \/ StartDelete(w)
               \/ Delete(w) \/ Insert(w) \/ Abort(w)
        PROVE  EventInv'
    <2>1. PICK at \in States \ {"events", "commit"} : pc' = [pc EXCEPT ![w] = at]
      BY <1>2
      DEF StartSync, FinishSync, ReadPrices, StartDelete, Delete, Insert, Abort,
          Goto, States
    <2>2. UNCHANGED <<actions, events, existing, symbol>>
      BY <1>2
      DEF StartSync, FinishSync, ReadPrices, StartDelete, Delete, Insert, Abort,
          database, syncing
    <2>3. \A v \in Workers \ {w} : tasks'[v] = tasks[v]
      BY <1>2
      DEF StartSync, FinishSync, ReadPrices, StartDelete, Delete, Insert, Abort,
          syncing, TypeInv
    <2> QED
      BY <1>1, <2>1, <2>2, <2>3
  <1>3. ASSUME NEW w \in Workers, NEW s \in Symbols, ReadActions(w, s)
        PROVE  EventInv'
    <2>1. /\ pc' = [pc EXCEPT ![w] = "prices"] /\ symbol' = [symbol EXCEPT ![w] = s]
          /\ UNCHANGED <<actions, events, existing, tasks>>
      BY <1>3 DEF ReadActions, Goto, database, syncing
    <2> QED
      BY <1>1, <2>1 DEF States, TypeInv
  <1>4. ASSUME NEW w \in Workers, NEW s \in Symbols, Fetch(w, s) \/ Skip(w, s)
        PROVE  EventInv'
    <2>1. PICK result \in Payloads \cup {Waiting, Failed, Done} :
              tasks' = [tasks EXCEPT ![w][s] = result]
      BY <1>4 DEF Fetch, Skip, TypeInv
    <2>2. /\ tasks[w][s] \notin Payloads
          /\ UNCHANGED <<actions, events, existing, pc, symbol>>
      BY <1>4, ConstantsAssumption DEF Fetch, Skip, database
    <2>3. \A v \in Workers, x \in Symbols :
              v # w \/ x # s => tasks'[v][x] = tasks[v][x]
      BY <2>1, TaskType
    <2>4. ASSUME NEW v \in Workers, pc[v] \in {"events", "commit"}
          PROVE  tasks'[v][symbol[v]] = tasks[v][symbol[v]]
      <3>1. tasks[v][symbol[v]] \in Payloads /\ symbol[v] \in Symbols
        BY <2>4 DEF EventInv, InTransaction, Payload, TypeInv
      <3>2. v # w \/ symbol[v] # s
        BY <2>2, <3>1
      <3> QED
        BY <2>3, <3>1, <3>2
    <2> QED
      BY <2>2, <2>4, EventFrame
  <1>5. CASE UNCHANGED <<actions, events, existing, pc, symbol, tasks>>
    BY <1>5, EventFrame
  <1>6. ASSUME NEW s \in Symbols, (\E d \in Sessions : StoreCandle(s, d))
                                  \/ \E p \in Payloads : Revise(s, p)
        PROVE  EventInv'
    BY <1>5, <1>6 DEF StoreCandle, Revise, database, syncing
  <1>7. CASE UNCHANGED vars
    BY <1>5, <1>7 DEF vars, database, syncing
  <1> QED
    BY <1>2, <1>3, <1>4, <1>6, <1>7, EventLocks, EventQuery, EventCommit
    DEF Next, WorkerStep, SyncStep, RebuildStep, Rest

\* OneEventPerAction: whatever runs at once.
THEOREM Calendar == Spec => []OneEventPerAction
  <1>1. Init => EventInv
    BY DEF Init, EventInv, InTransaction, OneEventPerAction
  <1>2. EventInv => OneEventPerAction
    BY DEF EventInv
  <1> QED
    BY <1>1, <1>2, InitType, StepType, StepEvents, PTL DEF Spec
-------------------------------------------------------------------------------
(* One rebuild                                                             *)

IsReading(w) == pc[w] \in {"prices", "delete", "deleting", "insert"}
HasPrices(w) == pc[w] \in {"delete", "deleting", "insert"}

\* The rows a rebuild is about to remove, or has removed.
Held(w) == IF pc[w] = "deleting" THEN snapshot[w]
           ELSE IF pc[w] = "insert" THEN removed[w] ELSE {}

DatesOf(rows) == {row.date : row \in rows}

Comparable(X, Y) == X \subseteq Y \/ Y \subseteq X

WholeOrNone(X, rows) == X \cap rows = {} \/ rows \subseteq X

\* The row comes from none of the rebuilds that are under way.
Old(row) == /\ row.read[1] \in Nat /\ row.read[1] <= commands
            /\ \A w \in Workers : IsReading(w) => row.read[1] # seen[w][1]

\* Each rebuild under way has a number of its own.
Numbered ==
    /\ \A w \in Workers : IsReading(w) => seen[w][1] \in Nat /\ seen[w][1] <= commands
    /\ \A v, w \in Workers : v # w /\ IsReading(v) /\ IsReading(w) =>
          seen[v][1] # seen[w][1]
    /\ \A s \in Symbols : \A row \in adjusted[s] : Old(row)
    /\ \A w \in Workers : \A row \in Held(w) : Old(row)

\* Candles are never deleted: of two sets of dates that were read, one holds the
\* other.  So rows that a DELETE did not see make the INSERT fail.
Growing ==
    /\ \A s \in Symbols : DatesOf(adjusted[s]) \subseteq candles[s]
    /\ \A w \in Workers : HasPrices(w) =>
          /\ prices[w] \subseteq candles[symbol[w]]
          /\ Comparable(prices[w], DatesOf(adjusted[symbol[w]]))
    /\ \A v, w \in Workers : HasPrices(v) /\ HasPrices(w) /\ symbol[v] = symbol[w] =>
          Comparable(prices[v], prices[w])

\* OneRebuild, and what a rebuild holds is all of the rows or none of them.
Whole ==
    /\ OneRebuild
    /\ \A w \in Workers : WholeOrNone(Held(w), adjusted[symbol[w]])

RebuildInv == Numbered /\ Growing /\ Whole

\* A step of another kind.
LEMMA RebuildFrame ==
    ASSUME TypeInv, TypeInv', RebuildInv,
           UNCHANGED <<adjusted, prices, snapshot, removed, seen>>,
           commands <= commands',
           \A s \in Symbols : candles[s] \subseteq candles'[s],
           \A w \in Workers : IsReading(w)' => pc'[w] = pc[w] /\ symbol'[w] = symbol[w]
    PROVE  RebuildInv'
  <1>1. \A w \in Workers :
            /\ IsReading(w)' => IsReading(w) /\ symbol'[w] = symbol[w]
            /\ HasPrices(w)' => HasPrices(w) /\ symbol'[w] = symbol[w]
            /\ Held(w)' = {} \/ (Held(w)' = Held(w) /\ symbol'[w] = symbol[w])
    BY DEF IsReading, HasPrices, Held
  <1>2. \A row : Old(row) => Old(row)'
    BY <1>1 DEF Old, TypeInv
  <1>3. Numbered'
    <2>1. \A w \in Workers : IsReading(w)' =>
              seen'[w][1] \in Nat /\ seen'[w][1] <= commands'
      BY <1>1 DEF RebuildInv, Numbered, TypeInv
    <2>2. \A v, w \in Workers : v # w /\ IsReading(v)' /\ IsReading(w)' =>
              seen'[v][1] # seen'[w][1]
      BY <1>1 DEF RebuildInv, Numbered
    <2>3. \A s \in Symbols : \A row \in adjusted'[s] : Old(row)'
      BY <1>2 DEF RebuildInv, Numbered
    <2>4. \A w \in Workers : \A row \in Held(w)' : Old(row)'
      BY <1>1, <1>2 DEF RebuildInv, Numbered
    <2> QED
      BY <2>1, <2>2, <2>3, <2>4 DEF Numbered
  <1>4. Growing'
    <2>1. \A rows : DatesOf(rows)' = DatesOf(rows)
      BY DEF DatesOf
    <2>2. \A w \in Workers : symbol[w] \in Symbols
      BY DEF TypeInv
    <2> QED
      BY <1>1, <2>1, <2>2 DEF RebuildInv, Growing, Comparable
  <1>5. Whole'
    BY <1>1 DEF RebuildInv, Whole, OneRebuild, WholeOrNone
  <1> QED
    BY <1>3, <1>4, <1>5 DEF RebuildInv

\* A rebuild begins, with the next number.
LEMMA RebuildBegins ==
    ASSUME TypeInv, RebuildInv, NEW w \in Workers, NEW s \in Symbols, ReadActions(w, s)
    PROVE  RebuildInv'
  <1>1. /\ pc[w] = "rest" /\ pc' = [pc EXCEPT ![w] = "prices"]
        /\ symbol' = [symbol EXCEPT ![w] = s]
        /\ UNCHANGED <<candles, adjusted, prices, snapshot, removed>>
    BY DEF ReadActions, Goto, database
  <1>2. commands' = commands + 1
    BY DEF ReadActions
  <1>3. seen'[w] = <<commands', version[s]>> /\ \A v \in Workers \ {w} : seen'[v] = seen[v]
    BY DEF ReadActions, TypeInv
  <1>4. /\ commands \in Nat /\ commands' \in Nat /\ commands < commands'
        /\ seen'[w][1] = commands'
    BY <1>2, <1>3 DEF TypeInv
  <1>5. /\ pc'[w] = "prices"
        /\ \A v \in Workers \ {w} : pc'[v] = pc[v] /\ symbol'[v] = symbol[v]
    BY <1>1 DEF TypeInv
  <1>6. /\ \A v \in Workers \ {w} : /\ IsReading(v)' <=> IsReading(v)
                                    /\ HasPrices(v)' <=> HasPrices(v)
                                    /\ Held(v)' = Held(v)
        /\ ~HasPrices(w)' /\ Held(w)' = {}
    BY <1>1, <1>5 DEF IsReading, HasPrices, Held
  <1>7. ASSUME NEW row, Old(row)
        PROVE  Old(row)'
    <2>1. row.read[1] \in Nat /\ row.read[1] < commands'
      BY <1>4, <1>7 DEF Old
    <2>2. \A v \in Workers : IsReading(v)' => row.read[1] # seen'[v][1]
      BY <1>3, <1>4, <1>6, <1>7, <2>1 DEF Old
    <2> QED
      BY <1>4, <2>1, <2>2 DEF Old
  <1>8. Numbered'
    <2>1. \A v \in Workers : IsReading(v)' =>
              seen'[v][1] \in Nat /\ seen'[v][1] <= commands'
      BY <1>3, <1>4, <1>6 DEF RebuildInv, Numbered
    <2>2. ASSUME NEW u \in Workers, NEW v \in Workers, u # v, IsReading(u)', IsReading(v)'
          PROVE  seen'[u][1] # seen'[v][1]
      <3>1. \A x \in Workers \ {w} : IsReading(x)' => seen'[x][1] \in Nat /\ seen'[x][1] < commands'
        BY <1>3, <1>4, <1>6 DEF RebuildInv, Numbered
      <3>2. CASE u = w
        BY <1>4, <2>2, <3>1, <3>2
      <3>3. CASE v = w
        BY <1>4, <2>2, <3>1, <3>3
      <3>4. CASE u # w /\ v # w
        BY <1>3, <1>6, <2>2, <3>4 DEF RebuildInv, Numbered
      <3> QED
        BY <3>2, <3>3, <3>4
    <2>3. \A x \in Symbols : \A row \in adjusted'[x] : Old(row)'
      BY <1>1, <1>7 DEF RebuildInv, Numbered
    <2>4. \A v \in Workers : \A row \in Held(v)' : Old(row)'
      BY <1>6, <1>7 DEF RebuildInv, Numbered
    <2> QED
      BY <2>1, <2>2, <2>3, <2>4 DEF Numbered
  <1>9. Growing'
    <2>1. \A rows : DatesOf(rows)' = DatesOf(rows)
      BY DEF DatesOf
    <2> QED
      BY <1>1, <1>5, <1>6, <2>1 DEF RebuildInv, Growing, Comparable
  <1>10. Whole'
    BY <1>1, <1>5, <1>6 DEF RebuildInv, Whole, OneRebuild, WholeOrNone
  <1> QED
    BY <1>8, <1>9, <1>10 DEF RebuildInv

\* It reads the candles of its symbol, which are all there ever were.
LEMMA RebuildReads ==
    ASSUME TypeInv, RebuildInv, NEW w \in Workers, ReadPrices(w)
    PROVE  RebuildInv'
  <1>1. /\ pc[w] = "prices" /\ pc' = [pc EXCEPT ![w] = "delete"]
        /\ prices' = [prices EXCEPT ![w] = candles[symbol[w]]]
        /\ UNCHANGED <<candles, adjusted, symbol, snapshot, removed, seen, commands>>
    BY DEF ReadPrices, Goto, database, bounds
  <1>2. /\ pc'[w] = "delete" /\ prices'[w] = candles[symbol[w]]
        /\ \A v \in Workers \ {w} : pc'[v] = pc[v] /\ prices'[v] = prices[v]
    BY <1>1 DEF TypeInv
  <1>3. \A v \in Workers : /\ IsReading(v)' <=> IsReading(v)
                           /\ Held(v)' = Held(v)
                           /\ v # w => (HasPrices(v)' <=> HasPrices(v))
    BY <1>1, <1>2 DEF IsReading, HasPrices, Held
  <1>4. Numbered'
    BY <1>1, <1>3 DEF RebuildInv, Numbered, Old
  <1>5. \A v \in Workers : symbol[v] \in Symbols
    BY DEF TypeInv
  <1>6. Growing'
    <2>1. \A rows : DatesOf(rows)' = DatesOf(rows)
      BY DEF DatesOf
    <2>2. \A v \in Workers : HasPrices(v)' =>
              /\ prices'[v] \subseteq candles[symbol[v]]
              /\ Comparable(prices'[v], DatesOf(adjusted[symbol[v]]))
      BY <1>2, <1>3, <1>5 DEF RebuildInv, Growing, Comparable
    <2>3. ASSUME NEW u \in Workers, NEW v \in Workers,
                 HasPrices(u)', HasPrices(v)', symbol[u] = symbol[v]
          PROVE  Comparable(prices'[u], prices'[v])
      <3>1. CASE u = w \/ v = w
        BY <1>2, <2>2, <2>3, <3>1 DEF Comparable
      <3>2. CASE u # w /\ v # w
        BY <1>2, <1>3, <2>3, <3>2 DEF RebuildInv, Growing
      <3> QED
        BY <3>1, <3>2
    <2> QED
      BY <1>1, <2>1, <2>2, <2>3 DEF RebuildInv, Growing, Comparable
  <1>7. Whole'
    BY <1>1, <1>3 DEF RebuildInv, Whole, OneRebuild, WholeOrNone
  <1> QED
    BY <1>4, <1>6, <1>7 DEF RebuildInv

\* Its DELETE sees the rows that are there, and removes all or none of them.
LEMMA RebuildDeletes ==
    ASSUME TypeInv, RebuildInv, NEW w \in Workers, StartDelete(w) \/ Delete(w)
    PROVE  RebuildInv'
  <1>1. UNCHANGED <<candles, adjusted, prices, symbol, seen, commands>>
    BY DEF StartDelete, Delete, database, bounds
  <1>2. /\ HasPrices(w) /\ HasPrices(w)'
        /\ \A v \in Workers \ {w} : pc'[v] = pc[v] /\ Held(v)' = Held(v)
        /\ \/ Held(w)' = adjusted[symbol[w]]
           \/ Held(w)' = Held(w) \cap adjusted[symbol[w]]
    BY DEF StartDelete, Delete, Goto, HasPrices, Held, TypeInv
  <1>3. \A v \in Workers : /\ IsReading(v)' <=> IsReading(v)
                           /\ HasPrices(v)' <=> HasPrices(v)
    BY <1>2 DEF IsReading, HasPrices
  <1>4. symbol[w] \in Symbols
    BY DEF TypeInv
  <1>5. \A row : Old(row)' <=> Old(row)
    BY <1>1, <1>3 DEF Old
  <1>6. Numbered'
    BY <1>1, <1>2, <1>3, <1>4, <1>5 DEF RebuildInv, Numbered
  <1>7. Growing'
    BY <1>1, <1>3 DEF RebuildInv, Growing, DatesOf, Comparable
  <1>8. Whole'
    BY <1>1, <1>2 DEF RebuildInv, Whole, OneRebuild, WholeOrNone
  <1> QED
    BY <1>6, <1>7, <1>8 DEF RebuildInv

\* The rows that an INSERT adds.
Rows(w) == {[date |-> d, factor |-> Factor(w, d), read |-> seen[w]] : d \in prices[w]}

\* There is one for each price that was read.
LEMMA RowsOfPrices ==
    ASSUME NEW w \in Workers
    PROVE  /\ \A row \in Rows(w) : /\ row.read = seen[w] /\ row.date \in prices[w]
                                   /\ row.factor = Factor(w, row.date)
           /\ DatesOf(Rows(w)) = prices[w]
           /\ prices[w] = {} => Rows(w) = {}
  <1>1. ASSUME NEW row \in Rows(w)
        PROVE  /\ row.read = seen[w] /\ row.date \in prices[w]
               /\ row.factor = Factor(w, row.date)
    <2>1. PICK d \in prices[w] :
              row = [date |-> d, factor |-> Factor(w, d), read |-> seen[w]]
      BY DEF Rows
    <2> QED
      BY <2>1
  <1>2. ASSUME NEW d \in prices[w]
        PROVE  \E row \in Rows(w) : row.date = d
    <2> DEFINE row == [date |-> d, factor |-> Factor(w, d), read |-> seen[w]]
    <2>1. row \in Rows(w) /\ row.date = d
      BY DEF Rows
    <2> QED
      BY <2>1
  <1>3. prices[w] = {} => Rows(w) = {}
    BY DEF Rows
  <1> QED
    BY <1>1, <1>2, <1>3 DEF DatesOf

\* An INSERT meets no row that is left: the rows are all its own, or, where it
\* read no candles, those that were there or none.
LEMMA InsertedRows ==
    ASSUME TypeInv, RebuildInv, NEW w \in Workers, Insert(w)
    PROVE  /\ \/ adjusted'[symbol[w]] = adjusted[symbol[w]]
              \/ adjusted'[symbol[w]] = {}
              \/ adjusted'[symbol[w]] = Rows(w)
           /\ \A s \in Symbols \ {symbol[w]} : adjusted'[s] = adjusted[s]
  <1> DEFINE s == symbol[w]
  <1>1. /\ pc[w] = "insert" /\ ~Conflict(w)
        /\ adjusted' = [adjusted EXCEPT ![s] = Remaining(w) \cup Rows(w)]
    BY DEF Insert, Rows
  <1>2. s \in Symbols
    BY DEF TypeInv
  <1>3. HasPrices(w) /\ Held(w) = removed[w]
    BY <1>1 DEF HasPrices, Held
  <1>4. /\ adjusted'[s] = Remaining(w) \cup Rows(w)
        /\ \A x \in Symbols \ {s} : adjusted'[x] = adjusted[x]
    BY <1>1, <1>2 DEF TypeInv
  <1>5. Remaining(w) = {} \/ Remaining(w) = adjusted[s]
    BY <1>3 DEF Remaining, RebuildInv, Whole, WholeOrNone
  <1>6. Remaining(w) = {} \/ Rows(w) = {}
    <2> SUFFICES ASSUME Remaining(w) # {}, Rows(w) # {}
                 PROVE  FALSE
      OBVIOUS
    <2>1. PICK row \in adjusted[s] : TRUE
      BY <1>5
    <2>2. PICK d \in prices[w] : TRUE
      BY RowsOfPrices
    <2>3. Comparable(prices[w], DatesOf(adjusted[s]))
      BY <1>3 DEF RebuildInv, Growing
    <2>4. \E x \in adjusted[s] : x.date \in prices[w]
      BY <2>1, <2>2, <2>3 DEF Comparable, DatesOf
    <2> QED
      BY <1>1, <1>5, <2>4 DEF Conflict
  <1> QED
    BY <1>4, <1>5, <1>6

\* An INSERT keeps the rows together.
LEMMA RebuildInserts ==
    ASSUME TypeInv, RebuildInv, NEW w \in Workers, Insert(w)
    PROVE  RebuildInv'
  <1> DEFINE s == symbol[w]
             new == Rows(w)
  <1>1. /\ pc[w] = "insert" /\ pc' = [pc EXCEPT ![w] = "rest"]
        /\ UNCHANGED <<candles, symbol, prices, snapshot, removed, seen, commands>>
    BY DEF Insert, Goto, rebuilding, bounds
  <1>2. s \in Symbols
    BY DEF TypeInv
  <1>3. /\ \A row \in new : row.read = seen[w]
        /\ DatesOf(new) = prices[w]
    BY RowsOfPrices
  <1>4. /\ IsReading(w) /\ HasPrices(w) /\ Held(w) = removed[w]
        /\ ~IsReading(w)' /\ ~HasPrices(w)' /\ Held(w)' = {}
        /\ \A v \in Workers \ {w} : /\ IsReading(v)' <=> IsReading(v)
                                    /\ HasPrices(v)' <=> HasPrices(v)
                                    /\ Held(v)' = Held(v)
    BY <1>1 DEF IsReading, HasPrices, Held, TypeInv
  <1>5. \A x \in Symbols \ {s} : adjusted'[x] = adjusted[x]
    BY InsertedRows
  <1>6. \/ adjusted'[s] = adjusted[s]
        \/ adjusted'[s] = {}
        \/ adjusted'[s] = new
    BY InsertedRows
  <1> HIDE DEF new
  <1>7. \A row : Old(row) => Old(row)'
    BY <1>1, <1>4 DEF Old
  <1>8. ASSUME NEW row \in new
         PROVE  Old(row)'
    BY <1>1, <1>3, <1>4 DEF Old, RebuildInv, Numbered
  <1>9. Numbered'
    <2>1. \A x \in Symbols : \A row \in adjusted'[x] : Old(row)'
      BY <1>2, <1>5, <1>6, <1>7, <1>8 DEF RebuildInv, Numbered
    <2>2. \A v \in Workers : \A row \in Held(v)' : Old(row)'
      BY <1>4, <1>7 DEF RebuildInv, Numbered
    <2> QED
      BY <1>1, <1>4, <2>1, <2>2 DEF RebuildInv, Numbered
  <1>10. Growing'
    <2>1. \A rows : DatesOf(rows)' = DatesOf(rows)
      BY DEF DatesOf
    <2>2. DatesOf(new) = prices[w] /\ DatesOf({}) = {}
      BY <1>3 DEF DatesOf
    <2>3. \/ DatesOf(adjusted'[s]) = DatesOf(adjusted[s])
          \/ DatesOf(adjusted'[s]) = {}
          \/ DatesOf(adjusted'[s]) = prices[w]
      BY <1>6, <2>2
    <2>4. \A x \in Symbols : DatesOf(adjusted'[x]) \subseteq candles[x]
      BY <1>2, <1>4, <1>5, <2>3 DEF RebuildInv, Growing
    <2>5. ASSUME NEW v \in Workers, v # w, HasPrices(v)
          PROVE  Comparable(prices[v], DatesOf(adjusted'[symbol[v]]))
      <3>1. CASE symbol[v] = s
        BY <1>4, <2>3, <2>5, <3>1 DEF RebuildInv, Growing, Comparable
      <3>2. CASE symbol[v] # s
        BY <1>5, <2>5, <3>2 DEF RebuildInv, Growing, TypeInv
      <3> QED
        BY <3>1, <3>2
    <2> QED
      BY <1>1, <1>4, <2>1, <2>4, <2>5 DEF RebuildInv, Growing, Comparable
  <1>11. Whole'
    <2>1. OneRebuild'
      BY <1>2, <1>3, <1>5, <1>6 DEF RebuildInv, Whole, OneRebuild
    <2>2. ASSUME NEW v \in Workers, v # w
          PROVE  WholeOrNone(Held(v), adjusted'[symbol[v]])
      <3>1. CASE symbol[v] = s
        <4>1. \A row \in new : row \notin Held(v)
          BY <1>3, <1>4 DEF RebuildInv, Numbered, Old
        <4> QED
          BY <1>6, <3>1, <4>1 DEF RebuildInv, Whole, WholeOrNone
      <3>2. CASE symbol[v] # s
        BY <1>5, <3>2 DEF RebuildInv, Whole, TypeInv
      <3> QED
        BY <3>1, <3>2
    <2> QED
      BY <1>1, <1>4, <2>1, <2>2 DEF Whole, WholeOrNone
  <1> QED
    BY <1>9, <1>10, <1>11 DEF RebuildInv

\* All steps keep the rows together.
LEMMA StepRebuild == TypeInv /\ TypeInv' /\ RebuildInv /\ [Next]_vars => RebuildInv'
  <1> SUFFICES ASSUME TypeInv, TypeInv', RebuildInv, [Next]_vars
               PROVE  RebuildInv'
    OBVIOUS
  <1>1. ASSUME NEW w \in Workers, NEW at \in States, pc' = [pc EXCEPT ![w] = at],
               at \in {"rest", "sync", "events", "commit"},
               \A v \in Workers \ {w} : symbol'[v] = symbol[v],
               \A x \in Symbols : candles[x] \subseteq candles'[x],
               UNCHANGED <<adjusted, prices, snapshot, removed, seen>>,
               commands <= commands'
        PROVE  RebuildInv'
    <2>1. \A v \in Workers : IsReading(v)' => pc'[v] = pc[v] /\ symbol'[v] = symbol[v]
      BY <1>1 DEF IsReading, TypeInv
    <2> QED
      BY <1>1, <2>1, RebuildFrame
  <1>2. commands \in Nat /\ commands <= commands /\ commands <= commands + 1
    BY DEF TypeInv
  <1>3. ASSUME NEW w \in Workers,
               StartSync(w) \/ FindEvents(w) \/ CommitActions(w) \/ FinishSync(w)
               \/ Abort(w)
        PROVE  RebuildInv'
    <2>1. PICK at \in {"rest", "sync", "events", "commit"} :
              pc' = [pc EXCEPT ![w] = at]
      BY <1>3 DEF StartSync, FindEvents, CommitActions, FinishSync, Abort, Goto
    <2>2. UNCHANGED <<candles, adjusted, symbol, prices, snapshot, removed, seen>>
      BY <1>3
      DEF StartSync, FindEvents, CommitActions, FinishSync, Abort, database,
          rebuilding
    <2>3. commands' = commands \/ commands' = commands + 1
      BY <1>3 DEF StartSync, FindEvents, CommitActions, FinishSync, Abort, bounds
    <2>4. commands <= commands' /\ at \in States
      BY <1>2, <2>3 DEF States
    <2> QED
      BY <1>1, <2>1, <2>2, <2>4
  <1>4. ASSUME NEW w \in Workers, NEW s \in Symbols, UpsertActions(w, s)
        PROVE  RebuildInv'
    <2>1. /\ pc' = [pc EXCEPT ![w] = "events"] /\ symbol' = [symbol EXCEPT ![w] = s]
          /\ UNCHANGED <<candles, adjusted, prices, snapshot, removed, seen, commands>>
      BY <1>4 DEF UpsertActions, Goto, database, rebuilding, bounds
    <2>2. "events" \in States /\ \A v \in Workers \ {w} : symbol'[v] = symbol[v]
      BY <2>1 DEF States, TypeInv
    <2> QED
      BY <1>1, <1>2, <2>1, <2>2
  <1>5. ASSUME UNCHANGED <<adjusted, pc, symbol, prices, snapshot, removed, seen, commands>>,
               \A x \in Symbols : candles[x] \subseteq candles'[x]
        PROVE  RebuildInv'
    BY <1>2, <1>5, RebuildFrame
  <1>6. ASSUME NEW w \in Workers, NEW s \in Symbols, Fetch(w, s) \/ Skip(w, s)
        PROVE  RebuildInv'
    BY <1>5, <1>6 DEF Fetch, Skip, database, rebuilding, bounds
  <1>7. ASSUME NEW s \in Symbols, NEW d \in Sessions, StoreCandle(s, d)
        PROVE  RebuildInv'
    BY <1>5, <1>7 DEF StoreCandle, rebuilding, bounds, TypeInv
  <1>8. ASSUME NEW s \in Symbols, NEW p \in Payloads, Revise(s, p)
        PROVE  RebuildInv'
    BY <1>5, <1>8 DEF Revise, database, rebuilding
  <1>9. CASE UNCHANGED vars
    BY <1>5, <1>9 DEF vars, database, rebuilding, bounds
  <1> QED
    BY <1>3, <1>4, <1>6, <1>7, <1>8, <1>9, RebuildBegins, RebuildReads,
       RebuildDeletes, RebuildInserts
    DEF Next, WorkerStep, SyncStep, RebuildStep, Rest

\* OneRebuild: whatever runs at once, and whatever fails or dies.
THEOREM Adjusted == Spec => []OneRebuild
  <1>1. Init => RebuildInv
    BY DEF Init, RebuildInv, Numbered, Growing, Whole, IsReading, HasPrices, Held,
           DatesOf, OneRebuild, WholeOrNone
  <1>2. RebuildInv => OneRebuild
    BY DEF RebuildInv, Whole
  <1> QED
    BY <1>1, <1>2, InitType, StepType, StepRebuild, PTL DEF Spec
-------------------------------------------------------------------------------
(* Products of ratios                                                      *)

\* The cumulative ratio of a set of actions.
Ratio(S) == FoldSet(LAMBDA a, product : a.ratio * product, 1, S)

\* The member a fold takes first.
First(S) == CHOOSE a \in S : TRUE

\* The function that folds the subsets of S.
Computes(f, S) ==
    f = [s \in SUBSET S |-> IF s = {} THEN 1
                            ELSE First(s).ratio * f[s \ {First(s)}]]

\* It is what that function says of the whole set.
LEMMA RatioComputed ==
    ASSUME NEW S
    PROVE  Ratio(S) = (CHOOSE f : Computes(f, S))[S]
  BY DEF Ratio, FoldSet, MapThenFoldSet, Computes, First

\* A finite set has a smallest subset among some.
LEMMA Smallest ==
    ASSUME NEW S, IsFiniteSet(S), NEW B \in SUBSET (SUBSET S), B # {}
    PROVE  \E s \in B : \A t \in B : t \subseteq s => t = s
  <1>1. B \subseteq FiniteSubsetsOf(S)
    BY FS_FiniteSubsetsOfFinite
  <1>2. PICK s \in B : \A t \in B : <<t, s>> \notin StrictSubsetOrdering(S)
    BY <1>1, FS_StrictSubsetOrderingWellFounded, WFMin
  <1> QED
    BY <1>2 DEF StrictSubsetOrdering

\* What is left of a set without its first member is smaller.
LEMMA WithoutFirst ==
    ASSUME NEW S, S # {}
    PROVE  /\ First(S) \in S /\ S \ {First(S)} \subseteq S
           /\ S \ {First(S)} # S
  BY DEF First

\* Functions for two sets agree on what both fold.
LEMMA OneFunction ==
    ASSUME NEW S, IsFiniteSet(S), NEW T \in SUBSET S, NEW f, NEW g,
           Computes(f, S), Computes(g, T)
    PROVE  \A s \in SUBSET T : f[s] = g[s]
  <1> DEFINE B == {s \in SUBSET T : f[s] # g[s]}
  <1> SUFFICES ASSUME B # {}
               PROVE  FALSE
    OBVIOUS
  <1>1. PICK s \in B : \A t \in B : t \subseteq s => t = s
    <2>1. IsFiniteSet(T) /\ B \in SUBSET (SUBSET T)
      BY FS_Subset
    <2> HIDE DEF B
    <2> QED
      BY <2>1, Smallest
  <1>2. s \in SUBSET T /\ f[s] # g[s] /\ s \in SUBSET S
    BY <1>1
  <1>3. CASE s = {}
    BY <1>2, <1>3 DEF Computes
  <1>4. CASE s # {}
    <2>1. f[s \ {First(s)}] = g[s \ {First(s)}]
      BY <1>1, <1>2, <1>4, WithoutFirst
    <2>2. /\ f[s] = First(s).ratio * f[s \ {First(s)}]
          /\ g[s] = First(s).ratio * g[s \ {First(s)}]
      BY <1>2, <1>4 DEF Computes
    <2> QED
      BY <1>2, <2>1, <2>2
  <1> QED
    BY <1>3, <1>4

\* There is such a function, and its values are numbers: a smallest set without
\* one would get it from those of its subsets.
LEMMA SomeFunction ==
    ASSUME NEW S \in SUBSET Action, IsFiniteSet(S)
    PROVE  \E f \in [SUBSET S -> Nat] : Computes(f, S)
  <1> DEFINE Good(s) == \E f \in [SUBSET s -> Nat] : Computes(f, s)
             B == {s \in SUBSET S : ~Good(s)}
  <1> SUFFICES ASSUME B # {}
               PROVE  FALSE
    OBVIOUS
  <1>1. PICK s \in B : \A t \in B : t \subseteq s => t = s
    <2>1. B \in SUBSET (SUBSET S)
      OBVIOUS
    <2> HIDE DEF B
    <2> QED
      BY <2>1, Smallest
  <1> HIDE DEF Good
  <1>2. s \in SUBSET S /\ ~Good(s) /\ \A t \in SUBSET s : t # s => Good(t)
    BY <1>1
  <1> DEFINE Of(t) == CHOOSE f : f \in [SUBSET t -> Nat] /\ Computes(f, t)
             rest(t) == t \ {First(t)}
             g == [t \in SUBSET s |-> IF t = {} THEN 1
                                      ELSE First(t).ratio * Of(rest(t))[rest(t)]]
  <1>3. \A t \in SUBSET s : Good(t) => Of(t) \in [SUBSET t -> Nat] /\ Computes(Of(t), t)
    BY DEF Good
  <1>4. ASSUME NEW t \in SUBSET s, t # {}
        PROVE  /\ rest(t) \in SUBSET s /\ rest(t) # s /\ Good(rest(t))
               /\ First(t).ratio \in Nat
    <2>1. First(t) \in t /\ First(t) \notin rest(t) /\ rest(t) \subseteq s /\ rest(t) # s
      BY <1>4, WithoutFirst
    <2>2. First(t) \in Action
      BY <1>2, <2>1
    <2>3. First(t).ratio \in Nat
      BY <2>2 DEF Action
    <2> HIDE DEF rest
    <2> QED
      BY <1>2, <2>1, <2>3
  <1>5. ASSUME NEW t \in SUBSET s, Good(t), Good(rest(t)), t # {}
        PROVE  Of(t)[t] = First(t).ratio * Of(rest(t))[rest(t)]
    <2>1. /\ Computes(Of(t), t) /\ Computes(Of(rest(t)), rest(t))
          /\ IsFiniteSet(t) /\ rest(t) \in SUBSET t
      BY <1>2, <1>3, <1>5, FS_Subset
    <2> HIDE DEF Of, rest
    <2>2. Of(t)[rest(t)] = Of(rest(t))[rest(t)]
      BY <2>1, OneFunction
    <2>3. Of(t)[t] = First(t).ratio * Of(t)[rest(t)]
      BY <1>5, <2>1 DEF Computes, rest
    <2> QED
      BY <2>2, <2>3
  <1>6. ASSUME NEW t \in SUBSET s, t # s
        PROVE  g[t] = Of(t)[t]
    <2>1. Good(t)
      BY <1>2, <1>6
    <2>2. CASE t = {}
      <3>1. Computes(Of(t), t)
        BY <1>3, <2>1
      <3> HIDE DEF Of
      <3> QED
        BY <2>2, <3>1 DEF Computes
    <2>3. CASE t # {}
      BY <1>4, <1>5, <2>1, <2>3
    <2> QED
      BY <2>2, <2>3
  <1>7. ASSUME NEW t \in SUBSET s
        PROVE  g[t] \in Nat
    <2>1. CASE t = {}
      BY <2>1
    <2>2. CASE t # {}
      <3>1. Of(rest(t)) \in [SUBSET rest(t) -> Nat] /\ First(t).ratio \in Nat
        BY <1>3, <1>4, <2>2
      <3> DEFINE n == Of(rest(t))[rest(t)]
                 r == First(t).ratio
      <3>2. n \in Nat /\ r \in Nat /\ g[t] = r * n
        BY <2>2, <3>1
      <3> HIDE DEF n, r, g
      <3> QED
        BY <3>2
    <2> QED
      BY <2>1, <2>2
  <1>8. g \in [SUBSET s -> Nat]
    BY <1>7
  <1>9. ASSUME NEW t \in SUBSET s
        PROVE  g[t] = IF t = {} THEN 1 ELSE First(t).ratio * g[rest(t)]
    <2>1. CASE t # {}
      <3>1. rest(t) \in SUBSET s /\ rest(t) # s
        BY <1>4, <2>1
      <3> HIDE DEF rest, Of
      <3>2. g[rest(t)] = Of(rest(t))[rest(t)]
        BY <1>6, <3>1
      <3> QED
        BY <2>1, <3>2
    <2> QED
      BY <2>1
  <1>10. Computes(g, s)
    <2>1. g = [t \in SUBSET s |-> g[t]]
      OBVIOUS
    <2> HIDE DEF g
    <2> QED
      BY <1>9, <2>1 DEF Computes
  <1> QED
    BY <1>2, <1>8, <1>10 DEF Good

\* So the ratio of a set is that of its first member times that of the others.
LEMMA RatioSteps ==
    ASSUME NEW S \in SUBSET Action, IsFiniteSet(S)
    PROVE  /\ Ratio(S) \in Nat
           /\ S = {} => Ratio(S) = 1
           /\ S # {} => Ratio(S) = First(S).ratio * Ratio(S \ {First(S)})
  <1> DEFINE Of(T) == CHOOSE f : Computes(f, T)
  <1>1. ASSUME NEW T \in SUBSET S
        PROVE  /\ Of(T) \in [SUBSET T -> Nat] /\ Computes(Of(T), T)
               /\ Ratio(T) = Of(T)[T]
    <2>1. T \in SUBSET Action /\ IsFiniteSet(T)
      BY FS_Subset
    <2>2. PICK f \in [SUBSET T -> Nat] : Computes(f, T)
      BY <2>1, SomeFunction
    <2>3. Computes(Of(T), T)
      BY <2>2
    <2>4. \A s \in SUBSET T : Of(T)[s] = f[s]
      <3> HIDE DEF Of
      <3> QED
        BY <2>1, <2>2, <2>3, OneFunction
    <2>5. Of(T) = [s \in SUBSET T |-> Of(T)[s]]
      BY <2>3 DEF Computes
    <2>6. Ratio(T) = Of(T)[T]
      BY RatioComputed
    <2> HIDE DEF Of
    <2>7. Of(T) \in [SUBSET T -> Nat]
      BY <2>2, <2>4, <2>5
    <2> QED
      BY <2>3, <2>6, <2>7
  <1> HIDE DEF Of
  <1>2. Ratio(S) \in Nat
    <2>1. S \in SUBSET S /\ Of(S) \in [SUBSET S -> Nat]
      BY <1>1
    <2>2. Of(S)[S] \in Nat
      BY <2>1
    <2> QED
      BY <1>1, <2>2
  <1>3. CASE S = {}
    BY <1>1, <1>2, <1>3 DEF Computes
  <1>4. CASE S # {}
    <2>1. S \ {First(S)} \in SUBSET S
      OBVIOUS
    <2>2. Of(S)[S \ {First(S)}] = Of(S \ {First(S)})[S \ {First(S)}]
      <3> DEFINE T == S \ {First(S)}
      <3>1. T \in SUBSET S /\ S \in SUBSET S
        OBVIOUS
      <3> HIDE DEF T
      <3>2. Computes(Of(S), S) /\ Computes(Of(T), T)
        BY <1>1, <3>1
      <3>3. Of(S)[T] = Of(T)[T]
        BY <3>1, <3>2, OneFunction
      <3> QED
        BY <3>3 DEF T
    <2>3. Of(S)[S] = First(S).ratio * Of(S)[S \ {First(S)}]
      BY <1>1, <1>4 DEF Computes
    <2> QED
      BY <1>1, <1>2, <1>4, <2>1, <2>2, <2>3
  <1> QED
    BY <1>2, <1>3, <1>4

\* Any member may be taken first.
LEMMA RatioOfMember ==
    ASSUME NEW S \in SUBSET Action, IsFiniteSet(S), NEW a \in S
    PROVE  Ratio(S) = a.ratio * Ratio(S \ {a})
  <1> DEFINE B == {s \in SUBSET S : \E x \in s : Ratio(s) # x.ratio * Ratio(s \ {x})}
  <1> SUFFICES ASSUME B # {}
               PROVE  FALSE
    OBVIOUS
  <1>1. PICK s \in B : \A t \in B : t \subseteq s => t = s
    <2>1. B \in SUBSET (SUBSET S)
      OBVIOUS
    <2> HIDE DEF B
    <2> QED
      BY <2>1, Smallest
  <1>2. PICK x \in s : Ratio(s) # x.ratio * Ratio(s \ {x})
    BY <1>1
  <1>3. \A t \in SUBSET s : t # s => \A y \in t : Ratio(t) = y.ratio * Ratio(t \ {y})
    BY <1>1
  <1>4. \A t \in SUBSET s : t \in SUBSET Action /\ IsFiniteSet(t)
    BY <1>1, FS_Subset
  <1> HIDE DEF B
  <1> DEFINE y == First(s)
             rest == s \ {x, y}
  <1>5. y \in s /\ Ratio(s) = y.ratio * Ratio(s \ {y})
    BY <1>4, RatioSteps, WithoutFirst
  <1>6. x # y
    BY <1>2, <1>5
  <1>7. Ratio(s \ {y}) = x.ratio * Ratio(rest)
    <2>1. s \ {y} \in SUBSET s /\ s \ {y} # s /\ x \in s \ {y}
      BY <1>5, <1>6
    <2>2. (s \ {y}) \ {x} = rest
      OBVIOUS
    <2> QED
      BY <1>3, <2>1, <2>2
  <1>8. Ratio(s \ {x}) = y.ratio * Ratio(rest)
    <2>1. s \ {x} \in SUBSET s /\ s \ {x} # s /\ y \in s \ {x}
      BY <1>5, <1>6
    <2>2. (s \ {x}) \ {y} = rest
      OBVIOUS
    <2> QED
      BY <1>3, <2>1, <2>2
  <1>9. x.ratio \in Nat /\ y.ratio \in Nat /\ Ratio(rest) \in Nat
    <2>1. x \in Action /\ y \in Action /\ rest \in SUBSET s
      BY <1>4, <1>5
    <2> HIDE DEF rest
    <2>2. Ratio(rest) \in Nat
      BY <1>4, <2>1, RatioSteps
    <2> QED
      BY <2>1, <2>2 DEF Action
  <1>10. \A k, m, n \in Nat : k * (m * n) = m * (k * n)
    OBVIOUS
  <1> HIDE DEF y, rest
  <1>11. y.ratio * (x.ratio * Ratio(rest)) = x.ratio * (y.ratio * Ratio(rest))
    BY <1>9, <1>10
  <1> QED
    BY <1>2, <1>5, <1>7, <1>8, <1>11

\* The ratios of two sets without a common action multiply.
LEMMA RatioOfUnion ==
    ASSUME NEW S \in SUBSET Action, IsFiniteSet(S), NEW T \in SUBSET S
    PROVE  Ratio(S) = Ratio(T) * Ratio(S \ T)
  <1> DEFINE rest == S \ T
             B == {t \in SUBSET T : Ratio(t \cup rest) # Ratio(t) * Ratio(rest)}
  <1> SUFFICES ASSUME B # {}
               PROVE  FALSE
    <2>1. T \notin B /\ T \cup rest = S
      OBVIOUS
    <2> QED
      BY <2>1
  <1>1. PICK t \in B : \A u \in B : u \subseteq t => u = t
    <2>1. B \in SUBSET (SUBSET T) /\ IsFiniteSet(T)
      BY FS_Subset
    <2> HIDE DEF B
    <2> QED
      BY <2>1, Smallest
  <1>2. \A u \in SUBSET S : u \in SUBSET Action /\ IsFiniteSet(u) /\ Ratio(u) \in Nat
    BY FS_Subset, RatioSteps
  <1>3. t \subseteq T /\ Ratio(t \cup rest) # Ratio(t) * Ratio(rest)
    BY <1>1
  <1>4. CASE t = {}
    <2>1. Ratio(t) = 1 /\ t \cup rest = rest /\ Ratio(rest) \in Nat
      BY <1>2, <1>3, <1>4, RatioSteps
    <2> QED
      BY <1>3, <2>1
  <1>5. CASE t # {}
    <2>1. PICK a \in t : TRUE
      BY <1>5
    <2> DEFINE u == t \ {a}
    <2>2. Ratio(u \cup rest) = Ratio(u) * Ratio(rest)
      <3>1. u \in SUBSET T /\ u \subseteq t /\ u # t
        BY <1>3, <2>1
      <3> HIDE DEF u, rest
      <3> QED
        BY <1>1, <3>1
    <2>3. Ratio(t) = a.ratio * Ratio(u)
      BY <1>2, <1>3, <2>1, RatioOfMember
    <2>4. Ratio(t \cup rest) = a.ratio * Ratio(u \cup rest)
      <3>1. t \cup rest \in SUBSET S /\ a \in t \cup rest
        BY <1>3, <2>1
      <3>2. (t \cup rest) \ {a} = u \cup rest
        BY <1>3, <2>1
      <3> QED
        BY <1>2, <3>1, <3>2, RatioOfMember
    <2>5. a.ratio \in Nat /\ Ratio(u) \in Nat /\ Ratio(rest) \in Nat
      <3>1. a \in Action /\ u \in SUBSET S /\ rest \in SUBSET S
        BY <1>3, <2>1
      <3> HIDE DEF u, rest
      <3> QED
        BY <1>2, <3>1 DEF Action
    <2>6. \A k, m, n \in Nat : k * (m * n) = (k * m) * n
      OBVIOUS
    <2> HIDE DEF u, rest, B
    <2>7. a.ratio * (Ratio(u) * Ratio(rest)) = (a.ratio * Ratio(u)) * Ratio(rest)
      BY <2>5, <2>6
    <2> QED
      BY <1>3, <2>2, <2>3, <2>4, <2>7
  <1> QED
    BY <1>4, <1>5
-------------------------------------------------------------------------------
(* Factors                                                                 *)

\* The splits a rebuild would read.
Splits(s) == {a \in actions : a.symbol = s /\ IsSplit(a)}

\* Types, and versions that only grow: none that was read is ahead.
FactorTypes ==
    /\ actions \subseteq Action /\ IsFiniteSet(actions)
    /\ version \in [Symbols -> Nat]
    /\ usable = [w \in Workers |-> usable[w]]
    /\ \A s \in Symbols : candles[s] \subseteq Dates
    /\ \A w \in Workers : IsReading(w) =>
          seen[w][2] \in Nat /\ seen[w][2] <= version[symbol[w]]
    /\ \A s \in Symbols : \A row \in adjusted[s] :
          row.read[2] \in Nat /\ row.read[2] <= version[s]

\* What was read at the version a symbol still has is what there is.
Current ==
    /\ \A w \in Workers : IsReading(w) /\ seen[w][2] = version[symbol[w]] =>
          /\ usable[w] = Splits(symbol[w])
          /\ HasPrices(w) => prices[w] = candles[symbol[w]]
    /\ \A s \in Symbols : \A row \in adjusted[s] : row.read[2] = version[s] =>
          /\ row.factor = Ratio({a \in Splits(s) : a.date > row.date})
          /\ DatesOf(adjusted[s]) = candles[s]

FactorInv == FactorTypes /\ Current

\* A step after which a symbol that has its version has its splits and candles.
LEMMA FactorFrame ==
    ASSUME TypeInv, TypeInv', FactorInv,
           UNCHANGED <<adjusted, usable, seen>>,
           actions' \subseteq Action, IsFiniteSet(actions'),
           version' \in [Symbols -> Nat],
           \A s \in Symbols :
               /\ version[s] <= version'[s] /\ candles'[s] \subseteq Dates
               /\ version'[s] = version[s] =>
                     candles'[s] = candles[s] /\ Splits(s)' = Splits(s),
           \A w \in Workers : IsReading(w)' =>
               /\ IsReading(w) /\ symbol'[w] = symbol[w]
               /\ HasPrices(w)' => \/ HasPrices(w) /\ prices'[w] = prices[w]
                                   \/ prices'[w] = candles'[symbol[w]]
    PROVE  FactorInv'
  <1>1. \A w \in Workers : symbol[w] \in Symbols
    BY DEF TypeInv
  <1>2. \A s \in Symbols : version[s] \in Nat /\ version'[s] \in Nat
    BY DEF FactorInv, FactorTypes
  <1>3. ASSUME NEW n \in Nat, NEW s \in Symbols, n <= version[s]
        PROVE  /\ n <= version'[s]
               /\ n = version'[s] => n = version[s] /\ version'[s] = version[s]
    BY <1>2, <1>3
  <1>4. FactorTypes'
    <2>1. ASSUME NEW w \in Workers, IsReading(w)'
          PROVE  seen'[w][2] \in Nat /\ seen'[w][2] <= version'[symbol'[w]]
      BY <1>1, <1>3, <2>1 DEF FactorInv, FactorTypes
    <2>2. ASSUME NEW s \in Symbols, NEW row \in adjusted'[s]
          PROVE  row.read[2] \in Nat /\ row.read[2] <= version'[s]
      BY <1>3 DEF FactorInv, FactorTypes
    <2> QED
      BY <2>1, <2>2 DEF FactorInv, FactorTypes
  <1>5. ASSUME NEW w \in Workers, IsReading(w)', seen'[w][2] = version'[symbol'[w]]
        PROVE  /\ usable'[w] = Splits(symbol[w])'
               /\ HasPrices(w)' => prices'[w] = candles'[symbol'[w]]
    <2> DEFINE s == symbol[w]
    <2>1. /\ s \in Symbols /\ symbol'[w] = s /\ IsReading(w)
          /\ seen[w][2] = version[s] /\ version'[s] = version[s]
      BY <1>1, <1>3, <1>5 DEF FactorInv, FactorTypes
    <2>2. /\ usable[w] = Splits(s)
          /\ HasPrices(w) => prices[w] = candles[s]
      BY <2>1 DEF FactorInv, Current
    <2>3. {a \in actions' : a.symbol = s /\ IsSplit(a)} = Splits(s)
      BY <2>1 DEF Splits, IsSplit
    <2> QED
      BY <1>5, <2>1, <2>2, <2>3 DEF Splits, IsSplit
  <1>6. ASSUME NEW s \in Symbols, NEW row \in adjusted'[s], row.read[2] = version'[s]
        PROVE  /\ row.factor = Ratio({a \in Splits(s)' : a.date > row.date})
               /\ DatesOf(adjusted[s])' = candles'[s]
    <2>1. row \in adjusted[s] /\ row.read[2] = version[s] /\ version'[s] = version[s]
      BY <1>3, <1>6 DEF FactorInv, FactorTypes
    <2>2. Splits(s)' = Splits(s) /\ candles'[s] = candles[s]
      BY <2>1
    <2>3. DatesOf(adjusted[s])' = DatesOf(adjusted[s])
      BY DEF DatesOf
    <2> QED
      BY <2>1, <2>2, <2>3 DEF FactorInv, Current
  <1>7. Current'
    <2>1. (\A w \in Workers : IsReading(w) /\ seen[w][2] = version[symbol[w]] =>
             /\ usable[w] = Splits(symbol[w])
             /\ HasPrices(w) => prices[w] = candles[symbol[w]])'
      BY <1>5
    <2>2. (\A s \in Symbols : \A row \in adjusted[s] : row.read[2] = version[s] =>
              /\ row.factor = Ratio({a \in Splits(s) : a.date > row.date})
              /\ DatesOf(adjusted[s]) = candles[s])'
      BY <1>6
    <2> QED
      BY <2>1, <2>2 DEF Current
  <1> QED
    BY <1>4, <1>7 DEF FactorInv

\* A statement of the transactions, or one that reads or deletes rows, leaves the
\* actions and the candles alone.
LEMMA FactorsUntouched ==
    ASSUME TypeInv, TypeInv', FactorInv,
           UNCHANGED <<adjusted, usable, seen, actions, version, candles>>,
           \A w \in Workers : IsReading(w)' =>
               /\ IsReading(w) /\ symbol'[w] = symbol[w]
               /\ HasPrices(w)' => \/ HasPrices(w) /\ prices'[w] = prices[w]
                                   \/ prices'[w] = candles'[symbol[w]]
    PROVE  FactorInv'
  <1>1. \A s \in Symbols : version[s] <= version'[s] /\ candles'[s] \subseteq Dates
    BY DEF FactorInv, FactorTypes
  <1>2. \A s \in Symbols : Splits(s)' = Splits(s)
    BY DEF Splits
  <1>3. actions' \subseteq Action /\ IsFiniteSet(actions') /\ version' \in [Symbols -> Nat]
    BY DEF FactorInv, FactorTypes
  <1> QED
    BY <1>1, <1>2, <1>3, FactorFrame

\* The actions of a payload are finitely many.
LEMMA PayloadActions ==
    ASSUME NEW p \in Payloads
    PROVE  Range(p) \subseteq Action /\ IsFiniteSet(Range(p))
  <1>1. p \in Seq(Action)
    BY ConstantsAssumption
  <1>2. PICK n \in Nat : p \in [1 .. n -> Action]
    BY <1>1
  <1>3. p \in Surjection(1 .. n, Range(p)) /\ Range(p) \subseteq Action
    BY <1>2 DEF Range, Surjection
  <1>4. IsFiniteSet(1 .. n)
    BY <1>2, FS_Interval
  <1>5. IsFiniteSet(Range(p))
    BY <1>3, <1>4, FS_Surjection
  <1> QED
    BY <1>3, <1>5

\* A commit that leaves the version of a symbol leaves its actions.
LEMMA FactorsCommitted ==
    ASSUME TypeInv, TypeInv', EventInv, FactorInv, NEW w \in Workers, CommitActions(w)
    PROVE  FactorInv'
  <1> DEFINE p == Payload(w)
  <1>1. /\ pc[w] = "commit" /\ pc' = [pc EXCEPT ![w] = "sync"]
        /\ actions' = Merged(p)
        /\ version' = [s \in Symbols |-> IF \E a \in Range(p) : a.symbol = s
                                         THEN version[s] + 1 ELSE version[s]]
        /\ UNCHANGED <<candles, adjusted, symbol, usable, prices, seen>>
    BY DEF CommitActions, Goto, rebuilding
  <1>2. Range(p) \subseteq Action /\ IsFiniteSet(Range(p))
    BY <1>1, PayloadActions DEF EventInv, InTransaction
  <1>3. actions \subseteq Action /\ IsFiniteSet(actions) /\ version \in [Symbols -> Nat]
    BY DEF FactorInv, FactorTypes
  <1> HIDE DEF p
  <1>4. actions' \subseteq Action /\ IsFiniteSet(actions')
    <2> DEFINE kept == {a \in actions : KeyOf(a) \notin KeysOf(p)}
    <2>1. kept \subseteq actions /\ IsFiniteSet(kept)
      BY <1>3, FS_Subset
    <2>2. IsFiniteSet(kept \cup Range(p))
      BY <1>2, <2>1, FS_Union
    <2> QED
      BY <1>1, <1>2, <1>3, <2>2 DEF Merged
  <1>5. version' \in [Symbols -> Nat] /\ \A s \in Symbols : version[s] <= version'[s]
    BY <1>1, <1>3
  <1>6. ASSUME NEW s \in Symbols, version'[s] = version[s]
        PROVE  Splits(s)' = Splits(s)
    <2>1. \A a \in Range(p) : a.symbol # s
      BY <1>1, <1>3, <1>6
    <2>2. \A a \in actions : a.symbol = s => KeyOf(a) \notin KeysOf(p)
      BY <2>1 DEF KeysOf, KeyOf
    <2>3. \A a : a.symbol = s => (a \in actions' <=> a \in actions)
      BY <1>1, <2>1, <2>2 DEF Merged
    <2> QED
      BY <2>3 DEF Splits, IsSplit
  <1>7. \A v \in Workers : IsReading(v)' =>
            /\ IsReading(v) /\ symbol'[v] = symbol[v]
            /\ HasPrices(v)' => HasPrices(v) /\ prices'[v] = prices[v]
    BY <1>1 DEF IsReading, HasPrices, TypeInv
  <1>8. \A s \in Symbols : candles'[s] = candles[s] /\ candles'[s] \subseteq Dates
    BY <1>1 DEF FactorInv, FactorTypes
  <1> QED
    BY <1>1, <1>4, <1>5, <1>6, <1>7, <1>8, FactorFrame

\* A new candle is a new version.
LEMMA FactorsStored ==
    ASSUME TypeInv, TypeInv', FactorInv, NEW s \in Symbols, NEW d \in Sessions,
           StoreCandle(s, d)
    PROVE  FactorInv'
  <1>1. /\ candles' = [candles EXCEPT ![s] = @ \cup {d}]
        /\ version' = [version EXCEPT ![s] = @ + 1]
        /\ UNCHANGED <<actions, adjusted, pc, symbol, usable, prices, seen>>
    BY DEF StoreCandle, rebuilding
  <1>2. /\ version \in [Symbols -> Nat] /\ actions \subseteq Action /\ IsFiniteSet(actions)
        /\ \A x \in Symbols : candles[x] \subseteq Dates
    BY DEF FactorInv, FactorTypes
  <1>3. version' \in [Symbols -> Nat]
    BY <1>1, <1>2
  <1>4. ASSUME NEW x \in Symbols
        PROVE  /\ version[x] <= version'[x] /\ candles'[x] \subseteq Dates
               /\ version'[x] = version[x] => x # s
               /\ x # s => candles'[x] = candles[x]
    <2>1. candles'[x] = IF x = s THEN candles[x] \cup {d} ELSE candles[x]
      BY <1>1 DEF TypeInv
    <2>2. version'[x] = IF x = s THEN version[x] + 1 ELSE version[x]
      BY <1>1, <1>2
    <2>3. version[x] \in Nat
      BY <1>2
    <2> QED
      BY <1>2, <2>1, <2>2, <2>3, ConstantsAssumption
  <1>5. \A x \in Symbols : Splits(x)' = Splits(x)
    BY <1>1 DEF Splits
  <1>6. \A v \in Workers : IsReading(v)' =>
            /\ IsReading(v) /\ symbol'[v] = symbol[v]
            /\ HasPrices(v)' => HasPrices(v) /\ prices'[v] = prices[v]
    BY <1>1 DEF IsReading, HasPrices
  <1> QED
    BY <1>1, <1>2, <1>3, <1>4, <1>5, <1>6, FactorFrame

\* A rebuild that begins reads the actions that are there.
LEMMA FactorsRead ==
    ASSUME TypeInv, TypeInv', FactorInv, NEW w \in Workers, NEW s \in Symbols,
           ReadActions(w, s)
    PROVE  FactorInv'
  <1>1. /\ pc' = [pc EXCEPT ![w] = "prices"] /\ symbol' = [symbol EXCEPT ![w] = s]
        /\ usable' = [usable EXCEPT ![w] = Splits(s)]
        /\ seen' = [seen EXCEPT ![w] = <<commands', version[s]>>]
        /\ UNCHANGED <<candles, actions, adjusted, prices, version>>
    BY DEF ReadActions, Goto, database, Splits
  <1>2. /\ pc'[w] = "prices" /\ symbol'[w] = s /\ usable'[w] = Splits(s)
        /\ seen'[w][2] = version[s]
        /\ \A v \in Workers \ {w} :
              /\ pc'[v] = pc[v] /\ symbol'[v] = symbol[v] /\ usable'[v] = usable[v]
              /\ seen'[v] = seen[v]
        /\ usable' = [v \in Workers |-> usable'[v]]
    BY <1>1 DEF TypeInv, FactorInv, FactorTypes
  <1>3. version[s] \in Nat /\ version[s] <= version[s]
    BY DEF FactorInv, FactorTypes
  <1>4. /\ \A v \in Workers \ {w} : /\ IsReading(v)' <=> IsReading(v)
                                    /\ HasPrices(v)' <=> HasPrices(v)
        /\ ~HasPrices(w)'
    BY <1>2 DEF IsReading, HasPrices
  <1>5. FactorTypes'
    <2>1. ASSUME NEW v \in Workers, IsReading(v)'
          PROVE  seen'[v][2] \in Nat /\ seen'[v][2] <= version'[symbol'[v]]
      BY <1>1, <1>2, <1>3, <1>4, <2>1 DEF FactorInv, FactorTypes
    <2> QED
      BY <1>1, <1>2, <2>1 DEF FactorInv, FactorTypes
  <1>6. \A x : Splits(x)' = Splits(x)
    BY <1>1 DEF Splits
  <1>7. ASSUME NEW v \in Workers, IsReading(v)', seen'[v][2] = version'[symbol'[v]]
        PROVE  /\ usable'[v] = {a \in actions' : a.symbol = symbol'[v] /\ IsSplit(a)}
               /\ HasPrices(v)' => prices'[v] = candles'[symbol'[v]]
    BY <1>1, <1>2, <1>4, <1>7 DEF FactorInv, Current, Splits, IsSplit
  <1>8. ASSUME NEW x \in Symbols, NEW row \in adjusted'[x], row.read[2] = version'[x]
        PROVE  /\ row.factor = Ratio({a \in Splits(x)' : a.date > row.date})
               /\ DatesOf(adjusted[x])' = candles'[x]
    <2>1. DatesOf(adjusted[x])' = DatesOf(adjusted[x])
      BY <1>1 DEF DatesOf
    <2> QED
      BY <1>1, <1>6, <1>8, <2>1 DEF FactorInv, Current
  <1>9. Current'
    <2>1. (\A v \in Workers : IsReading(v) /\ seen[v][2] = version[symbol[v]] =>
             /\ usable[v] = Splits(symbol[v])
             /\ HasPrices(v) => prices[v] = candles[symbol[v]])'
      BY <1>7 DEF Splits, IsSplit
    <2>2. (\A x \in Symbols : \A row \in adjusted[x] : row.read[2] = version[x] =>
              /\ row.factor = Ratio({a \in Splits(x) : a.date > row.date})
              /\ DatesOf(adjusted[x]) = candles[x])'
      BY <1>8
    <2> QED
      BY <2>1, <2>2 DEF Current
  <1> QED
    BY <1>5, <1>9 DEF FactorInv

\* A rebuild stores the factors of the actions that it read.
LEMMA FactorsInserted ==
    ASSUME TypeInv, TypeInv', RebuildInv, FactorInv, NEW w \in Workers, Insert(w)
    PROVE  FactorInv'
  <1> DEFINE s == symbol[w]
  <1>1. /\ pc[w] = "insert" /\ pc' = [pc EXCEPT ![w] = "rest"]
        /\ UNCHANGED <<candles, actions, symbol, usable, prices, seen, version>>
    BY DEF Insert, Goto, rebuilding
  <1>2. IsReading(w) /\ HasPrices(w) /\ s \in Symbols
    BY <1>1 DEF IsReading, HasPrices, TypeInv
  <1>3. \A v \in Workers : /\ IsReading(v)' => IsReading(v)
                           /\ HasPrices(v)' => HasPrices(v)
    BY <1>1 DEF IsReading, HasPrices, TypeInv
  <1>4. \A x : Splits(x)' = Splits(x)
    BY <1>1 DEF Splits
  <1>5. ASSUME NEW x \in Symbols, NEW row \in adjusted'[x]
        PROVE  \/ row \in adjusted[x] /\ adjusted'[x] = adjusted[x]
               \/ x = s /\ row \in Rows(w) /\ adjusted'[x] = Rows(w)
    BY <1>2, <1>5, InsertedRows
  <1>6. FactorTypes'
    <2>1. ASSUME NEW x \in Symbols, NEW row \in adjusted'[x]
          PROVE  row.read[2] \in Nat /\ row.read[2] <= version[x]
      BY <1>2, <1>5, <2>1, RowsOfPrices DEF FactorInv, FactorTypes
    <2> QED
      BY <1>1, <1>3, <2>1 DEF FactorInv, FactorTypes
  <1>7. ASSUME NEW x \in Symbols, NEW row \in adjusted'[x], row.read[2] = version[x]
        PROVE  /\ row.factor = Ratio({a \in Splits(x) : a.date > row.date})
               /\ DatesOf(adjusted'[x]) = candles[x]
    <2>1. CASE row \in adjusted[x] /\ adjusted'[x] = adjusted[x]
      BY <1>7, <2>1 DEF FactorInv, Current
    <2>2. CASE x = s /\ row \in Rows(w) /\ adjusted'[x] = Rows(w)
      <3>1. row.read = seen[w] /\ row.factor = Factor(w, row.date)
        BY <2>2, RowsOfPrices
      <3>2. usable[w] = Splits(s) /\ prices[w] = candles[s]
        BY <1>2, <1>7, <2>2, <3>1 DEF FactorInv, Current
      <3>3. Factor(w, row.date) = Ratio({a \in usable[w] : a.date > row.date})
        BY DEF Factor, Ratio, Applies
      <3> QED
        BY <2>2, <3>1, <3>2, <3>3, RowsOfPrices
    <2> QED
      BY <1>5, <1>7, <2>1, <2>2
  <1>8. Current'
    <2>1. (\A v \in Workers : IsReading(v) /\ seen[v][2] = version[symbol[v]] =>
             /\ usable[v] = Splits(symbol[v])
             /\ HasPrices(v) => prices[v] = candles[symbol[v]])'
      BY <1>1, <1>3 DEF FactorInv, Current, Splits
    <2>2. \A x \in Symbols : DatesOf(adjusted[x])' = DatesOf(adjusted'[x])
      BY DEF DatesOf
    <2>3. (\A x \in Symbols : \A row \in adjusted[x] : row.read[2] = version[x] =>
              /\ row.factor = Ratio({a \in Splits(x) : a.date > row.date})
              /\ DatesOf(adjusted[x]) = candles[x])'
      BY <1>1, <1>4, <1>7, <2>2
    <2> QED
      BY <2>1, <2>3 DEF Current
  <1> QED
    BY <1>6, <1>8 DEF FactorInv

\* All steps keep the factors.
LEMMA StepFactors ==
    TypeInv /\ TypeInv' /\ EventInv /\ RebuildInv /\ FactorInv /\ [Next]_vars
    => FactorInv'
  <1> SUFFICES ASSUME TypeInv, TypeInv', EventInv, RebuildInv, FactorInv, [Next]_vars
               PROVE  FactorInv'
    OBVIOUS
  <1>1. ASSUME NEW w \in Workers, NEW at \in {"rest", "sync", "events", "commit"},
               pc' = [pc EXCEPT ![w] = at],
               \A v \in Workers \ {w} : symbol'[v] = symbol[v],
               UNCHANGED <<adjusted, usable, seen, actions, version, candles, prices>>
        PROVE  FactorInv'
    <2>1. \A v \in Workers : IsReading(v)' =>
              /\ IsReading(v) /\ symbol'[v] = symbol[v]
              /\ HasPrices(v)' => HasPrices(v) /\ prices'[v] = prices[v]
      BY <1>1 DEF IsReading, HasPrices, TypeInv
    <2> QED
      BY <1>1, <2>1, FactorsUntouched
  <1>2. ASSUME NEW w \in Workers,
               StartSync(w) \/ FindEvents(w) \/ FinishSync(w) \/ Abort(w)
        PROVE  FactorInv'
    <2>1. PICK at \in {"rest", "sync", "events", "commit"} :
              pc' = [pc EXCEPT ![w] = at]
      BY <1>2 DEF StartSync, FindEvents, FinishSync, Abort, Goto
    <2>2. UNCHANGED <<adjusted, usable, seen, actions, version, candles, prices, symbol>>
      BY <1>2 DEF StartSync, FindEvents, FinishSync, Abort, database, rebuilding
    <2> QED
      BY <1>1, <2>1, <2>2
  <1>3. ASSUME NEW w \in Workers, NEW s \in Symbols, UpsertActions(w, s)
        PROVE  FactorInv'
    <2>1. /\ pc' = [pc EXCEPT ![w] = "events"] /\ symbol' = [symbol EXCEPT ![w] = s]
          /\ UNCHANGED <<adjusted, usable, seen, actions, version, candles, prices>>
      BY <1>3 DEF UpsertActions, Goto, database, rebuilding
    <2>2. \A v \in Workers \ {w} : symbol'[v] = symbol[v]
      BY <2>1 DEF TypeInv
    <2> QED
      BY <1>1, <2>1, <2>2
  <1>4. ASSUME UNCHANGED <<adjusted, usable, seen, actions, version, candles, prices,
                           symbol, pc>>
        PROVE  FactorInv'
    BY <1>4, FactorsUntouched DEF IsReading, HasPrices
  <1>5. ASSUME NEW w \in Workers, NEW s \in Symbols, Fetch(w, s) \/ Skip(w, s)
        PROVE  FactorInv'
    BY <1>4, <1>5 DEF Fetch, Skip, database, rebuilding
  <1>6. ASSUME NEW s \in Symbols, NEW p \in Payloads, Revise(s, p)
        PROVE  FactorInv'
    BY <1>4, <1>6 DEF Revise, database, rebuilding
  <1>7. CASE UNCHANGED vars
    BY <1>4, <1>7 DEF vars, database, rebuilding
  <1>8. ASSUME NEW w \in Workers, ReadPrices(w)
        PROVE  FactorInv'
    <2>1. /\ pc[w] = "prices" /\ pc' = [pc EXCEPT ![w] = "delete"]
          /\ prices' = [prices EXCEPT ![w] = candles[symbol[w]]]
          /\ UNCHANGED <<adjusted, usable, seen, actions, version, candles, symbol>>
      BY <1>8 DEF ReadPrices, Goto, database
    <2>2. \A v \in Workers : IsReading(v)' =>
              /\ IsReading(v) /\ symbol'[v] = symbol[v]
              /\ HasPrices(v)' => \/ HasPrices(v) /\ prices'[v] = prices[v]
                                  \/ prices'[v] = candles'[symbol[v]]
      BY <2>1 DEF IsReading, HasPrices, TypeInv
    <2> QED
      BY <2>1, <2>2, FactorsUntouched
  <1>9. ASSUME NEW w \in Workers, StartDelete(w) \/ Delete(w)
        PROVE  FactorInv'
    <2>1. UNCHANGED <<adjusted, usable, seen, actions, version, candles, prices, symbol>>
      BY <1>9 DEF StartDelete, Delete, database
    <2>2. \A v \in Workers : IsReading(v)' =>
              IsReading(v) /\ (HasPrices(v)' => HasPrices(v))
      BY <1>9 DEF StartDelete, Delete, Goto, IsReading, HasPrices, TypeInv
    <2> QED
      BY <2>1, <2>2, FactorsUntouched
  <1> QED
    BY <1>2, <1>3, <1>5, <1>6, <1>7, <1>8, <1>9, FactorsCommitted, FactorsStored,
       FactorsRead, FactorsInserted
    DEF Next, WorkerStep, SyncStep, RebuildStep, Rest

\* The factors of an unchanged symbol are the products of its later splits, so
\* those of two dates differ by the splits between them.
LEMMA SplitsBetween ==
    ASSUME TypeInv, RebuildInv, FactorInv
    PROVE  FactorsFollowSplits
  <1> SUFFICES ASSUME NEW s \in Symbols, NEW x \in adjusted[s], x.read[2] = version[s]
               PROVE  /\ \A y \in adjusted[s] : x.date < y.date =>
                             x.factor = y.factor * Product(s, x.date, y.date)
                      /\ (\A a \in actions : a.symbol = s => a.date <= x.date)
                            => x.factor = 1
                      /\ {y.date : y \in adjusted[s]} = candles[s]
    BY DEF FactorsFollowSplits
  <1> DEFINE After(d) == {a \in Splits(s) : a.date > d}
  <1>1. /\ x.factor = Ratio(After(x.date))
        /\ DatesOf(adjusted[s]) = candles[s]
    BY DEF FactorInv, Current
  <1>2. \A d : After(d) \in SUBSET Action /\ IsFiniteSet(After(d))
    <2>1. \A d : After(d) \subseteq actions
      BY DEF Splits
    <2> QED
      BY <2>1, FS_Subset DEF FactorInv, FactorTypes
  <1>3. \A y \in adjusted[s] : y.date \in Int
    BY ConstantsAssumption DEF RebuildInv, Growing, DatesOf, FactorInv, FactorTypes
  <1>4. \A a \in actions : a.date \in Int
    BY ConstantsAssumption DEF FactorInv, FactorTypes, Action
  <1>5. ASSUME NEW y \in adjusted[s], x.date < y.date
        PROVE  x.factor = y.factor * Product(s, x.date, y.date)
    <2> DEFINE between == {a \in actions :
                             /\ a.symbol = s /\ a.ratio > 0 /\ a.type \in SplitTypes
                             /\ x.date < a.date /\ a.date <= y.date}
    <2>1. Product(s, x.date, y.date) = Ratio(between)
      BY DEF Product, Ratio
    <2>2. y.factor = Ratio(After(y.date))
      <3>1. y.read = x.read
        BY DEF RebuildInv, Whole, OneRebuild
      <3> QED
        BY <3>1 DEF FactorInv, Current
    <2>3. /\ After(y.date) \subseteq After(x.date)
          /\ After(x.date) \ After(y.date) = between
      BY <1>3, <1>4, <1>5 DEF Splits, IsSplit
    <2> HIDE DEF After, between
    <2>4. Ratio(After(x.date)) =
              Ratio(After(y.date)) * Ratio(After(x.date) \ After(y.date))
      BY <1>2, <2>3, RatioOfUnion
    <2> QED
      BY <1>1, <2>1, <2>2, <2>3, <2>4
  <1>6. ASSUME \A a \in actions : a.symbol = s => a.date <= x.date
        PROVE  x.factor = 1
    <2>1. After(x.date) = {}
      BY <1>3, <1>4, <1>6 DEF Splits
    <2> HIDE DEF After
    <2> QED
      BY <1>1, <1>2, <2>1, RatioSteps
  <1> HIDE DEF After
  <1> QED
    BY <1>1, <1>5, <1>6 DEF DatesOf

\* FactorsFollowSplits: whatever runs at once.
THEOREM Factors == Spec => []FactorsFollowSplits
  <1>1. Init => RebuildInv /\ EventInv /\ FactorInv
    <2>1. Init => RebuildInv /\ EventInv
      BY DEF Init, RebuildInv, Numbered, Growing, Whole, IsReading, HasPrices, Held,
             DatesOf, OneRebuild, WholeOrNone, EventInv, InTransaction,
             OneEventPerAction
    <2>2. Init => FactorInv
      BY FS_EmptySet DEF Init, FactorInv, FactorTypes, Current, IsReading
    <2> QED
      BY <2>1, <2>2
  <1> QED
    BY <1>1, InitType, StepType, StepEvents, StepRebuild, StepFactors,
       SplitsBetween, PTL DEF Spec
===============================================================================
