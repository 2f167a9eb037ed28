------------------------------ MODULE QueryProofs ------------------------------
(***************************************************************************)
(* What the API answers from the tables: a request of GET /symbols and     *)
(* GET /latest, for every set of threads and every number of commits       *)
(* between its steps (ResponseCache); the analysis and the backtest of a   *)
(* symbol, for every calendar, every window and whatever order the rows    *)
(* were stored in (WalkForward).                                           *)
(***************************************************************************)
EXTENDS ResponseCache, WalkForward, FiniteSetTheorems, WellFoundedInduction, TLAPS

-------------------------------------------------------------------------------
(* The cached endpoints                                                    *)

\* A finite set of dates has a last one: no other has fewer dates after it.
LEMMA Latest ==
    ASSUME NEW S \in SUBSET Int, IsFiniteSet(S), S # {}
    PROVE  \E d \in S : \A e \in S : e <= d
  <1> DEFINE After(d) == {e \in S : d < e}
             T == {After(d) : d \in S}
  <1>1. T \subseteq FiniteSubsetsOf(S) /\ T # {}
    <2>1. \A d \in S : After(d) \subseteq S
      OBVIOUS
    <2> HIDE DEF After
    <2>2. \A d \in S : IsFiniteSet(After(d))
      BY <2>1, FS_Subset
    <2> QED
      BY <2>1, <2>2 DEF FiniteSubsetsOf
  <1>2. PICK d \in S : \A e \in S : <<After(e), After(d)>> \notin StrictSubsetOrdering(S)
    <2>1. PICK X \in T : \A Y \in T : <<Y, X>> \notin StrictSubsetOrdering(S)
      <3> HIDE DEF T
      <3> QED
        BY <1>1, FS_StrictSubsetOrderingWellFounded, WFMin
    <2> HIDE DEF After
    <2> QED
      BY <2>1
  <1>3. ASSUME NEW e \in S, ~(e <= d)
        PROVE  FALSE
    <2>1. d \in Int /\ e \in Int /\ d < e
      BY <1>3
    <2>2. \A x \in S : e < x => d < x
      BY <2>1
    <2>3. After(e) \subseteq After(d) /\ After(e) # After(d) /\ After(d) \subseteq S
      BY <2>1, <2>2, ~(e < e)
    <2> HIDE DEF After
    <2> QED
      BY <1>2, <2>3 DEF StrictSubsetOrdering
  <1> QED
    BY <1>3

\* LatestDate is the last of the stored dates.
LEMMA LastStored ==
    ASSUME NEW rows \in [Dates -> Nat], Stored(rows) # {}
    PROVE  /\ LatestDate(rows) \in Stored(rows)
           /\ \A e \in Stored(rows) : e <= LatestDate(rows)
  <1>1. Stored(rows) \in SUBSET Int /\ IsFiniteSet(Stored(rows))
    <2>1. Stored(rows) \subseteq Dates
      BY DEF Stored
    <2>2. Dates \subseteq Int
      BY ConstantsAssumption
    <2>3. IsFiniteSet(Stored(rows))
      BY <2>1, FS_Subset, ConstantsAssumption
    <2> QED
      BY <2>1, <2>2, <2>3
  <1>2. PICK d \in Stored(rows) : \A e \in Stored(rows) : e <= d
    BY <1>1, Latest
  <1>3. d \in Stored(rows) /\ \A e \in Stored(rows) : d >= e
    BY <1>1, <1>2
  <1>4. LET m == LatestDate(rows)
        IN  m \in Stored(rows) /\ \A e \in Stored(rows) : m >= e
    BY <1>3 DEF LatestDate, Max
  <1> QED
    BY <1>1, <1>4

-------------------------------------------------------------------------------
(* The invariant                                                           *)

\* The tables hold what they held when the request came, and what came since.
Before(q) ==
    /\ since[q][1] \in Nat /\ since[q][1] <= stocks
    /\ since[q][2] \in [Dates -> Nat]
    /\ \A d \in Dates : since[q][2][d] <= candles[d]

\* latest() goes on from a date that has rows, with none after it when it came.
Chosen(q) ==
    /\ day[q] \in Stored(candles)
    /\ \A e \in Stored(since[q][2]) : e <= day[q]

\* What a request that read the tables answers.
Right(q) ==
    IF endpoint[q] = "symbols"
    THEN \E n \in since[q][1]..stocks : answer[q] = List(n)
    ELSE IF answer[q] = << >> THEN Stored(since[q][2]) = {}
    ELSE /\ \A e \in Stored(since[q][2]) : e <= answer[q][1]
         /\ answer[q][2] \in since[q][2][answer[q][1]]..candles[answer[q][1]]
         /\ answer[q][1] \in Stored(candles)

\* What is known of a request at each of its steps.
Reads(q) ==
    /\ since[q] # << >> => Before(q)
    /\ pc[q] # "done" => since[q] # << >>
    /\ pc[q] = "date" => endpoint[q] = "latest"
    /\ pc[q] = "rows" /\ endpoint[q] # "symbols" => Chosen(q)
    /\ pc[q] \in {"store", "done"} /\ since[q] # << >> => Right(q)

\* The variables of the requests are functions of the request.
Functions == /\ day = [q \in Requests |-> day[q]]
             /\ answer = [q \in Requests |-> answer[q]]
             /\ since = [q \in Requests |-> since[q]]

\* Types, as far as the steps need them.
TypeInv == /\ stocks \in Nat /\ candles \in [Dates -> Nat]
           /\ pc \in [Requests -> {"done", "date", "rows", "store"}]
           /\ endpoint \in [Requests -> Endpoints]
           /\ Functions

\* The invariant of the cached endpoints.
IInv == TypeInv /\ \A q \in Requests : Reads(q)

-------------------------------------------------------------------------------
(* The steps                                                               *)

\* Every step keeps the types.
LEMMA TypeStep ==
    ASSUME TypeInv, Next
    PROVE  TypeInv'
  <1>1. ASSUME NEW r \in Requests, NEW e \in Endpoints, Arrive(r, e)
        PROVE  TypeInv'
    BY <1>1 DEF Arrive, tables, TypeInv, Functions
  <1>2. ASSUME NEW r \in Requests, Work(r)
        PROVE  TypeInv'
    BY <1>2 DEF Work, ReadDate, ReadRows, Store, tables, TypeInv, Functions
  <1>3. ASSUME ChangeStocks \/ \E d \in Dates : ChangeCandles(d)
        PROVE  TypeInv'
    BY <1>3 DEF ChangeStocks, ChangeCandles, request, TypeInv, Functions
  <1>4. ASSUME Tick \/ Outage \/ Recovery
        PROVE  TypeInv'
    BY <1>4 DEF Tick, Outage, Recovery, tables, request, TypeInv, Functions
  <1> QED
    BY <1>1, <1>2, <1>3, <1>4 DEF Next

\* A request whose variables stay, with the tables.
LEMMA Unmoved ==
    ASSUME NEW q, Reads(q), UNCHANGED tables,
           pc'[q] = pc[q], endpoint'[q] = endpoint[q], day'[q] = day[q],
           answer'[q] = answer[q], since'[q] = since[q]
    PROVE  Reads(q)'
  BY DEF Reads, Before, Chosen, Right, Stored, tables

\* A table that changes holds more than before.
LEMMA TablesGrow ==
    ASSUME IInv, ChangeStocks \/ \E d \in Dates : ChangeCandles(d),
           NEW q \in Requests
    PROVE  Reads(q)'
  <1>1. UNCHANGED <<pc, endpoint, day, answer, since>>
    BY DEF ChangeStocks, ChangeCandles, request
  <1>2. /\ stocks \in Nat /\ stocks' \in Nat /\ stocks <= stocks'
        /\ candles \in [Dates -> Nat] /\ candles' \in [Dates -> Nat]
        /\ \A d \in Dates : candles[d] <= candles'[d]
    BY DEF IInv, TypeInv, ChangeStocks, ChangeCandles
  <1>3. ASSUME NEW d \in Stored(candles)
        PROVE  d \in Dates /\ d \in Stored(candles')
    <2>1. d \in Dates /\ candles[d] > 0
      BY DEF Stored
    <2>2. candles[d] \in Nat /\ candles'[d] \in Nat /\ candles[d] <= candles'[d]
      BY <1>2, <2>1
    <2> QED
      BY <2>1, <2>2 DEF Stored
  <1>4. Reads(q)
    BY DEF IInv
  <1>5. ASSUME Before(q)
        PROVE  Before(q)'
    BY <1>1, <1>2, <1>5 DEF Before
  <1>6. ASSUME Chosen(q)
        PROVE  Chosen(q)'
    BY <1>1, <1>3, <1>6 DEF Chosen, Stored
  <1>7. ASSUME Right(q), Before(q)
        PROVE  Right(q)'
    <2>1. CASE endpoint[q] = "symbols"
      <3>1. PICK n \in since[q][1]..stocks : answer[q] = List(n)
        BY <1>7, <2>1 DEF Right
      <3>2. n \in since[q][1]..stocks'
        BY <1>2, <1>7, <3>1 DEF Before
      <3> QED
        BY <1>1, <2>1, <3>1, <3>2 DEF Right, List
    <2>2. CASE endpoint[q] # "symbols" /\ answer[q] = << >>
      BY <1>1, <1>7, <2>2 DEF Right, Stored
    <2>3. CASE endpoint[q] # "symbols" /\ answer[q] # << >>
      <3> DEFINE d == answer[q][1]
      <3>1. /\ \A e \in Stored(since[q][2]) : e <= d
            /\ answer[q][2] \in since[q][2][d]..candles[d]
            /\ d \in Stored(candles)
        BY <1>7, <2>3 DEF Right
      <3>2. d \in Dates /\ d \in Stored(candles')
        BY <1>3, <3>1
      <3>3. answer[q][2] \in since[q][2][d]..candles'[d]
        <4>1. since[q][2][d] \in Nat /\ candles[d] \in Nat /\ candles'[d] \in Nat
              /\ candles[d] <= candles'[d]
          BY <1>2, <1>7, <3>2 DEF Before
        <4> QED
          BY <3>1, <4>1
      <3> HIDE DEF d
      <3>4. d' = d
        BY <1>1 DEF d
      <3> QED
        BY <1>1, <2>3, <3>1, <3>2, <3>3, <3>4 DEF Right, Stored, d
    <2> QED
      BY <2>1, <2>2, <2>3
  <1> QED
    BY <1>1, <1>4, <1>5, <1>6, <1>7 DEF Reads

\* A request that comes finds its answer in the cache, or remembers the tables.
LEMMA ArriveStep ==
    ASSUME IInv, NEW r \in Requests, NEW e \in Endpoints, Arrive(r, e)
    PROVE  Reads(r)'
  <1>1. UNCHANGED tables /\ endpoint'[r] = e
    BY DEF Arrive, IInv, TypeInv, tables
  <1>2. CASE Cached(e) # {}
    <2>1. since'[r] = << >> /\ pc'[r] = "done"
      BY <1>2 DEF Arrive, IInv, TypeInv, Functions
    <2> QED
      BY <2>1 DEF Reads
  <1>3. CASE Cached(e) = {}
    <2>1. /\ since'[r] = <<stocks, candles>>
          /\ pc'[r] = IF e = "symbols" THEN "rows" ELSE "date"
      BY <1>3 DEF Arrive, IInv, TypeInv, Functions, tables
    <2>2. Before(r)'
      BY <1>1, <2>1 DEF Before, tables, IInv, TypeInv
    <2>3. since'[r] # << >> /\ pc'[r] \notin {"store", "done"}
      BY <2>1
    <2> QED
      BY <1>1, <2>1, <2>2, <2>3 DEF Reads, Endpoints
  <1> QED
    BY <1>2, <1>3

\* What was stored when the request came is stored.
LEMMA StillStored ==
    ASSUME IInv, NEW q \in Requests, Before(q)
    PROVE  Stored(since[q][2]) \subseteq Stored(candles)
  <1> SUFFICES ASSUME NEW d \in Dates, since[q][2][d] > 0
               PROVE  candles[d] > 0
    BY DEF Stored
  <1>1. since[q][2][d] \in Nat /\ candles[d] \in Nat /\ since[q][2][d] <= candles[d]
    BY DEF Before, IInv, TypeInv
  <1> QED
    BY <1>1

\* max(trade_date): nothing was stored, or the date has no stored date after it.
LEMMA DateStep ==
    ASSUME IInv, NEW r \in Requests, ReadDate(r)
    PROVE  Reads(r)'
  <1>1. UNCHANGED <<stocks, candles, endpoint, since>>
    BY DEF ReadDate, tables
  <1>2. /\ pc[r] = "date" /\ endpoint[r] = "latest"
        /\ since[r] # << >> /\ Before(r)
    BY DEF ReadDate, Reads, IInv
  <1>3. Before(r)'
    BY <1>1, <1>2 DEF Before
  <1>4. CASE Stored(candles) = {}
    <2>1. pc'[r] = "done" /\ answer'[r] = << >>
      BY <1>4 DEF ReadDate, IInv, TypeInv, Functions
    <2>2. Stored(since[r][2]) = {}
      BY <1>2, <1>4, StillStored
    <2>3. Right(r)'
      BY <1>1, <1>2, <2>1, <2>2 DEF Right, Stored
    <2> QED
      BY <1>1, <1>2, <1>3, <2>1, <2>3 DEF Reads
  <1>5. CASE Stored(candles) # {}
    <2>1. pc'[r] = "rows" /\ day'[r] = LatestDate(candles)
      BY <1>5 DEF ReadDate, IInv, TypeInv, Functions
    <2>2. /\ day'[r] \in Stored(candles)
          /\ \A e \in Stored(candles) : e <= day'[r]
      BY <1>5, <2>1, LastStored DEF IInv, TypeInv
    <2>3. Chosen(r)'
      BY <1>1, <1>2, <2>2, StillStored DEF Chosen, Stored
    <2> QED
      BY <1>1, <1>2, <1>3, <2>1, <2>3 DEF Reads
  <1> QED
    BY <1>4, <1>5

\* The second statement reads what became of that date's rows.
LEMMA RowsStep ==
    ASSUME IInv, NEW r \in Requests, ReadRows(r)
    PROVE  Reads(r)'
  <1>1. UNCHANGED <<stocks, candles, endpoint, since, day>>
    BY DEF ReadRows, tables
  <1>2. pc[r] = "rows" /\ since[r] # << >> /\ Before(r)
    BY DEF ReadRows, Reads, IInv
  <1>3. Before(r)'
    BY <1>1, <1>2 DEF Before
  <1>4. /\ pc'[r] = "store"
        /\ answer'[r] = IF endpoint[r] = "symbols" THEN List(stocks)
                        ELSE <<day[r], candles[day[r]]>>
    BY DEF ReadRows, IInv, TypeInv, Functions
  <1>5. CASE endpoint[r] = "symbols"
    <2>1. stocks \in since[r][1]..stocks
      BY <1>2 DEF Before, IInv, TypeInv
    <2>2. Right(r)'
      BY <1>1, <1>4, <1>5, <2>1 DEF Right, List
    <2> QED
      BY <1>1, <1>2, <1>3, <1>4, <2>2 DEF Reads
  <1>6. CASE endpoint[r] # "symbols"
    <2>1. Chosen(r)
      BY <1>2, <1>6 DEF Reads, IInv
    <2>2. /\ answer'[r] # << >>
          /\ answer'[r][1] = day[r] /\ answer'[r][2] = candles[day[r]]
      BY <1>4, <1>6
    <2>3. candles[day[r]] \in since[r][2][day[r]]..candles[day[r]]
      <3>1. day[r] \in Dates
        BY <2>1 DEF Chosen, Stored
      <3>2. /\ candles[day[r]] \in Nat /\ since[r][2][day[r]] \in Nat
            /\ since[r][2][day[r]] <= candles[day[r]]
        BY <1>2, <3>1 DEF Before, IInv, TypeInv
      <3> QED
        BY <3>2
    <2>4. Right(r)'
      BY <1>1, <1>6, <2>1, <2>2, <2>3 DEF Right, Chosen, Stored
    <2> QED
      BY <1>1, <1>2, <1>3, <1>4, <2>4 DEF Reads
  <1> QED
    BY <1>5, <1>6

\* A request that is over remembers nothing.
LEMMA StoreStep ==
    ASSUME IInv, NEW r \in Requests, Store(r)
    PROVE  Reads(r)'
  <1>1. pc'[r] = "done" /\ since'[r] = << >>
    BY DEF Store, IInv, TypeInv, Functions
  <1> QED
    BY <1>1 DEF Reads

\* A step of one request leaves the others alone.
LEMMA RequestStep ==
    ASSUME IInv, NEW r \in Requests,
           Work(r) \/ \E e \in Endpoints : Arrive(r, e),
           NEW q \in Requests
    PROVE  Reads(q)'
  <1>1. CASE q = r
    BY <1>1, ArriveStep, DateStep, RowsStep, StoreStep DEF Work
  <1>2. CASE q # r
    <2>1. /\ UNCHANGED tables
          /\ pc'[q] = pc[q] /\ endpoint'[q] = endpoint[q] /\ day'[q] = day[q]
          /\ answer'[q] = answer[q] /\ since'[q] = since[q]
      <3>1. CASE Work(r)
        BY <1>2, <3>1 DEF Work, ReadDate, ReadRows, Store, IInv, TypeInv, Functions
      <3>2. ASSUME NEW e \in Endpoints, Arrive(r, e)
            PROVE  <2>1
        BY <1>2, <3>2 DEF Arrive, tables, IInv, TypeInv, Functions
      <3> QED
        BY <3>1, <3>2
    <2>2. Reads(q)
      BY DEF IInv
    <2> QED
      BY <2>1, <2>2, Unmoved
  <1> QED
    BY <1>1, <1>2

\* Every step keeps the invariant.
LEMMA InvStep ==
    ASSUME IInv, [Next]_vars
    PROVE  IInv'
  <1>1. CASE Next
    <2>1. TypeInv'
      BY <1>1, TypeStep DEF IInv
    <2>2. ASSUME NEW q \in Requests
          PROVE  Reads(q)'
      <3>1. ASSUME Tick \/ Outage \/ Recovery
            PROVE  Reads(q)'
        <4>1. UNCHANGED <<tables, request>>
          BY <3>1 DEF Tick, Outage, Recovery
        <4> QED
          BY <4>1, Unmoved DEF request, IInv
      <3> QED
        BY <1>1, <3>1, RequestStep, TablesGrow DEF Next
    <2> QED
      BY <2>1, <2>2 DEF IInv
  <1>2. CASE UNCHANGED vars
    <2>1. TypeInv'
      BY <1>2 DEF vars, tables, request, IInv, TypeInv, Functions
    <2> QED
      BY <1>2, <2>1, Unmoved DEF vars, request, IInv
  <1> QED
    BY <1>1, <1>2

\* No request has come yet.
LEMMA InvInit ==
    ASSUME Init
    PROVE  IInv
  BY DEF Init, IInv, TypeInv, Functions, Reads, Endpoints

\* AnswersAreReads: an answer that was not found in the cache is what the tables
\* held while the request ran, one date's rows, whatever was committed meanwhile.
THEOREM Answers == Spec => []AnswersAreReads
  <1>1. IInv => AnswersAreReads
    BY DEF IInv, Reads, Right, AnswersAreReads
  <1> QED
    BY <1>1, InvInit, InvStep, PTL DEF Spec

-------------------------------------------------------------------------------
(* Dates in their order                                                    *)

\* How many dates of a set lie before a date: its place among them.
Below(D, d) == {e \in D : e < d}
Rank(D, d) == Cardinality(Below(D, d))

\* The ranks of the dates of a finite set are 0, 1, 2 and so on, in their order.
LEMMA Ranks ==
    ASSUME NEW D \in SUBSET Int, IsFiniteSet(D)
    PROVE  /\ Cardinality(D) \in Nat
           /\ \A d \in D : Rank(D, d) \in 0 .. Cardinality(D) - 1
           /\ \A d, e \in D : d < e => Rank(D, d) < Rank(D, e)
           /\ \A i \in 1 .. Cardinality(D) : \E d \in D : Rank(D, d) = i - 1
  <1> DEFINE n == Cardinality(D)
  <1>1. n \in Nat
    BY FS_CardinalityType
  <1>2. ASSUME NEW d \in D
        PROVE  /\ IsFiniteSet(Below(D, d)) /\ Rank(D, d) \in Nat
               /\ IsFiniteSet(Below(D, d) \cup {d})
               /\ Cardinality(Below(D, d) \cup {d}) = Rank(D, d) + 1
    <2>1. Below(D, d) \subseteq D /\ d \notin Below(D, d)
      BY DEF Below
    <2>2. IsFiniteSet(Below(D, d))
      BY <2>1, FS_Subset
    <2> QED
      BY <2>1, <2>2, FS_AddElement, FS_CardinalityType DEF Rank
  <1>3. ASSUME NEW d \in D
        PROVE  Rank(D, d) < n
    <2>1. Below(D, d) \cup {d} \in SUBSET D
      BY DEF Below
    <2>2. Cardinality(Below(D, d) \cup {d}) <= Cardinality(D)
      BY <2>1, FS_Subset
    <2>3. Rank(D, d) \in Nat /\ Rank(D, d) + 1 <= n
      BY <1>2, <2>2
    <2> HIDE DEF n
    <2> QED
      BY <1>1, <2>3
  <1>4. ASSUME NEW d \in D, NEW e \in D, d < e
        PROVE  Rank(D, d) < Rank(D, e)
    <2>1. Below(D, d) \cup {d} \in SUBSET Below(D, e)
      <3> SUFFICES ASSUME NEW x \in Below(D, d) \cup {d}
                   PROVE  x \in D /\ x < e
        BY DEF Below
      <3>1. x \in D /\ (x < d \/ x = d)
        BY DEF Below
      <3>2. x \in Int /\ d \in Int /\ e \in Int
        BY <3>1
      <3> QED
        BY <1>4, <3>1, <3>2
    <2>2. IsFiniteSet(Below(D, e))
      BY <1>2
    <2>3. Cardinality(Below(D, d) \cup {d}) <= Cardinality(Below(D, e))
      BY <2>1, <2>2, FS_Subset
    <2>4. Rank(D, d) + 1 <= Rank(D, e)
      BY <1>2, <2>3 DEF Rank
    <2>5. Rank(D, d) \in Nat /\ Rank(D, e) \in Nat
      BY <1>2
    <2> QED
      BY <2>4, <2>5
  <1>5. ASSUME NEW i \in 1 .. n
        PROVE  \E d \in D : Rank(D, d) = i - 1
    <2> DEFINE f == [d \in D |-> Rank(D, d)]
               R == 0 .. (n - 1)
    <2> HIDE DEF n
    <2>1. IsFiniteSet(R) /\ Cardinality(R) = n
      <3>1. 0 \in Int /\ n - 1 \in Int
        BY <1>1
      <3>2. /\ IsFiniteSet(0 .. (n - 1))
            /\ Cardinality(0 .. (n - 1)) = IF 0 > n - 1 THEN 0 ELSE (n - 1) - 0 + 1
        BY <3>1, FS_Interval
      <3> QED
        BY <1>1, <3>2
    <2>2. ASSUME NEW d \in D
          PROVE  Rank(D, d) \in R
      <3>1. Rank(D, d) \in Nat /\ Rank(D, d) < n
        BY <1>2, <1>3
      <3> QED
        BY <1>1, <3>1
    <2>3. ASSUME NEW d \in D, NEW e \in D, f[d] = f[e]
          PROVE  d = e
      <3>1. Rank(D, d) = Rank(D, e) /\ Rank(D, d) \in Nat
        BY <1>2, <2>3
      <3>2. ~(d < e) /\ ~(e < d)
        BY <1>4, <3>1
      <3>3. d \in Int /\ e \in Int
        OBVIOUS
      <3> QED
        BY <3>2, <3>3
    <2>4. i - 1 \in R
      BY <1>1
    <2> HIDE DEF R
    <2>5. f \in [D -> R]
      BY <2>2
    <2>6. f \in Injection(D, R)
      <3> HIDE DEF f
      <3> QED
        BY <2>3, <2>5 DEF Injection, IsInjective
    <2>7. f \in Surjection(D, R)
      <3> HIDE DEF f
      <3>1. Cardinality(D) = Cardinality(R)
        BY <2>1 DEF n
      <3> QED
        BY <2>1, <2>6, <3>1, FS_Injection
    <2>8. PICK d \in D : f[d] = i - 1
      BY <2>4, <2>7 DEF Surjection
    <2> QED
      BY <2>8
  <1>6. ASSUME NEW d \in D
        PROVE  Rank(D, d) \in 0 .. n - 1
    <2>1. Rank(D, d) \in Nat /\ Rank(D, d) < n
      BY <1>2, <1>3
    <2> HIDE DEF n
    <2> QED
      BY <1>1, <2>1
  <1> QED
    BY <1>1, <1>4, <1>5, <1>6

\* Sorted lists every date at its rank.
LEMMA SortedDates ==
    ASSUME NEW D \in SUBSET Int, IsFiniteSet(D)
    PROVE  /\ Sorted(D) \in [1 .. Cardinality(D) -> D]
           /\ \A i \in 1 .. Cardinality(D) : Rank(D, Sorted(D)[i]) = i - 1
           /\ \A d \in D : Rank(D, d) + 1 \in 1 .. Cardinality(D)
           /\ \A d \in D : Sorted(D)[Rank(D, d) + 1] = d
           /\ \A i, j \in 1 .. Cardinality(D) : i < j => Sorted(D)[i] < Sorted(D)[j]
  <1> DEFINE n == Cardinality(D)
             s == Sorted(D)
  <1>1. n \in Nat
    BY FS_CardinalityType
  <1>2. ASSUME NEW i \in 1 .. n
        PROVE  s[i] \in D /\ Rank(D, s[i]) = i - 1
    <2>1. s[i] = CHOOSE d \in D : Rank(D, d) = i - 1
      BY DEF Sorted, Rank, Below
    <2>2. \E d \in D : Rank(D, d) = i - 1
      BY Ranks
    <2> HIDE DEF s
    <2> QED
      BY <2>1, <2>2
  <1>3. s \in [1 .. n -> D]
    <2> DEFINE At(i) == CHOOSE d \in D : Cardinality({e \in D : e < d}) = i - 1
    <2>1. Sorted(D) = [i \in 1 .. Cardinality(D) |-> At(i)]
      BY Zenon DEF Sorted
    <2> HIDE DEF At, s
    <2>2. s = [i \in 1 .. n |-> At(i)]
      BY <2>1 DEF s
    <2>3. s \in [1 .. n -> D]
      <3> HIDE DEF n
      <3> QED
        BY <1>2, <2>2
    <2> QED
      BY <2>3
  <1>4. ASSUME NEW d \in D, NEW e \in D, Rank(D, d) = Rank(D, e)
        PROVE  d = e
    <2>1. Rank(D, d) \in Int /\ Rank(D, e) \in Int /\ d \in Int /\ e \in Int
      BY Ranks
    <2>2. ~(d < e) /\ ~(e < d)
      BY <1>4, <2>1, Ranks
    <2> QED
      BY <2>1, <2>2
  <1>5. ASSUME NEW d \in D
        PROVE  Rank(D, d) + 1 \in 1 .. n /\ s[Rank(D, d) + 1] = d
    <2>1. Rank(D, d) + 1 \in 1 .. n
      BY <1>1, Ranks
    <2>2. Rank(D, s[Rank(D, d) + 1]) = Rank(D, d)
      BY <1>2, <2>1, Ranks
    <2> QED
      BY <1>2, <1>4, <2>1, <2>2
  <1>6. ASSUME NEW i \in 1 .. n, NEW j \in 1 .. n, i < j
        PROVE  s[i] < s[j]
    <2>1. s[i] \in Int /\ s[j] \in Int /\ s[i] \in D /\ s[j] \in D
      BY <1>2
    <2>2. Rank(D, s[i]) < Rank(D, s[j])
      BY <1>1, <1>2, <1>6
    <2>3. ~(s[j] < s[i]) /\ s[j] # s[i]
      BY <2>1, <2>2, Ranks
    <2> HIDE DEF s
    <2> QED
      BY <2>1, <2>3
  <1> HIDE DEF s
  <1> QED
    BY <1>2, <1>3, <1>5, <1>6 DEF s

\* The earlier dates of a set come first, at the places they have alone.
LEMMA SortedPrefix ==
    ASSUME NEW D \in SUBSET Int, IsFiniteSet(D), NEW E \in SUBSET D,
           \A d \in E, e \in D \ E : d < e
    PROVE  /\ IsFiniteSet(E) /\ Cardinality(E) \in Nat /\ Cardinality(D) \in Nat
           /\ Cardinality(E) <= Cardinality(D)
           /\ \A i \in 1 .. Cardinality(E) : Sorted(E)[i] = Sorted(D)[i]
           /\ \A i \in 1 .. Cardinality(D) :
                 Sorted(D)[i] \in E <=> i <= Cardinality(E)
  <1>1. /\ IsFiniteSet(E) /\ Cardinality(E) <= Cardinality(D)
        /\ Cardinality(E) \in Nat /\ Cardinality(D) \in Nat /\ E \in SUBSET Int
    BY FS_Subset, FS_CardinalityType
  <1>2. ASSUME NEW d \in E
        PROVE  Rank(D, d) = Rank(E, d)
    <2>1. ASSUME NEW e \in D, e < d
          PROVE  e \in E
      <3> SUFFICES ASSUME e \notin E
                   PROVE  FALSE
        OBVIOUS
      <3>1. d < e /\ d \in Int /\ e \in Int
        OBVIOUS
      <3> QED
        BY <2>1, <3>1
    <2>2. Below(D, d) = Below(E, d)
      BY <2>1 DEF Below
    <2> QED
      BY <2>2 DEF Rank
  <1>3. ASSUME NEW i \in 1 .. Cardinality(E)
        PROVE  Sorted(E)[i] = Sorted(D)[i]
    <2> DEFINE d == Sorted(E)[i]
    <2>1. d \in E /\ Rank(E, d) = i - 1
      BY <1>1, SortedDates
    <2>2. d \in D /\ Rank(D, d) + 1 = i
      <3> HIDE DEF d
      <3>1. d \in D /\ Rank(D, d) = Rank(E, d)
        BY <1>2, <2>1
      <3> QED
        BY <1>1, <2>1, <3>1
    <2> HIDE DEF d
    <2>3. Sorted(D)[i] = d
      BY <2>2, SortedDates
    <2> QED
      BY <2>3 DEF d
  <1>4. ASSUME NEW i \in 1 .. Cardinality(D), Sorted(D)[i] \in E
        PROVE  i <= Cardinality(E)
    <2> DEFINE d == Sorted(D)[i]
    <2>1. Rank(D, d) = i - 1 /\ d \in E
      BY <1>4, SortedDates
    <2>2. Rank(E, d) = i - 1
      BY <1>2, <2>1
    <2>3. Rank(E, d) \in 0 .. Cardinality(E) - 1
      BY <1>1, <2>1, Ranks
    <2> HIDE DEF d
    <2> QED
      BY <1>1, <2>2, <2>3
  <1>5. ASSUME NEW i \in 1 .. Cardinality(D), i <= Cardinality(E)
        PROVE  Sorted(D)[i] \in E
    <2>1. i \in 1 .. Cardinality(E)
      BY <1>1, <1>5
    <2>2. Sorted(E)[i] \in E
      BY <1>1, <2>1, SortedDates
    <2> QED
      BY <1>3, <2>1, <2>2
  <1> QED
    BY <1>1, <1>3, <1>4, <1>5

-------------------------------------------------------------------------------
(* What a number is computed from                                          *)

\* The series of the dates of a set, as a function of their places.
LEMMA SeriesPlaces ==
    ASSUME NEW D \in SUBSET Int, IsFiniteSet(D)
    PROVE  /\ Series(D) \in Seq(Int \X BOOLEAN) /\ Len(Series(D)) = Cardinality(D)
           /\ Cardinality(D) \in Nat
           /\ \A i \in 1 .. Cardinality(D) : Series(D)[i][1] = Sorted(D)[i]
           /\ \A i \in 1 .. Cardinality(D) :
                 Series(D)[i][2] = (Sorted(D)[i] \in adjusted)
  <1> DEFINE n == Cardinality(D)
             s == Sorted(D)
  <1>1. n \in Nat
    BY FS_CardinalityType
  <1>2. s \in [1 .. n -> D]
    BY SortedDates
  <1> HIDE DEF n, s
  <1>3. Series(D) = [i \in 1 .. n |-> <<s[i], s[i] \in adjusted>>]
    BY <1>2 DEF Series, s
  <1>4. Series(D) \in [1 .. n -> Int \X BOOLEAN]
    <2>1. ASSUME NEW i \in 1 .. n
          PROVE  <<s[i], s[i] \in adjusted>> \in Int \X BOOLEAN
      <3>1. s[i] \in Int
        BY <1>2
      <3>2. (s[i] \in adjusted) \in BOOLEAN
        OBVIOUS
      <3> QED
        BY <3>1, <3>2, Zenon
    <2> QED
      BY <1>3, <2>1
  <1>5. Series(D) \in Seq(Int \X BOOLEAN) /\ Len(Series(D)) = n
    BY <1>1, <1>4
  <1> QED
    BY <1>1, <1>3, <1>5 DEF n, s

\* The series of an initial part of the dates is an initial part of the series.
LEMMA SeriesPrefix ==
    ASSUME NEW D \in SUBSET Int, IsFiniteSet(D), NEW E \in SUBSET D,
           \A d \in E, e \in D \ E : d < e
    PROVE  /\ Len(Series(E)) \in Nat /\ Len(Series(D)) \in Nat
           /\ Len(Series(E)) <= Len(Series(D))
           /\ \A i \in 1 .. Len(Series(E)) : Series(E)[i] = Series(D)[i]
           /\ \A i \in 1 .. Len(Series(D)) :
                 Series(D)[i][1] \in E <=> i <= Len(Series(E))
  <1>1. /\ IsFiniteSet(E) /\ E \in SUBSET Int
        /\ Cardinality(E) \in Nat /\ Cardinality(D) \in Nat
        /\ Cardinality(E) <= Cardinality(D)
    BY SortedPrefix
  <1>2. /\ Len(Series(E)) = Cardinality(E) /\ Len(Series(D)) = Cardinality(D)
    BY <1>1, SeriesPlaces
  <1>3. ASSUME NEW i \in 1 .. Cardinality(E)
        PROVE  Series(E)[i] = Series(D)[i]
    <2>1. i \in 1 .. Cardinality(D)
      BY <1>1
    <2>2. Sorted(E)[i] = Sorted(D)[i]
      BY SortedPrefix
    <2>3. /\ Series(E)[i] = <<Sorted(E)[i], Sorted(E)[i] \in adjusted>>
          /\ Series(D)[i] = <<Sorted(D)[i], Sorted(D)[i] \in adjusted>>
      BY <1>1, <2>1, SortedDates DEF Series
    <2> QED
      BY <2>2, <2>3
  <1>4. ASSUME NEW i \in 1 .. Cardinality(D)
        PROVE  Series(D)[i][1] \in E <=> i <= Cardinality(E)
    <2>1. Series(D)[i][1] = Sorted(D)[i]
      BY SeriesPlaces
    <2> QED
      BY <2>1, SortedPrefix
  <1> QED
    BY <1>1, <1>2, <1>3, <1>4

\* Two series that agree up to a place agree on what is before it.
LEMMA SamePart ==
    ASSUME NEW V, NEW u \in Seq(V), NEW v \in Seq(V),
           NEW i \in Nat, i <= Len(u), i <= Len(v), \A k \in 1 .. i : u[k] = v[k],
           NEW a \in Int, 1 <= a
    PROVE  SubSeq(u, a, i) = SubSeq(v, a, i)
  OBVIOUS

\* So do the indicators that read no other table.
LEMMA SameScore ==
    ASSUME NEW V, NEW u \in Seq(V), NEW v \in Seq(V),
           NEW i \in Nat \ {0}, i <= Len(u), i <= Len(v), \A k \in 1 .. i : u[k] = v[k]
    PROVE  /\ \A w \in Nat \ {0} : /\ RollingAverage(u, i, w) = RollingAverage(v, i, w)
                                   /\ PeriodReturn(u, i, w) = PeriodReturn(v, i, w)
                                   /\ Ema(u, i, w) = Ema(v, i, w)
                                   /\ Since(u, i, w) = Since(v, i, w)
           /\ Volatility(u, i) = Volatility(v, i)
           /\ Score(u, i) = Score(v, i)
  <1>1. \A a \in Int : 1 <= a => SubSeq(u, a, i) = SubSeq(v, a, i)
    BY SamePart
  <1>2. ASSUME NEW w \in Nat \ {0}
        PROVE  /\ RollingAverage(u, i, w) = RollingAverage(v, i, w)
               /\ PeriodReturn(u, i, w) = PeriodReturn(v, i, w)
               /\ Ema(u, i, w) = Ema(v, i, w)
               /\ Since(u, i, w) = Since(v, i, w)
    <2>1. RollingAverage(u, i, w) = RollingAverage(v, i, w)
      <3> DEFINE a == i - w + 1
      <3>1. ~(i < w) => a \in Int /\ 1 <= a
        OBVIOUS
      <3> HIDE DEF a
      <3>2. ~(i < w) => SubSeq(u, a, i) = SubSeq(v, a, i)
        BY <1>1, <3>1
      <3> QED
        BY <3>2 DEF RollingAverage, a
    <2>2. PeriodReturn(u, i, w) = PeriodReturn(v, i, w)
      BY DEF PeriodReturn
    <2>3. Ema(u, i, w) = Ema(v, i, w)
      <3>1. SubSeq(u, 1, i) = SubSeq(v, 1, i)
        BY <1>1
      <3> QED
        BY <3>1 DEF Ema
    <2>4. Since(u, i, w) = Since(v, i, w)
      <3> DEFINE a == i - w
      <3>1. ~(i <= w) => a \in Int /\ 1 <= a
        OBVIOUS
      <3> HIDE DEF a
      <3>2. ~(i <= w) => SubSeq(u, a, i) = SubSeq(v, a, i)
        BY <1>1, <3>1
      <3> QED
        BY <3>2 DEF Since, a
    <2> QED
      BY <2>1, <2>2, <2>3, <2>4
  <1>3. Volatility(u, i) = Volatility(v, i)
    <2> DEFINE first == IF i > Month THEN i - Month ELSE 1
    <2>1. first \in Int /\ 1 <= first
      BY WalkForwardAssumption
    <2>2. SubSeq(u, first, i) = SubSeq(v, first, i)
      <3> HIDE DEF first
      <3> QED
        BY <1>1, <2>1
    <2> QED
      BY <2>2 DEF Volatility
  <1>4. Score(u, i) = Score(v, i)
    <2>1. /\ Averages \subseteq Nat \ {0} /\ Returns \subseteq Nat \ {0}
          /\ Month \in Nat \ {0}
      BY WalkForwardAssumption
    <2>2. [w \in Averages |-> RollingAverage(u, i, w)]
              = [w \in Averages |-> RollingAverage(v, i, w)]
      BY <1>2, <2>1
    <2>3. [w \in Returns |-> PeriodReturn(u, i, w)]
              = [w \in Returns |-> PeriodReturn(v, i, w)]
      BY <1>2, <2>1
    <2>4. RollingAverage(u, i, Month) = RollingAverage(v, i, Month)
      BY <1>2, <2>1
    <2> QED
      BY <1>3, <2>2, <2>3, <2>4 DEF Score
  <1> QED
    BY <1>2, <1>3, <1>4

\* A score needs as many sessions as a backtest.
LEMMA ScoreNeedsHistory ==
    ASSUME NEW v, NEW i \in Nat, Score(v, i) # None
    PROVE  MinHistory \in Nat /\ MinHistory <= i
  <1>1. MinHistory \in Averages /\ MinHistory \in Nat
    BY WalkForwardAssumption
  <1>2. ~(i < MinHistory)
    BY <1>1 DEF Score
  <1> QED
    BY <1>1, <1>2

\* What the benchmark contributes is cut at the date of the row.
LEMMA SameBenchmark ==
    ASSUME NEW b, NEW c, NEW t, {d \in b : d <= t} = {d \in c : d <= t}
    PROVE  /\ Known(b, t) = Known(c, t)
           /\ BenchmarkReturn(b, t) = BenchmarkReturn(c, t)
           /\ BenchmarkVolatility(b, t) = BenchmarkVolatility(c, t)
  <1>1. Known(b, t) = Known(c, t)
    BY DEF Known
  <1> QED
    BY <1>1 DEF BenchmarkReturn, BenchmarkVolatility

\* So is what the brokers contribute.
LEMMA SameBrokers ==
    ASSUME NEW b, NEW c, NEW t, {d \in b : d <= t} = {d \in c : d <= t}, t \in b <=> t \in c
    PROVE  BrokerMetrics(b, t) = BrokerMetrics(c, t)
  <1>1. Known(b, t) = Known(c, t)
    BY DEF Known
  <1> QED
    BY <1>1 DEF BrokerMetrics

\* The invariant: the rows of every table have dates of the calendar.
ResearchInv == /\ ohlcv \subseteq Days /\ benchmark \subseteq Days
               /\ foreign \in Seq(Days) /\ brokers \subseteq Days

\* Every step keeps it.
LEMMA Researched == WalkForwardSpec => []ResearchInv
  <1>1. WalkForwardInit => ResearchInv
    BY DEF WalkForwardInit, ResearchInv
  <1>2. ResearchInv /\ [WalkForwardNext]_walkForwardVars => ResearchInv'
    <2> SUFFICES ASSUME ResearchInv, [WalkForwardNext]_walkForwardVars
                 PROVE  ResearchInv'
      OBVIOUS
    <2>1. ASSUME NEW d \in Days, StoreCandle(d)
          PROVE  ResearchInv'
      BY <2>1 DEF StoreCandle, ResearchInv, flows
    <2>2. ASSUME NEW d \in BenchmarkDates, StoreBenchmark(d)
          PROVE  ResearchInv'
      BY <2>2, WalkForwardAssumption DEF StoreBenchmark, ResearchInv, flows
    <2>3. ASSUME NEW d \in ForeignDates, StoreForeign(d)
          PROVE  ResearchInv'
      <3>1. d \in Days /\ foreign \in Seq(Days)
        BY WalkForwardAssumption DEF ResearchInv
      <3>2. \A k \in DOMAIN foreign : RemoveAt(foreign, k) \in Seq(Days)
        BY <3>1 DEF RemoveAt
      <3>3. foreign' \in Seq(Days)
        <4>1. PICK rest \in Seq(Days) : foreign' = Append(rest, d)
          BY <2>3, <3>1, <3>2 DEF StoreForeign
        <4> QED
          BY <3>1, <4>1
      <3> QED
        BY <2>3, <3>3 DEF StoreForeign, ResearchInv
    <2>4. CASE Rebuild
      BY <2>4 DEF Rebuild, ResearchInv, flows
    <2>5. CASE UNCHANGED walkForwardVars
      BY <2>5 DEF walkForwardVars, ResearchInv, flows
    <2>6. ASSUME NEW d \in BrokerDates, StoreBroker(d)
          PROVE  ResearchInv'
      BY <2>6, WalkForwardAssumption DEF StoreBroker, ResearchInv
    <2>7. ASSUME NEW table, NEW d, StoreDated(table, d) \/ StoreNews(d)
          PROVE  ResearchInv'
      BY <2>7 DEF StoreDated, StoreNews, ResearchInv
    <2> QED
      BY <2>1, <2>2, <2>3, <2>4, <2>5, <2>6, <2>7 DEF WalkForwardNext
  <1> QED
    BY <1>1, <1>2, PTL DEF WalkForwardSpec

\* The beta of a row: the sessions before it, where the benchmark has them.
LEMMA SameBeta ==
    ASSUME NEW u, NEW v, NEW i \in Nat \ {0}, \A k \in 1 .. i : u[k] = v[k],
           NEW b, NEW c, \A k \in 1 .. i : u[k][1] \in b <=> v[k][1] \in c
    PROVE  Beta(u, b, i) = Beta(v, c, i)
  <1> DEFINE Both(x, dates) == {j \in (i - Month + 1) .. i :
                                  x[j - 1][1] \in dates /\ x[j][1] \in dates}
             B == Both(u, b)
  <1>1. CASE i <= Month
    BY <1>1 DEF Beta
  <1>2. CASE ~(i <= Month)
    <2>1. Month \in Nat \ {0}
      BY WalkForwardAssumption
    <2>2. \A j \in (i - Month + 1) .. i : j \in 1 .. i /\ j - 1 \in 1 .. i
      BY <1>2, <2>1
    <2>3. Both(v, c) = B
      BY <2>2
    <2>4. B \subseteq (i - Month + 1) .. i
      OBVIOUS
    <2>5. IsFiniteSet(B) /\ B \in SUBSET Int
      <3>1. i - Month + 1 \in Int
        BY <2>1
      <3>2. IsFiniteSet((i - Month + 1) .. i)
        BY <3>1, FS_Interval
      <3> DEFINE I == (i - Month + 1) .. i
      <3>3. IsFiniteSet(I) /\ I \subseteq Int /\ B \subseteq I
        BY <3>1, <3>2
      <3> HIDE DEF B, I
      <3> QED
        BY <3>3, FS_Subset
    <2>6. \A k \in 1 .. Cardinality(B) : u[Sorted(B)[k]] = v[Sorted(B)[k]]
      <3> HIDE DEF B
      <3>1. \A k \in 1 .. Cardinality(B) : Sorted(B)[k] \in B
        BY <2>5, SortedDates
      <3>2. \A j \in B : u[j] = v[j]
        BY <2>2, <2>4
      <3> QED
        BY <3>1, <3>2
    <2> DEFINE Read(x, S) == [k \in 1 .. Cardinality(S) |-> x[Sorted(S)[k]]]
    <2>7. Read(u, B) = Read(v, B)
      <3> HIDE DEF B
      <3> QED
        BY <2>6
    <2>8. /\ Beta(u, b, i) = IF Cardinality(B) < Half THEN None ELSE Read(u, B)
          /\ Beta(v, c, i) = IF Cardinality(Both(v, c)) < Half THEN None
                             ELSE Read(v, Both(v, c))
      BY <1>2 DEF Beta
    <2> HIDE DEF B, Both, Read
    <2> QED
      BY <2>3, <2>7, <2>8
  <1> QED
    BY <1>1, <1>2

\* The foreign flow that a request reads, up to a date.
LEMMA SameForeign ==
    ASSUME ResearchInv, NEW to \in Days, NEW t \in Int, t <= to
    PROVE  /\ ForeignPersistence(ForeignUntil(to), t)
                  = ForeignPersistence(ForeignUntil(Unset), t)
           /\ (\E k \in DOMAIN ForeignUntil(to) : ForeignUntil(to)[k] = t)
                  <=> (\E k \in DOMAIN ForeignUntil(Unset) : ForeignUntil(Unset)[k] = t)
  <1> DEFINE g == ForeignUntil(to)
             f == ForeignUntil(Unset)
             KnownIn(h) == {k \in DOMAIN h : h[k] <= t}
             LastIn(h) == {k \in KnownIn(h) :
                             Cardinality({j \in KnownIn(h) : j > k}) < Week}
  <1>1. to \in Int /\ \A k \in DOMAIN foreign : foreign[k] \in Int
    <2>1. Days \subseteq Int
      BY WalkForwardAssumption
    <2>2. foreign \in Seq(Days)
      BY DEF ResearchInv
    <2>3. \A k \in DOMAIN foreign : foreign[k] \in Days
      BY <2>2
    <2> QED
      BY <2>1, <2>3
  <1>2. /\ DOMAIN g = {k \in DOMAIN foreign : to = Unset \/ foreign[k] <= to}
        /\ \A k \in DOMAIN g : g[k] = foreign[k]
    BY DEF ForeignUntil, RestrictValues, Restrict
  <1>3. f = [k \in DOMAIN foreign |-> foreign[k]]
    BY DEF ForeignUntil, RestrictValues, Restrict
  <1> HIDE DEF f, g
  <1>4. KnownIn(g) = KnownIn(f) /\ \A k \in KnownIn(g) : g[k] = f[k]
    BY <1>1, <1>2, <1>3
  <1> HIDE DEF KnownIn
  <1>5. LastIn(g) = LastIn(f) /\ \A k \in LastIn(g) : g[k] = f[k]
    BY <1>4
  <1>6. \A h : ForeignPersistence(h, t) = {h[k] : k \in LastIn(h)}
    BY DEF ForeignPersistence, KnownIn
  <1>7. (\E k \in DOMAIN g : g[k] = t) <=> (\E k \in DOMAIN f : f[k] = t)
    BY <1>1, <1>2, <1>3
  <1> HIDE DEF LastIn
  <1> QED
    BY <1>5, <1>6, <1>7 DEF f, g

-------------------------------------------------------------------------------
(* The analysis                                                            *)

\* The dates of a table up to a day come before its other ones.
LEMMA Cut ==
    ASSUME ResearchInv, NEW last \in Days
    PROVE  /\ ohlcv \in SUBSET Int /\ IsFiniteSet(ohlcv)
           /\ Until(ohlcv, last) = {d \in ohlcv : d <= last}
           /\ Until(benchmark, last) = {d \in benchmark : d <= last}
           /\ Until(ohlcv, Unset) = ohlcv /\ Until(benchmark, Unset) = benchmark
           /\ Until(ohlcv, last) \in SUBSET ohlcv
           /\ \A d \in Until(ohlcv, last), e \in ohlcv \ Until(ohlcv, last) : d < e
  <1>1. /\ last \in Nat \ {0} /\ ohlcv \in SUBSET Days
        /\ Days \in SUBSET Int /\ IsFiniteSet(Days)
    BY WalkForwardAssumption DEF ResearchInv
  <1>2. ohlcv \in SUBSET Int /\ IsFiniteSet(ohlcv)
    BY <1>1, FS_Subset
  <1>3. Until(ohlcv, last) = {d \in ohlcv : d <= last}
    BY <1>1 DEF Until, Unset
  <1>4. Until(benchmark, last) = {d \in benchmark : d <= last}
    BY <1>1 DEF Until, Unset
  <1>5. Until(ohlcv, Unset) = ohlcv /\ Until(benchmark, Unset) = benchmark
    BY DEF Until
  <1>6. ASSUME NEW d \in Until(ohlcv, last), NEW e \in ohlcv \ Until(ohlcv, last)
        PROVE  d < e
    <2>1. d <= last /\ ~(e <= last) /\ d \in Int /\ e \in Int
      BY <1>2, <1>3
    <2> QED
      BY <1>1, <2>1
  <1> QED
    BY <1>2, <1>3, <1>4, <1>5, <1>6

\* A row is the same whether the tables are cut at a later day or not at all.
LEMMA SameRow ==
    ASSUME ResearchInv, NEW to \in Days, NEW i \in 1 .. Len(Series(Until(ohlcv, to))),
           NEW g, NEW f, g = ForeignUntil(to), f = ForeignUntil(Unset)
    PROVE  Indicators(Tables(to), i) = Indicators(Tables(Unset), i)
  <1> DEFINE E == Until(ohlcv, to)
             u == Series(E)
             v == Series(ohlcv)
             c == Until(benchmark, to)
             t == v[i][1]
             p == Tables(to)
             q == Tables(Unset)
  <1>0. /\ p.candles = u /\ p.benchmark = c /\ p.foreign = g
        /\ p.brokers = Until(brokers, to)
        /\ p.dated = {r \in dated : to = Unset \/ r[2] <= to}
        /\ q.candles = Series(Until(ohlcv, Unset))
        /\ q.benchmark = Until(benchmark, Unset) /\ q.foreign = f
        /\ q.brokers = Until(brokers, Unset)
        /\ q.dated = {r \in dated : Unset = Unset \/ r[2] <= Unset}
    BY DEF Tables
  <1>00. q.candles = v /\ q.benchmark = benchmark /\ q.brokers = brokers /\ q.dated = dated
    <2>1. Until(ohlcv, Unset) = ohlcv
      BY DEF Until
    <2>2. Until(benchmark, Unset) = benchmark /\ Until(brokers, Unset) = brokers
      BY DEF Until
    <2> QED
      BY <1>0, <2>1, <2>2
  <1> HIDE DEF p, q
  <1>1. /\ ohlcv \in SUBSET Int /\ IsFiniteSet(ohlcv) /\ E \in SUBSET ohlcv
        /\ c = {d \in benchmark : d <= to} /\ E = {d \in ohlcv : d <= to}
        /\ \A d \in E, e \in ohlcv \ E : d < e
    BY Cut
  <1>2. E \in SUBSET Int /\ IsFiniteSet(E)
    BY <1>1, FS_Subset
  <1> HIDE DEF E
  <1>3. /\ u \in Seq(Int \X BOOLEAN) /\ v \in Seq(Int \X BOOLEAN)
    BY <1>1, <1>2, SeriesPlaces
  <1>4. /\ Len(u) \in Nat /\ Len(v) \in Nat /\ Len(u) <= Len(v)
        /\ \A k \in 1 .. Len(u) : u[k] = v[k]
        /\ \A k \in 1 .. Len(v) : v[k][1] \in E <=> k <= Len(u)
    BY <1>1, SeriesPrefix
  <1>5. i \in 1 .. Len(u)
    BY DEF E
  <1> HIDE DEF u, v, c
  <1>6. /\ i \in Nat \ {0} /\ i <= Len(u) /\ i <= Len(v) /\ u[i] = v[i]
        /\ \A k \in 1 .. i : u[k] = v[k]
        /\ \A k \in 1 .. i : v[k][1] \in E
    BY <1>4, <1>5
  <1>7. to \in Int /\ benchmark \in SUBSET Int /\ brokers \in SUBSET Int
    <2>1. Days \in SUBSET Int
      BY WalkForwardAssumption
    <2>2. benchmark \subseteq Days /\ brokers \subseteq Days
      BY DEF ResearchInv
    <2> QED
      BY <2>1, <2>2
  <1>8. \A k \in 1 .. i : v[k][1] \in Int /\ v[k][1] <= to
    BY <1>1, <1>6
  <1>9. t \in Int /\ t <= to
    BY <1>6, <1>8
  <1> HIDE DEF t
  <1>10. /\ \A w \in Nat \ {0} : /\ RollingAverage(u, i, w) = RollingAverage(v, i, w)
                                 /\ PeriodReturn(u, i, w) = PeriodReturn(v, i, w)
                                 /\ Ema(u, i, w) = Ema(v, i, w)
                                 /\ Since(u, i, w) = Since(v, i, w)
         /\ Volatility(u, i) = Volatility(v, i)
         /\ Score(u, i) = Score(v, i)
    BY <1>3, <1>6, SameScore
  <1>11. /\ Known(c, t) = Known(benchmark, t)
         /\ BenchmarkReturn(c, t) = BenchmarkReturn(benchmark, t)
         /\ BenchmarkVolatility(c, t) = BenchmarkVolatility(benchmark, t)
    <2>1. {d \in c : d <= t} = {d \in benchmark : d <= t}
      <3>1. \A d \in benchmark : d <= t => d <= to
        BY <1>7, <1>9
      <3> QED
        BY <1>1, <3>1
    <2> QED
      BY <2>1, SameBenchmark
  <1>12. Beta(u, c, i) = Beta(v, benchmark, i)
    <2>1. \A k \in 1 .. i : u[k][1] \in c <=> v[k][1] \in benchmark
      BY <1>1, <1>6, <1>8
    <2> QED
      <3>1. i \in Nat \ {0} /\ \A k \in 1 .. i : u[k] = v[k]
        BY <1>6
      <3> QED
        BY <2>1, <3>1, SameBeta
  <1>13. /\ ForeignPersistence(g, t) = ForeignPersistence(f, t)
         /\ (\E k \in DOMAIN g : g[k] = t) <=> (\E k \in DOMAIN f : f[k] = t)
    BY <1>9, SameForeign
  <1>14. u[i][1] = t /\ v[i][1] = t
    BY <1>6 DEF t
  <1>15. Probability(u, c, i) = Probability(v, benchmark, i)
    BY <1>10, <1>11, <1>14 DEF Probability
  <1>16. /\ [w \in Averages |-> RollingAverage(u, i, w)]
               = [w \in Averages |-> RollingAverage(v, i, w)]
         /\ [w \in Averages |-> Ema(u, i, w)] = [w \in Averages |-> Ema(v, i, w)]
         /\ Since(u, i, Fortnight) = Since(v, i, Fortnight)
         /\ Since(u, i, Month) = Since(v, i, Month)
         /\ RollingAverage(u, i, Month) = RollingAverage(v, i, Month)
    <2>1. /\ Averages \subseteq Nat \ {0} /\ Fortnight \in Nat \ {0}
          /\ Month \in Nat \ {0}
      BY WalkForwardAssumption
    <2> QED
      BY <1>10, <2>1
  <1>17. [w \in Returns |-> PeriodReturn(u, i, w)] = [w \in Returns |-> PeriodReturn(v, i, w)]
    <2>1. Returns \subseteq Nat \ {0}
      BY WalkForwardAssumption
    <2> QED
      BY <1>10, <2>1
  <1>18. BrokerMetrics(p.brokers, t) = BrokerMetrics(q.brokers, t)
    <2>1. p.brokers = {d \in brokers : d <= to} /\ q.brokers = brokers
      BY <1>0, <1>00, WalkForwardAssumption DEF Until, Unset
    <2>2. \A d \in brokers : d <= t => d <= to
      BY <1>7, <1>9
    <2>3. {d \in p.brokers : d <= t} = {d \in q.brokers : d <= t}
      BY <2>1, <2>2
    <2>4. t \in p.brokers <=> t \in q.brokers
      BY <1>9, <2>1
    <2> QED
      BY <2>3, <2>4, SameBrokers
  <1>19. \A k : <<k, t>> \in p.dated <=> <<k, t>> \in q.dated
    <2>1. \A k : <<k, t>>[2] <= to
      BY <1>9
    <2> QED
      BY <1>0, <1>00, <2>1
  <1>20. /\ p.candles = u /\ p.benchmark = c /\ p.foreign = g
         /\ q.candles = v /\ q.benchmark = benchmark /\ q.foreign = f
    BY <1>0, <1>00
  <1>21. Len(Known(c, t)) = Len(Known(benchmark, t))
    BY <1>11
  <1> HIDE <1>0, <1>00
  <1>22. Indicators(p, i) = Indicators(q, i)
    <2>1. p.candles[i][1] = t /\ q.candles[i][1] = t
      BY <1>14, <1>20
    <2>2. /\ Score(p.candles, i) = Score(q.candles, i)
          /\ Probability(p.candles, p.benchmark, i) = Probability(q.candles, q.benchmark, i)
          /\ [w \in Returns |-> PeriodReturn(p.candles, i, w)]
                = [w \in Returns |-> PeriodReturn(q.candles, i, w)]
          /\ Volatility(p.candles, i) = Volatility(q.candles, i)
          /\ Beta(p.candles, p.benchmark, i) = Beta(q.candles, q.benchmark, i)
      BY <1>10, <1>12, <1>15, <1>17, <1>20
    <2>3. /\ [w \in Averages |-> RollingAverage(p.candles, i, w)]
                = [w \in Averages |-> RollingAverage(q.candles, i, w)]
          /\ [w \in Averages |-> Ema(p.candles, i, w)]
                = [w \in Averages |-> Ema(q.candles, i, w)]
          /\ Since(p.candles, i, Fortnight) = Since(q.candles, i, Fortnight)
          /\ Since(p.candles, i, Month) = Since(q.candles, i, Month)
          /\ RollingAverage(p.candles, i, Month) = RollingAverage(q.candles, i, Month)
      BY <1>16, <1>20
    <2>4. /\ <<Len(Known(p.benchmark, t)), BenchmarkReturn(p.benchmark, t),
               BenchmarkVolatility(p.benchmark, t)>>
                = <<Len(Known(q.benchmark, t)), BenchmarkReturn(q.benchmark, t),
                    BenchmarkVolatility(q.benchmark, t)>>
          /\ ForeignPersistence(p.foreign, t) = ForeignPersistence(q.foreign, t)
          /\ (\E k \in DOMAIN p.foreign : p.foreign[k] = t)
                = (\E k \in DOMAIN q.foreign : q.foreign[k] = t)
      BY <1>11, <1>13, <1>20
    <2>5. /\ (<<"summary", t>> \in p.dated) = (<<"summary", t>> \in q.dated)
          /\ (<<"event", t>> \in p.dated) = (<<"event", t>> \in q.dated)
      BY <1>19
    <2> HIDE DEF p, q
    <2> QED
      BY <1>18, <2>1, <2>2, <2>3, <2>4, <2>5, Zenon DEF Indicators
  <1> QED
    BY <1>22 DEF p, q

\* What a request up to a day shows is what the whole history shows up to it.
LEMMA Causal ==
    ASSUME ResearchInv, NEW to \in Days
    PROVE  {row.indicators : row \in Analysis(Unset, to)} =
               {known \in {row.indicators : row \in Analysis(Unset, Unset)} :
                   known.date <= to}
  <1> DEFINE u == Series(Until(ohlcv, to))
             v == Series(ohlcv)
             UpTo(i) == Indicators(Tables(to), i)
             Whole(i) == Indicators(Tables(Unset), i)
             J == {j \in DOMAIN u : u[j][1] >= Unset}
             K == {j \in DOMAIN v : v[j][1] >= Unset}
  <1>1. /\ ohlcv \in SUBSET Int /\ IsFiniteSet(ohlcv)
        /\ Until(ohlcv, to) \in SUBSET ohlcv
        /\ Until(ohlcv, to) = {d \in ohlcv : d <= to}
        /\ Until(ohlcv, Unset) = ohlcv
        /\ \A d \in Until(ohlcv, to), e \in ohlcv \ Until(ohlcv, to) : d < e
    BY Cut
  <1>2. /\ Len(u) \in Nat /\ Len(v) \in Nat /\ Len(u) <= Len(v)
        /\ \A k \in 1 .. Len(u) : u[k] = v[k]
        /\ \A k \in 1 .. Len(v) : v[k][1] \in Until(ohlcv, to) <=> k <= Len(u)
    BY <1>1, SeriesPrefix
  <1>3. \A k \in 1 .. Len(v) : v[k][1] \in ohlcv /\ v[k][1] >= 0
    <2>1. \A k \in 1 .. Len(v) : v[k][1] \in ohlcv
      BY <1>1, SeriesPlaces, SortedDates
    <2>2. \A d \in ohlcv : d >= 0
      BY WalkForwardAssumption DEF ResearchInv
    <2> QED
      BY <2>1, <2>2
  <1>4. DOMAIN u = 1 .. Len(u) /\ DOMAIN v = 1 .. Len(v)
    <2>1. IsFiniteSet(Until(ohlcv, to)) /\ Until(ohlcv, to) \in SUBSET Int
      BY <1>1, FS_Subset
    <2>2. u \in Seq(Int \X BOOLEAN) /\ v \in Seq(Int \X BOOLEAN)
      BY <1>1, <2>1, SeriesPlaces
    <2> HIDE DEF u, v
    <2> QED
      BY <2>2
  <1>5. Tables(to).candles = u /\ Tables(Unset).candles = v
    BY <1>1 DEF Tables
  <1>6. /\ {row.indicators : row \in Analysis(Unset, to)} = {UpTo(i) : i \in J}
        /\ {row.indicators : row \in Analysis(Unset, Unset)} = {Whole(i) : i \in K}
    <2>1. /\ Analysis(Unset, to) = {Row(Tables(to), i) : i \in J}
          /\ Analysis(Unset, Unset) = {Row(Tables(Unset), i) : i \in K}
      BY <1>5 DEF Analysis
    <2>2. \A q, i : Row(q, i).indicators = Indicators(q, i)
      BY DEF Row
    <2> HIDE DEF J, K
    <2> QED
      BY <2>1, <2>2
  <1>7. \A i \in 1 .. Len(u) : UpTo(i) = Whole(i)
    BY SameRow
  <1>8. \A i : Whole(i).date = v[i][1]
    BY <1>5 DEF Indicators
  <1> HIDE DEF u, v, UpTo, Whole
  <1>9. J = 1 .. Len(u) /\ K = 1 .. Len(v)
    BY <1>2, <1>3, <1>4 DEF Unset
  <1>10. \A i \in 1 .. Len(v) : Whole(i).date <= to <=> i \in 1 .. Len(u)
    BY <1>1, <1>2, <1>3, <1>8
  <1>11. 1 .. Len(u) \subseteq 1 .. Len(v)
    BY <1>2
  <1> HIDE DEF J, K
  <1>12. {UpTo(i) : i \in J} = {known \in {Whole(i) : i \in K} : known.date <= to}
    BY <1>7, <1>9, <1>10, <1>11
  <1> QED
    BY <1>6, <1>12

\* IndicatorsAreCausal: for any windows, and whatever order the rows came in.
THEOREM Causality == WalkForwardSpec => []IndicatorsAreCausal
  <1>1. ResearchInv => IndicatorsAreCausal
    BY Causal DEF IndicatorsAreCausal
  <1> QED
    BY <1>1, Researched, PTL

-------------------------------------------------------------------------------
(* The outcomes                                                            *)

\* The places of a series whose signal has an outcome, and the outcome of one.
Ended(v) == {j \in DOMAIN v : /\ Score(v, j) # None /\ Len(v) >= MinHistory
                              /\ EndOf(v, j) <= Len(v)}
OutcomeAt(v, b, i) == [signal |-> v[i][1], start |-> v[i], end |-> v[EndOf(v, i)],
                       probability |-> Probability(v, b, i)]

\* A series has the dates of its set, in their order.
LEMMA SeriesDates ==
    ASSUME NEW D \in SUBSET Int, IsFiniteSet(D)
    PROVE  /\ \A k \in 1 .. Len(Series(D)) : Series(D)[k][1] \in D
           /\ \A j, k \in 1 .. Len(Series(D)) :
                 j < k => Series(D)[j][1] < Series(D)[k][1]
  <1>1. /\ Len(Series(D)) = Cardinality(D)
        /\ \A k \in 1 .. Cardinality(D) : Series(D)[k][1] = Sorted(D)[k]
    BY SeriesPlaces
  <1>2. /\ \A k \in 1 .. Cardinality(D) : Sorted(D)[k] \in D
        /\ \A j, k \in 1 .. Cardinality(D) : j < k => Sorted(D)[j] < Sorted(D)[k]
    BY SortedDates
  <1> QED
    BY <1>1, <1>2

\* Two series that agree up to the end of an outcome both have it.
LEMMA SameOutcome ==
    ASSUME NEW u \in Seq(Int \X BOOLEAN), NEW v \in Seq(Int \X BOOLEAN),
           NEW i \in Ended(u), i + Horizon <= Len(v), \A k \in 1 .. i + Horizon : u[k] = v[k],
           NEW b, NEW c, \A d : d <= u[i][1] => (d \in b <=> d \in c)
    PROVE  i \in Ended(v) /\ OutcomeAt(u, b, i) = OutcomeAt(v, c, i)
  <1>1. /\ i \in Nat \ {0} /\ i <= Len(u) /\ i + Horizon <= Len(u)
        /\ Horizon \in Nat \ {0} /\ Score(u, i) # None
    <2>1. i \in DOMAIN u /\ i + Horizon <= Len(u) /\ Score(u, i) # None
      BY DEF Ended, EndOf
    <2>2. DOMAIN u = 1 .. Len(u) /\ Len(u) \in Nat
      OBVIOUS
    <2>3. Horizon \in Nat \ {0}
      BY WalkForwardAssumption
    <2> QED
      BY <2>1, <2>2, <2>3
  <1>2. i <= Len(v) /\ i \in 1 .. i + Horizon /\ i + Horizon \in 1 .. i + Horizon
    BY <1>1
  <1>3. u[i] = v[i] /\ u[i + Horizon] = v[i + Horizon] /\ \A k \in 1 .. i : u[k] = v[k]
    BY <1>1, <1>2
  <1>4. Score(u, i) = Score(v, i)
    BY <1>1, <1>2, <1>3, SameScore
  <1>5. Probability(u, b, i) = Probability(v, c, i)
    <2>1. {d \in b : d <= u[i][1]} = {d \in c : d <= u[i][1]}
      OBVIOUS
    <2> QED
      <3> DEFINE t == u[i][1]
      <3>1. {d \in b : d <= t} = {d \in c : d <= t}
        BY <2>1
      <3> HIDE DEF t
      <3>2. BenchmarkReturn(b, t) = BenchmarkReturn(c, t)
        BY ONLY <3>1, SameBenchmark
      <3>3. u[i][1] = t /\ v[i][1] = t
        BY <1>3 DEF t
      <3> QED
        BY <1>4, <3>2, <3>3 DEF Probability
  <1>6. MinHistory \in Nat /\ MinHistory <= i
    BY <1>1, ScoreNeedsHistory
  <1>7. i \in DOMAIN v /\ Len(v) >= MinHistory
    BY <1>1, <1>2, <1>6
  <1> QED
    BY <1>3, <1>4, <1>5, <1>7, <1>1 DEF Ended, OutcomeAt, EndOf

\* The outcomes up to a day, and those of the whole history that end by then.
LEMMA CutOutcomes ==
    ASSUME ResearchInv, NEW last \in Days
    PROVE  LET u == Series(Until(ohlcv, last))
               v == Series(ohlcv)
           IN  /\ Ended(u) = {j \in Ended(v) : v[j + Horizon][1] <= last}
               /\ \A j \in Ended(u) :
                     /\ OutcomeAt(u, benchmark, j) = OutcomeAt(v, benchmark, j)
                     /\ v[j][1] <= last
               /\ \A j \in Ended(v) : v[j][1] >= Unset
  <1> DEFINE E == Until(ohlcv, last)
             u == Series(E)
             v == Series(ohlcv)
  <1>1. /\ ohlcv \in SUBSET Int /\ IsFiniteSet(ohlcv) /\ E \in SUBSET ohlcv
        /\ E = {d \in ohlcv : d <= last} /\ \A d \in E, e \in ohlcv \ E : d < e
    BY Cut
  <1>2. E \in SUBSET Int /\ IsFiniteSet(E)
    BY <1>1, FS_Subset
  <1>3. Horizon \in Nat \ {0}
    BY WalkForwardAssumption
  <1> HIDE DEF E
  <1>4. u \in Seq(Int \X BOOLEAN) /\ v \in Seq(Int \X BOOLEAN)
    BY <1>1, <1>2, SeriesPlaces
  <1>5. /\ Len(u) \in Nat /\ Len(v) \in Nat /\ Len(u) <= Len(v)
        /\ \A k \in 1 .. Len(u) : u[k] = v[k]
        /\ \A k \in 1 .. Len(v) : v[k][1] \in E <=> k <= Len(u)
    BY <1>1, SeriesPrefix
  <1>6. \A k \in 1 .. Len(v) : v[k][1] \in ohlcv
    BY <1>1, SeriesDates
  <1> HIDE DEF u, v
  <1>7. ASSUME NEW j \in Ended(u)
        PROVE  /\ j \in Ended(v)
               /\ OutcomeAt(u, benchmark, j) = OutcomeAt(v, benchmark, j)
               /\ v[j + Horizon][1] <= last /\ v[j][1] <= last
    <2>1. j \in Nat \ {0} /\ j <= Len(u) /\ j + Horizon <= Len(u)
      BY <1>4 DEF Ended, EndOf
    <2>2. j + Horizon <= Len(v) /\ \A k \in 1 .. j + Horizon : u[k] = v[k]
      BY <1>3, <1>5, <2>1
    <2>3. j \in Ended(v) /\ OutcomeAt(u, benchmark, j) = OutcomeAt(v, benchmark, j)
      BY <1>4, <2>2, SameOutcome
    <2>4. j \in 1 .. Len(v) /\ j + Horizon \in 1 .. Len(v)
      BY <1>3, <1>5, <2>1, <2>2
    <2>5. v[j][1] \in E /\ v[j + Horizon][1] \in E
      BY <1>5, <2>1, <2>4
    <2> QED
      BY <1>1, <2>3, <2>5
  <1>8. ASSUME NEW j \in Ended(v), v[j + Horizon][1] <= last
        PROVE  j \in Ended(u)
    <2>1. j \in Nat \ {0} /\ j <= Len(v) /\ j + Horizon <= Len(v)
      BY <1>4 DEF Ended, EndOf
    <2>2. j + Horizon \in 1 .. Len(v)
      BY <1>3, <1>5, <2>1
    <2>3. j + Horizon <= Len(u)
      BY <1>1, <1>5, <1>6, <1>8, <2>2
    <2>4. \A k \in 1 .. j + Horizon : v[k] = u[k]
      BY <1>3, <1>5, <2>1, <2>3
    <2> QED
      BY <1>4, <2>3, <2>4, SameOutcome
  <1>9. \A j \in Ended(v) : v[j][1] >= Unset
    <2>1. \A d \in ohlcv : d >= Unset
      BY WalkForwardAssumption DEF ResearchInv, Unset
    <2>2. \A j \in Ended(v) : j \in 1 .. Len(v)
      BY <1>4 DEF Ended
    <2> QED
      BY <1>6, <2>1, <2>2
  <1>10. Ended(u) = {j \in Ended(v) : v[j + Horizon][1] <= last}
    BY <1>7, <1>8
  <1>11. \A j \in Ended(u) : /\ OutcomeAt(u, benchmark, j) = OutcomeAt(v, benchmark, j)
                             /\ v[j][1] <= last
    BY <1>7
  <1> QED
    BY <1>9, <1>10, <1>11 DEF u, v, E

\* A range shows what the whole history shows of it.
LEMMA OneRange ==
    ASSUME ResearchInv, NEW from \in Days \cup {Unset}, NEW to \in Days \cup {Unset},
           from # Unset \/ to # Unset
    PROVE  Backtest(from, to) =
               {o \in Backtest(Unset, Unset) :
                   /\ o.signal >= from /\ o.end[1] <= LastDay(from, to)}
  <1> DEFINE last == LastDay(from, to)
             u == Series(Until(ohlcv, last))
             v == Series(ohlcv)
             b == benchmark
  <1>1. last \in Days /\ (to # Unset => to = last) /\ LastDay(Unset, Unset) = Unset
    BY WalkForwardAssumption DEF LastDay
  <1> HIDE DEF last
  <1>2. /\ Ended(u) = {j \in Ended(v) : v[j + Horizon][1] <= last}
        /\ \A j \in Ended(u) : /\ OutcomeAt(u, b, j) = OutcomeAt(v, b, j)
                               /\ v[j][1] <= last
        /\ \A j \in Ended(v) : v[j][1] >= Unset
    BY <1>1, CutOutcomes
  <1>3. Until(ohlcv, Unset) = ohlcv
    BY DEF Until
  <1>4. /\ Outcomes(u) = {OutcomeAt(u, b, j) : j \in Ended(u)}
        /\ Outcomes(v) = {OutcomeAt(v, b, j) : j \in Ended(v)}
    BY DEF Outcomes, Ended, OutcomeAt
  <1>5. /\ Backtest(from, to) = {o \in Outcomes(u) :
                                    o.signal >= from /\ (to # Unset => o.signal <= to)}
        /\ Backtest(Unset, Unset) = {o \in Outcomes(v) : o.signal >= Unset}
    BY <1>1, <1>3 DEF Backtest, Source, last
  <1>6. \A j : /\ OutcomeAt(v, b, j).signal = v[j][1]
               /\ OutcomeAt(v, b, j).end[1] = v[j + Horizon][1]
    BY DEF OutcomeAt, EndOf
  <1> DEFINE At(j) == OutcomeAt(v, b, j)
  <1> HIDE DEF u, v, b
  <1>7. Outcomes(u) = {At(j) : j \in Ended(u)}
    BY <1>2, <1>4
  <1>8. \A j \in Ended(u) : At(j).signal <= last
    BY <1>2, <1>6
  <1>9. \A j \in Ended(v) : At(j).signal >= Unset
    BY <1>2, <1>6
  <1>10. \A j \in Ended(v) : At(j).end[1] <= last <=> j \in Ended(u)
    BY <1>2, <1>6
  <1>11. Outcomes(v) = {At(j) : j \in Ended(v)} /\ Ended(u) \subseteq Ended(v)
    BY <1>2, <1>4
  <1> HIDE DEF At
  <1>12. Backtest(from, to) = {o \in {At(j) : j \in Ended(u)} : o.signal >= from}
    BY <1>1, <1>5, <1>7, <1>8
  <1>13. Backtest(Unset, Unset) = {At(j) : j \in Ended(v)}
    BY <1>5, <1>9, <1>11
  <1>14. {o \in {At(j) : j \in Ended(v)} : o.signal >= from /\ o.end[1] <= last}
             = {o \in {At(j) : j \in Ended(u)} : o.signal >= from}
    <2>1. ASSUME NEW o \in {At(j) : j \in Ended(v)}, o.end[1] <= last
          PROVE  o \in {At(j) : j \in Ended(u)}
      BY <1>10, <2>1
    <2>2. ASSUME NEW o \in {At(j) : j \in Ended(u)}
          PROVE  o \in {At(j) : j \in Ended(v)} /\ o.end[1] <= last
      BY <1>10, <1>11, <2>2
    <2> QED
      BY <2>1, <2>2
  <1> QED
    BY <1>12, <1>13, <1>14 DEF last

\* RangesAgree: the warm-up history is enough for every range, and nothing that
\* was not known at its last day is shown.
THEOREM Ranges == WalkForwardSpec => []RangesAgree
  <1>1. ResearchInv => RangesAgree
    BY OneRange DEF RangesAgree
  <1> QED
    BY <1>1, Researched, PTL

-------------------------------------------------------------------------------
(* The steps                                                               *)

\* No row is deleted.
LEMMA OnlyStored ==
    ASSUME ResearchInv, [WalkForwardNext]_walkForwardVars
    PROVE  ohlcv \subseteq ohlcv' /\ benchmark \subseteq benchmark'
  BY DEF WalkForwardNext, walkForwardVars, StoreCandle, Rebuild, StoreBenchmark,
         StoreForeign, StoreBroker, StoreDated, StoreNews

\* An outcome stays when the rows that come are dated after its end.
LEMMA OutcomeStays ==
    ASSUME ResearchInv, ResearchInv', [WalkForwardNext]_walkForwardVars,
           adjusted' = adjusted,
           NEW o \in Outcomes(Series(ohlcv)),
           \A d \in (ohlcv' \ ohlcv) \cup (benchmark' \ benchmark) : d > o.end[1]
    PROVE  o \in Outcomes(Series(ohlcv))'
  <1> DEFINE u == Series(ohlcv)
             v == Series(ohlcv')
             last == o.end[1]
             E == {d \in ohlcv : d <= last}
             w == Series(E)
  <1>1. /\ ohlcv \in SUBSET Int /\ IsFiniteSet(ohlcv) /\ benchmark \in SUBSET Int
        /\ ohlcv' \in SUBSET Int /\ IsFiniteSet(ohlcv') /\ benchmark' \in SUBSET Int
    <2>1. Days \in SUBSET Int /\ IsFiniteSet(Days)
      BY WalkForwardAssumption
    <2>2. /\ ohlcv \in SUBSET Days /\ ohlcv' \in SUBSET Days
          /\ benchmark \in SUBSET Days /\ benchmark' \in SUBSET Days
      BY DEF ResearchInv
    <2> QED
      BY <2>1, <2>2, FS_Subset
  <1>2. ohlcv \subseteq ohlcv' /\ benchmark \subseteq benchmark'
    BY OnlyStored
  <1>3. u \in Seq(Int \X BOOLEAN) /\ v \in Seq(Int \X BOOLEAN)
    BY <1>1, SeriesPlaces
  <1>4. PICK i \in Ended(u) : o = OutcomeAt(u, benchmark, i)
    BY DEF Outcomes, Ended, OutcomeAt
  <1>5. /\ i \in Nat \ {0} /\ i <= Len(u) /\ i + Horizon \in 1 .. Len(u)
        /\ Horizon \in Nat \ {0} /\ i \in 1 .. Len(u)
    <2> HIDE DEF u, v
    <2> QED
      BY <1>3, WalkForwardAssumption DEF Ended, EndOf
  <1>6. last = u[i + Horizon][1]
    BY <1>4 DEF OutcomeAt, EndOf
  <1>7. /\ \A k \in 1 .. Len(u) : u[k][1] \in ohlcv
        /\ \A j, k \in 1 .. Len(u) : j < k => u[j][1] < u[k][1]
    BY <1>1, SeriesDates
  <1> HIDE DEF u, v, last
  <1>8. last \in Int /\ u[i][1] \in Int /\ u[i][1] < last
    <2>1. i \in 1 .. Len(u) /\ i + Horizon \in 1 .. Len(u) /\ i < i + Horizon
      BY <1>5
    <2>2. /\ u[i][1] \in ohlcv /\ u[i + Horizon][1] \in ohlcv
          /\ u[i][1] < u[i + Horizon][1]
      BY <1>7, <2>1
    <2> QED
      BY <1>1, <1>6, <2>2
  <1>9. /\ E \in SUBSET ohlcv /\ E \in SUBSET ohlcv'
        /\ \A d \in E, e \in ohlcv \ E : d < e
        /\ \A d \in E, e \in ohlcv' \ E : d < e
    <2>1. \A e \in ohlcv' \ ohlcv : e > last
      BY DEF last
    <2>2. ASSUME NEW e \in ohlcv' \ E
          PROVE  e \in Int /\ e > last
      BY <1>1, <1>8, <2>1
    <2>3. ASSUME NEW d \in E, NEW e \in ohlcv' \ E
          PROVE  d < e
      <3>1. d \in Int /\ d <= last
        BY <1>1
      <3> QED
        BY <1>8, <2>2, <3>1
    <2> QED
      BY <1>2, <2>3
  <1>10. last \in E
    BY <1>5, <1>6, <1>7, <1>8
  <1> HIDE DEF E
  <1>11. /\ Len(w) \in Nat /\ Len(u) \in Nat /\ Len(w) <= Len(u)
         /\ \A k \in 1 .. Len(w) : w[k] = u[k]
         /\ \A k \in 1 .. Len(u) : u[k][1] \in E <=> k <= Len(w)
    BY <1>1, <1>9, SeriesPrefix DEF u
  <1>12. /\ Len(v) \in Nat /\ Len(w) <= Len(v)
         /\ \A k \in 1 .. Len(w) : w[k] = v[k]
    BY <1>1, <1>9, SeriesPrefix DEF v
  <1> HIDE DEF w
  <1>13. i + Horizon <= Len(w)
    BY <1>5, <1>6, <1>10, <1>11
  <1>14. i + Horizon <= Len(v) /\ \A k \in 1 .. i + Horizon : u[k] = v[k]
    BY <1>5, <1>11, <1>12, <1>13
  <1>15. \A d : d <= u[i][1] => (d \in benchmark <=> d \in benchmark')
    <2>1. ASSUME NEW d \in benchmark', d <= u[i][1]
          PROVE  d \in benchmark
      <3> SUFFICES ASSUME d \notin benchmark
                   PROVE  FALSE
        OBVIOUS
      <3>1. d > last /\ d \in Int
        BY <1>1 DEF last
      <3> QED
        BY <1>8, <2>1, <3>1
    <2> QED
      BY <1>2, <2>1
  <1>16. i \in Ended(v) /\ o = OutcomeAt(v, benchmark', i)
    <2>1. PICK c : c = benchmark'
      OBVIOUS
    <2>2. \A d : d <= u[i][1] => (d \in benchmark <=> d \in c)
      BY <1>15, <2>1
    <2>3. i \in Ended(v) /\ OutcomeAt(u, benchmark, i) = OutcomeAt(v, c, i)
      <3>1. /\ u \in Seq(Int \X BOOLEAN) /\ v \in Seq(Int \X BOOLEAN)
            /\ i + Horizon <= Len(v) /\ \A k \in 1 .. i + Horizon : u[k] = v[k]
        BY <1>3, <1>14
      <3> HIDE <1>3, <1>14
      <3>2. PICK s \in Seq(Int \X BOOLEAN) : s = v
        BY <3>1
      <3>3. i \in Ended(s) /\ OutcomeAt(u, benchmark, i) = OutcomeAt(s, c, i)
        BY <2>2, <3>1, <3>2, SameOutcome
      <3> QED
        BY <3>2, <3>3
    <2> QED
      BY <1>4, <2>1, <2>3
  <1>17. Series(ohlcv)' = v
    BY DEF Series, Sorted, v
  <1>18. Outcomes(Series(ohlcv))'
             = {OutcomeAt(Series(ohlcv)', benchmark', j) : j \in Ended(Series(ohlcv)')}
    BY DEF Outcomes, Ended, OutcomeAt
  <1> QED
    BY <1>16, <1>17, <1>18

\* OutcomesAreFinal: whatever is stored after the end of an outcome, and in
\* whatever order, the outcome stays.
THEOREM Final == WalkForwardSpec => OutcomesAreFinal
  <1>1. ResearchInv /\ ResearchInv' /\ [WalkForwardNext]_walkForwardVars =>
            [adjusted' = adjusted =>
                \A o \in Outcomes(Series(ohlcv)) :
                    (\A d \in (ohlcv' \ ohlcv) \cup (benchmark' \ benchmark) :
                        d > o.end[1])
                    => o \in Outcomes(Series(ohlcv))']_walkForwardVars
    BY OutcomeStays
  <1> QED
    BY <1>1, Researched, PTL DEF WalkForwardSpec, OutcomesAreFinal
===============================================================================
