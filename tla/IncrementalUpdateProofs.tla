------------------------ MODULE IncrementalUpdateProofs ------------------------
(***************************************************************************)
(* Theorems about IncrementalUpdate: for any symbols, listings, histories, *)
(* failures and kills, and either kind of provider.                        *)
(***************************************************************************)
EXTENDS IncrementalUpdate, FiniteSetTheorems, WellFoundedInduction, TLAPS

-------------------------------------------------------------------------------
(* Types                                                                   *)

\* The type invariant, but for the errors, with the state of IDX and the range of
\* a run that is under way; and no symbol that was synchronized is a placeholder.
TypeInv ==
    /\ registry \in [Symbols -> {"none", "placeholder", "active"}]
    /\ listing \in [Symbols -> Dates \cup {0}]
    /\ candles \in [Symbols -> SUBSET Dates]
    /\ stage \in {"rest", "between", "run"}
    /\ ranges \in [Dates -> SUBSET Symbols]
    /\ units \subseteq Units
    /\ failures \in Nat
    /\ bySymbol \in BOOLEAN
    /\ trades \in [Symbols -> SUBSET Dates]
    /\ synced \subseteq Symbols /\ \A s \in synced : registry[s] = "active"
    /\ asked \in [Symbols -> SUBSET Dates]
    /\ stage # "rest" => end \in Dates
    /\ stage = "run" => start \in Dates
    /\ stage = "rest" => ranges = [d \in Dates |-> {}]

\* Nothing is stored at first.
LEMMA InitType == Init => TypeInv
  <1> SUFFICES ASSUME Init
               PROVE  TypeInv
    OBVIOUS
  <1>1. trades \in [Symbols -> SUBSET Dates]
    BY ConstantsAssumption DEF Init
  <1> QED
    BY <1>1 DEF Init, TypeInv

\* The rows of a unit are dates on which the symbols trade.
LEMMA RowsType ==
    ASSUME TypeInv, NEW u
    PROVE  Rows(u) \in [Symbols -> SUBSET Dates]
  BY DEF Rows, TypeInv

\* Placeholders are rows of the registry, and change none that is there.
LEMMA PlaceholdersType ==
    ASSUME TypeInv, NEW symbols, registry' = Placeholders(symbols)
    PROVE  /\ registry' \in [Symbols -> {"none", "placeholder", "active"}]
           /\ \A s \in Symbols : registry[s] = "active" => registry'[s] = "active"
  BY DEF Placeholders, TypeInv

\* Every step keeps the types.
LEMMA StepType == TypeInv /\ [Next]_vars => TypeInv'
  <1> SUFFICES ASSUME TypeInv, [Next]_vars
               PROVE  TypeInv'
    OBVIOUS
  <1>0. bySymbol' = bySymbol => Units' = Units
    BY DEF Units
  <1>1. ASSUME NEW reported \in SUBSET Symbols, NEW profile \in Listings,
               SyncSymbols(reported, profile)
        PROVE  TypeInv'
    <2>1. profile \in [Symbols -> Dates \cup {0}]
      BY ConstantsAssumption
    <2>2. listing' \in [Symbols -> Dates \cup {0}]
      BY <1>1, <2>1 DEF SyncSymbols, TypeInv
    <2>3. /\ registry' \in [Symbols -> {"none", "placeholder", "active"}]
          /\ synced' \subseteq Symbols /\ \A s \in synced' : registry'[s] = "active"
      BY <1>1 DEF SyncSymbols, TypeInv
    <2> QED
      BY <1>0, <1>1, <2>2, <2>3 DEF SyncSymbols, TypeInv, command, idx
  <1>2. CASE Die
    BY <1>0, <1>2 DEF Die, TypeInv, tables, idx
  <1>3. ASSUME NEW d \in Dates, InitialLoad(d)
        PROVE  TypeInv'
    <2>1. /\ registry' \in [Symbols -> {"none", "placeholder", "active"}]
          /\ \A s \in Symbols : registry[s] = "active" => registry'[s] = "active"
      BY <1>3, PlaceholdersType DEF InitialLoad
    <2> QED
      BY <1>0, <1>3, <2>1 DEF InitialLoad, TypeInv, command, idx, history
  <1>4. ASSUME NEW d \in EndDates, StartIncremental(d)
        PROVE  TypeInv'
    <2>1. /\ stage' = "between" /\ end' = d /\ d \in Dates
          /\ ranges' \in [Dates -> SUBSET Symbols]
          /\ asked' \in [Symbols -> SUBSET Dates]
          /\ failures' \in Nat
      BY <1>4, ConstantsAssumption DEF StartIncremental, Grouped, TypeInv
    <2> QED
      BY <1>0, <1>4, <2>1 DEF StartIncremental, TypeInv, tables, idx
  <1>5. ASSUME NEW d \in Dates, StartRun(d)
        PROVE  TypeInv'
    <2>1. units' \subseteq Units
      BY <1>5, ConstantsAssumption DEF StartRun, TypeInv, Units
    <2> QED
      BY <1>0, <1>5, <2>1 DEF StartRun, TypeInv, tables, idx, history
  <1>6. ASSUME NEW u \in Units, Persist(u)
        PROVE  TypeInv'
    <2>1. /\ registry' \in [Symbols -> {"none", "placeholder", "active"}]
          /\ \A s \in Symbols : registry[s] = "active" => registry'[s] = "active"
      BY <1>6, PlaceholdersType DEF Persist
    <2>2. candles' \in [Symbols -> SUBSET Dates]
      BY <1>6, RowsType DEF Persist, TypeInv
    <2> QED
      BY <1>0, <1>6, <2>1, <2>2 DEF Persist, IsNext, TypeInv, idx, history
  <1>7. ASSUME NEW u \in Units, UnitFails(u)
        PROVE  TypeInv'
    BY <1>0, <1>7 DEF UnitFails, IsNext, TypeInv, idx
  <1>8. CASE FinishRun
    BY <1>0, <1>8 DEF FinishRun, TypeInv, tables, idx, history
  <1>9. CASE FinishIncremental
    BY <1>0, <1>9 DEF FinishIncremental, TypeInv, tables, idx, history
  <1>10. CASE UNCHANGED vars
    BY <1>0, <1>10 DEF vars, tables, command, idx, history, TypeInv
  <1> QED
    BY <1>1, <1>2, <1>3, <1>4, <1>5, <1>6, <1>7, <1>8, <1>9, <1>10
    DEF Next, CommandStep

\* The types hold for ever.
LEMMA TypesHold == Spec => []TypeInv
  BY InitType, StepType, PTL DEF Spec

-------------------------------------------------------------------------------
(* Where a command starts                                                  *)

\* Dates are numbers, finitely many.
LEMMA Calendar == Dates \in SUBSET Int /\ IsFiniteSet(Dates)
  BY ConstantsAssumption

\* A finite set of dates that is not empty has a last one, max(trade_date): the
\* one whose later dates are fewest.
LEMMA Latest ==
    ASSUME NEW S \in SUBSET Int, IsFiniteSet(S), S # {}
    PROVE  \E d \in S : \A e \in S : e <= d
  <1> DEFINE After(d) == {e \in S : d < e}
             T == {After(d) : d \in S}
  <1>1. T \subseteq FiniteSubsetsOf(S) /\ T # {}
    <2>1. \A d \in S : After(d) \subseteq S
      OBVIOUS
    <2> HIDE DEF After
    <2>2. \A d \in S : IsFiniteSet(After(d))
      BY <2>1, FS_Subset
    <2> QED
      BY <2>1, <2>2 DEF FiniteSubsetsOf
  <1>2. PICK d \in S :
            \A e \in S : <<After(e), After(d)>> \notin StrictSubsetOrdering(S)
    <2>1. PICK X \in T : \A Y \in T : <<Y, X>> \notin StrictSubsetOrdering(S)
      <3> HIDE DEF T
      <3> QED
        BY <1>1, FS_StrictSubsetOrderingWellFounded, WFMin
    <2> HIDE DEF After
    <2> QED
      BY <2>1
  <1>3. ASSUME NEW e \in S, ~(e <= d)
        PROVE  FALSE
    <2>1. d \in Int /\ e \in Int /\ d < e
      BY <1>3
    <2>2. \A x \in S : e < x => d < x
      BY <2>1
    <2>3. After(e) \subseteq After(d) /\ After(e) # After(d) /\ After(d) \subseteq S
      BY <2>1, <2>2, ~(e < e)
    <2> HIDE DEF After
    <2> QED
      BY <1>2, <2>3 DEF StrictSubsetOrdering
  <1> QED
    BY <1>3

\* A symbol with candles starts the day after its last one.
LEMMA StartsBehindCandles ==
    ASSUME TypeInv, NEW s \in Symbols, candles[s] # {}, NEW last
    PROVE  \E l \in candles[s] : /\ \A c \in candles[s] : c <= l
                                 /\ NextStartDate(s, last) = l + 1
  <1>1. candles[s] \in SUBSET Int /\ IsFiniteSet(candles[s])
    <2>1. candles[s] \subseteq Dates
      BY DEF TypeInv
    <2> QED
      BY <2>1, Calendar, FS_Subset
  <1>2. \E d \in candles[s] : \A e \in candles[s] : e <= d
    BY <1>1, Latest
  <1> DEFINE l == CHOOSE d \in candles[s] : \A e \in candles[s] : e <= d
  <1>3. l \in candles[s] /\ \A e \in candles[s] : e <= l
    BY <1>2
  <1>4. NextStartDate(s, last) = 1 + l
    BY DEF NextStartDate
  <1> HIDE DEF l
  <1>5. 1 + l = l + 1
    BY <1>1, <1>3
  <1> QED
    BY <1>3, <1>4, <1>5

\* The start of what is due lies among the dates.
LEMMA StartIsADate ==
    ASSUME TypeInv, NEW s \in Symbols, NEW last \in Dates, NEW d \in Dates,
           NextStartDate(s, last) <= d
    PROVE  NextStartDate(s, last) \in Dates
  <1>1. CASE candles[s] # {}
    <2>1. PICK l \in candles[s] : NextStartDate(s, last) = l + 1
      BY <1>1, StartsBehindCandles
    <2>2. l \in Dates /\ l \in Int /\ d \in Int /\ l + 1 <= d
      BY <2>1, ConstantsAssumption DEF TypeInv
    <2>3. l + 1 \in l .. d
      BY <2>2
    <2>4. l .. d \subseteq Dates
      BY <2>2, ConstantsAssumption
    <2> QED
      BY <2>1, <2>3, <2>4
  <1>2. CASE candles[s] = {}
    BY <1>2 DEF NextStartDate, TypeInv
  <1> QED
    BY <1>1, <1>2

-------------------------------------------------------------------------------
(* A command without failures                                              *)

\* The date of the symbol is still to come in the command.
Owed(s, d) ==
    /\ stage # "rest" /\ d <= end
    /\ \E e \in Dates : /\ s \in ranges[e] /\ e <= d
                        /\ stage = "run" /\ e = start =>
                              IF bySymbol THEN s \in units ELSE d \in units

\* CompletedIsCurrent while the command is under way.
CoverInv ==
    \A s \in Symbols : \A d \in asked[s] :
        d \in trades[s] /\ (d \in candles[s] \/ failures > 0 \/ Owed(s, d))

\* Dates of the symbols of the run, when one of its units is done with.
LEMMA UnitDone ==
    ASSUME TypeInv, NEW u \in Units, IsNext(u), units' = units \ {u},
           UNCHANGED <<stage, end, ranges, start, bySymbol>>,
           NEW s \in Symbols, NEW d \in trades[s], Owed(s, d)
    PROVE  Owed(s, d)' \/ d \in Rows(u)[s]
  <1>1. PICK e \in Dates : /\ s \in ranges[e] /\ e <= d /\ d <= end
                           /\ e = start =>
                                 IF bySymbol THEN s \in units ELSE d \in units
    BY DEF Owed, IsNext
  <1>2. stage = "run" /\ start \in Dates /\ end \in Dates /\ d \in Dates
    BY DEF IsNext, TypeInv
  <1>3. CASE e # start \/ (IF bySymbol THEN s # u ELSE d # u)
    BY <1>1, <1>2, <1>3 DEF Owed
  <1>4. CASE e = start /\ bySymbol /\ s = u
    <2>1. d \in start .. end
      BY <1>1, <1>2, <1>4, ConstantsAssumption
    <2> QED
      BY <1>4, <2>1 DEF Rows
  <1>5. CASE e = start /\ ~bySymbol /\ d = u
    BY <1>1, <1>5 DEF Rows
  <1> QED
    BY <1>3, <1>4, <1>5

\* All steps keep it.
LEMMA StepCover == TypeInv /\ CoverInv /\ [Next]_vars => CoverInv'
  <1> SUFFICES ASSUME TypeInv, CoverInv, [Next]_vars,
                      NEW s \in Symbols, NEW d \in asked'[s]
               PROVE  d \in trades'[s] /\ (d \in candles'[s] \/ failures' > 0 \/ Owed(s, d)')
    BY DEF CoverInv
  <1>1. CASE UNCHANGED <<candles, asked, failures, command, idx>>
    BY <1>1 DEF CoverInv, Owed, command, idx
  <1>2. CASE Die
    BY <1>2 DEF Die
  <1>3. ASSUME NEW x \in Dates, InitialLoad(x)
        PROVE  d \in trades'[s] /\ (d \in candles'[s] \/ failures' > 0 \/ Owed(s, d)')
    BY <1>3 DEF InitialLoad, CoverInv, Owed, command, idx, history
  <1>4. ASSUME NEW last \in EndDates, StartIncremental(last)
        PROVE  d \in trades'[s] /\ (d \in candles'[s] \/ failures' > 0 \/ Owed(s, d)')
    <2> DEFINE e == NextStartDate(s, last)
    <2>1. /\ s \in synced /\ d \in trades[s] /\ e <= d /\ d <= last
      BY <1>4 DEF StartIncremental
    <2>0. registry[s] = "active"
      BY <2>1 DEF TypeInv
    <2>2. last \in Dates /\ d \in Dates
      BY <2>1, ConstantsAssumption DEF TypeInv
    <2>3. e \in Dates
      BY <2>1, <2>2, StartIsADate
    <2>4. e <= last
      <3>1. e \in Int /\ d \in Int /\ last \in Int
        BY <2>2, <2>3, Calendar
      <3> HIDE DEF e
      <3> QED
        BY <2>1, <3>1
    <2>5. s \in ranges'[e]
      BY <1>4, <2>0, <2>1, <2>3, <2>4 DEF StartIncremental, Grouped, Due
    <2>6. stage' = "between" /\ end' = last /\ UNCHANGED trades
      BY <1>4 DEF StartIncremental, idx
    <2> HIDE DEF e
    <2> QED
      BY <2>1, <2>3, <2>5, <2>6 DEF Owed
  <1>5. ASSUME NEW x \in Dates, StartRun(x)
        PROVE  d \in trades'[s] /\ (d \in candles'[s] \/ failures' > 0 \/ Owed(s, d)')
    <2>1. /\ stage = "between" /\ stage' = "run" /\ start' = x
          /\ units' = IF bySymbol THEN ranges[x] ELSE x .. end
          /\ UNCHANGED <<candles, end, ranges, failures, bySymbol, trades, asked>>
      BY <1>5 DEF StartRun, tables, idx, history
    <2>2. d \in trades[s] /\ (d \in candles[s] \/ failures > 0 \/ Owed(s, d))
      BY <2>1 DEF CoverInv
    <2>3. ASSUME Owed(s, d)
          PROVE  Owed(s, d)'
      <3>1. PICK e \in Dates : s \in ranges[e] /\ e <= d /\ d <= end
        BY <2>3 DEF Owed
      <3>2. end \in Int /\ d \in Int /\ e \in Int
        BY <2>1, <2>2, Calendar DEF TypeInv
      <3>3. e = x => IF bySymbol THEN s \in units' ELSE d \in units'
        BY <2>1, <3>1, <3>2
      <3> QED
        BY <2>1, <3>1, <3>3 DEF Owed
    <2> QED
      BY <2>1, <2>2, <2>3
  <1>6. ASSUME NEW u \in Units, Persist(u)
        PROVE  d \in trades'[s] /\ (d \in candles'[s] \/ failures' > 0 \/ Owed(s, d)')
    <2>1. /\ IsNext(u) /\ units' = units \ {u}
          /\ candles'[s] = candles[s] \cup Rows(u)[s]
          /\ UNCHANGED <<stage, end, ranges, start, bySymbol, failures, trades, asked>>
      BY <1>6 DEF Persist, idx, history
    <2>2. d \in trades[s] /\ (d \in candles[s] \/ failures > 0 \/ Owed(s, d))
      BY <2>1 DEF CoverInv
    <2> QED
      BY <2>1, <2>2, UnitDone
  <1>7. ASSUME NEW u \in Units, UnitFails(u)
        PROVE  d \in trades'[s] /\ (d \in candles'[s] \/ failures' > 0 \/ Owed(s, d)')
    BY <1>7 DEF UnitFails, CoverInv, TypeInv, idx
  <1>8. CASE FinishRun
    <2>1. /\ stage = "run" /\ units = {} /\ stage' = "between" /\ start \in Dates
          /\ ranges' = [ranges EXCEPT ![start] = {}]
          /\ UNCHANGED <<candles, end, failures, trades, asked>>
      BY <1>8 DEF FinishRun, tables, idx, history, TypeInv
    <2>2. Owed(s, d) => Owed(s, d)'
      BY <2>1 DEF Owed, TypeInv
    <2> QED
      BY <2>1, <2>2 DEF CoverInv
  <1>9. CASE FinishIncremental
    BY <1>9 DEF FinishIncremental, CoverInv, Owed, tables, idx, history
  <1>10. CASE \/ UNCHANGED vars
              \/ \E reported \in SUBSET Symbols, profile \in Listings :
                     SyncSymbols(reported, profile)
    BY <1>1, <1>10 DEF SyncSymbols, vars, tables, history, command
  <1> QED
    BY <1>2, <1>3, <1>4, <1>5, <1>6, <1>7, <1>8, <1>9, <1>10 DEF Next, CommandStep

\* CompletedIsCurrent: for either kind of provider.
THEOREM Completed == Spec => []CompletedIsCurrent
  <1>1. Init => CoverInv
    BY DEF Init, CoverInv
  <1>2. TypeInv /\ CoverInv => CompletedIsCurrent
    BY DEF CoverInv, CompletedIsCurrent, Owed
  <1> QED
    BY <1>1, <1>2, StepCover, TypesHold, PTL DEF Spec

-------------------------------------------------------------------------------
(* Gaps and restarts                                                       *)

\* Symbols that are stored one by one have no gap.
Contiguous == bySymbol =>
    \A s \in Symbols : \A d \in trades[s] :
        (\E e, f \in candles[s] : e < d /\ d < f) => d \in candles[s]

\* A symbol is in one range, and until its unit is done with, the range begins
\* right behind its candles.
SymbolInv ==
    /\ \A s \in Symbols : \A e, f \in Dates : s \in ranges[e] \cap ranges[f] => e = f
    /\ stage = "run" /\ bySymbol => units \subseteq ranges[start]
    /\ bySymbol =>
          \A e \in Dates : \A s \in ranges[e] :
              (stage = "run" /\ e = start => s \in units) =>
                  \/ candles[s] = {}
                  \/ \E l \in candles[s] : e = l + 1 /\ \A c \in candles[s] : c <= l
    /\ Contiguous

\* A range that begins behind the candles leaves no gap.
LEMMA NoGap ==
    ASSUME NEW C \in SUBSET Int, NEW T \in SUBSET Int, NEW first \in Int, NEW last \in Int,
           \A d \in T : (\E e, f \in C : e < d /\ d < f) => d \in C,
           C = {} \/ \E l \in C : first = l + 1 /\ \A c \in C : c <= l,
           NEW d \in T, NEW e \in C \cup (T \cap (first .. last)),
           NEW f \in C \cup (T \cap (first .. last)), e < d, d < f
    PROVE  d \in C \cup (T \cap (first .. last))
  <1>0. d \in Int /\ e \in Int /\ f \in Int
    OBVIOUS
  <1>1. CASE C = {}
    <2>1. first <= e /\ f <= last
      BY <1>1
    <2>2. first <= d /\ d <= last
      BY <1>0, <2>1
    <2> QED
      BY <1>0, <2>2
  <1>2. ASSUME NEW l \in C, first = l + 1, \A c \in C : c <= l
        PROVE  d \in C \cup (T \cap (first .. last))
    <2>1. l \in Int
      OBVIOUS
    <2>2. CASE d <= l
      <3>1. e \in C
        <4>1. ~(first <= e)
          BY <1>0, <1>2, <2>1, <2>2
        <4> QED
          BY <4>1
      <3>2. CASE d = l
        BY <3>2
      <3>3. CASE d < l
        BY <3>1, <3>3
      <3> QED
        BY <1>0, <2>1, <2>2, <3>2, <3>3
    <2>3. CASE ~(d <= l)
      <3>1. f \notin C
        BY <1>0, <1>2, <2>1, <2>3
      <3>2. f <= last
        BY <3>1
      <3>3. first <= d /\ d <= last
        BY <1>0, <1>2, <2>1, <2>3, <3>2
      <3> QED
        BY <1>0, <3>3
    <2> QED
      BY <2>2, <2>3
  <1> QED
    BY <1>1, <1>2

\* A unit of one symbol at a time.
LEMMA PersistResumes ==
    ASSUME TypeInv, SymbolInv, NEW u \in Units, Persist(u)
    PROVE  SymbolInv'
  <1>1. /\ IsNext(u) /\ stage = "run" /\ u \in units /\ units' = units \ {u}
        /\ candles' = [s \in Symbols |-> candles[s] \cup Rows(u)[s]]
        /\ UNCHANGED <<stage, end, ranges, start, bySymbol, trades>>
    BY DEF Persist, IsNext, idx
  <1>2. ASSUME bySymbol
        PROVE  /\ u \in Symbols /\ u \in ranges[start] /\ start \in Dates /\ end \in Dates
               /\ Rows(u)[u] = trades[u] \cap (start .. end)
               /\ \A s \in Symbols \ {u} : candles'[s] = candles[s]
    BY <1>1, <1>2 DEF Units, Rows, SymbolInv, TypeInv
  <1>3. ASSUME bySymbol, NEW e \in Dates, NEW s \in ranges[e], e = start => s \in units'
        PROVE  \/ candles'[s] = {}
               \/ \E l \in candles'[s] : e = l + 1 /\ \A c \in candles'[s] : c <= l
    <2>1. s \in Symbols /\ s # u
      BY <1>1, <1>2, <1>3 DEF SymbolInv, TypeInv
    <2>2. candles'[s] = candles[s]
      BY <1>2, <1>3, <2>1
    <2> QED
      BY <1>1, <1>3, <2>2 DEF SymbolInv
  <1>4. ASSUME bySymbol, NEW s \in Symbols, NEW d \in trades[s],
               NEW e \in candles'[s], NEW f \in candles'[s], e < d, d < f
        PROVE  d \in candles'[s]
    <2>1. CASE s # u
      BY <1>2, <1>4, <2>1 DEF SymbolInv, Contiguous
    <2>2. CASE s = u
      <3>1. /\ candles'[u] = candles[u] \cup (trades[u] \cap (start .. end))
            /\ candles[u] \in SUBSET Int /\ trades[u] \in SUBSET Int
            /\ start \in Int /\ end \in Int
        <4>1. candles[u] \subseteq Dates /\ trades[u] \subseteq Dates
          BY <1>2, <1>4 DEF TypeInv
        <4>2. candles'[u] = candles[u] \cup (trades[u] \cap (start .. end))
          BY <1>1, <1>2, <1>4
        <4> QED
          BY <1>2, <1>4, <4>1, <4>2, Calendar
      <3>2. \/ candles[u] = {}
            \/ \E l \in candles[u] : start = l + 1 /\ \A c \in candles[u] : c <= l
        BY <1>1, <1>2, <1>4 DEF SymbolInv
      <3>3. \A x \in trades[u] : (\E y, z \in candles[u] : y < x /\ x < z) => x \in candles[u]
        BY <1>2, <1>4 DEF SymbolInv, Contiguous
      <3> QED
        BY <1>4, <2>2, <3>1, <3>2, <3>3, NoGap
    <2> QED
      BY <2>1, <2>2
  <1>5. Contiguous'
    BY <1>1, <1>4 DEF Contiguous
  <1>6. stage' = "run" /\ bySymbol' => units' \subseteq ranges'[start']
    BY <1>1 DEF SymbolInv
  <1> QED
    BY <1>1, <1>3, <1>5, <1>6 DEF SymbolInv

\* All steps keep it.
LEMMA StepBySymbol == TypeInv /\ SymbolInv /\ [Next]_vars => SymbolInv'
  <1> SUFFICES ASSUME TypeInv, SymbolInv, [Next]_vars
               PROVE  SymbolInv'
    OBVIOUS
  <1>1. CASE UNCHANGED <<candles, command, idx>>
    BY <1>1 DEF SymbolInv, Contiguous, command, idx
  <1>2. CASE Die
    BY <1>2 DEF Die, SymbolInv, Contiguous, tables, idx
  <1>3. ASSUME NEW x \in Dates, InitialLoad(x)
        PROVE  SymbolInv'
    <2>1. /\ stage = "rest" /\ candles' = [s \in Symbols |-> trades[s] \cap {x}]
          /\ ranges = [d \in Dates |-> {}]
          /\ UNCHANGED <<command, idx>>
      BY <1>3 DEF InitialLoad, TypeInv
    <2>2. \A s \in Symbols : \A e, f \in candles'[s] : e = f
      BY <2>1
    <2>3. \A d, e \in Dates : ~(e < d /\ d < e)
      BY ConstantsAssumption
    <2>4. candles' \in [Symbols -> SUBSET Dates]
      BY <2>1 DEF TypeInv
    <2>5. \A s \in Symbols : \A d \in trades[s] : \A e, f \in candles'[s] : ~(e < d /\ d < f)
      BY <2>2, <2>3, <2>4 DEF TypeInv
    <2> QED
      BY <2>1, <2>5 DEF SymbolInv, Contiguous, command, idx
  <1>4. ASSUME NEW last \in EndDates, StartIncremental(last)
        PROVE  SymbolInv'
    <2>1. /\ stage' = "between" /\ UNCHANGED <<candles, bySymbol, trades>>
          /\ ranges' = Grouped(last)
      BY <1>4 DEF StartIncremental, tables, idx
    <2>2. \A e \in Dates : \A s \in ranges'[e] :
              s \in Symbols /\ NextStartDate(s, last) = e
      BY <2>1 DEF Grouped, Due
    <2>3. ASSUME NEW e \in Dates, NEW s \in ranges'[e]
          PROVE  \/ candles[s] = {}
                 \/ \E l \in candles[s] : e = l + 1 /\ \A c \in candles[s] : c <= l
      BY <2>2, StartsBehindCandles
    <2>4. Contiguous'
      BY <2>1 DEF SymbolInv, Contiguous
    <2> QED
      BY <2>1, <2>2, <2>3, <2>4 DEF SymbolInv
  <1>5. ASSUME NEW x \in Dates, StartRun(x)
        PROVE  SymbolInv'
    <2>1. /\ stage = "between" /\ stage' = "run" /\ start' = x
          /\ units' = IF bySymbol THEN ranges[x] ELSE x .. end
          /\ UNCHANGED <<candles, ranges, bySymbol, trades>>
      BY <1>5 DEF StartRun, tables, idx
    <2> QED
      BY <2>1 DEF SymbolInv, Contiguous
  <1>6. ASSUME NEW u \in Units, UnitFails(u)
        PROVE  SymbolInv'
    BY <1>6 DEF UnitFails, IsNext, SymbolInv, Contiguous, idx
  <1>7. CASE FinishRun
    <2>1. /\ stage = "run" /\ units = {} /\ stage' = "between" /\ start \in Dates
          /\ ranges' = [ranges EXCEPT ![start] = {}]
          /\ UNCHANGED <<candles, bySymbol, trades>>
      BY <1>7 DEF FinishRun, tables, idx, TypeInv
    <2>2. ranges'[start] = {} /\ \A e \in Dates \ {start} : ranges'[e] = ranges[e]
      BY <2>1 DEF TypeInv
    <2> QED
      BY <2>1, <2>2 DEF SymbolInv, Contiguous
  <1>8. CASE FinishIncremental
    BY <1>8 DEF FinishIncremental, SymbolInv, Contiguous, tables, idx
  <1> QED
    BY <1>1, <1>2, <1>3, <1>4, <1>5, <1>6, <1>7, <1>8, PersistResumes
    DEF Next, CommandStep, SyncSymbols, vars, tables

-------------------------------------------------------------------------------
(* Dates that fail                                                         *)

\* A failure of the date that names the symbol is in data_errors.
Recorded(s, d) == \E r \in unitErrors : r.unit = d /\ s \in r.symbols

\* The range begins right behind the candles of the symbol.
BeginsBehind(s, e) == \/ candles[s] = {}
                      \/ \E l \in candles[s] : e = l + 1 /\ \A c \in candles[s] : c <= l

\* What a run by dates has reached for a symbol: its candles lie before the dates
\* left, adjoin the start, and every date done with is stored or recorded.
Reached(s) ==
    /\ (\A c \in candles[s] : start <= c) \/ start - 1 \in candles[s]
    /\ \A c \in candles[s] : \A x \in units : c < x
    /\ \A d \in trades[s] : start <= d /\ d <= end /\ d \notin units =>
                               d \in candles[s] \/ Recorded(s, d)

\* GapsAreRecorded with a provider of whole dates, which are done with in order.
DateInv == ~bySymbol =>
    /\ \A s \in Symbols : \A d \in trades[s] : Gap(s, d) => Recorded(s, d)
    /\ \A e \in Dates : \A s \in ranges[e] :
           (stage = "run" => e # start) => BeginsBehind(s, e)
    /\ stage = "run" =>
           /\ \A x \in units : start <= x /\ x <= end
           /\ \A x \in units : \A y \in Dates : x <= y /\ y <= end => y \in units
           /\ \A s \in ranges[start] : Reached(s)

\* One more date behind the candles leaves no gap but what is recorded.
LEMMA DateAdded ==
    ASSUME NEW C \in SUBSET Int, NEW T \in SUBSET Int, NEW rec, NEW u \in Int,
           NEW first \in Int,
           \A d \in T \ C : (\E e, f \in C : e < d /\ d < f) => d \in rec,
           (\A c \in C : first <= c) \/ first - 1 \in C,
           \A c \in C : c < u,
           \A d \in T : first <= d /\ d < u => d \in C \/ d \in rec,
           NEW d \in T, d \notin C, d # u,
           NEW e \in C \cup {u}, NEW f \in C \cup {u}, e < d, d < f
    PROVE  d \in rec
  <1>1. d \in Int /\ e \in Int /\ f \in Int
    OBVIOUS
  <1>2. e \in C
    <2>1. CASE e = u
      <3>1. f \in C
        BY <1>1, <2>1
      <3>2. f < u
        BY <3>1
      <3> QED
        BY <1>1, <2>1, <3>2
    <2> QED
      BY <2>1
  <1>3. CASE f \in C
    BY <1>2, <1>3
  <1>4. CASE f = u
    <2>1. CASE first <= d
      BY <1>4, <2>1
    <2>2. CASE ~(first <= d)
      <3>1. ~(first <= e)
        BY <1>1, <2>2
      <3>2. first - 1 \in C
        BY <1>2, <3>1
      <3>3. d # first - 1
        BY <3>2
      <3>4. d < first - 1
        BY <1>1, <2>2, <3>3
      <3> QED
        BY <1>2, <3>2, <3>4
    <2> QED
      BY <2>1, <2>2
  <1> QED
    BY <1>3, <1>4

\* A date that is stored.
LEMMA PersistDate ==
    ASSUME TypeInv, SymbolInv, DateInv, ~bySymbol, NEW u \in Units, Persist(u)
    PROVE  DateInv'
  <1>1. /\ stage = "run" /\ u \in units /\ \A x \in units : u <= x
        /\ units' = units \ {u}
        /\ candles' = [s \in Symbols |-> candles[s] \cup Rows(u)[s]]
        /\ UNCHANGED <<stage, end, ranges, start, bySymbol, trades, unitErrors>>
    BY DEF Persist, IsNext, idx
  <1>2. /\ u \in Dates /\ start \in Dates /\ end \in Dates /\ u \in Int
        /\ start \in Int /\ end \in Int /\ units \subseteq Dates
    BY <1>1, Calendar DEF TypeInv, Units
  <1>3. \A s \in Symbols : candles'[s] = IF s \in ranges[start]
                                         THEN candles[s] \cup (trades[s] \cap {u})
                                         ELSE candles[s]
    BY <1>1 DEF Rows
  <1>4. \A x \in Dates : x \in Int
    BY Calendar
  <1>5. ASSUME NEW s \in Symbols
        PROVE  candles[s] \subseteq Dates /\ trades[s] \subseteq Dates
    BY DEF TypeInv
  <1>6. start <= u /\ u <= end
    BY <1>1 DEF DateInv
  <1>7. ASSUME NEW s \in Symbols, NEW d \in trades[s], Gap(s, d)'
        PROVE  Recorded(s, d)'
    <2>1. d \in trades[s] /\ d \notin candles'[s]
      BY <1>1, <1>7 DEF Gap
    <2>2. PICK e \in candles'[s], f \in candles'[s] : e < d /\ d < f
      BY <1>7 DEF Gap
    <2>3. CASE s \notin ranges[start]
      BY <1>1, <1>3, <2>1, <2>2, <2>3 DEF DateInv, Gap, Recorded
    <2>4. CASE s \in ranges[start]
      <3> DEFINE rec == {x \in trades[s] : Recorded(s, x)}
      <3>1. Reached(s)
        BY <1>1, <2>4 DEF DateInv
      <3>2. \A x \in trades[s] \ candles[s] :
                (\E y, z \in candles[s] : y < x /\ x < z) => x \in rec
        BY DEF DateInv, Gap
      <3>3. \A c \in candles[s] : c < u
        BY <1>1, <3>1 DEF Reached
      <3>4. \A x \in trades[s] : start <= x /\ x < u => x \in candles[s] \/ x \in rec
        <4>1. ASSUME NEW x \in trades[s], start <= x, x < u
              PROVE  x \in candles[s] \/ x \in rec
          <5>1. x \in Int
            BY <1>4, <1>5
          <5>2. x <= end /\ x \notin units
            BY <1>1, <1>2, <1>6, <4>1, <5>1
          <5> QED
            BY <3>1, <4>1, <5>2 DEF Reached
        <4> QED
          BY <4>1
      <3>5. candles'[s] \subseteq candles[s] \cup {u} /\ d \notin candles[s] /\ d # u
        BY <1>3, <2>1, <2>4
      <3>6. candles[s] \in SUBSET Int /\ trades[s] \in SUBSET Int
        BY <1>4, <1>5
      <3>7. (\A c \in candles[s] : start <= c) \/ start - 1 \in candles[s]
        BY <3>1 DEF Reached
      <3>8. e \in candles[s] \cup {u} /\ f \in candles[s] \cup {u}
        BY <3>5
      <3> HIDE DEF rec
      <3>9. d \in rec
        BY <1>2, <2>1, <2>2, <3>2, <3>3, <3>4, <3>5, <3>6, <3>7, <3>8, DateAdded
      <3> QED
        BY <1>1, <3>9 DEF rec, Recorded
    <2> QED
      BY <2>3, <2>4
  <1>8. ASSUME NEW e \in Dates, NEW s \in ranges[e], e # start
        PROVE  BeginsBehind(s, e)'
    <2>1. s \in Symbols /\ s \notin ranges[start]
      BY <1>2, <1>8 DEF SymbolInv, TypeInv
    <2>2. candles'[s] = candles[s]
      BY <1>3, <2>1
    <2>3. BeginsBehind(s, e)
      BY <1>1, <1>8 DEF DateInv
    <2> QED
      BY <2>2, <2>3 DEF BeginsBehind
  <1>9. ASSUME NEW s \in ranges[start]
        PROVE  Reached(s)'
    <2>1. s \in Symbols /\ Reached(s)
      BY <1>1, <1>2, <1>9 DEF DateInv, TypeInv
    <2>2. candles'[s] = candles[s] \cup (trades[s] \cap {u})
      BY <1>3, <1>9, <2>1
    <2>3. (\A c \in candles'[s] : start <= c) \/ start - 1 \in candles'[s]
      BY <1>6, <2>1, <2>2 DEF Reached
    <2>4. ASSUME NEW c \in candles'[s], NEW x \in units'
          PROVE  c < x
      <3>1. CASE c \in candles[s]
        BY <1>1, <2>1, <3>1 DEF Reached
      <3>2. CASE c = u
        BY <1>1, <1>2, <1>4, <2>4, <3>2
      <3> QED
        BY <2>2, <3>1, <3>2
    <2>5. ASSUME NEW d \in trades[s], start <= d, d <= end, d \notin units'
          PROVE  d \in candles'[s] \/ Recorded(s, d)'
      <3>1. CASE d = u
        BY <2>2, <3>1
      <3>2. CASE d # u
        BY <1>1, <2>1, <2>2, <2>5, <3>2 DEF Reached, Recorded
      <3> QED
        BY <3>1, <3>2
    <2> QED
      BY <1>1, <2>3, <2>4, <2>5 DEF Reached
  <1>10. ASSUME NEW x \in units', NEW y \in Dates, x <= y, y <= end
         PROVE  y \in units'
    <2>1. y \in units
      BY <1>1, <1>10 DEF DateInv
    <2>2. x # u /\ u <= x /\ x \in Int /\ y \in Int
      BY <1>1, <1>2, <1>4, <1>10
    <2> QED
      BY <1>1, <1>2, <1>10, <2>1, <2>2
  <1>11. \A x \in units' : start <= x /\ x <= end
    BY <1>1 DEF DateInv
  <1> QED
    BY <1>1, <1>7, <1>8, <1>9, <1>10, <1>11 DEF DateInv

\* A date that fails is on record.
LEMMA FailDate ==
    ASSUME TypeInv, DateInv, ~bySymbol, NEW u \in Units, UnitFails(u)
    PROVE  DateInv'
  <1>1. /\ stage = "run" /\ u \in units /\ \A x \in units : u <= x
        /\ units' = units \ {u}
        /\ unitErrors' = unitErrors \cup {[unit |-> u, symbols |-> ranges[start]]}
        /\ UNCHANGED <<stage, end, ranges, start, bySymbol, trades, candles>>
    BY DEF UnitFails, IsNext, idx
  <1>2. /\ u \in Dates /\ start \in Dates /\ units \subseteq Dates
        /\ \A x \in Dates : x \in Int
    BY <1>1, Calendar DEF TypeInv, Units
  <1>3. \A s, d : Recorded(s, d) => Recorded(s, d)'
    BY <1>1 DEF Recorded
  <1>4. \A s \in ranges[start] : Recorded(s, u)'
    <2> DEFINE r == [unit |-> u, symbols |-> ranges[start]]
    <2>1. r \in unitErrors' /\ r.unit = u /\ r.symbols = ranges[start]
      BY <1>1
    <2> HIDE DEF r
    <2> QED
      BY <2>1 DEF Recorded
  <1>5. ASSUME NEW s \in ranges[start]
        PROVE  Reached(s)'
    <2>1. Reached(s)
      BY <1>1, <1>5 DEF DateInv
    <2>2. ASSUME NEW d \in trades[s], start <= d, d <= end, d \notin units'
          PROVE  d \in candles[s] \/ Recorded(s, d)'
      BY <1>1, <1>3, <1>4, <1>5, <2>1, <2>2 DEF Reached
    <2> QED
      BY <1>1, <2>1, <2>2 DEF Reached
  <1>6. ASSUME NEW x \in units', NEW y \in Dates, x <= y, y <= end
        PROVE  y \in units'
    <2>1. y \in units
      BY <1>1, <1>6 DEF DateInv
    <2>2. x # u /\ u <= x /\ x \in Int /\ y \in Int /\ u \in Int
      BY <1>1, <1>2, <1>6
    <2> QED
      BY <1>1, <1>6, <2>1, <2>2
  <1>7. \A x \in units' : start <= x /\ x <= end
    BY <1>1 DEF DateInv
  <1>8. \A s \in Symbols : \A d \in trades[s] : Gap(s, d)' => Recorded(s, d)'
    BY <1>1, <1>3 DEF DateInv, Gap
  <1>9. \A e \in Dates : \A s \in ranges[e] : e # start => BeginsBehind(s, e)'
    BY <1>1 DEF DateInv, BeginsBehind
  <1> QED
    BY <1>1, <1>5, <1>6, <1>7, <1>8, <1>9 DEF DateInv

\* All steps keep it.
LEMMA StepByDate == TypeInv /\ SymbolInv /\ DateInv /\ [Next]_vars => DateInv'
  <1> SUFFICES ASSUME TypeInv, SymbolInv, DateInv, [Next]_vars, ~bySymbol
               PROVE  DateInv'
    <2>1. [Next]_vars => bySymbol' = bySymbol
      <3>1. ASSUME NEW reported, NEW profile, SyncSymbols(reported, profile)
            PROVE  bySymbol' = bySymbol
        BY <3>1 DEF SyncSymbols, idx
      <3>2. ASSUME NEW d, InitialLoad(d) \/ StartIncremental(d) \/ StartRun(d)
            PROVE  bySymbol' = bySymbol
        BY <3>2 DEF InitialLoad, StartIncremental, StartRun, idx
      <3>3. ASSUME NEW u, Persist(u) \/ UnitFails(u)
            PROVE  bySymbol' = bySymbol
        BY <3>3 DEF Persist, UnitFails, idx
      <3>4. Die \/ FinishRun \/ FinishIncremental => bySymbol' = bySymbol
        BY DEF Die, FinishRun, FinishIncremental, idx
      <3>5. UNCHANGED vars => bySymbol' = bySymbol
        BY DEF vars, idx
      <3> QED
        BY <3>1, <3>2, <3>3, <3>4, <3>5 DEF Next, CommandStep
    <2> QED
      BY <2>1 DEF DateInv
  <1>1. CASE UNCHANGED <<candles, unitErrors, command, idx>>
    BY <1>1 DEF DateInv, Gap, Recorded, Reached, BeginsBehind, command, idx
  <1>2. CASE Die
    <2>1. /\ stage' = "rest" /\ ranges' = [d \in Dates |-> {}]
          /\ UNCHANGED <<candles, unitErrors, bySymbol, trades>>
      BY <1>2 DEF Die, tables, idx
    <2> QED
      BY <2>1 DEF DateInv, Gap, Recorded
  <1>3. ASSUME NEW x \in Dates, InitialLoad(x)
        PROVE  DateInv'
    <2>1. /\ stage' = "rest" /\ candles' = [s \in Symbols |-> trades[s] \cap {x}]
          /\ ranges' = [d \in Dates |-> {}]
          /\ UNCHANGED <<bySymbol, trades>>
      BY <1>3 DEF InitialLoad, TypeInv, command, idx
    <2>2. ASSUME NEW s \in Symbols, NEW d \in trades[s], Gap(s, d)'
          PROVE  FALSE
      <3>1. x < d /\ d < x
        BY <2>1, <2>2 DEF Gap
      <3>2. x \in Int /\ d \in Int
        BY <2>1, <2>2, Calendar DEF TypeInv
      <3> QED
        BY <3>1, <3>2
    <2> QED
      BY <2>1, <2>2 DEF DateInv
  <1>4. ASSUME NEW last \in EndDates, StartIncremental(last)
        PROVE  DateInv'
    <2>1. /\ stage' = "between" /\ UNCHANGED <<candles, unitErrors, bySymbol, trades>>
          /\ ranges' = Grouped(last)
      BY <1>4 DEF StartIncremental, tables, idx
    <2>2. \A e \in Dates : \A s \in ranges'[e] :
              s \in Symbols /\ NextStartDate(s, last) = e
      BY <2>1 DEF Grouped, Due
    <2>3. ASSUME NEW e \in Dates, NEW s \in ranges'[e]
          PROVE  BeginsBehind(s, e)
      BY <2>2, StartsBehindCandles DEF BeginsBehind
    <2>4. \A e \in Dates : \A s \in ranges'[e] : BeginsBehind(s, e)'
      BY <2>1, <2>3 DEF BeginsBehind
    <2>5. \A s \in Symbols : \A d \in trades'[s] : Gap(s, d)' => Recorded(s, d)'
      BY <2>1 DEF DateInv, Gap, Recorded
    <2> QED
      BY <2>1, <2>4, <2>5 DEF DateInv
  <1>5. ASSUME NEW x \in Dates, StartRun(x)
        PROVE  DateInv'
    <2>1. /\ stage = "between" /\ stage' = "run" /\ start' = x /\ units' = x .. end
          /\ end \in Dates
          /\ UNCHANGED <<candles, unitErrors, end, ranges, bySymbol, trades>>
      BY <1>5 DEF StartRun, tables, idx, TypeInv
    <2>2. /\ x \in Int /\ end \in Int /\ \A d \in Dates : d \in Int
      BY <2>1, Calendar
    <2>3. ASSUME NEW s \in ranges[x]
          PROVE  Reached(s)'
      <3>1. s \in Symbols /\ BeginsBehind(s, x)
        BY <2>1, <2>3 DEF DateInv, TypeInv
      <3>2. candles[s] \subseteq Int /\ trades[s] \subseteq Int
        BY <2>2, <3>1 DEF TypeInv
      <3>3. \A c \in candles[s] : c < x
        BY <2>2, <3>1, <3>2 DEF BeginsBehind
      <3>4. candles[s] = {} \/ x - 1 \in candles[s]
        BY <2>2, <3>1, <3>2 DEF BeginsBehind
      <3>5. \A c \in candles[s] : \A y \in units' : c < y
        BY <2>1, <2>2, <3>2, <3>3
      <3>6. \A d \in trades[s] : x <= d /\ d <= end => d \in units'
        BY <2>1, <2>2, <3>2
      <3> QED
        BY <2>1, <3>4, <3>5, <3>6 DEF Reached
    <2>4. \A y \in units' : x <= y /\ y <= end
      BY <2>1, <2>2
    <2>5. \A y \in units' : \A z \in Dates : y <= z /\ z <= end => z \in units'
      BY <2>1, <2>2
    <2>6. \A s \in Symbols : \A d \in trades'[s] : Gap(s, d)' => Recorded(s, d)'
      BY <2>1 DEF DateInv, Gap, Recorded
    <2>7. \A e \in Dates : \A s \in ranges'[e] : e # x => BeginsBehind(s, e)'
      BY <2>1 DEF DateInv, BeginsBehind
    <2> QED
      BY <2>1, <2>3, <2>4, <2>5, <2>6, <2>7 DEF DateInv
  <1>6. CASE FinishRun
    <2>1. /\ stage = "run" /\ units = {} /\ stage' = "between" /\ start \in Dates
          /\ ranges' = [ranges EXCEPT ![start] = {}]
          /\ UNCHANGED <<candles, unitErrors, bySymbol, trades>>
      BY <1>6 DEF FinishRun, tables, idx, TypeInv
    <2>2. ranges'[start] = {} /\ \A e \in Dates \ {start} : ranges'[e] = ranges[e]
      BY <2>1 DEF TypeInv
    <2>3. \A e \in Dates : \A s \in ranges'[e] : BeginsBehind(s, e)'
      BY <2>1, <2>2 DEF DateInv, BeginsBehind
    <2>4. \A s \in Symbols : \A d \in trades'[s] : Gap(s, d)' => Recorded(s, d)'
      BY <2>1 DEF DateInv, Gap, Recorded
    <2> QED
      BY <2>1, <2>3, <2>4 DEF DateInv
  <1>7. CASE FinishIncremental
    <2>1. /\ stage = "between" /\ stage' = "rest"
          /\ UNCHANGED <<candles, unitErrors, ranges, bySymbol, trades>>
      BY <1>7 DEF FinishIncremental, tables, idx
    <2> QED
      BY <2>1 DEF DateInv, Gap, Recorded, BeginsBehind
  <1> QED
    BY <1>1, <1>2, <1>3, <1>4, <1>5, <1>6, <1>7, PersistDate, FailDate
    DEF Next, CommandStep, SyncSymbols, vars, tables

\* GapsAreRecorded: whatever fails, whenever the command is killed, whatever the
\* lists of companies report and with either kind of provider.
THEOREM NoSilentGap == Spec => []GapsAreRecorded
  <1>1. Init => SymbolInv /\ DateInv
    BY DEF Init, SymbolInv, Contiguous, DateInv, Gap
  <1>2. TypeInv /\ SymbolInv /\ DateInv => GapsAreRecorded
    BY DEF SymbolInv, Contiguous, DateInv, Gap, GapsAreRecorded, Recorded
  <1> QED
    BY <1>1, <1>2, StepBySymbol, StepByDate, TypesHold, PTL DEF Spec
===============================================================================
