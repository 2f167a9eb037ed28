--------------------------- MODULE IncrementalUpdate ---------------------------
(***************************************************************************)
(* The `incremental` command (app/pipeline/incremental.py): every active   *)
(* symbol is brought up to date from its own last candle, symbols with the *)
(* same start date in one run of backfill_ohlcv.  Besides, the registry it *)
(* reads (app/pipeline/symbols.py).                                        *)
(*                                                                         *)
(* A run proceeds by units that commit or fail one by one.  With a daily   *)
(* bulk provider, the one of this repository, a unit is a date of all      *)
(* symbols of the run (BulkBackfill); with any other it is a symbol with   *)
(* all its dates (_backfill_by_symbol).                                    *)
(***************************************************************************)
EXTENDS Integers, FiniteSets

CONSTANTS Symbols, Dates,
          Listings,   \* the listing dates a list of companies may give, or 0
          Histories,  \* the dates on which each symbol trades, per scenario
          EndDates,   \* the --end of a command, or the day it runs
          MaxCommands, MaxFaults  \* bounds

ASSUME ConstantsAssumption ==
    /\ Dates \subseteq Nat \ {0} /\ IsFiniteSet(Dates)
    /\ \A d, e \in Dates : d .. e \subseteq Dates  \* days, with or without trade
    /\ Listings \subseteq [Symbols -> Dates \cup {0}]
    /\ Histories \subseteq [Symbols -> SUBSET Dates]
    /\ EndDates \subseteq Dates
    /\ MaxCommands \in Nat /\ MaxFaults \in Nat

VARIABLES
    (* the database *)
    registry,   \* stocks: none, an inactive placeholder, or active
    listing,    \* listing_date, 0 for NULL
    candles,    \* the dates of each symbol in ohlcv_daily
    unitErrors, \* data_errors of whole dates or symbols, with the symbols they name
    (* the command *)
    stage,      \* rest, between runs, or within a run
    end, ranges, start, units, failures,
    (* IDX and its provider *)
    bySymbol,   \* it has no daily bulk endpoint
    trades,
    (* history *)
    synced,     \* symbols that a synchronization has reported
    asked,      \* the dates the command owes each symbol
    commands, faults

tables == <<registry, listing, candles, unitErrors>>
command == <<stage, end, ranges, start, units, failures>>
idx == <<bySymbol, trades>>
history == <<synced, asked, commands, faults>>
vars == <<tables, command, idx, history>>

Init == /\ registry = [s \in Symbols |-> "none"]
        /\ listing = [s \in Symbols |-> 0]
        /\ candles = [s \in Symbols |-> {}]
        /\ unitErrors = {}
        /\ stage = "rest" /\ end = 0 /\ start = 0
        /\ ranges = [d \in Dates |-> {}]
        /\ units = {} /\ failures = 0
        /\ bySymbol \in BOOLEAN /\ trades \in Histories
        /\ synced = {} /\ asked = [s \in Symbols |-> {}]
        /\ commands = 0 /\ faults = 0

-------------------------------------------------------------------------------
(* The registry                                                            *)

\* sync_symbols: one upsert of the companies IDX reports this time, or of none of
\* them.  It overwrites the row of each, its listing date by NULL when the list has
\* none; a company that is not in the list keeps its row as it is.
SyncSymbols(reported, profile) ==
    /\ registry' = [s \in Symbols |-> IF s \in reported THEN "active" ELSE registry[s]]
    /\ listing' = [s \in Symbols |-> IF s \in reported THEN profile[s] ELSE listing[s]]
    /\ synced' = synced \cup reported
    /\ UNCHANGED <<candles, unitErrors, command, idx, asked, commands, faults>>

\* Mutant: placeholders overwrite the rows that exist.
PlaceholdersForAll(symbols) ==
    [s \in Symbols |-> IF s \in symbols THEN "placeholder" ELSE registry[s]]

\* ensure_stock_symbols does nothing for a symbol that has a row.
Placeholders(symbols) ==
    [s \in Symbols |-> IF s \in symbols /\ registry[s] = "none"
                       THEN "placeholder" ELSE registry[s]]

\* A first `backfill` of one day, which creates its symbols as placeholders.
InitialLoad(d) ==
    /\ stage = "rest" /\ \A s \in Symbols : candles[s] = {}
    /\ candles' = [s \in Symbols |-> trades[s] \cap {d}]
    /\ registry' = Placeholders({s \in Symbols : d \in trades[s]})
    /\ UNCHANGED <<listing, unitErrors, command, idx, history>>

-------------------------------------------------------------------------------
(* incremental_update                                                      *)

\* Mutant: the last candle of any symbol counts, as in the daily update.
NextStartDateGlobal(s, requestedEnd) ==
    LET all == UNION {candles[t] : t \in Symbols}
    IN IF all = {} THEN requestedEnd
                   ELSE 1 + CHOOSE d \in all : \A e \in all : e <= d

\* next_start_date: after the last candle, or at the listing, or at the end.
NextStartDate(s, requestedEnd) ==
    IF candles[s] # {} THEN 1 + CHOOSE d \in candles[s] : \A e \in candles[s] : e <= d
    ELSE IF listing[s] # 0 THEN listing[s]
    ELSE requestedEnd

Due(s, d, requestedEnd) == /\ registry[s] = "active"
                           /\ NextStartDate(s, requestedEnd) = d
                           /\ d <= requestedEnd

\* Mutant: one symbol per start date is kept.
GroupedLast(requestedEnd) ==
    [d \in Dates |-> IF \E s \in Symbols : Due(s, d, requestedEnd)
                     THEN {CHOOSE s \in Symbols : Due(s, d, requestedEnd)} ELSE {}]

Grouped(requestedEnd) ==
    [d \in Dates |-> {s \in Symbols : Due(s, d, requestedEnd)}]

StartIncremental(requestedEnd) ==
    /\ stage = "rest" /\ commands < MaxCommands
    /\ stage' = "between"
    /\ end' = requestedEnd
    /\ ranges' = Grouped(requestedEnd)
    /\ failures' = 0
    /\ commands' = commands + 1
    /\ asked' = [s \in Symbols |->
                    IF s \in synced
                    THEN {d \in trades[s] : /\ NextStartDate(s, requestedEnd) <= d
                                            /\ d <= requestedEnd}
                    ELSE {}]
    /\ UNCHANGED <<tables, start, units, idx, synced, faults>>

\* The run of the earliest start date that is left.
StartRun(d) ==
    /\ stage = "between" /\ ranges[d] # {}
    /\ \A e \in Dates : ranges[e] # {} => d <= e
    /\ stage' = "run"
    /\ start' = d
    /\ units' = IF bySymbol THEN ranges[d] ELSE d .. end
    /\ UNCHANGED <<tables, end, ranges, failures, idx, history>>

\* The rows of a unit: one symbol's range, or one date of the symbols asked for.
Rows(u) == [s \in Symbols |->
               IF bySymbol THEN IF s = u THEN trades[s] \cap (start .. end) ELSE {}
                           ELSE IF s \in ranges[start] THEN trades[s] \cap {u} ELSE {}]

\* Symbols are persisted as their fetches complete, dates in order.
IsNext(u) == /\ stage = "run" /\ u \in units
             /\ ~bySymbol => \A e \in units : u <= e

\* One transaction: placeholders, candles and the tables beside them.
Persist(u) ==
    /\ IsNext(u)
    /\ registry' = Placeholders({s \in Symbols : Rows(u)[s] # {}})
    /\ candles' = [s \in Symbols |-> candles[s] \cup Rows(u)[s]]
    /\ units' = units \ {u}
    /\ UNCHANGED <<listing, unitErrors, stage, end, ranges, start, failures, idx,
                   history>>

\* The request or the transaction of a unit fails; the others go on.
UnitFails(u) ==
    /\ IsNext(u) /\ faults < MaxFaults
    /\ failures' = failures + 1
    /\ unitErrors' = unitErrors \cup {
           [unit |-> u, symbols |-> IF bySymbol THEN {u} ELSE ranges[start]]}
    /\ faults' = faults + 1
    /\ units' = units \ {u}
    /\ UNCHANGED <<registry, listing, candles, stage, end, ranges, start, idx,
                   synced, asked, commands>>

FinishRun == /\ stage = "run" /\ units = {}
             /\ stage' = "between"
             /\ ranges' = [ranges EXCEPT ![start] = {}]
             /\ UNCHANGED <<tables, end, start, units, failures, idx, history>>

FinishIncremental == /\ stage = "between" /\ \A d \in Dates : ranges[d] = {}
                     /\ stage' = "rest"
                     /\ UNCHANGED <<tables, end, ranges, start, units,
                                    failures, idx, history>>

\* The process is killed or interrupted: committed units stay.
Die == /\ stage # "rest" /\ faults < MaxFaults
       /\ stage' = "rest"
       /\ ranges' = [d \in Dates |-> {}]
       /\ units' = {}
       /\ faults' = faults + 1
       /\ asked' = [s \in Symbols |-> {}]
       /\ UNCHANGED <<tables, end, start, failures, idx, synced, commands>>

Units == IF bySymbol THEN Symbols ELSE Dates

CommandStep == \/ \E d \in Dates : StartRun(d)
               \/ \E u \in Units : Persist(u) \/ UnitFails(u)
               \/ FinishRun \/ FinishIncremental

Next == \/ \E reported \in SUBSET Symbols, profile \in Listings :
               SyncSymbols(reported, profile)
        \/ Die
        \/ \E d \in Dates : InitialLoad(d)
        \/ \E d \in EndDates : StartIncremental(d)
        \/ CommandStep

Spec == Init /\ [][Next]_vars

-------------------------------------------------------------------------------
(* Properties                                                              *)

TypeOK ==
    /\ registry \in [Symbols -> {"none", "placeholder", "active"}]
    /\ listing \in [Symbols -> Dates \cup {0}]
    /\ candles \in [Symbols -> SUBSET Dates]
    /\ unitErrors \subseteq [unit : Units, symbols : SUBSET Symbols]
    /\ stage \in {"rest", "between", "run"}
    /\ end \in Dates \cup {0} /\ start \in Dates \cup {0}
    /\ ranges \in [Dates -> SUBSET Symbols]
    /\ units \subseteq Units
    /\ failures \in Nat
    /\ bySymbol \in BOOLEAN
    /\ synced \subseteq Symbols /\ asked \in [Symbols -> SUBSET Dates]

\* A command that met no failure leaves no symbol behind: every symbol that a
\* synchronization has ever reported, whatever placeholders and later lists were
\* stored since, has all its candles from its own start up to the end asked for.
CompletedIsCurrent ==
    stage = "rest" /\ failures = 0 => \A s \in Symbols : asked[s] \subseteq candles[s]

\* A date on which a symbol traded and has no candle, between two dates on which it
\* has one.
Gap(s, d) == /\ d \in trades[s] \ candles[s]
             /\ \E e, f \in candles[s] : e < d /\ d < f

\* No silent gap: a hole in the candles of a symbol, which no later command returns
\* to, is a date whose failure is in data_errors and names the symbol.
GapsAreRecorded ==
    \A s \in Symbols : \A d \in trades[s] :
        Gap(s, d) => \E r \in unitErrors : r.unit = d /\ s \in r.symbols

\* "This also makes the execution easy to resume because each symbol commits
\* independently" (incremental.py:44-45): what a failure or a kill left out lies
\* after the last candle of the symbol, where the next command starts.
GapsAreResumed == \A s \in Symbols : \A d \in trades[s] : ~Gap(s, d)
===============================================================================
