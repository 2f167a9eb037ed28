---------------------------- MODULE DatasetImport -----------------------------
(***************************************************************************)
(* The import routes of the API (app/api/main.py) with the parser of       *)
(* app/data_import.py and the upserts of app/database/queries.py, used by  *)
(* several clients at once while backfills write the same tables.          *)
(*                                                                         *)
(* A line of a file keeps what decides its fate: its symbol, its date, the *)
(* part of its key that is neither (broker, level, sequence, quarter, kind *)
(* of event or title) and its price, which stands for all numbers of the   *)
(* line, the volumes included.                                             *)
(***************************************************************************)
EXTENDS Integers, FiniteSets, Sequences, Functions

CONSTANTS Clients,
          Datasets,     \* those of parse_dataset that are used
          Files,        \* the uploads: [dataset |-> , lines |-> ]
          Backfilled,   \* <<symbol, date>>: what a backfill stores
          Nil, Text, NaN,  \* a cell that is empty, not a number, "NaN"
          Infinite,        \* a volume "Infinity"
          MaxRequests, MaxCommits, MaxFaults  \* bounds

\* _persist_import_rows: the datasets whose symbols get a row in stocks.
Registering == {"ohlcv", "stock-summary", "foreign-flow", "broker-summary"}

\* These two have no unique constraint.
Calendars == {"events", "news"}

Indexes == {"benchmark", "index-summary"}
FromBackfill == {"ohlcv", "stock-summary", "foreign-flow"}
NeedPart == Calendars \cup {"broker-summary", "fundamentals"}
NeedPrice == Indexes \cup {"ohlcv", "intraday-trades"}

ASSUME ConstantsAssumption ==
    /\ Datasets \subseteq Registering \cup NeedPart \cup NeedPrice \cup {"order-book"}
    /\ \A f \in Files : f.dataset \in Datasets
    /\ MaxRequests \in Nat /\ MaxCommits \in Nat /\ MaxFaults \in Nat

Requests == 1 .. MaxRequests

VARIABLES
    tables,     \* the rows of each dataset: [key, id, by], by: a commit
    stocks,     \* the symbols that have a row in stocks
    pc,         \* of each client: idle, register, write, commit
    request,    \* the last request of each client
    found,      \* upsert_market_events, _news: the keys that had a row
    file,       \* of each request
    answer,     \* of each request: none, 200, 422 or 500
    committed,  \* history: the commit of each request, 0 for none
    looked,     \* history: the commits before a request looked for its rows
    commits, faults

database == <<tables, stocks>>
vars == <<database, pc, request, found, file, answer, committed, looked, commits,
          faults>>

Init == /\ tables = [d \in Datasets |-> {}] /\ stocks = {}
        /\ pc = [c \in Clients |-> "idle"]
        /\ request = [c \in Clients |-> 0] /\ found = [c \in Clients |-> {}]
        /\ file = << >> /\ answer = << >> /\ committed = << >> /\ looked = << >>
        /\ commits = 0 /\ faults = 0

-------------------------------------------------------------------------------
(* parse_dataset                                                           *)

\* The line is a warning: a required cell is empty, or a cell is no number.
Rejected(dataset, line) ==
    \/ line.date = Nil
    \/ line.symbol = Nil /\ dataset \notin Calendars \cup Indexes
    \/ line.part = Nil /\ dataset \in NeedPart
    \/ line.price = Nil /\ dataset \in NeedPrice
    \/ line.price = Text /\ dataset # "events"

\* The high and the low of a candle are compared with NaN, or an infinite volume
\* is made an integer: decimal raises an error that is no ValueError, and the loop
\* over the lines ends.
Escapes(dataset, line) ==
    /\ ~Rejected(dataset, line)
    /\ \/ line.price = NaN /\ dataset = "ohlcv"
       \/ line.price = Infinite /\ dataset \notin Calendars

Escaping(f) == \E line \in Range(f.lines) : Escapes(f.dataset, line)

Accepted(f) == {i \in DOMAIN f.lines : ~Rejected(f.dataset, f.lines[i])}

\* The key of the row, with the defaults of cells that are empty.
KeyOf(dataset, line) ==
    << IF line.symbol = Nil /\ dataset \in Indexes THEN "IHSG" ELSE line.symbol,
       line.date,
       CASE dataset = "order-book" /\ line.part \in {Nil, 0} -> 1
         [] dataset = "intraday-trades" /\ line.part = Nil -> 0
         [] dataset \in (Registering \cup Indexes) \ NeedPart -> 0
         [] OTHER -> line.part >>

LineKey(f, i) == KeyOf(f.dataset, f.lines[i])
KeysOf(f) == {LineKey(f, i) : i \in Accepted(f)}
SymbolsOf(f) == {f.lines[i].symbol : i \in Accepted(f)}
Repeats(f) == Cardinality(KeysOf(f)) < Cardinality(Accepted(f))

-------------------------------------------------------------------------------
(* The routes and their transaction                                        *)

File(c) == file[request[c]]

\* Nothing is accepted: the header or the data are missing, the first warning is
\* the answer.
Submit(c, f) ==
    /\ pc[c] = "idle" /\ Len(file) < MaxRequests
    /\ LET r == Len(file) + 1
           reply == IF Escaping(f) THEN "500"
                    ELSE IF Accepted(f) = {} THEN "422" ELSE "none"
       IN /\ file' = Append(file, f)
          /\ answer' = Append(answer, reply)
          /\ committed' = Append(committed, 0)
          /\ looked' = Append(looked, 0)
          /\ request' = [request EXCEPT ![c] = r]
          /\ pc' = [pc EXCEPT ![c] = IF reply = "none" THEN "register" ELSE "idle"]
    /\ UNCHANGED <<database, found, commits, faults>>

\* ensure_stock_symbols: part of the transaction.
Register(c) ==
    /\ pc[c] = "register"
    /\ pc' = [pc EXCEPT ![c] = "write"]
    /\ UNCHANGED <<database, request, found, file, answer, committed, looked, commits,
                   faults>>

\* The keys a transaction has written and not committed: others wait for them.
Locked(c) == IF pc[c] = "commit" /\ File(c).dataset \notin Calendars
             THEN {<<File(c).dataset, k>> : k \in KeysOf(File(c))} ELSE {}

\* One statement for all rows, or one query for each row of a calendar; the
\* session does not flush, so no query sees the rows of the same file.
Write(c) ==
    /\ pc[c] = "write"
    /\ LET f == File(c) IN
       IF f.dataset \in Calendars
       THEN found' = [found EXCEPT ![c] =
                         {k \in KeysOf(f) : \E row \in tables[f.dataset] : row.key = k}]
       ELSE /\ ~Repeats(f)
            /\ \A d \in Clients \ {c} :
                  Locked(d) \cap {<<f.dataset, k>> : k \in KeysOf(f)} = {}
            /\ UNCHANGED found
    /\ pc' = [pc EXCEPT ![c] = "commit"]
    /\ looked' = [looked EXCEPT ![request[c]] = commits]
    /\ UNCHANGED <<database, request, file, answer, committed, commits, faults>>

\* Mutant: ON CONFLICT DO NOTHING.
UpsertedKept(rows, keys, n) ==
    rows \cup {[key |-> k, id |-> <<0, 0>>, by |-> n] :
                  k \in keys \ {row.key : row \in rows}}

\* ON CONFLICT DO UPDATE of every column.
Upserted(rows, keys, n) ==
    {row \in rows : row.key \notin keys}
    \cup {[key |-> k, id |-> <<0, 0>>, by |-> n] : k \in keys}

\* Mutant: a row without a symbol never equals another.
IsFoundUnlessNull(c, k) == k \in found[c] /\ k[1] # Nil

IsFound(c, k) == k \in found[c]

Updated(row, n) == [row EXCEPT !.by = n]

\* The first row of a key that was found is updated, the other lines are added.
Merged(c, rows, n) ==
    LET f == File(c)
        First(k) == CHOOSE row \in rows : row.key = k
        updated == {First(k) : k \in {k \in KeysOf(f) : IsFound(c, k)}}
    IN (rows \ updated)
       \cup {Updated(row, n) : row \in updated}
       \cup {[key |-> LineKey(f, i), id |-> <<request[c], i>>, by |-> n] :
                i \in {i \in Accepted(f) : ~IsFound(c, LineKey(f, i))}}

Commit(c) ==
    /\ pc[c] = "commit" /\ commits < MaxCommits
    /\ LET f == File(c)
           n == commits + 1
       IN /\ tables' = [tables EXCEPT ![f.dataset] =
                           IF f.dataset \in Calendars THEN Merged(c, @, n)
                           ELSE Upserted(@, KeysOf(f), n)]
          /\ stocks' = IF f.dataset \in Registering THEN stocks \cup SymbolsOf(f)
                       ELSE stocks
          /\ commits' = n
          /\ committed' = [committed EXCEPT ![request[c]] = n]
    /\ answer' = [answer EXCEPT ![request[c]] = "200"]
    /\ pc' = [pc EXCEPT ![c] = "idle"]
    /\ UNCHANGED <<request, found, file, looked, faults>>

\* A key twice in one statement is an error of the database.
Fails(c) == /\ pc[c] = "write" /\ Repeats(File(c))
            /\ File(c).dataset \notin Calendars

\* A statement raises and the session is closed, which rolls it back.
Abort(c) ==
    /\ pc[c] # "idle"
    /\ \/ Fails(c) /\ UNCHANGED faults
       \/ faults < MaxFaults /\ faults' = faults + 1
    /\ answer' = [answer EXCEPT ![request[c]] = "500"]
    /\ pc' = [pc EXCEPT ![c] = "idle"]
    /\ UNCHANGED <<database, request, found, file, committed, looked, commits>>

\* The transaction of a date in _backfill_daily_market.
Backfill(s, d) ==
    /\ commits < MaxCommits
    /\ \A c \in Clients : Locked(c) \cap (FromBackfill \X {<<s, d, 0>>}) = {}
    /\ stocks' = stocks \cup {s}
    /\ commits' = commits + 1
    /\ tables' = [t \in Datasets |-> IF t \in FromBackfill
                                     THEN Upserted(tables[t], {<<s, d, 0>>}, commits')
                                     ELSE tables[t]]
    /\ UNCHANGED <<pc, request, found, file, answer, committed, looked, faults>>

RequestStep(c) == Register(c) \/ Write(c) \/ Commit(c) \/ Abort(c)

Rest == (\A c \in Clients : pc[c] = "idle" \/ commits = MaxCommits) /\ UNCHANGED vars

Next == \/ \E c \in Clients : RequestStep(c) \/ \E f \in Files : Submit(c, f)
        \/ \E key \in Backfilled : Backfill(key[1], key[2])
        \/ Rest

Spec == Init /\ [][Next]_vars

-------------------------------------------------------------------------------
(* Properties                                                              *)

TypeOK ==
    /\ pc \in [Clients -> {"idle", "register", "write", "commit"}]
    /\ request \in [Clients -> 0 .. MaxRequests]
    /\ \A f \in Range(file) : f \in Files
    /\ Range(answer) \subseteq {"none", "200", "422", "500"}
    /\ Range(committed) \subseteq 0 .. commits
    /\ \A d \in Datasets : \A row \in tables[d] : row.by \in 1 .. commits
    /\ Nil \notin stocks

\* An import that was answered with 200 stored every line it accepted: the row
\* is there, as written by that import or by a later commit, whatever other
\* imports and backfills wrote the same keys meanwhile.
AnsweredRowsAreStored ==
    \A r \in DOMAIN answer : answer[r] = "200" =>
        \A k \in KeysOf(file[r]) : \E row \in tables[file[r].dataset] :
            row.key = k /\ row.by >= committed[r]

\* "Imports are upserts keyed by symbol/date" (README.md), but the event calendar
\* and the news have no unique constraint: two rows of one key come from one file
\* that repeats it, or from two imports that each looked before the other had
\* committed, and never from importing again.
CalendarsAreKeyed ==
    \A d \in Calendars \cap Datasets : \A x, y \in tables[d] :
        x.key = y.key /\ x # y =>
            LET p == x.id[1]
                q == y.id[1]
            IN p = q \/ (looked[p] < committed[q] /\ looked[q] < committed[p])
===============================================================================
