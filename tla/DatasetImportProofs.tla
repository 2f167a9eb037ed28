-------------------------- MODULE DatasetImportProofs --------------------------
(***************************************************************************)
(* Theorems about DatasetImport, for any number of clients, files,         *)
(* requests, commits and faults.                                           *)
(***************************************************************************)
EXTENDS DatasetImport, TLAPS

\* What the columns of a row may hold.
Keys == (UNION {KeysOf(f) : f \in Files})
        \cup {<<key[1], key[2], 0>> : key \in Backfilled}
Ids == {<<0, 0>>}
       \cup {<<r, i>> : r \in Nat, i \in UNION {DOMAIN f.lines : f \in Files}}
Row == [key : Keys, id : Ids, by : Nat]

\* A request that is under way has its place in the records of all requests,
\* no answer yet, and one client.
UnderWay ==
    /\ \A c \in Clients : pc[c] # "idle" =>
          request[c] \in DOMAIN file /\ answer[request[c]] = "none"
    /\ \A c, d \in Clients :
          pc[c] # "idle" /\ pc[d] # "idle" /\ c # d => request[c] # request[d]

\* No row and no record is younger than the last commit.
Dated ==
    /\ \A d \in Datasets : \A row \in tables[d] : row.by <= commits
    /\ \A r \in DOMAIN file : committed[r] <= commits /\ looked[r] <= commits

TypeInv ==
    /\ tables \in [Datasets -> SUBSET Row]
    /\ pc \in [Clients -> {"idle", "register", "write", "commit"}]
    /\ request \in [Clients -> Nat]
    /\ found \in [Clients -> SUBSET Keys]
    /\ file \in Seq(Files) /\ answer \in Seq({"none", "200", "422", "500"})
    /\ committed \in Seq(Nat) /\ looked \in Seq(Nat)
    /\ Len(answer) = Len(file) /\ Len(committed) = Len(file) /\ Len(looked) = Len(file)
    /\ commits \in Nat
    /\ UnderWay
    /\ Dated

\* The keys a calendar was found to have are in it.
FoundIsStored ==
    \A c \in Clients : pc[c] = "commit" /\ File(c).dataset \in Calendars =>
        \A k \in found[c] : \E row \in tables[File(c).dataset] : row.key = k

\* A row of a calendar was committed by the request that its id names.
Origin ==
    \A d \in Calendars \cap Datasets : \A row \in tables[d] :
        row.id[1] \in DOMAIN answer /\ answer[row.id[1]] = "200"

\* A key that a request looked for in vain has only rows committed since.
Unseen ==
    \A c \in Clients : pc[c] = "commit" /\ File(c).dataset \in Calendars =>
        \A row \in tables[File(c).dataset] :
            row.key \in KeysOf(File(c)) \ found[c] =>
                looked[request[c]] < committed[row.id[1]]

-------------------------------------------------------------------------------
(* Types                                                                   *)

\* The file of a request is one of the uploads.
LEMMA FileType ==
    ASSUME TypeInv, NEW c \in Clients, pc[c] # "idle"
    PROVE  File(c) \in Files /\ File(c).dataset \in Datasets
  BY ConstantsAssumption DEF TypeInv, UnderWay, File

\* The keys of an upload are keys.
LEMMA KeysOfFile ==
    ASSUME NEW f \in Files
    PROVE  /\ KeysOf(f) \subseteq Keys
           /\ \A i \in Accepted(f) : LineKey(f, i) \in KeysOf(f) /\ i \in DOMAIN f.lines
  BY DEF Keys, KeysOf, Accepted

\* The rows an upsert leaves: the others as they were, and one for each key.
LEMMA UpsertedRows ==
    ASSUME NEW rows \in SUBSET Row, NEW keys \in SUBSET Keys, NEW n \in Nat
    PROVE  /\ Upserted(rows, keys, n) \subseteq Row
           /\ \A row \in Upserted(rows, keys, n) : row \in rows \/ row.by = n
           /\ \A row \in rows : row.key \notin keys => row \in Upserted(rows, keys, n)
           /\ \A k \in keys : \E row \in Upserted(rows, keys, n) :
                 row.key = k /\ row.by = n
  <1>1. /\ Upserted(rows, keys, n) \subseteq Row
        /\ \A row \in Upserted(rows, keys, n) : row \in rows \/ row.by = n
        /\ \A row \in rows : row.key \notin keys => row \in Upserted(rows, keys, n)
    BY DEF Upserted, Row, Ids
  <1>2. ASSUME NEW k \in keys
        PROVE  \E row \in Upserted(rows, keys, n) : row.key = k /\ row.by = n
    <2>1. [key |-> k, id |-> <<0, 0>>, by |-> n] \in Upserted(rows, keys, n)
      BY DEF Upserted
    <2> QED
      BY <2>1
  <1> QED
    BY <1>1, <1>2

\* An update changes when a row was written, and neither its key nor its id.
LEMMA UpdatedRow ==
    ASSUME NEW row \in Row, NEW n \in Nat
    PROVE  /\ Updated(row, n) \in Row /\ Updated(row, n).by = n
           /\ Updated(row, n).key = row.key /\ Updated(row, n).id = row.id
  <1>1. Updated(row, n).by = n
    BY DEF Updated, Row
  <1>2. Updated(row, n).key = row.key
    BY DEF Updated, Row
  <1>3. Updated(row, n).id = row.id
    BY DEF Updated, Row
  <1>4. Updated(row, n) = [key |-> row.key, id |-> row.id, by |-> n]
    BY DEF Updated, Row
  <1> QED
    BY <1>1, <1>2, <1>3, <1>4 DEF Row

\* A new row is of the types of its columns.
LEMMA AddedRow ==
    ASSUME TypeInv, NEW c \in Clients, pc[c] # "idle", NEW n \in Nat,
           NEW i \in Accepted(File(c))
    PROVE  [key |-> LineKey(File(c), i), id |-> <<request[c], i>>, by |-> n] \in Row
  <1>1. LineKey(File(c), i) \in Keys
    BY FileType, KeysOfFile
  <1>2. i \in UNION {DOMAIN f.lines : f \in Files}
    BY FileType, KeysOfFile
  <1>3. request[c] \in Nat
    BY DEF TypeInv
  <1>4. <<request[c], i>> \in Ids
    BY <1>2, <1>3 DEF Ids
  <1> QED
    BY <1>1, <1>4 DEF Row

\* The rows a calendar has after a file: the old ones, perhaps updated, and one
\* for each line whose key was not found.
LEMMA MergedRows ==
    ASSUME TypeInv, FoundIsStored, NEW c \in Clients, pc[c] = "commit",
           File(c).dataset \in Calendars, NEW n \in Nat,
           NEW row \in Merged(c, tables[File(c).dataset], n)
    PROVE  /\ row \in Row
           /\ \/ \E old \in tables[File(c).dataset] :
                    /\ row.key = old.key /\ row.id = old.id
                    /\ row.by = n \/ row.by = old.by
              \/ /\ row.key \in KeysOf(File(c)) \ found[c]
                 /\ row.id[1] = request[c] /\ row.by = n
  <1> DEFINE f == File(c)
             rows == tables[f.dataset]
             First(k) == CHOOSE r \in rows : r.key = k
             updated == {First(k) : k \in {k \in KeysOf(f) : IsFound(c, k)}}
  <1>1. rows \subseteq Row
    BY FileType DEF TypeInv
  <1>2. updated \subseteq rows
    BY DEF FoundIsStored, IsFound
  <1>3. \/ row \in rows \ updated
        \/ row \in {Updated(r, n) : r \in updated}
        \/ \E i \in {i \in Accepted(f) : ~IsFound(c, LineKey(f, i))} :
              row = [key |-> LineKey(f, i), id |-> <<request[c], i>>, by |-> n]
    BY DEF Merged
  <1>4. CASE row \in rows \ updated
    BY <1>1, <1>4
  <1>5. ASSUME NEW r \in updated, row = Updated(r, n)
        PROVE  /\ row \in Row /\ row.by = n
               /\ \E old \in rows : row.key = old.key /\ row.id = old.id
    BY <1>1, <1>2, <1>5, UpdatedRow
  <1>6. ASSUME NEW i \in Accepted(f), ~IsFound(c, LineKey(f, i)),
               row = [key |-> LineKey(f, i), id |-> <<request[c], i>>, by |-> n]
        PROVE  /\ row \in Row /\ row.key \in KeysOf(f) \ found[c]
               /\ row.id[1] = request[c] /\ row.by = n
    BY <1>6, AddedRow, FileType, KeysOfFile DEF IsFound
  <1> HIDE DEF updated, f, rows
  <1> QED
    BY <1>3, <1>4, <1>5, <1>6 DEF f, rows

\* No row of a calendar gets lost, and each key of the file has a row of its commit.
LEMMA MergeStores ==
    ASSUME TypeInv, FoundIsStored, NEW c \in Clients, pc[c] = "commit",
           File(c).dataset \in Calendars, NEW n \in Nat
    PROVE  LET rows == tables[File(c).dataset]
               new == Merged(c, rows, n)
           IN /\ \A old \in rows : \E row \in new :
                     row.key = old.key /\ (row.by = old.by \/ row.by = n)
              /\ \A k \in KeysOf(File(c)) : \E row \in new : row.key = k /\ row.by = n
  <1> DEFINE f == File(c)
             rows == tables[f.dataset]
             new == Merged(c, rows, n)
             First(k) == CHOOSE r \in rows : r.key = k
             updated == {First(k) : k \in {k \in KeysOf(f) : IsFound(c, k)}}
  <1>1. rows \subseteq Row /\ updated \subseteq rows
    BY FileType DEF TypeInv, FoundIsStored, IsFound
  <1>2. new = (rows \ updated) \cup {Updated(row, n) : row \in updated}
              \cup {[key |-> LineKey(f, i), id |-> <<request[c], i>>, by |-> n] :
                       i \in {i \in Accepted(f) : ~IsFound(c, LineKey(f, i))}}
    BY DEF Merged
  <1>3. ASSUME NEW r \in updated
        PROVE  \E row \in new : row.key = r.key /\ row.by = n
    <2>1. r \in Row
      BY <1>1
    <2>2. Updated(r, n).key = r.key /\ Updated(r, n).by = n
      BY <2>1, UpdatedRow
    <2>3. Updated(r, n) \in new
      <3> HIDE DEF updated, new
      <3> QED
        BY <1>2
    <2> HIDE DEF new
    <2> QED
      BY <2>2, <2>3
  <1>4. ASSUME NEW k \in KeysOf(f), IsFound(c, k)
        PROVE  First(k) \in updated /\ First(k).key = k
    BY <1>4 DEF FoundIsStored, IsFound
  <1>5. ASSUME NEW k \in KeysOf(f), ~IsFound(c, k)
        PROVE  \E row \in new : row.key = k /\ row.by = n
    <2>1. PICK i \in Accepted(f) : k = LineKey(f, i)
      BY DEF KeysOf
    <2>2. [key |-> k, id |-> <<request[c], i>>, by |-> n] \in new
      BY <1>2, <1>5, <2>1
    <2> QED
      BY <2>2
  <1>6. ASSUME NEW old \in rows, old \notin updated
        PROVE  old \in new
    BY <1>2, <1>6
  <1> HIDE DEF f, rows, new, First, updated
  <1>7. \A old \in rows : \E row \in new :
            row.key = old.key /\ (row.by = old.by \/ row.by = n)
    BY <1>3, <1>6
  <1>8. \A k \in KeysOf(f) : \E row \in new : row.key = k /\ row.by = n
    BY <1>3, <1>4, <1>5
  <1> QED
    BY <1>7, <1>8 DEF f, rows, new

\* What a commit writes into the table of the file.
LEMMA CommittedRows ==
    ASSUME TypeInv, FoundIsStored, NEW c \in Clients, Commit(c)
    PROVE  LET d == File(c).dataset
           IN /\ tables'[d] \in SUBSET Row
              /\ \A row \in tables'[d] : row.by <= commits + 1
              /\ \A e \in Datasets \ {d} : tables'[e] = tables[e]
              /\ \A old \in tables[d] : \E row \in tables'[d] :
                    row.key = old.key /\ row.by >= old.by
              /\ \A k \in KeysOf(File(c)) : \E row \in tables'[d] :
                    row.key = k /\ row.by = commits + 1
  <1> DEFINE f == File(c)
             d == f.dataset
             n == commits + 1
  <1>1. /\ f \in Files /\ d \in Datasets /\ n \in Nat /\ KeysOf(f) \in SUBSET Keys
        /\ tables[d] \in SUBSET Row /\ pc[c] = "commit"
    BY FileType, KeysOfFile DEF Commit, TypeInv
  <1>2. \A row \in tables[d] : row.by \in Nat /\ row.by < n
    BY <1>1 DEF TypeInv, Dated, Row
  <1>3. \A e \in Datasets \ {d} : tables'[e] = tables[e]
    BY DEF Commit, TypeInv
  <1>4. CASE d \in Calendars
    <2>1. tables'[d] = Merged(c, tables[d], n)
      BY <1>1, <1>4 DEF Commit, TypeInv
    <2>2. \A row \in tables'[d] : row \in Row /\ row.by <= n
      <3>1. ASSUME NEW row \in tables'[d]
            PROVE  row \in Row /\ (row.by = n \/ \E old \in tables[d] : row.by = old.by)
        BY <1>1, <1>4, <2>1, MergedRows
      <3> HIDE DEF f, d, n
      <3> QED
        BY <1>1, <1>2, <3>1
    <2>3. /\ \A old \in tables[d] : \E row \in tables'[d] :
                row.key = old.key /\ (row.by = old.by \/ row.by = n)
          /\ \A k \in KeysOf(f) : \E row \in tables'[d] : row.key = k /\ row.by = n
      BY <1>1, <1>4, <2>1, MergeStores
    <2> HIDE DEF f, d, n
    <2>4. \A old \in tables[d] : \E row \in tables'[d] :
             row.key = old.key /\ row.by >= old.by
      BY <1>1, <1>2, <2>3
    <2> QED
      BY <1>1, <1>2, <1>3, <2>2, <2>3, <2>4 DEF f, d, n
  <1>5. CASE d \notin Calendars
    <2>1. tables'[d] = Upserted(tables[d], KeysOf(f), n)
      BY <1>1, <1>5 DEF Commit, TypeInv
    <2> HIDE DEF f, d, n
    <2>2. \A row \in tables'[d] : row \in Row /\ row.by <= n
      BY <1>1, <1>2, <2>1, UpsertedRows
    <2>3. \A k \in KeysOf(f) : \E row \in tables'[d] : row.key = k /\ row.by = n
      BY <1>1, <2>1, UpsertedRows
    <2>4. ASSUME NEW old \in tables[d]
          PROVE  \E row \in tables'[d] : row.key = old.key /\ row.by >= old.by
      <3>1. CASE old.key \in KeysOf(f)
        BY <1>1, <1>2, <2>3, <3>1
      <3>2. CASE old.key \notin KeysOf(f)
        BY <1>1, <1>2, <2>1, <3>2, UpsertedRows
      <3> QED
        BY <3>1, <3>2
    <2> QED
      BY <1>1, <1>3, <2>2, <2>3, <2>4 DEF f, d, n
  <1> QED
    BY <1>4, <1>5

\* What a backfill writes.
LEMMA BackfilledRows ==
    ASSUME TypeInv, NEW key \in Backfilled, Backfill(key[1], key[2]), NEW d \in Datasets
    PROVE  /\ tables'[d] \in SUBSET Row
           /\ \A row \in tables'[d] : row.by <= commits + 1
           /\ \A old \in tables[d] : \E row \in tables'[d] :
                 row.key = old.key /\ row.by >= old.by
           /\ d \in Calendars => tables'[d] = tables[d]
  <1> DEFINE n == commits + 1
             k == <<key[1], key[2], 0>>
  <1>1. tables'[d] = IF d \in FromBackfill THEN Upserted(tables[d], {k}, n)
                     ELSE tables[d]
    BY DEF Backfill
  <1>2. {k} \in SUBSET Keys /\ n \in Nat /\ tables[d] \in SUBSET Row
    <2>1. k \in Keys
      BY DEF Keys
    <2> QED
      BY <2>1 DEF TypeInv
  <1>3. \A row \in tables[d] : row.by \in Nat /\ row.by < n
    BY <1>2 DEF TypeInv, Dated, Row
  <1>4. d \in Calendars => tables'[d] = tables[d]
    BY <1>1 DEF Calendars, FromBackfill
  <1> HIDE DEF n, k
  <1>5. \A row \in tables'[d] : row \in Row /\ row.by <= n
    BY <1>1, <1>2, <1>3, UpsertedRows
  <1>6. ASSUME NEW old \in tables[d]
        PROVE  \E row \in tables'[d] : row.key = old.key /\ row.by >= old.by
    <2>1. CASE d \in FromBackfill /\ old.key = k
      <3>1. PICK row \in Upserted(tables[d], {k}, n) : row.key = k /\ row.by = n
        BY <1>2, UpsertedRows
      <3> QED
        BY <1>1, <1>2, <1>3, <2>1, <3>1
    <2>2. CASE d \notin FromBackfill \/ old.key # k
      BY <1>1, <1>2, <1>3, <2>2, UpsertedRows
    <2> QED
      BY <2>1, <2>2
  <1> QED
    BY <1>4, <1>5, <1>6 DEF n

\* Every step is one of these.
LEMMA Steps ==
    ASSUME [Next]_vars
    PROVE  \/ \E c \in Clients : \/ Register(c) \/ Write(c) \/ Commit(c) \/ Abort(c)
                                 \/ \E f \in Files : Submit(c, f)
           \/ \E key \in Backfilled : Backfill(key[1], key[2])
           \/ UNCHANGED vars
  BY DEF Next, RequestStep, Rest

\* No step loses a row.
LEMMA RowsPersist ==
    ASSUME TypeInv, FoundIsStored, [Next]_vars, NEW d \in Datasets, NEW old \in tables[d]
    PROVE  \E row \in tables'[d] : row.key = old.key /\ row.by >= old.by
  <1>1. old.by \in Nat
    BY DEF TypeInv, Row
  <1>2. CASE UNCHANGED tables
    BY <1>1, <1>2
  <1>3. CASE \E c \in Clients : Commit(c)
    <2>1. PICK c \in Clients : Commit(c)
      BY <1>3
    <2>2. CASE d = File(c).dataset
      BY <2>1, <2>2, CommittedRows
    <2>3. CASE d # File(c).dataset
      <3>1. tables'[d] = tables[d]
        BY <2>1, <2>3, CommittedRows
      <3> QED
        BY <1>1, <3>1
    <2> QED
      BY <2>2, <2>3
  <1>4. CASE \E key \in Backfilled : Backfill(key[1], key[2])
    BY <1>4, BackfilledRows
  <1> QED
    BY <1>2, <1>3, <1>4, Steps DEF Register, Write, Abort, Submit, vars, database

-------------------------------------------------------------------------------
\* The types are kept.
LEMMA SubmitType ==
    ASSUME TypeInv, NEW c \in Clients, NEW f \in Files, Submit(c, f)
    PROVE  TypeInv'
  <1> DEFINE r == Len(file) + 1
             reply == IF Escaping(f) THEN "500"
                      ELSE IF Accepted(f) = {} THEN "422" ELSE "none"
  <1>1. /\ r \in Nat /\ DOMAIN file = 1 .. Len(file) /\ Len(file) \in Nat
        /\ reply \in {"none", "200", "422", "500"}
    BY DEF TypeInv
  <1>2. /\ file' = Append(file, f) /\ answer' = Append(answer, reply)
        /\ committed' = Append(committed, 0) /\ looked' = Append(looked, 0)
        /\ request' = [request EXCEPT ![c] = r]
        /\ pc' = [pc EXCEPT ![c] = IF reply = "none" THEN "register" ELSE "idle"]
        /\ UNCHANGED <<tables, found, commits>>
    BY DEF Submit, database
  <1> HIDE DEF reply
  <1>3. /\ file' \in Seq(Files) /\ answer' \in Seq({"none", "200", "422", "500"})
        /\ committed' \in Seq(Nat) /\ looked' \in Seq(Nat)
        /\ Len(file') = r /\ Len(answer') = r /\ Len(committed') = r /\ Len(looked') = r
    BY <1>1, <1>2 DEF TypeInv
  <1>4. /\ request' \in [Clients -> Nat]
        /\ pc' \in [Clients -> {"idle", "register", "write", "commit"}]
    BY <1>1, <1>2 DEF TypeInv
  <1>5. \A q \in 1 .. Len(file) : /\ answer'[q] = answer[q] /\ committed'[q] = committed[q]
                                  /\ looked'[q] = looked[q]
    BY <1>1, <1>2 DEF TypeInv
  <1>6. answer'[r] = reply /\ committed'[r] = 0 /\ looked'[r] = 0
    BY <1>1, <1>2 DEF TypeInv
  <1>7. DOMAIN file' = 1 .. r
    BY <1>3
  <1>8. UnderWay'
    <2>1. ASSUME NEW d \in Clients, pc'[d] # "idle"
          PROVE  /\ request'[d] \in 1 .. r /\ answer'[request'[d]] = "none"
                 /\ d = c <=> request'[d] = r
      <3>1. CASE d = c
        BY <1>1, <1>2, <1>6, <2>1, <3>1 DEF TypeInv
      <3>2. CASE d # c
        <4>1. request'[d] = request[d] /\ pc[d] # "idle"
          BY <1>2, <2>1, <3>2 DEF TypeInv
        <4>2. request[d] \in 1 .. Len(file) /\ answer[request[d]] = "none"
          BY <1>1, <4>1 DEF TypeInv, UnderWay
        <4> QED
          BY <1>1, <1>5, <3>2, <4>1, <4>2
      <3> QED
        BY <3>1, <3>2
    <2>2. ASSUME NEW d \in Clients, NEW e \in Clients, pc'[d] # "idle", pc'[e] # "idle",
                 d # e
          PROVE  request'[d] # request'[e]
      BY <1>2, <2>1, <2>2 DEF TypeInv, UnderWay
    <2> QED
      BY <1>7, <2>1, <2>2 DEF UnderWay
  <1>9. Dated'
    <2>1. \A q \in 1 .. r : committed'[q] <= commits /\ looked'[q] <= commits
      <3>1. \A q \in 1 .. Len(file) : committed[q] <= commits /\ looked[q] <= commits
        BY <1>1 DEF TypeInv, Dated
      <3>2. \A q \in 1 .. r : q \in 1 .. Len(file) \/ q = r
        BY <1>1
      <3>3. commits \in Nat
        BY DEF TypeInv
      <3> HIDE DEF r
      <3> QED
        BY <1>5, <1>6, <3>1, <3>2, <3>3
    <2> QED
      BY <1>2, <1>7, <2>1 DEF TypeInv, Dated
  <1> QED
    BY <1>2, <1>3, <1>4, <1>8, <1>9 DEF TypeInv

\* A step of a request that does not end it.
LEMMA ProgressType ==
    ASSUME TypeInv, NEW c \in Clients, Register(c) \/ Write(c)
    PROVE  TypeInv'
  <1>1. /\ UNCHANGED <<tables, request, file, answer, committed, commits>>
        /\ pc[c] # "idle"
        /\ \E at \in {"write", "commit"} : pc' = [pc EXCEPT ![c] = at]
        /\ looked' = looked \/ looked' = [looked EXCEPT ![request[c]] = commits]
    BY DEF Register, Write, database
  <1>2. request[c] \in DOMAIN file /\ DOMAIN file = 1 .. Len(file) /\ commits \in Nat
    BY <1>1 DEF TypeInv, UnderWay
  <1>3. pc' \in [Clients -> {"idle", "register", "write", "commit"}]
    BY <1>1 DEF TypeInv
  <1>4. \A d \in Clients : pc'[d] # "idle" => pc[d] # "idle"
    BY <1>1 DEF TypeInv
  <1>5. /\ looked' \in Seq(Nat) /\ Len(looked') = Len(file)
        /\ \A r \in DOMAIN file : looked'[r] <= commits
    <2>1. \A r \in DOMAIN file : looked[r] <= commits
      BY DEF TypeInv, Dated
    <2>2. looked \in Seq(Nat) /\ Len(looked) = Len(file)
      BY DEF TypeInv
    <2>3. CASE looked' = looked
      BY <2>1, <2>2, <2>3
    <2>4. CASE looked' = [looked EXCEPT ![request[c]] = commits]
      BY <1>2, <2>1, <2>2, <2>4
    <2> QED
      BY <1>1, <2>3, <2>4
  <1>6. found' \in [Clients -> SUBSET Keys]
    <2>1. CASE Register(c)
      BY <2>1 DEF Register, TypeInv
    <2>2. CASE Write(c)
      <3>1. KeysOf(File(c)) \subseteq Keys
        BY <1>1, FileType, KeysOfFile
      <3>2. \/ UNCHANGED found
            \/ \E keys \in SUBSET KeysOf(File(c)) : found' = [found EXCEPT ![c] = keys]
        BY <2>2 DEF Write
      <3> QED
        BY <3>1, <3>2 DEF TypeInv
    <2> QED
      BY <2>1, <2>2
  <1>7. UnderWay'
    BY <1>1, <1>4 DEF TypeInv, UnderWay
  <1>8. Dated'
    BY <1>1, <1>5 DEF TypeInv, Dated
  <1> QED
    BY <1>1, <1>3, <1>5, <1>6, <1>7, <1>8 DEF TypeInv

\* A step that answers a request.
LEMMA AnswerType ==
    ASSUME TypeInv, NEW c \in Clients, pc[c] # "idle",
           NEW reply \in {"200", "500"}, answer' = [answer EXCEPT ![request[c]] = reply],
           pc' = [pc EXCEPT ![c] = "idle"], UNCHANGED <<request, file>>
    PROVE  /\ answer' \in Seq({"none", "200", "422", "500"}) /\ Len(answer') = Len(file)
           /\ pc' \in [Clients -> {"idle", "register", "write", "commit"}]
           /\ UnderWay'
  <1>1. request[c] \in DOMAIN file /\ DOMAIN file = 1 .. Len(file)
    BY DEF TypeInv, UnderWay
  <1>2. answer' \in Seq({"none", "200", "422", "500"}) /\ Len(answer') = Len(file)
    BY <1>1 DEF TypeInv
  <1>3. pc' \in [Clients -> {"idle", "register", "write", "commit"}]
    BY DEF TypeInv
  <1>4. \A d \in Clients : pc'[d] # "idle" => d # c /\ pc[d] # "idle"
    BY DEF TypeInv
  <1>5. ASSUME NEW d \in Clients, pc'[d] # "idle"
        PROVE  request[d] \in DOMAIN file /\ answer'[request[d]] = "none"
    BY <1>1, <1>4, <1>5 DEF TypeInv, UnderWay
  <1>6. UnderWay'
    BY <1>4, <1>5 DEF TypeInv, UnderWay
  <1> QED
    BY <1>2, <1>3, <1>6

\* A commit and an abort answer their request.
LEMMA CommitType ==
    ASSUME TypeInv, FoundIsStored, NEW c \in Clients, Commit(c)
    PROVE  TypeInv'
  <1> DEFINE n == commits + 1
             d == File(c).dataset
  <1>1. /\ pc[c] = "commit" /\ commits' = n /\ UNCHANGED <<request, found, file, looked>>
        /\ answer' = [answer EXCEPT ![request[c]] = "200"]
        /\ pc' = [pc EXCEPT ![c] = "idle"]
        /\ committed' = [committed EXCEPT ![request[c]] = n]
    BY DEF Commit
  <1>2. /\ request[c] \in DOMAIN file /\ DOMAIN file = 1 .. Len(file)
        /\ n \in Nat /\ d \in Datasets
    BY <1>1, FileType DEF TypeInv, UnderWay
  <1>3. /\ answer' \in Seq({"none", "200", "422", "500"}) /\ Len(answer') = Len(file)
        /\ pc' \in [Clients -> {"idle", "register", "write", "commit"}]
        /\ UnderWay'
    BY <1>1, AnswerType
  <1>4. tables' \in [Datasets -> SUBSET Row]
    <2>1. tables'[d] \in SUBSET Row /\ \A e \in Datasets \ {d} : tables'[e] = tables[e]
      BY CommittedRows
    <2>2. tables' = [e \in Datasets |-> tables'[e]]
      BY DEF Commit, TypeInv
    <2> HIDE DEF d
    <2>3. \A e \in Datasets : tables'[e] \in SUBSET Row
      BY <2>1 DEF TypeInv
    <2> QED
      BY <2>2, <2>3
  <1>5. /\ committed' \in Seq(Nat) /\ Len(committed') = Len(file)
        /\ \A r \in DOMAIN file : committed'[r] <= n
    BY <1>1, <1>2 DEF TypeInv, Dated
  <1>6. Dated'
    <2>1. \A e \in Datasets : \A row \in tables'[e] : row.by <= n
      <3>1. /\ \A row \in tables'[d] : row.by <= n
            /\ \A e \in Datasets \ {d} : tables'[e] = tables[e]
        BY CommittedRows
      <3>2. \A e \in Datasets : \A row \in tables[e] :
               row.by \in Nat /\ row.by <= commits /\ commits \in Nat
        BY DEF TypeInv, Dated, Row
      <3> HIDE DEF d
      <3> QED
        BY <3>1, <3>2
    <2>2. \A r \in DOMAIN file : looked[r] <= n
      BY DEF TypeInv, Dated
    <2> QED
      BY <1>1, <1>5, <2>1, <2>2 DEF Dated
  <1> QED
    BY <1>1, <1>2, <1>3, <1>4, <1>5, <1>6 DEF TypeInv

\* A backfill that stores a row of its own is typed.
LEMMA BackfillType ==
    ASSUME TypeInv, NEW key \in Backfilled, Backfill(key[1], key[2])
    PROVE  TypeInv'
  <1>1. /\ commits' = commits + 1
        /\ UNCHANGED <<pc, request, found, file, answer, committed, looked>>
    BY DEF Backfill
  <1>2. /\ \A d \in Datasets : tables'[d] \in SUBSET Row
        /\ \A d \in Datasets : \A row \in tables'[d] : row.by <= commits + 1
    BY BackfilledRows
  <1>3. tables' = [d \in Datasets |-> tables'[d]]
    BY DEF Backfill
  <1>4. tables' \in [Datasets -> SUBSET Row]
    BY <1>2, <1>3
  <1>5. \A r \in DOMAIN file :
            committed[r] <= commits + 1 /\ looked[r] <= commits + 1
    BY DEF TypeInv, Dated
  <1>6. Dated'
    BY <1>1, <1>2, <1>5 DEF Dated
  <1> QED
    BY <1>1, <1>4, <1>6 DEF TypeInv, UnderWay

\* Every step keeps the types.
LEMMA TypeStep == TypeInv /\ FoundIsStored /\ [Next]_vars => TypeInv'
  <1> SUFFICES ASSUME TypeInv, FoundIsStored, [Next]_vars
               PROVE  TypeInv'
    OBVIOUS
  <1>1. ASSUME NEW c \in Clients, Abort(c)
        PROVE  TypeInv'
    <2>1. /\ pc[c] # "idle" /\ answer' = [answer EXCEPT ![request[c]] = "500"]
          /\ pc' = [pc EXCEPT ![c] = "idle"]
          /\ UNCHANGED <<tables, request, found, file, committed, looked, commits>>
      BY <1>1 DEF Abort, database
    <2>2. /\ answer' \in Seq({"none", "200", "422", "500"}) /\ Len(answer') = Len(file)
          /\ pc' \in [Clients -> {"idle", "register", "write", "commit"}]
          /\ UnderWay'
      BY <2>1, AnswerType
    <2> QED
      BY <2>1, <2>2 DEF TypeInv, Dated
  <1>2. CASE UNCHANGED vars
    BY <1>2 DEF vars, database, TypeInv, UnderWay, Dated
  <1> QED
    BY <1>1, <1>2, Steps, SubmitType, ProgressType, CommitType, BackfillType

-------------------------------------------------------------------------------
(* What a step leaves alone                                                *)

\* The record of a request is complete once it was answered with 200.
LEMMA Settled ==
    ASSUME TypeInv, [Next]_vars, NEW r \in DOMAIN answer, answer[r] = "200"
    PROVE  /\ r \in DOMAIN answer' /\ answer'[r] = "200" /\ file'[r] = file[r]
           /\ committed'[r] = committed[r] /\ looked'[r] = looked[r]
  <1>1. \A c \in Clients : pc[c] # "idle" =>
            request[c] # r /\ request[c] \in DOMAIN file
    BY DEF TypeInv, UnderWay
  <1>2. r \in DOMAIN file /\ DOMAIN file = 1 .. Len(file) /\ Len(file) \in Nat
    BY DEF TypeInv
  <1>3. ASSUME NEW c \in Clients, NEW f \in Files, Submit(c, f)
        PROVE  /\ r \in DOMAIN answer' /\ answer'[r] = answer[r] /\ file'[r] = file[r]
               /\ committed'[r] = committed[r] /\ looked'[r] = looked[r]
    <2>1. \E reply \in {"none", "200", "422", "500"} : answer' = Append(answer, reply)
      BY <1>3 DEF Submit
    <2>2. /\ file' = Append(file, f) /\ committed' = Append(committed, 0)
          /\ looked' = Append(looked, 0)
      BY <1>3 DEF Submit
    <2> QED
      BY <1>2, <2>1, <2>2 DEF TypeInv
  <1>4. ASSUME NEW c \in Clients, Register(c) \/ Write(c) \/ Commit(c) \/ Abort(c)
        PROVE  /\ r \in DOMAIN answer' /\ answer'[r] = answer[r] /\ file'[r] = file[r]
               /\ committed'[r] = committed[r] /\ looked'[r] = looked[r]
    <2>1. /\ file' = file /\ pc[c] # "idle"
          /\ \/ answer' = answer
             \/ \E reply \in {"200", "500"} : answer' = [answer EXCEPT ![request[c]] = reply]
          /\ \/ committed' = committed
             \/ committed' = [committed EXCEPT ![request[c]] = commits + 1]
          /\ \/ looked' = looked
             \/ looked' = [looked EXCEPT ![request[c]] = commits]
      BY <1>4 DEF Register, Write, Commit, Abort
    <2> QED
      BY <1>1, <1>2, <2>1 DEF TypeInv
  <1>5. CASE \E key \in Backfilled : Backfill(key[1], key[2])
    BY <1>5 DEF Backfill
  <1>6. CASE UNCHANGED vars
    BY <1>6 DEF vars
  <1> QED
    BY <1>3, <1>4, <1>5, <1>6, Steps

\* A request whose statement is executed waits for its commit undisturbed.
LEMMA Waiting ==
    ASSUME TypeInv, [Next]_vars, NEW c \in Clients, pc'[c] = "commit"
    PROVE  \/ Write(c)
           \/ /\ pc[c] = "commit" /\ request'[c] = request[c] /\ found'[c] = found[c]
              /\ File(c)' = File(c) /\ looked'[request[c]] = looked[request[c]]
              /\ ~Commit(c)
  <1>1. ASSUME NEW d \in Clients, NEW f \in Files, Submit(d, f)
        PROVE  /\ pc[c] = "commit" /\ request'[c] = request[c] /\ found'[c] = found[c]
               /\ File(c)' = File(c) /\ looked'[request[c]] = looked[request[c]]
    <2>1. /\ file' = Append(file, f) /\ looked' = Append(looked, 0) /\ found' = found
          /\ \E at \in {"register", "idle"} : pc' = [pc EXCEPT ![d] = at]
          /\ request' = [request EXCEPT ![d] = Len(file) + 1]
      BY <1>1 DEF Submit
    <2>2. c # d /\ pc[c] = "commit" /\ request'[c] = request[c]
      BY <2>1 DEF TypeInv
    <2>3. request[c] \in 1 .. Len(file)
      BY <2>2 DEF TypeInv, UnderWay
    <2> QED
      BY <2>1, <2>2, <2>3 DEF TypeInv, File
  <1>2. ASSUME NEW d \in Clients, Register(d) \/ Commit(d) \/ Abort(d) \/ (Write(d) /\ d # c)
        PROVE  /\ pc[c] = "commit" /\ request'[c] = request[c] /\ found'[c] = found[c]
               /\ File(c)' = File(c) /\ looked'[request[c]] = looked[request[c]]
    <2>1. /\ file' = file /\ request' = request /\ pc[d] # "idle"
          /\ \E at \in {"write", "commit", "idle"} : pc' = [pc EXCEPT ![d] = at]
          /\ d = c => pc'[d] # "commit"
      BY <1>2 DEF Register, Write, Commit, Abort, TypeInv
    <2>2. c # d /\ pc[c] = "commit"
      BY <2>1 DEF TypeInv
    <2>3. found'[c] = found[c]
      BY <1>2, <2>2 DEF Register, Write, Commit, Abort, TypeInv
    <2>4. looked'[request[c]] = looked[request[c]]
      <3>1. request[c] # request[d] /\ request[c] \in 1 .. Len(file)
        BY <2>1, <2>2 DEF TypeInv, UnderWay
      <3>2. looked' = looked \/ looked' = [looked EXCEPT ![request[d]] = commits]
        BY <1>2 DEF Register, Write, Commit, Abort
      <3> QED
        BY <3>1, <3>2 DEF TypeInv
    <2> QED
      BY <2>1, <2>2, <2>3, <2>4 DEF File
  <1>3. ~Commit(c)
    BY DEF Commit, TypeInv
  <1>4. CASE \E key \in Backfilled : Backfill(key[1], key[2])
    BY <1>3, <1>4 DEF Backfill, File
  <1>5. CASE UNCHANGED vars
    BY <1>3, <1>5 DEF vars, File
  <1> QED
    BY <1>1, <1>2, <1>3, <1>4, <1>5, Steps

-------------------------------------------------------------------------------
(* Answered rows                                                           *)

\* Keys that were found stay in their calendar.
LEMMA FoundStep == TypeInv /\ FoundIsStored /\ [Next]_vars => FoundIsStored'
  <1> SUFFICES ASSUME TypeInv, FoundIsStored, [Next]_vars,
                      NEW c \in Clients, pc'[c] = "commit",
                      File(c)'.dataset \in Calendars, NEW k \in found'[c]
               PROVE  \E row \in tables'[File(c)'.dataset] : row.key = k
    BY DEF FoundIsStored
  <1>1. CASE Write(c)
    <2>1. /\ UNCHANGED <<tables, file, request>> /\ File(c)' = File(c)
          /\ found' = [found EXCEPT ![c] = {e \in KeysOf(File(c)) :
                          \E row \in tables[File(c).dataset] : row.key = e}]
      BY <1>1 DEF Write, File, database
    <2> QED
      BY <2>1 DEF TypeInv
  <1>2. CASE ~Write(c)
    <2>1. pc[c] = "commit" /\ found'[c] = found[c] /\ File(c)' = File(c)
      BY <1>2, Waiting
    <2>2. PICK old \in tables[File(c).dataset] : old.key = k
      BY <2>1 DEF FoundIsStored
    <2>3. File(c).dataset \in Datasets
      BY <2>1, FileType
    <2>4. \E row \in tables'[File(c).dataset] : row.key = old.key
      BY <2>3, RowsPersist
    <2> QED
      BY <2>1, <2>2, <2>4
  <1> QED
    BY <1>1, <1>2

\* What was answered stays stored, and a commit stores what it answers.
LEMMA AnsweredStep ==
    TypeInv /\ FoundIsStored /\ AnsweredRowsAreStored /\ [Next]_vars
        => AnsweredRowsAreStored'
  <1> SUFFICES ASSUME TypeInv, FoundIsStored, AnsweredRowsAreStored, [Next]_vars,
                      NEW r \in DOMAIN answer', answer'[r] = "200",
                      NEW k \in KeysOf(file'[r])
               PROVE  \E row \in tables'[file'[r].dataset] :
                          row.key = k /\ row.by >= committed'[r]
    BY DEF AnsweredRowsAreStored
  <1>1. CASE r \in DOMAIN answer /\ answer[r] = "200"
    <2>1. file'[r] = file[r] /\ committed'[r] = committed[r]
      BY <1>1, Settled
    <2>2. PICK old \in tables[file[r].dataset] : old.key = k /\ old.by >= committed[r]
      BY <1>1, <2>1 DEF AnsweredRowsAreStored
    <2>3. file[r].dataset \in Datasets /\ committed[r] \in Nat
      BY <1>1, ConstantsAssumption DEF TypeInv
    <2>4. PICK row \in tables'[file[r].dataset] : row.key = old.key /\ row.by >= old.by
      BY <2>3, RowsPersist
    <2>5. row.by \in Nat /\ old.by \in Nat
      <3>1. \A d \in Datasets : tables[d] \subseteq Row /\ tables'[d] \subseteq Row
        BY TypeStep DEF TypeInv
      <3>2. row \in Row /\ old \in Row
        BY <2>3, <3>1
      <3> QED
        BY <3>2 DEF Row
    <2> QED
      BY <2>1, <2>2, <2>3, <2>4, <2>5
  <1>2. CASE \E c \in Clients : Commit(c) /\ r = request[c]
    <2>1. PICK c \in Clients : Commit(c) /\ r = request[c]
      BY <1>2
    <2>2. file' = file /\ committed'[r] = commits + 1 /\ File(c) = file[r]
      <3>1. /\ pc[c] # "idle" /\ file' = file
            /\ committed' = [committed EXCEPT ![request[c]] = commits + 1]
        BY <2>1 DEF Commit
      <3> QED
        BY <2>1, <3>1 DEF TypeInv, UnderWay, File
    <2>3. \E row \in tables'[File(c).dataset] : row.key = k /\ row.by = commits + 1
      BY <2>1, <2>2, CommittedRows
    <2> QED
      BY <2>2, <2>3 DEF TypeInv
  <1>3. \/ r \in DOMAIN answer /\ answer[r] = "200"
        \/ \E c \in Clients : Commit(c) /\ r = request[c]
    <2>1. ASSUME NEW c \in Clients, Register(c) \/ Write(c)
          PROVE  answer' = answer
      BY <2>1 DEF Register, Write
    <2>2. ASSUME NEW c \in Clients, Commit(c) \/ Abort(c)
          PROVE  \/ r \in DOMAIN answer /\ answer[r] = "200"
                 \/ Commit(c) /\ r = request[c]
      BY <2>2 DEF Commit, Abort, TypeInv
    <2>3. ASSUME NEW c \in Clients, NEW f \in Files, Submit(c, f)
          PROVE  r \in DOMAIN answer /\ answer[r] = "200"
      <3>1. \E reply \in {"none", "422", "500"} : answer' = Append(answer, reply)
        BY <2>3 DEF Submit
      <3> QED
        BY <3>1 DEF TypeInv
    <2>4. ASSUME NEW key \in Backfilled, Backfill(key[1], key[2])
          PROVE  answer' = answer
      BY <2>4 DEF Backfill
    <2>5. CASE UNCHANGED vars
      BY <2>5 DEF vars
    <2> QED
      BY <2>1, <2>2, <2>3, <2>4, <2>5, Steps
  <1> QED
    BY <1>1, <1>2, <1>3

\* Every variable starts in its type, and nothing is answered yet.
LEMMA InitTypes == Init => TypeInv /\ FoundIsStored /\ AnsweredRowsAreStored
  BY DEF Init, TypeInv, UnderWay, Dated, FoundIsStored, AnsweredRowsAreStored

\* So they hold always, and what a request found in a calendar is there.
LEMMA Types == Spec => [](TypeInv /\ FoundIsStored)
  BY InitTypes, TypeStep, FoundStep, PTL DEF Spec

\* AnsweredRowsAreStored: an answer of 200 means that every accepted line of the file
\* is in its table, written by its import or later.
THEOREM Answered == Spec => []AnsweredRowsAreStored
  BY InitTypes, Types, AnsweredStep, PTL DEF Spec

-------------------------------------------------------------------------------
(* The calendars                                                           *)

\* How a row of a calendar after a step came about: it was there, with its key and
\* its id, or the step commits a request that had looked for its key in vain.
LEMMA CalendarRows ==
    ASSUME TypeInv, FoundIsStored, [Next]_vars, NEW d \in Calendars \cap Datasets,
           NEW row \in tables'[d]
    PROVE  \/ \E old \in tables[d] : row.key = old.key /\ row.id = old.id
           \/ \E c \in Clients :
                 /\ Commit(c) /\ d = File(c).dataset
                 /\ row.key \in KeysOf(File(c)) \ found[c] /\ row.id[1] = request[c]
  <1>1. CASE tables'[d] = tables[d]
    BY <1>1
  <1>2. ASSUME NEW c \in Clients, Commit(c), d = File(c).dataset
        PROVE  \/ \E old \in tables[d] : row.key = old.key /\ row.id = old.id
               \/ row.key \in KeysOf(File(c)) \ found[c] /\ row.id[1] = request[c]
    <2>1. row \in Merged(c, tables[File(c).dataset], commits + 1) /\ pc[c] = "commit"
      BY <1>2 DEF Commit, TypeInv
    <2>2. commits + 1 \in Nat
      BY DEF TypeInv
    <2> QED
      BY <1>2, <2>1, <2>2, MergedRows
  <1>3. ASSUME NEW c \in Clients, Commit(c), d # File(c).dataset
        PROVE  tables'[d] = tables[d]
    BY <1>3, CommittedRows
  <1>4. ASSUME NEW key \in Backfilled, Backfill(key[1], key[2])
        PROVE  tables'[d] = tables[d]
    BY <1>4, BackfilledRows
  <1> QED
    BY <1>1, <1>2, <1>3, <1>4, Steps DEF Register, Write, Abort, Submit, vars, database

\* What a commit records of its request.
LEMMA CommitRecord ==
    ASSUME TypeInv, NEW c \in Clients, Commit(c)
    PROVE  /\ request[c] \in DOMAIN answer' /\ answer'[request[c]] = "200"
           /\ committed'[request[c]] = commits + 1 /\ looked' = looked
           /\ request[c] \in DOMAIN answer /\ answer[request[c]] = "none"
  <1>1. /\ pc[c] # "idle" /\ looked' = looked
        /\ answer' = [answer EXCEPT ![request[c]] = "200"]
        /\ committed' = [committed EXCEPT ![request[c]] = commits + 1]
    BY DEF Commit
  <1>2. request[c] \in 1 .. Len(file)
    BY <1>1 DEF TypeInv, UnderWay
  <1> QED
    BY <1>1, <1>2 DEF TypeInv, UnderWay

\* Every row of a calendar names the request that committed it.
LEMMA OriginStep == TypeInv /\ FoundIsStored /\ Origin /\ [Next]_vars => Origin'
  <1> SUFFICES ASSUME TypeInv, FoundIsStored, Origin, [Next]_vars,
                      NEW d \in Calendars \cap Datasets, NEW row \in tables'[d]
               PROVE  row.id[1] \in DOMAIN answer' /\ answer'[row.id[1]] = "200"
    BY DEF Origin
  <1>1. CASE \E old \in tables[d] : row.id = old.id
    BY <1>1, Settled DEF Origin
  <1>2. CASE \E c \in Clients : Commit(c) /\ row.id[1] = request[c]
    BY <1>2, CommitRecord
  <1> QED
    BY <1>1, <1>2, CalendarRows

\* A key that was not found has only rows that were committed after the look.
LEMMA UnseenStep ==
    TypeInv /\ FoundIsStored /\ Origin /\ Unseen /\ [Next]_vars => Unseen'
  <1> SUFFICES ASSUME TypeInv, FoundIsStored, Origin, Unseen, [Next]_vars,
                      NEW c \in Clients, pc'[c] = "commit",
                      File(c)'.dataset \in Calendars,
                      NEW row \in tables'[File(c)'.dataset],
                      row.key \in KeysOf(File(c)') \ found'[c]
               PROVE  looked'[request'[c]] < committed'[row.id[1]]
    BY DEF Unseen
  <1>1. CASE Write(c)
    <2>1. /\ UNCHANGED <<tables, file, request>> /\ File(c)' = File(c)
          /\ found' = [found EXCEPT ![c] = {e \in KeysOf(File(c)) :
                          \E r \in tables[File(c).dataset] : r.key = e}]
      BY <1>1 DEF Write, File, database
    <2> QED
      BY <2>1 DEF TypeInv
  <1>2. CASE ~Write(c)
    <2>1. /\ pc[c] = "commit" /\ request'[c] = request[c] /\ found'[c] = found[c]
          /\ File(c)' = File(c) /\ looked'[request[c]] = looked[request[c]]
      BY <1>2, Waiting
    <2>2. File(c).dataset \in Calendars \cap Datasets
      BY <2>1, FileType
    <2>3. CASE \E old \in tables[File(c).dataset] : row.key = old.key /\ row.id = old.id
      <3>1. PICK old \in tables[File(c).dataset] : row.key = old.key /\ row.id = old.id
        BY <2>3
      <3>2. looked[request[c]] < committed[old.id[1]]
        BY <2>1, <3>1 DEF Unseen
      <3>3. committed'[old.id[1]] = committed[old.id[1]]
        BY <2>2, Settled DEF Origin
      <3> QED
        BY <2>1, <3>1, <3>2, <3>3
    <2>4. CASE \E d \in Clients : Commit(d) /\ row.id[1] = request[d]
      <3>1. committed'[row.id[1]] = commits + 1
        BY <2>4, CommitRecord
      <3>2. request[c] \in DOMAIN file /\ looked[request[c]] \in Nat
        BY <2>1 DEF TypeInv, UnderWay
      <3>3. looked[request[c]] <= commits /\ commits \in Nat
        BY <3>2 DEF TypeInv, Dated
      <3> QED
        BY <2>1, <3>1, <3>2, <3>3
    <2> QED
      BY <2>1, <2>2, <2>3, <2>4, CalendarRows
  <1> QED
    BY <1>1, <1>2

\* Two rows of one key, one of them of the request that is committed.
LEMMA NewBesideOld ==
    ASSUME TypeInv, Origin, Unseen, NEW c \in Clients, Commit(c),
           NEW d \in Calendars \cap Datasets, d = File(c).dataset,
           NEW key \in KeysOf(File(c)) \ found[c],
           NEW old \in tables[d], old.key = key
    PROVE  LET p == request[c]
               q == old.id[1]
           IN looked'[p] < committed'[q] /\ looked'[q] < committed'[p]
  <1> DEFINE p == request[c]
             q == old.id[1]
  <1>1. looked[p] < committed[q]
    BY DEF Unseen, Commit
  <1>2. /\ q \in DOMAIN answer /\ answer[q] = "200"
    BY DEF Origin
  <1>3. /\ committed'[p] = commits + 1 /\ looked' = looked /\ answer[p] = "none"
    BY CommitRecord
  <1>4. committed'[q] = committed[q]
    <2>1. p # q
      BY <1>2, <1>3
    <2> QED
      BY <1>2, <2>1 DEF Commit, TypeInv
  <1>5. looked[q] \in Nat /\ looked[q] <= commits /\ commits \in Nat
    <2>1. q \in DOMAIN file /\ q \in DOMAIN looked
      BY <1>2 DEF TypeInv
    <2> HIDE DEF q
    <2> QED
      BY <2>1 DEF TypeInv, Dated
  <1> QED
    BY <1>1, <1>3, <1>4, <1>5

\* What two rows of one key say of the requests that added them.
LEMMA KeyedStep ==
    TypeInv /\ FoundIsStored /\ Origin /\ Unseen /\ CalendarsAreKeyed /\ [Next]_vars
        => CalendarsAreKeyed'
  <1> SUFFICES ASSUME TypeInv, FoundIsStored, Origin, Unseen, CalendarsAreKeyed,
                      [Next]_vars, NEW d \in Calendars \cap Datasets,
                      NEW x \in tables'[d], NEW y \in tables'[d], x.key = y.key, x # y
               PROVE  \/ x.id[1] = y.id[1]
                      \/ /\ looked'[x.id[1]] < committed'[y.id[1]]
                         /\ looked'[y.id[1]] < committed'[x.id[1]]
    BY DEF CalendarsAreKeyed
  <1> DEFINE Old(row) == \E old \in tables[d] : row.key = old.key /\ row.id = old.id
             New(row) == \E c \in Clients :
                            /\ Commit(c) /\ d = File(c).dataset
                            /\ row.key \in KeysOf(File(c)) \ found[c]
                            /\ row.id[1] = request[c]
  <1>1. CASE Old(x) /\ Old(y)
    <2>1. PICK v \in tables[d] : x.key = v.key /\ x.id = v.id
      BY <1>1
    <2>2. PICK w \in tables[d] : y.key = w.key /\ y.id = w.id
      BY <1>1
    <2>3. CASE v = w
      BY <2>1, <2>2, <2>3
    <2>4. CASE v # w
      <3>1. \/ v.id[1] = w.id[1]
            \/ looked[v.id[1]] < committed[w.id[1]] /\ looked[w.id[1]] < committed[v.id[1]]
        BY <2>1, <2>2, <2>4 DEF CalendarsAreKeyed
      <3>2. \A r \in {v.id[1], w.id[1]} :
               looked'[r] = looked[r] /\ committed'[r] = committed[r]
        BY Settled DEF Origin
      <3> QED
        BY <2>1, <2>2, <3>1, <3>2
    <2> QED
      BY <2>3, <2>4
  <1>2. ASSUME NEW v \in tables'[d], NEW w \in tables'[d], v.key = w.key, New(v), Old(w)
        PROVE  /\ looked'[v.id[1]] < committed'[w.id[1]]
               /\ looked'[w.id[1]] < committed'[v.id[1]]
    <2>1. PICK c \in Clients : /\ Commit(c) /\ d = File(c).dataset
                               /\ v.key \in KeysOf(File(c)) \ found[c]
                               /\ v.id[1] = request[c]
      BY <1>2
    <2>2. PICK old \in tables[d] : w.key = old.key /\ w.id = old.id
      BY <1>2
    <2> QED
      BY <1>2, <2>1, <2>2, NewBesideOld
  <1>3. CASE New(x) /\ New(y)
    <2>1. PICK c \in Clients : Commit(c) /\ x.id[1] = request[c]
      BY <1>3
    <2>2. PICK e \in Clients : Commit(e) /\ y.id[1] = request[e]
      BY <1>3
    <2>3. c = e
      <3>1. pc[c] = "commit" /\ pc[e] = "commit" /\ pc'[e] = "idle"
        BY <2>1, <2>2 DEF Commit, TypeInv
      <3>2. pc' = [pc EXCEPT ![c] = "idle"]
        BY <2>1 DEF Commit
      <3> QED
        BY <3>1, <3>2 DEF TypeInv
    <2> QED
      BY <2>1, <2>2, <2>3
  <1>4. (Old(x) \/ New(x)) /\ (Old(y) \/ New(y))
    BY CalendarRows
  <1> HIDE DEF Old, New
  <1> QED
    BY <1>1, <1>2, <1>3, <1>4

\* CalendarsAreKeyed: two rows of one event come from one file, or from two imports
\* of which neither saw the other's commit.
THEOREM Keyed == Spec => []CalendarsAreKeyed
  <1>1. Init => Origin /\ Unseen /\ CalendarsAreKeyed
    BY DEF Init, Origin, Unseen, CalendarsAreKeyed
  <1>2. Spec => [](Origin /\ Unseen)
    BY <1>1, Types, OriginStep, UnseenStep, PTL DEF Spec
  <1> QED
    BY <1>1, <1>2, Types, KeyedStep, PTL DEF Spec
===============================================================================
