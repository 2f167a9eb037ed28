--------------------------- MODULE PublicationBoard ---------------------------
(***************************************************************************)
(* What the pipelines that load one date after the other promise: every    *)
(* publication of IDX reaches the cells it writes, in all tables, in one   *)
(* atomic step, or none of them.  DateTables implements this.              *)
(***************************************************************************)
CONSTANTS Cells,         \* the primary keys of the tables
          Publications,  \* what IDX may publish for a date
          Written,       \* the cells each publication writes
          None           \* a row that does not exist

VARIABLE board  \* the publication each row comes from

Init == board = [x \in Cells |-> None]

Store(p) == board' = [x \in Cells |-> IF x \in Written[p] THEN p ELSE board[x]]

Next == \E p \in Publications : Store(p)

Spec == Init /\ [][Next]_board
===============================================================================
