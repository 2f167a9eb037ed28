---------------------------- MODULE MCDailyStages -----------------------------
(* Instance of DailyStages for TLC. *)
EXTENDS DailyStages

MCDates == 1 .. 3

MCEndDates == {1, 3}

MCRanges == {<<1, 2>>}

Row1(name, date) == [name |-> name, date |-> date, priced |-> TRUE]

\* The composite index beside a row without a price, or under both of its names.
MCIndexes == {<<Row1("COMPOSITE", 1), [Row1("IHSG", 1) EXCEPT !.priced = FALSE],
                Row1("none", 1)>>,
              <<Row1("IHSG", 1), Row1("COMPOSITE", 1)>>}

\* No session, a row beside one without a code, a row.
MCBrokers == {<<>>, <<Row1("AK", 1), Row1("none", 1)>>, <<Row1("AK", 1)>>}
===============================================================================
