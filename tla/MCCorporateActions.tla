-------------------------- MODULE MCCorporateActions --------------------------
(* Instances of CorporateActions for TLC. *)
EXTENDS CorporateActions, TLC

MCDates == 1 .. 3

Split(s, date, id, ratio) ==
    [symbol |-> s, date |-> date, type |-> "split", id |-> id, ratio |-> ratio]

Rights(s) == [symbol |-> s, date |-> 2, type |-> "rights", id |-> 0, ratio |-> 3]

\* Two splits beside a rights issue; a ratio that is withdrawn, and an id that
\* comes twice; an action of a symbol that is not registered.
MCPayloads == {<<Split("BBCA", 2, 1, 2), Split("BBCA", 3, 2, 5), Rights("BBCA")>>,
               <<Split("BBCA", 2, 1, 0), Split("BBCA", 2, 1, 2)>>,
               <<Split("XXXX", 2, 1, 2)>>}
===============================================================================
