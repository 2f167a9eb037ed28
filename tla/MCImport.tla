------------------------------ MODULE MCImport -------------------------------
(* Instance of DatasetImport for TLC. *)
EXTENDS DatasetImport, TLC

Line(s, d, part, price) == [symbol |-> s, date |-> d, part |-> part, price |-> price]

Upload(dataset, lines) == [dataset |-> dataset, lines |-> lines]

MCBackfilled == {<<"BBCA", 1>>}

Event(s) == Line(s, 1, "dividend", Nil)

\* Lines that are stored, rejected for each reason, repeated under a default, no
\* number; calendars with an event twice and one of the whole market.
MCFiles ==
    {Upload("foreign-flow", <<Line("BBCA", 1, Nil, Nil), Line("BBRI", 1, Nil, 7)>>),
     Upload("foreign-flow", <<Line("BBRI", 1, Nil, 7), Line(Nil, 1, Nil, 7)>>),
     Upload("order-book", <<Line("BBCA", 1, Nil, 7), Line("BBCA", 1, 1, 7)>>),
     Upload("ohlcv", <<Line("BBCA", 1, Nil, Text), Line("BBCA", Nil, Nil, 7)>>),
     Upload("ohlcv", <<Line("BBCA", 1, Nil, NaN), Line("BBRI", 1, Nil, 7)>>),
     Upload("order-book", <<Line("BBCA", 1, Nil, 7), Line("BBRI", 1, Nil, Infinite)>>),
     Upload("benchmark", <<Line(Nil, 1, Nil, 7), Line("IHSG", 1, Nil, Nil)>>),
     Upload("events", <<Event("BBCA"), Event(Nil), Event("BBCA")>>),
     Upload("events", <<Event(Nil)>>),
     Upload("news", <<Line(Nil, 1, "title", Nil), Line("BBCA", 1, Nil, Nil)>>)}
===============================================================================
