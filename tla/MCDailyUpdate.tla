---------------------------- MODULE MCDailyUpdate -----------------------------
(* Instance of DailyUpdate for TLC. *)
EXTENDS DailyUpdate, TLC

CONSTANTS a, w1

MCDates == 1 .. 5

\* The initial load: one day.
MCRanges == {<<1, 1>>}

MCEndDates == {4, 5}

MCRequests == {{a}}

\* A trading day or a closed exchange.
MCPayloads == {EmptyPayload, (a :> "good")}
===============================================================================
