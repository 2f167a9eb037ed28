---------------------------- MODULE MCBulkBackfill ----------------------------
(* Instance of BulkBackfill for TLC. *)
EXTENDS BulkBackfill, TLC

CONSTANTS a, b, w1

MCTwoDates == 1 .. 2

MCShortRange == {<<1, 2>>}

\* Every symbol or one: a filtered run must leave the other symbol alone.
MCRequests == {{a, b}, {b}}

MixedDay == (a :> "good") @@ (b :> "quarantined")

ThinDay == (a :> "no_trade") @@ (b :> "no_flow")

MCPayloads == {EmptyPayload, MixedDay, ThinDay}
===============================================================================
