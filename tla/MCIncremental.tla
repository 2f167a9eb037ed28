----------------------------- MODULE MCIncremental -----------------------------
(* Instance of IncrementalUpdate for TLC. *)
EXTENDS IncrementalUpdate, TLC

CONSTANTS a, b

MCDates == 1 .. 4

\* Both symbols trade every day, or one of them is suspended for a day.
MCHistories == {(a :> 1 .. 4) @@ (b :> 1 .. 4), (a :> 1 .. 4) @@ (b :> {1, 3})}

MCListings == {(a :> 1) @@ (b :> 2), (a :> 1) @@ (b :> 0)}

MCEndDates == {3, 4}
===============================================================================
