----------------------------- MODULE MCJobManager -----------------------------
(* Instance of JobManager for TLC: a cooldown of two ticks. *)
EXTENDS JobManager

CONSTANTS c1, c2

\* The host was just booted, or has been up for longer than the cooldown.
MCBootClocks == {0, 2}
===============================================================================
