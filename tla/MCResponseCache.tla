--------------------------- MODULE MCResponseCache ---------------------------
(* Instances of ResponseCache for TLC: two threads, two dates.              *)
EXTENDS ResponseCache

TwoDates == 1..2
===============================================================================
