---------------------------- MODULE MCWalkForward ----------------------------
(* Instance of WalkForward for TLC.  The windows are scaled down: those of   *)
(* the averages to 1 and 2 sessions, the month and the returns to 1.         *)
EXTENDS WalkForward

FourDates == 1..4
TwoDates == {2, 3}
OneDate == {3}
ShortWindows == {1, 2}
OneWindow == {1}
===============================================================================
