------------------------------ MODULE MCSchedule ------------------------------
(* Instance of Schedule for TLC: days of three hours, a week and a half. *)
EXTENDS Schedule
===============================================================================
