------------------------------ MODULE MCApiClient ------------------------------
(* Instance of ApiClient for TLC. *)
EXTENDS ApiClient

CONSTANTS c1, c2
===============================================================================
