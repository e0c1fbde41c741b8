--------------------------- MODULE MCUserWsState ---------------------------
(* Model checking of UserWsState with small counters.                      *)
EXTENDS UserWsState
=============================================================================
