-------------------------- MODULE MCUserWsSession --------------------------
(* Model checking of UserWsSession with small counters and one slot.       *)
EXTENDS UserWsSession
=============================================================================
