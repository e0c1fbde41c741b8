---------------------------- MODULE MCRetirement ----------------------------
(* Model checking of Retirement.                                           *)
EXTENDS Retirement
=============================================================================
