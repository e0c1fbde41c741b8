----------------------- MODULE MCMarketSubscriptions -----------------------
(* Model checking of MarketSubscriptions with two callers.                 *)
EXTENDS MarketSubscriptions
=============================================================================
