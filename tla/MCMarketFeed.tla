---------------------------- MODULE MCMarketFeed ----------------------------
(* Model-checking instances of MarketFeed. *)
EXTENDS MarketFeed

CONSTANTS i1, i2

One == {i1}
Two == {i1, i2}
=============================================================================
