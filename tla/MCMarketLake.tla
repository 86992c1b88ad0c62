---------------------------- MODULE MCMarketLake ----------------------------
(* An instance of MarketLake: two symbols tell a merge from a replacement. *)
EXTENDS MarketLake

CONSTANTS t1, t2, x1, r1, s1, s2
=============================================================================
