---------------------------- MODULE MCPriceFeed ----------------------------
(* Model checking of PriceFeed: two sessions of one ISIN, one of another.   *)
EXTENDS PriceFeed, TLC

CONSTANTS a, b, s1, s2, s3

Paths == s1 :> a @@ s2 :> a @@ s3 :> b

=============================================================================
