--------------------------- MODULE MCMarketTests ---------------------------
(* Finite values for the constants of MarketTests. *)
EXTENDS MarketTests

\* One name both REST tests use, and one of each.
SomeSpotApis == <<"ping", "klines">>
SomeFuturesApis == <<"ping", "kline">>

=============================================================================
