--------------------------- MODULE MCMarketFeed ---------------------------
(* Small instances of MarketFeed for TLC.                                  *)
EXTENDS MarketFeed

\* The threads inside _meta(): one for each coin, and the background poll.
Threads == Coins \cup {Poller}
=============================================================================
