-------------------------- MODULE MCMarketDataFeed --------------------------
(* One client with three order ids: the feed does not look at owners.      *)
EXTENDS MarketDataFeed, TLC

CONSTANT alice

MCClients == {alice}
AllIds == alice :> OrderIds
=============================================================================
