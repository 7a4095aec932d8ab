---------------------------- MODULE MCRiskEngine ----------------------------
(* Two clients that use the same order ids, prices of which some are off   *)
(* the tick, and a band that moves with the reference: which prices it     *)
(* admits changes with every trade.                                        *)
EXTENDS RiskEngine, TLC

CONSTANTS alice, bob

MCClients == {alice, bob}
SharedIds == alice :> {1, 2} @@ bob :> {1}
=============================================================================
