-------------------------- MODULE MCMatchingEngine --------------------------
(* Two clients, two prices and a small pool: enough for partial fills,     *)
(* sweeps over two levels, full pools and self-crossing orders.            *)
EXTENDS MatchingEngine, TLC

CONSTANTS alice, bob

MCClients == {alice, bob}
OwnIds == alice :> {1, 3} @@ bob :> {2, 4}
SharedIds == alice :> {1, 2} @@ bob :> {1}
=============================================================================
