----------------------------- MODULE MCGateways -----------------------------
(* Two clients that share an id (the command line has client 0 alone).     *)
(* Ids with two different bytes, a negative price and quantities from zero *)
(* to one more than the fat-finger limit travel over every wire.  One of   *)
(* the FIX cancels of order 10 has checksum 000.                           *)
EXTENDS Gateways

Negative == {-2}

OwnIds == [c \in Clients |-> IF c = 0 THEN {10, 18} ELSE {10}]

Asked ==
    [c \in Clients |->
       {LimitOrder(id, side, price, quantity) :
          id \in OwnIds[c], side \in Sides, price \in Prices, quantity \in {1, 2}}
       \union {MarketOrder(id, side, quantity) :
                 id \in OwnIds[c], side \in Sides, quantity \in {1, 2}}
       \union {CancelRequest(id) : id \in OrderIds}
       \union {LimitOrder(18, "Buy", -2, 1), LimitOrder(18, "Sell", 1, 0),
               LimitOrder(18, "Buy", 2, 3), MarketOrder(18, "Sell", 0)}]

SpoiledCommands ==
    {LimitOrder(18, "Sell", 2, 1), MarketOrder(18, "Buy", 2), CancelRequest(10)}
=============================================================================
