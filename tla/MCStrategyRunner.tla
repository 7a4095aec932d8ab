-------------------------- MODULE MCStrategyRunner --------------------------
(* Sessions of a few ticks under many configurations: quotes smaller than, *)
(* equal to and larger than the orders that hit them, references that      *)
(* stand still or turn round at their bound, windows of no, one and        *)
(* several trades; some sessions share the engine with another client.     *)
EXTENDS StrategyRunner

Around == 990..1010
RunnerIds == 1..180
AnyIds == [c \in Clients |-> OrderIds]

RunnerConfigs ==
    [mm : {TRUE}, mom : {TRUE}, spread : {1, 2}, drift : {0, 3}, quote : {1, 3},
     lookback : 0..3, order : {1, 2}, threshold : {0, 2}, every : {1, 2},
     probe : {1, 2}, others : {0}]
    \union
    [mm : {TRUE}, mom : {FALSE}, spread : {1}, drift : {0, 3}, quote : {1, 3},
     lookback : {0}, order : {1}, threshold : {0}, every : {0}, probe : {1}, others : {0, 2}]
    \union
    [mm : {FALSE}, mom : {TRUE}, spread : {1}, drift : {0}, quote : {1},
     lookback : {2}, order : {1}, threshold : {0}, every : {0, 1}, probe : {1}, others : {0, 2}]
    \union
    [mm : {TRUE}, mom : {TRUE}, spread : {1}, drift : {3}, quote : {3},
     lookback : {2}, order : {2}, threshold : {0}, every : {2}, probe : {1}, others : {2}]

AtPrices == [side : Sides, limit : {999, 1001, 1003}, quantity : {1, 3}]
Refused == {[side |-> "Buy", limit |-> 1, quantity |-> 1],
            [side |-> "Buy", limit |-> 1001, quantity |-> 0]}
OthersOrders == AtPrices \union Refused
=============================================================================
