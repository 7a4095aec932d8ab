--------------------------- MODULE OrderLifecycle ---------------------------
(* What the engine promises each client about an order, whatever else is   *)
(* in the book: an order is opened once, its open quantity only shrinks by *)
(* trades with an open order of the other side at a price both accept, and *)
(* it is closed by its last fill, by a cancel, or, a market order, when    *)
(* the book has nothing left for it.                                       *)
EXTENDS Integers

CONSTANTS Keys,      \* who and which: pairs of a client and an order id
          OpenOrder, \* [side, limit, quantity] records
          Closed, NoLimit

VARIABLES open,   \* key -> what is open of the order, or Closed
          used    \* the keys that can no longer be opened

lifecycleVars == <<open, used>>

LifecycleInit ==
    /\ open = [k \in Keys |-> Closed]
    /\ used = {}

(* The actions relate before, the value of open, and after, its next value. *)
Open(k, before, after) ==
    /\ k \notin used
    /\ before[k] = Closed
    /\ after[k] \in OpenOrder /\ after[k].quantity > 0
    /\ after = [before EXCEPT ![k] = after[k]]
    /\ used \union {k} \subseteq used'

Reduced(o, qty) ==
    IF o.quantity = qty THEN Closed ELSE [o EXCEPT !.quantity = @ - qty]

Accepts(o, price) ==
    o.limit # NoLimit => IF o.side = "Buy" THEN price <= o.limit ELSE price >= o.limit

TradeBetween(b, s, before, after) ==
    /\ before[b] # Closed /\ before[b].side = "Buy"
    /\ before[s] # Closed /\ before[s].side = "Sell"
    /\ \E price \in {before[b].limit, before[s].limit} \ {NoLimit} :
          Accepts(before[b], price) /\ Accepts(before[s], price)
    /\ \E qty \in 1..before[b].quantity :
          /\ qty <= before[s].quantity
          /\ after = [before EXCEPT ![b] = Reduced(@, qty), ![s] = Reduced(@, qty)]
    /\ UNCHANGED used

Close(k, before, after) ==
    /\ before[k] # Closed
    /\ after = [before EXCEPT ![k] = Closed]
    /\ UNCHANGED used

Step(before, after) ==
    \/ \E k \in Keys : Open(k, before, after) \/ Close(k, before, after)
    \/ \E b, s \in Keys : TradeBetween(b, s, before, after)

LifecycleNext == Step(open, open')

LifecycleSpec == LifecycleInit /\ [][LifecycleNext]_lifecycleVars
=============================================================================
