----------------------------- MODULE OrderBook -----------------------------
(* The resting orders (orderbook/order_book.cpp with price_level.cpp and   *)
(* order_pool.cpp) as a value and the operations on it.  A book is a record*)
(*   order  pool slot -> the order it holds, NoOrder when the slot is free *)
(*   queue  side -> price -> the slots of the level, oldest first; a level *)
(*          that is not in the price tree is an empty queue                *)
(*   total  side -> price -> the level's cached total_qty_                 *)
(*   index  order id -> slot (orders_), NoSlot when there is no entry      *)
(*   free   the pool's free list, next slot to be handed out first         *)
(* IntrusiveBook shows that the linked lists and the free list threaded    *)
(* through the slots implement these sequences.                            *)
EXTENDS Integers, Sequences

CONSTANTS Clients,    \* client ids stamped on orders by the gateway
          OrderIds,   \* order ids the clients use
          Prices,     \* prices a resting order can have, in ticks
          Quantities, \* quantities a client can ask for
          PoolCapacity,
          NoSlot, NoOrder

ASSUME IdsAssumption == OrderIds \subseteq Nat
ASSUME PricesAssumption ==   \* a Price has 64 bits, so there is a highest one
    Prices \subseteq Nat \ {0} /\ \E m \in Prices : \A p \in Prices : p <= m
ASSUME QuantitiesAssumption == Quantities \subseteq Nat
ASSUME PoolAssumption == PoolCapacity \in Nat
ASSUME NoSlotAssumption == NoSlot \notin Int

Sides == {"Buy", "Sell"}

Opposite(side) == IF side = "Buy" THEN "Sell" ELSE "Buy"

Slots == 0..(PoolCapacity - 1)

(* What a slot holds; quantity is what is left of the order.               *)
Orders == [id : OrderIds, owner : Clients, side : Sides, price : Prices,
           quantity : Nat, sequence : Nat]

ASSUME NoOrderAssumption == NoOrder \notin Orders

Books == [order : [Slots -> Orders \union {NoOrder}],
          queue : [Sides -> [Prices -> Seq(Slots)]],
          total : [Sides -> [Prices -> Int]],
          index : [OrderIds -> Slots \union {NoSlot}],
          free  : Seq(Slots)]

EmptyBook ==
    [order |-> [s \in Slots |-> NoOrder],
     queue |-> [side \in Sides |-> [p \in Prices |-> <<>>]],
     total |-> [side \in Sides |-> [p \in Prices |-> 0]],
     index |-> [id \in OrderIds |-> NoSlot],
     free  |-> [i \in 1..PoolCapacity |-> i - 1]]

(* The queue q with the node of slot s unlinked (PriceLevel::remove).      *)
Without(q, s) ==
    LET i == CHOOSE i \in DOMAIN q : q[i] = s
    IN  [j \in 1..(Len(q) - 1) |-> IF j < i THEN q[j] ELSE q[j + 1]]

(* Mutated forms of the operations below; nothing uses them.               *)
AddOrderAtFront(b, o) ==
    LET s == Head(b.free)
    IN  [b EXCEPT !.order[s] = o, !.index[o.id] = s, !.free = Tail(@),
                  !.queue[o.side][o.price] = <<s>> \o @,
                  !.total[o.side][o.price] = @ + o.quantity]
AddOrderUnindexed(b, o) ==
    LET s == Head(b.free)
    IN  [b EXCEPT !.order[s] = o, !.free = Tail(@),
                  !.queue[o.side][o.price] = Append(@, s),
                  !.total[o.side][o.price] = @ + o.quantity]
RemoveOrderLeaksSlot(b, s) ==
    LET o == b.order[s]
    IN  [b EXCEPT !.order[s] = NoOrder, !.index[o.id] = NoSlot,
                  !.queue[o.side][o.price] = Without(@, s),
                  !.total[o.side][o.price] = @ - o.quantity]
RemoveOrderKeepsIndex(b, s) ==
    LET o == b.order[s]
    IN  [b EXCEPT !.order[s] = NoOrder, !.free = <<s>> \o @,
                  !.queue[o.side][o.price] = Without(@, s),
                  !.total[o.side][o.price] = @ - o.quantity]
ReduceOrderOnly(b, s, qty) == [b EXCEPT !.order[s].quantity = @ - qty]

(* f with the entry of the level o belongs to replaced.                    *)
SetLevel(f, o, v) == [f EXCEPT ![o.side][o.price] = v]

(* add_order: does nothing when the pool is exhausted.  emplace keeps the  *)
(* entry that is already there for the id.                                 *)
AddOrder(b, o) ==
    IF b.free = <<>> THEN b
    ELSE LET s == Head(b.free)
         IN  [order |-> [b.order EXCEPT ![s] = o],
              queue |-> SetLevel(b.queue, o, Append(b.queue[o.side][o.price], s)),
              total |-> SetLevel(b.total, o, b.total[o.side][o.price] + o.quantity),
              index |-> [b.index EXCEPT ![o.id] = IF @ = NoSlot THEN s ELSE @],
              free  |-> Tail(b.free)]

(* remove_order: erases the index entry of the order's id, whichever order *)
(* it leads to, and puts the slot at the front of the free list.           *)
RemoveOrder(b, s) ==
    LET o == b.order[s]
    IN  [order |-> [b.order EXCEPT ![s] = NoOrder],
         queue |-> SetLevel(b.queue, o, Without(b.queue[o.side][o.price], s)),
         total |-> SetLevel(b.total, o, b.total[o.side][o.price] - o.quantity),
         index |-> [b.index EXCEPT ![o.id] = NoSlot],
         free  |-> <<s>> \o b.free]

Reduced(o, qty) == [o EXCEPT !.quantity = @ - qty]

(* What a fill does to the resting order and to its level's total.         *)
ReduceOrder(b, s, qty) ==
    LET o == b.order[s]
    IN  [order |-> [b.order EXCEPT ![s] = Reduced(o, qty)],
         queue |-> b.queue,
         total |-> SetLevel(b.total, o, b.total[o.side][o.price] - qty),
         index |-> b.index,
         free  |-> b.free]

FindOrder(b, id) == b.index[id]

Levels(b, side) == {p \in Prices : b.queue[side][p] # <<>>}

(* p is the price of best_bid() or best_ask(): the begin() of the side's   *)
(* price tree.                                                             *)
IsBest(b, side, p) ==
    /\ p \in Levels(b, side)
    /\ \A q \in Levels(b, side) : IF side = "Buy" THEN p >= q ELSE p <= q

Resting(b) == {s \in Slots : b.order[s] # NoOrder}

-----------------------------------------------------------------------------
(* Slot s holds an order of that side and price.                           *)
RestsAt(b, s, side, p) ==
    s \in Resting(b) /\ b.order[s].side = side /\ b.order[s].price = p

(* What the parts of a book say of each other.                             *)

(* A level holds resting orders of its own side and price.                 *)
QueuedAtOwnLevel(b) ==
    \A side \in Sides, p \in Prices :
        \A i \in DOMAIN b.queue[side][p] : RestsAt(b, b.queue[side][p][i], side, p)

(* No order is in its level twice.                                         *)
QueuedOnce(b) ==
    \A side \in Sides, p \in Prices :
        \A i, j \in DOMAIN b.queue[side][p] :
            b.queue[side][p][i] = b.queue[side][p][j] => i = j

(* Every resting order is in its level.                                    *)
RestingIsQueued(b) ==
    \A s \in Resting(b) :
        \E i \in DOMAIN b.queue[b.order[s].side][b.order[s].price] :
            b.queue[b.order[s].side][b.order[s].price][i] = s

(* The free list holds the slots that hold no order, each of them once.    *)
FreeIsTheRest(b) ==
    /\ \A s \in Slots : s \in Resting(b) <=> \A i \in DOMAIN b.free : b.free[i] # s
    /\ \A i, j \in DOMAIN b.free : b.free[i] = b.free[j] => i = j

SlotsAccounted(b) ==
    QueuedAtOwnLevel(b) /\ QueuedOnce(b) /\ RestingIsQueued(b) /\ FreeIsTheRest(b)

(* A level's orders are queued as they came to rest.                       *)
InArrivalOrder(b) ==
    \A side \in Sides, p \in Prices :
        \A i, j \in DOMAIN b.queue[side][p] :
            i < j => b.order[b.queue[side][p][i]].sequence
                       < b.order[b.queue[side][p][j]].sequence

(* An index entry leads to a resting order with the entry's id.            *)
IndexLeadsHome(b) ==
    \A id \in OrderIds :
        b.index[id] # NoSlot =>
            b.index[id] \in Resting(b) /\ b.order[b.index[id]].id = id

(* No two resting orders could trade with each other.                      *)
Uncrossed(b) ==
    \A x, y \in Resting(b) :
        b.order[x].side = "Buy" /\ b.order[y].side = "Sell"
          => b.order[x].price < b.order[y].price
=============================================================================
