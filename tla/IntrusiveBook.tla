--------------------------- MODULE IntrusiveBook ---------------------------
(* OrderBook as it lies in memory (orderbook/order_book.cpp,               *)
(* price_level.cpp, order_pool.cpp): pool slots that hold an order with    *)
(* its list pointers while it rests and a free-list link in the same bytes *)
(* while it does not, price levels that hold the ends of their list, and   *)
(* the id index.  A pointer to an order is its slot, a pointer to a level  *)
(* its side and price.                                                     *)
EXTENDS OrderBook

CONSTANTS Null,     \* nullptr
          NoData,   \* memory of a slot that never held an order
          NoLevel   \* the price is not in the tree of the side

ASSUME NullAssumption == Null \notin Int
ASSUME NoDataAssumption == NoData \notin Orders
ASSUME NoLevelAssumption == NoLevel \notin [head : Slots, tail : Slots, total : Int]

VARIABLE heap
(* mem         slot -> [word, order, prev, next, level]; word is the first *)
(*             word of the slot: Order::id, or the index of the next free  *)
(*             slot (PoolCapacity ends the list)                           *)
(* level       side -> price -> PriceLevel [head, tail, total], or NoLevel *)
(* orders      the id index                                                *)
(* freeHead, freeCount, orderCount                                         *)

Sentinel == PoolCapacity

Init ==
    heap = [mem |-> [s \in Slots |-> [word |-> s + 1, order |-> NoData,
                                      prev |-> Null, next |-> Null, level |-> Null]],
            level |-> [side \in Sides |-> [p \in Prices |-> NoLevel]],
            orders |-> [id \in OrderIds |-> Null],
            freeHead |-> 0, freeCount |-> PoolCapacity, orderCount |-> 0]

-----------------------------------------------------------------------------
(* OrderPool.                                                              *)

Acquire(h) ==
    [h EXCEPT !.freeHead = h.mem[h.freeHead].word, !.freeCount = @ - 1]

(* Mutated form: the count is not kept.                                    *)
ReleaseUncounted(h, s) ==
    [h EXCEPT !.mem[s].word = h.freeHead, !.mem[s].order = NoData, !.freeHead = s]

(* The link goes over the first word; the rest of the slot is not to be    *)
(* read any more, and is forgotten so that a read of it stops TLC.         *)
Release(h, s) ==
    [h EXCEPT !.mem[s].word = h.freeHead, !.mem[s].order = NoData, !.freeHead = s,
              !.freeCount = @ + 1]

-----------------------------------------------------------------------------
(* PriceLevel.                                                             *)

(* Mutated form: the new node does not point back.                         *)
PushBackSinglyLinked(h, side, p, s) ==
    LET l == h.level[side][p]
        g == [h EXCEPT !.mem[s].level = <<side, p>>, !.mem[s].prev = Null,
                       !.mem[s].next = Null,
                       !.level[side][p] =
                          [head |-> IF l.tail # Null THEN l.head ELSE s, tail |-> s,
                           total |-> l.total + h.mem[s].order.quantity]]
    IN  IF l.tail # Null THEN [g EXCEPT !.mem[l.tail].next = s] ELSE g

PushBack(h, side, p, s) ==
    LET l == h.level[side][p]
        g == [h EXCEPT !.mem[s].level = <<side, p>>, !.mem[s].prev = l.tail,
                       !.mem[s].next = Null,
                       !.level[side][p] =
                          [head |-> IF l.tail # Null THEN l.head ELSE s, tail |-> s,
                           total |-> l.total + h.mem[s].order.quantity]]
    IN  IF l.tail # Null THEN [g EXCEPT !.mem[l.tail].next = s] ELSE g

(* PriceLevel::remove on the level the order points to.                    *)
Unlink(h, s) ==
    LET n == h.mem[s]
        g == [h EXCEPT !.level[n.level[1]][n.level[2]] =
                          [head |-> IF n.prev # Null THEN @.head ELSE n.next,
                           tail |-> IF n.next # Null THEN @.tail ELSE n.prev,
                           total |-> @.total - n.order.quantity],
                       !.mem[s].prev = Null, !.mem[s].next = Null,
                       !.mem[s].level = Null]
        p == IF n.prev # Null THEN [g EXCEPT !.mem[n.prev].next = n.next] ELSE g
    IN  IF n.next # Null THEN [p EXCEPT !.mem[n.next].prev = n.prev] ELSE p

-----------------------------------------------------------------------------
(* OrderBook.                                                              *)

(* *slot = order_data, emplace into the index, try_emplace of the level,   *)
(* push_back.                                                              *)
Insert(h, o) ==
    LET s == h.freeHead
        g == [Acquire(h) EXCEPT
                !.mem[s].word = o.id, !.mem[s].order = o,
                !.orders[o.id] = IF @ = Null THEN s ELSE @,
                !.level[o.side][o.price] =
                    IF @ = NoLevel THEN [head |-> Null, tail |-> Null, total |-> 0] ELSE @,
                !.orderCount = @ + 1]
    IN  PushBack(g, o.side, o.price, s)

(* Mutated form: the slot is released before its id is read.               *)
EraseReleasesFirst(h, s) ==
    LET o == h.mem[s].order
        u == Unlink(h, s)
        e == IF u.level[o.side][o.price].head = Null
             THEN [u EXCEPT !.level[o.side][o.price] = NoLevel] ELSE u
        r == Release(e, s)
        w == r.mem[s].word
    IN  [r EXCEPT !.orders = [id \in OrderIds |-> IF id = w THEN Null ELSE @[id]],
                  !.orderCount = @ - 1]

(* remove_order: unlink, erase an emptied level, erase the index entry of  *)
(* the id that the slot still holds, release.                              *)
Erase(h, s) ==
    LET o == h.mem[s].order
        u == Unlink(h, s)
        e == IF u.level[o.side][o.price].head = Null
             THEN [u EXCEPT !.level[o.side][o.price] = NoLevel] ELSE u
        i == [e EXCEPT !.orders[e.mem[s].word] = Null, !.orderCount = @ - 1]
    IN  Release(i, s)

Begin(h, side) ==
    CHOOSE p \in Prices :
        /\ h.level[side][p] # NoLevel
        /\ \A q \in Prices : h.level[side][q] # NoLevel =>
                IF side = "Buy" THEN p >= q ELSE p <= q

BestExists(h, side) == \E p \in Prices : h.level[side][p] # NoLevel

(* The calls the engine makes.  An order pointer comes from find_order or  *)
(* from the front of a best level.                                         *)
AddToBook(o) ==
    heap' = IF heap.freeHead = Sentinel THEN heap ELSE Insert(heap, o)

CancelById(id) ==
    /\ heap.orders[id] # Null
    /\ heap' = Erase(heap, heap.orders[id])

RemoveFront(side) ==
    /\ BestExists(heap, side)
    /\ heap' = Erase(heap, heap.level[side][Begin(heap, side)].head)

(* resting->quantity -= qty, reduce_quantity, and remove_order of what is  *)
(* fully consumed.                                                         *)
FillBestFront(side, qty) ==
    /\ BestExists(heap, side)
    /\ LET p == Begin(heap, side)
           s == heap.level[side][p].head
           h == [heap EXCEPT !.mem[s].order.quantity = @ - qty,
                             !.level[side][p].total = @ - qty]
       IN  /\ qty <= heap.mem[s].order.quantity
           /\ heap' = IF qty = heap.mem[s].order.quantity THEN Erase(h, s) ELSE h

Restable == [id : OrderIds, owner : Clients, side : Sides, price : Prices,
             quantity : Quantities \ {0}, sequence : {0}]

Next ==
    \/ \E o \in Restable : AddToBook(o)
    \/ \E id \in OrderIds : CancelById(id)
    \/ \E side \in Sides : RemoveFront(side)
    \/ \E side \in Sides, qty \in Quantities : FillBestFront(side, qty)

Spec == Init /\ [][Next]_heap

-----------------------------------------------------------------------------
(* Properties.                                                             *)

(* The slots reached from start by following succ until stop, at most as   *)
(* many as there are.                                                      *)
Chain(start, succ, stop) ==
    LET upTo[n \in 0..PoolCapacity] ==
            IF n = 0 THEN <<>>
            ELSE LET seen == upTo[n - 1]
                     s == IF seen = <<>> THEN start ELSE succ[seen[Len(seen)]]
                 IN  IF s = stop THEN seen ELSE Append(seen, s)
    IN  upTo[PoolCapacity]

FreeList == Chain(heap.freeHead, [s \in Slots |-> heap.mem[s].word], Sentinel)

Forward(side, p) ==
    IF heap.level[side][p] = NoLevel THEN <<>>
    ELSE Chain(heap.level[side][p].head, [s \in Slots |-> heap.mem[s].next], Null)

Backward(side, p) ==
    IF heap.level[side][p] = NoLevel THEN <<>>
    ELSE Chain(heap.level[side][p].tail, [s \in Slots |-> heap.mem[s].prev], Null)

(* The lists of a level read the same in both directions, and every order  *)
(* on one points to its level: what remove_order relies on to unlink an    *)
(* order in constant time.  available() and order_count(), which           *)
(* submit_limit and the tests rely on, are the lengths of the free list    *)
(* and of the lists of the levels.                                         *)
ListsDoublyLinked ==
    /\ \A side \in Sides, p \in Prices :
         LET f == Forward(side, p)
             b == Backward(side, p)
         IN  /\ Len(f) = Len(b)
             /\ \A i \in DOMAIN f : f[i] = b[Len(f) + 1 - i]
             /\ \A i \in DOMAIN f : heap.mem[f[i]].level = <<side, p>>
    /\ heap.freeCount = Len(FreeList)
    /\ heap.orderCount = PoolCapacity - Len(FreeList)

Abstract == INSTANCE BookSpec WITH book <-
    [order |-> [s \in Slots |-> IF heap.mem[s].order = NoData THEN NoOrder
                               ELSE [heap.mem[s].order EXCEPT !.id = heap.mem[s].word]],
     queue |-> [side \in Sides |-> [p \in Prices |-> Forward(side, p)]],
     total |-> [side \in Sides |-> [p \in Prices |->
                  IF heap.level[side][p] = NoLevel THEN 0 ELSE heap.level[side][p].total]],
     index |-> [id \in OrderIds |->
                  IF heap.orders[id] = Null THEN NoSlot ELSE heap.orders[id]],
     free |-> FreeList]

(* The linked lists, the free list threaded through the slots and the      *)
(* index behave as the sequences and functions of module OrderBook, which  *)
(* is the book that the matching engine is checked on.                     *)
ImplementsBook == Abstract!BookSpecification
=============================================================================
