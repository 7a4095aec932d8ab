------------------------------ MODULE BookSpec ------------------------------
(* What the engine may do to an OrderBook and what it then sees: the value *)
(* of module OrderBook, changed by one of its operations at a time.        *)
EXTENDS OrderBook

VARIABLE book

(* The engine numbers the orders it rests; the book never reads the number.*)
RestableOrders == [id : OrderIds, owner : Clients, side : Sides, price : Prices,
                   quantity : Quantities \ {0}, sequence : {0}]

BookInit == book = EmptyBook

Add == book' \in {AddOrder(book, o) : o \in RestableOrders}

Remove == book' \in {RemoveOrder(book, s) : s \in Resting(book)}

(* A fill of the order at the front of a best level.                       *)
Filled(side, p, qty) ==
    LET s == Head(book.queue[side][p])
        b == ReduceOrder(book, s, qty)
    IN  IF qty = book.order[s].quantity THEN RemoveOrder(b, s) ELSE b

FillFront(side, p) ==
    /\ IsBest(book, side, p)
    /\ book' \in {Filled(side, p, qty) :
                    qty \in 1..book.order[Head(book.queue[side][p])].quantity}

BookNext ==
    \/ Add
    \/ Remove
    \/ \E side \in Sides, p \in Prices : FillFront(side, p)

BookSpecification == BookInit /\ [][BookNext]_book
=============================================================================
