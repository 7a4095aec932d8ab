------------------------------ MODULE UdpFeed ------------------------------
(* The market data feed as values: UdpFeedPublisher                        *)
(* (adapters/udp/udp_feed_publisher.cpp) turns engine events into messages *)
(* and UdpFeedBookBuilder (adapters/udp/book_builder.cpp) turns messages   *)
(* into a subscriber's view of the top of the book.  A publisher is a      *)
(* record                                                                  *)
(*   bid, ask  [price, qty, count] of the tracked best level of the side   *)
(*   next      next_sequence_                                              *)
(*   since     messages_since_snapshot_                                    *)
(*   sent      the messages handed to sendto so far, in order              *)
(* There is one symbol, as in the server.                                  *)
EXTENDS Integers, Sequences

CONSTANT SnapshotInterval

ASSUME SnapshotAssumption == SnapshotInterval \in Nat \ {0}

NoBest == [price |-> 0, qty |-> 0, count |-> 0]

NewPublisher == [bid |-> NoBest, ask |-> NoBest, next |-> 1, since |-> 0, sent |-> <<>>]

(* The TopOfBook a message carries: price 0 for no known best.             *)
Top(p) == [bidPrice |-> p.bid.price, bidQty |-> p.bid.qty,
           askPrice |-> p.ask.price, askQty |-> p.ask.qty]

(* make_header and send_to_all: the number is taken whether or not a       *)
(* subscriber's sendto succeeds.  A trade message carries no top; it has   *)
(* one here for the properties to refer to.                                *)
Send(p, type) ==
    [p EXCEPT !.next = @ + 1,
              !.sent = Append(@, [type |-> type, sequence |-> p.next, top |-> Top(p)])]

CheckSnapshotTrigger(p) ==
    IF p.since + 1 >= SnapshotInterval
    THEN [Send(p, "Snapshot") EXCEPT !.since = 0] ELSE [p EXCEPT !.since = @ + 1]

PublishTop(p) == CheckSnapshotTrigger(Send(p, "TopOfBook"))

-----------------------------------------------------------------------------
(* The events.                                                             *)

Saturating(a, b) == IF b <= a THEN a - b ELSE 0

(* qty leaves the level, and one order with it when gone.                  *)
Consumed(best, qty, gone) ==
    LET count == IF gone THEN best.count - 1 ELSE best.count
    IN  IF count = 0 THEN NoBest
        ELSE [price |-> best.price, qty |-> Saturating(best.qty, qty), count |-> count]

At(best, price) == best.price = price /\ best.count > 0

OnTrade(p, e) ==
    LET q == CheckSnapshotTrigger(Send(p, "Trade"))
    IN  IF At(q.bid, e.price)
        THEN PublishTop([q EXCEPT !.bid = Consumed(@, e.quantity, e.removed)])
        ELSE IF At(q.ask, e.price)
        THEN PublishTop([q EXCEPT !.ask = Consumed(@, e.quantity, e.removed)])
        ELSE q

Better(side, price, best) ==
    \/ best.count = 0
    \/ IF side = "Buy" THEN price > best.price ELSE price < best.price

(* An order that crosses the tracked best of the other side is taken to    *)
(* match in full and not to rest.                                          *)
OnOrderAccepted(p, e) ==
    LET own == IF e.side = "Buy" THEN p.bid ELSE p.ask
        other == IF e.side = "Buy" THEN p.ask ELSE p.bid
        crosses == /\ other.count > 0
                   /\ IF e.side = "Buy" THEN e.price >= other.price ELSE e.price <= other.price
        new == IF Better(e.side, e.price, own)
               THEN [price |-> e.price, qty |-> e.quantity, count |-> 1]
               ELSE [own EXCEPT !.qty = @ + e.quantity, !.count = @ + 1]
    IN  IF e.price = 0 \/ crosses THEN p
        ELSE IF ~Better(e.side, e.price, own) /\ e.price # own.price THEN p
        ELSE PublishTop(IF e.side = "Buy" THEN [p EXCEPT !.bid = new]
                                          ELSE [p EXCEPT !.ask = new])

(* Mutated form: the change of the bid is not published.                   *)
OnOrderCancelledQuietly(p, e) ==
    IF e.side = "Buy" /\ At(p.bid, e.price)
    THEN [p EXCEPT !.bid = Consumed(@, e.remaining, TRUE)]
    ELSE IF e.side = "Sell" /\ At(p.ask, e.price)
    THEN PublishTop([p EXCEPT !.ask = Consumed(@, e.remaining, TRUE)])
    ELSE p

OnOrderCancelled(p, e) ==
    IF e.side = "Buy" /\ At(p.bid, e.price)
    THEN PublishTop([p EXCEPT !.bid = Consumed(@, e.remaining, TRUE)])
    ELSE IF e.side = "Sell" /\ At(p.ask, e.price)
    THEN PublishTop([p EXCEPT !.ask = Consumed(@, e.remaining, TRUE)])
    ELSE p

(* apply() of queued_event_sink.hpp.                                       *)
Apply(p, e) ==
    CASE e.kind = "trade" -> OnTrade(p, e)
      [] e.kind = "accepted" -> OnOrderAccepted(p, e)
      [] e.kind = "cancelled" -> OnOrderCancelled(p, e)

-----------------------------------------------------------------------------
(* The subscriber.                                                         *)

EmptyTop == [bidPrice |-> 0, bidQty |-> 0, askPrice |-> 0, askQty |-> 0]

NewView == [anchored |-> FALSE, stale |-> FALSE, last |-> 0, book |-> EmptyTop]

(* Mutated form: a message number that is skipped is not noticed.          *)
CheckSequenceAtLeast(v, sequence) == v.stale

(* check_sequence: the flag after a message with this number.              *)
CheckSequence(v, sequence) == v.stale \/ sequence # v.last + 1

OnMessage(v, m) ==
    IF m.type = "Snapshot"
    THEN [anchored |-> TRUE, stale |-> FALSE, last |-> m.sequence, book |-> m.top]
    ELSE IF ~v.anchored \/ m.sequence <= v.last THEN v
    ELSE [v EXCEPT !.stale = CheckSequence(v, m.sequence), !.last = m.sequence,
                   !.book = IF m.type = "TopOfBook" THEN m.top ELSE @]
=============================================================================
