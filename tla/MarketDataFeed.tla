--------------------------- MODULE MarketDataFeed ---------------------------
(* The matching engine with its feed: QueuedEventSink between the engine   *)
(* thread and the feed-publisher thread (adapters/udp/                     *)
(* queued_event_sink.hpp, apps/exchange_server/main.cpp), the publisher,   *)
(* and a subscriber behind a network that loses, repeats and reorders      *)
(* datagrams: any message that was ever sent may arrive next, or never.    *)
(* As in SpscRingBuffer, a thread may load an old value of the other's     *)
(* index, and feed_stop, which is relaxed, orders nothing: try_push may    *)
(* find a ring full that has room, try_pop one empty that has events.      *)
EXTENDS MatchingEngine, UdpFeed

CONSTANT FeedCapacity

ASSUME FeedCapacityAssumption == FeedCapacity \in Nat \ {0}

VARIABLES feedQueue,   \* queue_ of QueuedEventSink: its events from head_ to tail_
          seen,        \* of these, the ones the feed thread has seen: its newest
                       \* load of tail_, less head_
          freed,       \* slots freed and not seen so by the engine thread: head_,
                       \* less its newest load of head_
          dropped,     \* dropped_
          feedStop,    \* feed_stop
          feedThread,  \* where run_feed_publisher is
          publisher,   \* the UdpFeedPublisher
          view,        \* the subscriber's state for the symbol
          direct       \* history: the publisher had it been called directly,
                       \* up to the first dropped event

feedVars == <<feedQueue, seen, freed, dropped, feedStop, feedThread, publisher, view, direct>>

FeedInit ==
    /\ Init
    /\ feedQueue = <<>> /\ seen = 0 /\ freed = 0 /\ dropped = 0
    /\ feedStop = FALSE /\ feedThread = "loop"
    /\ publisher = NewPublisher
    /\ view = NewView
    /\ direct = NewPublisher

(* Mutated form: the oldest event makes room.                              *)
OfferOverwrites(e) ==
    /\ feedQueue' = IF Len(feedQueue) < FeedCapacity THEN Append(feedQueue, e)
                    ELSE Append(Tail(feedQueue), e)
    /\ UNCHANGED <<freed, dropped>>

(* QueuedEventSink::offer: try_push loads head_, which leaves late of the  *)
(* freed slots unseen.                                                     *)
Offer(e) ==
    \E late \in 0..freed :
      /\ freed' = late
      /\ IF Len(feedQueue) + late < FeedCapacity
         THEN feedQueue' = Append(feedQueue, e) /\ UNCHANGED dropped
         ELSE dropped' = dropped + 1 /\ UNCHANGED feedQueue

(* A step of the engine thread, with the event it hands to the sink.       *)
EngineStep ==
    /\ ~feedStop
    /\ Next
    /\ IF event'.kind = "none" THEN UNCHANGED <<feedQueue, freed, dropped>>
       ELSE Offer(event')
    /\ direct' = IF event'.kind # "none" /\ dropped' = 0
                 THEN Apply(direct, event') ELSE direct
    /\ UNCHANGED <<seen, feedStop, feedThread, publisher, view>>

(* main() stops the feed when the engine loop is over.                     *)
StopFeed ==
    /\ pc = "idle" /\ ~feedStop
    /\ feedStop' = TRUE
    /\ UNCHANGED <<vars, feedQueue, seen, freed, dropped, feedThread, publisher, view, direct>>

(* One event of drain_once: try_pop loads a tail_ that shows n events.     *)
Publish ==
    /\ feedThread \in {"drain", "final"}
    /\ \E n \in 1..Len(feedQueue) : n >= seen /\ seen' = n - 1
    /\ feedQueue' = Tail(feedQueue)
    /\ freed' = freed + 1
    /\ publisher' = Apply(publisher, Head(feedQueue))
    /\ UNCHANGED <<vars, dropped, feedStop, feedThread, view, direct>>

(* The loop's test of feed_stop: another drain, or the last one.           *)
FeedLoop ==
    /\ feedThread = "loop"
    /\ feedThread' = IF feedStop THEN "final" ELSE "drain"
    /\ UNCHANGED <<vars, feedQueue, seen, freed, dropped, feedStop, publisher, view, direct>>

(* try_pop loads a tail_ that shows nothing, which it can as long as none  *)
(* has shown more.  The last drain ends in the same way: feed_stop is      *)
(* stored after the events, but a thread that has loaded it need not see   *)
(* their tail_.                                                            *)
DrainEnds ==
    /\ feedThread \in {"drain", "final"}
    /\ seen = 0
    /\ feedThread' = IF feedThread = "drain" THEN "loop" ELSE "done"
    /\ UNCHANGED <<vars, feedQueue, seen, freed, dropped, feedStop, publisher, view, direct>>

Receive(m) ==
    /\ view' = OnMessage(view, m)
    /\ UNCHANGED <<vars, feedQueue, seen, freed, dropped, feedStop, feedThread, publisher,
                   direct>>

FeedTerminated == feedThread = "done" /\ UNCHANGED <<vars, feedVars>>

FeedNext ==
    \/ EngineStep
    \/ StopFeed
    \/ FeedLoop \/ Publish \/ DrainEnds
    \/ \E i \in DOMAIN publisher.sent : Receive(publisher.sent[i])
    \/ FeedTerminated

FeedSpec == FeedInit /\ [][FeedNext]_<<vars, feedVars>>

-----------------------------------------------------------------------------
(* Properties.                                                             *)

(* Numbers and flags are in range, and the publisher's counters agree with *)
(* what it has sent.                                                       *)
TypeFeedOK ==
    /\ seen \in 0..Len(feedQueue) /\ freed \in Nat
    /\ Len(feedQueue) + freed <= FeedCapacity /\ dropped \in Nat
    /\ feedThread \in {"loop", "drain", "final", "done"}
    /\ publisher.next = Len(publisher.sent) + 1
    /\ publisher.since \in 0..(SnapshotInterval - 1)
    /\ publisher.bid.count \in Nat /\ publisher.ask.count \in Nat
    /\ view.last \in 0..Len(publisher.sent)

(* Whatever was lost, repeated or reordered on the way: a subscriber that  *)
(* is anchored and not flagged stale shows the top of the book as it was   *)
(* published with the last number it accepted.                             *)
ViewConsistent ==
    view.anchored /\ ~view.stale => view.book = publisher.sent[view.last].top

(* Such a subscriber that has caught up shows the publisher's live state:  *)
(* no change of the tracked top goes unpublished.                          *)
CaughtUpViewIsLive ==
    view.anchored /\ ~view.stale /\ view.last = Len(publisher.sent)
        => view.book = Top(publisher)

Replayed ==
    LET upTo[n \in 0..Len(feedQueue)] ==
            IF n = 0 THEN publisher ELSE Apply(upTo[n - 1], feedQueue[n])
    IN  upTo[Len(feedQueue)]

(* As long as the drop counter is zero, the queued path leads the          *)
(* publisher to the state the direct path would have led it to; so drops   *)
(* are counted and nothing is reordered.                                   *)
QueuedEqualsDirect == dropped = 0 => Replayed = direct

(* design.md of phase 6, section 1b: qty is the quantity resting at the    *)
(* tracked best price; all that a drained level may cost is a gap with no  *)
(* known best.  Here: a tracked best has an order resting at its price.    *)
(* Violated with no event dropped: what rests behind the tracked best, and *)
(* what remains of an order that crossed, is unknown to the publisher; a   *)
(* later order that trades with it is taken to rest, and its price is      *)
(* published from then on.                                                 *)
NoPhantomBest ==
    pc = "idle" /\ feedQueue = <<>> /\ dropped = 0 =>
        /\ publisher.bid.count > 0 => book.queue["Buy"][publisher.bid.price] # <<>>
        /\ publisher.ask.count > 0 => book.queue["Sell"][publisher.ask.price] # <<>>
=============================================================================
