------------------------ MODULE MarketDataFeedProofs ------------------------
(* The feed keeps its promises for every engine, ring size and snapshot    *)
(* interval, whatever the network does: what a subscriber may believe, and *)
(* that the queue between engine and publisher changes nothing.            *)
EXTENDS MarketDataFeed, MatchingEngineProofs

-----------------------------------------------------------------------------
(* The values the feed handles.                                            *)

FeedEvents ==
    TradeEvents
      \union [kind : {"accepted"}, id : OrderIds, side : Sides, quantity : Nat, price : Nat]
      \union [kind : {"cancelled"}, id : OrderIds, remaining : Nat, side : Sides, price : Prices]

Bests == [price : Nat, qty : Nat, count : Nat]
Tops == [bidPrice : Nat, bidQty : Nat, askPrice : Nat, askQty : Nat]
MessageTypes == {"Trade", "TopOfBook", "Snapshot"}
Messages == [type : MessageTypes, sequence : Nat, top : Tops]
Publishers == [bid : Bests, ask : Bests, next : Nat, since : Nat, sent : Seq(Messages)]

(* Messages are numbered from one without a gap, and a trade message does  *)
(* not change the top.                                                     *)
Numbered(p) ==
    /\ p \in Publishers
    /\ p.next = Len(p.sent) + 1
    /\ p.since < SnapshotInterval
    /\ \A i \in 1..Len(p.sent) :
         /\ p.sent[i].sequence = i
         /\ p.sent[i].type = "Trade" /\ i > 1 => p.sent[i].top = p.sent[i - 1].top

(* The last message has the top as it is now.                              *)
Published(p) ==
    IF p.sent = <<>> THEN Top(p) = EmptyTop ELSE p.sent[Len(p.sent)].top = Top(p)

(* s continues t.                                                          *)
Continues(s, t) ==
    /\ Len(t) <= Len(s)
    /\ \A i \in 1..Len(t) : s[i] = t[i]

(* A stream that continues a continuation continues the first.             *)
LEMMA ContinuesTransitive ==
    ASSUME NEW r \in Seq(Messages), NEW s \in Seq(Messages), NEW t \in Seq(Messages),
           Continues(r, s), Continues(s, t)
    PROVE  Continues(r, t)
<1>1. Len(r) \in Nat /\ Len(s) \in Nat /\ Len(t) \in Nat
  BY SeqLength
<1> QED BY <1>1 DEF Continues

(* What is compared of the top of the book has its type.                   *)
LEMMA TopTyped == ASSUME NEW p \in Publishers PROVE Top(p) \in Tops
BY DEF Top, Tops, Publishers, Bests

(* One message more.                                                       *)
LEMMA SendIs ==
    ASSUME NEW p \in Publishers, Numbered(p), NEW type \in MessageTypes,
           type = "Trade" => Published(p)
    PROVE  LET q == Send(p, type)
           IN  /\ Numbered(q) /\ Published(q) /\ Continues(q.sent, p.sent)
               /\ q.bid = p.bid /\ q.ask = p.ask /\ q.since = p.since
<1> DEFINE m == [type |-> type, sequence |-> p.next, top |-> Top(p)]
           q == Send(p, type)
<1>1. m \in Messages
  BY ZenonT(60), TopTyped DEF Messages, Publishers
<1>2. m.sequence = p.next /\ m.type = type /\ m.top = Top(p)
  OBVIOUS
<1> HIDE DEF m
<1>3. p.sent \in Seq(Messages) /\ p.next \in Nat /\ p.since \in Nat /\ p.bid \in Bests /\ p.ask \in Bests
  BY DEF Publishers
<1>4. /\ q = [bid |-> p.bid, ask |-> p.ask, next |-> p.next + 1, since |-> p.since,
              sent |-> Append(p.sent, m)]
  <2> DEFINE n == p.next + 1
             l == Append(p.sent, m)
  <2>1. q = [[p EXCEPT !.next = n] EXCEPT !.sent = l]
    BY DEF Send, m
  <2> HIDE DEF n, l
  <2>2. [p EXCEPT !.next = n]
          = [bid |-> p.bid, ask |-> p.ask, next |-> n, since |-> p.since, sent |-> p.sent]
    BY DEF Publishers
  <2>3. q = [bid |-> p.bid, ask |-> p.ask, next |-> n, since |-> p.since, sent |-> l]
    BY ZenonT(60), <2>1, <2>2
  <2> QED BY <2>3 DEF n, l
<1>5. /\ Append(p.sent, m) \in Seq(Messages) /\ Append(p.sent, m) # <<>>
      /\ Len(Append(p.sent, m)) = Len(p.sent) + 1 /\ Len(p.sent) \in Nat
      /\ \A i \in 1..Len(p.sent) : Append(p.sent, m)[i] = p.sent[i]
      /\ Append(p.sent, m)[Len(p.sent) + 1] = m
  BY <1>1, <1>3, SeqAppend, SeqLength
<1>6. /\ q.bid = p.bid /\ q.ask = p.ask /\ q.next = p.next + 1 /\ q.since = p.since
      /\ q.sent = Append(p.sent, m)
  BY SMTT(60), <1>4
<1>7. q \in Publishers
  BY SMTT(60), <1>3, <1>4, <1>5 DEF Publishers
<1> HIDE DEF q
<1>8. Top(q) = Top(p)
  BY SMTT(60), <1>6 DEF Top
<1>9. Published(q)
  BY SMTT(60), <1>2, <1>5, <1>6, <1>8 DEF Published
<1>10. Continues(q.sent, p.sent)
  BY SMTT(60), <1>5, <1>6 DEF Continues
<1>11. ASSUME NEW i \in 1..Len(q.sent)
       PROVE  /\ q.sent[i].sequence = i
              /\ q.sent[i].type = "Trade" /\ i > 1 => q.sent[i].top = q.sent[i - 1].top
  <2>1. CASE i \in 1..Len(p.sent)
    <3>1. q.sent[i] = p.sent[i]
      BY SMTT(60), <1>5, <1>6, <2>1
    <3>2. i > 1 => i - 1 \in 1..Len(p.sent) /\ q.sent[i - 1] = p.sent[i - 1]
      BY SMTT(60), <1>5, <1>6, <2>1
    <3> QED BY SMTT(60), <2>1, <3>1, <3>2 DEF Numbered
  <2>2. CASE i = Len(p.sent) + 1
    <3>1. q.sent[i] = m
      BY SMTT(60), <1>5, <1>6, <2>2
    <3>2. m.sequence = i
      BY SMTT(60), <1>2, <2>2 DEF Numbered
    <3>3. i > 1 => i - 1 = Len(p.sent) /\ i - 1 \in 1..Len(p.sent) /\ p.sent # <<>>
      BY SMTT(60), <1>3, <1>5, <2>2
    <3>4. i > 1 => q.sent[i - 1] = p.sent[Len(p.sent)]
      BY SMTT(60), <1>5, <1>6, <3>3
    <3>5. m.type = "Trade" /\ i > 1 => m.top = p.sent[Len(p.sent)].top
      BY SMTT(60), <1>2, <3>3 DEF Published
    <3> QED BY SMTT(60), <3>1, <3>2, <3>4, <3>5
  <2>3. i \in 1..Len(p.sent) \/ i = Len(p.sent) + 1
    BY SMTT(60), <1>5, <1>6
  <2> QED BY SMTT(60), <2>1, <2>2, <2>3
<1>12. q.next = Len(q.sent) + 1 /\ q.since < SnapshotInterval
  BY SMTT(60), <1>5, <1>6 DEF Numbered
<1>13. Numbered(q)
  BY ZenonT(60), <1>7, <1>11, <1>12 DEF Numbered
<1> QED BY SMTT(60), <1>6, <1>9, <1>10, <1>13 DEF q

(* What every handler of the publisher gives back: the numbering, the      *)
(* current top sent, and nothing of what was sent before lost.             *)
Follows(q, p) == Numbered(q) /\ Published(q) /\ Continues(q.sent, p.sent)

(* A snapshot that falls due is one more run of messages.                  *)
LEMMA TriggerFollows ==
    ASSUME NEW p, Numbered(p), Published(p)
    PROVE  Follows(CheckSnapshotTrigger(p), p)
<1>1. p \in Publishers /\ p.since \in Nat /\ SnapshotInterval \in Nat \ {0} /\ p.since < SnapshotInterval
  BY SnapshotAssumption DEF Numbered, Publishers
<1>2. ASSUME NEW r, Numbered(r), Published(r), NEW n \in Nat, n < SnapshotInterval
      PROVE  LET q == [r EXCEPT !.since = n]
             IN  Numbered(q) /\ Published(q) /\ q.sent = r.sent
  <2> DEFINE q == [r EXCEPT !.since = n]
  <2>1. r \in Publishers
    BY <1>2 DEF Numbered
  <2>2. /\ q = [bid |-> r.bid, ask |-> r.ask, next |-> r.next, since |-> n, sent |-> r.sent]
    BY <2>1 DEF Publishers
  <2>3. q.bid = r.bid /\ q.ask = r.ask /\ q.next = r.next /\ q.since = n /\ q.sent = r.sent
    BY <2>2
  <2>4. q \in Publishers
    BY SMTT(60), <2>1, <2>2 DEF Publishers
  <2> HIDE DEF q
  <2>5. Top(q) = Top(r)
    BY <2>3 DEF Top
  <2>6. Published(q)
    BY SMTT(60), <1>2, <2>3, <2>5 DEF Published
  <2>7. Numbered(q)
    BY ZenonT(60), <1>2, <2>3, <2>4 DEF Numbered
  <2> QED BY SMTT(60), <2>3, <2>6, <2>7 DEF q
<1>3. CASE p.since + 1 >= SnapshotInterval
  <2> DEFINE r == Send(p, "Snapshot")
             q == [r EXCEPT !.since = 0]
  <2>1. Numbered(r) /\ Published(r) /\ Continues(r.sent, p.sent)
    BY SMTT(60), <1>1, SendIs DEF MessageTypes
  <2> HIDE DEF r
  <2>2. 0 \in Nat /\ 0 < SnapshotInterval
    BY <1>1
  <2>3. Numbered(q) /\ Published(q) /\ q.sent = r.sent
    BY SMTT(60), <1>2, <2>1, <2>2
  <2>4. CheckSnapshotTrigger(p) = q
    BY SMTT(60), <1>3 DEF CheckSnapshotTrigger, r
  <2> HIDE DEF q
  <2> QED BY SMTT(60), <2>1, <2>3, <2>4 DEF Follows
<1>4. CASE ~(p.since + 1 >= SnapshotInterval)
  <2> DEFINE n == p.since + 1
             q == [p EXCEPT !.since = n]
  <2>1. n \in Nat /\ n < SnapshotInterval
    BY SMTT(60), <1>1, <1>4
  <2> HIDE DEF n
  <2>2. Numbered(q) /\ Published(q) /\ q.sent = p.sent
    BY SMTT(60), <1>2, <2>1
  <2>3. CheckSnapshotTrigger(p) = q
    BY SMTT(60), <1>4 DEF CheckSnapshotTrigger, n
  <2> HIDE DEF q
  <2>4. p.sent \in Seq(Messages) /\ Len(p.sent) \in Nat
    BY SMTT(60), <1>1, SeqLength DEF Publishers
  <2> QED BY SMTT(60), <2>2, <2>3, <2>4 DEF Follows, Continues
<1> QED BY SMTT(60), <1>3, <1>4

(* publish_top_of_book after a change of a best.                           *)
LEMMA PublishTopFollows ==
    ASSUME NEW p, Numbered(p)
    PROVE  Follows(PublishTop(p), p)
<1> DEFINE r == Send(p, "TopOfBook")
           q == CheckSnapshotTrigger(r)
<1>1. p \in Publishers
  BY DEF Numbered
<1>2. Numbered(r) /\ Published(r) /\ Continues(r.sent, p.sent)
  BY SMTT(60), <1>1, SendIs DEF MessageTypes
<1> HIDE DEF r
<1>3. Follows(q, r)
  BY SMTT(60), <1>2, TriggerFollows
<1>4. q = PublishTop(p)
  BY DEF PublishTop, r
<1> HIDE DEF q
<1>5. q.sent \in Seq(Messages) /\ r.sent \in Seq(Messages) /\ p.sent \in Seq(Messages)
  BY SMTT(60), <1>1, <1>2, <1>3 DEF Follows, Numbered, Publishers
<1>6. Continues(q.sent, p.sent)
  BY SMTT(60), <1>2, <1>3, <1>5, ContinuesTransitive DEF Follows
<1> QED BY SMTT(60), <1>3, <1>4, <1>6 DEF Follows

(* A change of a best that is not published yet.                           *)
LEMMA BestChanged ==
    ASSUME NEW p, Numbered(p), NEW b \in Bests
    PROVE  /\ Numbered([p EXCEPT !.bid = b]) /\ [p EXCEPT !.bid = b].sent = p.sent
           /\ Numbered([p EXCEPT !.ask = b]) /\ [p EXCEPT !.ask = b].sent = p.sent
<1>1. p \in Publishers
  BY DEF Numbered
<1>2. /\ [p EXCEPT !.bid = b]
           = [bid |-> b, ask |-> p.ask, next |-> p.next, since |-> p.since, sent |-> p.sent]
      /\ [p EXCEPT !.ask = b]
           = [bid |-> p.bid, ask |-> b, next |-> p.next, since |-> p.since, sent |-> p.sent]
  BY <1>1 DEF Publishers
<1>3. ASSUME NEW q \in Publishers, q.next = p.next, q.since = p.since, q.sent = p.sent
      PROVE  Numbered(q)
  BY ZenonT(60), <1>3 DEF Numbered
<1>4. /\ [p EXCEPT !.bid = b] \in Publishers /\ [p EXCEPT !.ask = b] \in Publishers
  BY SMTT(60), <1>1, <1>2 DEF Publishers
<1>5. ASSUME NEW q, q = [p EXCEPT !.bid = b] \/ q = [p EXCEPT !.ask = b]
      PROVE  q.next = p.next /\ q.since = p.since /\ q.sent = p.sent
  BY SMTT(60), <1>2, <1>5
<1> QED BY ZenonT(60), <1>3, <1>4, <1>5

(* A new best bid or ask is published after what was sent.                 *)
LEMMA BestPublished ==
    ASSUME NEW p, Numbered(p), NEW b \in Bests
    PROVE  /\ Follows(PublishTop([p EXCEPT !.bid = b]), p)
           /\ Follows(PublishTop([p EXCEPT !.ask = b]), p)
<1> DEFINE l == [p EXCEPT !.bid = b]
           r == [p EXCEPT !.ask = b]
<1>1. Numbered(l) /\ Numbered(r) /\ l.sent = p.sent /\ r.sent = p.sent
  BY BestChanged
<1> HIDE DEF l, r
<1>2. Follows(PublishTop(l), p) /\ Follows(PublishTop(r), p)
  BY <1>1, PublishTopFollows DEF Follows
<1> QED BY <1>2 DEF l, r

(* What a trade leaves of a best level is a best level.                    *)
LEMMA ConsumedTyped ==
    ASSUME NEW best \in Bests, best.count > 0, NEW qty \in Nat, NEW gone \in BOOLEAN
    PROVE  Consumed(best, qty, gone) \in Bests
<1>1. best.price \in Nat /\ best.qty \in Nat /\ best.count \in Nat
  BY DEF Bests
<1>2. Saturating(best.qty, qty) \in Nat
  BY <1>1 DEF Saturating
<1>3. best.count - 1 \in Nat
  BY <1>1
<1>4. NoBest \in Bests
  BY DEF NoBest, Bests
<1>5. \A c \in Nat : [price |-> best.price, qty |-> Saturating(best.qty, qty), count |-> c] \in Bests
  BY SMTT(60), <1>1, <1>2 DEF Bests
<1> QED BY SMTT(60), <1>1, <1>3, <1>4, <1>5 DEF Consumed

(* A publisher that follows a follower follows the first.                  *)
LEMMA FollowsTransitive ==
    ASSUME NEW p, NEW q, NEW r, Numbered(p), Follows(q, p), Follows(r, q)
    PROVE  Follows(r, p)
<1>1. r.sent \in Seq(Messages) /\ q.sent \in Seq(Messages) /\ p.sent \in Seq(Messages)
  BY DEF Follows, Numbered, Publishers
<1> QED BY SMTT(60), <1>1, ContinuesTransitive DEF Follows

(* Sending nothing is following.                                           *)
LEMMA FollowsSelf ==
    ASSUME NEW p, Numbered(p), Published(p)
    PROVE  Follows(p, p)
<1>1. p.sent \in Seq(Messages) /\ Len(p.sent) \in Nat
  BY SeqLength DEF Numbered, Publishers
<1> QED BY <1>1 DEF Follows, Continues

(* on_trade.                                                               *)
LEMMA TradeFollows ==
    ASSUME NEW p, Numbered(p), Published(p), NEW e \in TradeEvents
    PROVE  Follows(OnTrade(p, e), p)
<1> DEFINE s == Send(p, "Trade")
           q == CheckSnapshotTrigger(s)
<1>1. p \in Publishers /\ e.quantity \in Nat /\ e.removed \in BOOLEAN
  BY DEF Numbered, TradeEvents
<1>2. Follows(s, p)
  BY SMTT(60), <1>1, SendIs DEF MessageTypes, Follows
<1>3. Follows(q, s)
  BY SMTT(60), <1>2, TriggerFollows DEF Follows
<1>4. Follows(q, p)
  BY SMTT(60), <1>2, <1>3, FollowsTransitive
<1>5. Numbered(q) /\ q.bid \in Bests /\ q.ask \in Bests
  BY <1>3 DEF Follows, Numbered, Publishers
<1>6. OnTrade(p, e) =
        IF At(q.bid, e.price)
        THEN PublishTop([q EXCEPT !.bid = Consumed(q.bid, e.quantity, e.removed)])
        ELSE IF At(q.ask, e.price)
        THEN PublishTop([q EXCEPT !.ask = Consumed(q.ask, e.quantity, e.removed)])
        ELSE q
  BY DEF OnTrade
<1> HIDE DEF s, q
<1>7. CASE At(q.bid, e.price)
  <2>1. Consumed(q.bid, e.quantity, e.removed) \in Bests
    BY SMTT(60), <1>1, <1>5, <1>7, ConsumedTyped DEF At
  <2>2. Follows(OnTrade(p, e), q)
    BY ZenonT(60), <1>5, <1>6, <1>7, <2>1, BestPublished
  <2> QED BY SMTT(60), <1>4, <2>2, FollowsTransitive
<1>8. CASE ~At(q.bid, e.price) /\ At(q.ask, e.price)
  <2>1. Consumed(q.ask, e.quantity, e.removed) \in Bests
    BY SMTT(60), <1>1, <1>5, <1>8, ConsumedTyped DEF At
  <2>2. Follows(OnTrade(p, e), q)
    BY ZenonT(60), <1>5, <1>6, <1>8, <2>1, BestPublished
  <2> QED BY SMTT(60), <1>4, <2>2, FollowsTransitive
<1>9. CASE ~At(q.bid, e.price) /\ ~At(q.ask, e.price)
  BY SMTT(60), <1>4, <1>6, <1>9
<1> QED BY SMTT(60), <1>7, <1>8, <1>9

(* A best with other numbers.                                              *)
LEMMA BestGrown ==
    ASSUME NEW b \in Bests, NEW x \in Nat, NEW y \in Nat
    PROVE  [b EXCEPT !.qty = x, !.count = y] \in Bests
<1>1. [b EXCEPT !.qty = x] \in Bests
  BY DEF Bests
<1>2. ASSUME NEW c \in Bests PROVE [c EXCEPT !.count = y] \in Bests
  BY DEF Bests
<1>3. [[b EXCEPT !.qty = x] EXCEPT !.count = y] \in Bests
  BY ZenonT(60), <1>1, <1>2
<1> QED BY SMTT(60), <1>3

(* on_order_accepted.                                                      *)
LEMMA AcceptedFollows ==
    ASSUME NEW p, Numbered(p), Published(p), NEW e, e.quantity \in Nat, e.price \in Nat
    PROVE  Follows(OnOrderAccepted(p, e), p)
<1> DEFINE own == IF e.side = "Buy" THEN p.bid ELSE p.ask
           new == IF Better(e.side, e.price, own)
                  THEN [price |-> e.price, qty |-> e.quantity, count |-> 1]
                  ELSE [own EXCEPT !.qty = @ + e.quantity, !.count = @ + 1]
           q == PublishTop(IF e.side = "Buy" THEN [p EXCEPT !.bid = new]
                                             ELSE [p EXCEPT !.ask = new])
<1>1. own \in Bests
  BY DEF Numbered, Publishers
<1>2. OnOrderAccepted(p, e) = p \/ OnOrderAccepted(p, e) = q
  BY ZenonT(60) DEF OnOrderAccepted
<1>3. new \in Bests
  <2> HIDE DEF own
  <2>1. [price |-> e.price, qty |-> e.quantity, count |-> 1] \in Bests
    BY SMTT(60) DEF Bests
  <2>2. [own EXCEPT !.qty = @ + e.quantity, !.count = @ + 1] \in Bests
    <3>1. own.qty + e.quantity \in Nat /\ own.count + 1 \in Nat
      BY SMTT(60), <1>1 DEF Bests
    <3> QED BY ZenonT(60), <1>1, <3>1, BestGrown
  <2> QED BY SMTT(60), <2>1, <2>2
<1> HIDE DEF new
<1>4. Follows(q, p)
  BY SMTT(60), <1>3, BestPublished
<1> HIDE DEF q
<1> QED BY SMTT(60), <1>2, <1>4, FollowsSelf

(* on_order_cancelled.                                                     *)
LEMMA CancelledFollows ==
    ASSUME NEW p, Numbered(p), Published(p), NEW e, e.remaining \in Nat
    PROVE  Follows(OnOrderCancelled(p, e), p)
<1>1. p.bid \in Bests /\ p.ask \in Bests
  BY SMTT(60) DEF Numbered, Publishers
<1>2. CASE e.side = "Buy" /\ At(p.bid, e.price)
  <2>1. Consumed(p.bid, e.remaining, TRUE) \in Bests
    BY ZenonT(60), <1>1, <1>2, ConsumedTyped DEF At
  <2> QED BY ZenonT(60), <1>2, <2>1, BestPublished DEF OnOrderCancelled
<1>3. CASE e.side = "Sell" /\ At(p.ask, e.price)
  <2>1. Consumed(p.ask, e.remaining, TRUE) \in Bests
    BY ZenonT(60), <1>1, <1>3, ConsumedTyped DEF At
  <2> QED BY ZenonT(60), <1>3, <2>1, BestPublished DEF OnOrderCancelled
<1>4. CASE ~(e.side = "Buy" /\ At(p.bid, e.price)) /\ ~(e.side = "Sell" /\ At(p.ask, e.price))
  BY SMTT(60), <1>4, FollowsSelf DEF OnOrderCancelled
<1> QED BY SMTT(60), <1>2, <1>3, <1>4

(* Any event.                                                              *)
LEMMA ApplyFollows ==
    ASSUME NEW p, Numbered(p), Published(p), NEW e \in FeedEvents
    PROVE  Follows(Apply(p, e), p)
<1>1. CASE e \in TradeEvents
  <2>1. e.kind = "trade"
    BY SMTT(60), <1>1 DEF TradeEvents
  <2> QED BY SMTT(60), <1>1, <2>1, TradeFollows DEF Apply
<1>2. CASE e \in [kind : {"accepted"}, id : OrderIds, side : Sides, quantity : Nat, price : Nat]
  <2>1. e.kind = "accepted" /\ e.quantity \in Nat /\ e.price \in Nat
    BY SMTT(60), <1>2
  <2> QED BY SMTT(60), <2>1, AcceptedFollows DEF Apply
<1>3. CASE e \in [kind : {"cancelled"}, id : OrderIds, remaining : Nat, side : Sides, price : Prices]
  <2>1. e.kind = "cancelled" /\ e.remaining \in Nat
    BY SMTT(60), <1>3
  <2> QED BY SMTT(60), <2>1, CancelledFollows DEF Apply
<1> QED BY SMTT(60), <1>1, <1>2, <1>3 DEF FeedEvents

(* The engine hands over events of these kinds only.                       *)
LEMMA EventTyped ==
    ASSUME EngineInvariant, Next
    PROVE  event' = NoEvent \/ (event' \in FeedEvents /\ event'.kind # "none")
<1>1. ASSUME NEW o \in Submits, SubmitAccepted(o)
      PROVE  event' \in FeedEvents /\ event'.kind # "none"
  <2>1. o \in NewOrders /\ o.quantity \in Nat /\ o.side \in Sides /\ o.id \in OrderIds
    BY Zenon, QuantitiesAssumption DEF Submits, NewOrders
  <2>2. o.limit = NoLimit \/ o.limit \in Nat
    BY ZenonT(60), <1>1, <2>1, PricesAssumption, BadPricesAssumption DEF SubmitAccepted, Verdict, NewOrders
  <2>3. event' = Accepted(o)
    BY SMTT(60), <1>1 DEF SubmitAccepted
  <2> QED BY SMTT(60), <2>1, <2>2, <2>3 DEF Accepted, FeedEvents
<1>2. ASSUME NEW s, book.order[s] \in Orders, event' = Cancelled(book.order[s])
      PROVE  event' \in FeedEvents /\ event'.kind # "none"
  BY ZenonT(60), <1>2 DEF Cancelled, Orders, FeedEvents
<1>3. CASE CancelOwn
  <2>1. book.order[Front] \in Orders
    BY ZenonT(60), <1>3, FrontIs DEF CancelOwn
  <2> QED BY ZenonT(60), <1>2, <1>3, <2>1 DEF CancelOwn
<1>4. CASE Fill
  <2>1. event' = Trade /\ Trade \in TradeEvents
    BY SMTT(60), <1>4, TradeTyped DEF Fill
  <2> QED BY SMTT(60), <2>1 DEF TradeEvents, FeedEvents
<1>5. ASSUME NEW id \in OrderIds, CancelResting(id)
      PROVE  event' \in FeedEvents /\ event'.kind # "none"
  <2>1. FindOrder(book, id) \in Resting(book)
    BY ZenonT(60), <1>5 DEF CancelResting, EngineInvariant, SoundBook, IndexLeadsHome, FindOrder
  <2>2. book.order[FindOrder(book, id)] \in Orders
    BY ZenonT(60), <2>1, RestingOrderIs DEF EngineInvariant, SoundBook
  <2> QED BY ZenonT(60), <1>2, <1>5, <2>2 DEF CancelResting
<1>6. ASSUME NEW o \in Submits, SubmitRejected(o) PROVE event' = NoEvent
  BY SMTT(60), <1>6 DEF SubmitRejected
<1>7. ASSUME NEW p \in Prices, FetchLevel(p) PROVE event' = NoEvent
  BY SMTT(60), <1>7 DEF FetchLevel
<1>8. ASSUME Return PROVE event' = NoEvent
  BY SMTT(60), <1>8 DEF Return
<1>9. ASSUME NEW id \in OrderIds, CancelUnknown(id) PROVE event' = NoEvent
  BY SMTT(60), <1>9 DEF CancelUnknown
<1> QED BY ZenonT(60), <1>1, <1>3, <1>4, <1>5, <1>6, <1>7, <1>8, <1>9 DEF Next

-----------------------------------------------------------------------------
(* Replaying a queue of events into a publisher.                           *)

Replay(p, q) ==
    LET upTo[n \in 0..Len(q)] == IF n = 0 THEN p ELSE Apply(upTo[n - 1], q[n])
    IN  upTo[Len(q)]

(* f lists the publishers on the way.                                      *)
Replays(f, p, q) ==
    f = [n \in 0..Len(q) |-> IF n = 0 THEN p ELSE Apply(f[n - 1], q[n])]

Entries(f, p, q) == f[0] = p /\ \A n \in 1..Len(q) : f[n] = Apply(f[n - 1], q[n])

(* The recursion defines such a list.                                      *)
LEMMA ReplayExists ==
    ASSUME NEW p, NEW q \in Seq(FeedEvents)
    PROVE  \E f : Replays(f, p, q)
<1> DEFINE L == Len(q)
           T == {m \in Nat : m <= L => \E f : f = [n \in 0..m |-> IF n = 0 THEN p ELSE Apply(f[n - 1], q[n])]}
<1>1. L \in Nat
  BY SMTT(60), SeqLength
<1>2. 0 \in T
  <2> DEFINE f == [n \in 0..0 |-> p]
  <2>0. \A n \in 0..0 : n = 0
    OBVIOUS
  <2>1. f = [n \in 0..0 |-> IF n = 0 THEN p ELSE Apply(f[n - 1], q[n])]
    BY Zenon, <2>0
  <2> QED BY ZenonT(60), <2>1
<1>3. ASSUME NEW m \in Nat, m \in T PROVE m + 1 \in T
  <2> SUFFICES ASSUME m + 1 <= L
               PROVE  \E g : g = [n \in 0..(m + 1) |-> IF n = 0 THEN p ELSE Apply(g[n - 1], q[n])]
    BY SMTT(60)
  <2>1. m <= L
    BY SMTT(60), <1>1
  <2>2. PICK f : f = [n \in 0..m |-> IF n = 0 THEN p ELSE Apply(f[n - 1], q[n])]
    BY SMTT(60), <1>3, <2>1
  <2> DEFINE g == [n \in 0..(m + 1) |-> IF n <= m THEN f[n] ELSE Apply(f[m], q[m + 1])]
             h == [n \in 0..(m + 1) |-> IF n = 0 THEN p ELSE Apply(g[n - 1], q[n])]
  <2>3. ASSUME NEW n \in 0..(m + 1) PROVE g[n] = h[n]
    <3>1. CASE n = 0
      <4>1. g[n] = f[0] /\ 0 \in 0..m
        BY SMTT(60), <3>1
      <4>2. f[0] = p
        BY SMTT(60), <2>2, <4>1
      <4> QED BY SMTT(60), <3>1, <4>1, <4>2
    <3>2. CASE n # 0
      <4>1. n - 1 \in 0..m /\ n - 1 \in 0..(m + 1) /\ n - 1 <= m
        BY SMTT(60), <3>2
      <4>2. g[n - 1] = f[n - 1]
        BY SMTT(60), <4>1
      <4>3. h[n] = Apply(f[n - 1], q[n])
        BY SMTT(60), <3>2, <4>2
      <4>4. CASE n <= m
        <5>1. n \in 0..m
          BY SMTT(60), <4>4
        <5>2. f[n] = Apply(f[n - 1], q[n])
          BY SMTT(60), <2>2, <3>2, <5>1
        <5>3. g[n] = f[n]
          BY SMTT(60), <4>4
        <5> QED BY SMTT(60), <4>3, <5>2, <5>3
      <4>5. CASE n = m + 1
        <5>1. n - 1 = m /\ ~(n <= m)
          BY SMTT(60), <4>5
        <5>2. g[n] = Apply(f[m], q[m + 1])
          BY SMTT(60), <5>1
        <5> QED BY SMTT(60), <4>3, <4>5, <5>1, <5>2
      <4> QED BY <4>4, <4>5
    <3> QED BY ZenonT(60), <3>1, <3>2
  <2>4. g = h
    BY SMTT(60), <2>3
  <2> HIDE DEF g
  <2> QED BY <2>4
<1> HIDE DEF T
<1>4. Nat \subseteq T
  BY SMTT(60), <1>2, <1>3, AllNumbers
<1>5. L \in T
  BY SMTT(60), <1>1, <1>4
<1> QED BY SMTT(60), <1>1, <1>5 DEF T, Replays

(* What such a list is, entry by entry.                                    *)
LEMMA ReplaysEntries ==
    ASSUME NEW p, NEW q \in Seq(FeedEvents), NEW f, Replays(f, p, q)
    PROVE  Entries(f, p, q)
<1>1. Len(q) \in Nat
  BY SMTT(60), SeqLength
<1>2. 0 \in 0..Len(q)
  BY SMTT(60), <1>1
<1>3. ASSUME NEW n \in 1..Len(q) PROVE n \in 0..Len(q) /\ n # 0
  BY SMTT(60), <1>1
<1> QED BY ZenonT(60), <1>2, <1>3 DEF Replays, Entries

(* Any two agree, so the recursion may be computed from either end.        *)
LEMMA ReplayIs ==
    ASSUME NEW p, NEW q \in Seq(FeedEvents), NEW f, Entries(f, p, q)
    PROVE  Replay(p, q) = f[Len(q)]
<1> DEFINE g == CHOOSE u : u = [n \in 0..Len(q) |-> IF n = 0 THEN p ELSE Apply(u[n - 1], q[n])]
           T == {m \in Nat : m <= Len(q) => g[m] = f[m]}
<1>1. Len(q) \in Nat
  BY SMTT(60), SeqLength
<1>2. Replays(g, p, q)
  BY SMTT(60), ReplayExists DEF Replays
<1>3. Replay(p, q) = g[Len(q)]
  BY SMTT(60) DEF Replay
<1> HIDE DEF g
<1>4. Entries(g, p, q)
  BY SMTT(60), <1>2, ReplaysEntries
<1>5. 0 \in T
  BY SMTT(60), <1>4 DEF Entries
<1>6. ASSUME NEW m \in Nat, m \in T PROVE m + 1 \in T
  <2> SUFFICES ASSUME m + 1 <= Len(q) PROVE g[m + 1] = f[m + 1]
    BY SMTT(60)
  <2>1. m <= Len(q) /\ m + 1 \in 1..Len(q) /\ (m + 1) - 1 = m
    BY SMTT(60), <1>1
  <2>2. g[m] = f[m]
    BY SMTT(60), <1>6, <2>1
  <2>3. g[m + 1] = Apply(g[m], q[m + 1]) /\ f[m + 1] = Apply(f[m], q[m + 1])
    BY ZenonT(60), <1>4, <2>1 DEF Entries
  <2> QED BY SMTT(60), <2>2, <2>3
<1> HIDE DEF T
<1>7. Nat \subseteq T
  BY SMTT(60), <1>5, <1>6, AllNumbers
<1>8. Len(q) \in T
  BY SMTT(60), <1>1, <1>7
<1> QED BY SMTT(60), <1>1, <1>3, <1>8 DEF T

(* An event behind the queue is applied last.                              *)
LEMMA ReplayAppend ==
    ASSUME NEW p, NEW q \in Seq(FeedEvents), NEW e \in FeedEvents
    PROVE  Replay(p, Append(q, e)) = Apply(Replay(p, q), e)
<1> DEFINE r == Append(q, e)
<1>1. /\ Len(q) \in Nat /\ r \in Seq(FeedEvents) /\ Len(r) = Len(q) + 1
      /\ \A n \in 1..Len(q) : r[n] = q[n]
      /\ r[Len(q) + 1] = e
  BY SMTT(60), SeqLength, SeqAppend
<1> HIDE DEF r
<1>2. PICK f : Replays(f, p, q)
  BY ZenonT(60), ReplayExists
<1>3. Entries(f, p, q)
  BY <1>2, ReplaysEntries
<1>4. Replay(p, q) = f[Len(q)]
  BY SMTT(60), <1>3, ReplayIs
<1> DEFINE g == [n \in 0..(Len(q) + 1) |-> IF n <= Len(q) THEN f[n] ELSE Apply(f[Len(q)], e)]
<1>5. /\ \A n \in 0..Len(q) : g[n] = f[n]
      /\ g[Len(q) + 1] = Apply(f[Len(q)], e)
  BY SMTT(60), <1>1
<1> HIDE DEF g
<1>6. g[0] = p
  BY SMTT(60), <1>1, <1>3, <1>5 DEF Entries
<1>7. ASSUME NEW n \in 1..Len(r) PROVE g[n] = Apply(g[n - 1], r[n])
  <2>1. n - 1 \in 0..Len(q)
    BY SMTT(60), <1>1
  <2>2. CASE n \in 1..Len(q)
    <3>1. n \in 0..Len(q)
      BY SMTT(60), <1>1, <2>2
    <3> QED BY SMTT(60), <1>1, <1>3, <1>5, <2>1, <2>2, <3>1 DEF Entries
  <2>3. CASE n = Len(q) + 1
    <3>1. n - 1 = Len(q)
      BY SMTT(60), <1>1, <2>3
    <3> QED BY SMTT(60), <1>1, <1>5, <2>1, <2>3, <3>1
  <2> QED BY <1>1, <2>2, <2>3
<1>8. Replay(p, r) = g[Len(r)]
  BY SMTT(60), <1>1, <1>6, <1>7, ReplayIs DEF Entries
<1>9. Replay(p, r) = Apply(Replay(p, q), e)
  BY ZenonT(60), <1>1, <1>4, <1>5, <1>8
<1> QED BY SMTT(60), <1>9 DEF r

(* The event at the front is applied first.                                *)
LEMMA ReplayTail ==
    ASSUME NEW p, NEW q \in Seq(FeedEvents), q # <<>>
    PROVE  Replay(Apply(p, Head(q)), Tail(q)) = Replay(p, q)
<1> DEFINE r == Tail(q)
<1>1. /\ Len(q) \in Nat \ {0} /\ Head(q) = q[1] /\ r \in Seq(FeedEvents)
      /\ Len(r) = Len(q) - 1 /\ \A n \in 1..Len(r) : r[n] = q[n + 1]
  BY SMTT(60), SeqLength, SeqHeadTail, SeqEmpty
<1> HIDE DEF r
<1>2. PICK f : Replays(f, p, q)
  BY ZenonT(60), ReplayExists
<1>3. Entries(f, p, q)
  BY <1>2, ReplaysEntries
<1>4. Replay(p, q) = f[Len(q)]
  BY SMTT(60), <1>3, ReplayIs
<1> DEFINE g == [n \in 0..Len(r) |-> f[n + 1]]
<1>5. \A n \in 0..Len(r) : g[n] = f[n + 1]
  BY SMTT(60)
<1> HIDE DEF g
<1>6. g[0] = Apply(p, Head(q))
  <2>1. 0 \in 0..Len(r) /\ 1 \in 1..Len(q) /\ 0 + 1 = 1 /\ 1 - 1 = 0
    BY SMTT(60), <1>1
  <2>2. g[0] = f[1]
    BY SMTT(60), <1>5, <2>1
  <2>3. f[1] = Apply(f[0], q[1]) /\ f[0] = p
    BY SMTT(60), <1>3, <2>1 DEF Entries
  <2> QED BY SMTT(60), <1>1, <2>2, <2>3
<1>7. ASSUME NEW n \in 1..Len(r) PROVE g[n] = Apply(g[n - 1], r[n])
  <2>1. /\ n \in 0..Len(r) /\ n - 1 \in 0..Len(r) /\ n + 1 \in 1..Len(q)
        /\ (n + 1) - 1 = n /\ (n - 1) + 1 = n
    BY SMTT(60), <1>1
  <2>2. g[n] = f[n + 1] /\ g[n - 1] = f[n]
    BY SMTT(60), <1>5, <2>1
  <2>3. f[n + 1] = Apply(f[n], q[n + 1])
    BY SMTT(60), <1>3, <2>1 DEF Entries
  <2> QED BY SMTT(60), <1>1, <2>2, <2>3
<1>8. Replay(Apply(p, Head(q)), r) = g[Len(r)]
  BY SMTT(60), <1>1, <1>6, <1>7, ReplayIs DEF Entries
<1>9. g[Len(r)] = f[Len(q)]
  <2>1. Len(r) \in 0..Len(r) /\ Len(r) + 1 = Len(q)
    BY SMTT(60), <1>1
  <2> QED BY SMTT(60), <1>5, <2>1
<1>10. Replay(Apply(p, Head(q)), r) = Replay(p, q)
  BY SMTT(60), <1>4, <1>8, <1>9
<1> QED BY SMTT(60), <1>10 DEF r

-----------------------------------------------------------------------------
(* The subscriber's view of what publisher p has sent.                     *)
ViewSound(v, p) ==
    /\ v \in [anchored : BOOLEAN, stale : BOOLEAN, last : Nat, book : Tops]
    /\ v.last <= Len(p.sent)
    /\ v.anchored => v.last >= 1
    /\ v.anchored /\ ~v.stale => v.book = p.sent[v.last].top

(* More messages leave a view as sound as it was.                          *)
LEMMA ViewStaysSound ==
    ASSUME NEW v, NEW p, NEW q, ViewSound(v, p), Numbered(p), Numbered(q),
           Continues(q.sent, p.sent)
    PROVE  ViewSound(v, q)
<1>1. Len(p.sent) \in Nat /\ Len(q.sent) \in Nat
  BY ZenonT(60), SeqLength DEF Numbered, Publishers
<1>2. v.last \in Nat /\ v.anchored \in BOOLEAN /\ v.stale \in BOOLEAN
  BY ZenonT(60) DEF ViewSound
<1>3. v.last <= Len(q.sent)
  BY <1>1, <1>2 DEF ViewSound, Continues
<1>4. v.anchored => v.last \in 1..Len(p.sent)
  BY SMTT(60), <1>1, <1>2 DEF ViewSound
<1>5. v.anchored => q.sent[v.last] = p.sent[v.last]
  BY SMTT(60), <1>4 DEF Continues
<1> QED BY ZenonT(60), <1>3, <1>5 DEF ViewSound

(* Whichever message arrives next, in or out of order, again or for the    *)
(* first time.                                                             *)
LEMMA MessageStaysSound ==
    ASSUME NEW v, NEW p, ViewSound(v, p), Numbered(p), NEW i \in 1..Len(p.sent)
    PROVE  ViewSound(OnMessage(v, p.sent[i]), p)
<1> DEFINE m == p.sent[i]
           w == OnMessage(v, m)
           Views == [anchored : BOOLEAN, stale : BOOLEAN, last : Nat, book : Tops]
<1>1. Len(p.sent) \in Nat /\ p.sent \in Seq(Messages)
  BY ZenonT(60), SeqLength DEF Numbered, Publishers
<1>2. m \in Messages /\ m.type \in MessageTypes /\ m.top \in Tops
  <2>1. m \in Messages
    BY <1>1
  <2> QED BY ZenonT(60), <2>1 DEF Messages
<1>3. m.sequence = i /\ (m.type = "Trade" /\ i > 1 => m.top = p.sent[i - 1].top)
  BY ZenonT(60) DEF Numbered
<1>4. v \in Views /\ v.last \in Nat /\ v.anchored \in BOOLEAN /\ v.stale \in BOOLEAN /\ v.book \in Tops
  BY SMTT(60) DEF ViewSound
<1>5. p.sent[i] = m
  BY SMTT(60)
<1> HIDE DEF m
<1>6. CASE m.type = "Snapshot"
  <2>1. w = [anchored |-> TRUE, stale |-> FALSE, last |-> i, book |-> m.top]
    BY SMTT(60), <1>3, <1>6 DEF OnMessage
  <2>2. w \in Views /\ w.last = i /\ w.book = m.top
    BY <1>1, <1>2, <2>1
  <2>3. w.last <= Len(p.sent) /\ w.last >= 1 /\ w.book = p.sent[w.last].top
    BY <1>1, <1>5, <2>2
  <2> HIDE DEF w
  <2>4. ViewSound(w, p)
    BY ZenonT(60), <2>2, <2>3 DEF ViewSound
  <2> QED BY ZenonT(60), <2>4 DEF w, m
<1>7. CASE m.type # "Snapshot" /\ (~v.anchored \/ m.sequence <= v.last)
  <2>1. w = v
    BY SMTT(60), <1>7 DEF OnMessage
  <2> QED BY SMTT(60), <2>1 DEF m
<1>8. CASE m.type # "Snapshot" /\ ~(~v.anchored \/ m.sequence <= v.last)
  <2> DEFINE st == v.stale \/ i # v.last + 1
             bk == IF m.type = "TopOfBook" THEN m.top ELSE v.book
  <2>1. w = [v EXCEPT !.stale = st, !.last = i, !.book = bk]
    BY SMTT(60), <1>3, <1>4, <1>8 DEF OnMessage, CheckSequence
  <2>2. st \in BOOLEAN /\ bk \in Tops
    BY SMTT(60), <1>2, <1>4
  <2>3. st = FALSE => v.stale = FALSE /\ i = v.last + 1
    BY SMTT(60), <1>4
  <2>4. bk = IF m.type = "TopOfBook" THEN m.top ELSE v.book
    BY SMTT(60)
  <2> HIDE DEF st, bk
  <2>5. [v EXCEPT !.stale = st] = [anchored |-> v.anchored, stale |-> st, last |-> v.last, book |-> v.book]
    BY SMTT(60), <1>4
  <2>6. w = [[[v EXCEPT !.stale = st] EXCEPT !.last = i] EXCEPT !.book = bk]
    BY SMTT(60), <2>1
  <2>7. w = [anchored |-> v.anchored, stale |-> st, last |-> i, book |-> bk]
    BY ZenonT(60), <2>5, <2>6
  <2>8. w \in Views /\ w.last = i /\ w.book = bk /\ w.stale = st /\ w.anchored = v.anchored
    BY <1>1, <1>4, <2>2, <2>7
  <2> HIDE DEF w
  <2>9. w.last <= Len(p.sent) /\ w.last >= 1
    BY SMTT(60), <1>1, <2>8
  <2>10. ASSUME w.anchored, ~w.stale PROVE w.book = p.sent[w.last].top
    <3>1. st = FALSE
      BY SMTT(60), <2>2, <2>8, <2>10
    <3>2. v.stale = FALSE /\ v.anchored /\ i = v.last + 1
      BY SMTT(60), <2>3, <2>8, <2>10, <3>1
    <3>3. i > 1 /\ i - 1 = v.last
      BY <1>4, <3>2 DEF ViewSound
    <3>4. v.book = p.sent[v.last].top
      BY ZenonT(60), <3>2 DEF ViewSound
    <3>5. CASE m.type = "TopOfBook"
      BY ZenonT(60), <1>5, <2>4, <2>8, <3>5
    <3>6. CASE m.type = "Trade"
      <4>1. m.top = p.sent[v.last].top
        BY ZenonT(60), <1>3, <3>3, <3>6
      <4> QED BY ZenonT(60), <1>5, <2>4, <2>8, <3>4, <3>6, <4>1
    <3> QED BY ZenonT(60), <1>2, <1>8, <3>5, <3>6 DEF MessageTypes
  <2>11. ViewSound(w, p)
    BY ZenonT(60), <2>8, <2>9, <2>10 DEF ViewSound
  <2> QED BY SMTT(60), <2>11 DEF w, m
<1> QED BY ZenonT(60), <1>6, <1>7, <1>8

-----------------------------------------------------------------------------
(* What the two threads have seen of a ring with n events: no more events  *)
(* than there are, and never so few free slots that one in use is written. *)
RingSeen(n, s, f) == s \in 0..n /\ f \in Nat /\ n + f <= FeedCapacity

(* The inductive invariant.                                                *)
FeedInvariant ==
    /\ EngineInvariant
    /\ feedQueue \in Seq(FeedEvents) /\ RingSeen(Len(feedQueue), seen, freed)
    /\ dropped \in Nat /\ feedStop \in BOOLEAN
    /\ feedThread \in {"loop", "drain", "final", "done"}
    /\ feedThread \in {"final", "done"} => feedStop
    /\ Numbered(publisher) /\ Published(publisher)
    /\ ViewSound(view, publisher)
    /\ dropped = 0 => Replay(publisher, feedQueue) = direct

(* The feed before the first event.                                        *)
LEMMA FeedStarts == FeedInit => FeedInvariant
<1> SUFFICES ASSUME FeedInit PROVE FeedInvariant
  BY SMTT(60)
<1>1. EngineInvariant
  BY SMTT(60), EngineStarts DEF FeedInit
<1>2. /\ feedQueue = <<>> /\ seen = 0 /\ freed = 0 /\ dropped = 0
      /\ feedStop = FALSE /\ feedThread = "loop"
      /\ publisher = NewPublisher /\ view = NewView /\ direct = NewPublisher
  BY SMTT(60) DEF FeedInit
<1>3. feedQueue \in Seq(FeedEvents) /\ Len(feedQueue) = 0
  BY SMTT(60), <1>2
<1>4. NoBest \in Bests /\ NoBest.price = 0 /\ NoBest.qty = 0
  BY SMTT(60) DEF NoBest, Bests
<1>5. /\ NewPublisher.sent = <<>> /\ NewPublisher.next = 1 /\ NewPublisher.since = 0
      /\ NewPublisher.bid = NoBest /\ NewPublisher.ask = NoBest
  BY ZenonT(60) DEF NewPublisher
<1>6. NewPublisher \in Publishers
  <2>1. <<>> \in Seq(Messages)
    BY SMTT(60)
  <2> QED BY ZenonT(60), <1>4, <2>1 DEF NewPublisher, Publishers
<1>7. Published(NewPublisher)
  BY ZenonT(60), <1>4, <1>5 DEF Published, Top, EmptyTop
<1>8. Numbered(NewPublisher)
  <2>1. Len(NewPublisher.sent) = 0 /\ 1..0 = {}
    BY SMTT(60), <1>5
  <2> QED BY <1>5, <1>6, <2>1, SnapshotAssumption DEF Numbered
<1>9. ViewSound(NewView, NewPublisher)
  <2>1. EmptyTop \in Tops
    BY SMTT(60) DEF EmptyTop, Tops
  <2> QED BY <1>5, <2>1 DEF ViewSound, NewView
<1>10. Replay(NewPublisher, <<>>) = NewPublisher
  <2> DEFINE f == [n \in 0..0 |-> NewPublisher]
  <2>1. f[0] = NewPublisher /\ <<>> \in Seq(FeedEvents) /\ Len(<<>>) = 0 /\ 1..0 = {}
    BY SMTT(60)
  <2> HIDE DEF f
  <2>2. Entries(f, NewPublisher, <<>>)
    BY SMTT(60), <2>1 DEF Entries
  <2>3. Replay(NewPublisher, <<>>) = f[Len(<<>>)]
    BY ZenonT(60), <2>1, <2>2, ReplayIs
  <2> QED BY SMTT(60), <2>1, <2>3
<1>11. RingSeen(Len(feedQueue), seen, freed) /\ dropped \in Nat
  BY SMTT(60), <1>2, <1>3, FeedCapacityAssumption DEF RingSeen
<1> QED BY ZenonT(60), <1>1, <1>2, <1>3, <1>7, <1>8, <1>9, <1>10, <1>11 DEF FeedInvariant

(* An event of the engine goes into the ring, or is counted.               *)
LEMMA EngineFeeds ==
    ASSUME FeedInvariant, EngineStep
    PROVE  FeedInvariant'
<1>1. EngineInvariant /\ EngineInvariant'
  BY SMTT(60), EngineSteps DEF FeedInvariant, EngineStep
<1>2. UNCHANGED <<seen, feedStop, feedThread, publisher, view>> /\ ~feedStop
  BY DEF EngineStep
<1>3. feedThread # "final" /\ feedThread # "done"
  BY SMTT(60), <1>2 DEF FeedInvariant
<1>4. /\ feedQueue \in Seq(FeedEvents) /\ Len(feedQueue) \in Nat /\ dropped \in Nat
      /\ FeedCapacity \in Nat /\ RingSeen(Len(feedQueue), seen, freed)
  BY SMTT(60), FeedCapacityAssumption, SeqLength DEF FeedInvariant
<1>5. CASE event' = NoEvent
  <2>1. UNCHANGED <<feedQueue, freed, dropped, direct>>
    BY <1>5 DEF EngineStep, NoEvent
  <2>2. Numbered(publisher)' /\ Published(publisher)' /\ ViewSound(view, publisher)'
    BY ZenonT(60), <1>2 DEF FeedInvariant, Numbered, Published, ViewSound, Top
  <2>3. dropped' = 0 => Replay(publisher', feedQueue') = direct'
    BY ZenonT(60), <1>2, <2>1 DEF FeedInvariant
  <2>4. /\ feedQueue' \in Seq(FeedEvents) /\ RingSeen(Len(feedQueue'), seen', freed')
        /\ dropped' \in Nat
    BY ZenonT(60), <1>2, <1>4, <2>1
  <2> QED BY ZenonT(60), <1>1, <1>2, <1>3, <2>2, <2>3, <2>4 DEF FeedInvariant, Replay, RingSeen
<1>6. CASE event' \in FeedEvents /\ event'.kind # "none"
  <2>1. Offer(event') /\ direct' = IF dropped' = 0 THEN Apply(direct, event') ELSE direct
    BY <1>6 DEF EngineStep
  <2>2. /\ feedQueue' \in Seq(FeedEvents) /\ RingSeen(Len(feedQueue'), seen', freed')
        /\ dropped' \in Nat
        /\ dropped' = 0 => dropped = 0 /\ feedQueue' = Append(feedQueue, event')
    <3>1. PICK late \in 0..freed :
             /\ freed' = late
             /\ IF Len(feedQueue) + late < FeedCapacity
                THEN feedQueue' = Append(feedQueue, event') /\ dropped' = dropped
                ELSE dropped' = dropped + 1 /\ feedQueue' = feedQueue
      BY ZenonT(60), <2>1 DEF Offer
    <3>2. seen' = seen /\ seen \in 0..Len(feedQueue) /\ freed \in Nat
          /\ Len(feedQueue) + freed <= FeedCapacity
      BY <1>2, <1>4 DEF RingSeen
    <3>3. CASE Len(feedQueue) + late < FeedCapacity
      <4>1. feedQueue' = Append(feedQueue, event') /\ dropped' = dropped
        BY SMTT(60), <3>1, <3>3
      <4>2. feedQueue' \in Seq(FeedEvents) /\ Len(feedQueue') = Len(feedQueue) + 1
        BY SMTT(60), <1>4, <1>6, <4>1, SeqAppend
      <4>3. RingSeen(Len(feedQueue) + 1, seen, late)
        BY SMTT(60), <1>4, <3>2, <3>3 DEF RingSeen
      <4> QED BY ZenonT(60), <1>4, <3>1, <3>2, <4>1, <4>2, <4>3
    <3>4. CASE ~(Len(feedQueue) + late < FeedCapacity)
      <4>1. feedQueue' = feedQueue /\ dropped' = dropped + 1
        BY SMTT(60), <3>1, <3>4
      <4>2. RingSeen(Len(feedQueue), seen, late)
        BY SMTT(60), <1>4, <3>2 DEF RingSeen
      <4>3. dropped' \in Nat /\ dropped' # 0
        BY SMTT(60), <1>4, <4>1
      <4> QED BY ZenonT(60), <1>4, <3>1, <3>2, <4>1, <4>2, <4>3
    <3> QED BY SMTT(60), <3>3, <3>4
  <2>3. ASSUME dropped' = 0 PROVE Replay(publisher, feedQueue') = direct'
    <3>1. Replay(publisher, feedQueue) = direct
      BY SMTT(60), <2>2, <2>3 DEF FeedInvariant
    <3>2. Replay(publisher, feedQueue') = Apply(Replay(publisher, feedQueue), event')
      BY ZenonT(60), <1>4, <1>6, <2>2, <2>3, ReplayAppend
    <3> QED BY SMTT(60), <2>1, <2>3, <3>1, <3>2
  <2>4. dropped' = 0 => Replay(publisher', feedQueue') = direct'
    BY SMTT(60), <1>2, <2>3
  <2>5. Numbered(publisher)' /\ Published(publisher)' /\ ViewSound(view, publisher)'
    BY ZenonT(60), <1>2 DEF FeedInvariant, Numbered, Published, ViewSound, Top
  <2> QED BY ZenonT(60), <1>1, <1>2, <1>3, <2>2, <2>4, <2>5 DEF FeedInvariant, Replay, RingSeen
<1> QED BY SMTT(60), <1>1, <1>5, <1>6, EventTyped DEF EngineStep

(* The engine stands still in the steps of the others.                     *)
LEMMA EngineRests == EngineInvariant /\ UNCHANGED vars => EngineInvariant'
BY EngineSteps

(* The publisher applies the event at the front.                           *)
LEMMA PublishKeeps ==
    ASSUME FeedInvariant, Publish
    PROVE  FeedInvariant'
<1>1. EngineInvariant'
  BY SMTT(60), EngineRests DEF FeedInvariant, Publish
<1>2. /\ UNCHANGED <<dropped, feedStop, feedThread, view, direct>> /\ freed' = freed + 1
      /\ feedQueue' = Tail(feedQueue) /\ publisher' = Apply(publisher, Head(feedQueue))
  BY DEF Publish
<1>3. feedQueue \in Seq(FeedEvents) /\ Numbered(publisher) /\ Published(publisher)
  BY DEF FeedInvariant
<1>4. PICK n \in 1..Len(feedQueue) : n >= seen /\ seen' = n - 1
  BY ZenonT(60) DEF Publish
<1>5. Len(feedQueue) \in Nat
  BY SMTT(60), <1>3, SeqLength
<1>6. feedQueue # <<>>
  BY SMTT(60), <1>4, <1>5
<1>7. /\ Head(feedQueue) \in FeedEvents /\ feedQueue' \in Seq(FeedEvents)
      /\ Len(feedQueue') = Len(feedQueue) - 1
  BY SMTT(60), <1>2, <1>3, <1>6, SeqHeadTail
<1>8. RingSeen(Len(feedQueue'), seen', freed')
  <2>1. freed \in Nat /\ FeedCapacity \in Nat /\ Len(feedQueue) + freed <= FeedCapacity
    BY FeedCapacityAssumption DEF FeedInvariant, RingSeen
  <2>2. RingSeen(Len(feedQueue) - 1, n - 1, freed + 1)
    BY SMTT(60), <1>4, <1>5, <2>1 DEF RingSeen
  <2> QED BY ZenonT(60), <1>2, <1>7, <1>4, <2>2
<1>9. Follows(publisher', publisher)
  BY SMTT(60), <1>2, <1>3, <1>7, ApplyFollows
<1>10. Numbered(publisher') /\ Published(publisher') /\ Continues(publisher'.sent, publisher.sent)
  BY SMTT(60), <1>9 DEF Follows
<1>11. ViewSound(view', publisher')
  BY SMTT(60), <1>2, <1>3, <1>10, ViewStaysSound DEF FeedInvariant
<1>12. Replay(publisher', feedQueue') = Replay(publisher, feedQueue)
  BY SMTT(60), <1>2, <1>3, <1>6, ReplayTail
<1>13. dropped' = 0 => Replay(publisher', feedQueue') = direct'
  BY SMTT(60), <1>2, <1>12 DEF FeedInvariant
<1>14. Numbered(publisher)' /\ Published(publisher)' /\ ViewSound(view, publisher)'
  BY SMTT(60), <1>10, <1>11 DEF Numbered, Published, ViewSound, Top
<1> QED BY ZenonT(60), <1>1, <1>2, <1>7, <1>8, <1>13, <1>14 DEF FeedInvariant, Replay, RingSeen

(* The rest of the feed thread, the stop and the subscriber.               *)
LEMMA OthersKeep ==
    ASSUME FeedInvariant,
           \/ StopFeed \/ FeedLoop \/ DrainEnds \/ UNCHANGED <<vars, feedVars>>
           \/ \E i \in DOMAIN publisher.sent : Receive(publisher.sent[i])
    PROVE  FeedInvariant'
<1>1. UNCHANGED <<vars, feedQueue, seen, freed, dropped, publisher, direct>>
  BY DEF StopFeed, FeedLoop, DrainEnds, Receive, feedVars
<1>2. EngineInvariant'
  BY SMTT(60), <1>1, EngineRests DEF FeedInvariant
<1>3. /\ feedStop' \in BOOLEAN /\ feedThread' \in {"loop", "drain", "final", "done"}
      /\ feedThread' \in {"final", "done"} => feedStop'
  BY ZenonT(60) DEF FeedInvariant, StopFeed, FeedLoop, DrainEnds, Receive, feedVars
<1>4. ViewSound(view', publisher)
  <2>1. CASE \E i \in DOMAIN publisher.sent : Receive(publisher.sent[i])
    <3>1. DOMAIN publisher.sent = 1..Len(publisher.sent)
      BY SMTT(60), SeqLength DEF FeedInvariant, Numbered, Publishers
    <3>2. PICK i \in 1..Len(publisher.sent) : view' = OnMessage(view, publisher.sent[i])
      BY SMTT(60), <2>1, <3>1 DEF Receive
    <3> QED BY SMTT(60), <3>2, MessageStaysSound DEF FeedInvariant
  <2>2. CASE StopFeed \/ FeedLoop \/ DrainEnds \/ UNCHANGED <<vars, feedVars>>
    <3>1. view' = view
      BY SMTT(60), <2>2 DEF StopFeed, FeedLoop, DrainEnds, feedVars
    <3> QED BY SMTT(60), <3>1 DEF FeedInvariant
  <2> QED BY SMTT(60), <2>1, <2>2
<1>5. Numbered(publisher)' /\ Published(publisher)' /\ ViewSound(view, publisher)'
  <2>1. Numbered(publisher') /\ Published(publisher') /\ ViewSound(view', publisher')
    BY SMTT(60), <1>1, <1>4 DEF FeedInvariant
  <2> QED BY Zenon, <2>1 DEF Numbered, Published, ViewSound, Top
<1>6. dropped' = 0 => Replay(publisher', feedQueue') = direct'
  BY <1>1 DEF FeedInvariant
<1> QED BY ZenonT(60), <1>1, <1>2, <1>3, <1>5, <1>6 DEF FeedInvariant, Replay, RingSeen

(* Every step keeps the invariant of the feed.                             *)
LEMMA FeedSteps == FeedInvariant /\ [FeedNext]_<<vars, feedVars>> => FeedInvariant'
BY SMTT(60), EngineFeeds, PublishKeeps, OthersKeep DEF FeedNext, FeedTerminated

(* The engine, the ring, the publisher and the subscriber keep the         *)
(* invariant, whatever is dropped at the ring or lost on the way.          *)
THEOREM FeedInvariantHolds == FeedSpec => []FeedInvariant
BY FeedStarts, FeedSteps, PTL DEF FeedSpec

(* Numbers and flags are in range, and the publisher's counters agree with *)
(* what it has sent.                                                       *)
THEOREM FeedTypesHold == FeedSpec => []TypeFeedOK
<1>1. ASSUME FeedInvariant PROVE TypeFeedOK
  <2>1. Numbered(publisher) /\ publisher \in Publishers /\ ViewSound(view, publisher)
    BY SMTT(60), <1>1 DEF FeedInvariant, Numbered
  <2>2. publisher.bid \in Bests /\ publisher.ask \in Bests /\ publisher.since \in Nat
        /\ Len(publisher.sent) \in Nat
    BY SMTT(60), <2>1, SeqLength DEF Publishers
  <2>3. publisher.bid.count \in Nat /\ publisher.ask.count \in Nat
    BY SMTT(60), <2>2 DEF Bests
  <2>4. view.last \in 0..Len(publisher.sent)
    BY SMTT(60), <2>1, <2>2 DEF ViewSound
  <2>5. publisher.since \in 0..(SnapshotInterval - 1) /\ publisher.next = Len(publisher.sent) + 1
    BY SMTT(60), <2>1, <2>2, SnapshotAssumption DEF Numbered
  <2> QED BY ZenonT(60), <1>1, <2>3, <2>4, <2>5 DEF FeedInvariant, TypeFeedOK, RingSeen
<1> QED BY <1>1, FeedInvariantHolds, PTL

(* A subscriber that is anchored and not stale shows a top of the book     *)
(* that was published with the last number it accepted.                    *)
THEOREM ViewConsistentHolds == FeedSpec => []ViewConsistent
<1>1. FeedInvariant => ViewConsistent
  BY Zenon DEF FeedInvariant, ViewSound, ViewConsistent
<1> QED BY <1>1, FeedInvariantHolds, PTL

(* One that has caught up shows the publisher's live state.                *)
THEOREM CaughtUpViewIsLiveHolds == FeedSpec => []CaughtUpViewIsLive
<1>1. ASSUME FeedInvariant PROVE CaughtUpViewIsLive
  <2> SUFFICES ASSUME view.anchored, ~view.stale, view.last = Len(publisher.sent)
               PROVE  view.book = Top(publisher)
    BY SMTT(60) DEF CaughtUpViewIsLive
  <2>1. view.book = publisher.sent[Len(publisher.sent)].top /\ Len(publisher.sent) >= 1
    BY SMTT(60), <1>1 DEF FeedInvariant, ViewSound
  <2>2. publisher.sent # <<>>
    BY <2>1
  <2> QED BY SMTT(60), <1>1, <2>1, <2>2 DEF FeedInvariant, Published
<1> QED BY <1>1, FeedInvariantHolds, PTL

(* Until an event is dropped, the queued path leads the publisher where    *)
(* direct calls would have led it.                                         *)
THEOREM QueuedEqualsDirectHolds == FeedSpec => []QueuedEqualsDirect
<1>1. FeedInvariant => QueuedEqualsDirect
  BY ZenonT(60) DEF FeedInvariant, QueuedEqualsDirect, Replayed, Replay
<1> QED BY <1>1, FeedInvariantHolds, PTL
=============================================================================
