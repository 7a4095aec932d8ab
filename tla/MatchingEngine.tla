--------------------------- MODULE MatchingEngine ---------------------------
(* MatchingEngine (engine/matching_engine.cpp): price-time priority        *)
(* matching with per-client order ids and self-trade prevention.  A call   *)
(* of submit is the validation step, then one step per iteration of the    *)
(* matching loops, then the step that rests the remainder and returns; a   *)
(* call of cancel is one step.  Each step hands at most one event to the   *)
(* sink, kept in event.  Calls are made one at a time by one thread.       *)
EXTENDS OrderBook, FiniteSets

CONSTANTS StpEnabled,    \* stp_.enabled
          Policies,      \* the self-trade policies an engine may be configured with
          IdsOf,         \* client -> the order ids it uses
          BadPrices,     \* limit prices submit must reject: zero, negative
          NoLimit,       \* std::nullopt: a market order has no limit price
          NoWatermark    \* the client has had no order accepted

StpPolicies == {"RejectIncoming", "CancelResting"}

ASSUME StpAssumption == StpEnabled \in BOOLEAN /\ Policies \subseteq StpPolicies
ASSUME IdsOfAssumption == IdsOf \in [Clients -> SUBSET OrderIds]
ASSUME BadPricesAssumption == BadPrices \subseteq {p \in Int : p <= 0}
ASSUME NoLimitAssumption == NoLimit \notin Int
ASSUME NoWatermarkAssumption == NoWatermark \notin Int
ASSUME NoOpenOrderAssumption ==   \* a record of an open order is not "no order"
    NoOrder \notin [side : Sides, limit : Prices \union {NoLimit}, quantity : Nat]

VARIABLES
    book,            \* book_
    lastAcceptedId,  \* last_accepted_id_
    clientResting,   \* client_resting_: client -> side -> price -> count
    nextSequence,    \* next_sequence_
    pc,              \* idle, or the loop submit is in: outer (match), inner (level)
    incoming,        \* the order being submitted
    remaining,       \* what is left of it
    level,           \* price of the level the inner loop works on
    trades,          \* the trades of the call so far
    stpPolicy,       \* stp_.policy, fixed when the engine is constructed
    event            \* the event the last step handed to the sink, or NoEvent

bookVars == <<book, clientResting, nextSequence>>
callVars == <<pc, incoming, remaining, level, trades>>
vars == <<bookVars, lastAcceptedId, callVars, stpPolicy, event>>

(* NewOrder: a market order has limit NoLimit.                             *)
NewOrders == [id : OrderIds, owner : Clients, side : Sides,
              quantity : Quantities, limit : Prices \union BadPrices \union {NoLimit}]

NoEvent == [kind |-> "none"]
Accepted(o) == [kind |-> "accepted", id |-> o.id, side |-> o.side,
                quantity |-> o.quantity,
                price |-> IF o.limit = NoLimit THEN 0 ELSE o.limit]
Cancelled(o) == [kind |-> "cancelled", id |-> o.id, remaining |-> o.quantity,
                 side |-> o.side, price |-> o.price]

(* An order is a record of the same fields whether it came from a client   *)
(* or not; this is the canonical value between two calls.                  *)
NoIncoming == [id |-> NoSlot]

Init ==
    /\ book = EmptyBook
    /\ lastAcceptedId = [c \in Clients |-> NoWatermark]
    /\ clientResting = [c \in Clients |-> [side \in Sides |-> [p \in Prices |-> 0]]]
    /\ nextSequence = 0
    /\ pc = "idle" /\ incoming = NoIncoming /\ remaining = 0
    /\ level = NoLimit /\ trades = <<>>
    /\ stpPolicy \in Policies
    /\ event = NoEvent

-----------------------------------------------------------------------------
(* The self-trade index.                                                   *)

(* Mutated forms of definitions of this module; nothing uses them.         *)
IndexUnrestForgets(cr, o) == cr
CrossesStrictly(side, limit, p) ==
    limit # NoLimit => IF side = "Buy" THEN p < limit ELSE p > limit
WouldSelfCrossLimitsOnly(o) ==
    \E p \in Prices : /\ clientResting[o.owner][Opposite(o.side)][p] > 0
                     /\ o.limit # NoLimit
                     /\ IF o.side = "Buy" THEN p <= o.limit ELSE p >= o.limit
CannotRestAfterMatch(o) == FALSE
NewestAtLevel ==
    LET q == book.queue[Opposite(incoming.side)][level] IN q[Len(q)]

IndexRest(cr, o) ==
    IF StpEnabled THEN [cr EXCEPT ![o.owner][o.side][o.price] = @ + 1] ELSE cr

IndexUnrest(cr, o) ==
    IF StpEnabled /\ cr[o.owner][o.side][o.price] > 0
    THEN [cr EXCEPT ![o.owner][o.side][o.price] = @ - 1] ELSE cr

(* A buy with this limit crosses an ask at p; a sell crosses a bid at p.   *)
Crosses(side, limit, p) ==
    limit # NoLimit => IF side = "Buy" THEN p <= limit ELSE p >= limit

(* would_self_cross tests the owner's lowest ask or highest bid.           *)
WouldSelfCross(o) ==
    LET own == {p \in Prices : clientResting[o.owner][Opposite(o.side)][p] > 0}
    IN  \E p \in own :
          /\ \A q \in own : IF o.side = "Buy" THEN p <= q ELSE p >= q
          /\ Crosses(o.side, o.limit, p)

-----------------------------------------------------------------------------
(* submit_limit and submit_market up to the acceptance, in the order of    *)
(* the code's early returns.                                               *)

Used(o) ==
    lastAcceptedId[o.owner] # NoWatermark /\ o.id <= lastAcceptedId[o.owner]

CannotRest(o) == o.limit # NoLimit /\ book.free = <<>>

Verdict(o) ==
    IF o.quantity = 0 THEN "InvalidQuantity"
    ELSE IF o.limit # NoLimit /\ o.limit <= 0 THEN "InvalidPrice"
    ELSE IF Used(o) THEN "DuplicateOrderId"
    ELSE IF StpEnabled /\ stpPolicy = "RejectIncoming" /\ WouldSelfCross(o)
         THEN "SelfTradePrevented"
    ELSE IF CannotRest(o) THEN "PoolExhausted"
    ELSE "Accepted"

SubmitRejected(o) ==
    /\ pc = "idle"
    /\ Verdict(o) # "Accepted"
    /\ event' = NoEvent
    /\ UNCHANGED <<bookVars, lastAcceptedId, callVars, stpPolicy>>

SubmitAccepted(o) ==
    /\ pc = "idle"
    /\ Verdict(o) = "Accepted"
    /\ lastAcceptedId' = [lastAcceptedId EXCEPT ![o.owner] = o.id]
    /\ event' = Accepted(o)
    /\ pc' = "match"
    /\ incoming' = o
    /\ remaining' = o.quantity
    /\ UNCHANGED <<bookVars, level, trades, stpPolicy>>

-----------------------------------------------------------------------------
(* match_against_book.                                                     *)

IsBestOpposite(p) == IsBest(book, Opposite(incoming.side), p)

CanMatch(p) == IsBestOpposite(p) /\ Crosses(incoming.side, incoming.limit, p)

(* Head of the outer loop: fetch the best opposite level.                  *)
FetchLevel(p) ==
    /\ pc = "match"
    /\ remaining > 0
    /\ CanMatch(p)
    /\ level' = p
    /\ pc' = "level"
    /\ event' = NoEvent
    /\ UNCHANGED <<bookVars, lastAcceptedId, incoming, remaining,
                   trades, stpPolicy>>

(* level->front() *)
Front == Head(book.queue[Opposite(incoming.side)][level])

SelfTrade(s) ==
    /\ StpEnabled /\ stpPolicy = "CancelResting"
    /\ book.order[s].owner = incoming.owner

(* The CancelResting branch: pull the client's own order and go back to    *)
(* the outer loop without looking at the level again.                      *)
CancelOwn ==
    /\ pc = "level"
    /\ SelfTrade(Front)
    /\ clientResting' = IndexUnrest(clientResting, book.order[Front])
    /\ book' = RemoveOrder(book, Front)
    /\ event' = Cancelled(book.order[Front])
    /\ pc' = "match" /\ level' = NoLimit
    /\ UNCHANGED <<nextSequence, lastAcceptedId, incoming, remaining,
                   trades, stpPolicy>>

Min2(a, b) == IF a < b THEN a ELSE b

FillQty == Min2(remaining, book.order[Front].quantity)

FullyConsumed == FillQty = book.order[Front].quantity

Trade ==
    [kind |-> "trade",
     buy |-> IF incoming.side = "Buy" THEN incoming.id ELSE book.order[Front].id,
     sell |-> IF incoming.side = "Sell" THEN incoming.id ELSE book.order[Front].id,
     price |-> book.order[Front].price, quantity |-> FillQty,
     removed |-> FullyConsumed]

FilledBook ==
    LET b == ReduceOrder(book, Front, FillQty)
    IN  IF FullyConsumed THEN RemoveOrder(b, Front) ELSE b

LevelErased == FilledBook.queue[Opposite(incoming.side)][level] = <<>>

(* Mutated form of Left; nothing uses it.                                  *)
LeftAssumesFilled == 0

Left == remaining - FillQty

(* One fill and the inner loop's test that follows it.  When remove_order  *)
(* has emptied the level it has erased it from the price tree, and         *)
(* level->empty() reads the freed PriceLevel: its head_ was just set to    *)
(* null and nothing has been allocated since, so it reads as empty.        *)
Fill ==
    /\ pc = "level"
    /\ ~SelfTrade(Front)
    /\ event' = Trade
    /\ trades' = Append(trades, Trade)
    /\ remaining' = Left
    /\ book' = FilledBook
    /\ clientResting' = IF FullyConsumed
                        THEN IndexUnrest(clientResting, book.order[Front])
                        ELSE clientResting
    /\ \/ /\ Left = 0 \/ LevelErased
          /\ pc' = "match" /\ level' = NoLimit
       \/ /\ Left > 0 /\ ~LevelErased
          /\ UNCHANGED <<pc, level>>
    /\ UNCHANGED <<nextSequence, lastAcceptedId, incoming, stpPolicy>>

-----------------------------------------------------------------------------
(* The loops are left: rest what remains of a limit order, then return.    *)

RestingOrder ==
    [id |-> incoming.id, owner |-> incoming.owner, side |-> incoming.side,
     price |-> incoming.limit, quantity |-> remaining, sequence |-> nextSequence]

Return ==
    /\ pc = "match"
    /\ remaining = 0 \/ ~\E p \in Prices : CanMatch(p)
    /\ \/ /\ remaining > 0 /\ incoming.limit # NoLimit
          /\ book' = AddOrder(book, RestingOrder)
          /\ clientResting' = IndexRest(clientResting, RestingOrder)
          /\ nextSequence' = nextSequence + 1
       \/ /\ remaining = 0 \/ incoming.limit = NoLimit
          /\ UNCHANGED bookVars
    /\ event' = NoEvent
    /\ pc' = "idle" /\ incoming' = NoIncoming /\ remaining' = 0 /\ trades' = <<>>
    /\ UNCHANGED <<lastAcceptedId, level, stpPolicy>>

-----------------------------------------------------------------------------
(* cancel: by id alone, whoever asks.                                      *)

CancelUnknown(id) ==
    /\ pc = "idle"
    /\ FindOrder(book, id) = NoSlot
    /\ event' = NoEvent
    /\ UNCHANGED <<bookVars, lastAcceptedId, callVars, stpPolicy>>

CancelResting(id) ==
    /\ pc = "idle"
    /\ FindOrder(book, id) # NoSlot
    /\ LET s == FindOrder(book, id) IN
          /\ clientResting' = IndexUnrest(clientResting, book.order[s])
          /\ book' = RemoveOrder(book, s)
          /\ event' = Cancelled(book.order[s])
    /\ UNCHANGED <<nextSequence, lastAcceptedId, callVars, stpPolicy>>

Submits == {o \in NewOrders : o.id \in IdsOf[o.owner]}

Next ==
    \/ \E o \in Submits : SubmitRejected(o) \/ SubmitAccepted(o)
    \/ \E p \in Prices : FetchLevel(p)
    \/ CancelOwn
    \/ Fill
    \/ Return
    \/ \E id \in OrderIds : CancelUnknown(id) \/ CancelResting(id)

Spec == Init /\ [][Next]_vars

-----------------------------------------------------------------------------
(* Properties.                                                             *)

TradeEvents == [kind : {"trade"}, buy : OrderIds, sell : OrderIds,
                price : Prices, quantity : Nat, removed : BOOLEAN]

(* Types of the book, of the engine's own state and of the call in         *)
(* progress.                                                               *)
TypeOK ==
    /\ book \in Books
    /\ lastAcceptedId \in [Clients -> OrderIds \union {NoWatermark}]
    /\ clientResting \in [Clients -> [Sides -> [Prices -> Nat]]]
    /\ nextSequence \in Nat
    /\ pc \in {"idle", "match", "level"}
    /\ pc # "idle" => incoming \in NewOrders
    /\ remaining \in Nat
    /\ level \in Prices \union {NoLimit}
    /\ trades \in Seq(TradeEvents)

RestingOn(side) == {s \in Resting(book) : book.order[s].side = side}

(* Best bid below best ask: no two resting orders could trade with each    *)
(* other, not even while a call is in progress.                            *)
BookUncrossed == Uncrossed(book)

(* Every resting order is in the queue of its own side and price and in no *)
(* other place, once; every other slot is in the free list, once.  So no   *)
(* slot is leaked, handed out twice or released twice.                     *)
SlotsAccountedFor == SlotsAccounted(book)

(* Orders of a level are queued in the order in which they came to rest.   *)
LevelsAreFifo == InArrivalOrder(book)

QueueQuantity(side, p) ==
    LET q == book.queue[side][p]
        upTo[n \in 0..Len(q)] ==
            IF n = 0 THEN 0 ELSE upTo[n - 1] + book.order[q[n]].quantity
    IN  upTo[Len(q)]

(* The total_qty_ a level keeps incrementally is the sum of what its       *)
(* orders have left, and every resting order has something left.           *)
LevelTotalsExact ==
    /\ \A side \in Sides, p \in Prices : book.total[side][p] = QueueQuantity(side, p)
    /\ \A s \in Resting(book) : book.order[s].quantity > 0

(* The id index never leads to a free slot or to an order with another id. *)
IndexNeverDangles == IndexLeadsHome(book)

(* CHARTER: the id index and the lists never disagree about what is        *)
(* resting, so that cancel finds every resting order.                      *)
IndexAgreesWithLists ==
    \A s \in Resting(book) : book.index[book.order[s].id] = s

(* The incremental self-trade index counts exactly the resting orders, so  *)
(* the constant-time would_self_cross answers what a walk of the crossable *)
(* side of the book would answer.                                          *)
SelfCrossExact ==
    StpEnabled =>
        /\ \A c \in Clients, side \in Sides, p \in Prices :
             clientResting[c][side][p] =
               Cardinality({s \in RestingOn(side) : /\ book.order[s].owner = c
                                                    /\ book.order[s].price = p})
        /\ \A o \in Submits :
             WouldSelfCross(o) <=>
               \E s \in RestingOn(Opposite(o.side)) :
                  /\ book.order[s].owner = o.owner
                  /\ Crosses(o.side, o.limit, book.order[s].price)

(* A call that is to rest its remainder still finds a free slot when the   *)
(* loops are left, as the single check before matching promises.           *)
RestFindsSlot == pc # "idle" /\ incoming.limit # NoLimit => book.free # <<>>

Traded == event'.kind = "trade" /\ trades' # trades

(* s is the oldest of the best-priced orders of its side, and it is the    *)
(* one that the step's trade fills, at its own price.                      *)
FillsBestOldest(s) ==
    /\ book.order[s].id = IF incoming.side = "Buy" THEN event'.sell ELSE event'.buy
    /\ book.order[s].price = event'.price
    /\ Crosses(incoming.side, incoming.limit, event'.price)
    /\ \A t \in RestingOn(Opposite(incoming.side)) \ {s} :
          /\ Crosses(incoming.side, book.order[t].price, event'.price)
          /\ book.order[t].price = event'.price
               => book.order[s].sequence < book.order[t].sequence

(* Price-time priority: an order is only filled when no resting order of   *)
(* its side has a better price, or the same price and an earlier arrival;  *)
(* and never at a price beyond the incoming order's limit.                 *)
PriceTimePriority ==
    [][Traded => \E s \in RestingOn(Opposite(incoming.side)) : FillsBestOldest(s)]_vars

(* With self-trade prevention on, under either policy, a client never      *)
(* trades with itself.                                                     *)
NoSelfTrade ==
    [][StpEnabled /\ Traded => book.order[Front].owner # incoming.owner]_vars

(* What is open of client k[1]'s order k[2]: the incoming order's remainder *)
(* while it is being matched, otherwise what rests.                        *)
OpenOf(k) ==
    IF pc # "idle" /\ remaining > 0 /\ incoming.owner = k[1] /\ incoming.id = k[2]
    THEN [side |-> incoming.side, limit |-> incoming.limit, quantity |-> remaining]
    ELSE LET mine == {s \in Resting(book) : /\ book.order[s].owner = k[1]
                                            /\ book.order[s].id = k[2]}
         IN  IF mine = {} THEN NoOrder
             ELSE LET o == book.order[CHOOSE s \in mine : TRUE]
                  IN  [side |-> o.side, limit |-> o.price, quantity |-> o.quantity]

OpenOrders == [k \in Clients \X OrderIds |-> OpenOf(k)]

UsedKeys ==
    {k \in Clients \X OrderIds : /\ lastAcceptedId[k[1]] # NoWatermark
                                 /\ k[2] <= lastAcceptedId[k[1]]}

Lifecycle == INSTANCE OrderLifecycle WITH
    Keys <- Clients \X OrderIds,
    OpenOrder <- [side : Sides, limit : Prices \union {NoLimit}, quantity : Quantities],
    Closed <- NoOrder,
    open <- OpenOrders,
    used <- UsedKeys

(* The engine implements the life of an order as the abstract              *)
(* specification promises it, also when clients use the same ids.          *)
ImplementsLifecycle == Lifecycle!LifecycleSpec
=============================================================================
