------------------------ MODULE MatchingEngineProofs ------------------------
(* The matching engine keeps its book sound and trades in price-time       *)
(* order, for every pool, set of clients, prices, quantities and ids, with *)
(* or without self-trade prevention, and also when clients share ids.      *)
EXTENDS MatchingEngine, OrderBookProofs, FiniteSetTheorems

(* What holds between any two steps of a call.  A call past validation has *)
(* a limit that a resting order can have, or none; its inner loop works on *)
(* the best level of the other side, which the order crosses; and every    *)
(* order that rests came before the next one to be numbered.               *)
EngineInvariant ==
    /\ TypeOK
    /\ SoundBook(book)
    /\ \A s \in Resting(book) : book.order[s].sequence < nextSequence
    /\ RestFindsSlot
    /\ pc # "idle" => incoming.limit \in Prices \union {NoLimit}
    /\ pc = "level" => level \in Prices /\ CanMatch(level) /\ remaining > 0

-----------------------------------------------------------------------------
(* What the steps use.                                                     *)

Counts == [Clients -> [Sides -> [Prices -> Nat]]]

(* Setting one count to a number leaves counts.                            *)
LEMMA CountSet ==
    ASSUME NEW cr \in Counts, NEW c \in Clients, NEW side \in Sides, NEW p \in Prices,
           NEW n \in Nat
    PROVE  [cr EXCEPT ![c][side][p] = n] \in Counts
BY DEF Counts

(* index_rest and index_unrest leave counts: no count goes below 0.        *)
LEMMA IndexTyped ==
    ASSUME NEW cr \in Counts, NEW o \in Orders
    PROVE  IndexRest(cr, o) \in Counts /\ IndexUnrest(cr, o) \in Counts
<1> DEFINE c == o.owner
           side == o.side
           p == o.price
           n == cr[c][side][p]
<1>1. c \in Clients /\ side \in Sides /\ p \in Prices
  BY DEF Orders
<1>2. /\ IndexRest(cr, o) = IF StpEnabled THEN [cr EXCEPT ![c][side][p] = n + 1] ELSE cr
      /\ IndexUnrest(cr, o)
           = IF StpEnabled /\ n > 0 THEN [cr EXCEPT ![c][side][p] = n - 1] ELSE cr
  BY DEF IndexRest, IndexUnrest
<1> HIDE DEF c, side, p
<1>3. n \in Nat
  BY SMTT(60), <1>1 DEF Counts
<1> HIDE DEF n
<1>4. [cr EXCEPT ![c][side][p] = n + 1] \in Counts
  BY SMTT(60), <1>1, <1>3, CountSet
<1>5. n > 0 => [cr EXCEPT ![c][side][p] = n - 1] \in Counts
  BY SMTT(60), <1>1, <1>3, n > 0 => n - 1 \in Nat, CountSet
<1> QED BY SMTT(60), <1>2, <1>4, <1>5

(* The other side is a side.                                               *)
LEMMA OppositeSide ==
    ASSUME NEW side \in Sides
    PROVE  Opposite(side) \in Sides /\ Opposite(side) # side
BY SMTT(60) DEF Opposite, Sides

(* level->front() is a resting order of the level the inner loop is at.    *)
LEMMA FrontIs ==
    ASSUME EngineInvariant, pc = "level"
    PROVE  /\ Front \in Resting(book) /\ book.order[Front] \in Orders
           /\ book.order[Front].side = Opposite(incoming.side)
           /\ book.order[Front].price = level
           /\ \A t \in Resting(book) :
                 /\ book.order[t].side = Opposite(incoming.side)
                 /\ book.order[t].price = level
                 /\ t # Front
                 => book.order[Front].sequence < book.order[t].sequence
<1>1. incoming \in NewOrders /\ SoundBook(book) /\ book \in Books
  BY DEF EngineInvariant, TypeOK
<1>2. Opposite(incoming.side) \in Sides
  BY SMTT(60), <1>1, OppositeSide DEF NewOrders
<1>3. level \in Levels(book, Opposite(incoming.side))
  BY DEF EngineInvariant, CanMatch, IsBestOpposite, IsBest
<1> DEFINE side == Opposite(incoming.side)
<1>a. side \in Sides /\ level \in Levels(book, side)
  BY ZenonT(60), <1>2, <1>3
<1> HIDE DEF side
<1>4. LET s == Head(book.queue[side][level])
      IN  /\ level \in Prices
          /\ s \in Resting(book) /\ book.order[s].side = side /\ book.order[s].price = level
          /\ \A t \in Resting(book) :
                book.order[t].side = side /\ book.order[t].price = level /\ t # s
                  => book.order[s].sequence < book.order[t].sequence
  BY ZenonT(60), <1>1, <1>a, FrontOfLevel
<1>5. Front = Head(book.queue[side][level])
  BY ZenonT(60) DEF Front, side
<1>6. Front \in Resting(book)
  BY ZenonT(60), <1>4, <1>5
<1>7. book.order[Front] \in Orders
  BY SMTT(60), <1>1, <1>6, RestingOrderIs
<1> QED BY ZenonT(60), <1>4, <1>5, <1>6, <1>7 DEF side

(* A fill takes at most what is left of either order.                      *)
LEMMA FillQtyIs ==
    ASSUME EngineInvariant, pc = "level"
    PROVE  /\ FillQty \in Nat /\ FillQty <= remaining
           /\ FillQty <= book.order[Front].quantity
           /\ Left \in Nat
<1>1. remaining \in Nat
  BY DEF EngineInvariant, TypeOK
<1>2. book.order[Front].quantity \in Nat
  BY FrontIs DEF Orders
<1>3. FillQty = IF remaining < book.order[Front].quantity THEN remaining
                ELSE book.order[Front].quantity
  BY DEF FillQty, Min2
<1> QED BY SMTT(60), <1>1, <1>2, <1>3 DEF Left

(* A fill leaves a sound book, in which nothing is new.                    *)
LEMMA FilledBookSound ==
    ASSUME EngineInvariant, pc = "level"
    PROVE  SoundBook(FilledBook) /\ Shrunk(FilledBook, book)
<1> DEFINE b == ReduceOrder(book, Front, FillQty)
<1>1. SoundBook(book) /\ Front \in Resting(book)
  BY FrontIs DEF EngineInvariant
<1>2. SoundBook(b) /\ Shrunk(b, book) /\ Resting(b) = Resting(book)
  BY SMTT(60), <1>1, FillQtyIs, ReduceOrderSound
<1>3. FilledBook = IF FullyConsumed THEN RemoveOrder(b, Front) ELSE b
  BY DEF FilledBook
<1> HIDE DEF b
<1>4. SoundBook(RemoveOrder(b, Front)) /\ Shrunk(RemoveOrder(b, Front), b)
  BY SMTT(60), <1>1, <1>2, RemoveOrderSound
<1>5. Shrunk(RemoveOrder(b, Front), book)
  BY SMTT(60), <1>2, <1>4, ShrunkTransitive
<1> QED BY ZenonT(60), <1>2, <1>3, <1>4, <1>5

-----------------------------------------------------------------------------
(* Every step keeps the invariant.                                         *)

(* A new engine: an empty book and no call in progress.                    *)
LEMMA EngineStarts == Init => EngineInvariant
<1> SUFFICES ASSUME Init PROVE EngineInvariant
  OBVIOUS
<1>1. SoundBook(book) /\ Resting(book) = {} /\ book \in Books
  BY EmptyBookSound DEF Init, SoundBook
<1>2. clientResting \in [Clients -> [Sides -> [Prices -> Nat]]]
  BY DEF Init
<1>3. TypeOK
  BY SMTT(60), <1>1, <1>2 DEF Init, TypeOK
<1>4. RestFindsSlot
  BY DEF Init, RestFindsSlot
<1> QED BY SMTT(60), <1>1, <1>3, <1>4 DEF Init, EngineInvariant

(* A step that leaves the book, the numbering and the call alone.          *)
LEMMA CallIdles ==
    ASSUME EngineInvariant, UNCHANGED <<bookVars, lastAcceptedId, callVars>>
    PROVE  EngineInvariant'
<1>1. TypeOK'
  BY DEF EngineInvariant, TypeOK, bookVars, callVars
<1>2. SoundBook(book)' /\ (\A s \in Resting(book) : book.order[s].sequence < nextSequence)'
  BY DEF EngineInvariant, bookVars, Resting
<1>3. RestFindsSlot'
  BY DEF EngineInvariant, RestFindsSlot, bookVars, callVars
<1>4. (pc = "level" => level \in Prices /\ CanMatch(level) /\ remaining > 0)'
  BY SMTT(60) DEF EngineInvariant, CanMatch, IsBestOpposite, bookVars, callVars
<1> QED BY ZenonT(60), <1>1, <1>2, <1>3, <1>4 DEF EngineInvariant, callVars

(* submit up to the acceptance: a limit passed validation, and a limit     *)
(* order found a free slot.                                                *)
LEMMA SubmitAcceptedStep ==
    ASSUME EngineInvariant, NEW o \in NewOrders, SubmitAccepted(o)
    PROVE  EngineInvariant'
<1>1. o.quantity \in Nat /\ o.quantity # 0 /\ o.limit \in Prices \union {NoLimit}
  <2>1. o.quantity \in Nat /\ o.limit \in Prices \union BadPrices \union {NoLimit}
    BY ZenonT(60), QuantitiesAssumption DEF NewOrders
  <2>2. o.quantity # 0 /\ ~(o.limit # NoLimit /\ o.limit <= 0)
    BY SMTT(60) DEF SubmitAccepted, Verdict
  <2> QED BY ZenonT(60), <2>1, <2>2, BadPricesAssumption
<1>2. o.limit # NoLimit => book.free # <<>>
  BY SMTT(60) DEF SubmitAccepted, Verdict, CannotRest
<1>3. /\ book' = book /\ nextSequence' = nextSequence /\ clientResting' = clientResting
      /\ level' = level /\ trades' = trades
      /\ pc' = "match" /\ incoming' = o /\ remaining' = o.quantity
      /\ lastAcceptedId' = [lastAcceptedId EXCEPT ![o.owner] = o.id]
  BY SMTT(60) DEF SubmitAccepted, bookVars
<1>4. TypeOK'
  <2>1. o.owner \in Clients /\ o.id \in OrderIds
    BY SMTT(60) DEF NewOrders
  <2>2. lastAcceptedId' \in [Clients -> OrderIds \union {NoWatermark}]
    BY SMTT(60), <1>3, <2>1 DEF EngineInvariant, TypeOK
  <2> QED BY SMTT(60), <1>1, <1>3, <2>2 DEF EngineInvariant, TypeOK
<1>5. SoundBook(book)' /\ (\A s \in Resting(book) : book.order[s].sequence < nextSequence)'
  BY SMTT(60), <1>3 DEF EngineInvariant, Resting
<1>6. RestFindsSlot'
  BY SMTT(60), <1>2, <1>3 DEF RestFindsSlot
<1> QED BY SMTT(60), <1>1, <1>3, <1>4, <1>5, <1>6 DEF EngineInvariant

(* Head of the outer matching loop: the level fetched is the best one.     *)
LEMMA FetchLevelStep ==
    ASSUME EngineInvariant, NEW p \in Prices, FetchLevel(p)
    PROVE  EngineInvariant'
<1>1. /\ book' = book /\ nextSequence' = nextSequence /\ clientResting' = clientResting
      /\ lastAcceptedId' = lastAcceptedId /\ incoming' = incoming
      /\ remaining' = remaining /\ trades' = trades
      /\ pc = "match" /\ pc' = "level" /\ level' = p /\ remaining > 0 /\ CanMatch(p)
  BY SMTT(60) DEF FetchLevel, bookVars
<1>2. TypeOK'
  BY SMTT(60), <1>1 DEF EngineInvariant, TypeOK
<1>3. SoundBook(book)' /\ (\A s \in Resting(book) : book.order[s].sequence < nextSequence)'
  BY SMTT(60), <1>1 DEF EngineInvariant, Resting
<1>4. RestFindsSlot'
  BY SMTT(60), <1>1 DEF EngineInvariant, RestFindsSlot
<1>5. CanMatch(level)'
  BY SMTT(60), <1>1 DEF CanMatch, IsBestOpposite
<1> QED BY ZenonT(60), <1>1, <1>2, <1>3, <1>4, <1>5 DEF EngineInvariant

(* The CancelResting branch removes one order and leaves a free slot.      *)
LEMMA CancelOwnStep ==
    ASSUME EngineInvariant, CancelOwn
    PROVE  EngineInvariant'
<1>1. /\ pc = "level" /\ pc' = "match" /\ level' = NoLimit
      /\ book' = RemoveOrder(book, Front)
      /\ clientResting' = IndexUnrest(clientResting, book.order[Front])
      /\ nextSequence' = nextSequence /\ lastAcceptedId' = lastAcceptedId
      /\ incoming' = incoming /\ remaining' = remaining /\ trades' = trades
  BY SMTT(60) DEF CancelOwn
<1>2. Front \in Resting(book) /\ book.order[Front] \in Orders
  BY SMTT(60), <1>1, FrontIs
<1>3. SoundBook(book') /\ Shrunk(book', book) /\ book'.free # <<>>
  BY SMTT(60), <1>1, <1>2, RemoveOrderSound DEF EngineInvariant
<1>4. clientResting' \in [Clients -> [Sides -> [Prices -> Nat]]]
  BY ZenonT(60), <1>1, <1>2, IndexTyped DEF EngineInvariant, TypeOK, Counts
<1>5. TypeOK'
  BY ZenonT(60), <1>1, <1>3, <1>4 DEF EngineInvariant, TypeOK, SoundBook
<1>6. (\A s \in Resting(book) : book.order[s].sequence < nextSequence)'
  BY ZenonT(60), <1>1, <1>3 DEF EngineInvariant, Shrunk
<1>7. RestFindsSlot'
  BY SMTT(60), <1>3 DEF RestFindsSlot
<1> QED BY ZenonT(60), <1>1, <1>3, <1>5, <1>6, <1>7 DEF EngineInvariant

(* The trade of a fill has the level's price and an id of each side.       *)
LEMMA TradeTyped ==
    ASSUME EngineInvariant, pc = "level"
    PROVE  Trade \in TradeEvents
<1>1. /\ book.order[Front].id \in OrderIds /\ book.order[Front].price \in Prices
      /\ incoming.id \in OrderIds /\ FillQty \in Nat
  BY ZenonT(60), FrontIs, FillQtyIs DEF EngineInvariant, TypeOK, Orders, NewOrders
<1>2. FullyConsumed \in BOOLEAN
  BY ZenonT(60) DEF FullyConsumed
<1> HIDE DEF FullyConsumed
<1> QED BY ZenonT(60), <1>1, <1>2 DEF Trade, TradeEvents

(* A fill: when the inner loop goes on, its level is still the best one.   *)
LEMMA FillStep ==
    ASSUME EngineInvariant, Fill
    PROVE  EngineInvariant'
<1>1. /\ pc = "level" /\ book' = FilledBook /\ remaining' = Left
      /\ trades' = Append(trades, Trade)
      /\ clientResting' = IF FullyConsumed
                          THEN IndexUnrest(clientResting, book.order[Front])
                          ELSE clientResting
      /\ nextSequence' = nextSequence /\ lastAcceptedId' = lastAcceptedId
      /\ incoming' = incoming
  BY SMTT(60) DEF Fill
<1>2. \/ pc' = "match" /\ level' = NoLimit
      \/ pc' = "level" /\ level' = level /\ Left > 0 /\ ~LevelErased
  BY SMTT(60) DEF Fill
<1>3. Front \in Resting(book) /\ book.order[Front] \in Orders
  BY ZenonT(60), <1>1, FrontIs
<1>4. SoundBook(book') /\ Shrunk(book', book)
  BY ZenonT(60), <1>1, FilledBookSound
<1>5. remaining' \in Nat
  BY ZenonT(60), <1>1, FillQtyIs
<1>6. trades' \in Seq(TradeEvents)
  BY ZenonT(60), <1>1, TradeTyped, SeqAppend DEF EngineInvariant, TypeOK
<1>7. clientResting' \in [Clients -> [Sides -> [Prices -> Nat]]]
  <2>1. clientResting \in Counts
    BY DEF EngineInvariant, TypeOK, Counts
  <2> QED BY ZenonT(60), <1>1, <1>3, <2>1, IndexTyped DEF Counts
<1>8. level' \in Prices \union {NoLimit} /\ pc' \in {"match", "level"}
  BY ZenonT(60), <1>2 DEF EngineInvariant, TypeOK
<1>9. TypeOK'
  BY ZenonT(60), <1>1, <1>4, <1>5, <1>6, <1>7, <1>8 DEF EngineInvariant, TypeOK, SoundBook
<1>10. (\A s \in Resting(book) : book.order[s].sequence < nextSequence)'
  BY SMTT(60), <1>1, <1>4 DEF EngineInvariant, Shrunk
<1>11. RestFindsSlot'
  BY ZenonT(60), <1>1, <1>4 DEF EngineInvariant, RestFindsSlot, Shrunk
<1>12. ASSUME pc' = "level"
       PROVE  level' \in Prices /\ CanMatch(level)' /\ remaining' > 0
  <2> DEFINE side == Opposite(incoming.side)
  <2>1. level' = level /\ Left > 0 /\ ~LevelErased
    BY ZenonT(60), <1>2, <1>12
  <2>2. side \in Sides
    BY ZenonT(60), <1>1, OppositeSide DEF EngineInvariant, TypeOK, NewOrders
  <2>3. level \in Prices /\ IsBest(book, side, level)
        /\ Crosses(incoming.side, incoming.limit, level)
    BY SMTT(60), <1>1 DEF EngineInvariant, CanMatch, IsBestOpposite
  <2>4. FilledBook.queue[side][level] # <<>>
    BY SMTT(60), <2>1 DEF LevelErased
  <2>5. Levels(book', side) \subseteq Levels(book, side)
    BY ZenonT(60), <1>4, <2>2 DEF Shrunk
  <2> HIDE DEF side
  <2>6. level \in Levels(book', side)
    BY SMTT(60), <1>1, <2>3, <2>4 DEF Levels
  <2>7. IsBest(book', side, level)
    BY SMTT(60), <2>3, <2>5, <2>6 DEF IsBest
  <2>8. CanMatch(level)'
    BY ZenonT(60), <1>1, <2>1, <2>3, <2>7 DEF CanMatch, IsBestOpposite, side
  <2> QED BY SMTT(60), <1>1, <2>1, <2>3, <2>8
<1> QED BY ZenonT(60), <1>1, <1>4, <1>9, <1>10, <1>11, <1>12 DEF EngineInvariant

(* What remains when the loops are left crosses no order of the other      *)
(* side.                                                                   *)
LEMMA RemainderCrossesNothing ==
    ASSUME EngineInvariant, pc = "match", incoming.limit # NoLimit,
           ~\E p \in Prices : CanMatch(p), NEW t \in Resting(book),
           book.order[t].side = Opposite(incoming.side)
    PROVE  IF incoming.side = "Buy" THEN incoming.limit < book.order[t].price
           ELSE book.order[t].price < incoming.limit
<1> DEFINE side == Opposite(incoming.side)
           price == book.order[t].price
<1>1. SoundBook(book) /\ incoming.side \in Sides /\ side \in Sides
      /\ incoming.limit \in Prices
  BY ZenonT(60), OppositeSide DEF EngineInvariant, TypeOK, NewOrders
<1>2. price \in Levels(book, side)
  BY SMTT(60), <1>1, RestingHasLevel
<1> HIDE DEF price
<1>3. PICK p \in Prices : IsBest(book, side, p)
  BY SMTT(60), <1>1, <1>2, HasBestLevel
<1>4. ~Crosses(incoming.side, incoming.limit, p)
  BY SMTT(60), <1>3 DEF CanMatch, IsBestOpposite
<1>5. IF side = "Buy" THEN p >= price ELSE p <= price
  BY SMTT(60), <1>2, <1>3 DEF IsBest
<1>6. p \in Nat /\ incoming.limit \in Nat /\ price \in Nat
  BY ZenonT(60), <1>1, <1>2, <1>3, PricesAssumption DEF Levels
<1>7. IF incoming.side = "Buy" THEN incoming.limit < price ELSE price < incoming.limit
  <2>1. CASE incoming.side = "Buy"
    <3>1. side = "Sell" /\ ~(p <= incoming.limit)
      BY SMTT(60), <1>4, <2>1 DEF Crosses, Opposite
    <3> QED BY SMTT(60), <1>5, <1>6, <2>1, <3>1
  <2>2. CASE incoming.side = "Sell"
    <3>1. side = "Buy" /\ ~(p >= incoming.limit)
      BY ZenonT(60), <1>4, <2>2 DEF Crosses, Opposite
    <3> QED BY SMTT(60), <1>5, <1>6, <2>2, <3>1
  <2> QED BY SMTT(60), <1>1, <2>1, <2>2 DEF Sides
<1> QED BY ZenonT(60), <1>7 DEF price

(* Resting the remainder leaves a sound book: there is a slot, the order   *)
(* is the last to arrive and it crosses nothing.                           *)
LEMMA RestStep ==
    ASSUME EngineInvariant, pc = "match", remaining > 0, incoming.limit # NoLimit,
           ~\E p \in Prices : CanMatch(p)
    PROVE  /\ SoundBook(AddOrder(book, RestingOrder))
           /\ \A s \in Resting(AddOrder(book, RestingOrder)) :
                 AddOrder(book, RestingOrder).order[s].sequence < nextSequence + 1
           /\ IndexRest(clientResting, RestingOrder) \in Counts
<1> DEFINE o == RestingOrder
<1>1. /\ incoming.id \in OrderIds /\ incoming.owner \in Clients /\ incoming.side \in Sides
      /\ incoming.limit \in Prices /\ remaining \in Nat /\ nextSequence \in Nat
  BY ZenonT(60) DEF EngineInvariant, TypeOK, NewOrders
<1>2. /\ o.side = incoming.side /\ o.price = incoming.limit /\ o.sequence = nextSequence
      /\ o \in Orders
  BY ZenonT(60), <1>1 DEF RestingOrder, Orders
<1>3. SoundBook(book) /\ book.free # <<>> /\ book \in Books
      /\ \A s \in Resting(book) : book.order[s].sequence < nextSequence
  BY SMTT(60) DEF EngineInvariant, RestFindsSlot, TypeOK
<1>4. clientResting \in Counts
  BY DEF EngineInvariant, TypeOK, Counts
<1> HIDE DEF o
<1>5. ASSUME NEW t \in Resting(book)
      PROVE  /\ o.side = "Buy" /\ book.order[t].side = "Sell" => o.price < book.order[t].price
             /\ o.side = "Sell" /\ book.order[t].side = "Buy" => book.order[t].price < o.price
  <2>1. CASE o.side = "Buy" /\ book.order[t].side = "Sell"
    <3>1. book.order[t].side = Opposite(incoming.side)
      BY ZenonT(60), <1>2, <2>1 DEF Opposite
    <3> QED BY ZenonT(60), <1>2, <2>1, <3>1, RemainderCrossesNothing
  <2>2. CASE o.side = "Sell" /\ book.order[t].side = "Buy"
    <3>1. book.order[t].side = Opposite(incoming.side)
      BY ZenonT(60), <1>2, <2>2 DEF Opposite
    <3> QED BY ZenonT(60), <1>2, <2>2, <3>1, RemainderCrossesNothing
  <2> QED BY ZenonT(60), <2>1, <2>2
<1>6. /\ SoundBook(AddOrder(book, o))
      /\ \A s \in Resting(AddOrder(book, o)) : AddOrder(book, o).order[s].sequence <= o.sequence
  BY ZenonT(60), <1>2, <1>3, <1>5, AddOrderSound
<1>7. \A s \in Resting(AddOrder(book, o)) : AddOrder(book, o).order[s].sequence \in Nat
  <2>1. AddOrder(book, o) \in Books
    BY SMTT(60), <1>6 DEF SoundBook
  <2> QED BY ZenonT(60), <2>1, RestingOrderIs DEF Orders
<1>8. IndexRest(clientResting, o) \in Counts
  BY ZenonT(60), <1>2, <1>4, IndexTyped
<1> QED BY <1>1, <1>2, <1>6, <1>7, <1>8 DEF o

(* The end of submit, with or without a remainder to rest.                 *)
LEMMA ReturnStep ==
    ASSUME EngineInvariant, Return
    PROVE  EngineInvariant'
<1>1. /\ pc = "match" /\ pc' = "idle" /\ incoming' = NoIncoming /\ remaining' = 0
      /\ trades' = <<>> /\ lastAcceptedId' = lastAcceptedId /\ level' = level
  BY DEF Return
<1>2. \/ /\ remaining > 0 /\ incoming.limit # NoLimit
         /\ book' = AddOrder(book, RestingOrder)
         /\ clientResting' = IndexRest(clientResting, RestingOrder)
         /\ nextSequence' = nextSequence + 1
      \/ UNCHANGED <<book, clientResting, nextSequence>>
  BY ZenonT(60) DEF Return, bookVars
<1>3. /\ SoundBook(book')
      /\ \A s \in Resting(book') : book'.order[s].sequence < nextSequence'
      /\ clientResting' \in Counts /\ nextSequence' \in Nat
  <2>1. CASE UNCHANGED <<book, clientResting, nextSequence>>
    BY ZenonT(60), <2>1 DEF EngineInvariant, TypeOK, Counts
  <2>2. CASE /\ remaining > 0 /\ incoming.limit # NoLimit
             /\ book' = AddOrder(book, RestingOrder)
             /\ clientResting' = IndexRest(clientResting, RestingOrder)
             /\ nextSequence' = nextSequence + 1
    <3>1. ~\E p \in Prices : CanMatch(p)
      BY SMTT(60), <2>2 DEF Return
    <3>2. nextSequence \in Nat
      BY ZenonT(60) DEF EngineInvariant, TypeOK
    <3> QED BY SMTT(60), <1>1, <2>2, <3>1, <3>2, RestStep
  <2> QED BY ZenonT(60), <1>2, <2>1, <2>2
<1>4. TypeOK'
  BY SMTT(60), <1>1, <1>3 DEF EngineInvariant, TypeOK, SoundBook, Counts
<1>5. RestFindsSlot'
  BY ZenonT(60), <1>1 DEF RestFindsSlot
<1> QED BY ZenonT(60), <1>1, <1>3, <1>4, <1>5 DEF EngineInvariant

(* cancel of an id the index knows.                                        *)
LEMMA CancelRestingStep ==
    ASSUME EngineInvariant, NEW id \in OrderIds, CancelResting(id)
    PROVE  EngineInvariant'
<1> DEFINE s == FindOrder(book, id)
<1>1. /\ pc = "idle" /\ pc' = pc /\ s # NoSlot
      /\ book' = RemoveOrder(book, s)
      /\ clientResting' = IndexUnrest(clientResting, book.order[s])
      /\ nextSequence' = nextSequence /\ lastAcceptedId' = lastAcceptedId
      /\ incoming' = incoming /\ remaining' = remaining /\ level' = level
      /\ trades' = trades
  BY ZenonT(60) DEF CancelResting, callVars
<1>2. SoundBook(book) /\ book \in Books /\ clientResting \in Counts
  BY ZenonT(60) DEF EngineInvariant, TypeOK, Counts
<1>3. s \in Resting(book)
  BY ZenonT(60), <1>1, <1>2 DEF SoundBook, IndexLeadsHome, FindOrder
<1> HIDE DEF s
<1>4. book.order[s] \in Orders
  BY ZenonT(60), <1>2, <1>3, RestingOrderIs
<1>5. SoundBook(book') /\ Shrunk(book', book)
  BY ZenonT(60), <1>1, <1>2, <1>3, RemoveOrderSound
<1>6. clientResting' \in Counts
  BY ZenonT(60), <1>1, <1>2, <1>4, IndexTyped
<1>7. TypeOK'
  BY ZenonT(60), <1>1, <1>5, <1>6 DEF EngineInvariant, TypeOK, SoundBook, Counts
<1>8. (\A t \in Resting(book) : book.order[t].sequence < nextSequence)'
  BY ZenonT(60), <1>1, <1>5 DEF EngineInvariant, Shrunk
<1>9. RestFindsSlot'
  BY SMTT(60), <1>1 DEF RestFindsSlot
<1> QED BY ZenonT(60), <1>1, <1>5, <1>7, <1>8, <1>9 DEF EngineInvariant

(* No step of submit or cancel breaks the invariant.                       *)
LEMMA EngineSteps == EngineInvariant /\ [Next]_vars => EngineInvariant'
<1> SUFFICES ASSUME EngineInvariant, [Next]_vars PROVE EngineInvariant'
  BY SMTT(60)
<1>1. ASSUME NEW o \in Submits, SubmitRejected(o) PROVE EngineInvariant'
  BY ZenonT(60), <1>1, CallIdles DEF SubmitRejected
<1>2. ASSUME NEW o \in Submits, SubmitAccepted(o) PROVE EngineInvariant'
  BY SMTT(60), <1>2, SubmitAcceptedStep DEF Submits
<1>3. ASSUME NEW p \in Prices, FetchLevel(p) PROVE EngineInvariant'
  BY SMTT(60), <1>3, FetchLevelStep
<1>4. CASE CancelOwn
  BY SMTT(60), <1>4, CancelOwnStep
<1>5. CASE Fill
  BY ZenonT(60), <1>5, FillStep
<1>6. CASE Return
  BY SMTT(60), <1>6, ReturnStep
<1>7. ASSUME NEW id \in OrderIds, CancelUnknown(id) PROVE EngineInvariant'
  BY ZenonT(60), <1>7, CallIdles DEF CancelUnknown
<1>8. ASSUME NEW id \in OrderIds, CancelResting(id) PROVE EngineInvariant'
  BY SMTT(60), <1>8, CancelRestingStep
<1>9. CASE UNCHANGED vars
  BY SMTT(60), <1>9, CallIdles DEF vars
<1> QED BY ZenonT(60), <1>1, <1>2, <1>3, <1>4, <1>5, <1>6, <1>7, <1>8, <1>9 DEF Next

-----------------------------------------------------------------------------
(* The theorems.                                                           *)

(* Whatever calls of submit and cancel are made, between any two steps the *)
(* book is sound and a call in progress is where the code expects to be.   *)
THEOREM EngineInvariantHolds == Spec => []EngineInvariant
BY EngineStarts, EngineSteps, PTL DEF Spec

(* The book, the counters and the call in progress keep their types.       *)
THEOREM TypesHold == Spec => []TypeOK
<1>1. EngineInvariant => TypeOK
  BY ZenonT(60) DEF EngineInvariant
<1> QED BY <1>1, EngineInvariantHolds, PTL

(* matching_engine.cpp never leaves a buy and a sell in the book that      *)
(* could trade with each other, not even between two fills of a call.      *)
THEOREM BookUncrossedHolds == Spec => []BookUncrossed
<1>1. EngineInvariant => BookUncrossed
  BY ZenonT(60) DEF EngineInvariant, SoundBook, BookUncrossed
<1> QED BY <1>1, EngineInvariantHolds, PTL

(* No sequence of submits and cancels leaks a slot of the order pool,      *)
(* hands one out twice, or queues an order twice or at a foreign level.    *)
THEOREM SlotsAccountedForHolds == Spec => []SlotsAccountedFor
<1>1. EngineInvariant => SlotsAccountedFor
  BY ZenonT(60) DEF EngineInvariant, SoundBook, SlotsAccountedFor
<1> QED BY <1>1, EngineInvariantHolds, PTL

(* Every price level is queued in order of arrival.                        *)
THEOREM LevelsAreFifoHolds == Spec => []LevelsAreFifo
<1>1. EngineInvariant => LevelsAreFifo
  BY ZenonT(60) DEF EngineInvariant, SoundBook, LevelsAreFifo
<1> QED BY <1>1, EngineInvariantHolds, PTL

(* The id index never leads cancel to a free slot or to an order with      *)
(* another id, also when two clients use the same id.                      *)
THEOREM IndexNeverDanglesHolds == Spec => []IndexNeverDangles
<1>1. EngineInvariant => IndexNeverDangles
  BY ZenonT(60) DEF EngineInvariant, SoundBook, IndexNeverDangles
<1> QED BY <1>1, EngineInvariantHolds, PTL

(* The pool check made before matching is enough: an accepted limit order  *)
(* finds a slot when its remainder comes to rest.                          *)
THEOREM RestFindsSlotHolds == Spec => []RestFindsSlot
<1>1. EngineInvariant => RestFindsSlot
  BY ZenonT(60) DEF EngineInvariant
<1> QED BY <1>1, EngineInvariantHolds, PTL

(* The order a fill trades with is the oldest one at the best price.       *)
LEMMA FillPriority ==
    ASSUME EngineInvariant, Fill
    PROVE  Front \in RestingOn(Opposite(incoming.side)) /\ FillsBestOldest(Front)
<1> DEFINE side == Opposite(incoming.side)
<1>1. pc = "level" /\ event' = Trade
  BY ZenonT(60) DEF Fill
<1>2. /\ Front \in Resting(book) /\ book.order[Front].side = side
      /\ book.order[Front].price = level
      /\ \A t \in Resting(book) :
            book.order[t].side = side /\ book.order[t].price = level /\ t # Front
              => book.order[Front].sequence < book.order[t].sequence
  BY ZenonT(60), <1>1, FrontIs
<1>3. /\ event'.price = level
      /\ event'.sell = IF incoming.side = "Sell" THEN incoming.id ELSE book.order[Front].id
      /\ event'.buy = IF incoming.side = "Buy" THEN incoming.id ELSE book.order[Front].id
  BY ZenonT(60), <1>1, <1>2 DEF Trade
<1>4. /\ SoundBook(book) /\ incoming.side \in Sides
      /\ IsBest(book, side, level) /\ Crosses(incoming.side, incoming.limit, level)
  BY ZenonT(60), <1>1 DEF EngineInvariant, TypeOK, NewOrders, CanMatch, IsBestOpposite
<1>5. ASSUME NEW t \in Resting(book), book.order[t].side = side
      PROVE  Crosses(incoming.side, book.order[t].price, level)
  <2> DEFINE price == book.order[t].price
  <2>1. price \in Levels(book, side)
    BY ZenonT(60), <1>4, <1>5, RestingHasLevel
  <2> HIDE DEF price
  <2>2. IF side = "Buy" THEN level >= price ELSE level <= price
    BY ZenonT(60), <1>4, <2>1 DEF IsBest
  <2>3. Crosses(incoming.side, price, level)
    <3>1. CASE incoming.side = "Buy"
      BY ZenonT(60), <2>2, <3>1 DEF Crosses, Opposite
    <3>2. CASE incoming.side = "Sell"
      BY ZenonT(60), <2>2, <3>2 DEF Crosses, Opposite
    <3> QED BY ZenonT(60), <1>4, <3>1, <3>2 DEF Sides
  <2> QED BY ZenonT(60), <2>3 DEF price
<1>6. book.order[Front].id = IF incoming.side = "Buy" THEN event'.sell ELSE event'.buy
  BY ZenonT(60), <1>3, <1>4 DEF Sides
<1> HIDE DEF side
<1>7. \A t \in RestingOn(side) \ {Front} :
         /\ Crosses(incoming.side, book.order[t].price, event'.price)
         /\ book.order[t].price = event'.price
              => book.order[Front].sequence < book.order[t].sequence
  BY ZenonT(60), <1>2, <1>3, <1>5 DEF RestingOn
<1>8. Front \in RestingOn(side)
  BY SMTT(60), <1>2 DEF RestingOn
<1> QED BY ZenonT(60), <1>2, <1>3, <1>4, <1>6, <1>7, <1>8 DEF FillsBestOldest, side

(* match_against_book always fills the oldest of the best-priced orders of *)
(* the other side, at that order's price and within the incoming limit.    *)
THEOREM PriceTimePriorityHolds == Spec => PriceTimePriority
<1>1. EngineInvariant /\ [Next]_vars
        => [Traded => \E s \in RestingOn(Opposite(incoming.side)) : FillsBestOldest(s)]_vars
  <2> SUFFICES ASSUME EngineInvariant, Next, Traded
               PROVE  \E s \in RestingOn(Opposite(incoming.side)) : FillsBestOldest(s)
    BY SMTT(60)
  <2>1. CASE Fill
    BY ZenonT(60), <2>1, FillPriority
  <2>2. CASE Return
    BY SMTT(60), <2>2 DEF Return, NoEvent, Traded
  <2>3. CASE UNCHANGED trades
    BY ZenonT(60), <2>3 DEF Traded
  <2>4. Fill \/ Return \/ UNCHANGED trades
    BY SMTT(60) DEF Next, SubmitRejected, SubmitAccepted, FetchLevel, CancelOwn, CancelUnknown,
           CancelResting, callVars
  <2> QED BY ZenonT(60), <2>1, <2>2, <2>3, <2>4
<1> QED BY <1>1, EngineInvariantHolds, PTL DEF Spec, PriceTimePriority

-----------------------------------------------------------------------------
(* Whose id is whose and who trades with whom: no client has two orders of *)
(* one id, the index finds every order while clients use ids of their own, *)
(* the self-trade index is exact and nobody trades with itself.            *)

-----------------------------------------------------------------------------
(* What a step does to the set of resting orders.                          *)

(* The orders of r are orders of b, but for what is left of them.          *)
SameOrders(r, b) ==
    \A t \in Resting(r) : /\ r.order[t].id = b.order[t].id
                          /\ r.order[t].owner = b.order[t].owner
                          /\ r.order[t].side = b.order[t].side
                          /\ r.order[t].price = b.order[t].price

(* The order in slot s is gone, with the index entry of its id.            *)
TakenOut(r, b, s) ==
    /\ Resting(r) = Resting(b) \ {s} /\ SameOrders(r, b)
    /\ \A id \in OrderIds : r.index[id] = IF id = b.order[s].id THEN NoSlot ELSE b.index[id]

(* No order is gone or new.                                                *)
StillThere(r, b) ==
    /\ Resting(r) = Resting(b) /\ SameOrders(r, b)
    /\ \A id \in OrderIds : r.index[id] = b.index[id]

(* Order o has come to rest in slot s.                                     *)
PutIn(r, b, s, o) ==
    /\ s \in Slots \ Resting(b) /\ Resting(r) = Resting(b) \union {s}
    /\ r.order[s] = o /\ \A t \in Resting(b) : r.order[t] = b.order[t]
    /\ \A id \in OrderIds :
          r.index[id] = IF id = o.id /\ b.index[id] = NoSlot THEN s ELSE b.index[id]

(* remove_order.                                                           *)
LEMMA RemoveOrderTakesOut ==
    ASSUME NEW b \in Books, NEW s \in Resting(b)
    PROVE  TakenOut(RemoveOrder(b, s), b, s)
<1> DEFINE r == RemoveOrder(b, s)
<1>1. Resting(r) = Resting(b) \ {s} /\ \A t \in Resting(b) \ {s} : r.order[t] = b.order[t]
  BY ZenonT(60), RemoveOrderResting
<1>2. r.index = [b.index EXCEPT ![b.order[s].id] = NoSlot]
  BY ZenonT(60), RemoveOrderFields
<1>3. b.index \in [OrderIds -> Slots \union {NoSlot}]
  BY SMTT(60) DEF Books
<1> HIDE DEF r
<1>4. \A id \in OrderIds : r.index[id] = IF id = b.order[s].id THEN NoSlot ELSE b.index[id]
  BY ZenonT(60), <1>2, <1>3
<1>5. SameOrders(r, b)
  BY ZenonT(60), <1>1 DEF SameOrders
<1> QED BY ZenonT(60), <1>1, <1>4, <1>5 DEF TakenOut, r

(* A fill of a resting order.                                              *)
LEMMA ReduceOrderKeepsAll ==
    ASSUME NEW b \in Books, NEW s \in Resting(b), NEW qty \in Nat,
           qty <= b.order[s].quantity
    PROVE  StillThere(ReduceOrder(b, s, qty), b)
<1> DEFINE r == ReduceOrder(b, s, qty)
<1>1. /\ Resting(r) = Resting(b)
      /\ \A t \in Resting(b) : /\ r.order[t].id = b.order[t].id
                               /\ r.order[t].owner = b.order[t].owner
                               /\ r.order[t].side = b.order[t].side
                               /\ r.order[t].price = b.order[t].price
  BY ZenonT(60), ReduceOrderOrders
<1>2. r.index = b.index
  BY ReduceOrderFields
<1> HIDE DEF r
<1> QED BY ZenonT(60), <1>1, <1>2 DEF StillThere, SameOrders, r

(* add_order, when there is a slot.                                        *)
LEMMA AddOrderPutsIn ==
    ASSUME NEW b \in Books, SlotsAccounted(b), NEW o \in Orders, b.free # <<>>
    PROVE  PutIn(AddOrder(b, o), b, Head(b.free), o)
<1> DEFINE r == AddOrder(b, o)
           s == Head(b.free)
<1>1. /\ s \in Slots /\ s \notin Resting(b) /\ r.order[s] = o
      /\ \A t \in Slots \ {s} : r.order[t] = b.order[t]
      /\ Resting(r) = Resting(b) \union {s}
  BY ZenonT(60), AddOrderSlots
<1>2. r.index = [id \in DOMAIN b.index |->
                   IF id = o.id /\ b.index[id] = NoSlot THEN s ELSE b.index[id]]
  BY SMTT(60), AddOrderIndex
<1>3. DOMAIN b.index = OrderIds
  BY SMTT(60) DEF Books
<1> HIDE DEF r, s
<1>4. \A id \in OrderIds :
         r.index[id] = IF id = o.id /\ b.index[id] = NoSlot THEN s ELSE b.index[id]
  BY SMTT(60), <1>2, <1>3
<1>5. \A t \in Resting(b) : r.order[t] = b.order[t]
  BY SMTT(60), <1>1 DEF Resting
<1> QED BY Zenon, <1>1, <1>4, <1>5 DEF PutIn, r, s

(* A fill takes the order out exactly when nothing is left of it.          *)
LEMMA FilledBookOrders ==
    ASSUME EngineInvariant, pc = "level"
    PROVE  IF FullyConsumed THEN TakenOut(FilledBook, book, Front)
           ELSE StillThere(FilledBook, book)
<1> DEFINE b == ReduceOrder(book, Front, FillQty)
<1>1. SoundBook(book) /\ book \in Books /\ Front \in Resting(book)
  BY ZenonT(60), FrontIs DEF EngineInvariant, SoundBook
<1>2. b \in Books
  BY ZenonT(60), <1>1, FillQtyIs, ReduceOrderSound DEF SoundBook
<1>3. StillThere(b, book)
  BY ZenonT(60), <1>1, FillQtyIs, ReduceOrderKeepsAll
<1>4. FilledBook = IF FullyConsumed THEN RemoveOrder(b, Front) ELSE b
  BY SMTT(60) DEF FilledBook
<1> HIDE DEF b
<1>5. TakenOut(RemoveOrder(b, Front), b, Front)
  BY ZenonT(60), <1>1, <1>2, <1>3, RemoveOrderTakesOut DEF StillThere
<1>6. TakenOut(RemoveOrder(b, Front), book, Front)
  <2> DEFINE r == RemoveOrder(b, Front)
  <2> HIDE DEF r
  <2>1. TakenOut(r, b, Front)
    BY SMTT(60), <1>5 DEF r
  <2>2. Resting(r) = Resting(book) \ {Front}
    BY ZenonT(60), <1>3, <2>1 DEF TakenOut, StillThere
  <2>3. SameOrders(r, book)
    BY ZenonT(60), <1>3, <2>1, <2>2 DEF TakenOut, StillThere, SameOrders
  <2>4. b.order[Front].id = book.order[Front].id
    BY Zenon, <1>1, <1>3 DEF StillThere, SameOrders
  <2>5. \A id \in OrderIds :
           r.index[id] = IF id = book.order[Front].id THEN NoSlot ELSE book.index[id]
    BY ZenonT(60), <1>3, <2>1, <2>4 DEF TakenOut, StillThere
  <2> QED BY ZenonT(60), <2>2, <2>3, <2>5 DEF TakenOut, r
<1> QED BY ZenonT(60), <1>3, <1>4, <1>6

(* A step that may take one order out of the book, and its count with it.  *)
LosesAtMostOne ==
    \/ StillThere(book', book) /\ clientResting' = clientResting
    \/ \E s \in Resting(book) :
          /\ TakenOut(book', book, s)
          /\ clientResting' = IndexUnrest(clientResting, book.order[s])

(* A step that rests what remains of the incoming order and ends its call. *)
RestsRemainder ==
    /\ pc = "match" /\ pc' = "idle" /\ lastAcceptedId' = lastAcceptedId
    /\ remaining > 0 /\ incoming.limit # NoLimit
    /\ \E s \in Slots : PutIn(book', book, s, RestingOrder)
    /\ clientResting' = IndexRest(clientResting, RestingOrder)

(* A step that accepts no order and rests none.                            *)
GoesOn ==
    /\ LosesAtMostOne
    /\ lastAcceptedId' = lastAcceptedId
    /\ pc' = "idle" \/ (pc # "idle" /\ pc' # "idle" /\ incoming' = incoming)

(* An unchanged book has the same orders.                                  *)
LEMMA UnchangedStillThere ==
    ASSUME book' = book, clientResting' = clientResting
    PROVE  LosesAtMostOne
BY ZenonT(60) DEF LosesAtMostOne, StillThere, SameOrders

(* What comes to rest is an order.                                         *)
LEMMA RestingOrderTyped ==
    ASSUME EngineInvariant, pc = "match", incoming.limit # NoLimit
    PROVE  RestingOrder \in Orders
<1>1. /\ incoming.id \in OrderIds /\ incoming.owner \in Clients /\ incoming.side \in Sides
      /\ incoming.limit \in Prices /\ remaining \in Nat /\ nextSequence \in Nat
  BY ZenonT(60) DEF EngineInvariant, TypeOK, NewOrders
<1> QED BY ZenonT(60), <1>1 DEF RestingOrder, Orders

(* The end of submit rests what remains or leaves the book alone.          *)
LEMMA ReturnShape ==
    ASSUME EngineInvariant, Return
    PROVE  RestsRemainder \/ (book' = book /\ clientResting' = clientResting)
<1>1. /\ pc = "match" /\ pc' = "idle" /\ lastAcceptedId' = lastAcceptedId
      /\ \/ /\ remaining > 0 /\ incoming.limit # NoLimit
            /\ book' = AddOrder(book, RestingOrder)
            /\ clientResting' = IndexRest(clientResting, RestingOrder)
         \/ book' = book /\ clientResting' = clientResting
  BY ZenonT(60) DEF Return, bookVars
<1>2. CASE /\ remaining > 0 /\ incoming.limit # NoLimit
           /\ book' = AddOrder(book, RestingOrder)
           /\ clientResting' = IndexRest(clientResting, RestingOrder)
  <2>1. RestingOrder \in Orders
    BY SMTT(60), <1>1, <1>2, RestingOrderTyped
  <2>2. book.free # <<>> /\ book \in Books /\ SlotsAccounted(book)
    BY ZenonT(60), <1>1, <1>2 DEF EngineInvariant, RestFindsSlot, SoundBook
  <2>3. PutIn(book', book, Head(book.free), RestingOrder)
    BY ZenonT(60), <1>2, <2>1, <2>2, AddOrderPutsIn
  <2>4. \E s \in Slots : PutIn(book', book, s, RestingOrder)
    BY ZenonT(60), <2>3 DEF PutIn
  <2> QED BY ZenonT(60), <1>1, <1>2, <2>4 DEF RestsRemainder
<1> QED BY ZenonT(60), <1>1, <1>2

(* Every step of the engine is one of these.                               *)
LEMMA StepShapes ==
    ASSUME EngineInvariant, [Next]_vars
    PROVE  (\E o \in Submits : SubmitAccepted(o)) \/ RestsRemainder \/ GoesOn
<1>0. book \in Books /\ SoundBook(book)
  BY ZenonT(60) DEF EngineInvariant, SoundBook
<1>1. ASSUME NEW o \in Submits, SubmitRejected(o) PROVE GoesOn
  <2>1. pc' = "idle" /\ book' = book /\ clientResting' = clientResting
        /\ lastAcceptedId' = lastAcceptedId
    BY ZenonT(60), <1>1 DEF SubmitRejected, bookVars, callVars
  <2> QED BY ZenonT(60), <2>1, UnchangedStillThere DEF GoesOn
<1>2. ASSUME NEW p \in Prices, FetchLevel(p) PROVE GoesOn
  <2>1. pc # "idle" /\ pc' # "idle" /\ book' = book /\ clientResting' = clientResting
        /\ lastAcceptedId' = lastAcceptedId /\ incoming' = incoming
    BY ZenonT(60), <1>2 DEF FetchLevel, bookVars
  <2> QED BY ZenonT(60), <2>1, UnchangedStillThere DEF GoesOn
<1>3. CASE CancelOwn
  <2>1. /\ pc = "level" /\ pc' = "match" /\ book' = RemoveOrder(book, Front)
        /\ clientResting' = IndexUnrest(clientResting, book.order[Front])
        /\ lastAcceptedId' = lastAcceptedId /\ incoming' = incoming
    BY ZenonT(60), <1>3 DEF CancelOwn
  <2>2. Front \in Resting(book)
    BY ZenonT(60), <2>1, FrontIs
  <2>3. TakenOut(book', book, Front)
    BY ZenonT(60), <1>0, <2>1, <2>2, RemoveOrderTakesOut
  <2>4. pc # "idle" /\ pc' # "idle"
    BY SMTT(60), <2>1
  <2> QED BY ZenonT(60), <2>1, <2>2, <2>3, <2>4 DEF GoesOn, LosesAtMostOne
<1>4. CASE Fill
  <2>1. /\ pc = "level" /\ book' = FilledBook
        /\ clientResting' = IF FullyConsumed
                            THEN IndexUnrest(clientResting, book.order[Front])
                            ELSE clientResting
        /\ lastAcceptedId' = lastAcceptedId /\ incoming' = incoming
        /\ pc' = "match" \/ pc' = pc
    BY ZenonT(60), <1>4 DEF Fill
  <2>2. Front \in Resting(book)
    BY ZenonT(60), <2>1, FrontIs
  <2>3. IF FullyConsumed THEN TakenOut(book', book, Front) ELSE StillThere(book', book)
    BY ZenonT(60), <2>1, FilledBookOrders
  <2>4. pc # "idle" /\ pc' # "idle"
    BY SMTT(60), <2>1
  <2>5. LosesAtMostOne
    BY ZenonT(60), <2>1, <2>2, <2>3 DEF LosesAtMostOne
  <2> QED BY ZenonT(60), <2>1, <2>4, <2>5 DEF GoesOn
<1>5. CASE Return
  <2>1. CASE RestsRemainder
    BY SMTT(60), <2>1
  <2>2. CASE book' = book /\ clientResting' = clientResting
    <3>1. pc' = "idle" /\ lastAcceptedId' = lastAcceptedId
      BY SMTT(60), <1>5 DEF Return
    <3> QED BY ZenonT(60), <2>2, <3>1, UnchangedStillThere DEF GoesOn
  <2> QED BY ZenonT(60), <1>5, <2>1, <2>2, ReturnShape
<1>6. ASSUME NEW id \in OrderIds, CancelUnknown(id) PROVE GoesOn
  <2>1. pc' = "idle" /\ book' = book /\ clientResting' = clientResting
        /\ lastAcceptedId' = lastAcceptedId
    BY ZenonT(60), <1>6 DEF CancelUnknown, bookVars, callVars
  <2> QED BY ZenonT(60), <2>1, UnchangedStillThere DEF GoesOn
<1>7. ASSUME NEW id \in OrderIds, CancelResting(id) PROVE GoesOn
  <2> DEFINE s == FindOrder(book, id)
  <2>1. /\ pc' = "idle" /\ s # NoSlot /\ book' = RemoveOrder(book, s)
        /\ clientResting' = IndexUnrest(clientResting, book.order[s])
        /\ lastAcceptedId' = lastAcceptedId
    BY ZenonT(60), <1>7 DEF CancelResting, callVars
  <2>2. s \in Resting(book)
    BY ZenonT(60), <1>0, <2>1 DEF SoundBook, IndexLeadsHome, FindOrder
  <2> HIDE DEF s
  <2>3. TakenOut(book', book, s)
    BY ZenonT(60), <1>0, <2>1, <2>2, RemoveOrderTakesOut
  <2> QED BY ZenonT(60), <2>1, <2>2, <2>3 DEF GoesOn, LosesAtMostOne
<1>8. CASE UNCHANGED vars
  <2>1. pc' = pc /\ incoming' = incoming /\ book' = book /\ clientResting' = clientResting
        /\ lastAcceptedId' = lastAcceptedId
    BY ZenonT(60), <1>8 DEF vars, bookVars, callVars
  <2> QED BY ZenonT(60), <2>1, UnchangedStillThere DEF GoesOn
<1> QED BY ZenonT(60), <1>1, <1>2, <1>3, <1>4, <1>5, <1>6, <1>7, <1>8 DEF Next

-----------------------------------------------------------------------------
(* Whose id is whose.                                                      *)

(* A resting order has an id of its owner, not above the watermark.        *)
RestingIdsAccepted ==
    \A s \in Resting(book) :
        /\ book.order[s].id \in IdsOf[book.order[s].owner]
        /\ lastAcceptedId[book.order[s].owner] # NoWatermark
        /\ book.order[s].id <= lastAcceptedId[book.order[s].owner]

(* The order being matched set the watermark, and no other order of its    *)
(* owner has its id.                                                       *)
IncomingIdIsNew ==
    pc # "idle" =>
        /\ incoming.id \in IdsOf[incoming.owner]
        /\ lastAcceptedId[incoming.owner] = incoming.id
        /\ \A s \in Resting(book) :
              book.order[s].owner = incoming.owner => book.order[s].id # incoming.id

(* No client has two orders with the same id in the book.                  *)
OwnIdsDiffer ==
    \A s, t \in Resting(book) :
        book.order[s].owner = book.order[t].owner /\ book.order[s].id = book.order[t].id
          => s = t

OwnIdsInvariant == RestingIdsAccepted /\ IncomingIdIsNew /\ OwnIdsDiffer

(* A new order has a higher id than the watermark, so than any order of    *)
(* its owner in the book.                                                  *)
LEMMA OwnIdsAccept ==
    ASSUME EngineInvariant, OwnIdsInvariant, NEW o \in Submits, SubmitAccepted(o)
    PROVE  OwnIdsInvariant'
<1>1. /\ book' = book /\ pc' = "match" /\ incoming' = o
      /\ lastAcceptedId' = [lastAcceptedId EXCEPT ![o.owner] = o.id] /\ ~Used(o)
  BY ZenonT(60) DEF SubmitAccepted, Verdict, bookVars
<1>2. o.owner \in Clients /\ o.id \in OrderIds /\ o.id \in IdsOf[o.owner] /\ o.id \in Nat
  BY ZenonT(60), IdsAssumption DEF Submits, NewOrders
<1>3. lastAcceptedId \in [Clients -> OrderIds \union {NoWatermark}]
  BY ZenonT(60) DEF EngineInvariant, TypeOK
<1>4. /\ lastAcceptedId'[o.owner] = o.id
      /\ \A c \in Clients : c # o.owner => lastAcceptedId'[c] = lastAcceptedId[c]
  BY ZenonT(60), <1>1, <1>2, <1>3
<1>5. ASSUME NEW s \in Resting(book)
      PROVE  /\ book.order[s].owner \in Clients /\ book.order[s].id \in Nat
             /\ book.order[s].owner = o.owner => book.order[s].id < o.id
  <2>1. book.order[s].owner \in Clients /\ book.order[s].id \in Nat
    BY ZenonT(60), RestingOrderIs, IdsAssumption DEF EngineInvariant, SoundBook, Orders
  <2>2. ASSUME book.order[s].owner = o.owner
        PROVE  book.order[s].id < o.id
    <3> DEFINE w == lastAcceptedId[o.owner]
    <3>1. w # NoWatermark /\ book.order[s].id <= w
      BY ZenonT(60), <2>2 DEF OwnIdsInvariant, RestingIdsAccepted
    <3>2. ~(o.id <= w)
      BY ZenonT(60), <1>1, <3>1 DEF Used
    <3>3. w \in Nat
      BY ZenonT(60), <1>2, <1>3, <3>1, IdsAssumption
    <3> HIDE DEF w
    <3> QED BY SMTT(60), <1>2, <2>1, <3>1, <3>2, <3>3
  <2> QED BY ZenonT(60), <2>1, <2>2
<1>6. RestingIdsAccepted'
  <2> SUFFICES ASSUME NEW s \in Resting(book)
               PROVE  /\ book.order[s].id \in IdsOf[book.order[s].owner]
                      /\ lastAcceptedId'[book.order[s].owner] # NoWatermark
                      /\ book.order[s].id <= lastAcceptedId'[book.order[s].owner]
    BY ZenonT(60), <1>1 DEF RestingIdsAccepted
  <2>1. CASE book.order[s].owner = o.owner
    <3>1. o.id # NoWatermark
      BY SMTT(60), <1>2, NoWatermarkAssumption
    <3>2. book.order[s].id <= o.id
      BY SMTT(60), <1>2, <1>5, <2>1
    <3> QED BY ZenonT(60), <1>4, <2>1, <3>1, <3>2 DEF OwnIdsInvariant, RestingIdsAccepted
  <2>2. CASE book.order[s].owner # o.owner
    BY ZenonT(60), <1>4, <1>5, <2>2 DEF OwnIdsInvariant, RestingIdsAccepted
  <2> QED BY ZenonT(60), <2>1, <2>2
<1>7. IncomingIdIsNew'
  <2>1. \A s \in Resting(book) : book.order[s].owner = o.owner => book.order[s].id # o.id
    BY <1>2, <1>5
  <2> QED BY ZenonT(60), <1>1, <1>2, <1>4, <2>1 DEF IncomingIdIsNew
<1>8. OwnIdsDiffer'
  BY ZenonT(60), <1>1 DEF OwnIdsInvariant, OwnIdsDiffer
<1> QED BY SMTT(60), <1>6, <1>7, <1>8 DEF OwnIdsInvariant

(* The order that comes to rest is the only one of its owner with its id.  *)
LEMMA OwnIdsRest ==
    ASSUME EngineInvariant, OwnIdsInvariant, RestsRemainder
    PROVE  OwnIdsInvariant'
<1>1. PICK n \in Slots : PutIn(book', book, n, RestingOrder)
  BY DEF RestsRemainder
<1>2. RestingOrder.id = incoming.id /\ RestingOrder.owner = incoming.owner
  BY DEF RestingOrder
<1>3. pc # "idle" /\ pc' = "idle" /\ lastAcceptedId' = lastAcceptedId
  BY DEF RestsRemainder
<1>4. incoming.id \in Nat
  BY ZenonT(60), <1>3, IdsAssumption DEF EngineInvariant, TypeOK, NewOrders
<1>5. /\ Resting(book') = Resting(book) \union {n}
      /\ book'.order[n].id = incoming.id /\ book'.order[n].owner = incoming.owner
      /\ \A t \in Resting(book) : book'.order[t] = book.order[t]
  BY ZenonT(60), <1>1, <1>2 DEF PutIn
<1>6. /\ incoming.id \in IdsOf[incoming.owner]
      /\ lastAcceptedId[incoming.owner] = incoming.id
      /\ \A s \in Resting(book) :
            book.order[s].owner = incoming.owner => book.order[s].id # incoming.id
  BY ZenonT(60), <1>3 DEF OwnIdsInvariant, IncomingIdIsNew
<1>7. incoming.id # NoWatermark /\ incoming.id <= incoming.id
  BY <1>4, NoWatermarkAssumption
<1>8. RestingIdsAccepted'
  <2> SUFFICES ASSUME NEW s \in Resting(book')
               PROVE  /\ book'.order[s].id \in IdsOf[book'.order[s].owner]
                      /\ lastAcceptedId[book'.order[s].owner] # NoWatermark
                      /\ book'.order[s].id <= lastAcceptedId[book'.order[s].owner]
    BY Zenon, <1>3 DEF RestingIdsAccepted
  <2>1. CASE s = n
    BY ZenonT(60), <1>5, <1>6, <1>7, <2>1
  <2>2. CASE s \in Resting(book)
    BY ZenonT(60), <1>5, <2>2 DEF OwnIdsInvariant, RestingIdsAccepted
  <2> QED BY ZenonT(60), <1>5, <2>1, <2>2
<1>9. OwnIdsDiffer'
  BY ZenonT(60), <1>5, <1>6 DEF OwnIdsInvariant, OwnIdsDiffer
<1>10. IncomingIdIsNew'
  BY Zenon, <1>3 DEF IncomingIdIsNew
<1> QED BY SMTT(60), <1>8, <1>9, <1>10 DEF OwnIdsInvariant

(* A step that loses at most one order.                                    *)
LEMMA LosesAtMostOneKeeps ==
    ASSUME LosesAtMostOne
    PROVE  Resting(book') \subseteq Resting(book) /\ SameOrders(book', book)
BY Zenon DEF LosesAtMostOne, StillThere, TakenOut

(* Losing an order makes no two ids the same.                              *)
LEMMA OwnIdsGoOn ==
    ASSUME OwnIdsInvariant, GoesOn
    PROVE  OwnIdsInvariant'
<1>1. Resting(book') \subseteq Resting(book) /\ SameOrders(book', book)
  BY Zenon, LosesAtMostOneKeeps DEF GoesOn
<1>2. lastAcceptedId' = lastAcceptedId
      /\ (pc' = "idle" \/ (pc # "idle" /\ pc' # "idle" /\ incoming' = incoming))
  BY DEF GoesOn
<1>3. RestingIdsAccepted'
  BY ZenonT(60), <1>1, <1>2 DEF OwnIdsInvariant, RestingIdsAccepted, SameOrders
<1>4. IncomingIdIsNew'
  BY ZenonT(60), <1>1, <1>2 DEF OwnIdsInvariant, IncomingIdIsNew, SameOrders
<1>5. OwnIdsDiffer'
  BY ZenonT(60), <1>1 DEF OwnIdsInvariant, OwnIdsDiffer, SameOrders
<1> QED BY <1>3, <1>4, <1>5 DEF OwnIdsInvariant

(* At first nothing rests.                                                 *)
LEMMA OwnIdsStart == Init => OwnIdsInvariant
BY Zenon, EmptyBookSound
   DEF Init, OwnIdsInvariant, RestingIdsAccepted, IncomingIdIsNew, OwnIdsDiffer

(* No step gives a client two orders of one id.                            *)
LEMMA OwnIdsSteps == EngineInvariant /\ OwnIdsInvariant /\ [Next]_vars => OwnIdsInvariant'
BY ZenonT(60), StepShapes, OwnIdsAccept, OwnIdsRest, OwnIdsGoOn

(* However clients choose their ids, no client ever has two orders of one  *)
(* id in the book or one there that has the id of the order being matched. *)
THEOREM OwnIdsHold == Spec => []OwnIdsInvariant
BY OwnIdsStart, OwnIdsSteps, EngineInvariantHolds, PTL DEF Spec

-----------------------------------------------------------------------------
(* The index and the lists.                                                *)

(* Every client uses ids of its own.                                       *)
IdsAreDisjoint == \A c, d \in Clients : c # d => IdsOf[c] \intersect IdsOf[d] = {}

(* Resting an order whose id no resting order has.                         *)
LEMMA PutInAgrees ==
    ASSUME IndexLeadsHome(book), IndexAgreesWithLists, NEW o \in Orders, NEW n \in Slots,
           PutIn(book', book, n, o), \A s \in Resting(book) : book.order[s].id # o.id,
           \A s \in Resting(book) : book.order[s].id \in OrderIds
    PROVE  IndexAgreesWithLists'
<1>1. o.id \in OrderIds
  BY DEF Orders
<1>2. book.index[o.id] = NoSlot
  BY Zenon, <1>1 DEF IndexLeadsHome
<1>3. book'.index[o.id] = n /\ book'.order[n] = o /\ Resting(book') = Resting(book) \union {n}
  BY ZenonT(60), <1>1, <1>2 DEF PutIn
<1>4. ASSUME NEW s \in Resting(book)
      PROVE  book'.index[book'.order[s].id] = s
  BY ZenonT(60) DEF PutIn, IndexAgreesWithLists
<1> QED BY ZenonT(60), <1>3, <1>4 DEF IndexAgreesWithLists

(* Losing an order takes the index entry of no other order.                *)
LEMMA LosesAgrees ==
    ASSUME IndexAgreesWithLists, LosesAtMostOne,
           \A s \in Resting(book) : book.order[s].id \in OrderIds
    PROVE  IndexAgreesWithLists'
<1>1. CASE StillThere(book', book)
  BY ZenonT(60), <1>1 DEF StillThere, SameOrders, IndexAgreesWithLists
<1>2. ASSUME NEW s \in Resting(book), TakenOut(book', book, s)
      PROVE  IndexAgreesWithLists'
  <2>1. ASSUME NEW t \in Resting(book')
        PROVE  book'.index[book'.order[t].id] = t
    <3>1. t \in Resting(book) /\ t # s /\ book'.order[t].id = book.order[t].id
      BY ZenonT(60), <1>2, <2>1 DEF TakenOut, SameOrders
    <3>2. book.order[t].id # book.order[s].id
      BY ZenonT(60), <3>1 DEF IndexAgreesWithLists
    <3>3. book.order[t].id \in OrderIds /\ book.index[book.order[t].id] = t
      BY ZenonT(60), <3>1 DEF IndexAgreesWithLists
    <3> QED BY ZenonT(60), <1>2, <3>1, <3>2, <3>3 DEF TakenOut
  <2> QED BY Zenon, <2>1 DEF IndexAgreesWithLists
<1> QED BY Zenon, <1>1, <1>2 DEF LosesAtMostOne

(* While no two clients use the same id, the id index and the lists never  *)
(* disagree about what is resting, so that cancel finds every resting      *)
(* order; sharing ids is the only way to break it.                         *)
THEOREM IndexAgreesWithOwnIds ==
    ASSUME IdsAreDisjoint
    PROVE  Spec => []IndexAgreesWithLists
<1>1. Init => IndexAgreesWithLists
  BY ZenonT(60), EmptyBookSound DEF Init, IndexAgreesWithLists
<1>2. EngineInvariant /\ OwnIdsInvariant /\ IndexAgreesWithLists /\ [Next]_vars
        => IndexAgreesWithLists'
  <2> SUFFICES ASSUME EngineInvariant, OwnIdsInvariant, IndexAgreesWithLists, [Next]_vars
               PROVE  IndexAgreesWithLists'
    OBVIOUS
  <2>1. ASSUME NEW s \in Resting(book)
        PROVE  book.order[s].id \in OrderIds /\ book.order[s].owner \in Clients
    BY ZenonT(60), RestingOrderIs DEF EngineInvariant, SoundBook, Orders
  <2>2. ASSUME NEW o \in Submits, SubmitAccepted(o) PROVE IndexAgreesWithLists'
    BY Zenon, <2>2 DEF SubmitAccepted, bookVars, IndexAgreesWithLists
  <2>3. CASE RestsRemainder
    <3>1. PICK n \in Slots : PutIn(book', book, n, RestingOrder)
      BY <2>3 DEF RestsRemainder
    <3>2. RestingOrder \in Orders /\ pc # "idle" /\ incoming.owner \in Clients
      BY ZenonT(60), <2>3, RestingOrderTyped
         DEF RestsRemainder, EngineInvariant, TypeOK, NewOrders
    <3>3. ASSUME NEW s \in Resting(book) PROVE book.order[s].id # RestingOrder.id
      <4>1. RestingOrder.id = incoming.id
        BY DEF RestingOrder
      <4>2. /\ book.order[s].id \in IdsOf[book.order[s].owner]
            /\ incoming.id \in IdsOf[incoming.owner]
            /\ book.order[s].owner = incoming.owner => book.order[s].id # incoming.id
        BY ZenonT(60), <3>2 DEF OwnIdsInvariant, RestingIdsAccepted, IncomingIdIsNew
      <4> QED BY ZenonT(60), <2>1, <3>2, <4>1, <4>2 DEF IdsAreDisjoint
    <3>4. IndexLeadsHome(book)
      BY ZenonT(60) DEF EngineInvariant, SoundBook
    <3> QED BY ZenonT(60), <2>1, <3>1, <3>2, <3>3, <3>4, PutInAgrees
  <2>4. CASE GoesOn
    BY ZenonT(60), <2>1, <2>4, LosesAgrees DEF GoesOn
  <2> QED BY ZenonT(60), <2>2, <2>3, <2>4, StepShapes
<1> QED BY <1>1, <1>2, OwnIdsHold, EngineInvariantHolds, PTL DEF Spec

-----------------------------------------------------------------------------
(* The self-trade index.                                                   *)

(* The orders of client c that rest on a side at a price.                  *)
OwnAt(b, c, side, p) ==
    {s \in Resting(b) : /\ b.order[s].side = side
                        /\ b.order[s].owner = c /\ b.order[s].price = p}

(* The index counts exactly them.                                          *)
CountsExact ==
    \A c \in Clients, side \in Sides, p \in Prices :
        clientResting[c][side][p] = Cardinality(OwnAt(book, c, side, p))

(* There are only so many slots.                                           *)
LEMMA OwnAtFinite ==
    ASSUME NEW b, NEW c, NEW side, NEW p
    PROVE  /\ IsFiniteSet(OwnAt(b, c, side, p))
           /\ Cardinality(OwnAt(b, c, side, p)) \in Nat
           /\ Cardinality(OwnAt(b, c, side, p)) = 0 <=> OwnAt(b, c, side, p) = {}
<1>1. IsFiniteSet(Slots)
  BY PoolAssumption, FS_Interval DEF Slots
<1>2. OwnAt(b, c, side, p) \subseteq Slots
  BY DEF OwnAt, Resting
<1>3. IsFiniteSet(OwnAt(b, c, side, p))
  BY ZenonT(60), <1>1, <1>2, FS_Subset
<1> QED BY ZenonT(60), <1>3, FS_CardinalityType, FS_EmptySet

(* index_rest adds one to one count.                                       *)
LEMMA IndexRestAt ==
    ASSUME StpEnabled, NEW cr \in Counts, NEW o \in Orders,
           NEW c \in Clients, NEW side \in Sides, NEW p \in Prices
    PROVE  IndexRest(cr, o)[c][side][p]
             = IF c = o.owner /\ side = o.side /\ p = o.price
               THEN cr[c][side][p] + 1 ELSE cr[c][side][p]
<1>1. o.owner \in Clients /\ o.side \in Sides /\ o.price \in Prices
  BY SMTT(60) DEF Orders
<1> DEFINE d == o.owner
           e == o.side
           q == o.price
<1>2. IndexRest(cr, o) = [cr EXCEPT ![d][e][q] = cr[d][e][q] + 1]
  BY DEF IndexRest
<1>3. d \in Clients /\ e \in Sides /\ q \in Prices
  BY <1>1
<1> HIDE DEF d, e, q
<1>4. IndexRest(cr, o)[c][side][p]
        = IF c = d /\ side = e /\ p = q THEN cr[c][side][p] + 1 ELSE cr[c][side][p]
  BY SMTT(60), <1>2, <1>3 DEF Counts
<1> QED BY SMTT(60), <1>4 DEF d, e, q

(* index_unrest takes one from one count, when it is not 0.                *)
LEMMA IndexUnrestAt ==
    ASSUME StpEnabled, NEW cr \in Counts, NEW o \in Orders, cr[o.owner][o.side][o.price] > 0,
           NEW c \in Clients, NEW side \in Sides, NEW p \in Prices
    PROVE  IndexUnrest(cr, o)[c][side][p]
             = IF c = o.owner /\ side = o.side /\ p = o.price
               THEN cr[c][side][p] - 1 ELSE cr[c][side][p]
<1>1. o.owner \in Clients /\ o.side \in Sides /\ o.price \in Prices
  BY SMTT(60) DEF Orders
<1> DEFINE d == o.owner
           e == o.side
           q == o.price
<1>2. IndexUnrest(cr, o) = [cr EXCEPT ![d][e][q] = cr[d][e][q] - 1]
  BY DEF IndexUnrest
<1>3. d \in Clients /\ e \in Sides /\ q \in Prices
  BY SMTT(60), <1>1
<1> HIDE DEF d, e, q
<1>4. IndexUnrest(cr, o)[c][side][p]
        = IF c = d /\ side = e /\ p = q THEN cr[c][side][p] - 1 ELSE cr[c][side][p]
  BY SMTT(60), <1>2, <1>3 DEF Counts
<1> QED BY <1>4 DEF d, e, q

(* Resting an order: one count and one set of orders grow.                 *)
LEMMA CountsRest ==
    ASSUME StpEnabled, EngineInvariant, CountsExact, RestsRemainder
    PROVE  CountsExact'
<1> DEFINE o == RestingOrder
<1>1. PICK n \in Slots : PutIn(book', book, n, o)
  BY DEF RestsRemainder
<1>2. o \in Orders /\ clientResting \in Counts /\ clientResting' = IndexRest(clientResting, o)
  BY ZenonT(60), RestingOrderTyped DEF RestsRemainder, EngineInvariant, TypeOK, Counts
<1> HIDE DEF o
<1>3. ASSUME NEW c \in Clients, NEW side \in Sides, NEW p \in Prices
      PROVE  clientResting'[c][side][p] = Cardinality(OwnAt(book', c, side, p))
  <2> DEFINE k == OwnAt(book, c, side, p)
             m == OwnAt(book', c, side, p)
             here == c = o.owner /\ side = o.side /\ p = o.price
  <2>1. clientResting'[c][side][p]
          = IF here THEN clientResting[c][side][p] + 1 ELSE clientResting[c][side][p]
    BY SMTT(60), <1>2, IndexRestAt
  <2>2. clientResting[c][side][p] = Cardinality(k)
    BY Zenon DEF CountsExact
  <2>3. /\ n \notin Resting(book) /\ Resting(book') = Resting(book) \union {n}
        /\ book'.order[n] = o /\ \A t \in Resting(book) : book'.order[t] = book.order[t]
    BY ZenonT(60), <1>1 DEF PutIn
  <2>4. n \notin k
    BY <2>3 DEF OwnAt
  <2>5. CASE here
    <3>1. m = k \union {n}
      BY SMTT(60), <2>3, <2>5 DEF OwnAt
    <3> HIDE DEF k, m
    <3>2. IsFiniteSet(k)
      BY OwnAtFinite DEF k
    <3>3. Cardinality(m) = Cardinality(k) + 1
      BY ZenonT(60), <2>4, <3>1, <3>2, FS_AddElement
    <3> QED BY ZenonT(60), <2>1, <2>2, <2>5, <3>3 DEF m
  <2>6. CASE ~here
    <3>1. m = k
      BY SMTT(60), <2>3, <2>6 DEF OwnAt
    <3> QED BY ZenonT(60), <2>1, <2>2, <2>6, <3>1
  <2> QED BY SMTT(60), <2>5, <2>6
<1> QED BY ZenonT(60), <1>3 DEF CountsExact

(* Losing an order: its count is not 0, so it goes down with the orders.   *)
LEMMA CountsTakenOut ==
    ASSUME StpEnabled, EngineInvariant, CountsExact, NEW s \in Resting(book),
           TakenOut(book', book, s), clientResting' = IndexUnrest(clientResting, book.order[s])
    PROVE  CountsExact'
<1> DEFINE o == book.order[s]
<1>0. clientResting' = IndexUnrest(clientResting, o)
  OBVIOUS
<1>1. o \in Orders /\ clientResting \in Counts
  BY ZenonT(60), RestingOrderIs DEF EngineInvariant, SoundBook, TypeOK, Counts
<1>2. o.owner \in Clients /\ o.side \in Sides /\ o.price \in Prices
  BY SMTT(60), <1>1 DEF Orders
<1>3. s \in OwnAt(book, o.owner, o.side, o.price)
  BY DEF OwnAt
<1>4. clientResting[o.owner][o.side][o.price]
        = Cardinality(OwnAt(book, o.owner, o.side, o.price))
  BY ZenonT(60), <1>2 DEF CountsExact
<1> HIDE DEF o
<1>5. clientResting[o.owner][o.side][o.price] > 0
  <2> DEFINE n == Cardinality(OwnAt(book, o.owner, o.side, o.price))
  <2>1. n \in Nat /\ n # 0
    BY ZenonT(60), <1>3, OwnAtFinite
  <2> HIDE DEF n
  <2>2. n > 0
    BY <2>1
  <2> QED BY <1>4, <2>2 DEF n
<1>6. ASSUME NEW c \in Clients, NEW side \in Sides, NEW p \in Prices
      PROVE  clientResting'[c][side][p] = Cardinality(OwnAt(book', c, side, p))
  <2> DEFINE k == OwnAt(book, c, side, p)
             m == OwnAt(book', c, side, p)
             here == c = o.owner /\ side = o.side /\ p = o.price
  <2>1. clientResting'[c][side][p]
          = IF here THEN clientResting[c][side][p] - 1 ELSE clientResting[c][side][p]
    BY SMTT(60), <1>0, <1>1, <1>5, IndexUnrestAt
  <2>2. clientResting[c][side][p] = Cardinality(k)
    BY Zenon DEF CountsExact
  <2>3. /\ Resting(book') = Resting(book) \ {s}
        /\ \A t \in Resting(book') : /\ book'.order[t].owner = book.order[t].owner
                                     /\ book'.order[t].side = book.order[t].side
                                     /\ book'.order[t].price = book.order[t].price
    BY ZenonT(60) DEF TakenOut, SameOrders
  <2>4. m = k \ {s}
    BY SMTT(60), <2>3 DEF OwnAt
  <2>5. s \in k <=> here
    BY ZenonT(60) DEF OwnAt, o
  <2> HIDE DEF k, m
  <2>6. IsFiniteSet(k)
    BY OwnAtFinite DEF k
  <2>7. Cardinality(m) = IF s \in k THEN Cardinality(k) - 1 ELSE Cardinality(k)
    BY ZenonT(60), <2>4, <2>6, FS_RemoveElement
  <2> QED BY ZenonT(60), <2>1, <2>2, <2>5, <2>7 DEF m
<1> QED BY Zenon, <1>6 DEF CountsExact

(* Neither a partial fill nor an acceptance changes who rests where.       *)
LEMMA CountsStillThere ==
    ASSUME CountsExact, StillThere(book', book), clientResting' = clientResting
    PROVE  CountsExact'
<1>1. ASSUME NEW c, NEW side, NEW p
      PROVE  OwnAt(book', c, side, p) = OwnAt(book, c, side, p)
  BY SMTT(60) DEF StillThere, SameOrders, OwnAt
<1> QED BY SMTT(60), <1>1 DEF CountsExact

(* At first there is nothing to count.                                     *)
LEMMA CountsStart == Init => CountsExact
<1> SUFFICES ASSUME Init, NEW c \in Clients, NEW side \in Sides, NEW p \in Prices
             PROVE  clientResting[c][side][p] = Cardinality(OwnAt(book, c, side, p))
  BY DEF CountsExact
<1>1. clientResting[c][side][p] = 0
  BY DEF Init
<1>2. OwnAt(book, c, side, p) = {}
  BY Zenon, EmptyBookSound DEF Init, OwnAt
<1> QED BY ZenonT(60), <1>1, <1>2, FS_EmptySet

(* No step lets a count drift from the orders it counts.                   *)
LEMMA CountsSteps ==
    ASSUME StpEnabled, EngineInvariant, CountsExact, [Next]_vars
    PROVE  CountsExact'
<1>1. ASSUME NEW o \in Submits, SubmitAccepted(o) PROVE CountsExact'
  <2>1. book' = book /\ clientResting' = clientResting
    BY ZenonT(60), <1>1 DEF SubmitAccepted, bookVars
  <2> QED BY ZenonT(60), <2>1, CountsStillThere DEF StillThere, SameOrders
<1>2. CASE RestsRemainder
  BY <1>2, CountsRest
<1>3. CASE GoesOn
  BY ZenonT(60), <1>3, CountsStillThere, CountsTakenOut DEF GoesOn, LosesAtMostOne
<1> QED BY ZenonT(60), <1>1, <1>2, <1>3, StepShapes

(* The owner's best price among those it has orders at.                    *)
LEMMA OwnBestExists ==
    ASSUME NEW own, own \subseteq Prices, own # {}
    PROVE  /\ \E p \in own : \A q \in own : p <= q
           /\ \E p \in own : \A q \in own : p >= q
<1>1. PICK m \in Prices : \A p \in Prices : p <= m
  BY PricesAssumption
<1>2. own \subseteq Nat /\ own \subseteq 1..m /\ m \in Nat
  BY <1>1, PricesAssumption
<1> QED BY ZenonT(60), <1>2, HasLeast, HasGreatest

(* When a price crosses, so does every better one.                         *)
LEMMA BetterCrosses ==
    ASSUME NEW side \in Sides, NEW limit \in Int \union {NoLimit}, NEW p \in Int, NEW q \in Int,
           IF side = "Buy" THEN p <= q ELSE p >= q, Crosses(side, limit, q)
    PROVE  Crosses(side, limit, p)
BY DEF Crosses, Sides

(* would_self_cross is right as long as the counts are.                    *)
LEMMA WouldSelfCrossRight ==
    ASSUME StpEnabled, EngineInvariant, CountsExact, NEW o \in Submits
    PROVE  WouldSelfCross(o) <=>
             \E s \in RestingOn(Opposite(o.side)) :
                /\ book.order[s].owner = o.owner
                /\ Crosses(o.side, o.limit, book.order[s].price)
<1> DEFINE side == Opposite(o.side)
           own == {p \in Prices : clientResting[o.owner][side][p] > 0}
           Mine(s) == s \in Resting(book) /\ book.order[s].side = side
                        /\ book.order[s].owner = o.owner
           Best(p) == \A q \in own : IF o.side = "Buy" THEN p <= q ELSE p >= q
<1>1. o.owner \in Clients /\ o.side \in Sides /\ side \in Sides
      /\ o.limit \in Prices \union BadPrices \union {NoLimit}
  BY Zenon, OppositeSide DEF Submits, NewOrders
<1>2. o.limit \in Int \union {NoLimit} /\ Prices \subseteq Int
  <2>1. Prices \subseteq Int
    BY PricesAssumption
  <2>2. BadPrices \subseteq Int
    BY BadPricesAssumption
  <2> QED BY Zenon, <1>1, <2>1, <2>2
<1>3. WouldSelfCross(o) <=> \E p \in own : Best(p) /\ Crosses(o.side, o.limit, p)
  BY DEF WouldSelfCross
<1>4. (\E s \in RestingOn(Opposite(o.side)) :
         /\ book.order[s].owner = o.owner
         /\ Crosses(o.side, o.limit, book.order[s].price))
        <=> \E s : Mine(s) /\ Crosses(o.side, o.limit, book.order[s].price)
  BY Zenon DEF RestingOn
<1> HIDE DEF side
<1>5. ASSUME NEW p \in Prices
      PROVE  p \in own <=> \E s : Mine(s) /\ book.order[s].price = p
  <2> DEFINE k == OwnAt(book, o.owner, side, p)
  <2>1. clientResting[o.owner][side][p] = Cardinality(k)
    BY Zenon, <1>1 DEF CountsExact
  <2>2. Cardinality(k) \in Nat /\ (Cardinality(k) = 0 <=> k = {})
    BY Zenon, OwnAtFinite
  <2>3. k # {} <=> \E s : Mine(s) /\ book.order[s].price = p
    BY Zenon DEF OwnAt
  <2> HIDE DEF k
  <2>4. Cardinality(k) > 0 <=> k # {}
    BY <2>2
  <2> HIDE DEF Mine
  <2> QED BY Zenon, <2>1, <2>3, <2>4
<1>6. ASSUME NEW s, Mine(s) PROVE book.order[s].price \in own
  <2>1. book.order[s].price \in Prices
    BY ZenonT(60), <1>6, RestingOrderIs DEF EngineInvariant, SoundBook
  <2> HIDE DEF own
  <2> QED BY ZenonT(60), <1>5, <1>6, <2>1
<1>7. own \subseteq Prices
  OBVIOUS
<1> HIDE DEF own, Mine
<1>8. own # {} => \E p \in own : Best(p)
  <2>1. own # {} => (\E p \in own : \A q \in own : p <= q)
                    /\ (\E p \in own : \A q \in own : p >= q)
    BY ZenonT(60), <1>7, OwnBestExists
  <2>2. CASE o.side = "Buy"
    BY ZenonT(60), <2>1, <2>2
  <2>3. CASE o.side # "Buy"
    BY Zenon, <2>1, <2>3
  <2> QED BY <2>2, <2>3
<1>9. ASSUME NEW p \in own, NEW q \in own, Best(p), Crosses(o.side, o.limit, q)
      PROVE  Crosses(o.side, o.limit, p)
  <2>1. p \in Int /\ q \in Int
    BY <1>2, <1>7
  <2>2. IF o.side = "Buy" THEN p <= q ELSE p >= q
    BY ZenonT(60), <1>9
  <2> QED BY ZenonT(60), <1>1, <1>2, <1>9, <2>1, <2>2, BetterCrosses
<1> HIDE DEF Best
<1>10. ASSUME NEW p \in own, Crosses(o.side, o.limit, p)
       PROVE  \E s : Mine(s) /\ Crosses(o.side, o.limit, book.order[s].price)
  <2>1. PICK s : Mine(s) /\ book.order[s].price = p
    BY ZenonT(60), <1>5, <1>7
  <2> QED BY ZenonT(60), <1>10, <2>1
<1>11. ASSUME NEW s, Mine(s), Crosses(o.side, o.limit, book.order[s].price)
       PROVE  \E p \in own : Best(p) /\ Crosses(o.side, o.limit, p)
  <2>1. book.order[s].price \in own
    BY ZenonT(60), <1>6, <1>11
  <2>2. PICK p \in own : Best(p)
    BY ZenonT(60), <1>8, <2>1
  <2> QED BY ZenonT(60), <1>9, <1>11, <2>1, <2>2
<1> QED BY ZenonT(60), <1>3, <1>4, <1>10, <1>11

(* As long as the counts are exact, so is what is drawn from them.         *)
LEMMA CountsGiveSelfCross ==
    EngineInvariant /\ (StpEnabled => CountsExact) => SelfCrossExact
<1> SUFFICES ASSUME EngineInvariant, StpEnabled, CountsExact PROVE SelfCrossExact
  BY DEF SelfCrossExact
<1>1. ASSUME NEW c \in Clients, NEW side \in Sides, NEW p \in Prices
      PROVE  clientResting[c][side][p]
               = Cardinality({s \in RestingOn(side) : /\ book.order[s].owner = c
                                                      /\ book.order[s].price = p})
  <2> DEFINE k == {s \in RestingOn(side) : /\ book.order[s].owner = c
                                           /\ book.order[s].price = p}
  <2>1. k = OwnAt(book, c, side, p)
    BY SMTT(60) DEF RestingOn, OwnAt
  <2> HIDE DEF k
  <2>2. clientResting[c][side][p] = Cardinality(k)
    BY <2>1 DEF CountsExact
  <2> QED BY <2>2 DEF k
<1> QED BY ZenonT(60), <1>1, WouldSelfCrossRight DEF SelfCrossExact

(* The counts of the index and the answer would_self_cross draws from them *)
(* are those of a walk through the resting orders, for every way of        *)
(* submitting, filling and cancelling.                                     *)
THEOREM SelfCrossExactHolds == Spec => []SelfCrossExact
<1>1. Init => (StpEnabled => CountsExact)
  BY CountsStart
<1>2. EngineInvariant /\ (StpEnabled => CountsExact) /\ [Next]_vars => (StpEnabled => CountsExact)'
  BY ZenonT(60), CountsSteps
<1> QED BY <1>1, <1>2, CountsGiveSelfCross, EngineInvariantHolds, PTL DEF Spec

-----------------------------------------------------------------------------
(* Nobody trades with itself.                                              *)

(* The policy is one of the two; under RejectIncoming the order being      *)
(* matched crosses no order of its owner.                                  *)
NoOwnInReach ==
    /\ stpPolicy \in StpPolicies
    /\ StpEnabled /\ stpPolicy = "RejectIncoming" /\ pc # "idle" =>
          \A s \in RestingOn(Opposite(incoming.side)) :
              book.order[s].owner = incoming.owner
                => ~Crosses(incoming.side, incoming.limit, book.order[s].price)

(* The policy is fixed when the engine is constructed.                     *)
LEMMA PolicyFixed ==
    ASSUME [Next]_vars PROVE stpPolicy' = stpPolicy
BY DEF Next, SubmitRejected, SubmitAccepted, FetchLevel, CancelOwn, Fill, Return,
       CancelUnknown, CancelResting, vars

(* What validation found out of reach stays out of reach.                  *)
LEMMA NoOwnInReachSteps ==
    ASSUME EngineInvariant, SelfCrossExact, NoOwnInReach, [Next]_vars
    PROVE  NoOwnInReach'
<1>0. stpPolicy' = stpPolicy /\ stpPolicy \in StpPolicies
  BY ZenonT(60), PolicyFixed DEF NoOwnInReach
<1>1. ASSUME NEW o \in Submits, SubmitAccepted(o) PROVE NoOwnInReach'
  <2>1. book' = book /\ incoming' = o
    BY ZenonT(60), <1>1 DEF SubmitAccepted, bookVars
  <2>2. StpEnabled /\ stpPolicy = "RejectIncoming" => ~WouldSelfCross(o)
    BY <1>1 DEF SubmitAccepted, Verdict
  <2>3. StpEnabled /\ stpPolicy = "RejectIncoming" =>
           \A s \in RestingOn(Opposite(o.side)) :
              book.order[s].owner = o.owner => ~Crosses(o.side, o.limit, book.order[s].price)
    BY ZenonT(60), <2>2 DEF SelfCrossExact
  <2>4. \A side : RestingOn(side)' = RestingOn(side)
    BY ZenonT(60), <2>1 DEF RestingOn
  <2> QED BY ZenonT(60), <1>0, <2>1, <2>3, <2>4 DEF NoOwnInReach
<1>2. CASE pc' = "idle"
  BY ZenonT(60), <1>0, <1>2 DEF NoOwnInReach
<1>3. CASE GoesOn /\ pc' # "idle"
  <2>1. pc # "idle" /\ incoming' = incoming
    BY ZenonT(60), <1>3 DEF GoesOn
  <2>2. Resting(book') \subseteq Resting(book) /\ SameOrders(book', book)
    BY ZenonT(60), <1>3, LosesAtMostOneKeeps DEF GoesOn
  <2>3. ASSUME NEW side, NEW s \in RestingOn(side)'
        PROVE  /\ s \in RestingOn(side) /\ book'.order[s].owner = book.order[s].owner
               /\ book'.order[s].price = book.order[s].price
    BY ZenonT(60), <2>2 DEF RestingOn, SameOrders
  <2> QED BY ZenonT(60), <1>0, <2>1, <2>3 DEF NoOwnInReach
<1> QED BY ZenonT(60), <1>1, <1>2, <1>3, StepShapes DEF RestsRemainder

(* Only a fill hands a trade to the sink.                                  *)
LEMMA OnlyFillTrades ==
    ASSUME Next, Traded PROVE Fill
<1>1. CASE Return
  BY <1>1 DEF Return, NoEvent, Traded
<1>2. CASE UNCHANGED trades
  BY ZenonT(60), <1>2 DEF Traded
<1>3. Fill \/ Return \/ UNCHANGED trades
  BY DEF Next, SubmitRejected, SubmitAccepted, FetchLevel, CancelOwn, CancelUnknown,
         CancelResting, callVars
<1> QED BY ZenonT(60), <1>1, <1>2, <1>3

(* A fill never pairs two orders of one client.                            *)
LEMMA FillPairsTwoClients ==
    ASSUME EngineInvariant, NoOwnInReach, Next, StpEnabled, Traded
    PROVE  book.order[Front].owner # incoming.owner
<1>1. Fill
  BY ZenonT(60), OnlyFillTrades
<1>2. pc = "level" /\ pc # "idle" /\ ~SelfTrade(Front)
  BY <1>1 DEF Fill
<1>3. CASE stpPolicy = "CancelResting"
  BY ZenonT(60), <1>2, <1>3 DEF SelfTrade
<1>4. CASE stpPolicy = "RejectIncoming"
  <2>1. Front \in RestingOn(Opposite(incoming.side)) /\ book.order[Front].price = level
    BY ZenonT(60), <1>2, FrontIs DEF RestingOn
  <2>2. Crosses(incoming.side, incoming.limit, level)
    BY ZenonT(60), <1>2 DEF EngineInvariant, CanMatch
  <2> QED BY ZenonT(60), <1>2, <1>4, <2>1, <2>2 DEF NoOwnInReach
<1> QED BY ZenonT(60), <1>3, <1>4 DEF NoOwnInReach, StpPolicies

(* At first there is no call.                                              *)
LEMMA NoOwnInReachStarts == Init => NoOwnInReach
BY Zenon, StpAssumption DEF Init, NoOwnInReach

(* With self-trade prevention on, under either policy, no fill pairs two   *)
(* orders of one client: RejectIncoming rests on the counts being exact    *)
(* when the order was validated, CancelResting on the test of every fill.  *)
THEOREM NoSelfTradeHolds == Spec => NoSelfTrade
<1>1. EngineInvariant /\ SelfCrossExact /\ NoOwnInReach /\ [Next]_vars => NoOwnInReach'
  BY ZenonT(60), NoOwnInReachSteps
<1>2. EngineInvariant /\ NoOwnInReach /\ [Next]_vars
        => [StpEnabled /\ Traded => book.order[Front].owner # incoming.owner]_vars
  BY Zenon, FillPairsTwoClients
<1> QED BY <1>1, <1>2, NoOwnInReachStarts, SelfCrossExactHolds, EngineInvariantHolds, PTL
        DEF Spec, NoSelfTrade
=============================================================================
