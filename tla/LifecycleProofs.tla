-------------------------- MODULE LifecycleProofs ---------------------------
(* The matching engine implements OrderLifecycle: every step of a call is  *)
(* a step in the life of at most two orders; for every pool, set of        *)
(* clients, prices, quantities and ids, shared or not.                     *)
EXTENDS MatchingEngineProofs

KeyOf(o) == <<o.owner, o.id>>
AllKeys == Clients \X OrderIds
OpenPart(o) == [side |-> o.side, limit |-> o.price, quantity |-> o.quantity]

(* A call is in progress and something is left of its order.               *)
Live == pc # "idle" /\ remaining > 0
IncomingPart == [side |-> incoming.side, limit |-> incoming.limit, quantity |-> remaining]

(* What is open is what rests and what is left of the incoming order.      *)
OpenShown ==
    /\ \A s \in Resting(book) : OpenOrders[KeyOf(book.order[s])] = OpenPart(book.order[s])
    /\ Live => OpenOrders[KeyOf(incoming)] = IncomingPart
    /\ \A k \in AllKeys :
          OpenOrders[k] # NoOrder =>
              \/ Live /\ k = KeyOf(incoming)
              \/ \E s \in Resting(book) : k = KeyOf(book.order[s])

(* Every resting order has something left.                                 *)
RestingAlive == \A s \in Resting(book) : book.order[s].quantity > 0

(* A key is the pair of its parts.                                         *)
LEMMA KeyIs ==
    ASSUME NEW k \in AllKeys, NEW o
    PROVE  k = KeyOf(o) <=> o.owner = k[1] /\ o.id = k[2]
BY DEF AllKeys, KeyOf

(* The keys of the orders there are.                                       *)
LEMMA KeysTyped ==
    ASSUME EngineInvariant
    PROVE  /\ \A s \in Resting(book) : KeyOf(book.order[s]) \in AllKeys
           /\ pc # "idle" => KeyOf(incoming) \in AllKeys
<1>1. ASSUME NEW s \in Resting(book)
      PROVE  book.order[s].owner \in Clients /\ book.order[s].id \in OrderIds
  BY ZenonT(60), RestingOrderIs DEF EngineInvariant, SoundBook, Orders
<1>2. pc # "idle" => incoming.owner \in Clients /\ incoming.id \in OrderIds
  BY Zenon DEF EngineInvariant, TypeOK, NewOrders
<1> QED BY <1>1, <1>2 DEF KeyOf, AllKeys

(* OpenOf shows each order once: no two orders have the same key.          *)
LEMMA OpenIsShown ==
    EngineInvariant /\ OwnIdsInvariant => OpenShown
<1> SUFFICES ASSUME EngineInvariant, OwnIdsInvariant PROVE OpenShown
  OBVIOUS
<1> DEFINE Mine(k) == {s \in Resting(book) : /\ book.order[s].owner = k[1]
                                             /\ book.order[s].id = k[2]}
           IsIncoming(k) == /\ pc # "idle" /\ remaining > 0
                            /\ incoming.owner = k[1] /\ incoming.id = k[2]
<1>1. ASSUME NEW k \in AllKeys
      PROVE  OpenOrders[k] = IF IsIncoming(k) THEN IncomingPart
                             ELSE IF Mine(k) = {} THEN NoOrder
                             ELSE OpenPart(book.order[CHOOSE s \in Mine(k) : TRUE])
  BY DEF OpenOrders, OpenOf, AllKeys, IncomingPart, OpenPart
<1>2. ASSUME NEW k \in AllKeys
      PROVE  IsIncoming(k) <=> Live /\ k = KeyOf(incoming)
  BY ZenonT(60), KeyIs DEF Live
<1>3. ASSUME NEW k \in AllKeys, NEW s
      PROVE  s \in Mine(k) <=> s \in Resting(book) /\ k = KeyOf(book.order[s])
  BY Zenon, KeyIs
<1> HIDE DEF IsIncoming, Mine
<1>4. ASSUME NEW s \in Resting(book)
      PROVE  OpenOrders[KeyOf(book.order[s])] = OpenPart(book.order[s])
  <2> DEFINE k == KeyOf(book.order[s])
  <2>1. k \in AllKeys
    BY ZenonT(60), KeysTyped
  <2>2. k = KeyOf(incoming) => book.order[s].owner = incoming.owner /\ book.order[s].id = incoming.id
    BY DEF KeyOf
  <2>3. ~(Live /\ k = KeyOf(incoming))
    BY Zenon, <2>2 DEF OwnIdsInvariant, IncomingIdIsNew, Live
  <2>4. ASSUME NEW t \in Resting(book), k = KeyOf(book.order[t]) PROVE t = s
    <3>1. book.order[s].owner = book.order[t].owner /\ book.order[s].id = book.order[t].id
      BY <2>4 DEF KeyOf
    <3> QED BY ZenonT(60), <3>1 DEF OwnIdsInvariant, OwnIdsDiffer
  <2>5. s \in Mine(k) /\ \A t \in Mine(k) : t = s
    BY ZenonT(60), <1>3, <2>1, <2>4
  <2> HIDE DEF k
  <2>6. (CHOOSE t \in Mine(k) : TRUE) = s
    BY ZenonT(60), <2>5
  <2>7. OpenOrders[k] = OpenPart(book.order[CHOOSE t \in Mine(k) : TRUE])
    BY ZenonT(60), <1>1, <1>2, <2>1, <2>3, <2>5
  <2> QED BY ZenonT(60), <2>6, <2>7 DEF k
<1>5. Live => OpenOrders[KeyOf(incoming)] = IncomingPart
  BY ZenonT(60), <1>1, <1>2, KeysTyped DEF Live
<1>6. ASSUME NEW k \in AllKeys, OpenOrders[k] # NoOrder
      PROVE  \/ Live /\ k = KeyOf(incoming)
             \/ \E s \in Resting(book) : k = KeyOf(book.order[s])
  BY ZenonT(60), <1>1, <1>2, <1>3, <1>6
<1> QED BY ZenonT(60), <1>4, <1>5, <1>6 DEF OpenShown

(* A step that leaves the orders of a key alone.                           *)
LEMMA OpenFrame ==
    ASSUME OpenShown, OpenShown', NEW k \in AllKeys,
           \A s \in Resting(book) : KeyOf(book.order[s]) = k
              => s \in Resting(book') /\ book'.order[s] = book.order[s],
           \A s \in Resting(book') : KeyOf(book'.order[s]) = k
              => s \in Resting(book) /\ book'.order[s] = book.order[s],
           Live /\ KeyOf(incoming) = k
              => Live' /\ KeyOf(incoming)' = k /\ IncomingPart' = IncomingPart,
           Live' /\ KeyOf(incoming)' = k
              => Live /\ KeyOf(incoming) = k /\ IncomingPart' = IncomingPart
    PROVE  OpenOrders'[k] = OpenOrders[k]
<1>1. ASSUME NEW s \in Resting(book), KeyOf(book.order[s]) = k
      PROVE  OpenOrders'[k] = OpenOrders[k]
  <2>1. s \in Resting(book') /\ book'.order[s] = book.order[s]
    BY <1>1
  <2>2. OpenOrders[k] = OpenPart(book.order[s])
    BY ZenonT(60), <1>1 DEF OpenShown
  <2>3. OpenOrders'[k] = OpenPart(book'.order[s])
    BY ZenonT(60), <1>1, <2>1 DEF OpenShown
  <2> QED BY Zenon, <2>1, <2>2, <2>3
<1>2. CASE Live /\ KeyOf(incoming) = k
  BY ZenonT(60), <1>2 DEF OpenShown
<1>3. CASE OpenOrders'[k] # NoOrder
  BY ZenonT(60), <1>1, <1>2, <1>3 DEF OpenShown
<1>4. CASE OpenOrders[k] # NoOrder
  BY ZenonT(60), <1>1, <1>2, <1>4 DEF OpenShown
<1> QED BY Zenon, <1>3, <1>4

(* An order that rests or is being matched is open.                        *)
LEMMA PartsAreOpen ==
    ASSUME EngineInvariant
    PROVE  /\ \A s \in Resting(book) : OpenPart(book.order[s]) # NoOrder
           /\ pc # "idle" => IncomingPart # NoOrder
<1>1. ASSUME NEW s \in Resting(book)
      PROVE  OpenPart(book.order[s]) # NoOrder
  <2>1. book.order[s] \in Orders
    BY ZenonT(60), RestingOrderIs DEF EngineInvariant, SoundBook
  <2>2. OpenPart(book.order[s])
          \in [side : Sides, limit : Prices \union {NoLimit}, quantity : Nat]
    BY <2>1 DEF Orders, OpenPart
  <2> QED BY ZenonT(60), <2>2, NoOpenOrderAssumption
<1>2. ASSUME pc # "idle" PROVE IncomingPart # NoOrder
  <2>1. incoming.side \in Sides /\ incoming.limit \in Prices \union {NoLimit}
        /\ remaining \in Nat
    BY ZenonT(60), <1>2 DEF EngineInvariant, TypeOK, NewOrders
  <2>2. IncomingPart \in [side : Sides, limit : Prices \union {NoLimit}, quantity : Nat]
    BY <2>1 DEF IncomingPart
  <2> QED BY ZenonT(60), <2>2, NoOpenOrderAssumption
<1> QED BY ZenonT(60), <1>1, <1>2

(* What is open is a function of the keys.                                 *)
LEMMA OpenIsFunction ==
    /\ OpenOrders = [k \in AllKeys |-> OpenOrders[k]]
    /\ OpenOrders' = [k \in AllKeys |-> OpenOrders'[k]]
BY DEF OpenOrders, AllKeys

(* No order opens, closes or trades.                                       *)
LEMMA NothingOpens ==
    ASSUME lastAcceptedId' = lastAcceptedId,
           \A k \in AllKeys : OpenOrders'[k] = OpenOrders[k]
    PROVE  UNCHANGED Lifecycle!lifecycleVars
<1>1. OpenOrders' = OpenOrders
  BY ZenonT(60), OpenIsFunction
<1>2. UsedKeys' = UsedKeys
  BY ZenonT(60) DEF UsedKeys
<1> QED BY SMTT(60), <1>1, <1>2 DEF Lifecycle!lifecycleVars

(* One order closes.                                                       *)
LEMMA OneCloses ==
    ASSUME NEW c \in AllKeys, OpenOrders[c] # NoOrder, OpenOrders'[c] = NoOrder,
           lastAcceptedId' = lastAcceptedId,
           \A k \in AllKeys : k # c => OpenOrders'[k] = OpenOrders[k]
    PROVE  Lifecycle!LifecycleNext
<1>1. OpenOrders' = [OpenOrders EXCEPT ![c] = NoOrder]
  BY OpenIsFunction
<1>2. UsedKeys' = UsedKeys
  BY Zenon DEF UsedKeys
<1>3. Lifecycle!Close(c, OpenOrders, OpenOrders')
  BY ZenonT(60), <1>1, <1>2 DEF Lifecycle!Close
<1> QED BY ZenonT(60), <1>3 DEF Lifecycle!LifecycleNext, Lifecycle!Step, AllKeys

(* remove_order, by a cancel or by CancelResting, closes its order.        *)
LEMMA LifeTakeOut ==
    ASSUME EngineInvariant, OwnIdsInvariant, OpenShown, OpenShown',
           NEW s \in Resting(book), book' = RemoveOrder(book, s),
           lastAcceptedId' = lastAcceptedId, incoming' = incoming,
           remaining' = remaining, pc' = "idle" <=> pc = "idle"
    PROVE  Lifecycle!LifecycleNext
<1> DEFINE c == KeyOf(book.order[s])
<1>1. /\ Resting(book') = Resting(book) \ {s}
      /\ \A t \in Resting(book) \ {s} : book'.order[t] = book.order[t]
  BY ZenonT(60), RemoveOrderResting DEF EngineInvariant, SoundBook
<1>2. (Live' <=> Live) /\ KeyOf(incoming)' = KeyOf(incoming) /\ IncomingPart' = IncomingPart
  BY Zenon DEF Live, IncomingPart
<1>3. c \in AllKeys /\ OpenOrders[c] # NoOrder
  BY ZenonT(60), KeysTyped, PartsAreOpen DEF OpenShown
<1>4. ASSUME NEW t \in Resting(book), KeyOf(book.order[t]) = c PROVE t = s
  <2>1. book.order[s].owner = book.order[t].owner /\ book.order[s].id = book.order[t].id
    BY <1>4 DEF KeyOf
  <2> QED BY ZenonT(60), <2>1 DEF OwnIdsInvariant, OwnIdsDiffer
<1>5. ~(Live /\ c = KeyOf(incoming))
  <2>1. c = KeyOf(incoming) => book.order[s].owner = incoming.owner /\ book.order[s].id = incoming.id
    BY DEF KeyOf
  <2> QED BY ZenonT(60), <2>1 DEF OwnIdsInvariant, IncomingIdIsNew, Live
<1> HIDE DEF c
<1>6. OpenOrders'[c] = NoOrder
  <2> SUFFICES ASSUME OpenOrders'[c] # NoOrder PROVE FALSE
    OBVIOUS
  <2>1. \/ Live' /\ c = KeyOf(incoming)'
        \/ \E t \in Resting(book') : c = KeyOf(book'.order[t])
    BY ZenonT(60), <1>3 DEF OpenShown
  <2> QED BY ZenonT(60), <1>1, <1>2, <1>4, <1>5, <2>1
<1>7. ASSUME NEW k \in AllKeys, k # c PROVE OpenOrders'[k] = OpenOrders[k]
  <2>1. \A t \in Resting(book) : KeyOf(book.order[t]) = k
           => t \in Resting(book') /\ book'.order[t] = book.order[t]
    BY ZenonT(60), <1>1, <1>7 DEF c
  <2>2. \A t \in Resting(book') : KeyOf(book'.order[t]) = k
           => t \in Resting(book) /\ book'.order[t] = book.order[t]
    BY ZenonT(60), <1>1
  <2> QED BY ZenonT(60), <1>2, <2>1, <2>2, OpenFrame
<1> QED BY ZenonT(60), <1>3, <1>6, <1>7, OneCloses

(* An acceptance opens its order, under a key never used before.           *)
LEMMA LifeAccept ==
    ASSUME EngineInvariant, OwnIdsInvariant, OpenShown, OpenShown',
           NEW o \in Submits, SubmitAccepted(o)
    PROVE  Lifecycle!LifecycleNext
<1> DEFINE c == KeyOf(o)
<1>1. /\ pc = "idle" /\ pc' = "match" /\ incoming' = o /\ remaining' = o.quantity
      /\ book' = book /\ lastAcceptedId' = [lastAcceptedId EXCEPT ![o.owner] = o.id]
      /\ ~Used(o) /\ o.quantity # 0 /\ ~(o.limit # NoLimit /\ o.limit <= 0)
  BY DEF SubmitAccepted, Verdict, bookVars
<1>2. /\ o.owner \in Clients /\ o.id \in OrderIds /\ o.id \in Nat /\ o.side \in Sides
      /\ o.quantity \in Quantities /\ o.quantity \in Nat
      /\ o.limit \in Prices \union BadPrices \union {NoLimit}
  BY ZenonT(60), IdsAssumption, QuantitiesAssumption DEF Submits, NewOrders
<1>3. o.limit \in Prices \union {NoLimit} /\ o.quantity > 0
  <2>1. o.limit \notin BadPrices \/ o.limit = NoLimit
    BY ZenonT(60), <1>1, BadPricesAssumption
  <2>2. o.quantity > 0
    BY SMTT(60), <1>1, <1>2
  <2> QED BY ZenonT(60), <1>2, <2>1, <2>2
<1>4. c \in AllKeys /\ c[1] = o.owner /\ c[2] = o.id
  BY <1>2 DEF KeyOf, AllKeys
<1>5. c \notin UsedKeys
  BY ZenonT(60), <1>1, <1>4 DEF UsedKeys, Used
<1>6. OpenOrders[c] = NoOrder
  <2> SUFFICES ASSUME OpenOrders[c] # NoOrder PROVE FALSE
    OBVIOUS
  <2>1. PICK s \in Resting(book) : c = KeyOf(book.order[s])
    BY ZenonT(60), <1>1, <1>4 DEF OpenShown, Live
  <2>2. book.order[s].owner = o.owner /\ book.order[s].id = o.id
    BY <2>1 DEF KeyOf
  <2> QED BY ZenonT(60), <1>1, <2>2 DEF OwnIdsInvariant, RestingIdsAccepted, Used
<1>7. /\ Live' /\ KeyOf(incoming)' = c
      /\ OpenOrders'[c] = [side |-> o.side, limit |-> o.limit, quantity |-> o.quantity]
  <2>1. Live' /\ KeyOf(incoming)' = c
    BY SMTT(60), <1>1, <1>3 DEF Live
  <2>2. IncomingPart' = [side |-> o.side, limit |-> o.limit, quantity |-> o.quantity]
    BY ZenonT(60), <1>1 DEF IncomingPart
  <2> QED BY ZenonT(60), <2>1, <2>2 DEF OpenShown
<1> HIDE DEF c
<1>8. ASSUME NEW k \in AllKeys, k # c PROVE OpenOrders'[k] = OpenOrders[k]
  <2>1. ~Live
    BY <1>1 DEF Live
  <2> QED BY ZenonT(60), <1>1, <1>7, <1>8, <2>1, OpenFrame
<1>9. UsedKeys \union {c} \subseteq UsedKeys'
  <2>1. lastAcceptedId \in [Clients -> OrderIds \union {NoWatermark}]
    BY ZenonT(60) DEF EngineInvariant, TypeOK
  <2>2. /\ lastAcceptedId'[o.owner] = o.id
        /\ \A d \in Clients : d # o.owner => lastAcceptedId'[d] = lastAcceptedId[d]
    BY SMTT(60), <1>1, <1>2, <2>1
  <2>3. o.id # NoWatermark /\ o.id <= o.id
    BY SMTT(60), <1>2, NoWatermarkAssumption
  <2>4. c \in UsedKeys'
    BY ZenonT(60), <1>4, <2>2, <2>3 DEF UsedKeys, AllKeys
  <2>5. ASSUME NEW k \in UsedKeys PROVE k \in UsedKeys'
    <3>1. /\ k \in AllKeys /\ k[1] \in Clients /\ k[2] \in Nat
          /\ lastAcceptedId[k[1]] # NoWatermark /\ k[2] <= lastAcceptedId[k[1]]
      BY ZenonT(60), IdsAssumption DEF UsedKeys, AllKeys
    <3>2. CASE k[1] # o.owner
      BY ZenonT(60), <2>2, <3>1, <3>2 DEF UsedKeys, AllKeys
    <3>3. CASE k[1] = o.owner
      <4> DEFINE w == lastAcceptedId[o.owner]
      <4>1. ~(o.id <= w) /\ k[2] <= w /\ w \in Nat
        BY ZenonT(60), <1>1, <1>2, <2>1, <3>1, <3>3, IdsAssumption DEF Used
      <4> HIDE DEF w
      <4>2. k[2] <= o.id
        BY SMTT(60), <1>2, <3>1, <4>1
      <4> QED BY ZenonT(60), <2>2, <2>3, <3>1, <3>3, <4>2 DEF UsedKeys, AllKeys
    <3> QED BY SMTT(60), <3>2, <3>3
  <2> QED BY ZenonT(60), <2>4, <2>5
<1>10. OpenOrders' = [OpenOrders EXCEPT ![c] = OpenOrders'[c]]
  BY SMTT(60), <1>4, <1>8, OpenIsFunction
<1>11. /\ OpenOrders'[c] \in [side : Sides, limit : Prices \union {NoLimit}, quantity : Quantities]
       /\ OpenOrders'[c].quantity > 0
  BY SMTT(60), <1>2, <1>3, <1>7
<1>12. Lifecycle!Open(c, OpenOrders, OpenOrders')
  BY ZenonT(60), <1>5, <1>6, <1>9, <1>10, <1>11 DEF Lifecycle!Open
<1> QED BY ZenonT(60), <1>4, <1>12 DEF Lifecycle!LifecycleNext, Lifecycle!Step, AllKeys

(* A fill changes the order it fills and no other.                         *)
LEMMA FilledOrders ==
    ASSUME EngineInvariant, pc = "level"
    PROVE  /\ \A t \in Resting(book) \ {Front} :
                 t \in Resting(FilledBook) /\ FilledBook.order[t] = book.order[t]
           /\ Resting(FilledBook) = IF FullyConsumed THEN Resting(book) \ {Front}
                                    ELSE Resting(book)
           /\ ~FullyConsumed =>
                 FilledBook.order[Front]
                   = [book.order[Front] EXCEPT !.quantity = @ - FillQty]
<1> DEFINE b == ReduceOrder(book, Front, FillQty)
<1>1. SoundBook(book) /\ book \in Books /\ Front \in Resting(book) /\ Resting(book) \subseteq Slots
  BY SMTT(60), FrontIs DEF EngineInvariant, SoundBook, Resting
<1>2. b \in Books /\ Resting(b) = Resting(book)
  BY ZenonT(60), <1>1, FillQtyIs, ReduceOrderSound DEF SoundBook
<1>3. FilledBook = IF FullyConsumed THEN RemoveOrder(b, Front) ELSE b
  BY DEF FilledBook
<1>4. /\ \A t \in Resting(book) \ {Front} : b.order[t] = book.order[t]
      /\ b.order[Front] = [book.order[Front] EXCEPT !.quantity = @ - FillQty]
  <2>1. b.order = [t \in DOMAIN book.order |->
                     IF t = Front THEN Reduced(book.order[Front], FillQty) ELSE book.order[t]]
    BY SMTT(60), ReduceOrderOrder
  <2>2. DOMAIN book.order = Slots
    BY SMTT(60), <1>1 DEF Books
  <2>3. Reduced(book.order[Front], FillQty)
          = [book.order[Front] EXCEPT !.quantity = @ - FillQty]
    BY DEF Reduced
  <2> HIDE DEF b
  <2> QED BY ZenonT(60), <1>1, <2>1, <2>2, <2>3
<1> HIDE DEF b
<1>5. /\ Resting(RemoveOrder(b, Front)) = Resting(book) \ {Front}
      /\ \A t \in Resting(book) \ {Front} : RemoveOrder(b, Front).order[t] = book.order[t]
  BY ZenonT(60), <1>1, <1>2, <1>4, RemoveOrderResting
<1>6. CASE FullyConsumed
  BY Zenon, <1>3, <1>5, <1>6
<1>7. CASE ~FullyConsumed
  BY ZenonT(60), <1>2, <1>3, <1>4, <1>7
<1> QED BY SMTT(60), <1>6, <1>7

(* Two orders trade: what either has left goes down by the same quantity,  *)
(* at the price of the one that rested.                                    *)
LEMMA TwoTrade ==
    ASSUME NEW i \in AllKeys, NEW r \in AllKeys, i # r, NEW qty \in Nat, qty > 0,
           NEW x, NEW y, OpenOrders[i] = x, OpenOrders[r] = y, x # NoOrder, y # NoOrder,
           x.side \in Sides, y.side = Opposite(x.side), y.limit \in Int,
           x.quantity \in Nat, y.quantity \in Nat, qty <= x.quantity, qty <= y.quantity,
           Crosses(x.side, x.limit, y.limit),
           OpenOrders'[i] = Lifecycle!Reduced(x, qty),
           OpenOrders'[r] = Lifecycle!Reduced(y, qty),
           \A k \in AllKeys : k # i /\ k # r => OpenOrders'[k] = OpenOrders[k],
           lastAcceptedId' = lastAcceptedId
    PROVE  Lifecycle!LifecycleNext
<1>1. UsedKeys' = UsedKeys
  BY ZenonT(60) DEF UsedKeys
<1>2. /\ Lifecycle!Accepts(x, y.limit) /\ Lifecycle!Accepts(y, y.limit)
      /\ y.limit # NoLimit
  <2>1. y.limit # NoLimit /\ y.limit <= y.limit /\ y.limit >= y.limit
    BY SMTT(60), NoLimitAssumption
  <2> QED BY ZenonT(60), <2>1 DEF Lifecycle!Accepts, Crosses
<1>3. qty \in 1..x.quantity /\ qty \in 1..y.quantity
  OBVIOUS
<1>4. CASE x.side = "Buy"
  <2>1. OpenOrders' = [OpenOrders EXCEPT ![i] = Lifecycle!Reduced(@, qty),
                                         ![r] = Lifecycle!Reduced(@, qty)]
    <3> DEFINE n == Lifecycle!Reduced(x, qty)
               m == Lifecycle!Reduced(y, qty)
    <3>1. OpenOrders'[i] = n /\ OpenOrders'[r] = m
      OBVIOUS
    <3> HIDE DEF n, m
    <3>2. OpenOrders' = [OpenOrders EXCEPT ![i] = n, ![r] = m]
      BY SMTT(60), <3>1, OpenIsFunction
    <3>3. [OpenOrders EXCEPT ![i] = Lifecycle!Reduced(@, qty), ![r] = Lifecycle!Reduced(@, qty)]
            = [OpenOrders EXCEPT ![i] = n, ![r] = m]
      BY OpenIsFunction DEF n, m
    <3> QED BY SMTT(60), <3>2, <3>3
  <2>2. y.side = "Sell"
    BY <1>4 DEF Opposite
  <2>3. Lifecycle!TradeBetween(i, r, OpenOrders, OpenOrders')
    BY ZenonT(60), <1>1, <1>2, <1>3, <1>4, <2>1, <2>2 DEF Lifecycle!TradeBetween
  <2> QED BY ZenonT(60), <2>3 DEF Lifecycle!LifecycleNext, Lifecycle!Step, AllKeys
<1>5. CASE x.side = "Sell"
  <2>1. OpenOrders' = [OpenOrders EXCEPT ![r] = Lifecycle!Reduced(@, qty),
                                         ![i] = Lifecycle!Reduced(@, qty)]
    <3> DEFINE n == Lifecycle!Reduced(x, qty)
               m == Lifecycle!Reduced(y, qty)
    <3>1. OpenOrders'[i] = n /\ OpenOrders'[r] = m
      BY SMTT(60)
    <3> HIDE DEF n, m
    <3>2. OpenOrders' = [OpenOrders EXCEPT ![r] = m, ![i] = n]
      BY SMTT(60), <3>1, OpenIsFunction
    <3>3. [OpenOrders EXCEPT ![r] = Lifecycle!Reduced(@, qty), ![i] = Lifecycle!Reduced(@, qty)]
            = [OpenOrders EXCEPT ![r] = m, ![i] = n]
      BY SMTT(60), OpenIsFunction DEF n, m
    <3> QED BY SMTT(60), <3>2, <3>3
  <2>2. y.side = "Buy"
    BY <1>5 DEF Opposite
  <2>3. Lifecycle!TradeBetween(r, i, OpenOrders, OpenOrders')
    BY ZenonT(60), <1>1, <1>2, <1>3, <1>5, <2>1, <2>2 DEF Lifecycle!TradeBetween
  <2> QED BY ZenonT(60), <2>3 DEF Lifecycle!LifecycleNext, Lifecycle!Step, AllKeys
<1> QED BY SMTT(60), <1>4, <1>5 DEF Sides

(* A fill is a trade of the incoming order with the one at the front.      *)
LEMMA LifeFill ==
    ASSUME EngineInvariant, OwnIdsInvariant, RestingAlive, OpenShown, OpenShown', Fill
    PROVE  Lifecycle!LifecycleNext
<1> DEFINE i == KeyOf(incoming)
           o == book.order[Front]
           r == KeyOf(o)
           x == IncomingPart
           y == OpenPart(o)
<1>1. /\ pc = "level" /\ pc # "idle" /\ pc' # "idle" /\ book' = FilledBook /\ remaining' = Left
      /\ incoming' = incoming /\ lastAcceptedId' = lastAcceptedId
  BY DEF Fill
<1>2. /\ remaining > 0 /\ remaining \in Nat /\ incoming.side \in Sides
      /\ Crosses(incoming.side, incoming.limit, level)
  BY ZenonT(60), <1>1 DEF EngineInvariant, TypeOK, NewOrders, CanMatch
<1>3. /\ Front \in Resting(book) /\ o \in Orders /\ o.side = Opposite(incoming.side)
      /\ o.price = level
  BY ZenonT(60), <1>1, FrontIs
<1>4. o.quantity \in Nat /\ o.quantity > 0 /\ o.price \in Int
  <2>1. o.quantity \in Nat /\ o.price \in Prices
    BY SMTT(60), <1>3 DEF Orders
  <2>2. Prices \subseteq Int
    BY SMTT(60), PricesAssumption
  <2> QED BY ZenonT(60), <1>3, <2>1, <2>2 DEF RestingAlive
<1>5. /\ FillQty \in Nat /\ FillQty > 0 /\ FillQty <= remaining /\ FillQty <= o.quantity
      /\ Left = remaining - FillQty /\ (FullyConsumed <=> FillQty = o.quantity)
  BY SMTT(60), <1>2, <1>4 DEF FillQty, Min2, Left, FullyConsumed
<1>6. /\ i \in AllKeys /\ r \in AllKeys /\ x # NoOrder /\ y # NoOrder
  BY ZenonT(60), <1>1, <1>3, KeysTyped, PartsAreOpen
<1>7. i # r
  <2>1. i = r => o.owner = incoming.owner /\ o.id = incoming.id
    BY DEF KeyOf
  <2> QED BY ZenonT(60), <1>1, <1>3, <2>1 DEF OwnIdsInvariant, IncomingIdIsNew
<1>8. Live /\ OpenOrders[i] = x /\ OpenOrders[r] = y
  BY ZenonT(60), <1>1, <1>2, <1>3 DEF OpenShown, Live
<1>9. /\ x.side = incoming.side /\ x.limit = incoming.limit /\ x.quantity = remaining
      /\ y.side = o.side /\ y.limit = o.price /\ y.quantity = o.quantity
  BY DEF IncomingPart, OpenPart
<1>10. /\ \A t \in Resting(book) \ {Front} :
             t \in Resting(book') /\ book'.order[t] = book.order[t]
       /\ Resting(book') = IF FullyConsumed THEN Resting(book) \ {Front} ELSE Resting(book)
       /\ ~FullyConsumed => book'.order[Front] = [o EXCEPT !.quantity = @ - FillQty]
  BY ZenonT(60), <1>1, FilledOrders
<1>11. KeyOf(incoming)' = i
  BY SMTT(60), <1>1
<1>12. ASSUME NEW t \in Resting(book), KeyOf(book.order[t]) = r PROVE t = Front
  <2>1. o.owner = book.order[t].owner /\ o.id = book.order[t].id
    BY <1>12 DEF KeyOf
  <2> QED BY ZenonT(60), <1>3, <2>1 DEF OwnIdsInvariant, OwnIdsDiffer
<1>13. ASSUME NEW t \in Resting(book) PROVE KeyOf(book.order[t]) # i
  <2>1. KeyOf(book.order[t]) = i
          => book.order[t].owner = incoming.owner /\ book.order[t].id = incoming.id
    BY DEF KeyOf
  <2> QED BY ZenonT(60), <1>1, <2>1 DEF OwnIdsInvariant, IncomingIdIsNew
<1>14. ~FullyConsumed => KeyOf(book'.order[Front]) = r
  <2>1. [o EXCEPT !.quantity = @ - FillQty].owner = o.owner
        /\ [o EXCEPT !.quantity = @ - FillQty].id = o.id
    BY <1>3 DEF Orders
  <2> QED BY ZenonT(60), <1>10, <2>1 DEF KeyOf
<1> HIDE DEF i, o, r, x, y
<1>15. ASSUME NEW t \in Resting(book') PROVE KeyOf(book'.order[t]) # i
  BY ZenonT(60), <1>7, <1>10, <1>13, <1>14
<1>16. OpenOrders'[i] = Lifecycle!Reduced(x, FillQty)
  <2>1. CASE FillQty = remaining
    <3>1. ~Live'
      BY SMTT(60), <1>1, <1>2, <1>5, <2>1 DEF Live
    <3>2. OpenOrders'[i] = NoOrder
      BY ZenonT(60), <1>6, <1>15, <3>1 DEF OpenShown
    <3> QED BY ZenonT(60), <1>9, <2>1, <3>2 DEF Lifecycle!Reduced
  <2>2. CASE FillQty # remaining
    <3>1. Live'
      <4>1. remaining' > 0
        BY SMTT(60), <1>1, <1>2, <1>5, <2>2
      <4> QED BY SMTT(60), <1>1, <4>1 DEF Live
    <3>2. OpenOrders'[i] = IncomingPart'
      BY ZenonT(60), <1>11, <3>1 DEF OpenShown
    <3>3. IncomingPart' = [x EXCEPT !.quantity = @ - FillQty]
      BY SMTT(60), <1>1, <1>5 DEF IncomingPart, x
    <3>4. Lifecycle!Reduced(x, FillQty) = [x EXCEPT !.quantity = @ - FillQty]
      BY SMTT(60), <1>9, <2>2 DEF Lifecycle!Reduced
    <3> QED BY SMTT(60), <3>2, <3>3, <3>4
  <2> QED BY SMTT(60), <2>1, <2>2
<1>17. OpenOrders'[r] = Lifecycle!Reduced(y, FillQty)
  <2>1. CASE FullyConsumed
    <3>1. \A t \in Resting(book') : r # KeyOf(book'.order[t])
      BY ZenonT(60), <1>10, <1>12, <2>1
    <3>2. OpenOrders'[r] = NoOrder
      BY ZenonT(60), <1>6, <1>7, <1>11, <3>1 DEF OpenShown
    <3>3. FillQty = y.quantity
      BY ZenonT(60), <1>5, <1>9, <2>1
    <3> QED BY ZenonT(60), <3>2, <3>3 DEF Lifecycle!Reduced
  <2>2. CASE ~FullyConsumed
    <3>1. Front \in Resting(book') /\ book'.order[Front] = [o EXCEPT !.quantity = @ - FillQty]
      BY ZenonT(60), <1>3, <1>10, <2>2
    <3>2. OpenOrders'[r] = OpenPart(book'.order[Front])
      BY ZenonT(60), <1>14, <2>2, <3>1 DEF OpenShown
    <3>3. OpenPart([o EXCEPT !.quantity = @ - FillQty]) = [y EXCEPT !.quantity = @ - FillQty]
      BY <1>3 DEF OpenPart, y, Orders
    <3>4. Lifecycle!Reduced(y, FillQty) = [y EXCEPT !.quantity = @ - FillQty]
      BY SMTT(60), <1>5, <1>9, <2>2 DEF Lifecycle!Reduced
    <3> QED BY ZenonT(60), <3>1, <3>2, <3>3, <3>4
  <2> QED BY SMTT(60), <2>1, <2>2
<1>18. ASSUME NEW k \in AllKeys, k # i, k # r PROVE OpenOrders'[k] = OpenOrders[k]
  <2>1. \A t \in Resting(book) : KeyOf(book.order[t]) = k
           => t \in Resting(book') /\ book'.order[t] = book.order[t]
    BY ZenonT(60), <1>10, <1>18 DEF r, o
  <2>2. \A t \in Resting(book') : KeyOf(book'.order[t]) = k
           => t \in Resting(book) /\ book'.order[t] = book.order[t]
    BY ZenonT(60), <1>10, <1>14, <1>18
  <2>3. ~(KeyOf(incoming) = k) /\ ~(KeyOf(incoming)' = k)
    BY SMTT(60), <1>11, <1>18 DEF i
  <2> QED BY ZenonT(60), <2>1, <2>2, <2>3, OpenFrame
<1>19. Crosses(x.side, x.limit, y.limit)
  BY ZenonT(60), <1>2, <1>3, <1>9
<1> QED BY SMTT(60), <1>1, <1>2, <1>3, <1>4, <1>5, <1>6, <1>7, <1>8, <1>9,
        <1>16, <1>17, <1>18, <1>19, TwoTrade

(* Resting what remains leaves the order as open as it was; what remains   *)
(* of a market order is closed.                                            *)
LEMMA LifeReturn ==
    ASSUME EngineInvariant, OwnIdsInvariant, OpenShown, OpenShown', Return
    PROVE  [Lifecycle!LifecycleNext]_Lifecycle!lifecycleVars
<1> DEFINE i == KeyOf(incoming)
<1>1. pc = "match" /\ pc # "idle" /\ ~Live' /\ lastAcceptedId' = lastAcceptedId
  BY DEF Return, Live
<1>2. i \in AllKeys /\ IncomingPart # NoOrder
  BY ZenonT(60), <1>1, KeysTyped, PartsAreOpen
<1>3. ASSUME NEW t \in Resting(book) PROVE KeyOf(book.order[t]) # i
  <2>1. KeyOf(book.order[t]) = i
          => book.order[t].owner = incoming.owner /\ book.order[t].id = incoming.id
    BY DEF KeyOf
  <2> QED BY ZenonT(60), <1>1, <2>1 DEF OwnIdsInvariant, IncomingIdIsNew
<1>4. CASE remaining > 0 /\ incoming.limit # NoLimit
  <2>1. book' = AddOrder(book, RestingOrder)
    BY SMTT(60), <1>4 DEF Return
  <2>2. RestingOrder \in Orders /\ book.free # <<>> /\ book \in Books /\ SlotsAccounted(book)
    BY ZenonT(60), <1>1, <1>4, RestingOrderTyped
       DEF EngineInvariant, RestFindsSlot, SoundBook
  <2> DEFINE n == Head(book.free)
  <2>3. PutIn(book', book, n, RestingOrder)
    BY ZenonT(60), <2>1, <2>2, AddOrderPutsIn
  <2> HIDE DEF n
  <2>4. /\ n \notin Resting(book) /\ Resting(book') = Resting(book) \union {n}
        /\ book'.order[n] = RestingOrder
        /\ \A t \in Resting(book) : book'.order[t] = book.order[t]
    BY ZenonT(60), <2>3 DEF PutIn
  <2>5. KeyOf(RestingOrder) = i /\ OpenPart(RestingOrder) = IncomingPart
    BY DEF KeyOf, OpenPart, IncomingPart, RestingOrder
  <2>6. OpenOrders[i] = IncomingPart
    BY ZenonT(60), <1>1, <1>4 DEF OpenShown, Live
  <2>7. OpenOrders'[i] = IncomingPart
    <3>1. n \in Resting(book')
      BY <2>4
    <3>2. OpenOrders'[KeyOf(book'.order[n])] = OpenPart(book'.order[n])
      BY ZenonT(60), <3>1 DEF OpenShown
    <3> QED BY ZenonT(60), <2>4, <2>5, <3>2
  <2>8. ASSUME NEW k \in AllKeys, k # i PROVE OpenOrders'[k] = OpenOrders[k]
    <3>1. \A t \in Resting(book) : KeyOf(book.order[t]) = k
             => t \in Resting(book') /\ book'.order[t] = book.order[t]
      BY ZenonT(60), <2>4
    <3>2. \A t \in Resting(book') : KeyOf(book'.order[t]) = k
             => t \in Resting(book) /\ book'.order[t] = book.order[t]
      BY ZenonT(60), <2>4, <2>5, <2>8
    <3> QED BY ZenonT(60), <1>1, <2>8, <3>1, <3>2, OpenFrame
  <2>9. \A k \in AllKeys : OpenOrders'[k] = OpenOrders[k]
    BY ZenonT(60), <2>6, <2>7, <2>8
  <2> QED BY ZenonT(60), <1>1, <2>9, NothingOpens
<1>5. CASE ~(remaining > 0 /\ incoming.limit # NoLimit)
  <2>1. book' = book
    BY ZenonT(60), <1>5 DEF Return, bookVars
  <2>2. ASSUME NEW k \in AllKeys, ~(Live /\ k = i) PROVE OpenOrders'[k] = OpenOrders[k]
    BY ZenonT(60), <1>1, <2>1, <2>2, OpenFrame
  <2>3. CASE Live
    <3>1. OpenOrders[i] # NoOrder
      BY ZenonT(60), <1>2, <2>3 DEF OpenShown
    <3>2. OpenOrders'[i] = NoOrder
      BY ZenonT(60), <1>1, <1>2, <1>3, <2>1 DEF OpenShown
    <3> HIDE DEF i
    <3> QED BY ZenonT(60), <1>1, <1>2, <2>2, <3>1, <3>2, OneCloses
  <2>4. CASE ~Live
    BY ZenonT(60), <1>1, <2>2, <2>4, NothingOpens
  <2> QED BY SMTT(60), <2>3, <2>4
<1> QED BY SMTT(60), <1>4, <1>5

(* A step that leaves the book alone and neither starts nor ends a call.   *)
LEMMA LifeIdles ==
    ASSUME OpenShown, OpenShown', book' = book, incoming' = incoming, remaining' = remaining,
           pc' = "idle" <=> pc = "idle", lastAcceptedId' = lastAcceptedId
    PROVE  UNCHANGED Lifecycle!lifecycleVars
<1>1. (Live' <=> Live) /\ KeyOf(incoming)' = KeyOf(incoming) /\ IncomingPart' = IncomingPart
  BY ZenonT(60) DEF Live, IncomingPart
<1>2. ASSUME NEW k \in AllKeys PROVE OpenOrders'[k] = OpenOrders[k]
  BY ZenonT(60), <1>1, OpenFrame
<1> QED BY ZenonT(60), <1>2, NothingOpens

(* Every step of the engine is a step in the life of at most two orders.   *)
LEMMA LifeSteps ==
    ASSUME EngineInvariant, OwnIdsInvariant, RestingAlive, OpenShown, OpenShown', [Next]_vars
    PROVE  [Lifecycle!LifecycleNext]_Lifecycle!lifecycleVars
<1> DEFINE Goal == [Lifecycle!LifecycleNext]_Lifecycle!lifecycleVars
<1>1. ASSUME NEW o \in Submits, SubmitAccepted(o) PROVE Goal
  BY ZenonT(60), <1>1, LifeAccept
<1>2. CASE Fill
  BY ZenonT(60), <1>2, LifeFill
<1>3. CASE Return
  BY ZenonT(60), <1>3, LifeReturn
<1>4. CASE CancelOwn
  <2>1. /\ pc = "level" /\ pc' = "match" /\ book' = RemoveOrder(book, Front)
        /\ lastAcceptedId' = lastAcceptedId /\ incoming' = incoming /\ remaining' = remaining
    BY ZenonT(60), <1>4 DEF CancelOwn
  <2>2. Front \in Resting(book)
    BY ZenonT(60), <2>1, FrontIs
  <2>3. pc' = "idle" <=> pc = "idle"
    BY <2>1
  <2> QED BY ZenonT(60), <2>1, <2>2, <2>3, LifeTakeOut
<1>5. ASSUME NEW id \in OrderIds, CancelResting(id) PROVE Goal
  <2> DEFINE s == FindOrder(book, id)
  <2>1. /\ s # NoSlot /\ book' = RemoveOrder(book, s) /\ pc' = pc
        /\ lastAcceptedId' = lastAcceptedId /\ incoming' = incoming /\ remaining' = remaining
    BY ZenonT(60), <1>5 DEF CancelResting, callVars
  <2>2. s \in Resting(book)
    BY ZenonT(60), <2>1 DEF EngineInvariant, SoundBook, IndexLeadsHome, FindOrder
  <2> HIDE DEF s
  <2> QED BY ZenonT(60), <2>1, <2>2, LifeTakeOut
<1>6. CASE /\ book' = book /\ incoming' = incoming /\ remaining' = remaining
           /\ pc' = "idle" <=> pc = "idle"
           /\ lastAcceptedId' = lastAcceptedId
  BY ZenonT(60), <1>6, LifeIdles
<1>7. ASSUME \/ \E o \in Submits : SubmitRejected(o)
             \/ \E p \in Prices : FetchLevel(p)
             \/ \E id \in OrderIds : CancelUnknown(id)
             \/ UNCHANGED vars
      PROVE  Goal
  <2>1. /\ book' = book /\ incoming' = incoming /\ remaining' = remaining
        /\ lastAcceptedId' = lastAcceptedId
        /\ pc' = pc \/ (pc = "match" /\ pc' = "level")
    BY SMTT(60), <1>7 DEF SubmitRejected, FetchLevel, CancelUnknown, vars, bookVars, callVars
  <2>2. pc' = "idle" <=> pc = "idle"
    BY SMTT(60), <2>1
  <2> QED BY ZenonT(60), <1>6, <2>1, <2>2
<1>8. \/ \E o \in Submits : SubmitAccepted(o)
      \/ Fill \/ Return \/ CancelOwn
      \/ \E id \in OrderIds : CancelResting(id)
      \/ \E o \in Submits : SubmitRejected(o)
      \/ \E p \in Prices : FetchLevel(p)
      \/ \E id \in OrderIds : CancelUnknown(id)
      \/ UNCHANGED vars
  BY ZenonT(60) DEF Next
<1>9. CASE \E o \in Submits : SubmitAccepted(o)
  BY SMTT(60), <1>1, <1>9
<1>10. CASE \E id \in OrderIds : CancelResting(id)
  BY SMTT(60), <1>5, <1>10
<1> QED BY SMTT(60), <1>2, <1>3, <1>4, <1>7, <1>8, <1>9, <1>10

(* No order stays in the book with nothing left of it.                     *)
LEMMA RestingAliveSteps ==
    ASSUME EngineInvariant, RestingAlive, [Next]_vars
    PROVE  RestingAlive'
<1>1. CASE Fill
  <2>1. pc = "level" /\ book' = FilledBook
    BY SMTT(60), <1>1 DEF Fill
  <2> QED
    <3>1. /\ \A t \in Resting(book) \ {Front} : book'.order[t] = book.order[t]
          /\ Resting(book') = IF FullyConsumed THEN Resting(book) \ {Front} ELSE Resting(book)
          /\ ~FullyConsumed =>
                book'.order[Front] = [book.order[Front] EXCEPT !.quantity = @ - FillQty]
      BY ZenonT(60), <2>1, FilledOrders
    <3>2. ~FullyConsumed => book'.order[Front].quantity > 0
      <4>1. book.order[Front] \in Orders /\ FillQty \in Nat
            /\ FillQty <= book.order[Front].quantity
        BY ZenonT(60), <2>1, FrontIs, FillQtyIs
      <4>2. book.order[Front].quantity \in Nat
            /\ [book.order[Front] EXCEPT !.quantity = @ - FillQty].quantity
                 = book.order[Front].quantity - FillQty
        BY SMTT(60), <4>1 DEF Orders
      <4>3. ~FullyConsumed => book.order[Front].quantity - FillQty > 0
        BY SMTT(60), <4>1, <4>2 DEF FullyConsumed
      <4> QED BY ZenonT(60), <3>1, <4>2, <4>3
    <3> QED BY ZenonT(60), <3>1, <3>2 DEF RestingAlive
<1>2. CASE RestsRemainder
  <2>1. PICK n \in Slots : PutIn(book', book, n, RestingOrder)
    BY SMTT(60), <1>2 DEF RestsRemainder
  <2>2. RestingOrder.quantity > 0
    BY SMTT(60), <1>2 DEF RestsRemainder, RestingOrder
  <2> QED BY ZenonT(60), <2>1, <2>2 DEF PutIn, RestingAlive
<1>3. ASSUME NEW s \in Resting(book), book' = RemoveOrder(book, s) PROVE RestingAlive'
  <2>1. /\ Resting(book') = Resting(book) \ {s}
        /\ \A t \in Resting(book) \ {s} : book'.order[t] = book.order[t]
    BY ZenonT(60), <1>3, RemoveOrderResting DEF EngineInvariant, SoundBook
  <2> QED BY ZenonT(60), <2>1 DEF RestingAlive
<1>4. CASE book' = book
  BY ZenonT(60), <1>4 DEF RestingAlive
<1>5. CASE CancelOwn
  BY ZenonT(60), <1>3, <1>5, FrontIs DEF CancelOwn
<1>6. ASSUME NEW id \in OrderIds, CancelResting(id) PROVE RestingAlive'
  <2>1. FindOrder(book, id) \in Resting(book)
    BY ZenonT(60), <1>6
       DEF CancelResting, EngineInvariant, SoundBook, IndexLeadsHome, FindOrder
  <2> QED BY ZenonT(60), <1>3, <1>6, <2>1 DEF CancelResting
<1>7. CASE Return
  <2>1. book' = book \/ RestsRemainder
    BY ZenonT(60), <1>7, ReturnShape
  <2> QED BY SMTT(60), <1>2, <1>4, <2>1
<1>8. ASSUME \/ \E o \in Submits : SubmitRejected(o) \/ SubmitAccepted(o)
             \/ \E p \in Prices : FetchLevel(p)
             \/ \E id \in OrderIds : CancelUnknown(id)
             \/ UNCHANGED vars
      PROVE  book' = book
  BY SMTT(60), <1>8 DEF SubmitRejected, SubmitAccepted, FetchLevel, CancelUnknown, vars, bookVars
<1> QED BY ZenonT(60), <1>1, <1>4, <1>5, <1>6, <1>7, <1>8 DEF Next

(* At first nothing is open and nothing was ever opened.                   *)
LEMMA LifeStarts == Init => RestingAlive /\ Lifecycle!LifecycleInit
<1> SUFFICES ASSUME Init PROVE RestingAlive /\ Lifecycle!LifecycleInit
  OBVIOUS
<1>1. Resting(book) = {} /\ pc = "idle"
  BY ZenonT(60), EmptyBookSound DEF Init
<1>2. OpenOrders = [k \in Clients \X OrderIds |-> NoOrder]
  BY ZenonT(60), <1>1 DEF OpenOrders, OpenOf
<1>3. UsedKeys = {}
  BY DEF Init, UsedKeys
<1> QED BY SMTT(60), <1>1, <1>2, <1>3 DEF RestingAlive, Lifecycle!LifecycleInit

(* The engine implements the life of an order that it promises its         *)
(* clients: opened once under a key never used before, filled only against *)
(* an open order of the other side at a price both accept, closed by its   *)
(* last fill, a cancel or an empty book; also when clients share ids.      *)
THEOREM ImplementsLifecycleHolds == Spec => ImplementsLifecycle
<1>1. EngineInvariant /\ RestingAlive /\ [Next]_vars => RestingAlive'
  BY Zenon, RestingAliveSteps
<1>2. EngineInvariant /\ OwnIdsInvariant /\ RestingAlive /\ OpenShown /\ OpenShown' /\ [Next]_vars
        => [Lifecycle!LifecycleNext]_Lifecycle!lifecycleVars
  BY ZenonT(60), LifeSteps
<1> QED BY <1>1, <1>2, LifeStarts, OpenIsShown, OwnIdsHold, EngineInvariantHolds, PTL
        DEF Spec, ImplementsLifecycle, Lifecycle!LifecycleSpec

-----------------------------------------------------------------------------
(* The cached totals.                                                      *)

(* A fill, with the removal of an order it consumes, keeps totals exact.   *)
LEMMA FilledTotals ==
    ASSUME EngineInvariant, TotalsExact(book), pc = "level"
    PROVE  TotalsExact(FilledBook)
<1> DEFINE b == ReduceOrder(book, Front, FillQty)
<1>1. /\ book \in Books /\ SlotsAccounted(book) /\ SoundBook(book)
      /\ Front \in Resting(book) /\ FillQty \in Nat /\ FillQty <= book.order[Front].quantity
  BY ZenonT(60), FrontIs, FillQtyIs DEF EngineInvariant, SoundBook
<1>2. SoundBook(b) /\ Resting(b) = Resting(book)
  BY ZenonT(60), <1>1, ReduceOrderSound
<1>3. TotalsExact(b)
  BY ZenonT(60), <1>1, ReduceOrderTotals
<1>4. FilledBook = IF FullyConsumed THEN RemoveOrder(b, Front) ELSE b
  BY DEF FilledBook
<1> HIDE DEF b
<1>5. TotalsExact(RemoveOrder(b, Front))
  BY ZenonT(60), <1>1, <1>2, <1>3, RemoveOrderTotals DEF SoundBook
<1> QED BY ZenonT(60), <1>3, <1>4, <1>5

(* No step of the engine makes a total wrong.                              *)
LEMMA TotalsSteps ==
    ASSUME EngineInvariant, TotalsExact(book), [Next]_vars
    PROVE  TotalsExact(book')
<1>1. book \in Books /\ SlotsAccounted(book)
  BY ZenonT(60) DEF EngineInvariant, SoundBook
<1>2. CASE Fill
  BY ZenonT(60), <1>2, FilledTotals DEF Fill
<1>3. ASSUME NEW s \in Resting(book), book' = RemoveOrder(book, s) PROVE TotalsExact(book')
  BY ZenonT(60), <1>1, <1>3, RemoveOrderTotals
<1>4. CASE book' = book
  BY ZenonT(60), <1>4
<1>5. CASE CancelOwn
  BY ZenonT(60), <1>3, <1>5, FrontIs DEF CancelOwn
<1>6. ASSUME NEW id \in OrderIds, CancelResting(id) PROVE TotalsExact(book')
  <2>1. FindOrder(book, id) \in Resting(book)
    BY ZenonT(60), <1>6
       DEF CancelResting, EngineInvariant, SoundBook, IndexLeadsHome, FindOrder
  <2> QED BY ZenonT(60), <1>3, <1>6, <2>1 DEF CancelResting
<1>7. CASE Return
  <2>1. /\ pc = "match"
        /\ \/ incoming.limit # NoLimit /\ book' = AddOrder(book, RestingOrder)
           \/ book' = book
    BY ZenonT(60), <1>7 DEF Return, bookVars
  <2>2. CASE incoming.limit # NoLimit /\ book' = AddOrder(book, RestingOrder)
    BY ZenonT(60), <1>1, <2>1, <2>2, RestingOrderTyped, AddOrderTotals
  <2> QED BY SMTT(60), <1>4, <2>1, <2>2
<1>8. ASSUME \/ \E o \in Submits : SubmitRejected(o) \/ SubmitAccepted(o)
             \/ \E p \in Prices : FetchLevel(p)
             \/ \E id \in OrderIds : CancelUnknown(id)
             \/ UNCHANGED vars
      PROVE  book' = book
  BY <1>8 DEF SubmitRejected, SubmitAccepted, FetchLevel, CancelUnknown, vars, bookVars
<1> QED BY ZenonT(60), <1>2, <1>4, <1>5, <1>6, <1>7, <1>8 DEF Next

(* What the run checks is what is proved of the book.                      *)
LEMMA TotalsShown == TotalsExact(book) /\ RestingAlive => LevelTotalsExact
BY ZenonT(60) DEF TotalsExact, LevelTotalsExact, QueueQuantity, Outstanding, RestingAlive

(* The total_qty_ that a level keeps incrementally, through every add,     *)
(* fill and removal, is the sum of what its orders have left, and no order *)
(* stays in the book with nothing left of it.                              *)
THEOREM LevelTotalsExactHolds == Spec => []LevelTotalsExact
<1>1. Init => TotalsExact(book)
  BY ZenonT(60), EmptyBookTotals DEF Init
<1>2. EngineInvariant /\ TotalsExact(book) /\ [Next]_vars => TotalsExact(book)'
  BY ZenonT(60), TotalsSteps
<1>3. EngineInvariant /\ RestingAlive /\ [Next]_vars => RestingAlive'
  BY ZenonT(60), RestingAliveSteps
<1>4. Init => RestingAlive
  BY LifeStarts
<1> QED BY <1>1, <1>2, <1>3, <1>4, TotalsShown, EngineInvariantHolds, PTL DEF Spec
=============================================================================
