-------------------------- MODULE OrderBookProofs ---------------------------
(* The order book for every pool, set of prices and set of ids: best       *)
(* prices, a level without one of its orders, what remove_order,           *)
(* reduce_quantity and add_order preserve, and sound books, from which     *)
(* every operation leads to another.                                       *)
EXTENDS OrderBook, WellFoundedInduction, TLAPS

(* The empty sequence, and a sequence that is not empty.                   *)
LEMMA SeqEmpty ==
    ASSUME NEW S
    PROVE  <<>> \in Seq(S) /\ Len(<<>>) = 0 /\ \A s \in Seq(S) : s # <<>> => Len(s) \in Nat \ {0}
OBVIOUS

(* A sequence is a function on its places.                                 *)
LEMMA SeqLength ==
    ASSUME NEW S, NEW s \in Seq(S)
    PROVE  Len(s) \in Nat /\ DOMAIN s = 1..Len(s) /\ s \in [1..Len(s) -> S]
<1>1. Len(s) \in Nat
  OBVIOUS
<1>2. DOMAIN s = 1..Len(s)
  OBVIOUS
<1>3. s \in [1..Len(s) -> S]
  OBVIOUS
<1> QED BY ONLY Zenon, <1>1, <1>2, <1>3

(* The front of a sequence and what follows it.                            *)
LEMMA SeqHeadTail ==
    ASSUME NEW S, NEW s \in Seq(S), s # <<>>
    PROVE  /\ Head(s) \in S /\ Tail(s) \in Seq(S) /\ Len(Tail(s)) = Len(s) - 1
           /\ \A i \in 1..Len(Tail(s)) : Tail(s)[i] = s[i + 1]
<1>1. Head(s) \in S
  OBVIOUS
<1>2. Tail(s) \in Seq(S)
  OBVIOUS
<1>3. Len(Tail(s)) = Len(s) - 1
  OBVIOUS
<1>4. \A i \in 1..Len(Tail(s)) : Tail(s)[i] = s[i + 1]
  OBVIOUS
<1> QED BY ONLY Zenon, <1>1, <1>2, <1>3, <1>4

(* A sequence with one more element.                                       *)
LEMMA SeqAppend ==
    ASSUME NEW S, NEW s \in Seq(S), NEW e \in S
    PROVE  /\ Append(s, e) \in Seq(S) /\ Append(s, e) # <<>> /\ Len(Append(s, e)) = Len(s) + 1
           /\ \A i \in 1..Len(s) : Append(s, e)[i] = s[i]
           /\ Append(s, e)[Len(s) + 1] = e
<1>1. Append(s, e) \in Seq(S) /\ Len(Append(s, e)) = Len(s) + 1
  OBVIOUS
<1>2. Append(s, e) # <<>>
  <2>1. Len(s) + 1 # 0 /\ Len(<<>>) = 0
    OBVIOUS
  <2> QED BY ONLY Zenon, <1>1, <2>1
<1>3. \A i \in 1..Len(s) : Append(s, e)[i] = s[i]
  OBVIOUS
<1>4. Append(s, e)[Len(s) + 1] = e
  OBVIOUS
<1> QED BY ONLY Zenon, <1>1, <1>2, <1>3, <1>4

(* What the concatenation of two sequences holds.                          *)
LEMMA Joined ==
    ASSUME NEW S, NEW s \in Seq(S), NEW t \in Seq(S)
    PROVE  /\ s \o t \in Seq(S) /\ Len(s \o t) = Len(s) + Len(t)
           /\ \A k \in 1..(Len(s) + Len(t)) :
                 (s \o t)[k] = IF k <= Len(s) THEN s[k] ELSE t[k - Len(s)]
<1>1. s \o t \in Seq(S)
  OBVIOUS
<1>2. Len(s \o t) = Len(s) + Len(t) /\ Len(s) \in Nat /\ Len(t) \in Nat
  OBVIOUS
<1>3. \A k \in 1..Len(s) : (s \o t)[k] = s[k]
  OBVIOUS
<1>4. ASSUME NEW k \in 1..(Len(s) + Len(t)), ~(k <= Len(s)) PROVE (s \o t)[k] = t[k - Len(s)]
  BY <1>2, <1>4
<1> QED BY <1>1, <1>2, <1>3, <1>4

(* A non-empty set of numbers has a least member.                          *)
LEMMA HasLeast ==
    ASSUME NEW T, T \subseteq Nat, T # {}
    PROVE  \E x \in T : \A y \in T : x <= y
<1> DEFINE R == OpToRel(<, Nat)
<1>1. IsWellFoundedOn(R, Nat)
  BY Zenon, NatLessThanWellFounded
<1>2. \A x, y \in Nat : y < x => <<y, x>> \in R
  BY DEF OpToRel
<1> HIDE DEF R
<1>3. PICK x \in T : \A y \in T : ~ (<<y, x>> \in R)
  BY Zenon, <1>1, WFMin
<1>4. \A y \in T : ~ (y < x)
  BY Zenon, <1>2, <1>3
<1> QED BY <1>4

(* A non-empty bounded set of numbers has a greatest member.               *)
LEMMA HasGreatest ==
    ASSUME NEW T, NEW m \in Nat, T \subseteq 1..m, T # {}
    PROVE  \E x \in T : \A y \in T : x >= y
<1> DEFINE U == {m - x : x \in T}
<1>1. U \subseteq Nat
  OBVIOUS
<1>2. U # {}
  <2>1. PICK t \in T : TRUE
    BY Zenon
  <2> QED BY <2>1, m - t \in U
<1> HIDE DEF U
<1>3. PICK u \in U : \A v \in U : u <= v
  BY Zenon, <1>1, <1>2, HasLeast
<1>4. PICK x \in T : u = m - x
  BY <1>3 DEF U
<1>5. ASSUME NEW y \in T PROVE x >= y
  <2>1. m - x <= m - y
    BY <1>3, <1>4, m - y \in U DEF U
  <2> QED BY <2>1
<1> QED BY <1>5

(* A side with a level has a best one: begin() of the price tree.          *)
LEMMA HasBestLevel ==
    ASSUME NEW b, NEW side \in Sides, Levels(b, side) # {}
    PROVE  \E p \in Prices : IsBest(b, side, p)
<1>1. PICK m \in Prices : \A p \in Prices : p <= m
  BY PricesAssumption
<1>2. Levels(b, side) \subseteq 1..m /\ Levels(b, side) \subseteq Nat /\ m \in Nat
  BY <1>1, PricesAssumption DEF Levels
<1>3. PICK low \in Levels(b, side) : \A y \in Levels(b, side) : low <= y
  BY <1>2, HasLeast
<1>4. PICK high \in Levels(b, side) : \A y \in Levels(b, side) : high >= y
  BY SMTT(60), <1>2, HasGreatest
<1>5. low \in Prices /\ high \in Prices
  BY <1>3, <1>4 DEF Levels
<1> QED BY <1>3, <1>4, <1>5 DEF IsBest

(* PriceLevel::remove takes out exactly one node and leaves the others in  *)
(* their order.                                                            *)
LEMMA WithoutProperties ==
    ASSUME NEW S, NEW q \in Seq(S), NEW k \in DOMAIN q,
           \A i, j \in DOMAIN q : q[i] = q[j] => i = j
    PROVE  /\ Without(q, q[k]) \in Seq(S)
           /\ Len(Without(q, q[k])) = Len(q) - 1
           /\ DOMAIN Without(q, q[k]) = 1..(Len(q) - 1)
           /\ \A j \in 1..(Len(q) - 1) :
                 Without(q, q[k])[j] = IF j < k THEN q[j] ELSE q[j + 1]
<1> DEFINE w == [j \in 1..(Len(q) - 1) |-> IF j < k THEN q[j] ELSE q[j + 1]]
<1>1. (CHOOSE i \in DOMAIN q : q[i] = q[k]) = k
  OBVIOUS
<1>2. Without(q, q[k]) = w
  BY <1>1 DEF Without
<1>3. Len(q) \in Nat /\ DOMAIN q = 1..Len(q) /\ \A i \in 1..Len(q) : q[i] \in S
  BY SeqLength
<1>4. Len(q) - 1 \in Nat
  BY <1>3
<1>5. \A j \in 1..(Len(q) - 1) : w[j] \in S
  BY <1>3
<1>6. w \in Seq(S) /\ Len(w) = Len(q) - 1
  <2> DEFINE n == Len(q) - 1
  <2>1. w \in [1..n -> S]
    BY <1>5
  <2>2. n \in Nat
    BY <1>4
  <2> HIDE DEF n, w
  <2>3. w \in Seq(S)
    BY <2>1, <2>2
  <2>4. Len(w) = n
    BY <2>1, <2>2, <2>3, SeqLength
  <2> QED BY <2>3, <2>4 DEF n
<1> QED BY <1>2, <1>6

(* QueuedAtOwnLevel with its abbreviation expanded.                        *)
LEMMA QueuedAtOwnLevelIs ==
    ASSUME NEW b
    PROVE  QueuedAtOwnLevel(b) <=>
             \A side \in Sides, p \in Prices :
                \A i \in DOMAIN b.queue[side][p] :
                   /\ b.queue[side][p][i] \in Resting(b)
                   /\ b.order[b.queue[side][p][i]].side = side
                   /\ b.order[b.queue[side][p][i]].price = p
BY DEF QueuedAtOwnLevel, RestsAt

(* An order found in a level rests there.                                  *)
LEMMA QueuedHere ==
    ASSUME NEW b, QueuedAtOwnLevel(b), NEW side \in Sides, NEW p \in Prices,
           NEW i \in DOMAIN b.queue[side][p]
    PROVE  /\ b.queue[side][p][i] \in Resting(b)
           /\ b.order[b.queue[side][p][i]].side = side
           /\ b.order[b.queue[side][p][i]].price = p
<1>1. RestsAt(b, b.queue[side][p][i], side, p)
  BY Zenon DEF QueuedAtOwnLevel
<1> QED BY Zenon, <1>1 DEF RestsAt

(* What a resting order is, and where.                                     *)
LEMMA RestingOrderIs ==
    ASSUME NEW b \in Books, NEW s \in Resting(b)
    PROVE  /\ s \in Slots
           /\ b.order[s] \in Orders
           /\ b.order[s].side \in Sides /\ b.order[s].price \in Prices
           /\ b.order[s].id \in OrderIds
           /\ b.queue[b.order[s].side][b.order[s].price] \in Seq(Slots)
BY DEF Books, Resting, Orders

(* Replacing the entry of one level leaves those of the others.            *)
LEMMA SetLevelTyped ==
    ASSUME NEW V, NEW f \in [Sides -> [Prices -> V]], NEW o, o.side \in Sides,
           o.price \in Prices, NEW v \in V
    PROVE  SetLevel(f, o, v) \in [Sides -> [Prices -> V]]
BY SMTT(60) DEF SetLevel

-----------------------------------------------------------------------------
(* remove_order.                                                           *)

(* remove_order, field by field.                                           *)
LEMMA RemoveOrderFields ==
    ASSUME NEW b, NEW s
    PROVE  LET o == b.order[s]
               r == RemoveOrder(b, s)
           IN  /\ r.order = [b.order EXCEPT ![s] = NoOrder]
               /\ r.queue = SetLevel(b.queue, o, Without(b.queue[o.side][o.price], s))
               /\ r.total = SetLevel(b.total, o, b.total[o.side][o.price] - o.quantity)
               /\ r.index = [b.index EXCEPT ![o.id] = NoSlot]
               /\ r.free = <<s>> \o b.free
               /\ r = [order |-> r.order, queue |-> r.queue, total |-> r.total,
                       index |-> r.index, free |-> r.free]
BY SMTT(60) DEF RemoveOrder

(* remove_order leaves a book and changes one level only.                  *)
LEMMA RemoveOrderTyped ==
    ASSUME NEW b \in Books, NEW s \in Resting(b),
           Without(b.queue[b.order[s].side][b.order[s].price], s) \in Seq(Slots)
    PROVE  /\ RemoveOrder(b, s) \in Books
           /\ \A side \in Sides, p \in Prices :
                 RemoveOrder(b, s).queue[side][p]
                   = IF side = b.order[s].side /\ p = b.order[s].price
                     THEN Without(b.queue[side][p], s) ELSE b.queue[side][p]
<1> DEFINE o == b.order[s]
           r == RemoveOrder(b, s)
<1>1. /\ s \in Slots /\ o \in Orders /\ o.side \in Sides /\ o.price \in Prices
      /\ o.id \in OrderIds /\ o.quantity \in Nat
  BY Zenon, RestingOrderIs DEF Orders
<1>2. r.order \in [Slots -> Orders \union {NoOrder}]
  <2>1. b.order \in [Slots -> Orders \union {NoOrder}]
    BY DEF Books
  <2>2. r.order = [b.order EXCEPT ![s] = NoOrder]
    BY Zenon, RemoveOrderFields
  <2> QED BY Zenon, <2>1, <2>2
<1>3. /\ r.queue \in [Sides -> [Prices -> Seq(Slots)]]
      /\ \A side \in Sides, p \in Prices :
            r.queue[side][p] = IF side = o.side /\ p = o.price
                               THEN Without(b.queue[side][p], s) ELSE b.queue[side][p]
  <2>1. b.queue \in [Sides -> [Prices -> Seq(Slots)]]
    BY DEF Books
  <2> DEFINE w == Without(b.queue[o.side][o.price], s)
  <2>2. r.queue = SetLevel(b.queue, o, w)
    BY Zenon, RemoveOrderFields
  <2>3. w \in Seq(Slots)
    OBVIOUS
  <2> HIDE DEF o, r, w
  <2>4. SetLevel(b.queue, o, w) \in [Sides -> [Prices -> Seq(Slots)]]
    BY Zenon, <1>1, <2>1, <2>3, SetLevelTyped
  <2>5. r.queue[o.side][o.price] = w
    BY SMTT(60), <1>1, <2>1, <2>2 DEF SetLevel
  <2>6. ASSUME NEW side \in Sides, NEW p \in Prices, ~(side = o.side /\ p = o.price)
        PROVE  r.queue[side][p] = b.queue[side][p]
    BY <1>1, <2>1, <2>2, <2>6 DEF SetLevel
  <2> QED BY Zenon, <2>2, <2>4, <2>5, <2>6 DEF w
<1>4. r.total \in [Sides -> [Prices -> Int]]
  <2>1. b.total \in [Sides -> [Prices -> Int]]
    BY DEF Books
  <2>2. r.total = SetLevel(b.total, o, b.total[o.side][o.price] - o.quantity)
    BY Zenon, RemoveOrderFields
  <2>3. b.total[o.side][o.price] - o.quantity \in Int
    BY <1>1, <2>1
  <2> HIDE DEF o, r
  <2>4. SetLevel(b.total, o, b.total[o.side][o.price] - o.quantity)
          \in [Sides -> [Prices -> Int]]
    BY Zenon, <1>1, <2>1, <2>3, SetLevelTyped
  <2> QED BY Zenon, <2>2, <2>4
<1>5. r.index \in [OrderIds -> Slots \union {NoSlot}]
  <2>1. b.index \in [OrderIds -> Slots \union {NoSlot}]
    BY DEF Books
  <2>2. r.index = [b.index EXCEPT ![o.id] = NoSlot]
    BY Zenon, RemoveOrderFields
  <2> QED BY Zenon, <2>1, <2>2
<1>6. r.free \in Seq(Slots)
  <2>1. b.free \in Seq(Slots) /\ <<s>> \in Seq(Slots)
    BY <1>1 DEF Books
  <2>2. r.free = <<s>> \o b.free
    BY Zenon, RemoveOrderFields
  <2> QED BY <2>1, <2>2, Joined
<1>7. r = [order |-> r.order, queue |-> r.queue, total |-> r.total,
           index |-> r.index, free |-> r.free]
  BY Zenon, RemoveOrderFields
<1> QED BY <1>2, <1>3, <1>4, <1>5, <1>6, <1>7 DEF Books

(* Where remove_order finds its order: place k of its level.               *)
LEMMA RestingPlace ==
    ASSUME NEW b \in Books, SlotsAccounted(b), NEW s \in Resting(b)
    PROVE  LET q == b.queue[b.order[s].side][b.order[s].price]
           IN  /\ q \in Seq(Slots)
               /\ \A i, j \in DOMAIN q : q[i] = q[j] => i = j
               /\ \E k \in DOMAIN q : q[k] = s
<1>1. /\ b.order[s].side \in Sides /\ b.order[s].price \in Prices
      /\ b.queue[b.order[s].side][b.order[s].price] \in Seq(Slots)
  BY RestingOrderIs
<1>2. QueuedOnce(b) /\ RestingIsQueued(b)
  BY DEF SlotsAccounted
<1> QED BY Zenon, <1>1, <1>2 DEF QueuedOnce, RestingIsQueued

(* remove_order leaves a book and takes one node out of one level.         *)
LEMMA RemoveOrderShape ==
    ASSUME NEW b \in Books, SlotsAccounted(b), NEW s \in Resting(b)
    PROVE  LET o == b.order[s]
               r == RemoveOrder(b, s)
               q == b.queue[o.side][o.price]
               w == r.queue[o.side][o.price]
           IN  /\ r \in Books
               /\ \A side \in Sides, p \in Prices :
                     ~(side = o.side /\ p = o.price) => r.queue[side][p] = b.queue[side][p]
               /\ Len(q) \in Nat /\ DOMAIN q = 1..Len(q) /\ DOMAIN w = 1..(Len(q) - 1)
               /\ \E k \in DOMAIN q :
                     /\ q[k] = s
                     /\ \A j \in 1..(Len(q) - 1) : w[j] = IF j < k THEN q[j] ELSE q[j + 1]
<1> DEFINE Q == b.queue[b.order[s].side][b.order[s].price]
<1>1. /\ Q \in Seq(Slots)
      /\ \A i, j \in DOMAIN Q : Q[i] = Q[j] => i = j
      /\ \E k \in DOMAIN Q : Q[k] = s
  BY Zenon, RestingPlace
<1>2. PICK k \in DOMAIN Q : Q[k] = s
  BY Zenon, <1>1
<1>3. /\ Without(Q, s) \in Seq(Slots)
      /\ DOMAIN Without(Q, s) = 1..(Len(Q) - 1)
      /\ \A j \in 1..(Len(Q) - 1) : Without(Q, s)[j] = IF j < k THEN Q[j] ELSE Q[j + 1]
  <2> HIDE DEF Q
  <2> QED BY <1>1, <1>2, WithoutProperties
<1>4. Len(Q) \in Nat /\ DOMAIN Q = 1..Len(Q)
  <2> HIDE DEF Q
  <2> QED BY <1>1, SeqLength
<1>5. /\ RemoveOrder(b, s) \in Books
      /\ \A side \in Sides, p \in Prices :
            RemoveOrder(b, s).queue[side][p]
              = IF side = b.order[s].side /\ p = b.order[s].price
                THEN Without(b.queue[side][p], s) ELSE b.queue[side][p]
  BY ZenonT(60), <1>3, RemoveOrderTyped
<1>6. RemoveOrder(b, s).queue[b.order[s].side][b.order[s].price] = Without(Q, s)
  BY SMTT(60), <1>5, RestingOrderIs
<1>7. \A side \in Sides, p \in Prices :
         ~(side = b.order[s].side /\ p = b.order[s].price)
           => RemoveOrder(b, s).queue[side][p] = b.queue[side][p]
  BY <1>5
<1> DEFINE W == RemoveOrder(b, s).queue[b.order[s].side][b.order[s].price]
<1>8. /\ DOMAIN W = 1..(Len(Q) - 1)
      /\ \E i \in DOMAIN Q :
            /\ Q[i] = s
            /\ \A j \in 1..(Len(Q) - 1) : W[j] = IF j < i THEN Q[j] ELSE Q[j + 1]
  <2>1. W = Without(Q, s)
    BY <1>6
  <2> HIDE DEF Q, W
  <2>2. \A j \in 1..(Len(Q) - 1) : W[j] = IF j < k THEN Q[j] ELSE Q[j + 1]
    BY <1>3, <2>1
  <2>3. DOMAIN W = 1..(Len(Q) - 1)
    BY <1>3, <2>1
  <2> QED BY Zenon, <1>2, <2>2, <2>3
<1>9. RemoveOrder(b, s) \in Books
  BY <1>5
<1> QED BY <1>4, <1>7, <1>8, <1>9, ZenonT(60)

(* remove_order frees one slot and leaves every other order as it is.      *)
LEMMA RemoveOrderResting ==
    ASSUME NEW b \in Books, NEW s \in Resting(b)
    PROVE  /\ Resting(RemoveOrder(b, s)) = Resting(b) \ {s}
           /\ \A t \in Resting(b) \ {s} : RemoveOrder(b, s).order[t] = b.order[t]
<1>1. s \in Slots
  BY RestingOrderIs
<1>2. b.order \in [Slots -> Orders \union {NoOrder}]
  BY DEF Books
<1>3. RemoveOrder(b, s).order = [b.order EXCEPT ![s] = NoOrder]
  BY Zenon, RemoveOrderFields
<1> QED BY <1>1, <1>2, <1>3 DEF Resting

(* The node at place i of a level after a removal was in that level before, *)
(* at a place that grows with i, and is not the one removed.               *)
LEMMA RemoveOrderPlaces ==
    ASSUME NEW b \in Books, SlotsAccounted(b), NEW s \in Resting(b),
           NEW side \in Sides, NEW p \in Prices
    PROVE  LET r == RemoveOrder(b, s)
               q == b.queue[side][p]
               w == r.queue[side][p]
           IN  /\ \A i \in DOMAIN w : \E j \in DOMAIN q : w[i] = q[j] /\ q[j] # s
               /\ \A i1, i2 \in DOMAIN w : i1 < i2 =>
                     \E j1, j2 \in DOMAIN q : j1 < j2 /\ w[i1] = q[j1] /\ w[i2] = q[j2]
               /\ \A j \in DOMAIN q : q[j] # s => \E i \in DOMAIN w : w[i] = q[j]
               /\ DOMAIN w \subseteq Int /\ DOMAIN q \subseteq Int
<1> DEFINE o == b.order[s]
           r == RemoveOrder(b, s)
           q == b.queue[side][p]
           w == r.queue[side][p]
<1>1. QueuedAtOwnLevel(b) /\ QueuedOnce(b)
  BY DEF SlotsAccounted
<1>2. q \in Seq(Slots) /\ Len(q) \in Nat /\ DOMAIN q = 1..Len(q)
  <2>1. q \in Seq(Slots)
    BY DEF Books
  <2> HIDE DEF q
  <2> QED BY <2>1, SeqLength
<1>3. \A i, j \in DOMAIN q : q[i] = q[j] => i = j
  BY <1>1 DEF QueuedOnce
<1> DEFINE Own(Q, W) ==
             /\ DOMAIN W = 1..(Len(Q) - 1)
             /\ \E k \in DOMAIN Q :
                   /\ Q[k] = s
                   /\ \A j \in 1..(Len(Q) - 1) : W[j] = IF j < k THEN Q[j] ELSE Q[j + 1]
<1>a. /\ Own(b.queue[o.side][o.price], r.queue[o.side][o.price])
      /\ \A sd \in Sides, x \in Prices :
            ~(sd = o.side /\ x = o.price) => r.queue[sd][x] = b.queue[sd][x]
  BY ZenonT(60), RemoveOrderShape
<1>4. CASE side = o.side /\ p = o.price
  <2>0. Own(q, w)
    <3> HIDE DEF o, r, Own
    <3> QED BY <1>a, <1>4
  <2>1. /\ DOMAIN w = 1..(Len(q) - 1)
        /\ \E k \in DOMAIN q :
              /\ q[k] = s
              /\ \A j \in 1..(Len(q) - 1) : w[j] = IF j < k THEN q[j] ELSE q[j + 1]
    <3> HIDE DEF q, w
    <3> QED BY <2>0
  <2>2. PICK k \in DOMAIN q :
              /\ q[k] = s
              /\ \A j \in 1..(Len(q) - 1) : w[j] = IF j < k THEN q[j] ELSE q[j + 1]
    BY <2>1
  <2> DEFINE before(i) == IF i < k THEN i ELSE i + 1
  <2> HIDE DEF q, w, r, o
  <2>3. \A i \in DOMAIN w : before(i) \in DOMAIN q /\ before(i) # k /\ w[i] = q[before(i)]
    BY <1>2, <2>1, <2>2
  <2>4. \A i1, i2 \in DOMAIN w : i1 < i2 => before(i1) < before(i2)
    BY <1>2, <2>1, <2>2
  <2>5. ASSUME NEW j \in DOMAIN q, q[j] # s
        PROVE  \E i \in DOMAIN w : w[i] = q[j]
    <3>1. j # k
      BY <2>2, <2>5
    <3>2. CASE j < k
      BY <1>2, <2>1, <2>2, <3>2, j \in DOMAIN w
    <3>3. CASE j > k
      <4>1. j - 1 \in DOMAIN w /\ before(j - 1) = j
        BY <1>2, <2>1, <2>2, <3>3
      <4> QED BY <2>3, <4>1
    <3> QED BY <1>2, <2>2, <3>1, <3>2, <3>3
  <2>6. \A i \in DOMAIN w : q[before(i)] # s
    BY <1>3, <2>2, <2>3
  <2>7. DOMAIN w \subseteq Int /\ DOMAIN q \subseteq Int
    BY <1>2, <2>1
  <2> HIDE DEF before
  <2>8. \A i \in DOMAIN w : \E j \in DOMAIN q : w[i] = q[j] /\ q[j] # s
    BY <2>3, <2>6
  <2>9. \A i1, i2 \in DOMAIN w : i1 < i2 =>
           \E j1, j2 \in DOMAIN q : j1 < j2 /\ w[i1] = q[j1] /\ w[i2] = q[j2]
    BY Zenon, <2>3, <2>4
  <2> QED BY <2>5, <2>7, <2>8, <2>9 DEF q, w, r
<1>5. CASE ~(side = o.side /\ p = o.price)
  <2>1. w = q
    <3> HIDE DEF o, r, Own
    <3> QED BY Zenon, <1>a, <1>5
  <2>2. \A j \in DOMAIN q : q[j] # s
    BY <1>1, <1>5 DEF QueuedAtOwnLevel, RestsAt
  <2> HIDE DEF q, w, r, o
  <2>3. DOMAIN q \subseteq Int
    BY <1>2
  <2> QED BY <2>1, <2>2, <2>3 DEF q, w, r
<1> QED BY <1>4, <1>5

(* What is left at a level stood there before.                             *)
LEMMA RemoveOrderKeepsPlaces ==
    ASSUME NEW b \in Books, SlotsAccounted(b), NEW s \in Resting(b),
           NEW side \in Sides, NEW p \in Prices,
           NEW i \in DOMAIN RemoveOrder(b, s).queue[side][p]
    PROVE  \E j \in DOMAIN b.queue[side][p] :
              RemoveOrder(b, s).queue[side][p][i] = b.queue[side][p][j] /\ b.queue[side][p][j] # s
<1> DEFINE r == RemoveOrder(b, s)
           q == b.queue[side][p]
           w == r.queue[side][p]
<1>1. /\ \A k \in DOMAIN w : \E j \in DOMAIN q : w[k] = q[j] /\ q[j] # s
      /\ \A i1, i2 \in DOMAIN w : i1 < i2 =>
            \E j1, j2 \in DOMAIN q : j1 < j2 /\ w[i1] = q[j1] /\ w[i2] = q[j2]
      /\ \A j \in DOMAIN q : q[j] # s => \E k \in DOMAIN w : w[k] = q[j]
      /\ DOMAIN w \subseteq Int /\ DOMAIN q \subseteq Int
  BY Zenon, RemoveOrderPlaces
<1>2. i \in DOMAIN w
  BY Zenon
<1> HIDE DEF w, q
<1>3. \E j \in DOMAIN q : w[i] = q[j] /\ q[j] # s
  BY Zenon, <1>1, <1>2
<1> QED BY Zenon, <1>3 DEF w, q

(* remove_order keeps every slot accounted for, the levels in order of     *)
(* arrival and the index free of dangling entries, and leaves a free slot. *)
LEMMA RemoveOrderKeeps ==
    ASSUME NEW b \in Books, SlotsAccounted(b), NEW s \in Resting(b)
    PROVE  /\ RemoveOrder(b, s) \in Books
           /\ SlotsAccounted(RemoveOrder(b, s))
           /\ InArrivalOrder(b) => InArrivalOrder(RemoveOrder(b, s))
           /\ IndexLeadsHome(b) => IndexLeadsHome(RemoveOrder(b, s))
           /\ RemoveOrder(b, s).free # <<>>
<1> DEFINE r == RemoveOrder(b, s)
<1>1. QueuedAtOwnLevel(b) /\ QueuedOnce(b) /\ RestingIsQueued(b) /\ FreeIsTheRest(b)
  BY DEF SlotsAccounted
<1>2. /\ s \in Slots /\ b.order[s].side \in Sides /\ b.order[s].price \in Prices
      /\ b.order[s].id \in OrderIds
  BY RestingOrderIs
<1>3. Resting(r) = Resting(b) \ {s} /\ \A t \in Resting(b) \ {s} : r.order[t] = b.order[t]
  BY Zenon, RemoveOrderResting
<1>4. ASSUME NEW side \in Sides, NEW p \in Prices
      PROVE  LET q == b.queue[side][p]
                 w == r.queue[side][p]
             IN  /\ \A i \in DOMAIN w : \E j \in DOMAIN q : w[i] = q[j] /\ q[j] # s
                 /\ \A i1, i2 \in DOMAIN w : i1 < i2 =>
                      \E j1, j2 \in DOMAIN q : j1 < j2 /\ w[i1] = q[j1] /\ w[i2] = q[j2]
                 /\ \A j \in DOMAIN q : q[j] # s => \E i \in DOMAIN w : w[i] = q[j]
                 /\ DOMAIN w \subseteq Int /\ DOMAIN q \subseteq Int
  BY Zenon, RemoveOrderPlaces
<1>5. r \in Books
  BY Zenon, RemoveOrderShape
<1>6. r.index = [b.index EXCEPT ![b.order[s].id] = NoSlot] /\ r.free = <<s>> \o b.free
  BY Zenon, RemoveOrderFields
<1>7. b.index \in [OrderIds -> Slots \union {NoSlot}] /\ b.free \in Seq(Slots)
  BY DEF Books
<1>8. \A t \in Resting(b) : b.order[t].side \in Sides /\ b.order[t].price \in Prices
  BY RestingOrderIs
<1> HIDE DEF r
<1>9. QueuedAtOwnLevel(r)
  <2> SUFFICES ASSUME NEW side \in Sides, NEW p \in Prices,
                      NEW i \in DOMAIN r.queue[side][p]
               PROVE  RestsAt(r, r.queue[side][p][i], side, p)
    BY Zenon DEF QueuedAtOwnLevel
  <2>a. \A x \in DOMAIN r.queue[side][p] :
           \E j \in DOMAIN b.queue[side][p] :
              r.queue[side][p][x] = b.queue[side][p][j] /\ b.queue[side][p][j] # s
    BY Zenon, <1>4
  <2>1. PICK j \in DOMAIN b.queue[side][p] :
            r.queue[side][p][i] = b.queue[side][p][j] /\ b.queue[side][p][j] # s
    BY Zenon, <2>a
  <2> DEFINE t == b.queue[side][p][j]
  <2>2. RestsAt(b, t, side, p)
    BY Zenon, <1>1 DEF QueuedAtOwnLevel
  <2>3. r.queue[side][p][i] = t /\ t # s
    BY <2>1
  <2> HIDE DEF t
  <2>4. RestsAt(r, t, side, p)
    BY Zenon, <1>3, <2>2, <2>3 DEF RestsAt
  <2> QED BY Zenon, <2>3, <2>4
<1>10. QueuedOnce(r)
  <2> SUFFICES ASSUME NEW side \in Sides, NEW p \in Prices,
                      NEW i1 \in DOMAIN r.queue[side][p], NEW i2 \in DOMAIN r.queue[side][p],
                      i1 < i2
               PROVE  r.queue[side][p][i1] # r.queue[side][p][i2]
    <3>1. \A side \in Sides, p \in Prices : DOMAIN r.queue[side][p] \subseteq Int
      BY Zenon, <1>4
    <3> QED BY <3>1 DEF QueuedOnce
  <2>1. PICK j1, j2 \in DOMAIN b.queue[side][p] :
            /\ j1 < j2
            /\ r.queue[side][p][i1] = b.queue[side][p][j1]
            /\ r.queue[side][p][i2] = b.queue[side][p][j2]
    BY SMTT(60), <1>4
  <2>2. j1 # j2
    BY <1>4, <2>1
  <2> QED BY <1>1, <2>1, <2>2 DEF QueuedOnce
<1>11. RestingIsQueued(r)
  <2> SUFFICES ASSUME NEW t \in Resting(b), t # s
               PROVE  \E i \in DOMAIN r.queue[b.order[t].side][b.order[t].price] :
                          r.queue[b.order[t].side][b.order[t].price][i] = t
    BY Zenon, <1>3 DEF RestingIsQueued
  <2>1. PICK j \in DOMAIN b.queue[b.order[t].side][b.order[t].price] :
            b.queue[b.order[t].side][b.order[t].price][j] = t
    BY Zenon, <1>1 DEF RestingIsQueued
  <2> DEFINE side == b.order[t].side
             p == b.order[t].price
  <2>2. side \in Sides /\ p \in Prices
    BY Zenon, <1>8
  <2>3. j \in DOMAIN b.queue[side][p] /\ b.queue[side][p][j] = t
    BY Zenon, <2>1
  <2> HIDE DEF side, p
  <2>4. \A k \in DOMAIN b.queue[side][p] :
            b.queue[side][p][k] # s =>
               \E i \in DOMAIN r.queue[side][p] : r.queue[side][p][i] = b.queue[side][p][k]
    BY Zenon, <1>4, <2>2
  <2>5. \E i \in DOMAIN r.queue[side][p] : r.queue[side][p][i] = t
    BY SMTT(60), <2>3, <2>4
  <2> QED BY Zenon, <2>5 DEF side, p
<1>12. /\ Len(r.free) = Len(b.free) + 1 /\ Len(b.free) \in Nat
       /\ DOMAIN b.free = 1..Len(b.free) /\ DOMAIN r.free = 1..(Len(b.free) + 1)
       /\ r.free[1] = s /\ \A i \in 1..Len(b.free) : r.free[i + 1] = b.free[i]
       /\ \A i \in 2..(Len(b.free) + 1) : i - 1 \in DOMAIN b.free /\ r.free[i] = b.free[i - 1]
  <2> DEFINE f == b.free
             n == Len(f)
  <2>1. <<s>> \in Seq(Slots) /\ f \in Seq(Slots) /\ Len(<<s>>) = 1
    BY <1>2, <1>7
  <2>2. r.free = <<s>> \o f
    BY <1>6
  <2> HIDE DEF f
  <2>3. Len(f) \in Nat /\ DOMAIN f = 1..Len(f)
    BY <2>1, SeqLength
  <2> QED BY <2>1, <2>2, <2>3 DEF f
<1>13. FreeIsTheRest(r)
  <2>1. \A i \in DOMAIN b.free : b.free[i] \in Slots /\ b.free[i] # s
    BY <1>1, <1>2, <1>7 DEF FreeIsTheRest
  <2>2. ASSUME NEW t \in Slots
        PROVE  t \in Resting(r) <=> \A i \in DOMAIN r.free : r.free[i] # t
    <3>1. t \in Resting(b) <=> \A i \in DOMAIN b.free : b.free[i] # t
      BY <1>1 DEF FreeIsTheRest
    <3>2. CASE t = s
      BY <1>3, <1>12, <3>2
    <3>3. CASE t # s
      <4>1. (\A i \in DOMAIN b.free : b.free[i] # t) <=> (\A i \in DOMAIN r.free : r.free[i] # t)
        <5>1. ASSUME NEW i \in DOMAIN r.free, r.free[i] = t, \A j \in DOMAIN b.free : b.free[j] # t
              PROVE  FALSE
          <6>1. i # 1
            BY <1>12, <3>3, <5>1
          <6>2. i \in 2..(Len(b.free) + 1)
            BY <1>12, <6>1
          <6> QED BY Zenon, <1>12, <5>1, <6>2
        <5>2. ASSUME NEW i \in DOMAIN b.free, b.free[i] = t
              PROVE  \E j \in DOMAIN r.free : r.free[j] = t
          <6>1. i + 1 \in DOMAIN r.free /\ r.free[i + 1] = b.free[i]
            BY <1>12
          <6> QED BY <5>2, <6>1
        <5> QED BY <5>1, <5>2
      <4> QED BY <1>3, <3>1, <3>3, <4>1
    <3> QED BY <3>2, <3>3
  <2>3. ASSUME NEW i \in DOMAIN r.free, NEW j \in DOMAIN r.free, i < j
        PROVE  r.free[i] # r.free[j]
    <3> DEFINE n == Len(b.free)
    <3>a. n \in Nat /\ i \in 1..(n + 1) /\ j \in 1..(n + 1)
      BY Zenon, <1>12, <2>3
    <3> HIDE DEF n
    <3>b. j \in 2..(n + 1)
      BY <2>3, <3>a
    <3>1. j - 1 \in DOMAIN b.free /\ r.free[j] = b.free[j - 1]
      BY Zenon, <1>12, <3>b DEF n
    <3>2. CASE i = 1
      BY SMTT(60), <1>12, <2>1, <3>1, <3>2
    <3>3. CASE i # 1
      <4>b. i \in 2..(n + 1) /\ i - 1 # j - 1
        BY <2>3, <3>3, <3>a
      <4>1. i - 1 \in DOMAIN b.free /\ r.free[i] = b.free[i - 1] /\ i - 1 # j - 1
        BY Zenon, <1>12, <4>b DEF n
      <4>2. b.free[i - 1] # b.free[j - 1]
        BY Zenon, <1>1, <3>1, <4>1 DEF FreeIsTheRest
      <4> QED BY Zenon, <3>1, <4>1, <4>2
    <3> QED BY <3>2, <3>3
  <2>4. \A i, j \in DOMAIN r.free : r.free[i] = r.free[j] => i = j
    BY <1>12, <2>3
  <2> QED BY SMTT(60), <2>2, <2>4 DEF FreeIsTheRest
<1>14. r.free # <<>>
  BY <1>12
<1>15. ASSUME InArrivalOrder(b) PROVE InArrivalOrder(r)
  <2> SUFFICES ASSUME NEW side \in Sides, NEW p \in Prices,
                      NEW i1 \in DOMAIN r.queue[side][p], NEW i2 \in DOMAIN r.queue[side][p],
                      i1 < i2
               PROVE  r.order[r.queue[side][p][i1]].sequence
                        < r.order[r.queue[side][p][i2]].sequence
    BY ZenonT(60) DEF InArrivalOrder
  <2>1. PICK j1, j2 \in DOMAIN b.queue[side][p] :
            /\ j1 < j2
            /\ r.queue[side][p][i1] = b.queue[side][p][j1]
            /\ r.queue[side][p][i2] = b.queue[side][p][j2]
    BY <1>4
  <2>2. /\ r.queue[side][p][i1] \in Resting(b) \ {s}
        /\ r.queue[side][p][i2] \in Resting(b) \ {s}
    BY Zenon, <1>3, <1>9 DEF QueuedAtOwnLevel, RestsAt
  <2>3. b.order[b.queue[side][p][j1]].sequence < b.order[b.queue[side][p][j2]].sequence
    BY Zenon, <1>15, <2>1 DEF InArrivalOrder
  <2> DEFINE x == r.queue[side][p][i1]
             y == r.queue[side][p][i2]
  <2>4. b.order[x].sequence < b.order[y].sequence
    BY Zenon, <2>1, <2>3
  <2>5. x \in Resting(b) \ {s} /\ y \in Resting(b) \ {s}
    BY Zenon, <2>2
  <2> HIDE DEF x, y
  <2>6. r.order[x] = b.order[x] /\ r.order[y] = b.order[y]
    BY Zenon, <1>3, <2>5
  <2>7. r.order[x].sequence < r.order[y].sequence
    BY Zenon, <2>4, <2>6
  <2> QED BY Zenon, <2>7 DEF x, y
<1>16. ASSUME IndexLeadsHome(b) PROVE IndexLeadsHome(r)
  <2> SUFFICES ASSUME NEW id \in OrderIds, r.index[id] # NoSlot
               PROVE  r.index[id] \in Resting(r) /\ r.order[r.index[id]].id = id
    BY Zenon DEF IndexLeadsHome
  <2>1. id # b.order[s].id /\ r.index[id] = b.index[id]
    BY <1>2, <1>6, <1>7
  <2>2. b.index[id] \in Resting(b) /\ b.order[b.index[id]].id = id
    BY Zenon, <1>16, <2>1 DEF IndexLeadsHome
  <2>3. b.index[id] # s
    BY Zenon, <2>1, <2>2
  <2> DEFINE t == b.index[id]
  <2>4. t \in Resting(b) \ {s} /\ b.order[t].id = id
    BY Zenon, <2>2, <2>3
  <2> HIDE DEF t
  <2>5. t \in Resting(r) /\ r.order[t] = b.order[t]
    BY Zenon, <1>3, <2>4
  <2> QED BY Zenon, <2>1, <2>4, <2>5 DEF t
<1> QED BY <1>5, <1>9, <1>10, <1>11, <1>13, <1>14, <1>15, <1>16 DEF SlotsAccounted, r

-----------------------------------------------------------------------------
(* reduce_quantity: a fill of a resting order.                             *)

(* A fill, field by field.                                                 *)
LEMMA ReduceOrderFields ==
    ASSUME NEW b, NEW s, NEW qty
    PROVE  LET r == ReduceOrder(b, s, qty)
           IN  /\ r.queue = b.queue /\ r.index = b.index /\ r.free = b.free
               /\ r = [order |-> r.order, queue |-> r.queue, total |-> r.total,
                       index |-> r.index, free |-> r.free]
BY DEF ReduceOrder

(* A fill takes its quantity off the total of one level.                   *)
LEMMA ReduceOrderTotal ==
    ASSUME NEW b, NEW s, NEW qty
    PROVE  LET o == b.order[s]
           IN  ReduceOrder(b, s, qty).total
                 = SetLevel(b.total, o, b.total[o.side][o.price] - qty)
BY DEF ReduceOrder

(* A fill changes one order.                                               *)
LEMMA ReduceOrderOrder ==
    ASSUME NEW b, NEW s, NEW qty
    PROVE  LET o == b.order[s]
           IN  ReduceOrder(b, s, qty).order
                 = [t \in DOMAIN b.order |-> IF t = s THEN Reduced(o, qty) ELSE b.order[t]]
<1>1. ReduceOrder(b, s, qty).order = [b.order EXCEPT ![s] = Reduced(b.order[s], qty)]
  BY DEF ReduceOrder
<1> QED BY <1>1

(* A fill changes what is left of one order and nothing else of any order. *)
LEMMA ReduceOrderOrders ==
    ASSUME NEW b \in Books, NEW s \in Resting(b), NEW qty \in Nat,
           qty <= b.order[s].quantity
    PROVE  LET r == ReduceOrder(b, s, qty)
           IN  /\ r.order \in [Slots -> Orders \union {NoOrder}]
               /\ Resting(r) = Resting(b)
               /\ \A t \in Resting(b) :
                     /\ r.order[t].id = b.order[t].id
                     /\ r.order[t].owner = b.order[t].owner
                     /\ r.order[t].side = b.order[t].side
                     /\ r.order[t].price = b.order[t].price
                     /\ r.order[t].sequence = b.order[t].sequence
<1> DEFINE o == b.order[s]
           n == Reduced(o, qty)
           r == ReduceOrder(b, s, qty)
<1>1. s \in Slots /\ o \in Orders /\ qty <= o.quantity
  BY RestingOrderIs
<1>2. b.order \in [Slots -> Orders \union {NoOrder}]
  BY DEF Books
<1>3. r.order = [t \in DOMAIN b.order |-> IF t = s THEN n ELSE b.order[t]]
  BY ReduceOrderOrder
<1>4. b.order[s] = o
  OBVIOUS
<1> HIDE DEF o, r
<1>5. /\ n \in Orders /\ n.id = o.id /\ n.owner = o.owner /\ n.side = o.side
      /\ n.price = o.price /\ n.sequence = o.sequence
  BY <1>1 DEF Orders, Reduced
<1> HIDE DEF n
<1>6. r.order \in [Slots -> Orders \union {NoOrder}]
  BY <1>1, <1>2, <1>3, <1>5
<1>7. r.order[s] = n /\ \A t \in Slots \ {s} : r.order[t] = b.order[t]
  BY <1>1, <1>2, <1>3
<1>8. Resting(r) = Resting(b)
  BY <1>1, <1>5, <1>7, NoOrderAssumption DEF Resting
<1>9. \A t \in Resting(b) : t \in Slots
  BY DEF Resting
<1>10. ASSUME NEW t \in Resting(b)
       PROVE  /\ r.order[t].id = b.order[t].id
              /\ r.order[t].owner = b.order[t].owner
              /\ r.order[t].side = b.order[t].side
              /\ r.order[t].price = b.order[t].price
              /\ r.order[t].sequence = b.order[t].sequence
  BY <1>4, <1>5, <1>7, <1>9
<1> QED BY SMTT(60), <1>6, <1>8, <1>10 DEF r

(* A fill keeps what relates the parts of the book.                        *)
LEMMA ReduceOrderKeeps ==
    ASSUME NEW b \in Books, SlotsAccounted(b), NEW s \in Resting(b),
           NEW qty \in Nat, qty <= b.order[s].quantity
    PROVE  /\ ReduceOrder(b, s, qty) \in Books
           /\ SlotsAccounted(ReduceOrder(b, s, qty))
           /\ InArrivalOrder(b) => InArrivalOrder(ReduceOrder(b, s, qty))
           /\ IndexLeadsHome(b) => IndexLeadsHome(ReduceOrder(b, s, qty))
<1> DEFINE o == b.order[s]
           r == ReduceOrder(b, s, qty)
<1>1. /\ r.order \in [Slots -> Orders \union {NoOrder}]
      /\ Resting(r) = Resting(b)
      /\ \A t \in Resting(b) :
            /\ r.order[t].id = b.order[t].id
            /\ r.order[t].side = b.order[t].side
            /\ r.order[t].price = b.order[t].price
            /\ r.order[t].sequence = b.order[t].sequence
  BY ReduceOrderOrders
<1>2. /\ r.queue = b.queue /\ r.index = b.index /\ r.free = b.free
  BY SMTT(60), ReduceOrderFields
<1>b. r.total = SetLevel(b.total, o, b.total[o.side][o.price] - qty)
  BY ReduceOrderTotal
<1>a. r = [order |-> r.order, queue |-> r.queue, total |-> r.total,
           index |-> r.index, free |-> r.free]
  BY ReduceOrderFields
<1>3. o.side \in Sides /\ o.price \in Prices
  BY RestingOrderIs
<1>4. /\ b.queue \in [Sides -> [Prices -> Seq(Slots)]]
      /\ b.total \in [Sides -> [Prices -> Int]]
      /\ b.index \in [OrderIds -> Slots \union {NoSlot}] /\ b.free \in Seq(Slots)
  BY DEF Books
<1>5. QueuedAtOwnLevel(b) /\ QueuedOnce(b) /\ RestingIsQueued(b) /\ FreeIsTheRest(b)
  BY Zenon DEF SlotsAccounted
<1> HIDE DEF o, r
<1>6. r.total \in [Sides -> [Prices -> Int]]
  <2>1. b.total[o.side][o.price] - qty \in Int
    BY <1>3, <1>4
  <2>2. SetLevel(b.total, o, b.total[o.side][o.price] - qty) \in [Sides -> [Prices -> Int]]
    BY Zenon, <1>3, <1>4, <2>1, SetLevelTyped
  <2> QED BY <1>b, <2>2
<1>7. r \in Books
  BY Zenon, <1>a, <1>1, <1>2, <1>4, <1>6 DEF Books
<1>8. QueuedAtOwnLevel(r) /\ \A side \in Sides, p \in Prices :
          \A i \in DOMAIN b.queue[side][p] : b.queue[side][p][i] \in Resting(b)
  <2>1. ASSUME NEW side \in Sides, NEW p \in Prices, NEW i \in DOMAIN b.queue[side][p]
        PROVE  /\ b.queue[side][p][i] \in Resting(b)
               /\ RestsAt(r, b.queue[side][p][i], side, p)
    <3> DEFINE t == b.queue[side][p][i]
    <3>1. RestsAt(b, t, side, p)
      BY Zenon, <1>5 DEF QueuedAtOwnLevel
    <3> HIDE DEF t
    <3>2. t \in Resting(b) /\ RestsAt(r, t, side, p)
      BY Zenon, <1>1, <3>1 DEF RestsAt
    <3> QED BY Zenon, <3>2 DEF t
  <2>2. r.queue = b.queue
    BY Zenon, <1>2
  <2>3. QueuedAtOwnLevel(r)
    BY SMTT(60), <2>1, <2>2 DEF QueuedAtOwnLevel
  <2> QED BY Zenon, <2>1, <2>3
<1>9. QueuedOnce(r)
  BY <1>2, <1>5 DEF QueuedOnce
<1>10. RestingIsQueued(r)
  <2> SUFFICES ASSUME NEW t \in Resting(b)
               PROVE  \E i \in DOMAIN r.queue[r.order[t].side][r.order[t].price] :
                          r.queue[r.order[t].side][r.order[t].price][i] = t
    BY Zenon, <1>1 DEF RestingIsQueued
  <2>1. \E i \in DOMAIN b.queue[b.order[t].side][b.order[t].price] :
            b.queue[b.order[t].side][b.order[t].price][i] = t
    BY Zenon, <1>5 DEF RestingIsQueued
  <2>2. r.order[t].side = b.order[t].side /\ r.order[t].price = b.order[t].price
    BY Zenon, <1>1
  <2> QED BY Zenon, <1>2, <2>1, <2>2
<1>11. FreeIsTheRest(r)
  BY <1>1, <1>2, <1>5 DEF FreeIsTheRest
<1>12. InArrivalOrder(b) => InArrivalOrder(r)
  <2> SUFFICES ASSUME InArrivalOrder(b), NEW side \in Sides, NEW p \in Prices,
                      NEW i \in DOMAIN b.queue[side][p],
                      NEW j \in DOMAIN b.queue[side][p], i < j
               PROVE  r.order[b.queue[side][p][i]].sequence
                        < r.order[b.queue[side][p][j]].sequence
    BY <1>2, Zenon DEF InArrivalOrder
  <2> DEFINE x == b.queue[side][p][i]
             y == b.queue[side][p][j]
  <2>1. b.order[x].sequence < b.order[y].sequence
    BY Zenon DEF InArrivalOrder
  <2>2. x \in Resting(b) /\ y \in Resting(b)
    BY <1>8, Zenon
  <2> HIDE DEF x, y
  <2>3. /\ r.order[x].sequence = b.order[x].sequence
        /\ r.order[y].sequence = b.order[y].sequence
    BY <1>1, <2>2, Zenon
  <2>4. r.order[x].sequence < r.order[y].sequence
    BY <2>1, <2>3, Zenon
  <2> QED BY <2>4, Zenon DEF x, y
<1>13. IndexLeadsHome(b) => IndexLeadsHome(r)
  BY <1>1, <1>2 DEF IndexLeadsHome
<1> QED BY ZenonT(60), <1>7, <1>8, <1>9, <1>10, <1>11, <1>12, <1>13 DEF SlotsAccounted, r

-----------------------------------------------------------------------------
(* add_order.                                                              *)

(* add_order, field by field.                                              *)
LEMMA AddOrderOrder ==
    ASSUME NEW b, NEW o, b.free # <<>>
    PROVE  LET s == Head(b.free)
           IN  AddOrder(b, o).order
                 = [t \in DOMAIN b.order |-> IF t = s THEN o ELSE b.order[t]]
<1>1. AddOrder(b, o).order = [b.order EXCEPT ![Head(b.free)] = o]
  BY DEF AddOrder
<1> QED BY <1>1

(* emplace adds an index entry only where there was none.                  *)
LEMMA AddOrderIndex ==
    ASSUME NEW b, NEW o, b.free # <<>>
    PROVE  LET s == Head(b.free)
           IN  AddOrder(b, o).index
                 = [id \in DOMAIN b.index |->
                      IF id = o.id /\ b.index[id] = NoSlot THEN s ELSE b.index[id]]
<1>1. AddOrder(b, o).index
        = [b.index EXCEPT ![o.id] = IF b.index[o.id] = NoSlot THEN Head(b.free)
                                    ELSE b.index[o.id]]
  BY DEF AddOrder
<1> QED BY <1>1

(* acquire takes the first slot of the free list.                          *)
LEMMA AddOrderFree ==
    ASSUME NEW b, NEW o, b.free # <<>>
    PROVE  AddOrder(b, o).free = Tail(b.free)
BY Zenon DEF AddOrder

(* push_back at the order's own level, and its total.                      *)
LEMMA AddOrderLevels ==
    ASSUME NEW b, NEW o, b.free # <<>>
    PROVE  LET r == AddOrder(b, o)
           IN  /\ r.queue = SetLevel(b.queue, o, Append(b.queue[o.side][o.price], Head(b.free)))
               /\ r.total = SetLevel(b.total, o, b.total[o.side][o.price] + o.quantity)
               /\ r = [order |-> r.order, queue |-> r.queue, total |-> r.total,
                       index |-> r.index, free |-> r.free]
BY SMTT(60) DEF AddOrder

(* The slot add_order takes is free and is the only one that changes; the  *)
(* rest of the free list stays as it is.                                   *)
LEMMA AddOrderSlots ==
    ASSUME NEW b \in Books, SlotsAccounted(b), NEW o \in Orders, b.free # <<>>
    PROVE  LET s == Head(b.free)
               r == AddOrder(b, o)
           IN  /\ s \in Slots /\ s \notin Resting(b)
               /\ r.order \in [Slots -> Orders \union {NoOrder}]
               /\ r.order[s] = o /\ \A t \in Slots \ {s} : r.order[t] = b.order[t]
               /\ Resting(r) = Resting(b) \union {s}
               /\ r.free \in Seq(Slots)
               /\ FreeIsTheRest(r)
<1> DEFINE s == Head(b.free)
           r == AddOrder(b, o)
           f == b.free
           g == r.free
<1>1. f \in Seq(Slots) /\ f # <<>> /\ b.order \in [Slots -> Orders \union {NoOrder}]
  BY Zenon DEF Books
<1>2. /\ \A t \in Slots : t \in Resting(b) <=> \A i \in DOMAIN f : f[i] # t
      /\ \A i, j \in DOMAIN f : f[i] = f[j] => i = j
  BY DEF SlotsAccounted, FreeIsTheRest
<1>3. g = Tail(f) /\ s = Head(f)
  BY AddOrderFree
<1>4. r.order = [t \in DOMAIN b.order |-> IF t = s THEN o ELSE b.order[t]]
  BY AddOrderOrder
<1> HIDE DEF r, s, f, g
<1>5. /\ s \in Slots /\ s = f[1] /\ g \in Seq(Slots)
      /\ Len(f) \in Nat /\ Len(f) # 0 /\ DOMAIN f = 1..Len(f)
      /\ DOMAIN g = 1..(Len(f) - 1) /\ \A i \in 1..(Len(f) - 1) : g[i] = f[i + 1]
  <2>1. Head(f) \in Slots /\ Tail(f) \in Seq(Slots) /\ Len(Tail(f)) = Len(f) - 1
    BY <1>1, SeqHeadTail
  <2>2. Len(f) \in Nat /\ DOMAIN f = 1..Len(f) /\ Len(f) # 0
    BY <1>1, SeqLength, SeqEmpty
  <2>3. DOMAIN g = 1..Len(g)
    BY <1>3, <2>1, SeqLength
  <2>4. \A i \in 1..(Len(f) - 1) : Tail(f)[i] = f[i + 1]
    BY <1>1, <2>2
  <2>5. Head(f) = f[1]
    BY <1>1
  <2> QED BY <1>3, <2>1, <2>2, <2>3, <2>4, <2>5
<1>6. s \notin Resting(b)
  BY <1>2, <1>5
<1>7. /\ r.order \in [Slots -> Orders \union {NoOrder}]
      /\ r.order[s] = o /\ \A t \in Slots \ {s} : r.order[t] = b.order[t]
  BY <1>1, <1>4, <1>5
<1>8. Resting(r) = Resting(b) \union {s}
  BY SMTT(60), <1>5, <1>7, NoOrderAssumption DEF Resting
<1>9. ASSUME NEW t \in Slots
      PROVE  t \in Resting(r) <=> \A i \in DOMAIN g : g[i] # t
  <2>1. CASE t = s
    <3>1. ASSUME NEW i \in DOMAIN g PROVE g[i] # f[1]
      <4>1. i + 1 \in DOMAIN f /\ 1 \in DOMAIN f /\ i + 1 # 1 /\ g[i] = f[i + 1]
        BY <1>5
      <4> QED BY <1>2, <4>1
    <3> QED BY <1>5, <1>8, <2>1, <3>1
  <2>2. CASE t # s
    <3>1. ASSUME NEW i \in DOMAIN f, f[i] = t PROVE \E j \in DOMAIN g : g[j] = t
      <4>1. i # 1
        BY <1>5, <2>2, <3>1
      <4>2. i - 1 \in DOMAIN g /\ g[i - 1] = f[i]
        BY <1>5, <4>1
      <4> QED BY <3>1, <4>2
    <3>2. ASSUME NEW i \in DOMAIN g, g[i] = t PROVE \E j \in DOMAIN f : f[j] = t
      <4>1. i + 1 \in DOMAIN f /\ g[i] = f[i + 1]
        BY <1>5
      <4> QED BY <3>2, <4>1
    <3> QED BY <1>2, <1>8, <2>2, <3>1, <3>2
  <2> QED BY <2>1, <2>2
<1>10. ASSUME NEW i \in DOMAIN g, NEW j \in DOMAIN g, g[i] = g[j] PROVE i = j
  <2>1. /\ i + 1 \in DOMAIN f /\ j + 1 \in DOMAIN f /\ i \in Int /\ j \in Int
        /\ g[i] = f[i + 1] /\ g[j] = f[j + 1]
    BY <1>5
  <2>2. i + 1 = j + 1
    BY Zenon, <1>2, <1>10, <2>1
  <2> QED BY <2>1, <2>2
<1>11. FreeIsTheRest(r)
  BY <1>9, <1>10 DEF FreeIsTheRest, g
<1> QED BY <1>5, <1>6, <1>7, <1>8, <1>11 DEF r, s, g

(* add_order puts the new order at the tail of its own level.              *)
LEMMA AddOrderShape ==
    ASSUME NEW b \in Books, SlotsAccounted(b), NEW o \in Orders, b.free # <<>>
    PROVE  LET s == Head(b.free)
               r == AddOrder(b, o)
           IN  /\ r \in Books
               /\ r.queue[o.side][o.price] = Append(b.queue[o.side][o.price], s)
               /\ \A side \in Sides, p \in Prices :
                     ~(side = o.side /\ p = o.price) => r.queue[side][p] = b.queue[side][p]
<1> DEFINE s == Head(b.free)
           r == AddOrder(b, o)
           w == Append(b.queue[o.side][o.price], s)
           n == b.total[o.side][o.price] + o.quantity
<1>1. o.side \in Sides /\ o.price \in Prices /\ o.id \in OrderIds /\ o.quantity \in Nat
  BY DEF Orders
<1>2. /\ b.queue \in [Sides -> [Prices -> Seq(Slots)]]
      /\ b.total \in [Sides -> [Prices -> Int]]
      /\ b.index \in [OrderIds -> Slots \union {NoSlot}]
  BY DEF Books
<1>3. s \in Slots /\ r.order \in [Slots -> Orders \union {NoOrder}] /\ r.free \in Seq(Slots)
  BY AddOrderSlots
<1>4. r.queue = SetLevel(b.queue, o, w) /\ r.total = SetLevel(b.total, o, n)
  BY AddOrderLevels
<1>5. r.index = [id \in DOMAIN b.index |->
                   IF id = o.id /\ b.index[id] = NoSlot THEN s ELSE b.index[id]]
  BY AddOrderIndex
<1>6. r = [order |-> r.order, queue |-> r.queue, total |-> r.total,
           index |-> r.index, free |-> r.free]
  BY AddOrderLevels
<1> HIDE DEF s, r
<1>7. w \in Seq(Slots)
  <2>1. b.queue[o.side][o.price] \in Seq(Slots)
    BY <1>1, <1>2
  <2> QED BY <1>3, <2>1, SeqAppend
<1>8. n \in Int
  BY <1>1, <1>2
<1> HIDE DEF w, n
<1>9. /\ r.queue \in [Sides -> [Prices -> Seq(Slots)]]
      /\ r.total \in [Sides -> [Prices -> Int]]
  <2>1. SetLevel(b.queue, o, w) \in [Sides -> [Prices -> Seq(Slots)]]
    BY Zenon, <1>1, <1>2, <1>7, SetLevelTyped
  <2>2. SetLevel(b.total, o, n) \in [Sides -> [Prices -> Int]]
    BY Zenon, <1>1, <1>2, <1>8, SetLevelTyped
  <2> QED BY <1>4, <2>1, <2>2
<1>10. r.index \in [OrderIds -> Slots \union {NoSlot}]
  BY Zenon, <1>2, <1>3, <1>5
<1>11. r \in Books
  BY SMTT(60), <1>3, <1>6, <1>9, <1>10 DEF Books
<1>12. r.queue[o.side][o.price] = w
  BY <1>1, <1>2, <1>4 DEF SetLevel
<1>13. ASSUME NEW side \in Sides, NEW p \in Prices, ~(side = o.side /\ p = o.price)
       PROVE  r.queue[side][p] = b.queue[side][p]
  <2> DEFINE f == b.queue
  <2>a. f \in [Sides -> [Prices -> Seq(Slots)]] /\ o.side \in Sides /\ o.price \in Prices
    BY Zenon, <1>1, <1>2
  <2> HIDE DEF f
  <2>b. SetLevel(f, o, w)[side][p] = f[side][p]
    BY <1>13, <2>a DEF SetLevel
  <2>1. SetLevel(b.queue, o, w)[side][p] = b.queue[side][p]
    BY ZenonT(60), <2>b DEF f
  <2> QED BY Zenon, <1>4, <2>1
<1> QED BY Zenon, <1>11, <1>12, <1>13 DEF r, s, w

(* The node at place i of a level after an addition is the one that was    *)
(* there before, or the new order at the tail of its own level.            *)
LEMMA AddOrderPlaces ==
    ASSUME NEW b \in Books, SlotsAccounted(b), NEW o \in Orders, b.free # <<>>,
           NEW side \in Sides, NEW p \in Prices
    PROVE  LET s == Head(b.free)
               q == b.queue[side][p]
               w == AddOrder(b, o).queue[side][p]
           IN  /\ DOMAIN w \subseteq Int /\ DOMAIN q \subseteq DOMAIN w
               /\ \A i \in DOMAIN q : w[i] = q[i]
               /\ \A i \in DOMAIN w \ DOMAIN q :
                     /\ w[i] = s /\ side = o.side /\ p = o.price
                     /\ \A j \in DOMAIN w : j # i => j \in DOMAIN q /\ j < i
               /\ side = o.side /\ p = o.price => \E i \in DOMAIN w : w[i] = s
<1> DEFINE s == Head(b.free)
           q == b.queue[side][p]
           w == AddOrder(b, o).queue[side][p]
<1>1. q \in Seq(Slots)
  BY DEF Books
<1>2. CASE side = o.side /\ p = o.price
  <2>1. w = Append(q, s)
    BY Zenon, <1>2, AddOrderShape
  <2>2. s \in Slots
    BY AddOrderSlots
  <2> HIDE DEF q, w, s
  <2>3. /\ Len(q) \in Nat /\ DOMAIN q = 1..Len(q) /\ DOMAIN w = 1..(Len(q) + 1)
        /\ w[Len(q) + 1] = s /\ \A i \in 1..Len(q) : w[i] = q[i]
    BY <1>1, <2>1, <2>2, SeqAppend, SeqLength
  <2>4. \A i \in DOMAIN w \ DOMAIN q : i = Len(q) + 1
    BY <2>3
  <2>5. /\ DOMAIN w \subseteq Int /\ DOMAIN q \subseteq DOMAIN w
        /\ \A i \in DOMAIN q : w[i] = q[i]
        /\ Len(q) + 1 \in DOMAIN w
    BY <2>3
  <2>6. \A i \in DOMAIN w \ DOMAIN q :
           w[i] = s /\ \A j \in DOMAIN w : j # i => j \in DOMAIN q /\ j < i
    BY SMTT(60), <2>3, <2>4
  <2> QED BY Zenon, <1>2, <2>3, <2>5, <2>6 DEF q, w, s
<1>3. CASE ~(side = o.side /\ p = o.price)
  <2>1. w = q
    BY Zenon, <1>3, AddOrderShape
  <2> HIDE DEF q, w, s
  <2>2. DOMAIN q \subseteq Int
    BY <1>1, SeqLength
  <2> QED BY <1>3, <2>1, <2>2 DEF q, w, s
<1> QED BY Zenon, <1>2, <1>3

(* add_order, given a free slot and an order that arrives after all that   *)
(* rest, keeps what relates the parts of the book.                         *)
LEMMA AddOrderKeeps ==
    ASSUME NEW b \in Books, SlotsAccounted(b), NEW o \in Orders, b.free # <<>>
    PROVE  /\ AddOrder(b, o) \in Books
           /\ SlotsAccounted(AddOrder(b, o))
           /\ (\A t \in Resting(b) : b.order[t].sequence < o.sequence)
                 => (InArrivalOrder(b) => InArrivalOrder(AddOrder(b, o)))
           /\ IndexLeadsHome(b) => IndexLeadsHome(AddOrder(b, o))
<1> DEFINE n == Head(b.free)
           r == AddOrder(b, o)
<1>1. QueuedAtOwnLevel(b) /\ QueuedOnce(b) /\ RestingIsQueued(b)
  BY DEF SlotsAccounted
<1>a. \A side \in Sides, p \in Prices :
         \A i \in DOMAIN b.queue[side][p] :
            /\ b.queue[side][p][i] \in Resting(b)
            /\ b.order[b.queue[side][p][i]].side = side
            /\ b.order[b.queue[side][p][i]].price = p
  BY Zenon, <1>1, QueuedAtOwnLevelIs
<1>2. o.side \in Sides /\ o.price \in Prices /\ o.id \in OrderIds
  BY Zenon DEF Orders
<1>3. /\ n \in Slots /\ n \notin Resting(b)
      /\ r.order[n] = o /\ \A t \in Slots \ {n} : r.order[t] = b.order[t]
      /\ Resting(r) = Resting(b) \union {n}
      /\ FreeIsTheRest(r)
  BY ZenonT(60), AddOrderSlots
<1>4. ASSUME NEW side \in Sides, NEW p \in Prices
      PROVE  LET q == b.queue[side][p]
                 w == r.queue[side][p]
             IN  /\ DOMAIN w \subseteq Int /\ DOMAIN q \subseteq DOMAIN w
                 /\ \A i \in DOMAIN q : w[i] = q[i]
                 /\ \A i \in DOMAIN w \ DOMAIN q :
                       /\ w[i] = n /\ side = o.side /\ p = o.price
                       /\ \A j \in DOMAIN w : j # i => j \in DOMAIN q /\ j < i
                 /\ side = o.side /\ p = o.price => \E i \in DOMAIN w : w[i] = n
  BY AddOrderPlaces
<1>5. r \in Books
  BY Zenon, AddOrderShape
<1>6. r.index = [id \in DOMAIN b.index |->
                   IF id = o.id /\ b.index[id] = NoSlot THEN n ELSE b.index[id]]
  BY SMTT(60), AddOrderIndex
<1>7. /\ b.index \in [OrderIds -> Slots \union {NoSlot}]
      /\ \A t \in Resting(b) : t \in Slots /\ t # n
  BY SMTT(60), <1>3 DEF Books, Resting
<1>8. \A t \in Resting(b) : b.order[t].side \in Sides /\ b.order[t].price \in Prices
  BY SMTT(60), RestingOrderIs
<1>9. \A t \in Resting(b) : r.order[t] = b.order[t]
  BY <1>3, <1>7
<1> HIDE DEF r, n
<1>10. ASSUME NEW side \in Sides, NEW p \in Prices, NEW i \in DOMAIN r.queue[side][p]
       PROVE  \/ /\ i \in DOMAIN b.queue[side][p]
                 /\ r.queue[side][p][i] = b.queue[side][p][i]
                 /\ r.queue[side][p][i] \in Resting(b)
                 /\ b.order[r.queue[side][p][i]].side = side
                 /\ b.order[r.queue[side][p][i]].price = p
              \/ /\ i \notin DOMAIN b.queue[side][p]
                 /\ r.queue[side][p][i] = n /\ side = o.side /\ p = o.price
                 /\ \A j \in DOMAIN r.queue[side][p] :
                       j # i => j \in DOMAIN b.queue[side][p] /\ j < i
  <2>1. CASE i \in DOMAIN b.queue[side][p]
    <3>1. r.queue[side][p][i] = b.queue[side][p][i]
      BY ZenonT(60), <1>4, <2>1
    <3>2. /\ b.queue[side][p][i] \in Resting(b)
          /\ b.order[b.queue[side][p][i]].side = side
          /\ b.order[b.queue[side][p][i]].price = p
      <4>1. RestsAt(b, b.queue[side][p][i], side, p)
        BY Zenon, <1>1, <2>1 DEF QueuedAtOwnLevel
      <4> QED BY Zenon, <4>1 DEF RestsAt
    <3> QED BY Zenon, <2>1, <3>1, <3>2
  <2>2. CASE i \notin DOMAIN b.queue[side][p]
    BY Zenon, <1>4, <2>2
  <2> QED BY Zenon, <2>1, <2>2
<1>11. QueuedAtOwnLevel(r)
  <2> SUFFICES ASSUME NEW side \in Sides, NEW p \in Prices,
                      NEW i \in DOMAIN r.queue[side][p]
               PROVE  RestsAt(r, r.queue[side][p][i], side, p)
    BY Zenon DEF QueuedAtOwnLevel
  <2> DEFINE t == r.queue[side][p][i]
  <2>1. \/ t \in Resting(b) /\ b.order[t].side = side /\ b.order[t].price = p
        \/ t = n /\ side = o.side /\ p = o.price
    BY Zenon, <1>10
  <2> HIDE DEF t
  <2>2. RestsAt(r, t, side, p)
    BY Zenon, <1>3, <1>9, <2>1 DEF RestsAt
  <2> QED BY Zenon, <2>2 DEF t
<1>12. QueuedOnce(r)
  <2> SUFFICES ASSUME NEW side \in Sides, NEW p \in Prices,
                      NEW i \in DOMAIN r.queue[side][p], NEW j \in DOMAIN r.queue[side][p],
                      r.queue[side][p][i] = r.queue[side][p][j]
               PROVE  i = j
    BY DEF QueuedOnce
  <2>1. CASE r.queue[side][p][i] = n
    <3>1. r.queue[side][p][i] \notin Resting(b) /\ r.queue[side][p][j] \notin Resting(b)
      BY Zenon, <1>7, <2>1
    <3>2. i \notin DOMAIN b.queue[side][p] /\ j \notin DOMAIN b.queue[side][p]
      BY Zenon, <1>10, <3>1
    <3>3. j # i => j \in DOMAIN b.queue[side][p]
      BY ZenonT(60), <1>10, <3>2
    <3> QED BY Zenon, <3>2, <3>3
  <2>2. CASE r.queue[side][p][i] # n
    <3>1. /\ i \in DOMAIN b.queue[side][p] /\ j \in DOMAIN b.queue[side][p]
          /\ b.queue[side][p][i] = b.queue[side][p][j]
      BY Zenon, <1>10, <2>2
    <3> QED BY <1>1, <3>1 DEF QueuedOnce
  <2> QED BY SMTT(60), <2>1, <2>2
<1>13. RestingIsQueued(r)
  <2>1. ASSUME NEW t \in Resting(b)
        PROVE  \E i \in DOMAIN r.queue[b.order[t].side][b.order[t].price] :
                   r.queue[b.order[t].side][b.order[t].price][i] = t
    <3>1. PICK i \in DOMAIN b.queue[b.order[t].side][b.order[t].price] :
              b.queue[b.order[t].side][b.order[t].price][i] = t
      BY Zenon, <1>1 DEF RestingIsQueued
    <3> DEFINE side == b.order[t].side
               p == b.order[t].price
    <3>2. side \in Sides /\ p \in Prices
      BY Zenon, <1>8
    <3>3. i \in DOMAIN b.queue[side][p] /\ b.queue[side][p][i] = t
      BY ZenonT(60), <3>1
    <3> HIDE DEF side, p
    <3>4. i \in DOMAIN r.queue[side][p] /\ r.queue[side][p][i] = t
      BY SMTT(60), <1>4, <3>2, <3>3
    <3> QED BY Zenon, <3>4 DEF side, p
  <2>2. \E i \in DOMAIN r.queue[o.side][o.price] : r.queue[o.side][o.price][i] = n
    BY <1>2, <1>4
  <2> SUFFICES ASSUME NEW t \in Resting(b) \union {n}
               PROVE  \E i \in DOMAIN r.queue[r.order[t].side][r.order[t].price] :
                          r.queue[r.order[t].side][r.order[t].price][i] = t
    BY Zenon, <1>3 DEF RestingIsQueued
  <2>3. CASE t = n
    <3>1. r.order[t].side = o.side /\ r.order[t].price = o.price
      BY <1>3, <2>3
    <3> QED BY Zenon, <2>2, <2>3, <3>1
  <2>4. CASE t \in Resting(b)
    <3>1. r.order[t].side = b.order[t].side /\ r.order[t].price = b.order[t].price
      BY <1>9, <2>4
    <3> QED BY Zenon, <2>1, <2>4, <3>1
  <2> QED BY Zenon, <2>3, <2>4
<1>14. ASSUME \A t \in Resting(b) : b.order[t].sequence < o.sequence, InArrivalOrder(b)
       PROVE  InArrivalOrder(r)
  <2> SUFFICES ASSUME NEW side \in Sides, NEW p \in Prices,
                      NEW i \in DOMAIN r.queue[side][p], NEW j \in DOMAIN r.queue[side][p],
                      i < j
               PROVE  r.order[r.queue[side][p][i]].sequence
                        < r.order[r.queue[side][p][j]].sequence
    BY Zenon DEF InArrivalOrder
  <2>0. i \in Int /\ j \in Int /\ i # j
    BY <1>4
  <2>1. /\ i \in DOMAIN b.queue[side][p] /\ r.queue[side][p][i] \in Resting(b)
        /\ r.queue[side][p][i] = b.queue[side][p][i]
    <3>1. i \in DOMAIN b.queue[side][p]
      <4>1. CASE i \notin DOMAIN b.queue[side][p]
        <5>1. j < i
          BY Zenon, <1>10, <2>0, <4>1
        <5> QED BY <2>0, <5>1
      <4> QED BY <4>1
    <3> QED BY Zenon, <1>10, <3>1
  <2>2. CASE j \in DOMAIN b.queue[side][p]
    <3>1. /\ r.queue[side][p][j] \in Resting(b)
          /\ r.queue[side][p][j] = b.queue[side][p][j]
      BY Zenon, <1>10, <2>2
    <3>2. b.order[b.queue[side][p][i]].sequence < b.order[b.queue[side][p][j]].sequence
      BY Zenon, <1>14, <2>1, <2>2 DEF InArrivalOrder
    <3> QED BY Zenon, <1>9, <2>1, <3>1, <3>2
  <2>3. CASE j \notin DOMAIN b.queue[side][p]
    <3>1. r.order[r.queue[side][p][j]] = o
      BY Zenon, <1>3, <1>10, <2>3
    <3> QED BY Zenon, <1>9, <1>14, <2>1, <3>1
  <2> QED BY Zenon, <2>2, <2>3
<1>15. ASSUME IndexLeadsHome(b) PROVE IndexLeadsHome(r)
  <2> SUFFICES ASSUME NEW id \in OrderIds, r.index[id] # NoSlot
               PROVE  r.index[id] \in Resting(r) /\ r.order[r.index[id]].id = id
    BY DEF IndexLeadsHome
  <2>1. r.index[id] = IF id = o.id /\ b.index[id] = NoSlot THEN n ELSE b.index[id]
    BY Zenon, <1>6, <1>7
  <2>2. CASE id = o.id /\ b.index[id] = NoSlot
    BY Zenon, <1>3, <2>1, <2>2
  <2>3. CASE ~(id = o.id /\ b.index[id] = NoSlot)
    <3>1. b.index[id] \in Resting(b) /\ b.order[b.index[id]].id = id
      BY Zenon, <1>15, <2>1, <2>3 DEF IndexLeadsHome
    <3> QED BY Zenon, <1>3, <1>9, <2>1, <2>3, <3>1
  <2> QED BY SMTT(60), <2>2, <2>3
<1> QED BY Zenon, <1>3, <1>5, <1>11, <1>12, <1>13, <1>14, <1>15 DEF SlotsAccounted, r

-----------------------------------------------------------------------------
(* Sound books.                                                            *)

(* What the engine relies on: a book whose parts agree and in which no two *)
(* orders could trade.                                                     *)
SoundBook(b) ==
    /\ b \in Books
    /\ SlotsAccounted(b) /\ InArrivalOrder(b) /\ IndexLeadsHome(b) /\ Uncrossed(b)

(* r is b with orders filled and taken out, none added.                    *)
Shrunk(r, b) ==
    /\ Resting(r) \subseteq Resting(b)
    /\ \A t \in Resting(r) : /\ r.order[t].side = b.order[t].side
                             /\ r.order[t].price = b.order[t].price
                             /\ r.order[t].sequence = b.order[t].sequence
    /\ \A side \in Sides : Levels(r, side) \subseteq Levels(b, side)
    /\ b.free # <<>> => r.free # <<>>

(* Taking orders out twice is taking orders out.                           *)
LEMMA ShrunkTransitive ==
    ASSUME NEW a, NEW b, NEW c, Shrunk(c, b), Shrunk(b, a)
    PROVE  Shrunk(c, a)
BY Zenon DEF Shrunk

(* Taking orders out never makes a book crossed.                           *)
LEMMA ShrunkUncrossed ==
    ASSUME NEW r, NEW b, Shrunk(r, b), Uncrossed(b)
    PROVE  Uncrossed(r)
BY ZenonT(60) DEF Shrunk, Uncrossed

(* remove_order leaves a sound book with a free slot.                      *)
LEMMA RemoveOrderSound ==
    ASSUME NEW b, SoundBook(b), NEW s \in Resting(b)
    PROVE  /\ SoundBook(RemoveOrder(b, s)) /\ Shrunk(RemoveOrder(b, s), b)
           /\ RemoveOrder(b, s).free # <<>>
<1> DEFINE r == RemoveOrder(b, s)
<1>1. b \in Books /\ SlotsAccounted(b)
  BY Zenon DEF SoundBook
<1>2. /\ r \in Books /\ SlotsAccounted(r) /\ InArrivalOrder(r) /\ IndexLeadsHome(r)
      /\ r.free # <<>>
  BY RemoveOrderKeeps DEF SoundBook
<1>3. Resting(r) = Resting(b) \ {s} /\ \A t \in Resting(b) \ {s} : r.order[t] = b.order[t]
  BY Zenon, <1>1, RemoveOrderResting
<1>4. ASSUME NEW side \in Sides PROVE Levels(r, side) \subseteq Levels(b, side)
  <2> SUFFICES ASSUME NEW p \in Prices, r.queue[side][p] # <<>>
               PROVE  b.queue[side][p] # <<>>
    BY DEF Levels
  <2>1. \A i \in DOMAIN r.queue[side][p] : \E j \in DOMAIN b.queue[side][p] : TRUE
    BY Zenon, <1>1, RemoveOrderPlaces
  <2>2. r.queue[side][p] \in Seq(Slots)
    BY <1>2 DEF Books
  <2>3. 1 \in DOMAIN r.queue[side][p]
    <3> DEFINE w == r.queue[side][p]
    <3> HIDE DEF w, r
    <3>1. w \in Seq(Slots) /\ w # <<>>
      BY <2>2 DEF w
    <3>2. Len(w) \in Nat /\ Len(w) # 0 /\ DOMAIN w = 1..Len(w)
      BY <3>1, SeqLength, SeqEmpty
    <3>3. 1 \in DOMAIN w
      BY SMTT(60), <3>2
    <3> QED BY <3>3 DEF w
  <2> QED BY <2>1, <2>3
<1> HIDE DEF r
<1>5. Shrunk(r, b)
  BY <1>2, <1>3, <1>4 DEF Shrunk
<1>6. Uncrossed(r)
  BY Zenon, <1>5, ShrunkUncrossed DEF SoundBook
<1> QED BY <1>2, <1>5, <1>6 DEF SoundBook, r

(* A fill leaves a sound book.                                             *)
LEMMA ReduceOrderSound ==
    ASSUME NEW b, SoundBook(b), NEW s \in Resting(b), NEW qty \in Nat,
           qty <= b.order[s].quantity
    PROVE  /\ SoundBook(ReduceOrder(b, s, qty)) /\ Shrunk(ReduceOrder(b, s, qty), b)
           /\ Resting(ReduceOrder(b, s, qty)) = Resting(b)
<1> DEFINE r == ReduceOrder(b, s, qty)
<1>1. b \in Books /\ SlotsAccounted(b)
  BY Zenon DEF SoundBook
<1>2. r \in Books /\ SlotsAccounted(r) /\ InArrivalOrder(r) /\ IndexLeadsHome(r)
  BY Zenon, ReduceOrderKeeps DEF SoundBook
<1>3. /\ Resting(r) = Resting(b)
      /\ \A t \in Resting(b) : /\ r.order[t].side = b.order[t].side
                               /\ r.order[t].price = b.order[t].price
                               /\ r.order[t].sequence = b.order[t].sequence
  BY ZenonT(60), <1>1, ReduceOrderOrders
<1>4. r.queue = b.queue /\ r.free = b.free
  BY ReduceOrderFields
<1> HIDE DEF r
<1>5. Shrunk(r, b)
  BY Zenon, <1>3, <1>4 DEF Shrunk, Levels
<1>6. Uncrossed(r)
  BY Zenon, <1>5, ShrunkUncrossed DEF SoundBook
<1> QED BY Zenon, <1>2, <1>3, <1>5, <1>6 DEF SoundBook, r

(* add_order leaves a sound book when there is a slot, the order arrives   *)
(* last and it crosses no resting order of the other side.                 *)
LEMMA AddOrderSound ==
    ASSUME NEW b, SoundBook(b), NEW o \in Orders, b.free # <<>>,
           \A t \in Resting(b) : b.order[t].sequence < o.sequence,
           \A t \in Resting(b) :
              /\ o.side = "Buy" /\ b.order[t].side = "Sell" => o.price < b.order[t].price
              /\ o.side = "Sell" /\ b.order[t].side = "Buy" => b.order[t].price < o.price
    PROVE  /\ SoundBook(AddOrder(b, o))
           /\ \A t \in Resting(AddOrder(b, o)) :
                 AddOrder(b, o).order[t].sequence <= o.sequence
<1> DEFINE n == Head(b.free)
           r == AddOrder(b, o)
<1>1. b \in Books /\ SlotsAccounted(b) /\ Uncrossed(b)
  BY Zenon DEF SoundBook
<1>2. r \in Books /\ SlotsAccounted(r) /\ InArrivalOrder(r) /\ IndexLeadsHome(r)
  BY Zenon, AddOrderKeeps DEF SoundBook
<1>3. /\ n \notin Resting(b) /\ Resting(r) = Resting(b) \union {n}
      /\ r.order[n] = o /\ \A t \in Slots \ {n} : r.order[t] = b.order[t]
  BY Zenon, <1>1, AddOrderSlots
<1>4. \A t \in Resting(b) : t \in Slots
  BY Zenon DEF Resting
<1>5. o.sequence \in Nat /\ \A t \in Resting(b) : b.order[t].sequence \in Nat
  BY Zenon, <1>1, RestingOrderIs DEF Orders
<1> HIDE DEF n, r
<1>6. \A t \in Resting(r) : \/ t \in Resting(b) /\ r.order[t] = b.order[t]
                            \/ t = n /\ r.order[t] = o
  BY Zenon, <1>3, <1>4
<1>7. \A t \in Resting(r) : r.order[t].sequence <= o.sequence
  BY SMTT(60), <1>5, <1>6
<1>8. Uncrossed(r)
  BY <1>1, <1>6 DEF Uncrossed
<1> QED BY Zenon, <1>2, <1>7, <1>8 DEF SoundBook, r

(* The book an engine starts with.                                         *)
LEMMA EmptyBookSound ==
    SoundBook(EmptyBook) /\ Resting(EmptyBook) = {}
<1> DEFINE e == EmptyBook
<1>1. /\ e.order = [s \in Slots |-> NoOrder]
      /\ e.queue = [side \in Sides |-> [p \in Prices |-> <<>>]]
      /\ e.total = [side \in Sides |-> [p \in Prices |-> 0]]
      /\ e.index = [id \in OrderIds |-> NoSlot]
      /\ e.free = [i \in 1..PoolCapacity |-> i - 1]
  BY Zenon DEF EmptyBook
<1>2. e = [order |-> e.order, queue |-> e.queue, total |-> e.total,
           index |-> e.index, free |-> e.free]
  BY DEF EmptyBook
<1> HIDE DEF e
<1>3. Resting(e) = {}
  BY <1>1 DEF Resting
<1>4. /\ DOMAIN e.free = 1..PoolCapacity /\ \A i \in 1..PoolCapacity : e.free[i] = i - 1
      /\ \A i \in 1..PoolCapacity : e.free[i] \in Slots
      /\ e.free \in Seq(Slots)
  BY SMTT(60), <1>1, PoolAssumption DEF Slots
<1>5. /\ e.order \in [Slots -> Orders \union {NoOrder}]
      /\ e.queue \in [Sides -> [Prices -> Seq(Slots)]]
      /\ e.total \in [Sides -> [Prices -> Int]]
      /\ e.index \in [OrderIds -> Slots \union {NoSlot}]
  BY <1>1
<1>6. e \in Books
  BY Zenon, <1>2, <1>4, <1>5 DEF Books
<1>7. \A side \in Sides, p \in Prices : DOMAIN e.queue[side][p] = {}
  BY <1>1
<1>8. QueuedAtOwnLevel(e) /\ QueuedOnce(e) /\ RestingIsQueued(e) /\ InArrivalOrder(e)
  BY Zenon, <1>3, <1>7
     DEF QueuedAtOwnLevel, QueuedOnce, RestingIsQueued, InArrivalOrder
<1>9. FreeIsTheRest(e)
  <2>1. \A s \in Slots : s + 1 \in 1..PoolCapacity /\ e.free[s + 1] = s
    BY <1>4, PoolAssumption DEF Slots
  <2>2. \A i, j \in DOMAIN e.free : e.free[i] = e.free[j] => i = j
    BY SMTT(60), <1>4, PoolAssumption
  <2>3. \A s \in Slots : \E i \in DOMAIN e.free : e.free[i] = s
    BY Zenon, <1>4, <2>1
  <2> QED BY Zenon, <1>3, <2>2, <2>3 DEF FreeIsTheRest
<1>10. IndexLeadsHome(e) /\ Uncrossed(e)
  BY Zenon, <1>1, <1>3 DEF IndexLeadsHome, Uncrossed
<1> QED BY Zenon, <1>3, <1>6, <1>8, <1>9, <1>10 DEF SoundBook, SlotsAccounted, e

(* The price of a resting order is a level of its side.                    *)
LEMMA RestingHasLevel ==
    ASSUME NEW b, SoundBook(b), NEW t \in Resting(b)
    PROVE  b.order[t].price \in Levels(b, b.order[t].side)
<1>1. b \in Books /\ RestingIsQueued(b)
  BY Zenon DEF SoundBook, SlotsAccounted
<1>2. b.order[t].price \in Prices
  BY Zenon, <1>1, RestingOrderIs
<1>3. \E i \in DOMAIN b.queue[b.order[t].side][b.order[t].price] : TRUE
  BY ZenonT(60), <1>1 DEF RestingIsQueued
<1>4. b.queue[b.order[t].side][b.order[t].price] # <<>>
  BY <1>3
<1> QED BY Zenon, <1>2, <1>4 DEF Levels

(* front() of a level is a resting order of that level, and the one that   *)
(* came to rest first.                                                     *)
LEMMA FrontOfLevel ==
    ASSUME NEW b, SoundBook(b), NEW side \in Sides, NEW p \in Levels(b, side)
    PROVE  LET s == Head(b.queue[side][p])
           IN  /\ p \in Prices
               /\ s \in Resting(b) /\ b.order[s].side = side /\ b.order[s].price = p
               /\ \A t \in Resting(b) :
                     b.order[t].side = side /\ b.order[t].price = p /\ t # s
                       => b.order[s].sequence < b.order[t].sequence
<1> DEFINE q == b.queue[side][p]
<1>1. p \in Prices /\ q # <<>>
  BY DEF Levels
<1>2. b \in Books /\ QueuedAtOwnLevel(b) /\ RestingIsQueued(b) /\ InArrivalOrder(b)
  BY DEF SoundBook, SlotsAccounted
<1>3. q \in Seq(Slots)
  BY <1>1, <1>2 DEF Books
<1>4. \A i \in DOMAIN q : q[i] \in Resting(b) /\ b.order[q[i]].side = side
                          /\ b.order[q[i]].price = p
  <2>1. QueuedAtOwnLevel(b) /\ p \in Prices
    BY Zenon, <1>1, <1>2
  <2>2. \A i \in DOMAIN q : RestsAt(b, q[i], side, p)
    BY Zenon, <2>1 DEF QueuedAtOwnLevel
  <2> QED BY Zenon, <2>2 DEF RestsAt
<1>5. \A i, j \in DOMAIN q :
         i < j => b.order[q[i]].sequence < b.order[q[j]].sequence
  BY Zenon, <1>1, <1>2 DEF InArrivalOrder
<1>6. ASSUME NEW t \in Resting(b), b.order[t].side = side, b.order[t].price = p
      PROVE  \E i \in DOMAIN q : q[i] = t
  BY Zenon, <1>2, <1>6 DEF RestingIsQueued
<1> HIDE DEF q
<1>7. Head(q) = q[1] /\ 1 \in DOMAIN q /\ DOMAIN q = 1..Len(q) /\ Len(q) \in Nat
  <2>1. Len(q) \in Nat /\ Len(q) # 0 /\ DOMAIN q = 1..Len(q)
    BY <1>1, <1>3, SeqLength, SeqEmpty
  <2>2. Head(q) = q[1]
    BY SMTT(60), <1>1, <1>3
  <2> QED BY <2>1, <2>2
<1>8. ASSUME NEW t \in Resting(b), b.order[t].side = side, b.order[t].price = p, t # q[1]
      PROVE  b.order[q[1]].sequence < b.order[t].sequence
  <2>1. PICK i \in DOMAIN q : q[i] = t
    BY <1>6, <1>8
  <2>2. i # 1
    BY <1>8, <2>1
  <2>3. 1 < i
    BY <1>7, <2>2
  <2> QED BY SMTT(60), <1>5, <1>7, <2>1, <2>3
<1> QED BY Zenon, <1>1, <1>4, <1>7, <1>8 DEF q

-----------------------------------------------------------------------------
(* What the orders of a level have left together.                          *)

(* A set of numbers with zero and every successor has all of them.         *)
LEMMA AllNumbers ==
    ASSUME NEW T, 0 \in T, \A n \in Nat : n \in T => n + 1 \in T
    PROVE  Nat \subseteq T
<1> SUFFICES ASSUME Nat \ T # {} PROVE FALSE
  OBVIOUS
<1>1. PICK x \in Nat \ T : \A y \in Nat \ T : x <= y
  BY Zenon, HasLeast
<1>2. x # 0 /\ x - 1 \in Nat /\ (x - 1) + 1 = x
  BY <1>1
<1>3. x - 1 \in T
  BY <1>1, <1>2
<1> QED BY <1>1, <1>2, <1>3

(* The sum of what the orders in the slots of q have left.                 *)
Outstanding(o, q) ==
    LET upTo[n \in 0..Len(q)] ==
            IF n = 0 THEN 0 ELSE upTo[n - 1] + o[q[n]].quantity
    IN  upTo[Len(q)]

(* f lists the sums of q's first orders.                                   *)
Sums(f, o, q) == f[0] = 0 /\ \A n \in 1..Len(q) : f[n] = f[n - 1] + o[q[n]].quantity

(* Every order of q has a quantity.                                        *)
Weighed(o, q) == \A n \in 1..Len(q) : o[q[n]].quantity \in Int

(* The recursion that defines the sum has a solution.                      *)
LEMMA SumsExist ==
    ASSUME NEW o, NEW q \in Seq(Slots)
    PROVE  \E f : f = [n \in 0..Len(q) |-> IF n = 0 THEN 0 ELSE f[n - 1] + o[q[n]].quantity]
<1> DEFINE L == Len(q)
           T == {m \in Nat : m <= L =>
                    \E f : f = [n \in 0..m |-> IF n = 0 THEN 0 ELSE f[n - 1] + o[q[n]].quantity]}
<1>1. L \in Nat
  BY SeqLength
<1>2. 0 \in T
  <2> DEFINE f == [n \in 0..0 |-> 0]
  <2>0. \A n \in 0..0 : n = 0
    OBVIOUS
  <2>1. f = [n \in 0..0 |-> IF n = 0 THEN 0 ELSE f[n - 1] + o[q[n]].quantity]
    BY Zenon, <2>0
  <2> QED BY Zenon, <2>1
<1>3. ASSUME NEW m \in Nat, m \in T PROVE m + 1 \in T
  <2> SUFFICES ASSUME m + 1 <= L
               PROVE  \E g : g = [n \in 0..(m + 1) |->
                                    IF n = 0 THEN 0 ELSE g[n - 1] + o[q[n]].quantity]
    OBVIOUS
  <2>1. m <= L
    BY <1>1
  <2>2. PICK f : f = [n \in 0..m |-> IF n = 0 THEN 0 ELSE f[n - 1] + o[q[n]].quantity]
    BY SMTT(60), <1>3, <2>1
  <2> DEFINE g == [n \in 0..(m + 1) |-> IF n <= m THEN f[n] ELSE f[m] + o[q[m + 1]].quantity]
             h == [n \in 0..(m + 1) |-> IF n = 0 THEN 0 ELSE g[n - 1] + o[q[n]].quantity]
  <2>3. ASSUME NEW n \in 0..(m + 1) PROVE g[n] = h[n]
    <3>1. CASE n = 0
      <4>1. g[n] = f[0] /\ 0 \in 0..m
        BY <3>1
      <4>2. f[0] = 0
        BY SMTT(60), <2>2, <4>1
      <4> QED BY SMTT(60), <3>1, <4>1, <4>2
    <3>2. CASE n # 0
      <4>1. n - 1 \in 0..m /\ n - 1 \in 0..(m + 1) /\ n - 1 <= m
        BY <3>2
      <4>2. g[n - 1] = f[n - 1]
        BY SMTT(60), <4>1
      <4>3. h[n] = f[n - 1] + o[q[n]].quantity
        BY SMTT(60), <3>2, <4>2
      <4>4. CASE n <= m
        <5>1. n \in 0..m
          BY <4>4
        <5>2. f[n] = f[n - 1] + o[q[n]].quantity
          BY SMTT(60), <2>2, <3>2, <5>1
        <5>3. g[n] = f[n]
          BY SMTT(60), <4>4
        <5> QED BY SMTT(60), <4>3, <5>2, <5>3
      <4>5. CASE n = m + 1
        <5>1. n - 1 = m /\ ~(n <= m)
          BY <4>5
        <5>2. g[n] = f[m] + o[q[m + 1]].quantity
          BY SMTT(60), <5>1
        <5> QED BY <4>3, <4>5, <5>1, <5>2
      <4> QED BY <4>4, <4>5
    <3> QED BY SMTT(60), <3>1, <3>2
  <2>4. g = h
    BY <2>3
  <2> HIDE DEF g
  <2> QED BY <2>4
<1> HIDE DEF T
<1>4. Nat \subseteq T
  BY <1>2, <1>3, AllNumbers
<1>5. L \in T
  BY SMTT(60), <1>1, <1>4
<1> QED BY <1>1, <1>5 DEF T

(* The sums of the first orders are numbers, and the last is the sum.      *)
LEMMA SumsAre ==
    ASSUME NEW o, NEW q \in Seq(Slots), Weighed(o, q)
    PROVE  \E f : /\ Sums(f, o, q)
                  /\ \A n \in 0..Len(q) : f[n] \in Int
                  /\ Outstanding(o, q) = f[Len(q)]
<1> DEFINE f == CHOOSE u : u = [n \in 0..Len(q) |->
                                  IF n = 0 THEN 0 ELSE u[n - 1] + o[q[n]].quantity]
           T == {m \in Nat : m <= Len(q) => f[m] \in Int}
<1>1. Len(q) \in Nat
  BY SeqLength
<1>2. f = [n \in 0..Len(q) |-> IF n = 0 THEN 0 ELSE f[n - 1] + o[q[n]].quantity]
  BY Zenon, SumsExist
<1>3. Outstanding(o, q) = f[Len(q)]
  BY DEF Outstanding
<1> HIDE DEF f
<1>4. f[0] = 0
  BY <1>1, <1>2
<1>5. ASSUME NEW n \in 1..Len(q) PROVE f[n] = f[n - 1] + o[q[n]].quantity
  <2>1. n \in 0..Len(q) /\ n # 0
    BY <1>1
  <2> QED BY SMTT(60), <1>2, <2>1
<1>6. 0 \in T
  BY <1>4
<1>7. ASSUME NEW m \in Nat, m \in T PROVE m + 1 \in T
  <2> SUFFICES ASSUME m + 1 <= Len(q) PROVE f[m + 1] \in Int
    OBVIOUS
  <2>1. m <= Len(q) /\ m + 1 \in 1..Len(q) /\ (m + 1) - 1 = m
    BY <1>1
  <2>2. f[m] \in Int
    BY <1>7, <2>1
  <2>3. f[m + 1] = f[m] + o[q[m + 1]].quantity
    BY <1>5, <2>1
  <2>4. o[q[m + 1]].quantity \in Int
    BY <2>1 DEF Weighed
  <2> QED BY SMTT(60), <2>2, <2>3, <2>4
<1> HIDE DEF T
<1>8. Nat \subseteq T
  BY <1>6, <1>7, AllNumbers
<1>9. ASSUME NEW n \in 0..Len(q) PROVE f[n] \in Int
  <2>1. n \in Nat /\ n <= Len(q)
    BY <1>1
  <2> QED BY <1>8, <2>1 DEF T
<1> QED BY <1>3, <1>4, <1>5, <1>9 DEF Sums

(* Whatever lists the sums ends in the sum.                                *)
LEMMA OutstandingIs ==
    ASSUME NEW o, NEW q \in Seq(Slots), Weighed(o, q), NEW g, Sums(g, o, q)
    PROVE  Outstanding(o, q) = g[Len(q)]
<1>1. PICK f : /\ Sums(f, o, q)
               /\ \A n \in 0..Len(q) : f[n] \in Int
               /\ Outstanding(o, q) = f[Len(q)]
  BY SumsAre
<1> DEFINE T == {m \in Nat : m <= Len(q) => g[m] = f[m]}
<1>2. Len(q) \in Nat
  BY SeqLength
<1>3. 0 \in T
  BY <1>1 DEF Sums
<1>4. ASSUME NEW m \in Nat, m \in T PROVE m + 1 \in T
  <2> SUFFICES ASSUME m + 1 <= Len(q) PROVE g[m + 1] = f[m + 1]
    OBVIOUS
  <2>1. m <= Len(q) /\ m + 1 \in 1..Len(q) /\ (m + 1) - 1 = m
    BY <1>2
  <2>2. g[m] = f[m]
    BY SMTT(60), <1>4, <2>1
  <2>3. /\ g[m + 1] = g[m] + o[q[m + 1]].quantity
        /\ f[m + 1] = f[m] + o[q[m + 1]].quantity
    BY <1>1, <2>1 DEF Sums
  <2> QED BY SMTT(60), <2>2, <2>3
<1> HIDE DEF T
<1>5. Nat \subseteq T
  BY <1>3, <1>4, AllNumbers
<1>6. Len(q) \in T
  BY <1>2, <1>5
<1> QED BY SMTT(60), <1>1, <1>2, <1>6 DEF T

(* An empty level has nothing left.                                        *)
LEMMA OutstandingEmpty ==
    ASSUME NEW o
    PROVE  Outstanding(o, <<>>) = 0
<1>1. <<>> \in Seq(Slots) /\ Len(<<>>) = 0 /\ \A n \in 1..0 : FALSE
  BY SeqEmpty
<1>2. Weighed(o, <<>>)
  BY <1>1 DEF Weighed
<1> DEFINE g == [n \in 0..0 |-> 0]
<1>3. g[0] = 0
  OBVIOUS
<1> HIDE DEF g
<1>4. Sums(g, o, <<>>)
  BY SMTT(60), <1>1, <1>3 DEF Sums
<1> QED BY Zenon, <1>1, <1>2, <1>3, <1>4, OutstandingIs

(* Orders that keep their quantities keep their sum.                       *)
LEMMA OutstandingSame ==
    ASSUME NEW o, NEW r, NEW q \in Seq(Slots), Weighed(o, q),
           \A n \in 1..Len(q) : r[q[n]].quantity = o[q[n]].quantity
    PROVE  Weighed(r, q) /\ Outstanding(r, q) = Outstanding(o, q)
<1>1. Weighed(r, q)
  BY SMTT(60) DEF Weighed
<1>2. PICK f : /\ Sums(f, o, q)
               /\ \A n \in 0..Len(q) : f[n] \in Int
               /\ Outstanding(o, q) = f[Len(q)]
  BY SMTT(60), SumsAre
<1>3. Sums(f, r, q)
  BY <1>2 DEF Sums
<1> QED BY SMTT(60), <1>1, <1>2, <1>3, OutstandingIs

(* An order at the back of the level adds what it has.                     *)
LEMMA OutstandingAppend ==
    ASSUME NEW o, NEW q \in Seq(Slots), NEW s \in Slots, Weighed(o, q),
           o[s].quantity \in Int
    PROVE  /\ Weighed(o, Append(q, s))
           /\ Outstanding(o, Append(q, s)) = Outstanding(o, q) + o[s].quantity
<1> DEFINE r == Append(q, s)
           x == o[s].quantity
<1>1. /\ Len(q) \in Nat /\ r \in Seq(Slots) /\ Len(r) = Len(q) + 1
      /\ \A n \in 1..Len(q) : r[n] = q[n]
      /\ r[Len(q) + 1] = s
  BY SeqLength, SeqAppend
<1> HIDE DEF r
<1>2. Weighed(o, r)
  <2> SUFFICES ASSUME NEW n \in 1..Len(r) PROVE o[r[n]].quantity \in Int
    BY DEF Weighed
  <2>1. n \in 1..Len(q) \/ n = Len(q) + 1
    BY SMTT(60), <1>1
  <2> QED BY SMTT(60), <1>1, <2>1 DEF Weighed
<1>3. PICK f : /\ Sums(f, o, q)
               /\ \A n \in 0..Len(q) : f[n] \in Int
               /\ Outstanding(o, q) = f[Len(q)]
  BY SMTT(60), SumsAre
<1> DEFINE g == [n \in 0..(Len(q) + 1) |-> IF n <= Len(q) THEN f[n] ELSE f[Len(q)] + x]
<1>4. (\A n \in 0..Len(q) : g[n] = f[n]) /\ g[Len(q) + 1] = f[Len(q)] + x
  BY SMTT(60), <1>1
<1> HIDE DEF g
<1>5. g[0] = 0
  BY SMTT(60), <1>1, <1>3, <1>4 DEF Sums
<1>6. ASSUME NEW n \in 1..Len(r) PROVE g[n] = g[n - 1] + o[r[n]].quantity
  <2>1. n - 1 \in 0..Len(q)
    BY SMTT(60), <1>1
  <2>2. CASE n \in 1..Len(q)
    <3>1. n \in 0..Len(q)
      BY <1>1, <2>2
    <3> QED BY SMTT(60), <1>1, <1>3, <1>4, <2>1, <2>2, <3>1 DEF Sums
  <2>3. CASE n = Len(q) + 1
    <3>1. n - 1 = Len(q)
      BY SMTT(60), <1>1, <2>3
    <3> QED BY SMTT(60), <1>1, <1>4, <2>1, <2>3, <3>1
  <2> QED BY SMTT(60), <1>1, <2>2, <2>3
<1>7. Outstanding(o, r) = g[Len(r)]
  BY SMTT(60), <1>1, <1>2, <1>5, <1>6, OutstandingIs DEF Sums
<1>8. Weighed(o, r) /\ Outstanding(o, r) = Outstanding(o, q) + o[s].quantity
  BY SMTT(60), <1>1, <1>2, <1>3, <1>4, <1>7
<1> QED BY <1>8 DEF r

(* An order that leaves the level takes with it what it has.               *)
LEMMA OutstandingWithout ==
    ASSUME NEW o, NEW q \in Seq(Slots), NEW k \in DOMAIN q, Weighed(o, q),
           \A i, j \in DOMAIN q : q[i] = q[j] => i = j
    PROVE  /\ Weighed(o, Without(q, q[k]))
           /\ Outstanding(o, Without(q, q[k])) = Outstanding(o, q) - o[q[k]].quantity
<1> DEFINE r == Without(q, q[k])
           x == o[q[k]].quantity
<1>1. /\ r \in Seq(Slots) /\ Len(r) = Len(q) - 1
      /\ \A j \in 1..(Len(q) - 1) : r[j] = IF j < k THEN q[j] ELSE q[j + 1]
  BY WithoutProperties
<1>2. Len(q) \in Nat /\ DOMAIN q = 1..Len(q) /\ k \in 1..Len(q) /\ x \in Int
  BY SeqLength DEF Weighed
<1> HIDE DEF r
<1>3. Weighed(o, r)
  <2> SUFFICES ASSUME NEW n \in 1..Len(r) PROVE o[r[n]].quantity \in Int
    BY DEF Weighed
  <2>1. n \in 1..Len(q) /\ n + 1 \in 1..Len(q) /\ n \in 1..(Len(q) - 1)
    BY <1>1, <1>2
  <2> QED BY SMTT(60), <1>1, <2>1 DEF Weighed
<1>4. PICK f : /\ Sums(f, o, q)
               /\ \A n \in 0..Len(q) : f[n] \in Int
               /\ Outstanding(o, q) = f[Len(q)]
  BY SMTT(60), SumsAre
<1> DEFINE g == [n \in 0..Len(r) |-> IF n < k THEN f[n] ELSE f[n + 1] - x]
<1>5. \A n \in 0..Len(r) : g[n] = IF n < k THEN f[n] ELSE f[n + 1] - x
  BY SMTT(60)
<1> HIDE DEF g, x
<1>6. g[0] = 0
  <2>1. 0 \in 0..Len(r) /\ 0 < k
    BY SMTT(60), <1>1, <1>2
  <2> QED BY SMTT(60), <1>4, <1>5, <2>1 DEF Sums
<1>7. ASSUME NEW n \in 1..Len(r) PROVE g[n] = g[n - 1] + o[r[n]].quantity
  <2>1. /\ n \in 0..Len(r) /\ n - 1 \in 0..Len(r) /\ n \in 1..Len(q) /\ n + 1 \in 1..Len(q)
        /\ n - 1 \in 0..Len(q) /\ n \in 0..Len(q) /\ n + 1 \in 0..Len(q)
        /\ (n - 1) + 1 = n /\ (n + 1) - 1 = n /\ n \in 1..(Len(q) - 1)
    BY SMTT(60), <1>1, <1>2
  <2>2. f[n] \in Int /\ f[n - 1] \in Int /\ f[n + 1] \in Int
    BY SMTT(60), <1>4, <2>1
  <2>3. f[n] = f[n - 1] + o[q[n]].quantity /\ f[n + 1] = f[n] + o[q[n + 1]].quantity
    BY SMTT(60), <1>4, <2>1 DEF Sums
  <2>4. o[q[n]].quantity \in Int /\ o[q[n + 1]].quantity \in Int
    BY <2>1 DEF Weighed
  <2>8. x \in Int
    BY <1>2
  <2>5. CASE n < k
    <3>1. g[n] = f[n] /\ g[n - 1] = f[n - 1] /\ r[n] = q[n]
      BY <1>1, <1>2, <1>5, <2>1, <2>5
    <3> QED BY <2>3, <3>1
  <2>6. CASE n = k
    <3>1. g[n] = f[n + 1] - x /\ g[n - 1] = f[n - 1] /\ r[n] = q[n + 1] /\ o[q[n]].quantity = x
      BY SMTT(60), <1>1, <1>2, <1>5, <2>1, <2>6 DEF x
    <3>2. f[n + 1] - x = f[n - 1] + o[q[n + 1]].quantity
      <4>1. f[n] = f[n - 1] + x
        BY SMTT(60), <2>3, <3>1
      <4>2. f[n + 1] = f[n] + o[q[n + 1]].quantity
        BY <2>3
      <4>3. ASSUME NEW i \in Int, NEW j \in Int, NEW l \in Int, NEW u \in Int, NEW v \in Int,
                   j = i + u, l = j + v
            PROVE  l - u = i + v
        BY SMTT(60), <4>3
      <4> DEFINE i0 == f[n - 1]
                 i1 == f[n]
                 i2 == f[n + 1]
                 y  == o[q[n + 1]].quantity
      <4>4. /\ i0 \in Int /\ i1 \in Int /\ i2 \in Int /\ y \in Int
            /\ i1 = i0 + x /\ i2 = i1 + y
        BY SMTT(60), <2>2, <2>4, <4>1, <4>2
      <4> HIDE DEF i0, i1, i2, y
      <4>5. i2 - x = i0 + y
        BY SMTT(60), <2>8, <4>3, <4>4
      <4> QED BY SMTT(60), <4>5 DEF i0, i2, y
    <3> QED BY SMTT(60), <3>1, <3>2
  <2>7. CASE n > k
    <3>1. g[n] = f[n + 1] - x /\ g[n - 1] = f[n] - x /\ r[n] = q[n + 1]
      BY SMTT(60), <1>1, <1>2, <1>5, <2>1, <2>7
    <3>2. f[n + 1] - x = (f[n] - x) + o[q[n + 1]].quantity
      <4> DEFINE i1 == f[n]
                 i2 == f[n + 1]
                 y  == o[q[n + 1]].quantity
      <4>1. i1 \in Int /\ i2 \in Int /\ y \in Int /\ x \in Int /\ i2 = i1 + y
        BY SMTT(60), <2>2, <2>3, <2>4, <2>8
      <4> HIDE DEF i1, i2, y
      <4>2. i2 - x = (i1 - x) + y
        BY ONLY SMTT(60), <4>1
      <4> QED BY SMTT(60), <4>2 DEF i1, i2, y
    <3> QED BY SMTT(60), <3>1, <3>2
  <2> QED BY SMTT(60), <1>2, <2>5, <2>6, <2>7
<1>8. Outstanding(o, r) = g[Len(r)]
  BY SMTT(60), <1>1, <1>3, <1>6, <1>7, OutstandingIs DEF Sums
<1>9. g[Len(r)] = f[Len(q)] - x
  <2>1. Len(r) \in 0..Len(r) /\ Len(r) + 1 = Len(q) /\ Len(q) \in 1..Len(q) /\ Len(q) - 1 = Len(r)
    BY SMTT(60), <1>1, <1>2
  <2>2. CASE Len(r) < k
    <3>1. k = Len(q)
      BY SMTT(60), <1>2, <2>1, <2>2
    <3>2. f[Len(q)] = f[Len(r)] + x
      BY SMTT(60), <1>4, <2>1, <3>1 DEF Sums, x
    <3>3. f[Len(r)] \in Int /\ f[Len(q)] \in Int
      BY SMTT(60), <1>1, <1>2, <1>4
    <3> QED BY SMTT(60), <1>2, <1>5, <2>1, <2>2, <3>2, <3>3
  <2>3. CASE ~(Len(r) < k)
    BY SMTT(60), <1>5, <2>1, <2>3
  <2> QED BY SMTT(60), <2>2, <2>3
<1>10. Weighed(o, r) /\ Outstanding(o, r) = Outstanding(o, q) - x
  BY SMTT(60), <1>3, <1>4, <1>8, <1>9
<1> QED BY SMTT(60), <1>10 DEF r, x

(* The order at place k of q has d less in r than in o, the others the     *)
(* same.                                                                   *)
Lessened(o, r, q, k, d) ==
    /\ r[q[k]].quantity = o[q[k]].quantity - d
    /\ \A n \in DOMAIN q : n # k => r[q[n]].quantity = o[q[n]].quantity

(* An order filled in place takes away what it was filled by.              *)
LEMMA OutstandingReduced ==
    ASSUME NEW o, NEW r, NEW q \in Seq(Slots), NEW k \in DOMAIN q, NEW d \in Int,
           Weighed(o, q), Lessened(o, r, q, k, d)
    PROVE  /\ Weighed(r, q)
           /\ Outstanding(r, q) = Outstanding(o, q) - d
<1>1. /\ r[q[k]].quantity = o[q[k]].quantity - d
      /\ \A n \in DOMAIN q : n # k => r[q[n]].quantity = o[q[n]].quantity
  BY DEF Lessened
<1>2. Len(q) \in Nat /\ DOMAIN q = 1..Len(q) /\ k \in 1..Len(q) /\ o[q[k]].quantity \in Int
  BY SMTT(60), SeqLength DEF Weighed
<1>3. Weighed(r, q)
  <2> SUFFICES ASSUME NEW n \in 1..Len(q) PROVE r[q[n]].quantity \in Int
    BY DEF Weighed
  <2> QED BY SMTT(60), <1>1, <1>2 DEF Weighed
<1>4. PICK f : /\ Sums(f, o, q)
               /\ \A n \in 0..Len(q) : f[n] \in Int
               /\ Outstanding(o, q) = f[Len(q)]
  BY SumsAre
<1> DEFINE g == [n \in 0..Len(q) |-> IF n < k THEN f[n] ELSE f[n] - d]
<1>5. \A n \in 0..Len(q) : g[n] = IF n < k THEN f[n] ELSE f[n] - d
  BY SMTT(60)
<1> HIDE DEF g
<1>6. g[0] = 0
  <2>1. 0 \in 0..Len(q) /\ 0 < k
    BY SMTT(60), <1>2
  <2> QED BY SMTT(60), <1>4, <1>5, <2>1 DEF Sums
<1>7. ASSUME NEW n \in 1..Len(q) PROVE g[n] = g[n - 1] + r[q[n]].quantity
  <2>1. n \in 0..Len(q) /\ n - 1 \in 0..Len(q)
    BY <1>2
  <2>2. f[n] \in Int /\ f[n - 1] \in Int
    BY SMTT(60), <1>4, <2>1
  <2>3. f[n] = f[n - 1] + o[q[n]].quantity
    BY SMTT(60), <1>4 DEF Sums
  <2>4. o[q[n]].quantity \in Int
    BY DEF Weighed
  <2>5. CASE n < k
    <3>1. g[n] = f[n] /\ g[n - 1] = f[n - 1] /\ r[q[n]].quantity = o[q[n]].quantity
      BY SMTT(60), <1>1, <1>2, <1>5, <2>1, <2>5
    <3> QED BY SMTT(60), <2>3, <3>1
  <2>6. CASE n = k
    <3>1. g[n] = f[n] - d /\ g[n - 1] = f[n - 1] /\ r[q[n]].quantity = o[q[n]].quantity - d
      BY SMTT(60), <1>1, <1>2, <1>5, <2>1, <2>6
    <3> QED BY SMTT(60), <2>2, <2>3, <2>4, <3>1
  <2>7. CASE n > k
    <3>1. g[n] = f[n] - d /\ g[n - 1] = f[n - 1] - d /\ r[q[n]].quantity = o[q[n]].quantity
      BY SMTT(60), <1>1, <1>2, <1>5, <2>1, <2>7
    <3> QED BY SMTT(60), <2>2, <2>3, <2>4, <3>1
  <2> QED BY SMTT(60), <1>2, <2>5, <2>6, <2>7
<1>8. Outstanding(r, q) = g[Len(q)]
  BY SMTT(60), <1>3, <1>6, <1>7, OutstandingIs DEF Sums
<1>9. g[Len(q)] = f[Len(q)] - d
  BY <1>2, <1>5
<1> QED BY SMTT(60), <1>3, <1>4, <1>8, <1>9

(* Every level's cached total is what its orders have left.                *)
TotalsExact(b) ==
    \A side \in Sides, p \in Prices :
        b.total[side][p] = Outstanding(b.order, b.queue[side][p])

(* The entry of a level after one was replaced.                            *)
LEMMA SetLevelAt ==
    ASSUME NEW f, DOMAIN f = Sides, \A z \in Sides : DOMAIN f[z] = Prices,
           NEW o, o.side \in Sides, o.price \in Prices, NEW v, NEW g, g = SetLevel(f, o, v),
           NEW side \in Sides, NEW p \in Prices
    PROVE  g[side][p]
             = IF side = o.side /\ p = o.price THEN v ELSE f[side][p]
BY SMTT(60) DEF SetLevel

(* A level is a list of different slots that hold orders.                  *)
LEMMA LevelIs ==
    ASSUME NEW b \in Books, SlotsAccounted(b), NEW side \in Sides, NEW p \in Prices
    PROVE  LET q == b.queue[side][p]
           IN  /\ q \in Seq(Slots) /\ Weighed(b.order, q)
               /\ DOMAIN q = 1..Len(q)
               /\ \A i, j \in DOMAIN q : q[i] = q[j] => i = j
<1> DEFINE q == b.queue[side][p]
<1>1. q \in Seq(Slots)
  BY DEF Books
<1>2. DOMAIN q = 1..Len(q)
  BY <1>1, SeqLength
<1>3. ASSUME NEW i \in DOMAIN q PROVE b.order[q[i]].quantity \in Int
  <2>1. q[i] \in Resting(b)
    BY Zenon, QueuedHere DEF SlotsAccounted
  <2>2. b.order[q[i]] \in Orders
    BY Zenon, <2>1, RestingOrderIs
  <2> DEFINE x == b.order[q[i]]
  <2> HIDE DEF x
  <2>3. x \in Orders => x.quantity \in Int
    BY DEF Orders
  <2> QED BY Zenon, <2>2, <2>3 DEF x
<1>4. \A i, j \in DOMAIN q : q[i] = q[j] => i = j
  BY ZenonT(60) DEF SlotsAccounted, QueuedOnce
<1>5. Weighed(b.order, q)
  BY SMTT(60), <1>2, <1>3 DEF Weighed
<1> QED BY SMTT(60), <1>1, <1>2, <1>4, <1>5

(* A level that keeps its orders and their quantities keeps its sum.       *)
LEMMA LevelUntouched ==
    ASSUME NEW b \in Books, SlotsAccounted(b), NEW side \in Sides, NEW p \in Prices,
           NEW r, \A t \in Resting(b) : b.order[t].side = side /\ b.order[t].price = p
                                         => r[t] = b.order[t]
    PROVE  Outstanding(r, b.queue[side][p]) = Outstanding(b.order, b.queue[side][p])
<1> DEFINE q == b.queue[side][p]
<1>1. q \in Seq(Slots) /\ Weighed(b.order, q) /\ DOMAIN q = 1..Len(q)
  BY Zenon, LevelIs
<1>2. ASSUME NEW n \in 1..Len(q) PROVE r[q[n]].quantity = b.order[q[n]].quantity
  <2>1. n \in DOMAIN b.queue[side][p]
    BY Zenon, <1>1
  <2>4. QueuedAtOwnLevel(b)
    BY DEF SlotsAccounted
  <2>5. RestsAt(b, q[n], side, p)
    BY Zenon, <2>1, <2>4 DEF QueuedAtOwnLevel
  <2>3. q[n] \in Resting(b) /\ b.order[q[n]].side = side /\ b.order[q[n]].price = p
    BY Zenon, <2>5 DEF RestsAt
  <2>2. r[q[n]] = b.order[q[n]]
    BY Zenon, <2>3
  <2> QED BY <2>2
<1> HIDE DEF q
<1>3. Outstanding(r, q) = Outstanding(b.order, q)
  BY ZenonT(60), <1>1, <1>2, OutstandingSame
<1> QED BY <1>3 DEF q

(* remove_order keeps the totals exact.                                    *)
LEMMA RemoveOrderTotals ==
    ASSUME NEW b \in Books, SlotsAccounted(b), TotalsExact(b), NEW s \in Resting(b)
    PROVE  TotalsExact(RemoveOrder(b, s))
<1> DEFINE o == b.order[s]
           r == RemoveOrder(b, s)
<1>1. /\ s \in Slots /\ o \in Orders /\ o.side \in Sides /\ o.price \in Prices
  BY Zenon, RestingOrderIs
<1>b. /\ DOMAIN b.total = Sides /\ \A z \in Sides : DOMAIN b.total[z] = Prices
      /\ DOMAIN b.queue = Sides /\ \A z \in Sides : DOMAIN b.queue[z] = Prices
  BY DEF Books
<1>2. \A t \in Resting(b) \ {s} : r.order[t] = b.order[t]
  BY Zenon, RemoveOrderResting
<1>3. /\ r.queue = SetLevel(b.queue, o, Without(b.queue[o.side][o.price], s))
      /\ r.total = SetLevel(b.total, o, b.total[o.side][o.price] - o.quantity)
  BY ZenonT(60), RemoveOrderFields
<1> HIDE DEF r
<1> SUFFICES ASSUME NEW side \in Sides, NEW p \in Prices
             PROVE  r.total[side][p] = Outstanding(r.order, r.queue[side][p])
  BY DEF TotalsExact, r
<1> DEFINE q == b.queue[side][p]
<1>4. /\ r.queue[side][p] = IF side = o.side /\ p = o.price
                           THEN Without(b.queue[o.side][o.price], s) ELSE q
      /\ r.total[side][p] = IF side = o.side /\ p = o.price
                           THEN b.total[o.side][o.price] - o.quantity ELSE b.total[side][p]
  <2> DEFINE w == Without(b.queue[o.side][o.price], s)
             v == b.total[o.side][o.price] - o.quantity
             f == b.queue
             t == b.total
  <2>1. /\ r.queue = SetLevel(f, o, w) /\ r.total = SetLevel(t, o, v)
        /\ DOMAIN t = Sides /\ (\A z \in Sides : DOMAIN t[z] = Prices)
        /\ DOMAIN f = Sides /\ (\A z \in Sides : DOMAIN f[z] = Prices)
        /\ o.side \in Sides /\ o.price \in Prices
    BY ZenonT(60), <1>1, <1>b, <1>3
  <2> HIDE DEF o, w, v, f, t
  <2>2. r.queue[side][p] = IF side = o.side /\ p = o.price THEN w ELSE f[side][p]
    BY SMTT(60), <2>1, SetLevelAt
  <2>3. r.total[side][p] = IF side = o.side /\ p = o.price THEN v ELSE t[side][p]
    BY <2>1, SetLevelAt
  <2> QED BY Zenon, <2>2, <2>3 DEF o, w, v, f, t
<1>5. b.total[side][p] = Outstanding(b.order, q)
  BY Zenon DEF TotalsExact
<1>6. /\ q \in Seq(Slots) /\ Weighed(b.order, q) /\ DOMAIN q = 1..Len(q)
      /\ \A i, j \in DOMAIN q : q[i] = q[j] => i = j
  BY Zenon, LevelIs
<1>7. CASE ~(side = o.side /\ p = o.price)
  <2>1. Outstanding(r.order, q) = Outstanding(b.order, q)
    BY <1>2, <1>7, LevelUntouched
  <2> QED BY ZenonT(60), <1>4, <1>5, <1>7, <2>1
<1>8. CASE side = o.side /\ p = o.price
  <2>1. PICK k \in DOMAIN q : q[k] = s
    BY Zenon, <1>8 DEF SlotsAccounted, RestingIsQueued
  <2> DEFINE w == Without(q, s)
  <2>2. Weighed(b.order, w) /\ Outstanding(b.order, w) = Outstanding(b.order, q) - o.quantity
    BY Zenon, <1>6, <2>1, OutstandingWithout
  <2>3. r.queue[side][p] = w /\ r.total[side][p] = b.total[side][p] - o.quantity
    BY Zenon, <1>4, <1>8
  <2>4. w \in Seq(Slots)
    BY Zenon, <1>6, <2>1, WithoutProperties
  <2>5. DOMAIN w = 1..Len(w)
    BY <2>4, SeqLength
  <2>6. ASSUME NEW n \in 1..Len(w) PROVE r.order[w[n]].quantity = b.order[w[n]].quantity
    <3>1. PICK j \in DOMAIN q : w[n] = q[j] /\ q[j] # s
      <4>1. RemoveOrder(b, s).queue[side][p] = w /\ n \in DOMAIN w
        BY Zenon, <2>3, <2>5 DEF r
      <4> HIDE DEF w
      <4>2. n \in DOMAIN RemoveOrder(b, s).queue[side][p]
        BY ZenonT(60), <4>1
      <4>3. \E j \in DOMAIN b.queue[side][p] :
               RemoveOrder(b, s).queue[side][p][n] = b.queue[side][p][j] /\ b.queue[side][p][j] # s
        BY <4>2, RemoveOrderKeepsPlaces
      <4> QED BY Zenon, <4>1, <4>3
    <3>2. QueuedAtOwnLevel(b)
      BY Zenon DEF SlotsAccounted
    <3>3. q[j] \in Resting(b)
      BY Zenon, <3>2, QueuedHere
    <3> HIDE DEF w, q
    <3>4. w[n] \in Resting(b) \ {s}
      BY Zenon, <3>1, <3>3
    <3> QED BY Zenon, <1>2, <3>4
  <2> HIDE DEF w
  <2>7. Outstanding(r.order, w) = Outstanding(b.order, w)
    BY ZenonT(60), <2>2, <2>4, <2>6, OutstandingSame
  <2> QED BY Zenon, <1>5, <2>2, <2>3, <2>7
<1> QED BY <1>7, <1>8

(* A fill keeps the totals exact.                                          *)
LEMMA ReduceOrderTotals ==
    ASSUME NEW b \in Books, SlotsAccounted(b), TotalsExact(b), NEW s \in Resting(b),
           NEW qty \in Nat
    PROVE  TotalsExact(ReduceOrder(b, s, qty))
<1> DEFINE o == b.order[s]
           r == ReduceOrder(b, s, qty)
<1>1. /\ s \in Slots /\ o \in Orders /\ o.side \in Sides /\ o.price \in Prices
      /\ DOMAIN b.order = Slots
  BY Zenon, RestingOrderIs DEF Books
<1>b. DOMAIN b.total = Sides /\ \A z \in Sides : DOMAIN b.total[z] = Prices
  BY SMTT(60) DEF Books
<1>2. r.order = [t \in DOMAIN b.order |-> IF t = s THEN Reduced(o, qty) ELSE b.order[t]]
  BY ReduceOrderOrder
<1>3. \A t \in Slots : t # s => r.order[t] = b.order[t]
  BY Zenon, <1>1, <1>2
<1>4. r.order[s].quantity = o.quantity - qty
  <2>1. r.order[s] = Reduced(o, qty)
    BY Zenon, <1>1, <1>2
  <2>2. Reduced(o, qty).quantity = o.quantity - qty
    BY <1>1 DEF Reduced, Orders
  <2> QED BY <2>1, <2>2
<1>5. r.queue = b.queue /\ r.total = SetLevel(b.total, o, b.total[o.side][o.price] - qty)
  <2>1. r.queue = b.queue
    BY ONLY DEF ReduceOrder
  <2>2. r.total = SetLevel(b.total, o, b.total[o.side][o.price] - qty)
    BY ZenonT(60), ReduceOrderTotal
  <2> QED BY ZenonT(60), <2>1, <2>2
<1> HIDE DEF r
<1> SUFFICES ASSUME NEW side \in Sides, NEW p \in Prices
             PROVE  r.total[side][p] = Outstanding(r.order, r.queue[side][p])
  BY DEF TotalsExact, r
<1> DEFINE q == b.queue[side][p]
<1>6. r.total[side][p] = IF side = o.side /\ p = o.price
                         THEN b.total[o.side][o.price] - qty ELSE b.total[side][p]
  <2> DEFINE v == b.total[o.side][o.price] - qty
             t == b.total
  <2>1. /\ r.total = SetLevel(t, o, v) /\ o.side \in Sides /\ o.price \in Prices
        /\ DOMAIN t = Sides /\ (\A z \in Sides : DOMAIN t[z] = Prices)
    BY Zenon, <1>1, <1>b, <1>5
  <2> HIDE DEF o, v, t
  <2>2. r.total[side][p] = IF side = o.side /\ p = o.price THEN v ELSE t[side][p]
    BY <2>1, SetLevelAt
  <2> QED BY Zenon, <2>2 DEF o, v, t
<1>7. b.total[side][p] = Outstanding(b.order, q) /\ r.queue[side][p] = q
  BY Zenon, <1>5 DEF TotalsExact
<1>8. /\ q \in Seq(Slots) /\ Weighed(b.order, q) /\ DOMAIN q = 1..Len(q)
      /\ \A i, j \in DOMAIN q : q[i] = q[j] => i = j
  BY Zenon, LevelIs
<1>9. CASE ~(side = o.side /\ p = o.price)
  <2>1. Outstanding(r.order, q) = Outstanding(b.order, q)
    BY SMTT(60), <1>3, <1>9, LevelUntouched DEF Resting
  <2> QED BY ZenonT(60), <1>6, <1>7, <1>9, <2>1
<1>10. CASE side = o.side /\ p = o.price
  <2>1. PICK k \in DOMAIN q : q[k] = s
    BY Zenon, <1>10 DEF SlotsAccounted, RestingIsQueued
  <2>2. ASSUME NEW n \in DOMAIN q, n # k PROVE r.order[q[n]].quantity = b.order[q[n]].quantity
    <3>1. q[n] # s
      BY Zenon, <1>8, <2>1, <2>2
    <3>2. q[n] \in Slots
      BY Zenon, QueuedHere DEF SlotsAccounted, Resting
    <3> QED BY Zenon, <1>3, <3>1, <3>2
  <2>3. r.order[q[k]].quantity = b.order[q[k]].quantity - qty
    BY Zenon, <1>4, <2>1
  <2> DEFINE y == r.order
             x == b.order
  <2>4. q \in Seq(Slots) /\ Weighed(x, q) /\ Lessened(x, y, q, k, qty)
    BY Zenon, <1>8, <2>2, <2>3 DEF Lessened
  <2>6. qty \in Int
    OBVIOUS
  <2> HIDE DEF q, x, y
  <2>5. Outstanding(y, q) = Outstanding(x, q) - qty
    BY ZenonT(60), <2>4, <2>6, OutstandingReduced
  <2> QED BY Zenon, <1>6, <1>7, <1>10, <2>5 DEF x, y
<1> QED BY <1>9, <1>10

(* add_order keeps the totals exact.                                       *)
LEMMA AddOrderTotals ==
    ASSUME NEW b \in Books, SlotsAccounted(b), TotalsExact(b), NEW o \in Orders
    PROVE  TotalsExact(AddOrder(b, o))
<1>1. CASE b.free = <<>>
  BY SMTT(60), <1>1 DEF AddOrder
<1>2. CASE b.free # <<>>
  <2> DEFINE s == Head(b.free)
             r == AddOrder(b, o)
  <2>1. /\ o.side \in Sides /\ o.price \in Prices /\ o.quantity \in Int
    BY DEF Orders
  <2>b. DOMAIN b.total = Sides /\ \A z \in Sides : DOMAIN b.total[z] = Prices
    BY DEF Books
  <2>2. /\ s \in Slots /\ s \notin Resting(b)
        /\ r.order[s] = o /\ \A t \in Slots \ {s} : r.order[t] = b.order[t]
    BY Zenon, <1>2, AddOrderSlots
  <2>3. /\ r.queue[o.side][o.price] = Append(b.queue[o.side][o.price], s)
        /\ \A side \in Sides, p \in Prices :
              ~(side = o.side /\ p = o.price) => r.queue[side][p] = b.queue[side][p]
    BY Zenon, <1>2, AddOrderShape
  <2>4. r.total = SetLevel(b.total, o, b.total[o.side][o.price] + o.quantity)
    BY ZenonT(60), <1>2, AddOrderLevels
  <2> HIDE DEF r, s
  <2> SUFFICES ASSUME NEW side \in Sides, NEW p \in Prices
               PROVE  r.total[side][p] = Outstanding(r.order, r.queue[side][p])
    BY DEF TotalsExact, r
  <2> DEFINE q == b.queue[side][p]
  <2>5. r.total[side][p] = IF side = o.side /\ p = o.price
                           THEN b.total[o.side][o.price] + o.quantity ELSE b.total[side][p]
    <3> DEFINE v == b.total[o.side][o.price] + o.quantity
               t == b.total
    <3>1. /\ r.total = SetLevel(t, o, v) /\ o.side \in Sides /\ o.price \in Prices
          /\ DOMAIN t = Sides /\ (\A z \in Sides : DOMAIN t[z] = Prices)
      BY ZenonT(60), <2>1, <2>b, <2>4
    <3> HIDE DEF v, t
    <3>2. r.total[side][p] = IF side = o.side /\ p = o.price THEN v ELSE t[side][p]
      BY <3>1, SetLevelAt
    <3> QED BY Zenon, <3>2 DEF v, t
  <2>6. b.total[side][p] = Outstanding(b.order, q)
    BY Zenon DEF TotalsExact
  <2>7. q \in Seq(Slots) /\ Weighed(b.order, q) /\ DOMAIN q = 1..Len(q)
    BY Zenon, LevelIs
  <2>8. \A t \in Resting(b) : r.order[t] = b.order[t]
    BY Zenon, <2>2 DEF Resting
  <2>9. Outstanding(r.order, q) = Outstanding(b.order, q)
    BY ZenonT(60), <2>8, LevelUntouched
  <2>10. CASE ~(side = o.side /\ p = o.price)
    BY Zenon, <2>3, <2>5, <2>6, <2>9, <2>10
  <2>11. CASE side = o.side /\ p = o.price
    <3>1. ASSUME NEW n \in 1..Len(q) PROVE r.order[q[n]].quantity = b.order[q[n]].quantity
      BY Zenon, <2>7, <2>8, QueuedHere DEF SlotsAccounted
    <3>2. r.queue[side][p] = Append(q, s)
      BY ZenonT(60), <2>3, <2>11
    <3> HIDE DEF q
    <3>3. Weighed(r.order, q)
      BY SMTT(60), <2>7, <3>1, OutstandingSame
    <3>4. Outstanding(r.order, Append(q, s)) = Outstanding(r.order, q) + o.quantity
      BY SMTT(60), <2>1, <2>2, <2>7, <3>3, OutstandingAppend
    <3> QED BY Zenon, <2>5, <2>6, <2>9, <2>11, <3>2, <3>4
  <2> QED BY <2>10, <2>11
<1> QED BY SMTT(60), <1>1, <1>2

(* The totals of an empty book are exact.                                  *)
LEMMA EmptyBookTotals == TotalsExact(EmptyBook)
BY Zenon, OutstandingEmpty DEF TotalsExact, EmptyBook
=============================================================================
