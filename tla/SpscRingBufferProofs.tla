------------------------ MODULE SpscRingBufferProofs ------------------------
(* Proofs about SpscRingBuffer for every capacity, every set of items and  *)
(* every number of pushes.                                                 *)
EXTENDS SpscRingBuffer, SequenceTheorems, TLAPS

(* Two indices less than Capacity apart and different use different slots: *)
(* the fact behind storage_[index & mask_].                                *)
LEMMA SlotsDiffer ==
    ASSUME NEW i \in Nat, NEW j \in Nat, i < j, j - i < Capacity
    PROVE  Slot(i) # Slot(j)
PROOF
  <1>1. PICK m \in Int : i = Capacity * m + Slot(i)
    BY CapacityAssumption, i = Capacity * (i \div Capacity) + Slot(i),
       i \div Capacity \in Int DEF Slot
  <1>2. PICK n \in Int : j = Capacity * n + Slot(j)
    BY CapacityAssumption, j = Capacity * (j \div Capacity) + Slot(j),
       j \div Capacity \in Int DEF Slot
  <1> HIDE DEF Slot
  <1>3. SUFFICES ASSUME Slot(i) = Slot(j) PROVE FALSE
    OBVIOUS
  <1>4. PICK r \in Nat : r = Slot(i)
    BY CapacityAssumption DEF Slot
  <1>5. /\ Capacity \in Nat
        /\ i = Capacity * m + r
        /\ j = Capacity * n + r
    BY <1>1, <1>2, <1>3, <1>4, CapacityAssumption
  <1>6. m < n
    BY <1>5
  <1>7. Capacity * m + Capacity <= Capacity * n
    BY <1>5, <1>6
  <1> QED
    BY <1>5, <1>7

(* storage_[index & mask_] stays inside the array.                         *)
LEMMA SlotInRing ==
    ASSUME NEW i \in Nat
    PROVE  Slot(i) \in 0..(Capacity - 1)
BY CapacityAssumption DEF Slot

(* A new ring satisfies the inductive invariant.                           *)
THEOREM RingInit == Init => RingInvariant
BY CapacityAssumption
   DEF Init, RingInvariant, TypeOK, ProducerStates, ConsumerStates,
       CursorsBounded, SlotsHoldPushed, PoppedInOrder

(* Every step of try_push, try_pop and the size() check preserves it.      *)
THEOREM RingStep == RingInvariant /\ [Next]_vars => RingInvariant'
PROOF
  <1> SUFFICES ASSUME RingInvariant, [Next]_vars
               PROVE  RingInvariant'
    OBVIOUS
  <1> USE CapacityAssumption
  <1> USE DEF RingInvariant, TypeOK, ProducerStates, ConsumerStates
  <1>1. ASSUME NEW h \in headSeen..head, SizeCheck(h) PROVE RingInvariant'
    <2>1. TypeOK'
      BY <1>1 DEF SizeCheck, consumerVars
    <2>2. CursorsBounded'
      BY <1>1 DEF SizeCheck, consumerVars, NoRoom, CursorsBounded
    <2>3. SlotsHoldPushed' /\ PoppedInOrder'
      BY <1>1 DEF SizeCheck, consumerVars, SlotsHoldPushed, PoppedInOrder
    <2> QED
      BY <2>1, <2>2, <2>3
  <1>2. ASSUME NEW h \in headSeen..head, NEW i \in Items, TryPush(i, h)
        PROVE  RingInvariant'
    BY <1>2 DEF TryPush, Full, CursorsBounded, SlotsHoldPushed, PoppedInOrder, consumerVars
  <1>3. CASE WriteSlot
    <2> USE <1>3 DEF WriteSlot, consumerVars
    <2>1. Slot(tail) \in 0..(Capacity - 1)
      BY SlotInRing
    <2>2. TypeOK'
      BY <2>1 DEF SlotsHoldPushed
    <2>3. CursorsBounded' /\ PoppedInOrder'
      BY DEF CursorsBounded, PoppedInOrder
    <2>4. \A i \in head..(tail - 1) : Slot(i) # Slot(tail)
      BY SlotsDiffer DEF CursorsBounded
    <2>5. SlotsHoldPushed'
      BY <2>1, <2>4 DEF SlotsHoldPushed
    <2> QED
      BY <2>2, <2>3, <2>5
  <1>4. CASE PublishTail
    <2> USE <1>4 DEF PublishTail, consumerVars
    <2>1. item \in Items /\ Len(pushed) = tail
      BY DEF SlotsHoldPushed
    <2>2. TypeOK'
      BY <2>1
    <2>3. CursorsBounded'
      BY DEF CursorsBounded
    <2>4. /\ Len(pushed') = tail + 1
          /\ pushed'[tail + 1] = item
          /\ \A i \in 1..tail : pushed'[i] = pushed[i]
      BY <2>1, AppendProperties
    <2>5. SlotsHoldPushed'
      <3>0. storage[Slot(tail)] = pushed'[tail + 1]
        BY <2>4 DEF SlotsHoldPushed
      <3>1. ASSUME NEW i \in head..(tail - 1), i # head \/ consumer # "release"
            PROVE  storage[Slot(i)] = pushed'[i + 1]
        BY <3>1, <2>4 DEF SlotsHoldPushed
      <3>2. consumer = "release" => out = pushed'[head + 1]
        BY <2>4 DEF SlotsHoldPushed, CursorsBounded
      <3> QED
        <4>1. head <= tail /\ head' = head /\ tail' = tail + 1
          BY DEF CursorsBounded
        <4>2. \A i \in head'..(tail' - 1) :
                i # head' \/ consumer' # "release"
                  => storage'[Slot(i)] = pushed'[i + 1]
          <5>1. \A i \in head'..(tail' - 1) : i = tail \/ i \in head..(tail - 1)
            BY <4>1
          <5> QED
            BY <5>1, <3>0, <3>1, head' = head, consumer' = consumer,
               storage' = storage
        <4> QED
          BY <2>1, <2>4, <3>2, <4>1, <4>2 DEF SlotsHoldPushed
    <2>6. PoppedInOrder'
      BY <2>1, <2>4 DEF PoppedInOrder
    <2> QED
      BY <2>2, <2>3, <2>5, <2>6
  <1>5. ASSUME NEW t \in tailSeen..tail, TryPop(t) PROVE RingInvariant'
    BY <1>5 DEF TryPop, Empty, CursorsBounded, SlotsHoldPushed, PoppedInOrder, producerVars
  <1>6. CASE ReadSlot
    <2> USE <1>6 DEF ReadSlot, producerVars
    <2>1. /\ Slot(head) \in 0..(Capacity - 1)
          /\ storage[Slot(head)] = pushed[head + 1]
      <3>1. head \in head..(tail - 1) /\ consumer # "release"
        BY DEF CursorsBounded
      <3> QED
        BY <3>1, SlotInRing DEF SlotsHoldPushed
    <2>2. TypeOK'
      BY <2>1
    <2>3. CursorsBounded' /\ PoppedInOrder'
      BY DEF CursorsBounded, PoppedInOrder
    <2>4. \A i \in (head + 1)..(tail - 1) : Slot(head) # Slot(i)
      BY SlotsDiffer DEF CursorsBounded
    <2>5. producer = "publish" => Slot(head) # Slot(tail)
      BY SlotsDiffer DEF CursorsBounded
    <2>6. SlotsHoldPushed'
      <3>1. ASSUME NEW i \in (head + 1)..(tail - 1)
            PROVE  storage'[Slot(i)] = pushed[i + 1]
        BY <2>1, <2>4, SlotInRing DEF SlotsHoldPushed
      <3>2. producer = "publish" => storage'[Slot(tail)] = item
        BY <2>1, <2>5, SlotInRing DEF SlotsHoldPushed
      <3> QED
        BY <2>1, <3>1, <3>2 DEF SlotsHoldPushed
    <2> QED
      BY <2>2, <2>3, <2>6
  <1>7. CASE ReleaseHead
    <2> USE <1>7 DEF ReleaseHead, producerVars
    <2>1. /\ Len(popped) = head /\ Len(pushed) = tail
          /\ out = pushed[head + 1]
          /\ head < tail
      BY DEF SlotsHoldPushed, CursorsBounded
    <2>2. TypeOK'
      BY <2>1
    <2>3. CursorsBounded'
      BY DEF CursorsBounded
    <2>4. SlotsHoldPushed'
      BY <2>1 DEF SlotsHoldPushed
    <2>5. PoppedInOrder'
      BY <2>1 DEF PoppedInOrder
    <2> QED
      BY <2>2, <2>3, <2>4, <2>5
  <1>8. CASE UNCHANGED vars
    BY <1>8 DEF vars, CursorsBounded, SlotsHoldPushed, PoppedInOrder
  <1> QED
    BY <1>1, <1>2, <1>3, <1>4, <1>5, <1>6, <1>7, <1>8
       DEF Next, Produce, Consume

(* RingInvariant holds in every reachable state of the ring.               *)
THEOREM RingInvariantHolds == Spec => []RingInvariant
BY RingInit, RingStep, PTL DEF Spec

(* Type correctness of the ring.                                           *)
THEOREM TypesHold == Spec => []TypeOK
BY RingInvariantHolds, PTL DEF RingInvariant

(* try_push and try_pop never touch the same slot at the same time.        *)
THEOREM NoSlotRaceHolds == Spec => []NoSlotRace
PROOF
  <1>1. RingInvariant => NoSlotRace
    BY SlotsDiffer, CapacityAssumption
       DEF RingInvariant, TypeOK, CursorsBounded, NoSlotRace
  <1> QED
    BY <1>1, RingInvariantHolds, PTL

(* try_pop returns the items try_push accepted, in that order, each once.  *)
THEOREM PoppedInOrderHolds == Spec => []PoppedInOrder
BY RingInvariantHolds, PTL DEF RingInvariant

(* A try_push that follows a successful size() check never returns false.  *)
THEOREM CheckedPushSucceedsHolds == Spec => CheckedPushSucceeds
PROOF
  <1>1. RingInvariant /\ [Next]_vars
           => [producer = "checked" /\ producer' # producer
                  => producer' = "write"]_vars
    BY CapacityAssumption
       DEF RingInvariant, TypeOK, CursorsBounded, Next, Produce, Consume,
           SizeCheck, TryPush, Full, WriteSlot, PublishTail, TryPop, ReadSlot,
           ReleaseHead, producerVars, consumerVars, vars
  <1> QED
    BY <1>1, RingInvariantHolds, PTL DEF Spec, CheckedPushSucceeds

-----------------------------------------------------------------------------
(* Refinement.  Between the cursors the ring holds the pushed items that   *)
(* have not been popped, so the mapped queue is a window of the history.   *)

Pending == [i \in 1..(tail - head) |-> pushed[head + i]]

(* The slots between the cursors hold what was pushed and not yet popped.  *)
LEMMA ContentsArePending == RingInvariant => RingContents = Pending
PROOF
  <1> SUFFICES ASSUME RingInvariant, NEW i \in 1..(tail - head)
               PROVE  (IF i = 1 /\ consumer = "release" THEN out
                       ELSE storage[Slot(head + i - 1)]) = pushed[head + i]
    BY DEF RingContents, Pending
  <1>1. head \in Nat /\ tail \in Nat
    BY DEF RingInvariant, TypeOK
  <1>2. CASE i = 1 /\ consumer = "release"
    BY <1>1, <1>2 DEF RingInvariant, SlotsHoldPushed
  <1>3. CASE ~(i = 1 /\ consumer = "release")
    <2> DEFINE k == head + i - 1
    <2>1. k \in head..(tail - 1) /\ (k # head \/ consumer # "release") /\ k + 1 = head + i
      BY <1>1, <1>3
    <2> HIDE DEF k
    <2>2. storage[Slot(k)] = pushed[k + 1]
      BY <2>1 DEF RingInvariant, SlotsHoldPushed
    <2> QED
      BY <1>3, <2>1, <2>2 DEF k
  <1> QED
    BY <1>2, <1>3

(* What is pending is a sequence of items, as long as the cursors differ.  *)
LEMMA PendingIsSeq == RingInvariant => /\ Pending \in Seq(Items)
                                       /\ Len(Pending) = tail - head
PROOF
  <1> SUFFICES ASSUME RingInvariant
               PROVE  Pending \in Seq(Items) /\ Len(Pending) = tail - head
    OBVIOUS
  <1>1. tail - head \in Nat
    BY DEF RingInvariant, TypeOK, CursorsBounded
  <1>2. \A i \in 1..(tail - head) : pushed[head + i] \in Items
    BY DEF RingInvariant, TypeOK, CursorsBounded, SlotsHoldPushed
  <1>3. Pending \in [1..(tail - head) -> Items]
    BY <1>2 DEF Pending
  <1> QED
    BY <1>1, <1>3

(* A push publishes at the back of the queue.                              *)
LEMMA PublishPuts ==
    RingInvariant /\ RingInvariant' /\ PublishTail => Fifo!Put(item)
PROOF
  <1> SUFFICES ASSUME RingInvariant, RingInvariant', PublishTail
               PROVE  Fifo!Put(item)
    OBVIOUS
  <1>1. RingContents = Pending /\ (RingContents = Pending)'
    BY ContentsArePending, PTL
  <1>2. /\ head \in Nat /\ tail \in Nat /\ tail' = tail + 1 /\ head' = head
        /\ head <= tail /\ tail - head < Capacity /\ Len(pushed) = tail
        /\ pushed \in Seq(Items) /\ item \in Items
        /\ pushed' = Append(pushed, item) /\ popped' = popped
    BY CapacityAssumption
       DEF RingInvariant, TypeOK, CursorsBounded, SlotsHoldPushed, PublishTail,
           consumerVars
  <1>3. Pending \in Seq(Items) /\ Len(Pending) = tail - head
    BY PendingIsSeq
  <1>4. Pending' = Append(Pending, item)
    <2>1. Pending' = [i \in 1..(tail - head + 1) |-> pushed'[head + i]]
      BY <1>2 DEF Pending
    <2>2. Append(Pending, item) =
            [i \in 1..(tail - head + 1) |->
               IF i <= tail - head THEN pushed[head + i] ELSE item]
      BY <1>2, <1>3 DEF Pending
    <2>3. \A i \in 1..(tail - head + 1) :
            pushed'[head + i] = IF i <= tail - head THEN pushed[head + i] ELSE item
      BY <1>2
    <2> QED
      BY <2>1, <2>2, <2>3
  <1> QED
    BY <1>1, <1>2, <1>3, <1>4 DEF Fifo!Put

(* A pop releases the front of the queue.                                  *)
LEMMA ReleaseGets ==
    RingInvariant /\ RingInvariant' /\ ReleaseHead => Fifo!Get
PROOF
  <1> SUFFICES ASSUME RingInvariant, RingInvariant', ReleaseHead
               PROVE  Fifo!Get
    OBVIOUS
  <1>1. RingContents = Pending /\ (RingContents = Pending)'
    BY ContentsArePending, PTL
  <1>2. /\ head \in Nat /\ tail \in Nat /\ tail' = tail /\ head' = head + 1
        /\ head < tail /\ out = pushed[head + 1]
        /\ pushed' = pushed /\ popped' = Append(popped, out)
    BY DEF RingInvariant, TypeOK, CursorsBounded, SlotsHoldPushed, ReleaseHead,
           producerVars
  <1>3. Pending \in Seq(Items) /\ Len(Pending) = tail - head
    BY PendingIsSeq
  <1>4. Pending # <<>> /\ Head(Pending) = out
    <2>1. Pending[1] = out
      BY <1>2 DEF Pending
    <2> QED
      BY <2>1, <1>2, <1>3
  <1>5. Pending' = Tail(Pending)
    <2>1. Pending' = [i \in 1..(tail - head - 1) |-> pushed[head + 1 + i]]
      BY <1>2 DEF Pending
    <2>2. Tail(Pending) = [i \in 1..(tail - head - 1) |-> Pending[i + 1]]
      <3>1. /\ Tail(Pending) \in Seq(Items)
            /\ Len(Tail(Pending)) = tail - head - 1
            /\ \A i \in 1..(tail - head - 1) : Tail(Pending)[i] = Pending[i + 1]
        BY <1>3, <1>4, HeadTailProperties
      <3>2. Tail(Pending) = [i \in 1..(tail - head - 1) |-> Tail(Pending)[i]]
        BY <3>1, LenProperties
      <3> QED
        BY <3>1, <3>2
    <2>3. \A i \in 1..(tail - head - 1) : Pending[i + 1] = pushed[head + 1 + i]
      BY <1>2 DEF Pending
    <2> QED
      BY <2>1, <2>2, <2>3
  <1> QED
    BY <1>1, <1>2, <1>4, <1>5 DEF Fifo!Get

(* The ring implements the bounded first-in first-out queue of BoundedFifo *)
(* for every capacity: every other step of either thread is invisible.     *)
THEOREM ImplementsFifoHolds == Spec => ImplementsFifo
PROOF
  <1>1. Init => Fifo!FifoInit
    <2> SUFFICES ASSUME Init PROVE Fifo!FifoInit
      OBVIOUS
    <2>1. RingContents = <<>>
      BY DEF Init, RingContents
    <2> QED
      BY <2>1 DEF Init, Fifo!FifoInit
  <1>2. RingInvariant /\ RingInvariant' /\ [Next]_vars
           => [Fifo!FifoNext]_(Fifo!fifoVars)
    <2> SUFFICES ASSUME RingInvariant, RingInvariant', [Next]_vars
                 PROVE  [Fifo!FifoNext]_(Fifo!fifoVars)
      OBVIOUS
    <2>1. CASE PublishTail
      <3>1. item \in Items
        BY <2>1 DEF PublishTail, RingInvariant, SlotsHoldPushed
      <3> QED
        BY <2>1, <3>1, PublishPuts DEF Fifo!FifoNext
    <2>2. CASE ReleaseHead
      BY <2>2, ReleaseGets DEF Fifo!FifoNext
    <2>3. CASE UNCHANGED <<head, tail, pushed, popped>>
      <3>1. Pending' = Pending
        BY <2>3 DEF Pending
      <3>2. RingContents = Pending /\ (RingContents = Pending)'
        BY ContentsArePending, PTL
      <3> QED
        BY <2>3, <3>1, <3>2 DEF Fifo!fifoVars
    <2> QED
      BY <2>1, <2>2, <2>3
         DEF Next, Produce, Consume, SizeCheck, TryPush, WriteSlot, TryPop,
             ReadSlot, producerVars, consumerVars, vars
  <1> QED
    BY <1>1, <1>2, RingInvariantHolds, PTL DEF Spec, ImplementsFifo, Fifo!FifoSpec
=============================================================================
