--------------------------- MODULE SpscRingBuffer ---------------------------
(* The lock-free single-producer single-consumer ring of                   *)
(* lockfree_queue/spsc_ring_buffer.hpp, one action per access to shared    *)
(* memory.  A load of the other thread's index returns any value between   *)
(* the newest one this thread has already seen and the current one: that   *)
(* is what coherence of a C++ atomic allows, whatever the memory order.    *)
(* Acquire and release are what makes the slots below an index that was    *)
(* seen safe to access, so slots are plain shared memory here.  size_t     *)
(* indices do not wrap: 2^64 pushes are out of reach.                      *)
EXTENDS Integers, Sequences

CONSTANTS Capacity,   \* slots in the ring
          Items,      \* what is passed through it
          MovedFrom,  \* a slot before the first write and after std::move
          MaxPush     \* bound on the pushes of one behaviour

ASSUME CapacityAssumption == Capacity \in Nat \ {0}
ASSUME MaxPushAssumption == MaxPush \in Nat
ASSUME MovedFromAssumption == MovedFrom \notin Items

VARIABLES
    head, tail,   \* head_ and tail_, the consumer's and the producer's cursor
    storage,      \* storage_
    headSeen,     \* the newest head_ the producer has loaded
    tailSeen,     \* the newest tail_ the consumer has loaded
    producer,     \* where the producer is in size() or try_push
    item,         \* the argument of the try_push in progress
    consumer,     \* where the consumer is in try_pop
    out,          \* the result of the try_pop in progress
    pushed,       \* history: every item pushed, oldest first
    popped        \* history: every item popped, oldest first

vars == <<head, tail, storage, headSeen, tailSeen, producer, item,
          consumer, out, pushed, popped>>

producerVars == <<tail, headSeen, producer, item, pushed>>
consumerVars == <<head, tailSeen, consumer, out, popped>>

Slot(index) == index % Capacity   \* index & mask_

(* Mutated forms of the three index tests below; no action uses them.      *)
FullOffByOne(h) == tail - h > Capacity
NoRoomOffByOne(h) == tail - h > Capacity
EmptyTooEarly(t) == head + 1 >= t
EmptyOffByOne(t) == head > t

Full(h) == tail - h >= Capacity      \* try_push returns false

NoRoom(h) == tail - h >= Capacity    \* size() >= capacity(): the caller waits

Empty(t) == head >= t                \* try_pop returns false

Init ==
    /\ head = 0 /\ tail = 0
    /\ storage = [s \in 0..(Capacity - 1) |-> MovedFrom]
    /\ headSeen = 0 /\ tailSeen = 0
    /\ producer = "idle" /\ item = MovedFrom
    /\ consumer = "idle" /\ out = MovedFrom
    /\ pushed = <<>> /\ popped = <<>>

-----------------------------------------------------------------------------
(* The producer.  The engine thread polls size() until there is room and   *)
(* then calls try_push once; the I/O thread and the event sink call        *)
(* try_push straight away and handle a false.                              *)

(* One evaluation of outbound.size() >= outbound.capacity() that finds     *)
(* room; one that does not only moves headSeen.                            *)
SizeCheck(h) ==
    /\ producer = "idle"
    /\ Len(pushed) < MaxPush
    /\ headSeen' = h
    /\ \/ NoRoom(h) /\ UNCHANGED producer
       \/ ~NoRoom(h) /\ producer' = "checked"
    /\ UNCHANGED <<tail, storage, item, pushed, consumerVars>>

(* try_push up to its early return: the full test on the loaded head.      *)
TryPush(i, h) ==
    /\ producer \in {"idle", "checked"}
    /\ Len(pushed) < MaxPush
    /\ headSeen' = h
    /\ \/ /\ Full(h)
          /\ producer' = "idle"
          /\ UNCHANGED item
       \/ /\ ~Full(h)
          /\ producer' = "write"
          /\ item' = i
    /\ UNCHANGED <<tail, storage, pushed, consumerVars>>

WriteSlot ==
    /\ producer = "write"
    /\ storage' = [storage EXCEPT ![Slot(tail)] = item]
    /\ producer' = "publish"
    /\ UNCHANGED <<tail, headSeen, item, pushed, consumerVars>>

PublishTail ==
    /\ producer = "publish"
    /\ tail' = tail + 1
    /\ pushed' = Append(pushed, item)
    /\ producer' = "idle"
    /\ item' = MovedFrom
    /\ UNCHANGED <<headSeen, storage, consumerVars>>

-----------------------------------------------------------------------------
(* The consumer.                                                           *)

(* try_pop up to its early return: the empty test on the loaded tail.      *)
TryPop(t) ==
    /\ consumer = "idle"
    /\ tailSeen' = t
    /\ \/ Empty(t) /\ UNCHANGED consumer
       \/ ~Empty(t) /\ consumer' = "read"
    /\ UNCHANGED <<head, out, popped, storage, producerVars>>

ReadSlot ==
    /\ consumer = "read"
    /\ out' = storage[Slot(head)]
    /\ storage' = [storage EXCEPT ![Slot(head)] = MovedFrom]
    /\ consumer' = "release"
    /\ UNCHANGED <<head, tailSeen, popped, producerVars>>

ReleaseHead ==
    /\ consumer = "release"
    /\ head' = head + 1
    /\ popped' = Append(popped, out)
    /\ consumer' = "idle"
    /\ out' = MovedFrom
    /\ UNCHANGED <<tailSeen, storage, producerVars>>

Produce ==
    \/ \E h \in headSeen..head : SizeCheck(h) \/ \E i \in Items : TryPush(i, h)
    \/ WriteSlot
    \/ PublishTail

Consume ==
    \/ \E t \in tailSeen..tail : TryPop(t)
    \/ ReadSlot
    \/ ReleaseHead

Next == Produce \/ Consume

Spec == Init /\ [][Next]_vars

(* The consumer threads poll in a loop, an atomic store becomes visible in *)
(* finite time (so the newest tail_ is eventually loaded), and a call that *)
(* has been started is finished.  Nothing makes the producer push.         *)
Fairness ==
    /\ WF_vars(TryPop(tail))
    /\ WF_vars(ReadSlot \/ ReleaseHead)
    /\ WF_vars(WriteSlot \/ PublishTail)

FairSpec == Spec /\ Fairness

-----------------------------------------------------------------------------
(* Properties.                                                             *)

ProducerStates == {"idle", "checked", "write", "publish"}
ConsumerStates == {"idle", "read", "release"}

(* Types of the ring's state and of the two calls in progress.             *)
TypeOK ==
    /\ head \in Nat /\ tail \in Nat
    /\ headSeen \in Nat /\ tailSeen \in Nat
    /\ storage \in [0..(Capacity - 1) -> Items \union {MovedFrom}]
    /\ producer \in ProducerStates
    /\ consumer \in ConsumerStates
    /\ item \in Items \union {MovedFrom}
    /\ out \in Items \union {MovedFrom}
    /\ pushed \in Seq(Items)
    /\ popped \in Seq(Items \union {MovedFrom})

(* storage_ is accessed without atomics: while try_push may write its slot *)
(* and try_pop may move out of its own, the two are different slots.       *)
NoSlotRace ==
    producer \in {"write", "publish"} /\ consumer \in {"read", "release"}
        => Slot(tail) # Slot(head)

(* Nothing is lost, duplicated or reordered: what try_pop has returned is  *)
(* the first part of what try_push has accepted.                           *)
PoppedInOrder ==
    /\ Len(popped) <= Len(pushed)
    /\ \A i \in 1..Len(popped) : popped[i] = pushed[i]

(* The cursors never overtake what the other thread has been shown: the    *)
(* ring holds at most Capacity items, and a call past its early return has *)
(* room, or an item, whatever the other thread does meanwhile.             *)
CursorsBounded ==
    /\ headSeen <= head /\ head <= tailSeen /\ tailSeen <= tail
    /\ tail - headSeen <= Capacity
    /\ producer # "idle" => tail - headSeen < Capacity
    /\ consumer # "idle" => head < tailSeen

(* Every slot between the cursors holds the item that was pushed there.    *)
SlotsHoldPushed ==
    /\ Len(pushed) = tail
    /\ \A i \in head..(tail - 1) :
          i # head \/ consumer # "release" => storage[Slot(i)] = pushed[i + 1]
    /\ producer \in {"write", "publish"} => item \in Items
    /\ producer = "publish" => storage[Slot(tail)] = item
    /\ consumer = "release" => out = pushed[head + 1]
    /\ Len(popped) = head

(* The inductive invariant behind the ring's safety properties.            *)
RingInvariant == TypeOK /\ CursorsBounded /\ SlotsHoldPushed /\ PoppedInOrder

(* A try_push made after size() showed room does not return false: the     *)
(* engine loop relies on it and ignores the result.                        *)
CheckedPushSucceeds ==
    [][producer = "checked" /\ producer' # producer => producer' = "write"]_vars

(* What the ring holds for the two threads: from head_ to tail_, with the  *)
(* item that try_pop has moved out and not yet released.                   *)
RingContents ==
    [i \in 1..(tail - head) |->
        IF i = 1 /\ consumer = "release" THEN out ELSE storage[Slot(head + i - 1)]]

Fifo == INSTANCE BoundedFifo WITH queue <- RingContents, delivered <- popped

(* The ring implements a bounded first-in first-out queue: try_push takes  *)
(* effect at its store of tail_, try_pop at its store of head_.            *)
ImplementsFifo == Fifo!FifoSpec

(* Every accepted item is eventually returned by try_pop, although each    *)
(* try_pop may load an old tail_ and find the ring empty.                  *)
EveryPushIsPopped ==
    \A n \in 1..MaxPush : (Len(pushed) >= n) ~> (Len(popped) >= n)
=============================================================================
