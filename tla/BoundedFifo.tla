---------------------------- MODULE BoundedFifo ----------------------------
(* What a queue between two threads of the exchange promises: a first-in   *)
(* first-out buffer that never holds more than Capacity items and hands    *)
(* every item out exactly once, in the order it was put in.  A call that   *)
(* returns false leaves it alone, so it is a stuttering step here.         *)
EXTENDS Integers, Sequences

CONSTANTS Items, Capacity

VARIABLES queue,      \* the items put in and not yet handed out
          delivered   \* every item handed out so far, oldest first

fifoVars == <<queue, delivered>>

FifoInit ==
    /\ queue = <<>>
    /\ delivered = <<>>

Put(item) ==
    /\ Len(queue) < Capacity
    /\ queue' = Append(queue, item)
    /\ UNCHANGED delivered

Get ==
    /\ queue # <<>>
    /\ delivered' = Append(delivered, Head(queue))
    /\ queue' = Tail(queue)

FifoNext == Get \/ \E item \in Items : Put(item)

FifoSpec == FifoInit /\ [][FifoNext]_fifoVars
=============================================================================
