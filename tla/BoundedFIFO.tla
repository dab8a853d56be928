----------------------------- MODULE BoundedFIFO -----------------------------
(***************************************************************************)
(* What a RingQueue promises: items leave in the order in which they were  *)
(* put, each once, at most Capacity of them wait, and once the queue is    *)
(* closed nothing is put any more.                                         *)
(***************************************************************************)
EXTENDS Naturals, Sequences

CONSTANTS Items, Consumers, Capacity, None

VARIABLES queue, closed, hand       \* hand: the item each consumer has got, or None

vars == <<queue, closed, hand>>

Init == queue = <<>> /\ closed = FALSE /\ hand = [c \in Consumers |-> None]

Put(x) == /\ ~closed /\ Len(queue) < Capacity
          /\ queue' = Append(queue, x)
          /\ UNCHANGED <<closed, hand>>

Deliver(c) == /\ queue # <<>> /\ hand[c] = None
              /\ hand' = [hand EXCEPT ![c] = Head(queue)]
              /\ queue' = Tail(queue)
              /\ UNCHANGED closed

PutAway(c) == hand' = [hand EXCEPT ![c] = None] /\ UNCHANGED <<queue, closed>>

Close == closed' = TRUE /\ UNCHANGED <<queue, hand>>

Next == \/ \E x \in Items : Put(x)
        \/ \E c \in Consumers : Deliver(c) \/ PutAway(c)
        \/ Close

Spec == Init /\ [][Next]_vars
=============================================================================
