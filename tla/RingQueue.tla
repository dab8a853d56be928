------------------------------ MODULE RingQueue ------------------------------
(***************************************************************************)
(* RingQueue.hpp: a ring of Size slots between producers and consumers,    *)
(* with a counting semaphore for the slots that are free (full) and one    *)
(* for those that are not (empty), a mutex for each side, and Stop.        *)
(*                                                                         *)
(* Grain of atomicity: one operation on a semaphore or one critical        *)
(* section is a step; an access to a slot is a step in which its thread    *)
(* holds the mutex of its side, so that the overlap of a write and a read  *)
(* is a state.                                                             *)
(***************************************************************************)
EXTENDS Integers, Sequences, FiniteSets

CONSTANTS Producers, Consumers, Stoppers,   \* threads that emplace, pop and Stop
          Items, Size, None

Threads == Producers \cup Consumers \cup Stoppers

ASSUME RingAssumption ==
  /\ Size \in Nat \ {0} /\ IsFiniteSet(Threads)
  /\ Producers \cap Consumers = {} /\ Producers \cap Stoppers = {} /\ Consumers \cap Stoppers = {}
  /\ None \notin Items /\ None \notin Threads

VARIABLES
  Tasks, head, tail, empty, full, stop, pro_mutex, con_mutex,
  pc, item, posts,           \* a thread: its control, the item it moves, the rounds Stop has left
  content, posted            \* history: the items stored and not yet taken, the rounds begun

slots    == <<Tasks, head, tail>>
sems     == <<empty, full>>
mutexes  == <<pro_mutex, con_mutex>>
history  == <<content, posted>>
ringVars == <<slots, sems, stop, mutexes, pc, item, posts, history>>

Steps == {"idle", "put_wait", "put_lock", "put_write", "put_post",
          "take_wait", "take_lock", "take_read", "take_post",
          "stop_con", "stop_post", "stop_full", "true", "false"}
Index == 0..(Size - 1)

RingTypeOK ==
  /\ Tasks \in [Index -> Items \cup {None}] /\ head \in Index /\ tail \in Index
  /\ empty \in Nat /\ full \in Nat /\ stop \in BOOLEAN
  /\ pro_mutex \in Threads \cup {None} /\ con_mutex \in Threads \cup {None}
  /\ pc \in [Threads -> Steps] /\ item \in [Threads -> Items \cup {None}]
  /\ posts \in [Threads -> Nat]
  /\ content \in Seq(Items) /\ posted \in Nat

InitialFull_OneMore == Size + 1
InitialFull == Size

RingInit ==
  /\ Tasks = [i \in Index |-> None] /\ head = 0 /\ tail = 0
  /\ empty = 0 /\ full = InitialFull /\ stop = FALSE
  /\ pro_mutex = None /\ con_mutex = None
  /\ pc = [t \in Threads |-> "idle"] /\ item = [t \in Threads |-> None]
  /\ posts = [t \in Threads |-> 0]
  /\ content = <<>> /\ posted = 0

At(t, l)   == pc[t] = l
Goto(t, l) == pc' = [pc EXCEPT ![t] = l]
NextIndex(i) == (i + 1) % Size

-----------------------------------------------------------------------------
(* emplace: P(full), the producers' critical section, V(empty). *)

Emplace(p, x) ==
  /\ At(p, "idle")
  /\ item' = [item EXCEPT ![p] = x]
  /\ Goto(p, "put_wait")
  /\ UNCHANGED <<slots, sems, stop, mutexes, posts, history>>

SlotIsFree_OffByOne == full >= 0
SlotIsFree == full > 0

WaitFull(p) ==
  /\ At(p, "put_wait") /\ SlotIsFree
  /\ full' = full - 1
  /\ Goto(p, "put_lock")
  /\ UNCHANGED <<slots, empty, stop, mutexes, item, posts, history>>

ProducersFree_NoLock == TRUE
ProducersFree == pro_mutex = None

\* A producer that finds the queue stopped gives its slot back and is refused.
TestStop(p) ==
  /\ At(p, "put_lock") /\ ProducersFree
  /\ IF stop THEN full' = full + 1 /\ Goto(p, "false") /\ UNCHANGED pro_mutex
             ELSE pro_mutex' = p /\ Goto(p, "put_write") /\ UNCHANGED full
  /\ UNCHANGED <<slots, empty, stop, con_mutex, item, posts, history>>

Store(p) ==
  /\ At(p, "put_write")
  /\ Tasks' = [Tasks EXCEPT ![tail] = item[p]]
  /\ tail' = NextIndex(tail)
  /\ content' = Append(content, item[p])
  /\ pro_mutex' = None
  /\ Goto(p, "put_post")
  /\ UNCHANGED <<head, sems, stop, con_mutex, item, posts, posted>>

PostEmpty_Lost(p) ==
  /\ At(p, "put_post")
  /\ Goto(p, "true")
  /\ UNCHANGED <<slots, sems, stop, mutexes, item, posts, history>>

PostEmpty(p) ==
  /\ At(p, "put_post")
  /\ empty' = empty + 1
  /\ Goto(p, "true")
  /\ UNCHANGED <<slots, full, stop, mutexes, item, posts, history>>

-----------------------------------------------------------------------------
(* pop: P(empty), the consumers' critical section, V(full). *)

Pop(c) ==
  /\ At(c, "idle")
  /\ Goto(c, "take_wait")
  /\ UNCHANGED <<slots, sems, stop, mutexes, item, posts, history>>

WaitEmpty(c) ==
  /\ At(c, "take_wait") /\ empty > 0
  /\ empty' = empty - 1
  /\ Goto(c, "take_lock")
  /\ UNCHANGED <<slots, full, stop, mutexes, item, posts, history>>

IsEmpty == head = tail

\* The consumer leaves: the queue is stopped, and empty or full.
NothingLeft_AtOnce == stop
NothingLeft == stop /\ IsEmpty

TestEmpty(c) ==
  /\ At(c, "take_lock") /\ con_mutex = None
  /\ IF NothingLeft THEN empty' = empty + 1 /\ Goto(c, "false") /\ UNCHANGED con_mutex
                    ELSE con_mutex' = c /\ Goto(c, "take_read") /\ UNCHANGED empty
  /\ UNCHANGED <<slots, full, stop, pro_mutex, item, posts, history>>

\* The task is moved out of its slot.
Take(c) ==
  /\ At(c, "take_read")
  /\ item' = [item EXCEPT ![c] = Tasks[head]]
  /\ Tasks' = [Tasks EXCEPT ![head] = None]
  /\ head' = NextIndex(head)
  /\ content' = Tail(content)
  /\ con_mutex' = None
  /\ Goto(c, "take_post")
  /\ UNCHANGED <<tail, sems, stop, pro_mutex, posts, posted>>

PostFull_Lost(c) ==
  /\ At(c, "take_post")
  /\ Goto(c, "true")
  /\ UNCHANGED <<slots, sems, stop, mutexes, item, posts, history>>

PostFull(c) ==
  /\ At(c, "take_post")
  /\ full' = full + 1
  /\ Goto(c, "true")
  /\ UNCHANGED <<slots, empty, stop, mutexes, item, posts, history>>

-----------------------------------------------------------------------------
(* Stop: both locks, the flag, then Size rounds of V(empty), V(full). *)

\* Stop with the lock of the consumers only.
Stop_OneLock(s) ==
  /\ At(s, "idle") /\ con_mutex = None
  /\ stop' = TRUE
  /\ posts' = [posts EXCEPT ![s] = Size]
  /\ Goto(s, "stop_post")
  /\ UNCHANGED <<slots, sems, mutexes, item, history>>

Stop(s) ==
  /\ At(s, "idle") /\ pro_mutex = None
  /\ pro_mutex' = s
  /\ Goto(s, "stop_con")
  /\ UNCHANGED <<slots, sems, stop, con_mutex, item, posts, history>>

SetStop(s) ==
  /\ At(s, "stop_con") /\ con_mutex = None
  /\ stop' = TRUE
  /\ pro_mutex' = None
  /\ posts' = [posts EXCEPT ![s] = Size]
  /\ Goto(s, "stop_post")
  /\ UNCHANGED <<slots, sems, con_mutex, item, history>>

ReleaseConsumer_Lost(s) ==
  /\ At(s, "stop_post") /\ posts[s] > 0
  /\ posts' = [posts EXCEPT ![s] = @ - 1] /\ posted' = posted + 1
  /\ Goto(s, "stop_full")
  /\ UNCHANGED <<slots, sems, stop, mutexes, item, content>>

ReleaseConsumer(s) ==
  /\ At(s, "stop_post") /\ posts[s] > 0
  /\ empty' = empty + 1
  /\ posts' = [posts EXCEPT ![s] = @ - 1] /\ posted' = posted + 1
  /\ Goto(s, "stop_full")
  /\ UNCHANGED <<slots, full, stop, mutexes, item, content>>

ReleaseProducer_Lost(s) ==
  /\ At(s, "stop_full")
  /\ Goto(s, "stop_post")
  /\ UNCHANGED <<slots, sems, stop, mutexes, item, posts, history>>

ReleaseProducer(s) ==
  /\ At(s, "stop_full")
  /\ full' = full + 1
  /\ Goto(s, "stop_post")
  /\ UNCHANGED <<slots, empty, stop, mutexes, item, posts, history>>

StopEnds(s) ==
  /\ At(s, "stop_post") /\ posts[s] = 0
  /\ Goto(s, "true")
  /\ UNCHANGED <<slots, sems, stop, mutexes, item, posts, history>>

\* The caller goes on after a call that has returned.
Resume(t) ==
  /\ pc[t] \in {"true", "false"}
  /\ item' = [item EXCEPT ![t] = None]
  /\ Goto(t, "idle")
  /\ UNCHANGED <<slots, sems, stop, mutexes, posts, history>>

-----------------------------------------------------------------------------
InEmplace(p)   == pc[p] \in {"put_wait", "put_lock", "put_write", "put_post"}
EmplaceStep(p) == WaitFull(p) \/ TestStop(p) \/ Store(p) \/ PostEmpty(p)
PopStep(c)     == WaitEmpty(c) \/ TestEmpty(c) \/ Take(c) \/ PostFull(c)
StopStep(s)    == SetStop(s) \/ ReleaseConsumer(s) \/ ReleaseProducer(s) \/ StopEnds(s)

RingNext ==
  \/ \E p \in Producers : (\E x \in Items : Emplace(p, x)) \/ EmplaceStep(p)
  \/ \E c \in Consumers : Pop(c) \/ PopStep(c)
  \/ \E s \in Stoppers : Stop(s) \/ StopStep(s)
  \/ \E t \in Threads : Resume(t)

RingSpec == RingInit /\ [][RingNext]_ringVars
-----------------------------------------------------------------------------
(* Properties. *)

\* A slot is written only while it is free and read only while it is taken, so never both at
\* once: producers and consumers hold different mutexes (lines 26, 39) and meet only through the
\* semaphores, to which Stop posts without a slot being free or taken (lines 58-61).
SlotsExclusive ==
  /\ \A p \in Producers : At(p, "put_write") => Tasks[tail] = None
  /\ \A c \in Consumers : At(c, "take_read") => Tasks[head] # None
  /\ \A p \in Producers, c \in Consumers :
       At(p, "put_write") /\ At(c, "take_read") => tail # head

\* IsEmpty reads tail without the producers' mutex (line 64), which is safe only because no
\* producer moves tail once stop is set: Stop takes both locks (lines 53-54).
TailIsStable == stop => \A p \in Producers : ~At(p, "put_write")

\* The queue is a bounded FIFO, also while it is stopped: content is what the slots hold from
\* head on, and a pop delivers what is stored in Tasks[head] (line 44).
FIFO == INSTANCE BoundedFIFO WITH
  Capacity <- Size, queue <- content, closed <- stop, hand <- [c \in Consumers |-> item[c]]
ImplementsFIFO == FIFO!Spec
=============================================================================
