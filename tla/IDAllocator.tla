----------------------------- MODULE IDAllocator -----------------------------
(***************************************************************************)
(* IDAllocator.hpp: ids are ints; those given back are issued again, first *)
(* in first out, before a new one is taken from next_id.                   *)
(*                                                                         *)
(* A call that does one thing under the mutex is one step.  The batch calls*)
(* hold the mutex over one step per id: getNextNewID reads next_id without *)
(* it.  isInUse, getUsedCount, getRecyclableCount and getNextNewID change  *)
(* nothing; they appear as the operators that the properties read.         *)
(***************************************************************************)
EXTENDS Integers, Sequences, Functions

CONSTANTS
  Clients, None,
  MinInt, MaxInt,          \* the range of int
  Starts,                  \* the start ids that reset is called with
  Counts, Lists            \* the arguments of allocateBatch and deallocateBatch

Ids == MinInt..MaxInt

ASSUME AllocatorAssumption ==
  /\ MinInt \in Int /\ MaxInt \in Int /\ MinInt < 1 /\ 1 < MaxInt
  /\ Starts \subseteq Ids /\ Counts \subseteq Ids /\ Lists \subseteq Seq(Ids)
  /\ None \notin Clients

VARIABLES
  recycled_ids, used_ids, next_id,
  mutex,                   \* the client in a batch call, or None
  count,                   \* the ids an allocateBatch still has to add ...
  ids,                     \* ... to those it has; those a deallocateBatch still has to look at
  start                    \* history: where next_id started

batch == <<mutex, count, ids>>
vars  == <<recycled_ids, used_ids, next_id, mutex, count, ids, start>>

TypeOK ==
  /\ recycled_ids \in Seq(Ids) /\ used_ids \in SUBSET Ids
  /\ next_id \in Ids /\ start \in Ids
  /\ mutex \in Clients \cup {None}
  /\ count \in Int /\ ids \in Seq(Ids)

Init == /\ recycled_ids = <<>> /\ used_ids = {} /\ next_id = 1 /\ start = 1
        /\ mutex = None /\ count = 0 /\ ids = <<>>

-----------------------------------------------------------------------------
Available_NoWait == TRUE
Available == mutex = None

Successor_NoWrap(n) == n + 1
\* next_id++ on a std::atomic<int>, which wraps round.
Successor(n) == IF n = MaxInt THEN MinInt ELSE n + 1

\* The id that the next allocation returns.
NextIssued == IF recycled_ids # <<>> THEN Head(recycled_ids) ELSE next_id

Issue ==
  /\ IF recycled_ids # <<>>
       THEN recycled_ids' = Tail(recycled_ids) /\ UNCHANGED next_id
       ELSE next_id' = Successor(next_id) /\ UNCHANGED recycled_ids
  /\ used_ids' = used_ids \cup {NextIssued}
  /\ UNCHANGED start

\* The check of used_ids dropped: an id listed twice is recycled twice.
GiveBack_Unchecked(id) ==
  /\ used_ids' = used_ids \ {id} /\ recycled_ids' = Append(recycled_ids, id)
  /\ UNCHANGED <<next_id, start>>

\* An id that is not in use is not taken back.
GiveBack(id) ==
  /\ IF id \in used_ids
       THEN used_ids' = used_ids \ {id} /\ recycled_ids' = Append(recycled_ids, id)
       ELSE UNCHANGED <<used_ids, recycled_ids>>
  /\ UNCHANGED <<next_id, start>>

-----------------------------------------------------------------------------
allocate(c) == Available /\ Issue /\ UNCHANGED batch

deallocate(c, id) == Available /\ GiveBack(id) /\ UNCHANGED batch

\* A negative count leaves through the exception of ids.reserve, before the lock.
allocateBatch(c, n) ==
  /\ Available /\ n >= 0
  /\ mutex' = c /\ count' = n /\ ids' = <<>>
  /\ UNCHANGED <<recycled_ids, used_ids, next_id, start>>

AllocateOne(c) ==
  /\ mutex = c /\ count > 0
  /\ Issue
  /\ count' = count - 1 /\ ids' = Append(ids, NextIssued)
  /\ UNCHANGED mutex

deallocateBatch(c, list) ==
  /\ Available
  /\ mutex' = c /\ count' = -1 /\ ids' = list
  /\ UNCHANGED <<recycled_ids, used_ids, next_id, start>>

DeallocateOne(c) ==
  /\ mutex = c /\ count = -1 /\ ids # <<>>
  /\ GiveBack(Head(ids))
  /\ ids' = Tail(ids)
  /\ UNCHANGED <<mutex, count>>

Return(c) ==
  /\ mutex = c /\ (count = 0 \/ (count = -1 /\ ids = <<>>))
  /\ mutex' = None /\ count' = 0 /\ ids' = <<>>
  /\ UNCHANGED <<recycled_ids, used_ids, next_id, start>>

reset_KeepsRecycled(c, start_id) ==
  /\ Available
  /\ used_ids' = {} /\ next_id' = start_id /\ start' = start_id
  /\ UNCHANGED <<recycled_ids, mutex, count, ids>>

reset(c, start_id) ==
  /\ Available
  /\ recycled_ids' = <<>> /\ used_ids' = {} /\ next_id' = start_id /\ start' = start_id
  /\ UNCHANGED batch

-----------------------------------------------------------------------------
Step(c) ==
  \/ allocate(c)
  \/ \E id \in Ids : deallocate(c, id)
  \/ \E n \in Counts : allocateBatch(c, n)
  \/ AllocateOne(c)
  \/ \E list \in Lists : deallocateBatch(c, list)
  \/ DeallocateOne(c)
  \/ Return(c)
  \/ \E id \in Starts : reset(c, id)

Next == \E c \in Clients : Step(c)

Spec == Init /\ [][Next]_vars

-----------------------------------------------------------------------------
(* Properties. *)

\* The ids from a on that precede b, going round at MaxInt.
From(a, b) == IF a <= b THEN a..(b - 1) ELSE (a..MaxInt) \cup (MinInt..(b - 1))

\* Every id issued since the last reset is either in use or waiting once in recycled_ids, and
\* together they are the ids from where next_id started to next_id, or all ints when next_id has
\* gone round: no double or late deallocation, batch or reset loses an id or recycles it twice
\* (IDAllocator 59-70, 111-116, 154-158).
Accounted ==
  /\ IsInjective(recycled_ids)
  /\ Range(recycled_ids) \cap used_ids = {}
  /\ used_ids \cup Range(recycled_ids) \in {From(start, next_id), Ids}

\* The id that the next allocation returns, recycled or new, is not in use, unless every int is:
\* also after next_id has overflowed (IDAllocator 36-48).
NextIsFree == used_ids # Ids => NextIssued \notin used_ids

\* The ids that an allocateBatch has collected stay in use while it goes on, and are different
\* unless every int is in use (IDAllocator 84-101).
BatchIntact ==
  mutex # None /\ count >= 0 => /\ Range(ids) \subseteq used_ids
                                /\ IsInjective(ids) \/ used_ids = Ids
=============================================================================
