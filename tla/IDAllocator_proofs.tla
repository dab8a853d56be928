------------------------- MODULE IDAllocator_proofs --------------------------
(***************************************************************************)
(* The allocator issues no id that is in use, whatever the range of int,   *)
(* the clients and their batches.  The induction is on Accounted: the ids  *)
(* in use and those recycled are disjoint, and together the ids from start *)
(* to next_id.                                                             *)
(***************************************************************************)
EXTENDS IDAllocator, TLAPS

\* Accounted, spelled out on the elements of recycled_ids.
Recycled == {recycled_ids[i] : i \in 1..Len(recycled_ids)}
Distinct == \A i, j \in 1..Len(recycled_ids) : recycled_ids[i] = recycled_ids[j] => i = j
Apart    == \A i \in 1..Len(recycled_ids) : recycled_ids[i] \notin used_ids
Complete == used_ids \cup Recycled = From(start, next_id) \/ used_ids \cup Recycled = Ids

AccountInv == Distinct /\ Apart /\ Complete

\* What Accounted is about.
Account == <<recycled_ids, used_ids, next_id, start>>

LEMMA BoundsFact == /\ MinInt \in Int /\ MaxInt \in Int /\ MinInt < 1 /\ 1 < MaxInt
                    /\ Starts \subseteq Ids /\ Lists \subseteq Seq(Ids) /\ Counts \subseteq Int
                    /\ \A n \in Ids : n \in Int
  BY AllocatorAssumption DEF Ids

LEMMA SuccessorInIds == \A n \in Ids : Successor(n) \in Ids
  BY BoundsFact DEF Successor, Ids

\* One more id: the interval grows by its end, until it is everything.
LEMMA FromGrows ==
  \A a, b \in Ids : \/ From(a, b) \cup {b} = From(a, Successor(b))
                    \/ From(a, b) \cup {b} = Ids
  <1> SUFFICES ASSUME NEW a \in Ids, NEW b \in Ids
               PROVE  \/ From(a, b) \cup {b} = From(a, Successor(b))
                      \/ From(a, b) \cup {b} = Ids
    OBVIOUS
  <1>1. CASE a <= b /\ b # MaxInt
    BY <1>1, BoundsFact DEF From, Successor, Ids
  <1>2. CASE a <= b /\ b = MaxInt
    <2>1. CASE a = MinInt
      BY <1>2, <2>1, BoundsFact DEF From, Successor, Ids
    <2>2. CASE a # MinInt
      BY <1>2, <2>2, BoundsFact DEF From, Successor, Ids
    <2> QED BY <2>1, <2>2
  <1>3. CASE b < a
    <2>1. CASE b + 1 = a
      BY <1>3, <2>1, BoundsFact DEF From, Successor, Ids
    <2>2. CASE b + 1 # a
      BY <1>3, <2>2, BoundsFact DEF From, Successor, Ids
    <2> QED BY <2>1, <2>2
  <1> QED BY <1>1, <1>2, <1>3, BoundsFact

\* The end of an interval is not in it.
LEMMA FromExcludes == \A a, b \in Ids : b \notin From(a, b) /\ From(a, b) \subseteq Ids
  BY BoundsFact DEF From, Ids

THEOREM TypeCorrect == Spec => []TypeOK
  <1>1. Init => TypeOK
    BY BoundsFact DEF Init, TypeOK, Ids
  <1>2. TypeOK /\ [Next]_vars => TypeOK'
    <2> SUFFICES ASSUME TypeOK, [Next]_vars PROVE TypeOK' OBVIOUS
    <2> USE DEF TypeOK
    <2>1. ASSUME Issue
          PROVE  NextIssued \in Ids /\ recycled_ids' \in Seq(Ids) /\ used_ids' \in SUBSET Ids
                             /\ next_id' \in Ids /\ start' \in Ids
      <3>1. NextIssued \in Ids BY DEF NextIssued
      <3>2. CASE recycled_ids # <<>> BY <2>1, <3>1, <3>2 DEF Issue
      <3>3. CASE recycled_ids = <<>> BY <2>1, <3>1, <3>3, SuccessorInIds DEF Issue
      <3> QED BY <3>1, <3>2, <3>3
    <2>2. ASSUME NEW id \in Ids, GiveBack(id)
          PROVE  /\ recycled_ids' \in Seq(Ids) /\ used_ids' \in SUBSET Ids
                 /\ next_id' \in Ids /\ start' \in Ids
      BY <2>2 DEF GiveBack
    <2>3. CASE UNCHANGED vars BY <2>3 DEF vars
    <2>4. ASSUME NEW c \in Clients, Step(c) PROVE TypeOK'
      <3>1. CASE allocate(c) BY <3>1, <2>1 DEF allocate, batch
      <3>2. ASSUME NEW id \in Ids, deallocate(c, id) PROVE TypeOK'
        BY <3>2, <2>2 DEF deallocate, batch
      <3>3. ASSUME NEW n \in Counts, allocateBatch(c, n) PROVE TypeOK'
        BY <3>3, BoundsFact DEF allocateBatch
      <3>4. CASE AllocateOne(c) BY <3>4, <2>1 DEF AllocateOne
      <3>5. ASSUME NEW list \in Lists, deallocateBatch(c, list) PROVE TypeOK'
        BY <3>5, BoundsFact DEF deallocateBatch
      <3>6. CASE DeallocateOne(c)
        <4>1. Head(ids) \in Ids /\ Tail(ids) \in Seq(Ids) BY <3>6 DEF DeallocateOne
        <4> QED BY <3>6, <4>1, <2>2 DEF DeallocateOne
      <3>7. CASE Return(c) BY <3>7 DEF Return
      <3>8. ASSUME NEW id \in Starts, reset(c, id) PROVE TypeOK'
        BY <3>8, BoundsFact DEF reset, batch
      <3> QED BY <2>4, <3>1, <3>2, <3>3, <3>4, <3>5, <3>6, <3>7, <3>8 DEF Step
    <2> QED BY <2>3, <2>4 DEF Next
  <1> QED BY <1>1, <1>2, PTL DEF Spec
-----------------------------------------------------------------------------
LEMMA RecycledSteps ==
  ASSUME TypeOK
  PROVE  /\ \A id \in Ids : recycled_ids' = Append(recycled_ids, id) =>
              /\ Len(recycled_ids') = Len(recycled_ids) + 1
              /\ \A i \in 1..Len(recycled_ids) : recycled_ids'[i] = recycled_ids[i]
              /\ recycled_ids'[Len(recycled_ids) + 1] = id
         /\ recycled_ids # <<>> /\ recycled_ids' = Tail(recycled_ids) =>
              /\ Len(recycled_ids) \in Nat \ {0} /\ Len(recycled_ids') = Len(recycled_ids) - 1
              /\ \A i \in 1..Len(recycled_ids') : recycled_ids'[i] = recycled_ids[i + 1]
  BY DEF TypeOK

LEMMA EmptyQueue == TypeOK /\ recycled_ids = <<>> => Len(recycled_ids) = 0 /\ Recycled = {}
  BY DEF TypeOK, Recycled

LEMMA IssueAccounts ==
  ASSUME TypeOK, AccountInv, Issue
  PROVE  AccountInv'
  <1> USE DEF AccountInv
  <1>1. CASE recycled_ids = <<>>
    <2>1. recycled_ids' = recycled_ids /\ used_ids' = used_ids \cup {next_id}
          /\ next_id' = Successor(next_id) /\ start' = start
      BY <1>1 DEF Issue, NextIssued
    <2>2. Recycled = {} /\ Recycled' = {} /\ Len(recycled_ids) = 0 /\ Len(recycled_ids') = 0
      BY <1>1, <2>1, EmptyQueue DEF Recycled
    <2>3. Complete'
      <3>1. CASE used_ids = Ids BY <3>1, <2>1, <2>2 DEF TypeOK, Complete
      <3>2. CASE used_ids = From(start, next_id)
        <4>1. \/ used_ids' = From(start, Successor(next_id))
              \/ used_ids' = Ids
          BY <3>2, <2>1, FromGrows DEF TypeOK
        <4> QED BY <4>1, <2>1, <2>2 DEF Complete
      <3> QED BY <2>2, <3>1, <3>2 DEF Complete
    <2> QED BY <2>2, <2>3 DEF Distinct, Apart
  <1>2. CASE recycled_ids # <<>>
    <2> DEFINE s == recycled_ids
    <2>1. s' = Tail(s) /\ used_ids' = used_ids \cup {s[1]} /\ UNCHANGED <<next_id, start>>
      BY <1>2 DEF Issue, NextIssued, TypeOK
    <2>2. /\ Len(s) \in Nat \ {0} /\ Len(s') = Len(s) - 1
          /\ \A i \in 1..Len(s') : s'[i] = s[i + 1]
      BY <1>2, <2>1, RecycledSteps
    <2>3. Distinct' BY <2>2 DEF Distinct
    <2>4. Apart'
      <3>1. \A i \in 1..Len(s') : s'[i] # s[1] /\ s'[i] \notin used_ids
        BY <2>2 DEF Distinct, Apart
      <3> QED BY <3>1, <2>1 DEF Apart
    <2>5. used_ids' \cup Recycled' = used_ids \cup Recycled
      <3>1. \A x \in Recycled' : x \in Recycled BY <2>2 DEF Recycled
      <3>2. s[1] \in Recycled BY <2>2 DEF Recycled
      <3>3. \A i \in 1..Len(s) : s[i] = s[1] \/ s[i] \in Recycled'
        <4> SUFFICES ASSUME NEW i \in 1..Len(s), i # 1 PROVE s[i] \in Recycled'
          OBVIOUS
        <4>1. i - 1 \in 1..Len(s') /\ s'[i - 1] = s[i] BY <2>2
        <4> QED BY <4>1 DEF Recycled
      <3>4. \A x \in Recycled : x = s[1] \/ x \in Recycled' BY <3>3 DEF Recycled
      <3> QED BY <3>1, <3>2, <3>4, <2>1
    <2> QED BY <2>1, <2>3, <2>4, <2>5 DEF Complete
  <1> QED BY <1>1, <1>2

LEMMA GiveBackAccounts ==
  ASSUME TypeOK, AccountInv, NEW id \in Ids, GiveBack(id)
  PROVE  AccountInv'
  <1> USE DEF AccountInv
  <1>1. CASE id \notin used_ids
    <2>1. UNCHANGED Account BY <1>1 DEF GiveBack, Account
    <2> QED BY <2>1 DEF Account, Distinct, Apart, Complete, Recycled
  <1>2. CASE id \in used_ids
    <2> DEFINE s == recycled_ids
    <2>1. s' = Append(s, id) /\ used_ids' = used_ids \ {id} /\ UNCHANGED <<next_id, start>>
      BY <1>2 DEF GiveBack
    <2>2. /\ Len(s) \in Nat /\ Len(s') = Len(s) + 1
          /\ \A i \in 1..Len(s) : s'[i] = s[i]
          /\ s'[Len(s) + 1] = id
      BY <2>1, RecycledSteps DEF TypeOK
    <2>3. \A i \in 1..Len(s) : s[i] # id BY <1>2 DEF Apart
    <2>4. Distinct'
      <3> SUFFICES ASSUME NEW i \in 1..Len(s'), NEW j \in 1..Len(s'), s'[i] = s'[j] PROVE i = j
        BY DEF Distinct
      <3>1. CASE i \in 1..Len(s) /\ j \in 1..Len(s) BY <3>1, <2>2 DEF Distinct
      <3>2. CASE i = Len(s) + 1 \/ j = Len(s) + 1 BY <3>2, <2>2, <2>3
      <3> QED BY <3>1, <3>2, <2>2
    <2>5. Apart' BY <2>1, <2>2 DEF Apart
    <2>6. used_ids' \cup Recycled' = used_ids \cup Recycled
      <3>1. \A x \in Recycled' : x = id \/ x \in Recycled BY <2>2 DEF Recycled
      <3>2. id \in Recycled'
        <4>1. Len(s) + 1 \in 1..Len(s') BY <2>2
        <4> QED BY <4>1, <2>2 DEF Recycled
      <3>3. \A x \in Recycled : x \in Recycled'
        <4>1. \A i \in 1..Len(s) : i \in 1..Len(s') BY <2>2
        <4> QED BY <4>1, <2>2 DEF Recycled
      <3> QED BY <1>2, <2>1, <3>1, <3>2, <3>3
    <2> QED BY <2>1, <2>4, <2>5, <2>6 DEF Complete
  <1> QED BY <1>1, <1>2

\* What an allocation returns is free, as long as an id is.
LEMMA IssuesFree == TypeOK /\ AccountInv => NextIsFree
  <1> SUFFICES ASSUME TypeOK, AccountInv, used_ids # Ids PROVE NextIssued \notin used_ids
    BY DEF NextIsFree
  <1>1. CASE recycled_ids = <<>>
    <2>1. used_ids = From(start, next_id) BY <1>1, EmptyQueue DEF AccountInv, Complete
    <2> QED BY <1>1, <2>1, FromExcludes DEF NextIssued, TypeOK
  <1>2. CASE recycled_ids # <<>>
    <2>1. 1 \in 1..Len(recycled_ids) /\ NextIssued = recycled_ids[1]
      BY <1>2 DEF TypeOK, NextIssued
    <2> QED BY <2>1 DEF AccountInv, Apart
  <1> QED BY <1>1, <1>2

-----------------------------------------------------------------------------
\* The part of BatchIntact that is inductive with the account.
LEMMA BatchStep ==
  ASSUME TypeOK, AccountInv, BatchIntact, NEW c \in Clients, AllocateOne(c)
  PROVE  BatchIntact'
  <1> DEFINE x == NextIssued
  <1>1. /\ ids' = Append(ids, x) /\ used_ids' = used_ids \cup {x}
        /\ mutex = c /\ count > 0 /\ x \in Ids
    BY SuccessorInIds DEF AllocateOne, Issue, TypeOK, NextIssued
  <1>2. /\ \A i \in DOMAIN ids : ids[i] \in used_ids
        /\ (\A i, j \in DOMAIN ids : ids[i] = ids[j] => i = j) \/ used_ids = Ids
    BY <1>1, BoundsFact, AllocatorAssumption DEF BatchIntact, Range, IsInjective, TypeOK
  <1>3. /\ DOMAIN ids = 1..Len(ids) /\ DOMAIN ids' = 1..(Len(ids) + 1) /\ Len(ids) \in Nat
        /\ \A i \in 1..Len(ids) : ids'[i] = ids[i]
        /\ ids'[Len(ids) + 1] = x
    BY <1>1 DEF TypeOK
  <1>4. x \notin used_ids \/ used_ids = Ids BY IssuesFree DEF NextIsFree
  <1>5. \A i \in DOMAIN ids' : ids'[i] \in used_ids' BY <1>1, <1>2, <1>3
  <1>6. (\A i, j \in DOMAIN ids' : ids'[i] = ids'[j] => i = j) \/ used_ids' = Ids
    <2>1. CASE used_ids = Ids BY <1>1, <2>1
    <2>2. CASE used_ids # Ids
      <3> SUFFICES ASSUME NEW i \in DOMAIN ids', NEW j \in DOMAIN ids', ids'[i] = ids'[j]
                   PROVE  i = j
        OBVIOUS
      <3>1. CASE i \in DOMAIN ids /\ j \in DOMAIN ids BY <2>2, <3>1, <1>2, <1>3
      <3>2. CASE i \notin DOMAIN ids \/ j \notin DOMAIN ids BY <2>2, <3>2, <1>2, <1>3, <1>4
      <3> QED BY <3>1, <3>2
    <2> QED BY <2>1, <2>2
  <1> QED BY <1>5, <1>6 DEF BatchIntact, Range, IsInjective

Safe == AccountInv /\ BatchIntact

LEMMA StepSafe == ASSUME TypeOK, Safe, [Next]_vars PROVE Safe'
  <1> USE DEF Safe
  <1>1. ASSUME UNCHANGED Account,
               UNCHANGED <<mutex, count, ids>> \/ mutex' = None \/ ids' = <<>> \/ count' = -1
        PROVE Safe'
    <2>1. AccountInv' BY <1>1 DEF Account, AccountInv, Distinct, Apart, Complete, Recycled
    <2>2. BatchIntact' BY <1>1 DEF Account, BatchIntact, Range, IsInjective
    <2> QED BY <2>1, <2>2
  <1>2. CASE UNCHANGED vars BY <1>1, <1>2 DEF vars, Account
  <1>3. ASSUME NEW c \in Clients, Step(c) PROVE Safe'
    <2>1. ASSUME allocate(c) PROVE Safe'
      BY <2>1, IssueAccounts DEF allocate, Available, batch, BatchIntact
    <2>2. ASSUME NEW id \in Ids, deallocate(c, id) PROVE Safe'
      BY <2>2, GiveBackAccounts DEF deallocate, Available, batch, BatchIntact
    <2>3. ASSUME NEW n \in Counts, allocateBatch(c, n) PROVE Safe'
      BY <2>3, <1>1 DEF allocateBatch, Account
    <2>4. ASSUME AllocateOne(c) PROVE Safe'
      BY <2>4, IssueAccounts, BatchStep DEF AllocateOne
    <2>5. ASSUME NEW list \in Lists, deallocateBatch(c, list) PROVE Safe'
      BY <2>5, <1>1 DEF deallocateBatch, Account
    <2>6. ASSUME DeallocateOne(c) PROVE Safe'
      <3>1. GiveBack(Head(ids)) /\ Head(ids) \in Ids /\ count' = -1
        BY <2>6 DEF DeallocateOne, TypeOK
      <3> QED BY <3>1, GiveBackAccounts DEF BatchIntact
    <2>7. ASSUME Return(c) PROVE Safe' BY <2>7, <1>1 DEF Return, Account
    <2>8. ASSUME NEW id \in Starts, reset(c, id) PROVE Safe'
      <3>1. /\ Recycled' = {}
            /\ Len(recycled_ids') = 0
            /\ used_ids' = {}
            /\ start' = id
            /\ next_id' = id
        BY <2>8 DEF reset, Recycled
      <3>2. From(id, id) = {} BY BoundsFact DEF From
      <3>3. AccountInv' BY <3>1, <3>2 DEF AccountInv, Distinct, Apart, Complete
      <3> QED BY <2>8, <3>3 DEF reset, Available, batch, BatchIntact
    <2> QED BY <1>3, <2>1, <2>2, <2>3, <2>4, <2>5, <2>6, <2>7, <2>8 DEF Step
  <1> QED BY <1>2, <1>3 DEF Next

THEOREM SafeAlways == Spec => []Safe
  <1>1. Init => Safe
    <2> SUFFICES ASSUME Init PROVE Safe OBVIOUS
    <2>1. Recycled = {} /\ Len(recycled_ids) = 0 BY DEF Init, Recycled
    <2>2. From(1, 1) = {} BY DEF From
    <2> QED BY <2>1, <2>2 DEF Init, Safe, AccountInv, Distinct, Apart, Complete, BatchIntact
  <1>2. TypeOK /\ Safe /\ [Next]_vars => Safe' BY StepSafe
  <1> QED BY <1>1, <1>2, TypeCorrect, PTL DEF Spec

\* The id issued next is not in use unless every int is (IDAllocator 36-48), for every range of int
\* and every sequence of calls.
THEOREM NeverIssuedTwice == Spec => []NextIsFree
  BY SafeAlways, TypeCorrect, IssuesFree, PTL DEF Safe

\* No id is lost or recycled twice (IDAllocator 59-70, 111-116, 154-158).
THEOREM AllAccounted == Spec => []Accounted
  <1>1. TypeOK /\ AccountInv => Accounted
    <2> SUFFICES ASSUME TypeOK, AccountInv PROVE Accounted OBVIOUS
    <2>1. DOMAIN recycled_ids = 1..Len(recycled_ids) BY DEF TypeOK
    <2>2. Range(recycled_ids) = Recycled BY <2>1 DEF Range, Recycled
    <2>3. IsInjective(recycled_ids) BY <2>1 DEF IsInjective, AccountInv, Distinct
    <2>4. Recycled \cap used_ids = {} BY DEF Recycled, AccountInv, Apart
    <2> QED BY <2>2, <2>3, <2>4 DEF Accounted, AccountInv, Complete
  <1> QED BY <1>1, SafeAlways, TypeCorrect, PTL DEF Safe

\* A batch keeps its ids while it goes on (IDAllocator 84-101).
THEOREM BatchesIntact == Spec => []BatchIntact
  BY SafeAlways, PTL DEF Safe
=============================================================================
