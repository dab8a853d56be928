-------------------------- MODULE ThreadPool_proofs --------------------------
(***************************************************************************)
(* The pool and its queue, for every number of workers and of clients and  *)
(* whatever the clients enqueue.  First the ring: it is a bounded FIFO     *)
(* whose slots are never written and read at once, for every size.  The    *)
(* induction has two parts: where in the ring the items of content are,    *)
(* and what the two semaphores count.  Then the pool: it uses its queue as *)
(* the ring's specification allows, so what is proved of the ring holds of *)
(* the pool's, and its destructor loses either no accepted task or a whole *)
(* ring of them.                                                           *)
(***************************************************************************)
EXTENDS ThreadPool, FiniteSetTheorems, TLAPS

-----------------------------------------------------------------------------
(* The invariant of the ring. *)


\* The slot that is k places after slot h.
Slot(h, k) == IF h + k < Size THEN h + k ELSE h + k - Size

\* content is in the slots from head on, the others are empty, and tail follows the last one.
Geometry ==
  /\ Len(content) <= Size
  /\ tail = Slot(head, Len(content))
  /\ \A i \in 1..Len(content) : Tasks[Slot(head, i - 1)] = content[i]
  /\ \A k \in Len(content)..(Size - 1) : Tasks[Slot(head, k)] = None

\* The control of the threads of each kind, and what they hold.
Putting  == {"idle", "put_wait", "put_lock", "put_write", "put_post", "true", "false"}
Taking   == {"idle", "take_wait", "take_lock", "take_read", "take_post", "true", "false"}
Stopping == {"idle", "stop_con", "stop_post", "stop_full", "true", "false"}
Control ==
  /\ \A p \in Producers : /\ pc[p] \in Putting
                          /\ pc[p] \in {"put_wait", "put_lock", "put_write"} => item[p] \in Items
  /\ \A c \in Consumers :
       /\ pc[c] \in Taking
       /\ pc[c] \in {"idle", "take_wait", "take_lock", "take_read"} => item[c] = None
  /\ \A s \in Stoppers : /\ pc[s] \in Stopping
                         /\ pc[s] \in {"stop_post", "stop_full"} => stop

Owners ==
  /\ \A p \in Producers : pc[p] = "put_write" => pro_mutex = p
  /\ \A s \in Stoppers : pc[s] = "stop_con" => pro_mutex = s
  /\ \A c \in Consumers : pc[c] = "take_read" => con_mutex = c

\* Who is at a place of K, among the threads of S.
Count(S, K) == Cardinality({t \in S : pc[t] \in K})

\* Every slot is free, promised to a producer, full or about to be given back; every item is
\* announced, promised to a consumer or about to be announced; Stop posts besides.
Promised   == Count(Producers, {"put_lock", "put_write"})
Returning  == Count(Consumers, {"take_post"})
Reposting  == Count(Stoppers, {"stop_full"})
Granted    == Count(Consumers, {"take_lock", "take_read"})
Announcing == Count(Producers, {"put_post"})
Counting ==
  /\ full + Promised + Len(content) + Returning + Reposting = Size + posted
  /\ empty + Granted + Announcing = Len(content) + posted
  /\ posted > 0 => stop

\* What the threads in a critical section rely on.
Inside == /\ \A p \in Producers : pc[p] = "put_write" => ~stop /\ Len(content) < Size
          /\ \A c \in Consumers : pc[c] = "take_read" => Len(content) > 0

Inv == RingTypeOK /\ Control /\ Owners /\ Geometry /\ Counting /\ Inside

-----------------------------------------------------------------------------
(* Arithmetic on the ring. *)

LEMMA SizeFact == Size \in Nat /\ Size > 0 /\ Index = 0..(Size - 1)
  BY RingAssumption DEF Index

LEMMA NextIndexIs ==
  \A i \in Index : NextIndex(i) = IF i + 1 = Size THEN 0 ELSE i + 1
  BY SizeFact DEF NextIndex

LEMMA SlotFacts ==
  \A h \in Index :
    /\ \A k \in 0..(Size - 1) : /\ Slot(h, k) \in Index
                                /\ NextIndex(Slot(h, k)) = Slot(h, k + 1)
                                /\ Slot(NextIndex(h), k) = Slot(h, k + 1)
    /\ \A j, k \in 0..(Size - 1) : Slot(h, j) = Slot(h, k) => j = k
    /\ Slot(h, 0) = h /\ Slot(h, Size) = h /\ NextIndex(h) \in Index
  BY SizeFact, NextIndexIs DEF Slot

(* Counting threads. *)

\* Thread t goes to l, and what that makes of the number n of threads of S at K.
Moves(t, l) == t \in Threads /\ pc' = [pc EXCEPT ![t] = l]
After(n, t, l, S, K) == IF t \in S /\ l \in K /\ pc[t] \notin K THEN n + 1
                        ELSE IF t \in S /\ l \notin K /\ pc[t] \in K THEN n - 1 ELSE n

LEMMA CountNat == ASSUME RingTypeOK, NEW S \in SUBSET Threads, NEW K PROVE Count(S, K) \in Nat
  <1>1. {u \in S : pc[u] \in K} \subseteq Threads /\ IsFiniteSet(Threads) BY RingAssumption
  <1> QED BY <1>1, FS_Subset, FS_CardinalityType DEF Count

LEMMA CountMove ==
  ASSUME RingTypeOK, NEW S \in SUBSET Threads, NEW K, NEW t, NEW l, Moves(t, l)
  PROVE  Count(S, K)' = After(Count(S, K), t, l, S, K)
  <1> DEFINE A == {u \in S : pc[u] \in K}
  <1>1. IsFiniteSet(A)
    <2>1. A \subseteq Threads /\ IsFiniteSet(Threads) BY RingAssumption
    <2> QED BY <2>1, FS_Subset
  <1>2. /\ t \in Threads
        /\ \A u \in Threads : pc'[u] = IF u = t THEN l ELSE pc[u]
    BY DEF RingTypeOK, Moves
  <1>3. CASE t \notin S \/ (pc[t] \in K <=> l \in K)
    <2>1. A' = A BY <1>2, <1>3
    <2> QED BY <2>1, <1>3 DEF Count, After
  <1>4. CASE t \in S /\ pc[t] \notin K /\ l \in K
    <2>1. A' = A \cup {t} /\ t \notin A BY <1>2, <1>4
    <2>2. Cardinality(A') = Cardinality(A) + 1 BY <2>1, <1>1, FS_AddElement
    <2> QED BY <2>2, <1>4 DEF Count, After
  <1>5. CASE t \in S /\ pc[t] \in K /\ l \notin K
    <2>1. A' = A \ {t} /\ t \in A BY <1>2, <1>5
    <2>2. Cardinality(A') = Cardinality(A) - 1 BY <2>1, <1>1, FS_RemoveElement
    <2> QED BY <2>2, <1>5 DEF Count, After
  <1> QED BY <1>3, <1>4, <1>5

LEMMA CountPositive ==
  ASSUME RingTypeOK, NEW S \in SUBSET Threads, NEW K, NEW t \in S, pc[t] \in K
  PROVE  Count(S, K) \in Nat /\ Count(S, K) > 0
  <1> DEFINE A == {u \in S : pc[u] \in K}
  <1>1. IsFiniteSet(A)
    <2>1. A \subseteq Threads /\ IsFiniteSet(Threads) BY RingAssumption
    <2> QED BY <2>1, FS_Subset
  <1>2. t \in A OBVIOUS
  <1>3. Cardinality(A) \in Nat /\ Cardinality(A) # 0 BY <1>1, <1>2, FS_EmptySet, FS_CardinalityType
  <1> QED BY <1>3 DEF Count

-----------------------------------------------------------------------------
LEMMA Kinds == /\ Producers \subseteq Threads /\ Consumers \subseteq Threads
               /\ Stoppers \subseteq Threads
               /\ \A t \in Threads : t \in Producers \/ t \in Consumers \/ t \in Stoppers
               /\ \A p \in Producers : p \notin Consumers /\ p \notin Stoppers
               /\ \A c \in Consumers : c \notin Stoppers
               /\ None \notin Items /\ None \notin Threads
  BY RingAssumption DEF Threads

\* The actions of the ring, by the thread that takes them.
LEMMA Cases ==
  ASSUME [RingNext]_ringVars, NEW G \in BOOLEAN,
         UNCHANGED ringVars => G,
         \A p \in Producers, x \in Items : Emplace(p, x) => G,
         \A p \in Producers : WaitFull(p) => G,
         \A p \in Producers : TestStop(p) => G,
         \A p \in Producers : Store(p) => G,
         \A p \in Producers : PostEmpty(p) => G,
         \A c \in Consumers : Pop(c) => G,
         \A c \in Consumers : WaitEmpty(c) => G,
         \A c \in Consumers : TestEmpty(c) => G,
         \A c \in Consumers : Take(c) => G,
         \A c \in Consumers : PostFull(c) => G,
         \A s \in Stoppers : Stop(s) => G,
         \A s \in Stoppers : SetStop(s) => G,
         \A s \in Stoppers : ReleaseConsumer(s) => G,
         \A s \in Stoppers : ReleaseProducer(s) => G,
         \A s \in Stoppers : StopEnds(s) => G,
         \A t \in Threads : Resume(t) => G
  PROVE  G
  BY DEF RingNext, EmplaceStep, PopStep, StopStep

LEMMA StepTyped ==
  ASSUME RingTypeOK, Control, Inside, [RingNext]_ringVars PROVE RingTypeOK'
  <1> USE Kinds, SizeFact DEF RingTypeOK, slots, sems, mutexes, history, At, Goto, Steps
  <1>1. CASE UNCHANGED ringVars BY <1>1 DEF ringVars
  <1>2. ASSUME NEW p \in Producers, NEW x \in Items, Emplace(p, x) PROVE RingTypeOK'
    BY <1>2 DEF Emplace
  <1>3. ASSUME NEW p \in Producers, WaitFull(p) PROVE RingTypeOK'
    <2>1. full - 1 \in Nat BY <1>3 DEF WaitFull, SlotIsFree
    <2> QED BY <1>3, <2>1 DEF WaitFull
  <1>4. ASSUME NEW p \in Producers, TestStop(p) PROVE RingTypeOK'
    <2>1. CASE stop BY <1>4, <2>1 DEF TestStop
    <2>2. CASE ~stop BY <1>4, <2>2 DEF TestStop
    <2> QED BY <2>1, <2>2
  <1>5. ASSUME NEW p \in Producers, Store(p) PROVE RingTypeOK'
    <2>1. item[p] \in Items /\ NextIndex(tail) \in Index
      BY <1>5, SlotFacts DEF Store, Control
    <2> QED BY <1>5, <2>1 DEF Store
  <1>6. ASSUME NEW p \in Producers, PostEmpty(p) PROVE RingTypeOK' BY <1>6 DEF PostEmpty
  <1>7. ASSUME NEW c \in Consumers, Pop(c) PROVE RingTypeOK' BY <1>7 DEF Pop
  <1>8. ASSUME NEW c \in Consumers, WaitEmpty(c) PROVE RingTypeOK'
    <2>1. empty - 1 \in Nat BY <1>8 DEF WaitEmpty
    <2> QED BY <1>8, <2>1 DEF WaitEmpty
  <1>9. ASSUME NEW c \in Consumers, TestEmpty(c) PROVE RingTypeOK'
    <2>1. CASE NothingLeft BY <1>9, <2>1 DEF TestEmpty, NothingLeft
    <2>2. CASE ~NothingLeft BY <1>9, <2>2 DEF TestEmpty, NothingLeft
    <2> QED BY <2>1, <2>2
  <1>10. ASSUME NEW c \in Consumers, Take(c) PROVE RingTypeOK'
    <2>1. content # <<>> /\ NextIndex(head) \in Index BY <1>10, SlotFacts DEF Take, Inside
    <2>2. Tail(content) \in Seq(Items) BY <2>1
    <2> QED BY <1>10, <2>1, <2>2 DEF Take
  <1>11. ASSUME NEW c \in Consumers, PostFull(c) PROVE RingTypeOK' BY <1>11 DEF PostFull
  <1>12. ASSUME NEW s \in Stoppers, Stop(s) PROVE RingTypeOK' BY <1>12 DEF Stop
  <1>13. ASSUME NEW s \in Stoppers, SetStop(s) PROVE RingTypeOK' BY <1>13 DEF SetStop
  <1>14. ASSUME NEW s \in Stoppers, ReleaseConsumer(s) PROVE RingTypeOK'
    <2>1. posts[s] - 1 \in Nat BY <1>14 DEF ReleaseConsumer
    <2> QED BY <1>14, <2>1 DEF ReleaseConsumer
  <1>15. ASSUME NEW s \in Stoppers, ReleaseProducer(s) PROVE RingTypeOK'
    BY <1>15 DEF ReleaseProducer
  <1>16. ASSUME NEW s \in Stoppers, StopEnds(s) PROVE RingTypeOK' BY <1>16 DEF StopEnds
  <1>17. ASSUME NEW t \in Threads, Resume(t) PROVE RingTypeOK' BY <1>17 DEF Resume
  <1> HIDE DEF RingTypeOK
  <1> QED
    BY <1>1, <1>2, <1>3, <1>4, <1>5, <1>6, <1>7, <1>8, <1>9, <1>10, <1>11, <1>12, <1>13,
       <1>14, <1>15, <1>16, <1>17, Cases

LEMMA StepControl ==
  ASSUME RingTypeOK, Control, Owners, Geometry, Inside, [RingNext]_ringVars
  PROVE  (Control /\ Owners)'
  <1> USE Kinds DEF RingTypeOK, slots, sems, mutexes, history, At, Goto,
                    Control, Owners, Putting, Taking, Stopping
  <1>1. CASE UNCHANGED ringVars BY <1>1 DEF ringVars
  <1>2. ASSUME NEW p \in Producers, NEW x \in Items, Emplace(p, x) PROVE (Control /\ Owners)'
    BY <1>2 DEF Emplace
  <1>3. ASSUME NEW p \in Producers, WaitFull(p) PROVE (Control /\ Owners)' BY <1>3 DEF WaitFull
  <1>4. ASSUME NEW p \in Producers, TestStop(p) PROVE (Control /\ Owners)'
    <2>1. CASE stop BY <1>4, <2>1 DEF TestStop
    <2>2. CASE ~stop
      <3>1. Control' BY <1>4, <2>2 DEF TestStop
      <3>2. Owners' BY <1>4, <2>2 DEF TestStop, ProducersFree
      <3> QED BY <3>1, <3>2
    <2> QED BY <2>1, <2>2
  <1>5. ASSUME NEW p \in Producers, Store(p) PROVE (Control /\ Owners)' BY <1>5 DEF Store
  <1>6. ASSUME NEW p \in Producers, PostEmpty(p) PROVE (Control /\ Owners)' BY <1>6 DEF PostEmpty
  <1>7. ASSUME NEW c \in Consumers, Pop(c) PROVE (Control /\ Owners)' BY <1>7 DEF Pop
  <1>8. ASSUME NEW c \in Consumers, WaitEmpty(c) PROVE (Control /\ Owners)' BY <1>8 DEF WaitEmpty
  <1>9. ASSUME NEW c \in Consumers, TestEmpty(c) PROVE (Control /\ Owners)'
    <2>1. CASE NothingLeft BY <1>9, <2>1 DEF TestEmpty, NothingLeft
    <2>2. CASE ~NothingLeft BY <1>9, <2>2 DEF TestEmpty, NothingLeft
    <2> QED BY <2>1, <2>2
  <1>10. ASSUME NEW c \in Consumers, Take(c) PROVE (Control /\ Owners)' BY <1>10 DEF Take
  <1>11. ASSUME NEW c \in Consumers, PostFull(c) PROVE (Control /\ Owners)' BY <1>11 DEF PostFull
  <1>12. ASSUME NEW s \in Stoppers, Stop(s) PROVE (Control /\ Owners)' BY <1>12 DEF Stop
  <1>13. ASSUME NEW s \in Stoppers, SetStop(s) PROVE (Control /\ Owners)' BY <1>13 DEF SetStop
  <1>14. ASSUME NEW s \in Stoppers, ReleaseConsumer(s) PROVE (Control /\ Owners)'
    BY <1>14 DEF ReleaseConsumer
  <1>15. ASSUME NEW s \in Stoppers, ReleaseProducer(s) PROVE (Control /\ Owners)'
    BY <1>15 DEF ReleaseProducer
  <1>16. ASSUME NEW s \in Stoppers, StopEnds(s) PROVE (Control /\ Owners)' BY <1>16 DEF StopEnds
  <1>17. ASSUME NEW t \in Threads, Resume(t) PROVE (Control /\ Owners)' BY <1>17 DEF Resume
  <1> HIDE DEF Control, Owners
  <1> QED
    BY <1>1, <1>2, <1>3, <1>4, <1>5, <1>6, <1>7, <1>8, <1>9, <1>10, <1>11, <1>12, <1>13,
       <1>14, <1>15, <1>16, <1>17, Cases

LEMMA StepGeometry ==
  ASSUME RingTypeOK, Control, Geometry, Inside, [RingNext]_ringVars PROVE Geometry'
  <1> USE DEF slots, history
  <1>1. CASE UNCHANGED ringVars BY <1>1 DEF ringVars, Geometry, Slot
  <1>2. ASSUME NEW p \in Producers, NEW x \in Items, Emplace(p, x) PROVE Geometry'
    BY <1>2 DEF Emplace, Geometry, Slot
  <1>3. ASSUME NEW p \in Producers, WaitFull(p) PROVE Geometry'
    BY <1>3 DEF WaitFull, Geometry, Slot
  <1>4. ASSUME NEW p \in Producers, TestStop(p) PROVE Geometry'
    BY <1>4 DEF TestStop, Geometry, Slot
  <1>5. ASSUME NEW p \in Producers, Store(p) PROVE Geometry'
    <2>1. /\ item[p] \in Items /\ Len(content) \in Nat /\ Len(content) < Size
          /\ tail = Slot(head, Len(content)) /\ tail \in Index /\ head \in Index
          /\ content' = Append(content, item[p]) /\ head' = head
          /\ tail' = NextIndex(tail) /\ Tasks' = [Tasks EXCEPT ![tail] = item[p]]
          /\ Tasks \in [Index -> Items \cup {None}] /\ content \in Seq(Items)
      BY <1>5 DEF Store, Inside, Control, Geometry, RingTypeOK, At
    <2>2. Len(content') = Len(content) + 1 /\ Len(content') <= Size BY <2>1, SizeFact
    <2>3. tail' = Slot(head', Len(content')) BY <2>1, <2>2, SlotFacts, SizeFact
    <2>4. ASSUME NEW k \in 0..(Size - 1), k # Len(content)
          PROVE  Tasks'[Slot(head', k)] = Tasks[Slot(head, k)]
      <3>1. Slot(head, k) \in Index /\ Slot(head, k) # tail BY <2>1, <2>4, SlotFacts, SizeFact
      <3> QED BY <2>1, <3>1
    <2>5. ASSUME NEW i \in 1..Len(content') PROVE Tasks'[Slot(head', i - 1)] = content'[i]
      <3>1. CASE i = Len(content) + 1 BY <2>1, <2>2, <3>1
      <3>2. CASE i # Len(content) + 1
        <4>1. i \in 1..Len(content) /\ i - 1 \in 0..(Size - 1) /\ i - 1 # Len(content)
          BY <2>1, <2>2, <2>5, <3>2, SizeFact
        <4>2. content'[i] = content[i] BY <2>1, <4>1
        <4>3. Tasks'[Slot(head', i - 1)] = Tasks[Slot(head, i - 1)] BY <2>4, <4>1
        <4> QED BY <4>1, <4>2, <4>3 DEF Geometry
      <3> QED BY <3>1, <3>2
    <2>6. ASSUME NEW k \in Len(content')..(Size - 1) PROVE Tasks'[Slot(head', k)] = None
      <3>1. k \in 0..(Size - 1) /\ k \in Len(content)..(Size - 1) /\ k # Len(content)
        BY <2>1, <2>2, <2>6, SizeFact
      <3> QED BY <3>1, <2>4 DEF Geometry
    <2> QED BY <2>2, <2>3, <2>5, <2>6 DEF Geometry
  <1>6. ASSUME NEW p \in Producers, PostEmpty(p) PROVE Geometry'
    BY <1>6 DEF PostEmpty, Geometry, Slot
  <1>7. ASSUME NEW c \in Consumers, Pop(c) PROVE Geometry' BY <1>7 DEF Pop, Geometry, Slot
  <1>8. ASSUME NEW c \in Consumers, WaitEmpty(c) PROVE Geometry'
    BY <1>8 DEF WaitEmpty, Geometry, Slot
  <1>9. ASSUME NEW c \in Consumers, TestEmpty(c) PROVE Geometry'
    BY <1>9 DEF TestEmpty, Geometry, Slot
  <1>10. ASSUME NEW c \in Consumers, Take(c) PROVE Geometry'
    <2>1. /\ content \in Seq(Items) /\ Len(content) \in Nat
          /\ Len(content) > 0 /\ Len(content) <= Size
          /\ tail = Slot(head, Len(content)) /\ head \in Index
          /\ content' = Tail(content) /\ tail' = tail
          /\ head' = NextIndex(head) /\ Tasks' = [Tasks EXCEPT ![head] = None]
          /\ Tasks \in [Index -> Items \cup {None}]
      BY <1>10 DEF Take, Inside, Geometry, RingTypeOK, At
    <2>2. Len(content') = Len(content) - 1 BY <2>1
    <2>3. \A k \in 0..(Size - 1) : Slot(head', k) = Slot(head, k + 1) BY <2>1, SlotFacts
    <2>4. tail' = Slot(head', Len(content'))
      <3>1. Len(content) - 1 \in 0..(Size - 1) BY <2>1, SizeFact
      <3> QED BY <2>1, <2>2, <2>3, <3>1
    <2>5. ASSUME NEW k \in 1..(Size - 1) PROVE Tasks'[Slot(head, k)] = Tasks[Slot(head, k)]
      <3>1. Slot(head, k) \in Index /\ Slot(head, k) # head
        <4>1. k \in 0..(Size - 1) /\ 0 \in 0..(Size - 1) /\ k # 0 BY SizeFact
        <4> QED BY <4>1, <2>1, SlotFacts
      <3> QED BY <2>1, <3>1
    <2>6. ASSUME NEW i \in 1..Len(content') PROVE Tasks'[Slot(head', i - 1)] = content'[i]
      <3>1. i \in 1..(Size - 1) /\ i - 1 \in 0..(Size - 1) /\ i + 1 \in 1..Len(content)
            /\ (i - 1) + 1 = i /\ (i + 1) - 1 = i
        BY <2>1, <2>2, <2>6, SizeFact
      <3>2. Tasks'[Slot(head', i - 1)] = Tasks[Slot(head, i)] BY <2>3, <2>5, <3>1
      <3>3. Tasks[Slot(head, i)] = content[i + 1] BY <3>1 DEF Geometry
      <3>4. content'[i] = content[i + 1] BY <2>1, <2>2
      <3> QED BY <3>2, <3>3, <3>4
    <2>7. ASSUME NEW k \in Len(content')..(Size - 1) PROVE Tasks'[Slot(head', k)] = None
      <3>1. k \in 0..(Size - 1) /\ k + 1 \in Len(content)..Size BY <2>1, <2>2, <2>7, SizeFact
      <3>2. CASE k + 1 = Size BY <2>1, <2>3, <3>1, <3>2, SlotFacts
      <3>3. CASE k + 1 # Size
        <4>1. k + 1 \in 1..(Size - 1) /\ k + 1 \in Len(content)..(Size - 1)
          BY <2>1, <3>1, <3>3, SizeFact
        <4> QED BY <2>3, <2>5, <3>1, <4>1 DEF Geometry
      <3> QED BY <3>2, <3>3
    <2>8. Len(content') <= Size BY <2>1, <2>2, SizeFact
    <2> QED BY <2>4, <2>6, <2>7, <2>8 DEF Geometry
  <1>11. ASSUME NEW c \in Consumers, PostFull(c) PROVE Geometry'
    BY <1>11 DEF PostFull, Geometry, Slot
  <1>12. ASSUME NEW s \in Stoppers, Stop(s) PROVE Geometry' BY <1>12 DEF Stop, Geometry, Slot
  <1>13. ASSUME NEW s \in Stoppers, SetStop(s) PROVE Geometry'
    BY <1>13 DEF SetStop, Geometry, Slot
  <1>14. ASSUME NEW s \in Stoppers, ReleaseConsumer(s) PROVE Geometry'
    BY <1>14 DEF ReleaseConsumer, Geometry, Slot
  <1>15. ASSUME NEW s \in Stoppers, ReleaseProducer(s) PROVE Geometry'
    BY <1>15 DEF ReleaseProducer, Geometry, Slot
  <1>16. ASSUME NEW s \in Stoppers, StopEnds(s) PROVE Geometry'
    BY <1>16 DEF StopEnds, Geometry, Slot
  <1>17. ASSUME NEW t \in Threads, Resume(t) PROVE Geometry' BY <1>17 DEF Resume, Geometry, Slot
  <1> QED
    BY <1>1, <1>2, <1>3, <1>4, <1>5, <1>6, <1>7, <1>8, <1>9, <1>10, <1>11, <1>12, <1>13,
       <1>14, <1>15, <1>16, <1>17, Cases

LEMMA CountsNat ==
  ASSUME RingTypeOK
  PROVE  /\ Promised \in Nat /\ Returning \in Nat /\ Reposting \in Nat
         /\ Granted \in Nat /\ Announcing \in Nat
  <1>1. /\ Producers \in SUBSET Threads /\ Consumers \in SUBSET Threads
        /\ Stoppers \in SUBSET Threads
    BY Kinds
  <1>2. Promised \in Nat BY <1>1, CountNat DEF Promised
  <1>3. Returning \in Nat BY <1>1, CountNat DEF Returning
  <1>4. Reposting \in Nat BY <1>1, CountNat DEF Reposting
  <1>5. Granted \in Nat BY <1>1, CountNat DEF Granted
  <1>6. Announcing \in Nat BY <1>1, CountNat DEF Announcing
  <1> QED BY <1>2, <1>3, <1>4, <1>5, <1>6

LEMMA CountsMove ==
  ASSUME RingTypeOK, NEW t, NEW l, Moves(t, l)
  PROVE  /\ Promised' = After(Promised, t, l, Producers, {"put_lock", "put_write"})
         /\ Returning' = After(Returning, t, l, Consumers, {"take_post"})
         /\ Reposting' = After(Reposting, t, l, Stoppers, {"stop_full"})
         /\ Granted' = After(Granted, t, l, Consumers, {"take_lock", "take_read"})
         /\ Announcing' = After(Announcing, t, l, Producers, {"put_post"})
  <1>1. /\ Producers \in SUBSET Threads /\ Consumers \in SUBSET Threads
        /\ Stoppers \in SUBSET Threads
    BY Kinds
  <1>2. Promised' = After(Promised, t, l, Producers, {"put_lock", "put_write"})
    BY <1>1, CountMove DEF Promised
  <1>3. Returning' = After(Returning, t, l, Consumers, {"take_post"})
    BY <1>1, CountMove DEF Returning
  <1>4. Reposting' = After(Reposting, t, l, Stoppers, {"stop_full"})
    BY <1>1, CountMove DEF Reposting
  <1>5. Granted' = After(Granted, t, l, Consumers, {"take_lock", "take_read"})
    BY <1>1, CountMove DEF Granted
  <1>6. Announcing' = After(Announcing, t, l, Producers, {"put_post"})
    BY <1>1, CountMove DEF Announcing
  <1> QED BY <1>2, <1>3, <1>4, <1>5, <1>6

LEMMA StepCounting ==
  ASSUME RingTypeOK, RingTypeOK', Control, Inside, Counting, [RingNext]_ringVars PROVE Counting'
  <1> USE SizeFact DEF slots, sems, mutexes, history
  <1>1. CASE UNCHANGED ringVars
    BY <1>1 DEF ringVars, Counting, Promised, Returning, Reposting, Granted, Announcing, Count
  <1>2. ASSUME NEW p \in Producers, NEW x \in Items, Emplace(p, x) PROVE Counting'
    <2>1. Moves(p, "put_wait") /\ pc[p] = "idle"
      BY <1>2, Kinds DEF Emplace, At, Goto, Moves
    <2>2. /\ Promised' = Promised /\ Returning' = Returning /\ Reposting' = Reposting
          /\ Granted' = Granted /\ Announcing' = Announcing
      BY <2>1, CountsMove, Kinds DEF After
    <2>4. Promised' \in Int /\ Returning' \in Int /\ Reposting' \in Int
          /\ Granted' \in Int /\ Announcing' \in Int
      BY <2>2, CountsNat
    <2> QED BY <1>2, <2>2, <2>4, CountsNat DEF Emplace, Counting, RingTypeOK
  <1>3. ASSUME NEW p \in Producers, WaitFull(p) PROVE Counting'
    <2>1. Moves(p, "put_lock") /\ pc[p] = "put_wait"
      BY <1>3, Kinds DEF WaitFull, At, Goto, Moves
    <2>2. /\ Promised' = Promised + 1 /\ Returning' = Returning /\ Reposting' = Reposting
          /\ Granted' = Granted /\ Announcing' = Announcing
      BY <2>1, CountsMove, Kinds DEF After
    <2>4. Promised' \in Int /\ Returning' \in Int /\ Reposting' \in Int
          /\ Granted' \in Int /\ Announcing' \in Int
      BY <2>2, CountsNat
    <2>5. /\ full' = full - 1 /\ empty' = empty /\ Len(content') = Len(content)
          /\ posted' = posted /\ stop' = stop
      BY <1>3 DEF WaitFull, RingTypeOK
    <2>6. /\ full \in Nat /\ empty \in Nat /\ Len(content) \in Nat /\ posted \in Nat
          /\ stop \in BOOLEAN /\ Len(content') \in Nat
      BY DEF RingTypeOK
    <2> QED BY <2>5, <2>6, <2>2, <2>4, CountsNat DEF Counting
  <1>4. ASSUME NEW p \in Producers, TestStop(p) PROVE Counting'
    <2>1. CASE stop
      <3>1. Moves(p, "false") /\ pc[p] = "put_lock"
        BY <1>4, <2>1, Kinds DEF TestStop, At, Goto, Moves
      <3>2. /\ Promised' = Promised - 1 /\ Returning' = Returning /\ Reposting' = Reposting
            /\ Granted' = Granted /\ Announcing' = Announcing
        BY <3>1, CountsMove, Kinds DEF After
      <3>4. Promised' \in Int /\ Returning' \in Int /\ Reposting' \in Int
            /\ Granted' \in Int /\ Announcing' \in Int
        BY <3>2, CountsNat
      <3>5. /\ full' = full + 1 /\ empty' = empty /\ Len(content') = Len(content)
            /\ posted' = posted /\ stop' = stop
        BY <1>4, <2>1 DEF TestStop, RingTypeOK
      <3>6. /\ full \in Nat /\ empty \in Nat /\ Len(content) \in Nat /\ posted \in Nat
            /\ stop \in BOOLEAN /\ Len(content') \in Nat
        BY DEF RingTypeOK
      <3> QED BY <3>5, <3>6, <3>2, <3>4, CountsNat DEF Counting
    <2>2. CASE ~stop
      <3>1. Moves(p, "put_write") /\ pc[p] = "put_lock"
        BY <1>4, <2>2, Kinds DEF TestStop, At, Goto, Moves
      <3>2. /\ Promised' = Promised /\ Returning' = Returning /\ Reposting' = Reposting
            /\ Granted' = Granted /\ Announcing' = Announcing
        BY <3>1, CountsMove, Kinds DEF After
      <3>4. Promised' \in Int /\ Returning' \in Int /\ Reposting' \in Int
            /\ Granted' \in Int /\ Announcing' \in Int
        BY <3>2, CountsNat
      <3> QED BY <1>4, <2>2, <3>2, <3>4, CountsNat DEF TestStop, Counting, RingTypeOK
    <2> QED BY <2>1, <2>2
  <1>5. ASSUME NEW p \in Producers, Store(p) PROVE Counting'
    <2>1. Moves(p, "put_post") /\ pc[p] = "put_write"
      BY <1>5, Kinds DEF Store, At, Goto, Moves
    <2>2. /\ Promised' = Promised - 1 /\ Returning' = Returning /\ Reposting' = Reposting
          /\ Granted' = Granted /\ Announcing' = Announcing + 1
      BY <2>1, CountsMove, Kinds DEF After
    <2>4. Promised' \in Int /\ Returning' \in Int /\ Reposting' \in Int
          /\ Granted' \in Int /\ Announcing' \in Int
      BY <2>2, CountsNat
    <2>5. /\ full' = full /\ empty' = empty /\ Len(content') = Len(content) + 1
          /\ posted' = posted /\ stop' = stop
      BY <1>5 DEF Store, RingTypeOK, Inside, At
    <2>6. /\ full \in Nat /\ empty \in Nat /\ Len(content) \in Nat /\ posted \in Nat
          /\ stop \in BOOLEAN /\ Len(content') \in Nat
      BY DEF RingTypeOK
    <2>7. /\ Promised \in Int /\ Returning \in Int /\ Reposting \in Int
          /\ Granted \in Int /\ Announcing \in Int /\ Size \in Int
      BY CountsNat
    <2>8. /\ full' + Promised' + Len(content') + Returning' + Reposting' = Size + posted
          /\ empty' + Granted' + Announcing' = Len(content') + posted
      BY <2>2, <2>5, <2>6, <2>7 DEF Counting
    <2> QED BY <2>5, <2>8, <2>2, <2>4, CountsNat DEF Counting
  <1>6. ASSUME NEW p \in Producers, PostEmpty(p) PROVE Counting'
    <2>1. Moves(p, "true") /\ pc[p] = "put_post"
      BY <1>6, Kinds DEF PostEmpty, At, Goto, Moves
    <2>2. /\ Promised' = Promised /\ Returning' = Returning /\ Reposting' = Reposting
          /\ Granted' = Granted /\ Announcing' = Announcing - 1
      BY <2>1, CountsMove, Kinds DEF After
    <2>4. Promised' \in Int /\ Returning' \in Int /\ Reposting' \in Int
          /\ Granted' \in Int /\ Announcing' \in Int
      BY <2>2, CountsNat
    <2> QED BY <1>6, <2>2, <2>4, CountsNat DEF PostEmpty, Counting, RingTypeOK
  <1>7. ASSUME NEW c \in Consumers, Pop(c) PROVE Counting'
    <2>1. Moves(c, "take_wait") /\ pc[c] = "idle"
      BY <1>7, Kinds DEF Pop, At, Goto, Moves
    <2>2. /\ Promised' = Promised /\ Returning' = Returning /\ Reposting' = Reposting
          /\ Granted' = Granted /\ Announcing' = Announcing
      BY <2>1, CountsMove, Kinds DEF After
    <2>4. Promised' \in Int /\ Returning' \in Int /\ Reposting' \in Int
          /\ Granted' \in Int /\ Announcing' \in Int
      BY <2>2, CountsNat
    <2> QED BY <1>7, <2>2, <2>4, CountsNat DEF Pop, Counting, RingTypeOK
  <1>8. ASSUME NEW c \in Consumers, WaitEmpty(c) PROVE Counting'
    <2>1. Moves(c, "take_lock") /\ pc[c] = "take_wait"
      BY <1>8, Kinds DEF WaitEmpty, At, Goto, Moves
    <2>2. /\ Promised' = Promised /\ Returning' = Returning /\ Reposting' = Reposting
          /\ Granted' = Granted + 1 /\ Announcing' = Announcing
      BY <2>1, CountsMove, Kinds DEF After
    <2>4. Promised' \in Int /\ Returning' \in Int /\ Reposting' \in Int
          /\ Granted' \in Int /\ Announcing' \in Int
      BY <2>2, CountsNat
    <2> QED BY <1>8, <2>2, <2>4, CountsNat DEF WaitEmpty, Counting, RingTypeOK
  <1>9. ASSUME NEW c \in Consumers, TestEmpty(c) PROVE Counting'
    <2>1. CASE NothingLeft
      <3>1. Moves(c, "false") /\ pc[c] = "take_lock"
        BY <1>9, <2>1, Kinds DEF TestEmpty, At, Goto, Moves, NothingLeft
      <3>2. /\ Promised' = Promised /\ Returning' = Returning /\ Reposting' = Reposting
            /\ Granted' = Granted - 1 /\ Announcing' = Announcing
        BY <3>1, CountsMove, Kinds DEF After
      <3>4. Promised' \in Int /\ Returning' \in Int /\ Reposting' \in Int
            /\ Granted' \in Int /\ Announcing' \in Int
        BY <3>2, CountsNat
      <3>5. /\ full' = full /\ empty' = empty + 1 /\ Len(content') = Len(content)
            /\ posted' = posted /\ stop' = stop
        BY <1>9, <2>1 DEF TestEmpty, RingTypeOK, NothingLeft
      <3>6. /\ full \in Nat /\ empty \in Nat /\ Len(content) \in Nat /\ posted \in Nat
            /\ stop \in BOOLEAN /\ Len(content') \in Nat
        BY DEF RingTypeOK
      <3> QED BY <3>5, <3>6, <3>2, <3>4, CountsNat DEF Counting
    <2>2. CASE ~NothingLeft
      <3>1. Moves(c, "take_read") /\ pc[c] = "take_lock"
        BY <1>9, <2>2, Kinds DEF TestEmpty, At, Goto, Moves, NothingLeft
      <3>2. /\ Promised' = Promised /\ Returning' = Returning /\ Reposting' = Reposting
            /\ Granted' = Granted /\ Announcing' = Announcing
        BY <3>1, CountsMove, Kinds DEF After
      <3>4. Promised' \in Int /\ Returning' \in Int /\ Reposting' \in Int
            /\ Granted' \in Int /\ Announcing' \in Int
        BY <3>2, CountsNat
      <3> QED BY <1>9, <2>2, <3>2, <3>4, CountsNat DEF TestEmpty, Counting, RingTypeOK, NothingLeft
    <2> QED BY <2>1, <2>2
  <1>10. ASSUME NEW c \in Consumers, Take(c) PROVE Counting'
    <2>1. Moves(c, "take_post") /\ pc[c] = "take_read"
      BY <1>10, Kinds DEF Take, At, Goto, Moves
    <2>2. /\ Promised' = Promised /\ Returning' = Returning + 1 /\ Reposting' = Reposting
          /\ Granted' = Granted - 1 /\ Announcing' = Announcing
      BY <2>1, CountsMove, Kinds DEF After
    <2>4. Promised' \in Int /\ Returning' \in Int /\ Reposting' \in Int
          /\ Granted' \in Int /\ Announcing' \in Int
      BY <2>2, CountsNat
    <2>5. /\ full' = full /\ empty' = empty /\ Len(content') = Len(content) - 1
          /\ posted' = posted /\ stop' = stop
      BY <1>10 DEF Take, RingTypeOK, Inside, At
    <2>6. /\ full \in Nat /\ empty \in Nat /\ Len(content) \in Nat /\ posted \in Nat
          /\ stop \in BOOLEAN /\ Len(content') \in Nat
      BY DEF RingTypeOK
    <2>7. /\ Promised \in Int /\ Returning \in Int /\ Reposting \in Int
          /\ Granted \in Int /\ Announcing \in Int /\ Size \in Int
      BY CountsNat
    <2>8. /\ full' + Promised' + Len(content') + Returning' + Reposting' = Size + posted
          /\ empty' + Granted' + Announcing' = Len(content') + posted
      BY <2>2, <2>5, <2>6, <2>7 DEF Counting
    <2> QED BY <2>5, <2>8, <2>2, <2>4, CountsNat DEF Counting
  <1>11. ASSUME NEW c \in Consumers, PostFull(c) PROVE Counting'
    <2>1. Moves(c, "true") /\ pc[c] = "take_post"
      BY <1>11, Kinds DEF PostFull, At, Goto, Moves
    <2>2. /\ Promised' = Promised /\ Returning' = Returning - 1 /\ Reposting' = Reposting
          /\ Granted' = Granted /\ Announcing' = Announcing
      BY <2>1, CountsMove, Kinds DEF After
    <2>4. Promised' \in Int /\ Returning' \in Int /\ Reposting' \in Int
          /\ Granted' \in Int /\ Announcing' \in Int
      BY <2>2, CountsNat
    <2> QED BY <1>11, <2>2, <2>4, CountsNat DEF PostFull, Counting, RingTypeOK
  <1>12. ASSUME NEW s \in Stoppers, Stop(s) PROVE Counting'
    <2>1. Moves(s, "stop_con") /\ pc[s] = "idle"
      BY <1>12, Kinds DEF Stop, At, Goto, Moves
    <2>2. /\ Promised' = Promised /\ Returning' = Returning /\ Reposting' = Reposting
          /\ Granted' = Granted /\ Announcing' = Announcing
      BY <2>1, CountsMove, Kinds DEF After
    <2>4. Promised' \in Int /\ Returning' \in Int /\ Reposting' \in Int
          /\ Granted' \in Int /\ Announcing' \in Int
      BY <2>2, CountsNat
    <2> QED BY <1>12, <2>2, <2>4, CountsNat DEF Stop, Counting, RingTypeOK
  <1>13. ASSUME NEW s \in Stoppers, SetStop(s) PROVE Counting'
    <2>1. Moves(s, "stop_post") /\ pc[s] = "stop_con"
      BY <1>13, Kinds DEF SetStop, At, Goto, Moves
    <2>2. /\ Promised' = Promised /\ Returning' = Returning /\ Reposting' = Reposting
          /\ Granted' = Granted /\ Announcing' = Announcing
      BY <2>1, CountsMove, Kinds DEF After
    <2>4. Promised' \in Int /\ Returning' \in Int /\ Reposting' \in Int
          /\ Granted' \in Int /\ Announcing' \in Int
      BY <2>2, CountsNat
    <2> QED BY <1>13, <2>2, <2>4, CountsNat DEF SetStop, Counting, RingTypeOK
  <1>14. ASSUME NEW s \in Stoppers, ReleaseConsumer(s) PROVE Counting'
    <2>1. Moves(s, "stop_full") /\ pc[s] = "stop_post"
      BY <1>14, Kinds DEF ReleaseConsumer, At, Goto, Moves
    <2>2. /\ Promised' = Promised /\ Returning' = Returning /\ Reposting' = Reposting + 1
          /\ Granted' = Granted /\ Announcing' = Announcing
      BY <2>1, CountsMove, Kinds DEF After
    <2>4. Promised' \in Int /\ Returning' \in Int /\ Reposting' \in Int
          /\ Granted' \in Int /\ Announcing' \in Int
      BY <2>2, CountsNat
    <2>3. stop BY <1>14 DEF ReleaseConsumer, Control, At
    <2> QED BY <1>14, <2>2, <2>4, CountsNat, <2>3 DEF ReleaseConsumer, Counting, RingTypeOK
  <1>15. ASSUME NEW s \in Stoppers, ReleaseProducer(s) PROVE Counting'
    <2>1. Moves(s, "stop_post") /\ pc[s] = "stop_full"
      BY <1>15, Kinds DEF ReleaseProducer, At, Goto, Moves
    <2>2. /\ Promised' = Promised /\ Returning' = Returning /\ Reposting' = Reposting - 1
          /\ Granted' = Granted /\ Announcing' = Announcing
      BY <2>1, CountsMove, Kinds DEF After
    <2>4. Promised' \in Int /\ Returning' \in Int /\ Reposting' \in Int
          /\ Granted' \in Int /\ Announcing' \in Int
      BY <2>2, CountsNat
    <2> QED BY <1>15, <2>2, <2>4, CountsNat DEF ReleaseProducer, Counting, RingTypeOK
  <1>16. ASSUME NEW s \in Stoppers, StopEnds(s) PROVE Counting'
    <2>1. Moves(s, "true") /\ pc[s] = "stop_post"
      BY <1>16, Kinds DEF StopEnds, At, Goto, Moves
    <2>2. /\ Promised' = Promised /\ Returning' = Returning /\ Reposting' = Reposting
          /\ Granted' = Granted /\ Announcing' = Announcing
      BY <2>1, CountsMove, Kinds DEF After
    <2>4. Promised' \in Int /\ Returning' \in Int /\ Reposting' \in Int
          /\ Granted' \in Int /\ Announcing' \in Int
      BY <2>2, CountsNat
    <2> QED BY <1>16, <2>2, <2>4, CountsNat DEF StopEnds, Counting, RingTypeOK
  <1>17. ASSUME NEW t \in Threads, Resume(t) PROVE Counting'
    <2>1. Moves(t, "idle") /\ pc[t] \in {"true", "false"}
      BY <1>17, Kinds DEF Resume, At, Goto, Moves
    <2>2. /\ Promised' = Promised /\ Returning' = Returning /\ Reposting' = Reposting
          /\ Granted' = Granted /\ Announcing' = Announcing
      BY <2>1, CountsMove, Kinds DEF After
    <2>4. Promised' \in Int /\ Returning' \in Int /\ Reposting' \in Int
          /\ Granted' \in Int /\ Announcing' \in Int
      BY <2>2, CountsNat
    <2> QED BY <1>17, <2>2, <2>4, CountsNat DEF Resume, Counting, RingTypeOK
  <1> QED
    BY <1>1, <1>2, <1>3, <1>4, <1>5, <1>6, <1>7, <1>8, <1>9, <1>10, <1>11, <1>12, <1>13,
       <1>14, <1>15, <1>16, <1>17, Cases

LEMMA StepInside ==
  ASSUME RingTypeOK, Control, Owners, Geometry, Counting, Inside, [RingNext]_ringVars
  PROVE  Inside'
  <1> USE Kinds, SizeFact DEF RingTypeOK, slots, sems, mutexes, history, At, Goto, Inside
  <1>1. CASE UNCHANGED ringVars BY <1>1 DEF ringVars
  <1>2. ASSUME NEW p \in Producers, NEW x \in Items, Emplace(p, x) PROVE Inside'
    BY <1>2 DEF Emplace
  <1>3. ASSUME NEW p \in Producers, WaitFull(p) PROVE Inside' BY <1>3 DEF WaitFull
  <1>4. ASSUME NEW p \in Producers, TestStop(p) PROVE Inside'
    <2>1. CASE stop BY <1>4, <2>1 DEF TestStop
    <2>2. CASE ~stop
      <3>1. posted = 0 BY <2>2 DEF Counting, RingTypeOK
      <3>2. Promised > 0 /\ Promised \in Int
        <4>1. Producers \in SUBSET Threads /\ pc[p] \in {"put_lock", "put_write"}
          BY <1>4, Kinds DEF TestStop, At
        <4> QED BY <4>1, CountPositive DEF Promised
      <3>3. Returning \in Int /\ Reposting \in Int /\ Returning >= 0 /\ Reposting >= 0
            /\ full \in Int /\ full >= 0 /\ Len(content) \in Int
        BY CountsNat DEF RingTypeOK
      <3>4. full + Promised + Len(content) + Returning + Reposting = Size BY <3>1 DEF Counting
      <3>5. Len(content) < Size BY <3>2, <3>3, <3>4
      <3> QED BY <1>4, <2>2, <3>5 DEF TestStop
    <2> QED BY <2>1, <2>2 DEF RingTypeOK
  <1>5. ASSUME NEW p \in Producers, Store(p) PROVE Inside'
    <2>1. pro_mutex = p /\ (\A q \in Producers : pc[q] = "put_write" => pro_mutex = q)
      BY <1>5 DEF Store, Owners
    <2>2. Len(content') = Len(content) + 1 /\ Len(content) \in Nat
      BY <1>5 DEF Store, Control
    <2> QED BY <1>5, <2>1, <2>2 DEF Store
  <1>6. ASSUME NEW p \in Producers, PostEmpty(p) PROVE Inside' BY <1>6 DEF PostEmpty
  <1>7. ASSUME NEW c \in Consumers, Pop(c) PROVE Inside' BY <1>7 DEF Pop
  <1>8. ASSUME NEW c \in Consumers, WaitEmpty(c) PROVE Inside' BY <1>8 DEF WaitEmpty
  <1>9. ASSUME NEW c \in Consumers, TestEmpty(c) PROVE Inside'
    <2>1. CASE NothingLeft BY <1>9, <2>1 DEF TestEmpty, NothingLeft
    <2>2. CASE ~NothingLeft
      <3>1. Len(content) > 0
        <4>1. CASE stop
          <5>1. head # tail BY <2>2, <4>1 DEF NothingLeft, IsEmpty
          <5>2. Slot(head, 0) = head /\ tail = Slot(head, Len(content)) BY SlotFacts DEF Geometry
          <5>3. Len(content) # 0 /\ Len(content) \in Nat BY <5>1, <5>2
          <5> QED BY <5>3
        <4>2. CASE ~stop
          <5>1. posted = 0 BY <4>2 DEF Counting
          <5>2. Granted > 0 /\ Granted \in Int
            <6>1. Consumers \in SUBSET Threads /\ pc[c] \in {"take_lock", "take_read"}
              BY <1>9, Kinds DEF TestEmpty
            <6> QED BY <6>1, CountPositive DEF Granted
          <5>3. Announcing \in Int /\ Announcing >= 0 /\ empty \in Int /\ empty >= 0
                /\ Len(content) \in Int
            BY CountsNat
          <5>4. empty + Granted + Announcing = Len(content) BY <5>1, <5>3 DEF Counting
          <5> QED BY <5>2, <5>3, <5>4
        <4> QED BY <4>1, <4>2
      <3> QED BY <1>9, <2>2, <3>1 DEF TestEmpty, NothingLeft
    <2> QED BY <2>1, <2>2
  <1>10. ASSUME NEW c \in Consumers, Take(c) PROVE Inside'
    <2>1. con_mutex = c /\ (\A d \in Consumers : pc[d] = "take_read" => con_mutex = d)
      BY <1>10 DEF Take, Owners
    <2>2. Len(content') = Len(content) - 1 /\ Len(content) \in Nat /\ Len(content) > 0
      BY <1>10 DEF Take
    <2> QED BY <1>10, <2>1, <2>2 DEF Take
  <1>11. ASSUME NEW c \in Consumers, PostFull(c) PROVE Inside' BY <1>11 DEF PostFull
  <1>12. ASSUME NEW s \in Stoppers, Stop(s) PROVE Inside' BY <1>12 DEF Stop
  <1>13. ASSUME NEW s \in Stoppers, SetStop(s) PROVE Inside'
    <2>1. \A p \in Producers : pc[p] # "put_write"
      BY <1>13, Kinds DEF SetStop, Owners
    <2> QED BY <1>13, <2>1 DEF SetStop
  <1>14. ASSUME NEW s \in Stoppers, ReleaseConsumer(s) PROVE Inside' BY <1>14 DEF ReleaseConsumer
  <1>15. ASSUME NEW s \in Stoppers, ReleaseProducer(s) PROVE Inside' BY <1>15 DEF ReleaseProducer
  <1>16. ASSUME NEW s \in Stoppers, StopEnds(s) PROVE Inside' BY <1>16 DEF StopEnds
  <1>17. ASSUME NEW t \in Threads, Resume(t) PROVE Inside' BY <1>17 DEF Resume
  <1> HIDE DEF Inside
  <1> QED
    BY <1>1, <1>2, <1>3, <1>4, <1>5, <1>6, <1>7, <1>8, <1>9, <1>10, <1>11, <1>12, <1>13,
       <1>14, <1>15, <1>16, <1>17, Cases

-----------------------------------------------------------------------------
(* The theorems. *)

LEMMA InvInit == ASSUME RingInit PROVE Inv
  <1> USE Kinds, SizeFact DEF RingInit
  <1>1. RingTypeOK
    <2>1. Tasks \in [Index -> Items \cup {None}] /\ head \in Index /\ tail \in Index OBVIOUS
    <2>2. empty \in Nat /\ full \in Nat /\ stop \in BOOLEAN BY DEF InitialFull
    <2>3. /\ pc \in [Threads -> Steps] /\ item \in [Threads -> Items \cup {None}]
          /\ posts \in [Threads -> Nat]
      BY DEF Steps
    <2>4. content \in Seq(Items) /\ posted \in Nat OBVIOUS
    <2> QED BY <2>1, <2>2, <2>3, <2>4 DEF RingTypeOK
  <1>2. Control /\ Owners /\ Inside BY DEF Control, Owners, Inside, Putting, Taking, Stopping
  <1>3. Geometry
    <2>1. Len(content) = 0 /\ tail = Slot(head, 0) BY SlotFacts
    <2>2. \A k \in 0..(Size - 1) : Tasks[Slot(head, k)] = None BY SlotFacts
    <2> QED BY <2>1, <2>2 DEF Geometry
  <1>4. Counting
    <2>1. /\ Promised = 0 /\ Returning = 0 /\ Reposting = 0
          /\ Granted = 0 /\ Announcing = 0
      <3>1. ASSUME NEW S \in SUBSET Threads, NEW K, "idle" \notin K PROVE Count(S, K) = 0
        <4>1. {t \in S : pc[t] \in K} = {} BY <3>1
        <4> QED BY <4>1, FS_EmptySet DEF Count
      <3>2. /\ Producers \in SUBSET Threads /\ Consumers \in SUBSET Threads
            /\ Stoppers \in SUBSET Threads
        OBVIOUS
      <3> QED BY <3>1, <3>2 DEF Promised, Returning, Reposting, Granted, Announcing
    <2> QED BY <2>1 DEF Counting, InitialFull
  <1> QED BY <1>1, <1>2, <1>3, <1>4 DEF Inv

LEMMA InvStep == ASSUME Inv, [RingNext]_ringVars PROVE Inv'
  <1>1. RingTypeOK /\ Control /\ Owners /\ Geometry /\ Counting /\ Inside BY DEF Inv
  <1>2. RingTypeOK' BY <1>1, StepTyped
  <1>3. Control' /\ Owners' BY <1>1, StepControl
  <1>4. Geometry' BY <1>1, StepGeometry
  <1>5. Counting' BY <1>1, <1>2, StepCounting
  <1>6. Inside' BY <1>1, StepInside
  <1> QED BY <1>2, <1>3, <1>4, <1>5, <1>6 DEF Inv

\* The inductive invariant of the ring: where its items are and what its semaphores count.
THEOREM RingInvAlways == RingSpec => []Inv
  <1>1. RingInit => Inv BY InvInit
  <1>2. Inv /\ [RingNext]_ringVars => Inv' BY InvStep
  <1> QED BY <1>1, <1>2, PTL DEF RingSpec

LEMMA InvExclusive == ASSUME Inv PROVE SlotsExclusive /\ TailIsStable
  <1> USE Kinds, SizeFact DEF Inv, At
  <1>1. head \in Index /\ Len(content) \in Nat BY DEF RingTypeOK
  <1>2. ASSUME NEW p \in Producers, pc[p] = "put_write" PROVE Tasks[tail] = None /\ ~stop
    <2>1. Len(content) < Size /\ ~stop BY <1>2 DEF Inside
    <2> QED BY <1>1, <2>1 DEF Geometry
  <1>3. ASSUME NEW c \in Consumers, pc[c] = "take_read" PROVE Tasks[head] # None
    <2>1. 1 \in 1..Len(content) BY <1>1, <1>3 DEF Inside
    <2>2. Tasks[Slot(head, 1 - 1)] = content[1] BY <2>1 DEF Geometry
    <2>3. 1 - 1 = 0 /\ Slot(head, 0) = head BY <1>1, SlotFacts
    <2>4. content[1] \in Items BY <2>1 DEF RingTypeOK
    <2> QED BY <2>2, <2>3, <2>4
  <1> QED BY <1>2, <1>3 DEF SlotsExclusive, TailIsStable

\* A slot is never written and read at once, however many producers, consumers, slots and
\* callers of Stop there are.
THEOREM RingSlotsExclusive == RingSpec => []SlotsExclusive
  <1>1. Inv => SlotsExclusive BY InvExclusive
  <1> QED BY <1>1, RingInvAlways, PTL

\* Once Stop has set its flag no producer moves tail, which IsEmpty reads without its mutex.
THEOREM RingTailStable == RingSpec => []TailIsStable
  <1>1. Inv => TailIsStable BY InvExclusive
  <1> QED BY <1>1, RingInvAlways, PTL

LEMMA FIFOStep == ASSUME Inv, [RingNext]_ringVars PROVE [FIFO!Next]_FIFO!vars
  <1> USE Kinds, SizeFact DEF Inv, RingTypeOK, slots, sems, mutexes, history, At, Goto
  <1>1. CASE UNCHANGED ringVars BY <1>1 DEF ringVars, FIFO!vars
  <1>2. ASSUME NEW p \in Producers, NEW x \in Items, Emplace(p, x) PROVE [FIFO!Next]_FIFO!vars
    <2>1. \A d \in Consumers : item'[d] = item[d] BY <1>2 DEF Emplace
    <2> QED BY <1>2, <2>1 DEF Emplace, FIFO!vars
  <1>3. ASSUME NEW p \in Producers, WaitFull(p) PROVE [FIFO!Next]_FIFO!vars
    BY <1>3 DEF WaitFull, FIFO!vars
  <1>4. ASSUME NEW p \in Producers, TestStop(p) PROVE [FIFO!Next]_FIFO!vars
    BY <1>4 DEF TestStop, FIFO!vars
  <1>5. ASSUME NEW p \in Producers, Store(p) PROVE [FIFO!Next]_FIFO!vars
    <2>1. item[p] \in Items /\ ~stop /\ Len(content) < Size
      BY <1>5 DEF Store, Control, Inside
    <2>2. FIFO!Put(item[p])
      <3>1. \A c \in Consumers : item'[c] = item[c] BY <1>5 DEF Store
      <3> QED BY <1>5, <2>1, <3>1 DEF Store, FIFO!Put
    <2> QED BY <2>1, <2>2 DEF FIFO!Next
  <1>6. ASSUME NEW p \in Producers, PostEmpty(p) PROVE [FIFO!Next]_FIFO!vars
    BY <1>6 DEF PostEmpty, FIFO!vars
  <1>7. ASSUME NEW c \in Consumers, Pop(c) PROVE [FIFO!Next]_FIFO!vars BY <1>7 DEF Pop, FIFO!vars
  <1>8. ASSUME NEW c \in Consumers, WaitEmpty(c) PROVE [FIFO!Next]_FIFO!vars
    BY <1>8 DEF WaitEmpty, FIFO!vars
  <1>9. ASSUME NEW c \in Consumers, TestEmpty(c) PROVE [FIFO!Next]_FIFO!vars
    BY <1>9 DEF TestEmpty, FIFO!vars
  <1>10. ASSUME NEW c \in Consumers, Take(c) PROVE [FIFO!Next]_FIFO!vars
    <2>1. /\ content # <<>> /\ item[c] = None /\ Head(content) = content[1]
          /\ 1 \in 1..Len(content) /\ head \in Index
      BY <1>10 DEF Take, Inside, Control
    <2>2. Tasks[head] = content[1]
      <3>1. Tasks[Slot(head, 1 - 1)] = content[1] BY <2>1 DEF Geometry
      <3>2. 1 - 1 = 0 /\ Slot(head, 0) = head BY <2>1, SlotFacts
      <3> QED BY <3>1, <3>2
    <2>3. FIFO!Deliver(c)
      <3>1. \A d \in Consumers : item'[d] = IF d = c THEN Head(content) ELSE item[d]
        BY <1>10, <2>1, <2>2 DEF Take
      <3> QED BY <1>10, <2>1, <3>1 DEF Take, FIFO!Deliver
    <2> QED BY <2>3 DEF FIFO!Next
  <1>11. ASSUME NEW c \in Consumers, PostFull(c) PROVE [FIFO!Next]_FIFO!vars
    BY <1>11 DEF PostFull, FIFO!vars
  <1>12. ASSUME NEW s \in Stoppers, Stop(s) PROVE [FIFO!Next]_FIFO!vars
    BY <1>12 DEF Stop, FIFO!vars
  <1>13. ASSUME NEW s \in Stoppers, SetStop(s) PROVE [FIFO!Next]_FIFO!vars
    <2>1. FIFO!Close BY <1>13 DEF SetStop, FIFO!Close
    <2> QED BY <2>1 DEF FIFO!Next
  <1>14. ASSUME NEW s \in Stoppers, ReleaseConsumer(s) PROVE [FIFO!Next]_FIFO!vars
    BY <1>14 DEF ReleaseConsumer, FIFO!vars
  <1>15. ASSUME NEW s \in Stoppers, ReleaseProducer(s) PROVE [FIFO!Next]_FIFO!vars
    BY <1>15 DEF ReleaseProducer, FIFO!vars
  <1>16. ASSUME NEW s \in Stoppers, StopEnds(s) PROVE [FIFO!Next]_FIFO!vars
    BY <1>16 DEF StopEnds, FIFO!vars
  <1>17. ASSUME NEW t \in Threads, Resume(t) PROVE [FIFO!Next]_FIFO!vars
    <2>1. CASE t \in Consumers
      <3>1. \A d \in Consumers : item'[d] = IF d = t THEN None ELSE item[d] BY <1>17 DEF Resume
      <3>2. FIFO!PutAway(t) BY <1>17, <2>1, <3>1 DEF Resume, FIFO!PutAway
      <3> QED BY <2>1, <3>2 DEF FIFO!Next
    <2>2. CASE t \notin Consumers
      <3>1. \A d \in Consumers : item'[d] = item[d] BY <1>17, <2>2 DEF Resume
      <3> QED BY <1>17, <3>1 DEF Resume, FIFO!vars
    <2> QED BY <2>1, <2>2
  <1> HIDE DEF Inv
  <1> QED
    BY <1>1, <1>2, <1>3, <1>4, <1>5, <1>6, <1>7, <1>8, <1>9, <1>10, <1>11, <1>12, <1>13,
       <1>14, <1>15, <1>16, <1>17, Cases

\* The ring is a bounded FIFO for every size, also when Stop is called at any moment.
THEOREM RingIsFIFO == RingSpec => ImplementsFIFO
  <1>1. RingInit => FIFO!Init
    <2>1. RingInit => [c \in Consumers |-> item[c]] = [c \in Consumers |-> None]
      BY Kinds DEF RingInit
    <2> QED BY <2>1 DEF RingInit, FIFO!Init
  <1>2. Inv /\ [RingNext]_ringVars => [FIFO!Next]_FIFO!vars BY FIFOStep
  <1> QED BY <1>1, <1>2, RingInvAlways, PTL DEF RingSpec, ImplementsFIFO, FIFO!Spec

-----------------------------------------------------------------------------
(* The invariant of the pool. *)


\* A consumer leaves when the queue is stopped and head has met tail, and nobody is reading.
Leaving == \A c \in Consumers :
  pc[c] = "false" => /\ stop /\ head = tail
                     /\ \A d \in Consumers : pc[d] # "take_read"

\* The workers are those of the vector, and those the destructor has joined have left.
Building ==
  /\ \A c \in Consumers : pc[c] # "idle" => Started(c)
  /\ phase # "building" => Len(workers) = Size
  /\ \A i \in 1..joined : pc[workers[i]] = "false"
  /\ phase = "gone" => joined = Len(workers)

\* A task that was put is in the ring, with a worker, or has run.
InQueue == {content[i] : i \in DOMAIN content}
InHand  == {item[c] : c \in {d \in Consumers : pc[d] \in {"take_post", "true"}}}
Kept    == InQueue \cup InHand

Promises ==
  /\ \A p \in Producers : pc[p] # "idle" => item[p] \in Items /\ future[item[p]] # "none"
  /\ \A p, q \in Producers :
       pc[p] # "idle" /\ pc[q] # "idle" /\ p # q => item[p] # item[q]
  /\ \A p \in Producers :
       pc[p] \in {"put_post", "true"} =>
         item[p] \in Kept \/ future[item[p]] \in {"pending", "value", "error"}
  /\ \A x \in Items : future[x] = "pending" => x \in Kept

\* How far Stop has come: the rounds it has begun and those it has left are Size together.
Posting ==
  /\ phase \in {"building", "open"} => pc[Owner] = "idle" /\ posted = 0
  /\ phase = "stopping" =>
       \/ pc[Owner] = "stop_con" /\ posted = 0
       \/ pc[Owner] \in {"stop_post", "stop_full"} /\ posted + posts[Owner] = Size
       \/ pc[Owner] = "true" /\ posted = Size
  /\ phase \in {"joining", "gone", "undefined"} => pc[Owner] = "true" /\ posted = Size

LEMMA PoolKinds == /\ Stoppers = {Owner} /\ Owner \in Threads /\ Owner \in Stoppers
                   /\ Owner \notin Producers /\ Owner \notin Consumers
                   /\ \A p \in Producers : \A i \in DOMAIN Calls[p] : Calls[p][i] \in Items
  BY PoolAssumption, Kinds

\* The actions of the pool, by the thread that takes them.
LEMMA PoolCases ==
  ASSUME [Next]_vars, NEW G \in BOOLEAN,
         UNCHANGED vars => G,
         \A p \in Producers : \A i \in DOMAIN Calls[p] : Enqueue(p, i) => G,
         \A p \in Producers : EnqueueReturns(p) => G,
         \A p \in Producers : WaitFull(p) /\ UNCHANGED poolVars => G,
         \A p \in Producers : TestStop(p) /\ UNCHANGED poolVars => G,
         \A p \in Producers : Store(p) /\ UNCHANGED poolVars => G,
         \A p \in Producers : PostEmpty(p) /\ UNCHANGED poolVars => G,
         \A w \in Consumers : PopNext(w) => G,
         \A w \in Consumers : RunTask(w) => G,
         \A w \in Consumers : WaitEmpty(w) /\ UNCHANGED poolVars => G,
         \A w \in Consumers : TestEmpty(w) /\ UNCHANGED poolVars => G,
         \A w \in Consumers : Take(w) /\ UNCHANGED poolVars => G,
         \A w \in Consumers : PostFull(w) /\ UNCHANGED poolVars => G,
         \A w \in Consumers : StartWorker(w) => G,
         Constructed => G,
         SetStop(Owner) /\ UNCHANGED poolVars => G,
         ReleaseConsumer(Owner) /\ UNCHANGED poolVars => G,
         ReleaseProducer(Owner) /\ UNCHANGED poolVars => G,
         StopEnds(Owner) /\ UNCHANGED poolVars => G,
         StopReturns => G,
         JoinWorker => G,
         Destroyed => G,
         \A p \in Producers : UseDestroyed(p) => G,
         Destroy => G
  PROVE  G
  <1>1. CASE UNCHANGED vars BY <1>1
  <1>2. CASE \E p \in Producers : (\E i \in DOMAIN Calls[p] : Enqueue(p, i)) \/ Client(p)
    BY <1>2 DEF Client, EmplaceStep
  <1>3. CASE \E w \in Consumers : Worker(w) BY <1>3 DEF Worker, PopStep
  <1>4. CASE OwnerStep \/ Destroy BY <1>4 DEF OwnerStep, StopStep
  <1>5. CASE Rest BY <1>5, <1>1 DEF Rest
  <1> QED BY <1>1, <1>2, <1>3, <1>4, <1>5 DEF Next

LEMMA PoolStep == ASSUME [Next]_vars PROVE [RingNext]_ringVars
  <1> USE PoolKinds, Kinds
  <1>1. CASE UNCHANGED vars BY <1>1 DEF vars
  <1>2. ASSUME NEW p \in Producers, NEW i \in DOMAIN Calls[p], Enqueue(p, i)
        PROVE  [RingNext]_ringVars
    BY <1>2 DEF RingNext, Enqueue
  <1>3. ASSUME NEW p \in Producers, EnqueueReturns(p) PROVE [RingNext]_ringVars
    BY <1>3 DEF RingNext, EnqueueReturns
  <1>4. ASSUME NEW p \in Producers, WaitFull(p) /\ UNCHANGED poolVars PROVE [RingNext]_ringVars
    BY <1>4 DEF RingNext, EmplaceStep
  <1>5. ASSUME NEW p \in Producers, TestStop(p) /\ UNCHANGED poolVars PROVE [RingNext]_ringVars
    BY <1>5 DEF RingNext, EmplaceStep
  <1>6. ASSUME NEW p \in Producers, Store(p) /\ UNCHANGED poolVars PROVE [RingNext]_ringVars
    BY <1>6 DEF RingNext, EmplaceStep
  <1>7. ASSUME NEW p \in Producers, PostEmpty(p) /\ UNCHANGED poolVars PROVE [RingNext]_ringVars
    BY <1>7 DEF RingNext, EmplaceStep
  <1>8. ASSUME NEW w \in Consumers, PopNext(w) PROVE [RingNext]_ringVars
    BY <1>8 DEF RingNext, PopNext
  <1>9. ASSUME NEW w \in Consumers, RunTask(w) PROVE [RingNext]_ringVars
    BY <1>9 DEF RingNext, RunTask
  <1>10. ASSUME NEW w \in Consumers, WaitEmpty(w) /\ UNCHANGED poolVars PROVE [RingNext]_ringVars
    BY <1>10 DEF RingNext, PopStep
  <1>11. ASSUME NEW w \in Consumers, TestEmpty(w) /\ UNCHANGED poolVars PROVE [RingNext]_ringVars
    BY <1>11 DEF RingNext, PopStep
  <1>12. ASSUME NEW w \in Consumers, Take(w) /\ UNCHANGED poolVars PROVE [RingNext]_ringVars
    BY <1>12 DEF RingNext, PopStep
  <1>13. ASSUME NEW w \in Consumers, PostFull(w) /\ UNCHANGED poolVars PROVE [RingNext]_ringVars
    BY <1>13 DEF RingNext, PopStep
  <1>14. ASSUME NEW w \in Consumers, StartWorker(w) PROVE [RingNext]_ringVars
    BY <1>14 DEF StartWorker
  <1>15. ASSUME Constructed PROVE [RingNext]_ringVars
    BY <1>15 DEF Constructed
  <1>16. ASSUME SetStop(Owner) /\ UNCHANGED poolVars PROVE [RingNext]_ringVars
    BY <1>16 DEF RingNext, StopStep
  <1>17. ASSUME ReleaseConsumer(Owner) /\ UNCHANGED poolVars PROVE [RingNext]_ringVars
    BY <1>17 DEF RingNext, StopStep
  <1>18. ASSUME ReleaseProducer(Owner) /\ UNCHANGED poolVars PROVE [RingNext]_ringVars
    BY <1>18 DEF RingNext, StopStep
  <1>19. ASSUME StopEnds(Owner) /\ UNCHANGED poolVars PROVE [RingNext]_ringVars
    BY <1>19 DEF RingNext, StopStep
  <1>20. ASSUME StopReturns PROVE [RingNext]_ringVars
    BY <1>20 DEF StopReturns
  <1>21. ASSUME JoinWorker PROVE [RingNext]_ringVars
    BY <1>21 DEF JoinWorker
  <1>22. ASSUME Destroyed PROVE [RingNext]_ringVars
    BY <1>22 DEF Destroyed
  <1>23. ASSUME Destroy PROVE [RingNext]_ringVars
    BY <1>23 DEF RingNext, Destroy
  <1>24. ASSUME NEW p \in Producers, UseDestroyed(p) PROVE [RingNext]_ringVars
    BY <1>24 DEF UseDestroyed
  <1> QED
    BY <1>1, <1>2, <1>3, <1>4, <1>5, <1>6, <1>7, <1>8, <1>9, <1>10, <1>11, <1>12, <1>13, <1>14,
       <1>15, <1>16, <1>17, <1>18, <1>19, <1>20, <1>21, <1>22, <1>23, <1>24, PoolCases

\* The pool's own variables keep their types.
PoolTyped == /\ phase \in Phases /\ workers \in Seq(Consumers) /\ joined \in 0..Len(workers)
             /\ future \in [Items -> Futures]

LEMMA TypedStep == ASSUME PoolTyped, Promises, [Next]_vars PROVE PoolTyped'
  <1> USE Kinds DEF PoolTyped, poolVars, Phases
  <1>1. CASE UNCHANGED vars BY <1>1 DEF vars
  <1>2. ASSUME NEW p \in Producers, NEW i \in DOMAIN Calls[p], Enqueue(p, i) PROVE PoolTyped'
    <2>1. future' \in [Items -> Futures] BY <1>2, PoolKinds DEF Enqueue, Futures
    <2> QED BY <1>2, <2>1 DEF Enqueue
  <1>3. ASSUME NEW p \in Producers, EnqueueReturns(p) PROVE PoolTyped'
    <2>1. item[p] \in Items BY <1>3 DEF EnqueueReturns, Resume, Promises
    <2>2. future[item[p]] \in Futures BY <2>1
    <2>3. future' \in [Items -> Futures] BY <1>3, <2>1, <2>2 DEF EnqueueReturns, Futures
    <2> QED BY <1>3, <2>3 DEF EnqueueReturns
  <1>4. ASSUME NEW p \in Producers, WaitFull(p) /\ UNCHANGED poolVars PROVE PoolTyped'
    BY <1>4 DEF WaitFull
  <1>5. ASSUME NEW p \in Producers, TestStop(p) /\ UNCHANGED poolVars PROVE PoolTyped'
    BY <1>5 DEF TestStop
  <1>6. ASSUME NEW p \in Producers, Store(p) /\ UNCHANGED poolVars PROVE PoolTyped'
    BY <1>6 DEF Store
  <1>7. ASSUME NEW p \in Producers, PostEmpty(p) /\ UNCHANGED poolVars PROVE PoolTyped'
    BY <1>7 DEF PostEmpty
  <1>8. ASSUME NEW w \in Consumers, PopNext(w) PROVE PoolTyped'
    BY <1>8 DEF PopNext
  <1>9. ASSUME NEW w \in Consumers, RunTask(w) PROVE PoolTyped'
    <2>1. future' \in [Items -> Futures] BY <1>9 DEF RunTask, Futures
    <2> QED BY <1>9, <2>1 DEF RunTask
  <1>10. ASSUME NEW w \in Consumers, WaitEmpty(w) /\ UNCHANGED poolVars PROVE PoolTyped'
    BY <1>10 DEF WaitEmpty
  <1>11. ASSUME NEW w \in Consumers, TestEmpty(w) /\ UNCHANGED poolVars PROVE PoolTyped'
    BY <1>11 DEF TestEmpty
  <1>12. ASSUME NEW w \in Consumers, Take(w) /\ UNCHANGED poolVars PROVE PoolTyped'
    BY <1>12 DEF Take
  <1>13. ASSUME NEW w \in Consumers, PostFull(w) /\ UNCHANGED poolVars PROVE PoolTyped'
    BY <1>13 DEF PostFull
  <1>14. ASSUME NEW w \in Consumers, StartWorker(w) PROVE PoolTyped'
    <2>1. workers' \in Seq(Consumers) /\ Len(workers') = Len(workers) + 1 /\ Len(workers) \in Nat
      BY <1>14 DEF StartWorker
    <2> QED BY <1>14, <2>1 DEF StartWorker
  <1>15. ASSUME Constructed PROVE PoolTyped'
    BY <1>15 DEF Constructed
  <1>16. ASSUME SetStop(Owner) /\ UNCHANGED poolVars PROVE PoolTyped'
    BY <1>16 DEF SetStop
  <1>17. ASSUME ReleaseConsumer(Owner) /\ UNCHANGED poolVars PROVE PoolTyped'
    BY <1>17 DEF ReleaseConsumer
  <1>18. ASSUME ReleaseProducer(Owner) /\ UNCHANGED poolVars PROVE PoolTyped'
    BY <1>18 DEF ReleaseProducer
  <1>19. ASSUME StopEnds(Owner) /\ UNCHANGED poolVars PROVE PoolTyped'
    BY <1>19 DEF StopEnds
  <1>20. ASSUME StopReturns PROVE PoolTyped'
    BY <1>20 DEF StopReturns
  <1>21. ASSUME JoinWorker PROVE PoolTyped'
    <2>1. joined + 1 \in 0..Len(workers) BY <1>21 DEF JoinWorker
    <2> QED BY <1>21, <2>1 DEF JoinWorker
  <1>22. ASSUME Destroyed PROVE PoolTyped'
    BY <1>22 DEF Destroyed
  <1>23. ASSUME Destroy PROVE PoolTyped'
    BY <1>23 DEF Destroy
  <1>24. ASSUME NEW p \in Producers, UseDestroyed(p) PROVE PoolTyped'
    BY <1>24 DEF UseDestroyed
  <1> HIDE DEF PoolTyped
  <1> QED
    BY <1>1, <1>2, <1>3, <1>4, <1>5, <1>6, <1>7, <1>8, <1>9, <1>10, <1>11, <1>12, <1>13, <1>14,
       <1>15, <1>16, <1>17, <1>18, <1>19, <1>20, <1>21, <1>22, <1>23, <1>24, PoolCases

LEMMA LeavingStep == ASSUME Inv, Leaving, [Next]_vars PROVE Leaving'
  <1> USE Kinds, PoolKinds DEF Inv, RingTypeOK, Leaving, At, Goto, slots, sems, mutexes, history
  <1>1. CASE UNCHANGED vars BY <1>1 DEF vars, ringVars
  <1>2. ASSUME NEW p \in Producers, NEW i \in DOMAIN Calls[p], Enqueue(p, i) PROVE Leaving'
    BY <1>2 DEF Enqueue, Emplace
  <1>3. ASSUME NEW p \in Producers, EnqueueReturns(p) PROVE Leaving'
    BY <1>3 DEF EnqueueReturns, Resume
  <1>4. ASSUME NEW p \in Producers, WaitFull(p) /\ UNCHANGED poolVars PROVE Leaving'
    BY <1>4 DEF WaitFull
  <1>5. ASSUME NEW p \in Producers, TestStop(p) /\ UNCHANGED poolVars PROVE Leaving'
    BY <1>5 DEF TestStop
  <1>6. ASSUME NEW p \in Producers, Store(p) /\ UNCHANGED poolVars PROVE Leaving'
    <2>1. ~stop BY <1>6 DEF Store, Inside
    <2> QED BY <1>6, <2>1 DEF Store
  <1>7. ASSUME NEW p \in Producers, PostEmpty(p) /\ UNCHANGED poolVars PROVE Leaving'
    BY <1>7 DEF PostEmpty
  <1>8. ASSUME NEW w \in Consumers, PopNext(w) PROVE Leaving'
    BY <1>8 DEF PopNext, Pop
  <1>9. ASSUME NEW w \in Consumers, RunTask(w) PROVE Leaving'
    BY <1>9 DEF RunTask, Resume
  <1>10. ASSUME NEW w \in Consumers, WaitEmpty(w) /\ UNCHANGED poolVars PROVE Leaving'
    BY <1>10 DEF WaitEmpty
  <1>11. ASSUME NEW w \in Consumers, TestEmpty(w) /\ UNCHANGED poolVars PROVE Leaving'
    <2>1. CASE NothingLeft
      <3>1. \A d \in Consumers : pc[d] # "take_read" BY <1>11, Kinds DEF TestEmpty, Owners
      <3> QED BY <1>11, <2>1, <3>1 DEF TestEmpty, NothingLeft, IsEmpty
    <2>2. CASE ~NothingLeft
      <3>1. \A c \in Consumers : pc[c] # "false" BY <2>2 DEF NothingLeft, IsEmpty
      <3> QED BY <1>11, <2>2, <3>1 DEF TestEmpty, NothingLeft
    <2> QED BY <2>1, <2>2 DEF NothingLeft
  <1>12. ASSUME NEW w \in Consumers, Take(w) /\ UNCHANGED poolVars PROVE Leaving'
    <2>1. \A c \in Consumers : pc[c] # "false" BY <1>12 DEF Take
    <2> QED BY <1>12, <2>1 DEF Take
  <1>13. ASSUME NEW w \in Consumers, PostFull(w) /\ UNCHANGED poolVars PROVE Leaving'
    BY <1>13 DEF PostFull
  <1>14. ASSUME NEW w \in Consumers, StartWorker(w) PROVE Leaving'
    BY <1>14 DEF StartWorker, ringVars
  <1>15. ASSUME Constructed PROVE Leaving'
    BY <1>15 DEF Constructed, ringVars
  <1>16. ASSUME SetStop(Owner) /\ UNCHANGED poolVars PROVE Leaving'
    BY <1>16 DEF SetStop
  <1>17. ASSUME ReleaseConsumer(Owner) /\ UNCHANGED poolVars PROVE Leaving'
    BY <1>17 DEF ReleaseConsumer
  <1>18. ASSUME ReleaseProducer(Owner) /\ UNCHANGED poolVars PROVE Leaving'
    BY <1>18 DEF ReleaseProducer
  <1>19. ASSUME StopEnds(Owner) /\ UNCHANGED poolVars PROVE Leaving'
    BY <1>19 DEF StopEnds
  <1>20. ASSUME StopReturns PROVE Leaving'
    BY <1>20 DEF StopReturns, ringVars
  <1>21. ASSUME JoinWorker PROVE Leaving'
    BY <1>21 DEF JoinWorker, ringVars
  <1>22. ASSUME Destroyed PROVE Leaving'
    BY <1>22 DEF Destroyed, ringVars
  <1>23. ASSUME Destroy PROVE Leaving'
    BY <1>23 DEF Destroy, Stop
  <1>24. ASSUME NEW p \in Producers, UseDestroyed(p) PROVE Leaving'
    BY <1>24 DEF UseDestroyed, ringVars
  <1> HIDE DEF Leaving
  <1> QED
    BY <1>1, <1>2, <1>3, <1>4, <1>5, <1>6, <1>7, <1>8, <1>9, <1>10, <1>11, <1>12, <1>13, <1>14,
       <1>15, <1>16, <1>17, <1>18, <1>19, <1>20, <1>21, <1>22, <1>23, <1>24, PoolCases

LEMMA BuildingStep == ASSUME Inv, PoolTyped, Building, [Next]_vars PROVE Building'
  <1> USE Kinds, PoolKinds DEF Inv, RingTypeOK, PoolTyped, Building, At, Goto, slots, sems, mutexes,
                               history, poolVars
  <1>0. \A j \in 1..joined : workers[j] \in Consumers /\ pc[workers[j]] = "false" OBVIOUS
  <1>1. CASE UNCHANGED vars BY <1>1 DEF vars, ringVars, poolVars, Started
  <1>2. ASSUME NEW p \in Producers, NEW i \in DOMAIN Calls[p], Enqueue(p, i) PROVE Building'
    BY <1>2, <1>0 DEF Enqueue, Emplace, Started
  <1>3. ASSUME NEW p \in Producers, EnqueueReturns(p) PROVE Building'
    BY <1>3, <1>0 DEF EnqueueReturns, Resume, Started
  <1>4. ASSUME NEW p \in Producers, WaitFull(p) /\ UNCHANGED poolVars PROVE Building'
    BY <1>4, <1>0 DEF WaitFull, Started
  <1>5. ASSUME NEW p \in Producers, TestStop(p) /\ UNCHANGED poolVars PROVE Building'
    <2>1. /\ \A c \in Consumers : pc'[c] = pc[c]
          /\ workers' = workers /\ joined' = joined /\ phase' = phase
      BY <1>5 DEF TestStop
    <2> QED BY <1>0, <2>1 DEF Started
  <1>6. ASSUME NEW p \in Producers, Store(p) /\ UNCHANGED poolVars PROVE Building'
    BY <1>6, <1>0 DEF Store, Started
  <1>7. ASSUME NEW p \in Producers, PostEmpty(p) /\ UNCHANGED poolVars PROVE Building'
    BY <1>7, <1>0 DEF PostEmpty, Started
  <1>8. ASSUME NEW w \in Consumers, PopNext(w) PROVE Building'
    BY <1>8, <1>0 DEF PopNext, Pop, Started
  <1>9. ASSUME NEW w \in Consumers, RunTask(w) PROVE Building'
    BY <1>9, <1>0 DEF RunTask, Resume, Started
  <1>10. ASSUME NEW w \in Consumers, WaitEmpty(w) /\ UNCHANGED poolVars PROVE Building'
    BY <1>10, <1>0 DEF WaitEmpty, Started
  <1>11. ASSUME NEW w \in Consumers, TestEmpty(w) /\ UNCHANGED poolVars PROVE Building'
    BY <1>11, <1>0 DEF TestEmpty, Started
  <1>12. ASSUME NEW w \in Consumers, Take(w) /\ UNCHANGED poolVars PROVE Building'
    BY <1>12, <1>0 DEF Take, Started
  <1>13. ASSUME NEW w \in Consumers, PostFull(w) /\ UNCHANGED poolVars PROVE Building'
    BY <1>13, <1>0 DEF PostFull, Started
  <1>14. ASSUME NEW w \in Consumers, StartWorker(w) PROVE Building'
    <2>1. /\ workers' = Append(workers, w) /\ Len(workers') = Len(workers) + 1
          /\ Len(workers) \in Nat /\ \A i \in 1..Len(workers) : workers'[i] = workers[i]
      BY <1>14 DEF StartWorker
    <2>2. \A i \in DOMAIN workers : i \in DOMAIN workers' /\ workers'[i] = workers[i] BY <2>1
    <2>3. /\ phase = "building" /\ phase' = phase /\ joined' = joined /\ pc' = pc
      BY <1>14 DEF StartWorker, ringVars
    <2>4. \A c \in Consumers : Started(c) => Started(c)' BY <2>2 DEF Started
    <2>5. \A i \in 1..joined' : pc'[workers'[i]] = "false" BY <2>1, <2>3
    <2> QED BY <2>3, <2>4, <2>5
  <1>15. ASSUME Constructed PROVE Building'
    BY <1>15 DEF Constructed, ringVars, Started
  <1>16. ASSUME SetStop(Owner) /\ UNCHANGED poolVars PROVE Building'
    BY <1>16, <1>0 DEF SetStop, Started
  <1>17. ASSUME ReleaseConsumer(Owner) /\ UNCHANGED poolVars PROVE Building'
    BY <1>17, <1>0 DEF ReleaseConsumer, Started
  <1>18. ASSUME ReleaseProducer(Owner) /\ UNCHANGED poolVars PROVE Building'
    BY <1>18, <1>0 DEF ReleaseProducer, Started
  <1>19. ASSUME StopEnds(Owner) /\ UNCHANGED poolVars PROVE Building'
    BY <1>19, <1>0 DEF StopEnds, Started
  <1>20. ASSUME StopReturns PROVE Building'
    BY <1>20 DEF StopReturns, ringVars, Started
  <1>21. ASSUME JoinWorker PROVE Building'
    BY <1>21 DEF JoinWorker, ringVars, Exited, Started
  <1>22. ASSUME Destroyed PROVE Building'
    BY <1>22 DEF Destroyed, ringVars, Started
  <1>23. ASSUME Destroy PROVE Building'
    BY <1>23, <1>0 DEF Destroy, Stop, Started
  <1>24. ASSUME NEW p \in Producers, UseDestroyed(p) PROVE Building'
    BY <1>24 DEF UseDestroyed, ringVars, Started
  <1> HIDE DEF Building
  <1> QED
    BY <1>1, <1>2, <1>3, <1>4, <1>5, <1>6, <1>7, <1>8, <1>9, <1>10, <1>11, <1>12, <1>13, <1>14,
       <1>15, <1>16, <1>17, <1>18, <1>19, <1>20, <1>21, <1>22, <1>23, <1>24, PoolCases

\* No step loses a task that was put, except that a worker runs it.
KeptOn == \A x \in Kept : \/ x \in Kept'
                           \/ \E w \in Consumers : pc[w] = "true" /\ pc'[w] = "idle" /\ x = item[w]

LEMMA KeptStep == ASSUME Inv, [Next]_vars PROVE KeptOn
  <1> USE Kinds, PoolKinds DEF KeptOn, Inv, RingTypeOK, At, Goto, slots, sems, mutexes, history
  <1>1. CASE UNCHANGED vars BY <1>1 DEF vars, ringVars, Kept, InQueue, InHand
  <1>2. ASSUME NEW p \in Producers, NEW i \in DOMAIN Calls[p], Enqueue(p, i) PROVE KeptOn
    <2>1. content' = content BY <1>2 DEF Enqueue, Emplace
    <2>2. \A c \in Consumers : pc[c] \in {"take_post", "true"} =>
            pc'[c] \in {"take_post", "true"} /\ item'[c] = item[c]
      BY <1>2 DEF Enqueue, Emplace
    <2> QED BY <2>1, <2>2 DEF Kept, InQueue, InHand
  <1>3. ASSUME NEW p \in Producers, EnqueueReturns(p) PROVE KeptOn
    <2>1. content' = content BY <1>3 DEF EnqueueReturns, Resume
    <2>2. \A c \in Consumers : pc[c] \in {"take_post", "true"} =>
            pc'[c] \in {"take_post", "true"} /\ item'[c] = item[c]
      BY <1>3 DEF EnqueueReturns, Resume
    <2> QED BY <2>1, <2>2 DEF Kept, InQueue, InHand
  <1>4. ASSUME NEW p \in Producers, WaitFull(p) /\ UNCHANGED poolVars PROVE KeptOn
    <2>1. content' = content BY <1>4 DEF WaitFull
    <2>2. \A c \in Consumers : pc[c] \in {"take_post", "true"} =>
            pc'[c] \in {"take_post", "true"} /\ item'[c] = item[c]
      BY <1>4 DEF WaitFull
    <2> QED BY <2>1, <2>2 DEF Kept, InQueue, InHand
  <1>5. ASSUME NEW p \in Producers, TestStop(p) /\ UNCHANGED poolVars PROVE KeptOn
    <2>1. content' = content BY <1>5 DEF TestStop
    <2>2. \A c \in Consumers : pc[c] \in {"take_post", "true"} =>
            pc'[c] \in {"take_post", "true"} /\ item'[c] = item[c]
      BY <1>5 DEF TestStop
    <2> QED BY <2>1, <2>2 DEF Kept, InQueue, InHand
  <1>6. ASSUME NEW p \in Producers, Store(p) /\ UNCHANGED poolVars PROVE KeptOn
    <2>1. /\ content' = Append(content, item[p]) /\ item[p] \in Items /\ content \in Seq(Items)
          /\ \A i \in DOMAIN content : i \in DOMAIN content' /\ content'[i] = content[i]
      BY <1>6 DEF Store, Control
    <2>2. \A c \in Consumers : pc'[c] = pc[c] /\ item'[c] = item[c] BY <1>6 DEF Store
    <2> QED BY <2>1, <2>2 DEF Kept, InQueue, InHand
  <1>7. ASSUME NEW p \in Producers, PostEmpty(p) /\ UNCHANGED poolVars PROVE KeptOn
    <2>1. content' = content BY <1>7 DEF PostEmpty
    <2>2. \A c \in Consumers : pc[c] \in {"take_post", "true"} =>
            pc'[c] \in {"take_post", "true"} /\ item'[c] = item[c]
      BY <1>7 DEF PostEmpty
    <2> QED BY <2>1, <2>2 DEF Kept, InQueue, InHand
  <1>8. ASSUME NEW w \in Consumers, PopNext(w) PROVE KeptOn
    <2>1. content' = content BY <1>8 DEF PopNext, Pop
    <2>2. \A c \in Consumers : pc[c] \in {"take_post", "true"} =>
            pc'[c] \in {"take_post", "true"} /\ item'[c] = item[c]
      BY <1>8 DEF PopNext, Pop
    <2> QED BY <2>1, <2>2 DEF Kept, InQueue, InHand
  <1>9. ASSUME NEW w \in Consumers, RunTask(w) PROVE KeptOn
    <2>1. content' = content BY <1>9 DEF RunTask, Resume
    <2>2. \A c \in Consumers : pc[c] \in {"take_post", "true"} /\ item[c] # item[w] =>
            pc'[c] \in {"take_post", "true"} /\ item'[c] = item[c]
      BY <1>9 DEF RunTask, Resume
    <2>3. ASSUME NEW x \in InHand, x # item[w] PROVE x \in InHand' BY <2>2, <2>3 DEF InHand
    <2> QED BY <1>9, <2>1, <2>3 DEF Kept, InQueue, RunTask, Resume
  <1>10. ASSUME NEW w \in Consumers, WaitEmpty(w) /\ UNCHANGED poolVars PROVE KeptOn
    <2>1. content' = content BY <1>10 DEF WaitEmpty
    <2>2. \A c \in Consumers : pc[c] \in {"take_post", "true"} =>
            pc'[c] \in {"take_post", "true"} /\ item'[c] = item[c]
      BY <1>10 DEF WaitEmpty
    <2> QED BY <2>1, <2>2 DEF Kept, InQueue, InHand
  <1>11. ASSUME NEW w \in Consumers, TestEmpty(w) /\ UNCHANGED poolVars PROVE KeptOn
    <2>1. content' = content BY <1>11 DEF TestEmpty
    <2>2. \A c \in Consumers : pc[c] \in {"take_post", "true"} =>
            pc'[c] \in {"take_post", "true"} /\ item'[c] = item[c]
      BY <1>11 DEF TestEmpty
    <2> QED BY <2>1, <2>2 DEF Kept, InQueue, InHand
  <1>12. ASSUME NEW w \in Consumers, Take(w) /\ UNCHANGED poolVars PROVE KeptOn
    <2>1. content \in Seq(Items) /\ Len(content) > 0 /\ content' = Tail(content) /\ head \in Index
      BY <1>12 DEF Take, Inside
    <2>2. Tasks[head] = content[1]
      <3>1. 1 \in 1..Len(content) /\ 1 - 1 = 0 /\ Slot(head, 0) = head BY <2>1, SlotFacts
      <3> QED BY <3>1 DEF Geometry
    <2>3. content[1] \in InHand' BY <1>12, <2>2 DEF Take, InHand
    <2>4. \A c \in Consumers : pc[c] \in {"take_post", "true"} =>
            pc'[c] \in {"take_post", "true"} /\ item'[c] = item[c]
      BY <1>12 DEF Take
    <2>5. ASSUME NEW x \in InQueue PROVE x \in InQueue' \/ x \in InHand'
      <3>1. PICK i \in 1..Len(content) : content[i] = x BY <2>1, <2>5 DEF InQueue
      <3>2. CASE i = 1 BY <2>3, <3>1, <3>2
      <3>3. CASE i # 1
        <4>1. i - 1 \in 1..Len(content') /\ content'[i - 1] = content[i] BY <2>1, <3>1, <3>3
        <4>2. DOMAIN content' = 1..Len(content') BY <2>1
        <4> QED BY <3>1, <4>1, <4>2 DEF InQueue
      <3> QED BY <3>2, <3>3
    <2>6. ASSUME NEW x \in InHand PROVE x \in InHand' BY <2>4, <2>6 DEF InHand
    <2> QED BY <2>5, <2>6 DEF Kept
  <1>13. ASSUME NEW w \in Consumers, PostFull(w) /\ UNCHANGED poolVars PROVE KeptOn
    <2>1. content' = content BY <1>13 DEF PostFull
    <2>2. \A c \in Consumers : pc[c] \in {"take_post", "true"} =>
            pc'[c] \in {"take_post", "true"} /\ item'[c] = item[c]
      BY <1>13 DEF PostFull
    <2> QED BY <2>1, <2>2 DEF Kept, InQueue, InHand
  <1>14. ASSUME NEW w \in Consumers, StartWorker(w) PROVE KeptOn
    <2>1. content' = content BY <1>14 DEF StartWorker, ringVars
    <2>2. \A c \in Consumers : pc[c] \in {"take_post", "true"} =>
            pc'[c] \in {"take_post", "true"} /\ item'[c] = item[c]
      BY <1>14 DEF StartWorker, ringVars
    <2> QED BY <2>1, <2>2 DEF Kept, InQueue, InHand
  <1>15. ASSUME Constructed PROVE KeptOn
    <2>1. content' = content BY <1>15 DEF Constructed, ringVars
    <2>2. \A c \in Consumers : pc[c] \in {"take_post", "true"} =>
            pc'[c] \in {"take_post", "true"} /\ item'[c] = item[c]
      BY <1>15 DEF Constructed, ringVars
    <2> QED BY <2>1, <2>2 DEF Kept, InQueue, InHand
  <1>16. ASSUME SetStop(Owner) /\ UNCHANGED poolVars PROVE KeptOn
    <2>1. content' = content BY <1>16 DEF SetStop
    <2>2. \A c \in Consumers : pc[c] \in {"take_post", "true"} =>
            pc'[c] \in {"take_post", "true"} /\ item'[c] = item[c]
      BY <1>16 DEF SetStop
    <2> QED BY <2>1, <2>2 DEF Kept, InQueue, InHand
  <1>17. ASSUME ReleaseConsumer(Owner) /\ UNCHANGED poolVars PROVE KeptOn
    <2>1. content' = content BY <1>17 DEF ReleaseConsumer
    <2>2. \A c \in Consumers : pc[c] \in {"take_post", "true"} =>
            pc'[c] \in {"take_post", "true"} /\ item'[c] = item[c]
      BY <1>17 DEF ReleaseConsumer
    <2> QED BY <2>1, <2>2 DEF Kept, InQueue, InHand
  <1>18. ASSUME ReleaseProducer(Owner) /\ UNCHANGED poolVars PROVE KeptOn
    <2>1. content' = content BY <1>18 DEF ReleaseProducer
    <2>2. \A c \in Consumers : pc[c] \in {"take_post", "true"} =>
            pc'[c] \in {"take_post", "true"} /\ item'[c] = item[c]
      BY <1>18 DEF ReleaseProducer
    <2> QED BY <2>1, <2>2 DEF Kept, InQueue, InHand
  <1>19. ASSUME StopEnds(Owner) /\ UNCHANGED poolVars PROVE KeptOn
    <2>1. content' = content BY <1>19 DEF StopEnds
    <2>2. \A c \in Consumers : pc[c] \in {"take_post", "true"} =>
            pc'[c] \in {"take_post", "true"} /\ item'[c] = item[c]
      BY <1>19 DEF StopEnds
    <2> QED BY <2>1, <2>2 DEF Kept, InQueue, InHand
  <1>20. ASSUME StopReturns PROVE KeptOn
    <2>1. content' = content BY <1>20 DEF StopReturns, ringVars
    <2>2. \A c \in Consumers : pc[c] \in {"take_post", "true"} =>
            pc'[c] \in {"take_post", "true"} /\ item'[c] = item[c]
      BY <1>20 DEF StopReturns, ringVars
    <2> QED BY <2>1, <2>2 DEF Kept, InQueue, InHand
  <1>21. ASSUME JoinWorker PROVE KeptOn
    <2>1. content' = content BY <1>21 DEF JoinWorker, ringVars
    <2>2. \A c \in Consumers : pc[c] \in {"take_post", "true"} =>
            pc'[c] \in {"take_post", "true"} /\ item'[c] = item[c]
      BY <1>21 DEF JoinWorker, ringVars
    <2> QED BY <2>1, <2>2 DEF Kept, InQueue, InHand
  <1>22. ASSUME Destroyed PROVE KeptOn
    <2>1. content' = content BY <1>22 DEF Destroyed, ringVars
    <2>2. \A c \in Consumers : pc[c] \in {"take_post", "true"} =>
            pc'[c] \in {"take_post", "true"} /\ item'[c] = item[c]
      BY <1>22 DEF Destroyed, ringVars
    <2> QED BY <2>1, <2>2 DEF Kept, InQueue, InHand
  <1>23. ASSUME Destroy PROVE KeptOn
    <2>1. content' = content BY <1>23 DEF Destroy, Stop
    <2>2. \A c \in Consumers : pc[c] \in {"take_post", "true"} =>
            pc'[c] \in {"take_post", "true"} /\ item'[c] = item[c]
      BY <1>23 DEF Destroy, Stop
    <2> QED BY <2>1, <2>2 DEF Kept, InQueue, InHand
  <1>24. ASSUME NEW p \in Producers, UseDestroyed(p) PROVE KeptOn
    <2>1. content' = content BY <1>24 DEF UseDestroyed, ringVars
    <2>2. \A c \in Consumers : pc[c] \in {"take_post", "true"} =>
            pc'[c] \in {"take_post", "true"} /\ item'[c] = item[c]
      BY <1>24 DEF UseDestroyed, ringVars
    <2> QED BY <2>1, <2>2 DEF Kept, InQueue, InHand
  <1> HIDE DEF KeptOn
  <1> QED
    BY <1>1, <1>2, <1>3, <1>4, <1>5, <1>6, <1>7, <1>8, <1>9, <1>10, <1>11, <1>12, <1>13, <1>14,
       <1>15, <1>16, <1>17, <1>18, <1>19, <1>20, <1>21, <1>22, <1>23, <1>24, PoolCases

LEMMA PromisesStep == ASSUME Inv, PoolTyped, Promises, [Next]_vars PROVE Promises'
  <1> USE Kinds, PoolKinds DEF At, Goto, slots, sems, mutexes, history, poolVars
  <1>1. CASE UNCHANGED vars BY <1>1 DEF vars, ringVars, Promises, Kept, InQueue, InHand
  <1>2. ASSUME NEW p \in Producers, NEW i \in DOMAIN Calls[p], Enqueue(p, i) PROVE Promises'
    <2>1. Kept \subseteq Kept'
      <3>1. \A v \in Consumers : ~(pc[v] = "true" /\ pc'[v] = "idle")
        BY <1>2 DEF Inv, RingTypeOK, Enqueue, Emplace
      <3> QED BY <3>1, KeptStep DEF KeptOn
    <2> DEFINE x == Calls[p][i]
    <2>2. x \in Items /\ future[x] = "none" /\ future' = [future EXCEPT ![x] = "called"]
      BY <1>2 DEF Inv, RingTypeOK, PoolTyped, Enqueue
    <2>3. /\ pc[p] = "idle" /\ pc'[p] = "put_wait" /\ item'[p] = x
          /\ \A q \in Producers : q # p => pc'[q] = pc[q] /\ item'[q] = item[q]
      BY <1>2 DEF Inv, RingTypeOK, PoolTyped, Enqueue, Emplace
    <2> HIDE DEF x
    <2>4. \A q \in Producers : q # p /\ pc[q] # "idle" => item[q] # x BY <2>2 DEF Promises
    <2>5. \A y \in Items : y # x => future'[y] = future[y] BY <2>2 DEF PoolTyped
    <2>6. future'[x] = "called" BY <2>2 DEF PoolTyped
    <2> QED BY <2>1, <2>2, <2>3, <2>4, <2>5, <2>6 DEF Promises
  <1>3. ASSUME NEW p \in Producers, EnqueueReturns(p) PROVE Promises'
    <2>1. Kept \subseteq Kept'
      <3>1. \A v \in Consumers : ~(pc[v] = "true" /\ pc'[v] = "idle")
        BY <1>3 DEF Inv, RingTypeOK, EnqueueReturns, Resume
      <3> QED BY <3>1, KeptStep DEF KeptOn
    <2> DEFINE x == item[p]
    <2>2. /\ pc[p] \in {"true", "false"} /\ x \in Items /\ pc'[p] = "idle"
          /\ \A q \in Producers : q # p => pc'[q] = pc[q] /\ item'[q] = item[q]
      BY <1>3 DEF Inv, RingTypeOK, PoolTyped, Promises, EnqueueReturns, Resume
    <2>3. future' = [future EXCEPT ![x] = IF pc[p] = "false" THEN "refused"
                                         ELSE IF future[x] = "called" THEN "pending" ELSE future[x]]
      BY <1>3 DEF Inv, RingTypeOK, PoolTyped, EnqueueReturns
    <2> HIDE DEF x
    <2>4. \A q \in Producers : q # p /\ pc[q] # "idle" => item[q] # x BY <2>2 DEF Promises, x
    <2>5. \A y \in Items : y # x => future'[y] = future[y] BY <2>2, <2>3 DEF PoolTyped
    <2>6. future'[x] = "pending" => x \in Kept BY <2>2, <2>3 DEF Promises, PoolTyped, x
    <2> QED BY <2>1, <2>2, <2>4, <2>5, <2>6 DEF Promises
  <1>4. ASSUME NEW p \in Producers, WaitFull(p) /\ UNCHANGED poolVars PROVE Promises'
    <2>1. Kept \subseteq Kept'
      <3>1. \A v \in Consumers : ~(pc[v] = "true" /\ pc'[v] = "idle")
        BY <1>4 DEF Inv, RingTypeOK, WaitFull
      <3> QED BY <3>1, KeptStep DEF KeptOn
    <2>2. future' = future /\ \A q \in Producers : item'[q] = item[q]
      BY <1>4 DEF Inv, RingTypeOK, PoolTyped, WaitFull
    <2>3. \A q \in Producers : q # p => pc'[q] = pc[q]
      BY <1>4 DEF Inv, RingTypeOK, PoolTyped, WaitFull
    <2>4. pc[p] # "idle" /\ pc'[p] = "put_lock" BY <1>4 DEF Inv, RingTypeOK, PoolTyped, WaitFull
    <2> QED BY <2>1, <2>2, <2>3, <2>4 DEF Promises
  <1>5. ASSUME NEW p \in Producers, TestStop(p) /\ UNCHANGED poolVars PROVE Promises'
    <2>1. Kept \subseteq Kept'
      <3>1. \A v \in Consumers : ~(pc[v] = "true" /\ pc'[v] = "idle")
        BY <1>5 DEF Inv, RingTypeOK, TestStop
      <3> QED BY <3>1, KeptStep DEF KeptOn
    <2>2. future' = future /\ \A q \in Producers : item'[q] = item[q]
      BY <1>5 DEF Inv, RingTypeOK, PoolTyped, TestStop
    <2>3. \A q \in Producers : q # p => pc'[q] = pc[q]
      BY <1>5 DEF Inv, RingTypeOK, PoolTyped, TestStop
    <2>4. pc[p] # "idle" /\ pc'[p] \in {"false", "put_write"}
      BY <1>5 DEF Inv, RingTypeOK, PoolTyped, TestStop
    <2> QED BY <2>1, <2>2, <2>3, <2>4 DEF Promises
  <1>6. ASSUME NEW p \in Producers, Store(p) /\ UNCHANGED poolVars PROVE Promises'
    <2>1. Kept \subseteq Kept'
      <3>1. \A v \in Consumers : ~(pc[v] = "true" /\ pc'[v] = "idle")
        BY <1>6 DEF Inv, RingTypeOK, Store
      <3> QED BY <3>1, KeptStep DEF KeptOn
    <2>2. future' = future /\ \A q \in Producers : item'[q] = item[q]
      BY <1>6 DEF Inv, RingTypeOK, PoolTyped, Store
    <2>3. \A q \in Producers : q # p => pc'[q] = pc[q] BY <1>6 DEF Inv, RingTypeOK, PoolTyped, Store
    <2>4. pc[p] # "idle" /\ pc'[p] = "put_post" BY <1>6 DEF Inv, RingTypeOK, PoolTyped, Store
    <2>5. item'[p] \in Kept'
      <3>1. /\ content' = Append(content, item[p]) /\ item'[p] = item[p]
            /\ item[p] \in Items /\ content \in Seq(Items)
        BY <1>6 DEF Inv, RingTypeOK, PoolTyped, Store, Control
      <3>2. Len(content) + 1 \in DOMAIN content' /\ content'[Len(content) + 1] = item'[p] BY <3>1
      <3> QED BY <3>2 DEF Kept, InQueue
    <2> QED BY <2>1, <2>2, <2>3, <2>4, <2>5 DEF Promises
  <1>7. ASSUME NEW p \in Producers, PostEmpty(p) /\ UNCHANGED poolVars PROVE Promises'
    <2>1. Kept \subseteq Kept'
      <3>1. \A v \in Consumers : ~(pc[v] = "true" /\ pc'[v] = "idle")
        BY <1>7 DEF Inv, RingTypeOK, PostEmpty
      <3> QED BY <3>1, KeptStep DEF KeptOn
    <2>2. future' = future /\ \A q \in Producers : item'[q] = item[q]
      BY <1>7 DEF Inv, RingTypeOK, PoolTyped, PostEmpty
    <2>3. \A q \in Producers : q # p => pc'[q] = pc[q]
      BY <1>7 DEF Inv, RingTypeOK, PoolTyped, PostEmpty
    <2>4. pc[p] = "put_post" /\ pc'[p] = "true" BY <1>7 DEF Inv, RingTypeOK, PoolTyped, PostEmpty
    <2> QED BY <2>1, <2>2, <2>3, <2>4 DEF Promises
  <1>8. ASSUME NEW w \in Consumers, PopNext(w) PROVE Promises'
    <2>1. Kept \subseteq Kept'
      <3>1. \A v \in Consumers : ~(pc[v] = "true" /\ pc'[v] = "idle")
        BY <1>8 DEF Inv, RingTypeOK, PopNext, Pop
      <3> QED BY <3>1, KeptStep DEF KeptOn
    <2>2. future' = future /\ \A q \in Producers : item'[q] = item[q] /\ pc'[q] = pc[q]
      BY <1>8 DEF Inv, RingTypeOK, PoolTyped, PopNext, Pop
    <2> QED BY <2>1, <2>2 DEF Promises
  <1>9. ASSUME NEW w \in Consumers, RunTask(w) PROVE Promises'
    <2>1. \A y \in Kept : y # item[w] => y \in Kept'
      <3>1. \A v \in Consumers : pc[v] = "true" /\ pc'[v] = "idle" => v = w
        BY <1>9 DEF Inv, RingTypeOK, RunTask, Resume
      <3> QED BY <3>1, KeptStep DEF KeptOn
    <2>2. \A q \in Producers : item'[q] = item[q] /\ pc'[q] = pc[q]
      BY <1>9 DEF Inv, RingTypeOK, PoolTyped, RunTask, Resume
    <2>3. /\ \A y \in Items : y # item[w] => future'[y] = future[y]
          /\ item[w] \in Items => future'[item[w]] \in {"value", "error"}
      BY <1>9 DEF Inv, RingTypeOK, PoolTyped, RunTask
    <2> QED BY <2>1, <2>2, <2>3 DEF Promises
  <1>10. ASSUME NEW w \in Consumers, WaitEmpty(w) /\ UNCHANGED poolVars PROVE Promises'
    <2>1. Kept \subseteq Kept'
      <3>1. \A v \in Consumers : ~(pc[v] = "true" /\ pc'[v] = "idle")
        BY <1>10 DEF Inv, RingTypeOK, WaitEmpty
      <3> QED BY <3>1, KeptStep DEF KeptOn
    <2>2. future' = future /\ \A q \in Producers : item'[q] = item[q] /\ pc'[q] = pc[q]
      BY <1>10 DEF Inv, RingTypeOK, PoolTyped, WaitEmpty
    <2> QED BY <2>1, <2>2 DEF Promises
  <1>11. ASSUME NEW w \in Consumers, TestEmpty(w) /\ UNCHANGED poolVars PROVE Promises'
    <2>1. Kept \subseteq Kept'
      <3>1. \A v \in Consumers : ~(pc[v] = "true" /\ pc'[v] = "idle")
        BY <1>11 DEF Inv, RingTypeOK, TestEmpty
      <3> QED BY <3>1, KeptStep DEF KeptOn
    <2>2. future' = future /\ \A q \in Producers : item'[q] = item[q] /\ pc'[q] = pc[q]
      BY <1>11 DEF Inv, RingTypeOK, PoolTyped, TestEmpty
    <2> QED BY <2>1, <2>2 DEF Promises
  <1>12. ASSUME NEW w \in Consumers, Take(w) /\ UNCHANGED poolVars PROVE Promises'
    <2>1. Kept \subseteq Kept'
      <3>1. \A v \in Consumers : ~(pc[v] = "true" /\ pc'[v] = "idle")
        BY <1>12 DEF Inv, RingTypeOK, Take
      <3> QED BY <3>1, KeptStep DEF KeptOn
    <2>2. future' = future /\ \A q \in Producers : item'[q] = item[q] /\ pc'[q] = pc[q]
      BY <1>12 DEF Inv, RingTypeOK, PoolTyped, Take
    <2> QED BY <2>1, <2>2 DEF Promises
  <1>13. ASSUME NEW w \in Consumers, PostFull(w) /\ UNCHANGED poolVars PROVE Promises'
    <2>1. Kept \subseteq Kept'
      <3>1. \A v \in Consumers : ~(pc[v] = "true" /\ pc'[v] = "idle")
        BY <1>13 DEF Inv, RingTypeOK, PostFull
      <3> QED BY <3>1, KeptStep DEF KeptOn
    <2>2. future' = future /\ \A q \in Producers : item'[q] = item[q] /\ pc'[q] = pc[q]
      BY <1>13 DEF Inv, RingTypeOK, PoolTyped, PostFull
    <2> QED BY <2>1, <2>2 DEF Promises
  <1>14. ASSUME NEW w \in Consumers, StartWorker(w) PROVE Promises'
    <2>1. Kept \subseteq Kept'
      <3>1. \A v \in Consumers : ~(pc[v] = "true" /\ pc'[v] = "idle")
        BY <1>14 DEF Inv, RingTypeOK, StartWorker, ringVars
      <3> QED BY <3>1, KeptStep DEF KeptOn
    <2>2. future' = future /\ \A q \in Producers : item'[q] = item[q] /\ pc'[q] = pc[q]
      BY <1>14 DEF Inv, RingTypeOK, PoolTyped, StartWorker, ringVars
    <2> QED BY <2>1, <2>2 DEF Promises
  <1>15. ASSUME Constructed PROVE Promises'
    <2>1. Kept \subseteq Kept'
      <3>1. \A v \in Consumers : ~(pc[v] = "true" /\ pc'[v] = "idle")
        BY <1>15 DEF Inv, RingTypeOK, Constructed, ringVars
      <3> QED BY <3>1, KeptStep DEF KeptOn
    <2>2. future' = future /\ \A q \in Producers : item'[q] = item[q] /\ pc'[q] = pc[q]
      BY <1>15 DEF Inv, RingTypeOK, PoolTyped, Constructed, ringVars
    <2> QED BY <2>1, <2>2 DEF Promises
  <1>16. ASSUME SetStop(Owner) /\ UNCHANGED poolVars PROVE Promises'
    <2>1. Kept \subseteq Kept'
      <3>1. \A v \in Consumers : ~(pc[v] = "true" /\ pc'[v] = "idle")
        BY <1>16 DEF Inv, RingTypeOK, SetStop
      <3> QED BY <3>1, KeptStep DEF KeptOn
    <2>2. future' = future /\ \A q \in Producers : item'[q] = item[q] /\ pc'[q] = pc[q]
      BY <1>16 DEF Inv, RingTypeOK, PoolTyped, SetStop
    <2> QED BY <2>1, <2>2 DEF Promises
  <1>17. ASSUME ReleaseConsumer(Owner) /\ UNCHANGED poolVars PROVE Promises'
    <2>1. Kept \subseteq Kept'
      <3>1. \A v \in Consumers : ~(pc[v] = "true" /\ pc'[v] = "idle")
        BY <1>17 DEF Inv, RingTypeOK, ReleaseConsumer
      <3> QED BY <3>1, KeptStep DEF KeptOn
    <2>2. future' = future /\ \A q \in Producers : item'[q] = item[q] /\ pc'[q] = pc[q]
      BY <1>17 DEF Inv, RingTypeOK, PoolTyped, ReleaseConsumer
    <2> QED BY <2>1, <2>2 DEF Promises
  <1>18. ASSUME ReleaseProducer(Owner) /\ UNCHANGED poolVars PROVE Promises'
    <2>1. Kept \subseteq Kept'
      <3>1. \A v \in Consumers : ~(pc[v] = "true" /\ pc'[v] = "idle")
        BY <1>18 DEF Inv, RingTypeOK, ReleaseProducer
      <3> QED BY <3>1, KeptStep DEF KeptOn
    <2>2. future' = future /\ \A q \in Producers : item'[q] = item[q] /\ pc'[q] = pc[q]
      BY <1>18 DEF Inv, RingTypeOK, PoolTyped, ReleaseProducer
    <2> QED BY <2>1, <2>2 DEF Promises
  <1>19. ASSUME StopEnds(Owner) /\ UNCHANGED poolVars PROVE Promises'
    <2>1. Kept \subseteq Kept'
      <3>1. \A v \in Consumers : ~(pc[v] = "true" /\ pc'[v] = "idle")
        BY <1>19 DEF Inv, RingTypeOK, StopEnds
      <3> QED BY <3>1, KeptStep DEF KeptOn
    <2>2. future' = future /\ \A q \in Producers : item'[q] = item[q] /\ pc'[q] = pc[q]
      BY <1>19 DEF Inv, RingTypeOK, PoolTyped, StopEnds
    <2> QED BY <2>1, <2>2 DEF Promises
  <1>20. ASSUME StopReturns PROVE Promises'
    <2>1. Kept \subseteq Kept'
      <3>1. \A v \in Consumers : ~(pc[v] = "true" /\ pc'[v] = "idle")
        BY <1>20 DEF Inv, RingTypeOK, StopReturns, ringVars
      <3> QED BY <3>1, KeptStep DEF KeptOn
    <2>2. future' = future /\ \A q \in Producers : item'[q] = item[q] /\ pc'[q] = pc[q]
      BY <1>20 DEF Inv, RingTypeOK, PoolTyped, StopReturns, ringVars
    <2> QED BY <2>1, <2>2 DEF Promises
  <1>21. ASSUME JoinWorker PROVE Promises'
    <2>1. Kept \subseteq Kept'
      <3>1. \A v \in Consumers : ~(pc[v] = "true" /\ pc'[v] = "idle")
        BY <1>21 DEF Inv, RingTypeOK, JoinWorker, ringVars
      <3> QED BY <3>1, KeptStep DEF KeptOn
    <2>2. future' = future /\ \A q \in Producers : item'[q] = item[q] /\ pc'[q] = pc[q]
      BY <1>21 DEF Inv, RingTypeOK, PoolTyped, JoinWorker, ringVars
    <2> QED BY <2>1, <2>2 DEF Promises
  <1>22. ASSUME Destroyed PROVE Promises'
    <2>1. Kept \subseteq Kept'
      <3>1. \A v \in Consumers : ~(pc[v] = "true" /\ pc'[v] = "idle")
        BY <1>22 DEF Inv, RingTypeOK, Destroyed, ringVars
      <3> QED BY <3>1, KeptStep DEF KeptOn
    <2>2. future' = future /\ \A q \in Producers : item'[q] = item[q] /\ pc'[q] = pc[q]
      BY <1>22 DEF Inv, RingTypeOK, PoolTyped, Destroyed, ringVars
    <2> QED BY <2>1, <2>2 DEF Promises
  <1>23. ASSUME Destroy PROVE Promises'
    <2>1. Kept \subseteq Kept'
      <3>1. \A v \in Consumers : ~(pc[v] = "true" /\ pc'[v] = "idle")
        BY <1>23 DEF Inv, RingTypeOK, Destroy, Stop
      <3> QED BY <3>1, KeptStep DEF KeptOn
    <2>2. future' = future /\ \A q \in Producers : item'[q] = item[q] /\ pc'[q] = pc[q]
      BY <1>23 DEF Inv, RingTypeOK, PoolTyped, Destroy, Stop
    <2> QED BY <2>1, <2>2 DEF Promises
  <1>24. ASSUME NEW p \in Producers, UseDestroyed(p) PROVE Promises'
    <2>1. Kept \subseteq Kept'
      <3>1. \A v \in Consumers : ~(pc[v] = "true" /\ pc'[v] = "idle")
        BY <1>24 DEF Inv, RingTypeOK, UseDestroyed, ringVars
      <3> QED BY <3>1, KeptStep DEF KeptOn
    <2>2. future' = future /\ \A q \in Producers : item'[q] = item[q] /\ pc'[q] = pc[q]
      BY <1>24 DEF Inv, RingTypeOK, PoolTyped, UseDestroyed, ringVars
    <2> QED BY <2>1, <2>2 DEF Promises
  <1> QED
    BY <1>1, <1>2, <1>3, <1>4, <1>5, <1>6, <1>7, <1>8, <1>9, <1>10, <1>11, <1>12, <1>13, <1>14,
       <1>15, <1>16, <1>17, <1>18, <1>19, <1>20, <1>21, <1>22, <1>23, <1>24, PoolCases

LEMMA PostingStep == ASSUME Inv, PoolTyped, Posting, [Next]_vars PROVE Posting'
  <1> USE PoolKinds, SizeFact DEF Posting, poolVars, ringVars, history, Goto, At
  <1>0. /\ pc \in [Threads -> Steps] /\ posts \in [Threads -> Nat] /\ posted \in Nat
        /\ Producers \subseteq Threads /\ Consumers \subseteq Threads
    BY Kinds DEF Inv, RingTypeOK
  <1>1. CASE UNCHANGED vars BY <1>1 DEF vars
  <1>2. ASSUME NEW p \in Producers, NEW i \in DOMAIN Calls[p], Enqueue(p, i) PROVE Posting'
    BY <1>2, <1>0 DEF Enqueue, Emplace
  <1>3. ASSUME NEW p \in Producers, EnqueueReturns(p) PROVE Posting'
    BY <1>3, <1>0 DEF EnqueueReturns, Resume
  <1>4. ASSUME NEW p \in Producers, WaitFull(p) /\ UNCHANGED poolVars PROVE Posting'
    BY <1>4, <1>0 DEF WaitFull
  <1>5. ASSUME NEW p \in Producers, TestStop(p) /\ UNCHANGED poolVars PROVE Posting'
    BY <1>5, <1>0 DEF TestStop
  <1>6. ASSUME NEW p \in Producers, Store(p) /\ UNCHANGED poolVars PROVE Posting'
    BY <1>6, <1>0 DEF Store
  <1>7. ASSUME NEW p \in Producers, PostEmpty(p) /\ UNCHANGED poolVars PROVE Posting'
    BY <1>7, <1>0 DEF PostEmpty
  <1>8. ASSUME NEW w \in Consumers, PopNext(w) PROVE Posting'
    BY <1>8, <1>0 DEF PopNext, Pop
  <1>9. ASSUME NEW w \in Consumers, RunTask(w) PROVE Posting'
    BY <1>9, <1>0 DEF RunTask, Resume
  <1>10. ASSUME NEW w \in Consumers, WaitEmpty(w) /\ UNCHANGED poolVars PROVE Posting'
    BY <1>10, <1>0 DEF WaitEmpty
  <1>11. ASSUME NEW w \in Consumers, TestEmpty(w) /\ UNCHANGED poolVars PROVE Posting'
    BY <1>11, <1>0 DEF TestEmpty
  <1>12. ASSUME NEW w \in Consumers, Take(w) /\ UNCHANGED poolVars PROVE Posting'
    BY <1>12, <1>0 DEF Take
  <1>13. ASSUME NEW w \in Consumers, PostFull(w) /\ UNCHANGED poolVars PROVE Posting'
    BY <1>13, <1>0 DEF PostFull
  <1>14. ASSUME NEW w \in Consumers, StartWorker(w) PROVE Posting'
    BY <1>14, <1>0 DEF StartWorker
  <1>15. ASSUME Constructed PROVE Posting'
    BY <1>15, <1>0 DEF Constructed
  <1>16. ASSUME SetStop(Owner) /\ UNCHANGED poolVars PROVE Posting'
    BY <1>16, <1>0 DEF SetStop
  <1>17. ASSUME ReleaseConsumer(Owner) /\ UNCHANGED poolVars PROVE Posting'
    BY <1>17, <1>0 DEF ReleaseConsumer
  <1>18. ASSUME ReleaseProducer(Owner) /\ UNCHANGED poolVars PROVE Posting'
    BY <1>18, <1>0 DEF ReleaseProducer
  <1>19. ASSUME StopEnds(Owner) /\ UNCHANGED poolVars PROVE Posting'
    BY <1>19, <1>0 DEF StopEnds
  <1>20. ASSUME StopReturns PROVE Posting'
    BY <1>20, <1>0 DEF StopReturns
  <1>21. ASSUME JoinWorker PROVE Posting'
    BY <1>21, <1>0 DEF JoinWorker
  <1>22. ASSUME Destroyed PROVE Posting'
    BY <1>22, <1>0 DEF Destroyed
  <1>23. ASSUME Destroy PROVE Posting'
    BY <1>23, <1>0 DEF Destroy, Stop
  <1>24. ASSUME NEW p \in Producers, UseDestroyed(p) PROVE Posting'
    BY <1>24, <1>0 DEF UseDestroyed
  <1> HIDE DEF Posting
  <1> QED
    BY <1>1, <1>2, <1>3, <1>4, <1>5, <1>6, <1>7, <1>8, <1>9, <1>10, <1>11, <1>12, <1>13, <1>14,
       <1>15, <1>16, <1>17, <1>18, <1>19, <1>20, <1>21, <1>22, <1>23, <1>24, PoolCases

\* Every behaviour of the pool is one of the ring.
THEOREM PoolUsesRing == Spec => RingSpec
  <1>1. Init => RingInit BY DEF Init
  <1>2. [Next]_vars => [RingNext]_ringVars BY PoolStep
  <1> QED BY <1>1, <1>2, PTL DEF Spec, RingSpec

LEMMA PoolInvInit ==
  ASSUME Init PROVE PoolTyped /\ Leaving /\ Building /\ Promises /\ Posting
  <1> USE Kinds DEF Init, RingInit
  <1>1. PoolTyped
    <2>1. workers \in Seq(Consumers) /\ Len(workers) = 0 OBVIOUS
    <2> QED BY <2>1 DEF PoolTyped, Phases, Futures
  <1>2. Leaving /\ Building /\ Promises BY DEF Leaving, Building, Promises
  <1>3. Posting BY PoolKinds DEF Posting
  <1> QED BY <1>1, <1>2, <1>3

\* The inductive invariant of the pool.
THEOREM PoolInvAlways ==
  Spec => [](Inv /\ PoolTyped /\ Leaving /\ Building /\ Promises /\ Posting)
  <1> DEFINE J == Inv /\ PoolTyped /\ Leaving /\ Building /\ Promises /\ Posting
  <1>1. Init => J BY InvInit, PoolInvInit DEF Init
  <1>2. J /\ [Next]_vars => J'
    BY PoolStep, InvStep, TypedStep, LeavingStep, BuildingStep, PromisesStep, PostingStep
  <1> QED BY <1>1, <1>2, PTL DEF Spec

\* The types of the pool's variables and of its queue's.
THEOREM TypeCorrect == Spec => []TypeOK
  <1>1. Inv /\ PoolTyped => TypeOK BY DEF Inv, PoolTyped, TypeOK
  <1> QED BY <1>1, PoolInvAlways, PTL

LEMMA InvAllOrNone ==
  ASSUME Inv, PoolTyped, Leaving, Building, Promises PROVE AllOrNone
  <1> SUFFICES ASSUME phase = "gone"
               PROVE  \/ \A x \in Items : Accepted(x) => future[x] # "pending"
                      \/ Len(content) = Size /\ \A x \in Items :
                           future[x] = "pending" => \E i \in DOMAIN content : content[i] = x
    BY DEF AllOrNone
  <1>1. Len(workers) = Size /\ joined = Size /\ workers \in Seq(Consumers)
    BY DEF Building, PoolTyped
  <1>2. \A c \in Consumers : pc[c] \in {"idle", "false"}
    BY <1>1 DEF Building, Started
  <1>3. head = tail
    <2>1. workers[1] \in Consumers /\ pc[workers[1]] = "false"
      BY <1>1, SizeFact DEF Building
    <2> QED BY <2>1 DEF Leaving
  <1>4. Len(content) = 0 \/ Len(content) = Size
    <2>1. /\ Len(content) \in Nat /\ Len(content) <= Size /\ head \in Index
          /\ tail = Slot(head, Len(content))
      BY DEF Inv, RingTypeOK, Geometry
    <2>2. CASE Len(content) < Size
      <3>1. Len(content) \in 0..(Size - 1) /\ 0 \in 0..(Size - 1) BY <2>1, <2>2, SizeFact
      <3>2. Slot(head, 0) = Slot(head, Len(content)) BY <1>3, <2>1, SlotFacts
      <3> QED BY <2>1, <3>1, <3>2, SlotFacts
    <2> QED BY <2>1, <2>2, SizeFact
  <1>5. \A x \in Items : future[x] = "pending" => \E i \in DOMAIN content : content[i] = x
    BY <1>2 DEF Promises, Kept, InQueue, InHand
  <1>6. CASE Len(content) = 0
    <2>1. DOMAIN content = {} BY <1>6 DEF Inv, RingTypeOK
    <2> QED BY <1>5, <2>1
  <1> QED BY <1>4, <1>5, <1>6

\* The destructor leaves no accepted task behind, or exactly a full ring of them.
THEOREM NothingLostUnlessFull == Spec => []AllOrNone
  <1>1. Inv /\ PoolTyped /\ Leaving /\ Building /\ Promises => AllOrNone BY InvAllOrNone
  <1> QED BY <1>1, PoolInvAlways, PTL

LEMMA InvReleased == ASSUME Inv, PoolTyped, Posting PROVE ClientsReleased
  <1> SUFFICES ASSUME phase = "joining", full = 0,
                      \A p \in Producers : pc[p] # "put_lock",
                      \A w \in Consumers : pc[w] # "take_post"
               PROVE  FALSE
    BY DEF ClientsReleased, At, Inv, RingTypeOK
  <1>1. posted = Size /\ pc[Owner] = "true" BY DEF Posting
  <1>2. stop BY <1>1, SizeFact DEF Inv, Counting
  <1>3. Promised = 0
    <2>1. {t \in Producers : pc[t] \in {"put_lock", "put_write"}} = {} BY <1>2 DEF Inv, Inside
    <2> QED BY <2>1, FS_EmptySet DEF Promised, Count
  <1>4. Returning = 0
    <2>1. {t \in Consumers : pc[t] \in {"take_post"}} = {} OBVIOUS
    <2> QED BY <2>1, FS_EmptySet DEF Returning, Count
  <1>5. Reposting = 0
    <2>1. {t \in Stoppers : pc[t] \in {"stop_full"}} = {} BY <1>1, PoolKinds
    <2> QED BY <2>1, FS_EmptySet DEF Reposting, Count
  <1> QED BY <1>1, <1>3, <1>4, <1>5, SizeFact DEF Inv, RingTypeOK, Counting, Geometry

\* Once Stop has returned there is a slot for a client that waits, or somebody is about to give one
\* back, however many clients and workers there are and whatever is left in the ring.
THEOREM ClientsAreReleased == Spec => []ClientsReleased
  <1>1. Inv /\ PoolTyped /\ Posting => ClientsReleased BY InvReleased
  <1> QED BY <1>1, PoolInvAlways, PTL

\* What the ring guarantees, for the queue of the pool.
THEOREM PoolSlotsExclusive == Spec => []SlotsExclusive /\ []TailIsStable /\ ImplementsFIFO
  BY PoolUsesRing, RingSlotsExclusive, RingTailStable, RingIsFIFO
=============================================================================
