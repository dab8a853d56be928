--------------------- MODULE EventDispatcherOrder_proofs ----------------------
(***************************************************************************)
(* Proofs about the order in which the dispatcher runs subtasks, about     *)
(* Stop and the end of the process, and about what the maps hold.          *)
(***************************************************************************)
EXTENDS EventDispatcherGraph_proofs

-----------------------------------------------------------------------------
(* The order of submission. *)

\* The subtasks of the main task of t are all submitted before s, and become ready at a priority
\* no lower.
Above(t, s) ==
  /\ Siblings(t) \subseteq After[s]
  /\ \A k, m \in MainTasks : MainName[k] = MainTaskName[t] /\ MainName[m] = MainTaskName[s]
                               => Priority[k] >= Priority[m]
\* Subtask t is dispatched before s: it has been submitted before s, to the same main task or to
\* one that is above.
Ahead(t, s) == t \in After[s] /\ (t \in Siblings(s) \/ Above(t, s))

\* Whatever holds subtasks keeps the order, and what is behind does not pass what is ahead.
Gone(s) == AtWork(s) \/ started[s] > 0
ListOrder ==
  \A m \in MainTasks : \A i, j \in DOMAIN main_to_subtasks[m] :
    main_to_subtasks[m][j] \in After[main_to_subtasks[m][i]] => j < i
QueueOrder ==
  \A p \in Priorities : \A i, j \in DOMAIN ready_subtasks[p] :
    Ahead(ready_subtasks[p][j], ready_subtasks[p][i]) => j < i
RingOrder == \A i, j \in DOMAIN ring : Ahead(ring[j], ring[i]) => j < i
PlaceOrder ==
  \A s, t \in SubTasks : Ahead(t, s) =>
    /\ Queued(t) => ~Enqueued(s)
    /\ Queued(t) \/ Enqueued(t) => ~Gone(s)
OrderInv == ListOrder /\ QueueOrder /\ RingOrder /\ PlaceOrder

\* A subtask that is listed or present has been submitted after the calls before it.
LEMMA IssuedAfter ==
  ASSUME PriorityInv, CallsOK, NEW s \in SubTasks, main_task_id[s] # None, NEW t \in After[s]
  PROVE  \A c \in Clients : call[c] # t
BY DEF PriorityInv, IdOfCall, CallsOK, Returned

\* When the list of t is pushed, nothing that is behind t is anywhere yet.
LEMMA PushedLast ==
  ASSUME PriorityInv, DependencyInv, PushOK, PlacesOK,
         NEW c \in Clients, cpc[c] \in Pushing,
         NEW t \in SubTasks, main_task_id[t] = main_task_id[call[c]],
         NEW s \in SubTasks, Ahead(t, s)
  PROVE  ~Present(s)
<1> SUFFICES ASSUME Present(s) PROVE FALSE OBVIOUS
<1>0. TypeInv /\ CallsOK /\ CountsOK BY DEF PriorityInv, DependencyInv
<1>1. None \notin MainTasks BY ConstantsAssumption DEF Calls
<1>2. Released(s) BY <1>0, PresentReleased
<1>3. PICK k \in MainTasks : k = main_task_id[s] /\ Complete(k) BY <1>2 DEF Released
<1>4. /\ call[c] \in SubTasks /\ main_task_id[call[c]] \in MainTasks
  BY <1>0 DEF TypeInv, ClientInv, ClientShape, AddingSub, Pushing
<1>5. PICK m \in MainTasks : m = main_task_id[call[c]] BY <1>4
<1>6. /\ MainTaskName[s] = MainName[k]
      /\ MainTaskName[t] = MainName[m] /\ MainTaskName[call[c]] = MainName[m]
  BY <1>0, <1>1, <1>3, <1>4, <1>5 DEF CountsOK
<1>7. CASE t \in Siblings(s)
  <2>1. MainTaskName[t] = MainName[k] BY <1>6, <1>7 DEF Siblings
  <2>2. main_task_id[t] = k BY <1>3, <2>1 DEF Complete
  <2> QED BY <1>3, <2>2 DEF PushOK
<1>8. CASE Above(t, s)
  <2>1. call[c] \in After[s] BY <1>4, <1>6, <1>8 DEF Above, Siblings
  <2> QED BY <1>0, <1>1, <1>3, <2>1, IssuedAfter
<1> QED BY <1>7, <1>8 DEF Ahead

\* A step in which the lists and queues stay, or lose what they have, and nothing gets ahead.
LEMMA OrderStays ==
  ASSUME OrderInv, UNCHANGED <<ready_subtasks, ring>>,
         \A m \in MainTasks :
           main_to_subtasks'[m] = <<>> \/ main_to_subtasks'[m] = main_to_subtasks[m],
         \A s \in SubTasks : Gone(s)' => Gone(s)
  PROVE  OrderInv'
<1>1. \A s \in SubTasks : (Queued(s)' <=> Queued(s)) /\ (Enqueued(s)' <=> Enqueued(s))
  BY DEF Queued, Enqueued
<1>2. ListOrder' BY DEF OrderInv, ListOrder
<1>3. QueueOrder' /\ RingOrder' BY DEF OrderInv, QueueOrder, RingOrder
<1>4. PlaceOrder' BY <1>1 DEF OrderInv, PlaceOrder
<1> QED BY <1>2, <1>3, <1>4 DEF OrderInv

\* A subtask is listed after those that have been submitted before it (line 296).
LEMMA AppendOrder ==
  ASSUME PriorityInv, DependencyInv, MembersOK, OrderInv, NEW c \in Clients, ClientStep(c),
         AppendMember(c)
  PROVE  OrderInv'
<1>0. TypeInv /\ CallsOK BY DEF PriorityInv, DependencyInv
<1>1. PICK s \in SubTasks, m \in MainTasks : s = call[c] /\ m = main_task_id[s]
  BY <1>0, ListingStep DEF Listing
<1>2. PICK q \in Seq(SubTasks) : q = main_to_subtasks[m] BY <1>0 DEF TypeInv, MapsOK
<1>3. /\ main_to_subtasks'[m] = Append(q, s)
      /\ \A k \in MainTasks \ {m} : main_to_subtasks'[k] = main_to_subtasks[k]
  BY <1>0, <1>1, <1>2 DEF AppendMember, TypeInv, MapsOK
<1>4. main_task_id[s] # None BY <1>1, ConstantsAssumption DEF Calls
<1>5. \A i \in DOMAIN Append(q, s) :
        \/ i \in DOMAIN q /\ Append(q, s)[i] = q[i] /\ q[i] \in SubTasks /\ i < Len(q) + 1
        \/ i = Len(q) + 1 /\ Append(q, s)[i] = s
  BY <1>2
<1>6. \A i \in DOMAIN q : s \notin After[q[i]]
  BY <1>0, <1>1, <1>2, <1>5, IssuedAfter DEF MembersOK, Beyond
<1>7. s \notin After[s] BY <1>0, <1>1, <1>4, IssuedAfter
<1>8. \A i, j \in DOMAIN q : q[j] \in After[q[i]] => j < i BY <1>2 DEF OrderInv, ListOrder
<1>9. \A i, j \in DOMAIN Append(q, s) : Append(q, s)[j] \in After[Append(q, s)[i]] => j < i
  BY <1>5, <1>6, <1>7, <1>8
<1>10. ListOrder'
  <2> SUFFICES ASSUME NEW k \in MainTasks, NEW i \in DOMAIN main_to_subtasks'[k],
                      NEW j \in DOMAIN main_to_subtasks'[k],
                      main_to_subtasks'[k][j] \in After[main_to_subtasks'[k][i]]
               PROVE  j < i
    BY DEF ListOrder
  <2>1. CASE k = m BY <1>3, <1>9, <2>1
  <2>2. CASE k # m BY <1>3, <2>2 DEF OrderInv, ListOrder
  <2> QED BY <2>1, <2>2
<1>11. UNCHANGED <<ready_subtasks, ring, job, started>>
  BY <1>0, ListingStep, ClientFrame
  DEF Listing, AppendMember, PushMembers, clientOther, queueVars, workerVars, histVars
<1>12. /\ \A t \in SubTasks : Queued(t)' <=> Queued(t)
       /\ \A t \in SubTasks : Enqueued(t)' <=> Enqueued(t)
       /\ \A t \in SubTasks : Gone(t)' <=> Gone(t)
  BY <1>11 DEF Queued, Enqueued, Gone, AtWork
<1>13. QueueOrder' /\ RingOrder' BY <1>11 DEF OrderInv, QueueOrder, RingOrder
<1>14. PlaceOrder' BY <1>12 DEF OrderInv, PlaceOrder
<1> QED BY <1>10, <1>13, <1>14 DEF OrderInv

\* A list is pushed behind what is in the queue, which is not behind it (line 313).
LEMMA PushOrder ==
  ASSUME PriorityInv, DependencyInv, PushOK, PlacesOK, OrderInv, NEW c \in Clients,
         ClientStep(c), PushMembers(c), NEW m \in MainTasks, Pushes(c, m)
  PROVE  OrderInv'
<1>0. TypeInv BY DEF PriorityInv
<1>1. Priority[m] \in Priorities BY ConstantsAssumption
<1>2. PICK q \in Seq(SubTasks) : q = ready_subtasks[Priority[m]]
  BY <1>0, <1>1 DEF TypeInv, QueuesOK
<1>3. PICK l \in Seq(SubTasks) : l = main_to_subtasks[m] BY <1>0 DEF TypeInv, MapsOK
<1>4. /\ ready_subtasks'[Priority[m]] = q \o l
      /\ \A p \in Priorities \ {Priority[m]} : ready_subtasks'[p] = ready_subtasks[p]
  BY <1>2, <1>3 DEF Pushes
<1>5. UNCHANGED <<ring, job, started, main_to_subtasks>>
  BY <1>0, ClientFrame, ListingStep
  DEF Listing, workerVars, PushMembers, taskVars, mainVars, mainMaps
<1>6. \A t, s \in SubTasks : main_task_id[t] = m /\ Ahead(t, s) => ~Present(s)
  BY PushedLast DEF Pushes, Pushing
<1>7. \A i \in DOMAIN l : l[i] \in SubTasks /\ main_task_id[l[i]] = m
  BY <1>3 DEF PriorityInv, ListedUnderMain
<1>8. \A i \in DOMAIN q : q[i] \in SubTasks /\ Present(q[i])
  BY <1>1, <1>2 DEF Present, Queued
<1>9. \A i \in DOMAIN (q \o l) :
        \/ i \in DOMAIN q /\ (q \o l)[i] = q[i] /\ i <= Len(q)
        \/ i \in Nat /\ i > Len(q) /\ i - Len(q) \in DOMAIN l /\ (q \o l)[i] = l[i - Len(q)]
  OBVIOUS
<1>10. \A i, j \in DOMAIN q : Ahead(q[j], q[i]) => j < i
  BY <1>1, <1>2 DEF OrderInv, QueueOrder
<1>11. \A i, j \in DOMAIN l : Ahead(l[j], l[i]) => j < i
  BY <1>3 DEF OrderInv, ListOrder, Ahead
<1>12. \A i \in DOMAIN q : \A j \in DOMAIN l : ~Ahead(l[j], q[i]) BY <1>6, <1>7, <1>8
<1>13. ASSUME NEW i \in DOMAIN (q \o l), NEW j \in DOMAIN (q \o l),
              Ahead((q \o l)[j], (q \o l)[i])
       PROVE  j < i
  <2> DEFINE n == Len(q)
  <2>0. n \in Nat /\ i \in Nat /\ j \in Nat OBVIOUS
  <2>1. CASE i \in DOMAIN q /\ j \in DOMAIN q
    <3>1. (q \o l)[i] = q[i] /\ (q \o l)[j] = q[j] BY <2>1
    <3> QED BY <1>10, <1>13, <2>1, <3>1
  <2>2. CASE i \in DOMAIN q /\ j \notin DOMAIN q
    <3>1. (q \o l)[i] = q[i] /\ j - n \in DOMAIN l /\ (q \o l)[j] = l[j - n] BY <1>9, <2>2
    <3> QED BY <1>12, <1>13, <2>2, <3>1
  <2>3. CASE i \notin DOMAIN q /\ j \in DOMAIN q BY <1>9, <2>0, <2>3
  <2>4. CASE i \notin DOMAIN q /\ j \notin DOMAIN q
    <3>1. /\ i - n \in DOMAIN l /\ (q \o l)[i] = l[i - n]
          /\ j - n \in DOMAIN l /\ (q \o l)[j] = l[j - n]
      BY <1>9, <2>4
    <3>2. j - n < i - n BY <1>11, <1>13, <3>1
    <3> QED BY <2>0, <3>2
  <2> QED BY <2>1, <2>2, <2>3, <2>4
<1>14. QueueOrder'
  <2> SUFFICES ASSUME NEW p \in Priorities, NEW i \in DOMAIN ready_subtasks'[p],
                      NEW j \in DOMAIN ready_subtasks'[p],
                      Ahead(ready_subtasks'[p][j], ready_subtasks'[p][i])
               PROVE  j < i
    BY DEF QueueOrder, Ahead, Above, Siblings
  <2>1. CASE p = Priority[m] BY <1>4, <1>13, <2>1
  <2>2. CASE p # Priority[m] BY <1>4, <2>2 DEF OrderInv, QueueOrder
  <2> QED BY <2>1, <2>2
<1>15. \A s \in SubTasks : (Enqueued(s)' <=> Enqueued(s)) /\ (Gone(s)' <=> Gone(s))
  BY <1>5 DEF Enqueued, Gone, AtWork
<1>16. \A s \in SubTasks : Queued(s)' => Queued(s) \/ main_task_id[s] = m BY DEF Pushes
<1>17. PlaceOrder'
  <2> SUFFICES ASSUME NEW s \in SubTasks, NEW t \in SubTasks, Ahead(t, s)
               PROVE  /\ Queued(t)' => ~Enqueued(s)'
                      /\ Queued(t)' \/ Enqueued(t)' => ~Gone(s)'
    BY DEF PlaceOrder, Ahead, Above, Siblings
  <2>1. CASE main_task_id[t] = m
    <3>1. ~Enqueued(s) /\ ~Gone(s) BY <1>6, <2>1 DEF Present, Gone
    <3> QED BY <1>15, <3>1
  <2>2. CASE main_task_id[t] # m BY <1>15, <1>16, <2>2 DEF OrderInv, PlaceOrder
  <2> QED BY <2>1, <2>2
<1>18. ListOrder' /\ RingOrder' BY <1>5 DEF OrderInv, ListOrder, RingOrder
<1> QED BY <1>14, <1>17, <1>18 DEF OrderInv

\* No step of a client disturbs the order.
LEMMA ClientStepOrder ==
  ASSUME PriorityInv, DependencyInv, PlaceInv, OrderInv, NEW c \in Clients, ClientStep(c)
  PROVE  OrderInv'
<1> USE DEF PlaceInv
<1>0. TypeInv BY DEF PriorityInv
<1>1. CASE AppendMember(c) BY <1>1, AppendOrder
<1>2. CASE PushMembers(c) /\ ready_subtasks' # ready_subtasks
  BY <1>2, PushMoves, PushOrder
<1>3. CASE ~AppendMember(c) /\ UNCHANGED ready_subtasks
  <2>1. UNCHANGED main_to_subtasks BY <1>0, <1>3, QuietStep, ListingStep
  <2>2. \A s \in SubTasks : Gone(s)' <=> Gone(s) BY ClientFrame DEF Gone, AtWork, workerVars
  <2> QED BY <1>3, <2>1, <2>2, ClientFrame, OrderStays
<1> QED BY <1>0, <1>1, <1>2, <1>3, QuietStep, ListingStep

\* Workers take what is ahead first: the ring is a queue (RingQueue.hpp).
LEMMA PopOrder ==
  ASSUME TypeInv, PlacesOK, OrderInv, NEW w \in Workers, WorkerStep(w), Pop(w) PROVE OrderInv'
<1>1. PICK q \in Seq(SubTasks) : q = ring /\ q # <<>> BY DEF Pop, TypeInv, QueuesOK
<1>2. ring' = Tail(q) /\ Head(q) \in SubTasks /\ Head(q) = q[1] /\ 1 \in DOMAIN q
  BY <1>1 DEF Pop
<1>3. \A i \in DOMAIN Tail(q) : i + 1 \in DOMAIN q /\ Tail(q)[i] = q[i + 1] /\ i \in Nat \ {0}
  BY <1>1
<1>4. \A i, j \in DOMAIN q : Ahead(q[j], q[i]) => j < i BY <1>1 DEF OrderInv, RingOrder
<1>5. RingOrder'
  <2> SUFFICES ASSUME NEW i \in DOMAIN Tail(q), NEW j \in DOMAIN Tail(q),
                      Ahead(Tail(q)[j], Tail(q)[i])
               PROVE  j < i
    BY <1>2 DEF RingOrder, Ahead, Above, Siblings
  <2>1. j + 1 < i + 1 BY <1>3, <1>4
  <2> QED BY <1>3, <2>1
<1>6. \A s \in SubTasks : Gone(s)' => Gone(s) \/ s = Head(q)
  <2>1. job'[w] = Head(q) /\ \A v \in Workers \ {w} : job'[v] = job[v]
    BY <1>1 DEF Pop, WJob, TypeInv, WorkerInv, WorkersOK
  <2>2. UNCHANGED started BY DEF Pop, histVars
  <2> QED BY <2>1, <2>2 DEF Gone, AtWork
<1>7. \A s \in SubTasks : Enqueued(s)' => Enqueued(s) BY PopMoves
<1>8. UNCHANGED <<ready_subtasks, main_to_subtasks>>
  BY DEF Pop, taskVars, mainVars, mainMaps
<1>9. \A s \in SubTasks : Queued(s)' <=> Queued(s) BY <1>8 DEF Queued
<1>10. Enqueued(Head(q)) BY <1>1, <1>2 DEF Enqueued
<1>11. \A t \in SubTasks : Ahead(t, Head(q)) => ~Enqueued(t)
  <2> SUFFICES ASSUME NEW j \in DOMAIN q, Ahead(q[j], q[1]) PROVE FALSE
    BY <1>1, <1>2 DEF Enqueued
  <2>1. j < 1 /\ j \in Nat \ {0} BY <1>1, <1>2, <1>4
  <2> QED BY <2>1
<1>12. PlaceOrder'
  <2> SUFFICES ASSUME NEW s \in SubTasks, NEW t \in SubTasks, Ahead(t, s)
               PROVE  /\ Queued(t)' => ~Enqueued(s)'
                      /\ Queued(t)' \/ Enqueued(t)' => ~Gone(s)'
    BY DEF PlaceOrder, Ahead, Above, Siblings
  <2> QED BY <1>2, <1>6, <1>7, <1>9, <1>10, <1>11 DEF OrderInv, PlaceOrder
<1>13. ListOrder' /\ QueueOrder' BY <1>8 DEF OrderInv, ListOrder, QueueOrder
<1> QED BY <1>5, <1>12, <1>13 DEF OrderInv

\* A worker puts nothing into a list or a queue, and only Pop gives it a subtask.
LEMMA WorkerStepOrder ==
  ASSUME TypeInv, PlacesOK, OrderInv, NEW w \in Workers, WorkerStep(w) PROVE OrderInv'
<1>1. CASE Pop(w) BY <1>1, PopOrder
<1>2. CASE ~Pop(w)
  <2>1. UNCHANGED <<ready_subtasks, ring>> BY <1>2, WorkerFrame, WorkerMoves
  <2>2. \A m \in MainTasks :
          main_to_subtasks'[m] = <<>> \/ main_to_subtasks'[m] = main_to_subtasks[m]
    BY WorkerCloses DEF EraseMembers, TypeInv, MapsOK
  <2>3. \A s \in SubTasks : Gone(s)' => Gone(s)
    <3>0. \A s \in SubTasks : s # None BY ConstantsAssumption DEF Calls
    <3>1. CASE StartFunction(w)
      <4>1. /\ job[w] \in SubTasks /\ job' = job
            /\ \A s \in SubTasks \ {job[w]} : started'[s] = started[s]
        BY <3>1, StartMoves
      <4> QED BY <4>1 DEF Gone, AtWork
    <3>2. CASE ~StartFunction(w)
      <4>1. UNCHANGED started BY <3>2, WorkerMoves
      <4>2. /\ \A v \in Workers \ {w} : job'[v] = job[v]
            /\ job'[w] = job[w] \/ job'[w] = None
        BY <1>2, <3>2, WorkerMoves, FinishMoves
      <4> QED BY <3>0, <4>1, <4>2 DEF Gone, AtWork
    <3> QED BY <3>1, <3>2
  <2> QED BY <2>1, <2>2, <2>3, OrderStays
<1> QED BY <1>1, <1>2

\* What the loop takes has nothing ahead of it in any queue (lines 173-184).
LEMMA HeadFirst ==
  ASSUME PriorityInv, DependencyInv, PlacesOK, SweptOK, QueueOrder,
         NEW p \in Priorities, ScanIsAt(p), NEW h \in SubTasks, h = Head(ready_subtasks[p]),
         NEW t \in SubTasks, Ahead(t, h)
  PROVE  ~Queued(t)
<1> SUFFICES ASSUME Queued(t) PROVE FALSE OBVIOUS
<1>0. TypeInv /\ CountsOK BY DEF PriorityInv, DependencyInv
<1>1. PICK q \in Seq(SubTasks) : q = ready_subtasks[p] /\ q # <<>>
  BY <1>0 DEF ScanIsAt, TypeInv, QueuesOK
<1>2. h = q[1] /\ 1 \in DOMAIN q BY <1>1
<1>3. PICK r \in Priorities : \E j \in DOMAIN ready_subtasks[r] : ready_subtasks[r][j] = t
  BY DEF Queued
<1>4. PICK j \in DOMAIN ready_subtasks[r] : ready_subtasks[r][j] = t BY <1>3
<1>5. PICK k \in MainTasks, m \in MainTasks :
        /\ k = main_task_id[t] /\ Priority[k] = r
        /\ m = main_task_id[h] /\ Priority[m] = p
  BY <1>1, <1>2, <1>4 DEF PriorityInv, ReadyAtPriority
<1>6. None \notin MainTasks BY ConstantsAssumption DEF Calls
<1>7. MainTaskName[t] = MainName[k] /\ MainTaskName[h] = MainName[m]
  BY <1>0, <1>5, <1>6 DEF CountsOK
<1>8. r >= p
  <2>1. CASE t \in Siblings(h)
    <3>1. Released(h) BY <1>0, <1>1, <1>2, PresentReleased DEF Present, Queued
    <3>2. main_task_id[t] = m BY <1>5, <1>7, <2>1, <3>1 DEF Released, Complete, Siblings
    <3> QED BY <1>5, <3>2 DEF Priorities, LOWEST, HIGHEST
  <2>2. CASE Above(t, h) BY <1>5, <1>7, <2>2 DEF Above
  <2> QED BY <2>1, <2>2 DEF Ahead
<1>9. r = p
  <2>1. ready_subtasks[r] # <<>> BY <1>4
  <2>2. ~(r > p)
    <3>1. r > p => r > pri \/ (p < r /\ r <= pri)
      BY <1>0 DEF TypeInv, OthersOK, Priorities, LOWEST, HIGHEST
    <3> QED BY <2>1, <3>1 DEF ScanIsAt, SweptOK
  <2> QED BY <1>8, <2>2 DEF Priorities, LOWEST, HIGHEST
<1>10. j < 1 BY <1>1, <1>2, <1>4, <1>9 DEF QueueOrder
<1>11. j \in Nat \ {0} BY <1>1, <1>4, <1>9
<1> QED BY <1>10, <1>11

\* The loop moves a subtask behind those in the ring, which are not behind it (lines 177-183).
LEMMA DispatchOrder ==
  ASSUME PriorityInv, DependencyInv, PlacesOK, SweptOK, OrderInv, LoopStep,
         NEW p \in Priorities, Dispatch(p)
  PROVE  OrderInv'
<1>0. TypeInv BY DEF PriorityInv
<1>1. PICK q \in Seq(SubTasks) : q = ready_subtasks[p] /\ q # <<>>
  BY <1>0 DEF Dispatch, ScanIsAt, TypeInv, QueuesOK
<1>2. PICK g \in Seq(SubTasks) : g = ring BY <1>0 DEF TypeInv, QueuesOK
<1>3. PICK h \in SubTasks : h = Head(q) /\ h = q[1] /\ 1 \in DOMAIN q BY <1>1
<1>4. /\ ready_subtasks'[p] = Tail(q) /\ ring' = Append(g, h)
      /\ \A r \in Priorities \ {p} : ready_subtasks'[r] = ready_subtasks[r]
  BY <1>0, <1>1, <1>2, <1>3 DEF Dispatch, TypeInv, QueuesOK
<1>5. \A i \in DOMAIN Tail(q) : i + 1 \in DOMAIN q /\ Tail(q)[i] = q[i + 1] /\ i \in Nat \ {0}
  BY <1>1
<1>6. \A i, j \in DOMAIN q : Ahead(q[j], q[i]) => j < i BY <1>1 DEF OrderInv, QueueOrder
<1>7. QueueOrder'
  <2> SUFFICES ASSUME NEW r \in Priorities, NEW i \in DOMAIN ready_subtasks'[r],
                      NEW j \in DOMAIN ready_subtasks'[r],
                      Ahead(ready_subtasks'[r][j], ready_subtasks'[r][i])
               PROVE  j < i
    BY DEF QueueOrder, Ahead, Above, Siblings
  <2>1. CASE r = p
    <3>1. j + 1 < i + 1 BY <1>4, <1>5, <1>6, <2>1
    <3>2. i \in Nat /\ j \in Nat BY <1>4, <1>5, <2>1
    <3> QED BY <3>1, <3>2
  <2>2. CASE r # p BY <1>4, <2>2 DEF OrderInv, QueueOrder
  <2> QED BY <2>1, <2>2
<1>8. Queued(h) BY <1>1, <1>3 DEF Queued
<1>9. \A t \in SubTasks : Ahead(t, h) => ~Queued(t)
  BY <1>1, <1>3, HeadFirst DEF Dispatch, OrderInv
<1>10. \A i \in DOMAIN Append(g, h) :
         \/ i \in DOMAIN g /\ Append(g, h)[i] = g[i] /\ g[i] \in SubTasks /\ i < Len(g) + 1
         \/ i = Len(g) + 1 /\ Append(g, h)[i] = h
  OBVIOUS
<1>11. \A i, j \in DOMAIN g : Ahead(g[j], g[i]) => j < i BY <1>2 DEF OrderInv, RingOrder
<1>12. \A i \in DOMAIN g : ~Ahead(h, g[i])
  BY <1>2, <1>8, <1>10 DEF OrderInv, PlaceOrder, Enqueued
<1>13. ~Ahead(h, h) BY <1>8, <1>9
<1>14. RingOrder'
  <2> SUFFICES ASSUME NEW i \in DOMAIN Append(g, h), NEW j \in DOMAIN Append(g, h),
                      Ahead(Append(g, h)[j], Append(g, h)[i])
               PROVE  j < i
    BY <1>4 DEF RingOrder, Ahead, Above, Siblings
  <2> QED BY <1>10, <1>11, <1>12, <1>13
<1>15. /\ \A s \in SubTasks : Queued(s)' => Queued(s)
       /\ \A s \in SubTasks : Enqueued(s)' => Enqueued(s) \/ s = h
  <2>1. \A s \in SubTasks : Enqueued(s)' => Enqueued(s) \/ s = h
    BY <1>2, <1>4, <1>10 DEF Enqueued
  <2> QED BY <2>1, DispatchMoves
<1>16. \A s \in SubTasks : Gone(s)' <=> Gone(s)
  BY LoopFrame DEF Gone, AtWork, workerVars, histVars
<1>17. PlaceOrder'
  <2> SUFFICES ASSUME NEW s \in SubTasks, NEW t \in SubTasks, Ahead(t, s)
               PROVE  /\ Queued(t)' => ~Enqueued(s)'
                      /\ Queued(t)' \/ Enqueued(t)' => ~Gone(s)'
    BY DEF PlaceOrder, Ahead, Above, Siblings
  <2> QED BY <1>8, <1>9, <1>15, <1>16 DEF OrderInv, PlaceOrder
<1>18. ListOrder' BY LoopFrame DEF OrderInv, ListOrder, taskVars, mainVars, mainMaps
<1> QED BY <1>7, <1>14, <1>17, <1>18 DEF OrderInv

\* Its other steps move nothing.
LEMMA LoopStepOrder ==
  ASSUME PriorityInv, DependencyInv, PlacesOK, SweptOK, OrderInv, LoopStep PROVE OrderInv'
<1>1. CASE \E p \in Priorities : Dispatch(p) BY <1>1, DispatchOrder
<1>2. CASE ~\E p \in Priorities : Dispatch(p)
  <2>1. UNCHANGED <<main_to_subtasks, job, started>>
    BY LoopFrame DEF taskVars, mainVars, mainMaps, workerVars, histVars
  <2>2. \A s \in SubTasks : Gone(s)' <=> Gone(s) BY <2>1 DEF Gone, AtWork
  <2> QED BY <1>2, <2>1, <2>2, LoopQuiet, OrderStays
<1> QED BY <1>1, <1>2

\* OrderInv is inductive, with the invariants before it.
LEMMA StepOrder ==
  /\ Init => OrderInv
  /\ PriorityInv /\ DependencyInv /\ PlaceInv /\ OrderInv /\ [Next]_vars => OrderInv'
<1>1. ASSUME Init PROVE OrderInv
  <2>1. /\ \A m \in MainTasks : DOMAIN main_to_subtasks[m] = {}
        /\ \A p \in Priorities : DOMAIN ready_subtasks[p] = {}
        /\ DOMAIN ring = {}
    BY <1>1 DEF Init
  <2>2. \A s \in SubTasks : ~Queued(s) /\ ~Enqueued(s) BY <2>1 DEF Queued, Enqueued
  <2> QED BY <2>1, <2>2 DEF OrderInv, ListOrder, QueueOrder, RingOrder, PlaceOrder
<1>2. ASSUME PriorityInv, DependencyInv, PlaceInv, OrderInv, [Next]_vars PROVE OrderInv'
  <2>0. TypeInv /\ PlacesOK /\ SweptOK BY <1>2 DEF PriorityInv, PlaceInv
  <2>1. ASSUME NEW c \in Clients, ClientStep(c) PROVE OrderInv' BY <1>2, <2>1, ClientStepOrder
  <2>2. ASSUME NEW w \in Workers, WorkerStep(w) PROVE OrderInv'
    BY <1>2, <2>0, <2>2, WorkerStepOrder
  <2>3. CASE LoopStep BY <1>2, <2>0, <2>3, LoopStepOrder
  <2>4. CASE UNCHANGED vars
    <3>1. UNCHANGED <<main_to_subtasks, ready_subtasks, ring, job, started>>
      BY <2>4 DEF vars, taskVars, mainVars, mainMaps, queueVars, workerVars, histVars
    <3>2. \A s \in SubTasks : Gone(s)' <=> Gone(s) BY <3>1 DEF Gone, AtWork
    <3> QED BY <1>2, <3>1, <3>2, OrderStays
  <2> QED BY <1>2, <2>1, <2>2, <2>3, <2>4 DEF Next, Rest
<1> QED BY <1>1, <1>2

\* Subtasks of a main task leave their queue in the order of their submission
\* (EventDispatcher.hpp:296, 311-314, 173-184).
THEOREM SubmissionOrderKept == WellFormed => (Spec => []DispatchedInOrder)
<1> SUFFICES ASSUME WellFormed PROVE Spec => []DispatchedInOrder OBVIOUS
<1> DEFINE Inv == PriorityInv /\ DependencyInv /\ PlaceInv
<1>1. Inv /\ OrderInv => DispatchedInOrder
  <2> SUFFICES ASSUME Inv, OrderInv, NEW s \in SubTasks, ~InReady(s), Copies(s) = 1,
                      NEW t \in Siblings(s) \cap After[s], InReady(t)
               PROVE  FALSE
    BY DEF DispatchedInOrder
  <2>0. PlacesOK /\ t \in SubTasks BY DEF PlaceInv, Siblings
  <2>1. Kept(s) BY <2>0, CopiesOf
  <2>2. ~Queued(s) /\ Queued(t) BY DEF InReady, InReadyAt, Queued
  <2>3. Finished(s) => Gone(s)
    BY <2>0 DEF PlacesOK, Finished, Gone, PriorityInv, TypeInv, OthersOK
  <2>4. Ahead(t, s) BY DEF Ahead
  <2> QED BY <2>0, <2>1, <2>2, <2>3, <2>4 DEF OrderInv, PlaceOrder, Kept, Gone
<1>2. Spec => []Inv BY AllInvariants
<1> HIDE DEF Inv
<1>3. Init => OrderInv BY StepOrder
<1>4. Inv /\ OrderInv /\ [Next]_vars => OrderInv' BY StepOrder DEF Inv
<1> QED BY <1>1, <1>2, <1>3, <1>4, PTL DEF Spec

-----------------------------------------------------------------------------
(* The workers do not all wait. *)

\* Client c makes call k.
Makes(c, k) ==
  \/ k \in MainTasks /\ AddMainTask(c, k)
  \/ k \in SubTasks /\ AddSubTask(c, k)
  \/ k \in Fetches /\ GetSubTaskResult(c, k)
  \/ k \in Starts /\ Start(c, k)
  \/ k \in Stops \cup Exits /\ Stop(c, k)

\* A call that has an outcome has been made by a client.
LEMMA ClientIssues ==
  ASSUME TypeInv, CallsOK, NEW c \in Clients, ClientStep(c),
         NEW k \in Calls, outcome[k] = "unissued", outcome'[k] # "unissued"
  PROVE  Makes(c, k)
<1> USE DEF TypeInv, ClientInv, ClientsOK
<1>1. call[c] # None => outcome[call[c]] # "unissued" BY DEF CallsOK
<1>2. ASSUME NEW j \in Calls, NEW l, NEW s, Enter(c, j, l, s) PROVE k = j BY <1>2 DEF Enter
<1>3. ASSUME NEW j \in Calls, NEW o, Immediately(j, o) PROVE k = j BY <1>3 DEF Immediately
<1>4. ~\E o : Return(c, o) BY DEF Return
<1>5. outcome' # outcome OBVIOUS
<1>6. ASSUME NEW m \in MainTasks, AddMainTask(c, m) PROVE Makes(c, k)
  BY <1>2, <1>6 DEF AddMainTask, Calls, Makes
<1>7. ASSUME NEW s \in SubTasks, AddSubTask(c, s) PROVE Makes(c, k)
  <2>1. k = s BY <1>2, <1>3, <1>7 DEF AddSubTask, Calls
  <2> QED BY <1>7, <2>1 DEF Makes
<1>8. ASSUME NEW f \in Fetches, GetSubTaskResult(c, f) PROVE Makes(c, k)
  <2>1. k = f BY <1>2, <1>3, <1>8 DEF GetSubTaskResult, Calls
  <2> QED BY <1>8, <2>1 DEF Makes
<1>9. ASSUME NEW j \in Starts, Start(c, j) PROVE Makes(c, k)
  BY <1>2, <1>9 DEF Start, Calls, Makes
<1>10. ASSUME NEW j \in Stops \cup Exits, Stop(c, j) PROVE Makes(c, k)
  BY <1>2, <1>10 DEF Stop, Calls, Makes
<1>11. ~TakeResult(c)
  BY <1>1, ConstantsAssumption DEF TakeResult, CAt, ClientShape, Fetching, Calls
<1> QED
  BY <1>4, <1>5, <1>6, <1>7, <1>8, <1>9, <1>10, <1>11
  DEF ClientStep, EnterWaiting, InsertMain, NameSubTask, InsertSubTask, AppendMember,
      EmplaceSlot, FetchMain, CountReady, LockReady, PushMembers, LeaveWaiting, FindSlot,
      WaitSlot, EraseName, EraseSubTask, LaunchLoop, TestJoinable, EnterJoin, Join, AfterJoin,
      DestroyMutexes, StopPool, JoinPool

\* It is made when the calls before it have returned.
LEMMA Issues ==
  ASSUME TypeInv, CallsOK, [Next]_vars, NEW k \in Calls, outcome[k] = "unissued",
         outcome'[k] # "unissued"
  PROVE  \E c \in Clients : MayCall(c, k) /\ Makes(c, k)
<1>1. ASSUME NEW c \in Clients, ClientStep(c) PROVE MayCall(c, k) /\ Makes(c, k)
  BY <1>1, ClientIssues DEF Makes, AddMainTask, AddSubTask, GetSubTaskResult, Start, Stop
<1>2. ASSUME NEW w \in Workers, WorkerStep(w) PROVE FALSE BY <1>2, WorkerFrame
<1>3. CASE LoopStep BY <1>3, LoopFrame
<1>4. CASE UNCHANGED vars BY <1>4 DEF vars
<1> QED BY <1>1, <1>2, <1>3, <1>4 DEF Next, Rest

\* In every set of submitted subtasks one has been submitted before none of the others.
Acyclic == \A X \in SUBSET {s \in SubTasks : outcome[s] # "unissued"} :
             X # {} => \E s \in X : After[s] \cap X = {}

\* A call is made after the calls before it, so that it closes no cycle.
LEMMA StepAcyclic ==
  ASSUME TypeInv, CallsOK, Acyclic, [Next]_vars PROVE Acyclic'
<1> DEFINE Issued == {s \in SubTasks : outcome[s] # "unissued"}
<1>1. SUFFICES ASSUME NEW X \in SUBSET {s \in SubTasks : outcome'[s] # "unissued"}, X # {}
               PROVE  \E s \in X : After[s] \cap X = {}
  BY DEF Acyclic
<1>2. \A s \in SubTasks : s \in Calls BY DEF Calls
<1>3. CASE X \cap Issued # {}
  <2>1. PICK s \in X \cap Issued : After[s] \cap (X \cap Issued) = {}
    BY <1>3 DEF Acyclic
  <2>2. \A k \in After[s] : outcome[k] # "unissued" BY <2>1 DEF CallsOK, Returned
  <2> QED BY <2>1, <2>2
<1>4. CASE X \cap Issued = {}
  <2>1. PICK s \in X : TRUE BY <1>1
  <2>2. \E c \in Clients : MayCall(c, s) BY <1>2, <1>4, <2>1, Issues
  <2>3. \A k \in After[s] : outcome[k] # "unissued" BY <2>2 DEF MayCall, Returned
  <2> QED BY <1>4, <2>1, <2>3
<1> QED BY <1>3, <1>4

\* A main task is added before its subtasks, and a subtask waits only for what is ahead of it.
Ordered == WellFormed /\ \A s \in SubTasks, m \in MainTasks :
                           MainTaskName[s] = MainName[m] => m \in After[s]
Layered == Distinct /\ Ordered /\ \A s, d \in SubTasks : DependsOn(s, d) => Ahead(d, s)

\* What has ended is flagged, or about to be; a worker awaits one of the dependencies it has
\* found; and addSubTask has found the main task.
FlaggedOK ==
  /\ \A s \in SubTasks : Finished(s) =>
       s \in done \/ \E w \in Workers : wpc[w] \in {"post", "flag", "notify"} /\ job[w] = s
  /\ \A w \in Workers : wpc[w] \in {"dep_task", "await"} =>
       /\ dep[w] \in DOMAIN Dependencies[job[w]]
       /\ awaited[w] \in SubTasks /\ main_task_id[awaited[w]] # None
  /\ \A n \in SubNames : sub_task_name_to_id[n] # None =>
       main_task_id[sub_task_name_to_id[n]] # None
KnownOK ==
  /\ \A m \in MainTasks : outcome[m] # "unissued" => main_task_name_to_id[MainName[m]] # None
  /\ \A s \in SubTasks : \A m \in MainTasks :
       outcome[s] # "unissued" /\ MainTaskName[s] = MainName[m] => main_task_id[s] # None
WaitInv == Acyclic /\ FlaggedOK /\ KnownOK

\* A step of a client flags nothing, and names only what has an id.
LEMMA ClientStepFlagged ==
  ASSUME TypeInv, FlaggedOK, IdsStay, NEW c \in Clients, ClientStep(c) PROVE FlaggedOK'
<1>1. UNCHANGED <<workerVars, fn>> BY ClientFrame
<1>2. UNCHANGED done
  BY DEF ClientStep, AddMainTask, EnterWaiting, InsertMain, AddSubTask, NameSubTask,
     InsertSubTask, AppendMember, EmplaceSlot, FetchMain, CountReady, LockReady, PushMembers,
     LeaveWaiting, GetSubTaskResult, FindSlot, WaitSlot, TakeResult, EraseName, EraseSubTask,
     Start, LaunchLoop, Stop, TestJoinable, EnterJoin, Join, DestroyMutexes, StopPool, JoinPool,
     taskVars, subVars, subFields
<1>3. None \notin SubTasks /\ None \notin MainTasks BY ConstantsAssumption DEF Calls
<1>4. \A s \in SubTasks : main_task_id[s] # None => main_task_id'[s] # None BY DEF IdsStay
<1>5. ASSUME NEW n \in SubNames, sub_task_name_to_id'[n] # None
      PROVE  \/ sub_task_name_to_id'[n] = sub_task_name_to_id[n]
             \/ sub_task_name_to_id'[n] \in SubTasks
                  /\ main_task_id[sub_task_name_to_id'[n]] # None
  <2>1. CASE NameSubTask(c)
    <3>1. call[c] \in SubTasks /\ main_task_id[call[c]] \in MainTasks
      BY <2>1 DEF NameSubTask, CAt, TypeInv, ClientInv, ClientShape, AddingSub
    <3> QED BY <1>3, <1>5, <2>1, <3>1 DEF NameSubTask, TypeInv, MapsOK
  <2>2. CASE EraseName(c) BY <1>5, <2>2 DEF EraseName, TypeInv, MapsOK
  <2>3. CASE ~NameSubTask(c) /\ ~EraseName(c)
    BY <2>3 DEF ClientStep, AddMainTask, EnterWaiting, InsertMain, AddSubTask,
     InsertSubTask, AppendMember, EmplaceSlot, FetchMain, CountReady, LockReady, PushMembers,
     LeaveWaiting, GetSubTaskResult, FindSlot, WaitSlot, TakeResult, EraseSubTask,
     Start, LaunchLoop, Stop, TestJoinable, EnterJoin, Join, DestroyMutexes, StopPool, JoinPool,
     taskVars, subVars, subMaps
  <2> QED BY <2>1, <2>2, <2>3
<1>6. \A n \in SubNames : sub_task_name_to_id'[n] # None =>
        main_task_id'[sub_task_name_to_id'[n]] # None
  BY <1>3, <1>4, <1>5 DEF FlaggedOK, TypeInv, MapsOK
<1>7. \A w \in Workers : wpc[w] \in {"dep_task", "await"} =>
        awaited[w] \in SubTasks /\ main_task_id'[awaited[w]] # None
  BY <1>4 DEF FlaggedOK
<1> QED BY <1>1, <1>2, <1>6, <1>7 DEF FlaggedOK, workerVars, Finished

\* A worker flags what it has run (line 96), and awaits what it has looked up (lines 38-63).
LEMMA WorkerStepFlagged ==
  ASSUME TypeInv, FlaggedOK, NEW w \in Workers, WorkerStep(w) PROVE FlaggedOK'
<1> USE DEF TypeInv, WorkerInv, WorkersOK, WorkerShape
<1>0. UNCHANGED <<main_task_id, sub_task_name_to_id>>
  BY DEF WorkerStep, Pop, LeavePool, FindSubTask, LookupDependency, FindDependency,
     AwaitDependency, StartFunction, FinishFunction, PostResult, FlagCompleted,
     NotifyDependents, FindMainTask, CountCompleted, EraseMainTask, UseDestroyed, EraseMembers,
     taskVars, subVars, subMaps, subFields
<1> DEFINE Flagging == {"post", "flag", "notify"}
           Waiting  == {"dep_task", "await"}
<1>1. ASSUME UNCHANGED <<done, fn>>, wpc'[w] \in WorkerSteps,
             \A v \in Workers \ {w} :
               wpc'[v] = wpc[v] /\ job'[v] = job[v] /\ dep'[v] = dep[v] /\ awaited'[v] = awaited[v],
             wpc[w] \in Flagging => wpc'[w] \in Flagging /\ job'[w] = job[w],
             wpc'[w] \in Waiting =>
               /\ dep'[w] \in DOMAIN Dependencies[job'[w]]
               /\ awaited'[w] \in SubTasks /\ main_task_id[awaited'[w]] # None
      PROVE  FlaggedOK'
  <2>1. \A s \in SubTasks : Finished(s)' =>
          s \in done' \/ \E v \in Workers : wpc'[v] \in Flagging /\ job'[v] = s
    BY <1>1 DEF FlaggedOK, Finished
  <2>2. \A v \in Workers : wpc'[v] \in Waiting =>
          /\ dep'[v] \in DOMAIN Dependencies[job'[v]]
          /\ awaited'[v] \in SubTasks /\ main_task_id'[awaited'[v]] # None
    BY <1>0, <1>1 DEF FlaggedOK
  <2>3. \A n \in SubNames : sub_task_name_to_id'[n] # None =>
          main_task_id'[sub_task_name_to_id'[n]] # None
    BY <1>0 DEF FlaggedOK
  <2> QED BY <2>1, <2>2, <2>3 DEF FlaggedOK
<1> USE DEF workerOther, histVars, taskVars, subVars, subFields, WAt
<1>2. ASSUME NEW l, WGoto(w, l)
      PROVE  /\ \A v \in Workers \ {w} : /\ wpc'[v] = wpc[v] /\ job'[v] = job[v]
                                         /\ dep'[v] = dep[v] /\ awaited'[v] = awaited[v]
             /\ wpc'[w] = l /\ job'[w] = job[w] /\ dep'[w] = dep[w] /\ awaited'[w] = awaited[w]
  BY <1>2 DEF WGoto
<1>3. ASSUME NEW l, NEW s, WJob(w, l, s)
      PROVE  /\ \A v \in Workers \ {w} : /\ wpc'[v] = wpc[v] /\ job'[v] = job[v]
                                         /\ dep'[v] = dep[v] /\ awaited'[v] = awaited[v]
             /\ wpc'[w] = l
  BY <1>3 DEF WJob
<1>4. ASSUME NextDependency(w)
      PROVE  /\ \A v \in Workers \ {w} : /\ wpc'[v] = wpc[v] /\ job'[v] = job[v]
                                         /\ dep'[v] = dep[v] /\ awaited'[v] = awaited[v]
             /\ wpc'[w] = "deps"
  BY <1>4 DEF NextDependency
<1> HIDE DEF TypeInv, WorkerInv, WorkersOK, WorkerShape
<1>5. CASE Pop(w) BY <1>1, <1>3, <1>5 DEF Pop, WorkerSteps
<1>6. CASE LeavePool(w) BY <1>1, <1>2, <1>6 DEF LeavePool, WorkerSteps
<1>7. CASE FindSubTask(w) BY <1>1, <1>2, <1>3, <1>7 DEF FindSubTask, WReturn, WorkerSteps
<1>8. CASE LookupDependency(w)
  <2>1. CASE NextDependency(w) BY <1>1, <1>4, <1>8, <2>1 DEF LookupDependency, WorkerSteps
  <2>2. CASE ~NextDependency(w)
    <3>0. job[w] \in SubTasks
      BY <1>8 DEF LookupDependency, TypeInv, WorkerInv, WorkerShape
    <3>1. PICK q \in Seq(SubNames) : q = Dependencies[job[w]]
      BY <3>0, ConstantsAssumption
    <3>2. dep[w] \in DOMAIN q /\ q[dep[w]] \in SubNames
      BY <1>8, <3>1 DEF LookupDependency, TypeInv, WorkerInv, WorkersOK
    <3>3. /\ sub_task_name_to_id[q[dep[w]]] # None
          /\ wpc'[w] = "dep_task" /\ awaited'[w] = sub_task_name_to_id[q[dep[w]]]
          /\ job' = job /\ dep' = dep
          /\ \A v \in Workers \ {w} : wpc'[v] = wpc[v] /\ awaited'[v] = awaited[v]
      BY <1>8, <2>2, <3>1 DEF LookupDependency, TypeInv, WorkerInv, WorkersOK
    <3>4. awaited'[w] \in SubTasks /\ main_task_id[awaited'[w]] # None
      BY <3>2, <3>3 DEF FlaggedOK, TypeInv, MapsOK
    <3> QED BY <1>1, <1>8, <3>1, <3>2, <3>3, <3>4 DEF LookupDependency, WorkerSteps
  <2> QED BY <2>1, <2>2
<1>9. CASE FindDependency(w)
  BY <1>1, <1>2, <1>4, <1>9 DEF FindDependency, FlaggedOK, WorkerSteps
<1>10. CASE AwaitDependency(w) BY <1>1, <1>4, <1>10 DEF AwaitDependency, WorkerSteps
<1>11. CASE StartFunction(w) BY <1>1, <1>2, <1>11 DEF StartFunction, WorkerSteps
<1>12. CASE PostResult(w) BY <1>1, <1>2, <1>12 DEF PostResult, WorkerSteps
<1>13. CASE FlagCompleted(w) BY <1>1, <1>2, <1>13 DEF FlagCompleted, WorkerSteps
<1>14. CASE FindMainTask(w) BY <1>1, <1>2, <1>3, <1>14 DEF FindMainTask, WReturn, WorkerSteps
<1>15. CASE CountCompleted(w) BY <1>1, <1>2, <1>3, <1>15 DEF CountCompleted, WReturn, WorkerSteps
<1>16. CASE EraseMainTask(w) BY <1>1, <1>2, <1>16 DEF EraseMainTask, WorkerSteps
<1>17. CASE EraseMembers(w) BY <1>1, <1>3, <1>17 DEF EraseMembers, WReturn, WorkerSteps
<1>18. CASE UseDestroyed(w)
  BY <1>0, <1>18 DEF UseDestroyed, FlaggedOK, Finished, workerVars
<1>19. CASE FinishFunction(w)
  <2>1. /\ wpc'[w] = "post" /\ job' = job /\ \A v \in Workers \ {w} : wpc'[v] = wpc[v]
        /\ wpc[w] = "running" /\ \A s \in SubTasks \ {job[w]} : fn'[s] = fn[s]
    BY <1>19, FinishMoves
  <2>2. UNCHANGED <<done, dep, awaited>> BY <1>19 DEF FinishFunction, WGoto
  <2>3. \A s \in SubTasks : Finished(s)' =>
          s \in done' \/ \E v \in Workers : wpc'[v] \in Flagging /\ job'[v] = s
    BY <2>1, <2>2 DEF FlaggedOK, Finished
  <2> QED BY <1>0, <2>1, <2>2, <2>3 DEF FlaggedOK
<1>20. CASE NotifyDependents(w)
  <2>1. /\ wpc'[w] = "find_main" /\ job' = job /\ dep' = dep /\ awaited' = awaited
        /\ \A v \in Workers \ {w} : wpc'[v] = wpc[v]
        /\ done' = done \cup {job[w]} /\ fn' = fn
    BY <1>20 DEF NotifyDependents, WGoto, TypeInv, WorkerInv, WorkersOK
  <2>2. \A s \in SubTasks : Finished(s)' =>
          s \in done' \/ \E v \in Workers : wpc'[v] \in Flagging /\ job'[v] = s
    BY <2>1 DEF FlaggedOK, Finished
  <2> QED BY <1>0, <2>1, <2>2 DEF FlaggedOK
<1> QED BY <1>5, <1>6, <1>7, <1>8, <1>9, <1>10, <1>11, <1>12, <1>13, <1>14, <1>15, <1>16, <1>17,
           <1>18, <1>19, <1>20 DEF WorkerStep

\* The name of a main task that has been added stays known (line 269), and so addSubTask finds it
\* (line 278).
LEMMA StepKnown ==
  ASSUME Ordered, TypeInv, CallsOK, KnownOK, IdsStay, [Next]_vars PROVE KnownOK'
<1>0. None \notin MainTasks /\ (\A k \in MainTasks \cup SubTasks : k \in Calls)
  BY ConstantsAssumption DEF Calls
<1>1. ASSUME NEW n \in MainNames, main_task_name_to_id[n] # None
      PROVE  main_task_name_to_id'[n] # None
  <2>1. ASSUME NEW c \in Clients, ClientStep(c) PROVE main_task_name_to_id'[n] # None
    <3>1. CASE \E m \in MainTasks : AddMainTask(c, m)
      BY <1>0, <1>1, <3>1 DEF AddMainTask, TypeInv, MapsOK
    <3>2. CASE ~\E m \in MainTasks : AddMainTask(c, m)
      BY <1>1, <2>1, <3>2 DEF ClientStep, EnterWaiting, InsertMain, AddSubTask, NameSubTask,
         InsertSubTask, AppendMember, EmplaceSlot, FetchMain, CountReady, LockReady, PushMembers,
         LeaveWaiting, GetSubTaskResult, FindSlot, WaitSlot, TakeResult, EraseName,
         EraseSubTask, Start, LaunchLoop, Stop, TestJoinable, EnterJoin, Join, DestroyMutexes,
         StopPool, JoinPool, taskVars, mainVars, mainMaps
    <3> QED BY <3>1, <3>2
  <2>2. ASSUME NEW w \in Workers, WorkerStep(w) PROVE main_task_name_to_id'[n] # None
    BY <1>1, <2>2 DEF WorkerStep, Pop, LeavePool, FindSubTask, LookupDependency,
       FindDependency, AwaitDependency, StartFunction, FinishFunction, PostResult,
       FlagCompleted, NotifyDependents, FindMainTask, CountCompleted, EraseMainTask,
       UseDestroyed, EraseMembers, taskVars, mainVars, mainMaps
  <2>3. CASE LoopStep BY <1>1, <2>3, LoopFrame DEF taskVars, mainVars, mainMaps
  <2>4. CASE UNCHANGED vars BY <1>1, <2>4 DEF vars, taskVars, mainVars, mainMaps
  <2> QED BY <2>1, <2>2, <2>3, <2>4 DEF Next, Rest
<1>2. ASSUME NEW m \in MainTasks, outcome'[m] # "unissued"
      PROVE  main_task_name_to_id'[MainName[m]] # None
  <2>0. MainName[m] \in MainNames BY ConstantsAssumption
  <2>1. CASE outcome[m] # "unissued" BY <1>1, <2>0, <2>1 DEF KnownOK
  <2>2. CASE outcome[m] = "unissued"
    <3>1. PICK c \in Clients : Makes(c, m) BY <1>0, <1>2, <2>2, Issues
    <3>2. AddMainTask(c, m) BY <3>1, KindsAssumption DEF Makes
    <3> QED BY <1>0, <2>0, <3>2 DEF AddMainTask, TypeInv, MapsOK
  <2> QED BY <2>1, <2>2
<1>3. ASSUME NEW s \in SubTasks, NEW m \in MainTasks, outcome'[s] # "unissued",
             MainTaskName[s] = MainName[m]
      PROVE  main_task_id'[s] # None
  <2>1. CASE outcome[s] # "unissued" BY <1>3, <2>1 DEF KnownOK, IdsStay
  <2>2. CASE outcome[s] = "unissued"
    <3>1. PICK c \in Clients : MayCall(c, s) /\ Makes(c, s) BY <1>0, <1>3, <2>2, Issues
    <3>2. AddSubTask(c, s) BY <3>1, KindsAssumption DEF Makes
    <3>3. outcome[m] # "unissued" BY <1>3, <3>1 DEF Ordered, MayCall, Returned
    <3>4. main_task_name_to_id[MainTaskName[s]] # None BY <1>3, <3>3 DEF KnownOK
    <3>5. main_task_id' = [main_task_id EXCEPT ![s] = main_task_name_to_id[MainTaskName[s]]]
      BY <3>2, <3>4 DEF AddSubTask
    <3> QED BY <3>4, <3>5 DEF TypeInv, MapsOK
  <2> QED BY <2>1, <2>2
<1> QED BY <1>2, <1>3 DEF KnownOK

\* WaitInv is inductive, with the invariants before it.
LEMMA StepWait ==
  ASSUME Ordered
  PROVE  /\ Init => WaitInv
         /\ PriorityInv /\ DependencyInv /\ WaitInv /\ [Next]_vars => WaitInv'
<1>1. ASSUME Init PROVE WaitInv
  <2>1. \A s \in SubTasks \cup MainTasks : s \in Calls BY DEF Calls
  <2>2. \A X \in SUBSET {s \in SubTasks : outcome[s] # "unissued"} : X = {}
    BY <1>1, <2>1 DEF Init
  <2> QED BY <1>1, <2>1, <2>2 DEF Init, WaitInv, Acyclic, FlaggedOK, KnownOK, Finished
<1>2. ASSUME PriorityInv, DependencyInv, WaitInv, [Next]_vars PROVE WaitInv'
  <2>0. TypeInv /\ CallsOK /\ IdsStay BY <1>2, IdsStayed DEF PriorityInv, DependencyInv
  <2>1. Acyclic' BY <1>2, <2>0, StepAcyclic DEF WaitInv
  <2>2. KnownOK' BY <1>2, <2>0, StepKnown DEF WaitInv
  <2>3. FlaggedOK'
    <3>1. ASSUME NEW c \in Clients, ClientStep(c) PROVE FlaggedOK'
      BY <1>2, <2>0, <3>1, ClientStepFlagged DEF WaitInv
    <3>2. ASSUME NEW w \in Workers, WorkerStep(w) PROVE FlaggedOK'
      BY <1>2, <2>0, <3>2, WorkerStepFlagged DEF WaitInv
    <3>3. ASSUME UNCHANGED <<taskVars, workerVars, histVars>> PROVE FlaggedOK'
      BY <1>2, <3>3 DEF WaitInv, FlaggedOK, Finished, taskVars, subVars, subMaps, subFields,
                        workerVars, histVars
    <3> QED BY <1>2, <3>1, <3>2, <3>3, LoopFrame DEF Next, Rest, vars
  <2> QED BY <2>1, <2>2, <2>3 DEF WaitInv
<1> QED BY <1>1, <1>2

\* What a subtask waits for has been scheduled.
LEMMA AwaitedScheduled ==
  ASSUME Layered, PriorityInv, DependencyInv, PlaceInv, WaitInv, NEW s \in SubTasks, AtWork(s),
         NEW d \in SubTasks, Ahead(d, s), main_task_id[d] # None
  PROVE  Scheduled(d)
<1>0. /\ TypeInv /\ IdOfCall /\ CallsOK /\ CountsOK /\ PlacesOK /\ PushOK /\ AcceptedOK
  BY DEF PriorityInv, DependencyInv, PlaceInv
<1>1. None \notin MainTasks BY ConstantsAssumption DEF Calls
<1>2. Released(s) BY <1>0, PresentReleased DEF Present
<1>3. PICK k \in MainTasks : k = main_task_id[s] /\ Complete(k) BY <1>2 DEF Released
<1>4. PICK m \in MainTasks : m = main_task_id[d] /\ MainTaskName[d] = MainName[m]
  BY <1>0 DEF TypeInv, MapsOK, CountsOK
<1>5. CASE d \in Siblings(s)
  <2>1. main_task_id[d] = k
    <3>1. MainTaskName[d] = MainName[k] BY <1>0, <1>1, <1>3, <1>5 DEF Siblings, CountsOK
    <3> QED BY <1>3, <3>1 DEF Complete
  <2>2. ~Pending(k) BY <1>0, <1>3 DEF Pending, PushOK, Present
  <2> QED BY <1>3, <2>1, <2>2 DEF Scheduled, Released
<1>6. CASE Above(d, s)
  <2>1. ASSUME NEW t \in Siblings(d) PROVE Accepted(t)
    <3>1. t \in SubTasks /\ t \in After[s] /\ MainTaskName[t] = MainName[m]
      BY <1>4, <1>6 DEF Siblings, Above
    <3>2. Returned(t) BY <1>0, <1>1, <1>3, <3>1 DEF IdOfCall, CallsOK
    <3>3. main_task_id[t] # None BY <3>1, <3>2 DEF WaitInv, KnownOK, Returned
    <3> QED BY <1>0, <3>1, <3>2, <3>3 DEF AcceptedOK, Returned
  <2> QED BY <1>0, <2>1, AcceptedScheduled DEF Layered
<1> QED BY <1>5, <1>6 DEF Ahead

\* The workers never all wait (EventDispatcher.hpp:59-63), when each subtask depends on subtasks
\* that are dispatched before it: of the subtasks they have, the one that was submitted first waits
\* for one that has left the queues before it and that no worker has, and so has ended.
THEOREM PoolNeverStuck == Layered => (Spec => []NotAllBlocked)
<1> SUFFICES ASSUME Layered PROVE Spec => []NotAllBlocked OBVIOUS
<1>0. WellFormed /\ Ordered BY DEF Layered, Ordered
<1> DEFINE Inv == PriorityInv /\ DependencyInv /\ PlaceInv
           All == Inv /\ KeptOK /\ OrderInv /\ WaitInv
<1>1. All => NotAllBlocked
  <2> SUFFICES ASSUME All, \A w \in Workers : wpc[w] = "await" /\ awaited[w] \notin done
               PROVE  FALSE
    BY DEF NotAllBlocked, DependencyDone
  <2> DEFINE X == {job[w] : w \in Workers}
  <2>0. TypeInv /\ IdOfCall /\ ScanOK /\ ReleasedOK /\ PlacesOK
    BY DEF PriorityInv, DependencyInv, PlaceInv
  <2>1. \A w \in Workers : /\ job[w] \in SubTasks /\ Released(job[w]) /\ AtWork(job[w])
                           /\ Aimed(w)
    BY <2>0 DEF TypeInv, WorkerInv, WorkerShape, ReleasedOK, ScanOK, AtWork
  <2>2. \A w \in Workers : outcome[job[w]] # "unissued"
    BY <2>0, <2>1, ConstantsAssumption DEF Released, IdOfCall, Calls
  <2>3. PICK v \in Workers : TRUE BY ConstantsAssumption
  <2>4. PICK s \in X : After[s] \cap X = {}
    <3>1. X \in SUBSET {s \in SubTasks : outcome[s] # "unissued"} BY <2>1, <2>2
    <3>2. job[v] \in X BY <2>3
    <3> QED BY <3>1, <3>2 DEF WaitInv, Acyclic
  <2>5. PICK w \in Workers : s = job[w] BY <2>4
  <2>6. PICK d \in SubTasks : d = awaited[w] /\ main_task_id[d] # None
    BY <2>1 DEF Aimed, WaitInv, FlaggedOK
  <2>7. DependsOn(s, d) BY <2>1, <2>5, <2>6 DEF Aimed, DependsOn, WaitInv, FlaggedOK
  <2>8. Ahead(d, s) BY <2>1, <2>5, <2>7 DEF Layered
  <2>9. Kept(d) BY <2>1, <2>5, <2>6, <2>8, AwaitedScheduled DEF KeptOK
  <2>10. ~AtWork(d) BY <2>4, <2>8 DEF Ahead, AtWork
  <2>11. ~Queued(d) /\ ~Enqueued(d)
    BY <2>1, <2>5, <2>8 DEF OrderInv, PlaceOrder, Gone
  <2>12. ~Finished(d) BY <2>6 DEF WaitInv, FlaggedOK
  <2> QED BY <2>9, <2>10, <2>11, <2>12 DEF Kept
<1>2. Spec => []Inv BY <1>0, AllInvariants
<1> HIDE DEF Inv
<1>3. Init => KeptOK /\ OrderInv /\ WaitInv BY <1>0, StepKept, StepOrder, StepWait
<1>4. Inv /\ KeptOK /\ OrderInv /\ WaitInv /\ [Next]_vars => (KeptOK /\ OrderInv /\ WaitInv)'
  BY <1>0, StepKept, StepOrder, StepWait DEF Inv
<1> QED BY <1>1, <1>2, <1>3, <1>4, PTL DEF Spec
-----------------------------------------------------------------------------
(* Stop and the end of the process. *)

\* What is flagged has ended (line 90).
CompletedOK == \A s \in SubTasks : s \in completed => Finished(s)
\* A call is made when the calls before it have returned.
IssuedOK == \A k \in Calls : outcome[k] # "unissued" => \A j \in After[k] : Returned(j)
\* The loop leaves when the ring is empty, and none is started when the process ends.
Over       == \E x \in Exits : outcome[x] # "unissued"
Destroying == {"destroy", "stop_pool", "join_pool"}
LoopOK ==
  /\ joinable <=> lpc # "none"
  /\ lpc \in {"none", "exited"} => ring = <<>>
  /\ \A c \in Clients : /\ call[c] \in Starts => cpc[c] = "launch"
                        /\ cpc[c] = "launch" => ~Over
                        /\ cpc[c] \in Destroying => lpc = "none" /\ Over
  /\ stopped => lpc = "none" /\ Over
\* Every Stop comes before the start j or after the submission of s: the loop goes on until s has
\* been submitted, and leaves when it has run.
Covers(j, s) == \A i \in Stops \cup Exits : i \in After[j] \/ s \in After[i]
CoverOK ==
  \A j \in Starts, s \in SubTasks : Covers(j, s) =>
    /\ outcome[j] # "unissued" /\ ~Returned(s) => is_running
    /\ Returned(j) /\ ~Returned(s) => lpc \in {"test", "lock", "dispatch"}
    /\ Returned(j) /\ Accepted(s) /\ lpc \in {"none", "exited"} => Finished(s)
StopInv == CompletedOK /\ IssuedOK /\ LoopOK /\ CoverOK /\ DrainedWhenStopped

\* A call that has returned stays so, and its outcome too.
LEMMA ClientReturned ==
  ASSUME TypeInv, CallsOK, NEW c \in Clients, ClientStep(c), NEW k \in Calls, Returned(k)
  PROVE  Returned(k)' /\ outcome'[k] = outcome[k]
<1> USE DEF TypeInv, ClientInv, ClientsOK
<1>1. call[c] # k /\ outcome[k] # "unissued" BY DEF Returned
<1>2. k # None BY ConstantsAssumption
<1>3. ASSUME NEW j \in Calls, NEW l, NEW s, MayCall(c, j), Enter(c, j, l, s)
      PROVE  outcome'[k] = outcome[k]
  BY <1>1, <1>3 DEF MayCall, Enter
<1>4. ASSUME NEW j \in Calls, NEW o, MayCall(c, j), Immediately(j, o)
      PROVE  outcome'[k] = outcome[k]
  BY <1>1, <1>4 DEF MayCall, Immediately
<1>5. \A o : Return(c, o) => outcome'[k] = outcome[k] BY <1>1 DEF Return
<1>6. TakeResult(c) => outcome'[k] = outcome[k] BY <1>1 DEF TakeResult
<1>7. ASSUME NEW m \in MainTasks, AddMainTask(c, m) PROVE outcome'[k] = outcome[k]
  BY <1>3, <1>7 DEF AddMainTask, Calls
<1>8. ASSUME NEW s \in SubTasks, AddSubTask(c, s) PROVE outcome'[k] = outcome[k]
  BY <1>3, <1>4, <1>8 DEF AddSubTask, Calls
<1>9. ASSUME NEW f \in Fetches, GetSubTaskResult(c, f) PROVE outcome'[k] = outcome[k]
  BY <1>3, <1>4, <1>9 DEF GetSubTaskResult, Calls
<1>10. ASSUME NEW j \in Starts, Start(c, j) PROVE outcome'[k] = outcome[k]
  BY <1>3, <1>10 DEF Start, Calls
<1>11. ASSUME NEW j \in Stops \cup Exits, Stop(c, j) PROVE outcome'[k] = outcome[k]
  BY <1>3, <1>11 DEF Stop, Calls
<1>12. outcome'[k] = outcome[k]
  BY <1>5, <1>6, <1>7, <1>8, <1>9, <1>10, <1>11
  DEF ClientStep, EnterWaiting, InsertMain, NameSubTask, InsertSubTask, AppendMember,
      EmplaceSlot, FetchMain, CountReady, LockReady, PushMembers, LeaveWaiting, FindSlot,
      WaitSlot, EraseName, EraseSubTask, LaunchLoop, TestJoinable, EnterJoin, Join, AfterJoin,
      DestroyMutexes, StopPool, JoinPool
<1>13. \A d \in Clients : call'[d] # k BY <1>1, <1>2, ClientMoves DEF Moves, Returned
<1> QED BY <1>1, <1>12, <1>13 DEF Returned

\* The steps of start and Stop, and of the destructor.
LifeSteps == Ending \cup {"launch"}
Living(c) ==
  \/ (\E k \in Starts : Start(c, k)) \/ LaunchLoop(c) \/ \E k \in Stops \cup Exits : Stop(c, k)
  \/ TestJoinable(c) \/ EnterJoin(c) \/ Join(c) \/ DestroyMutexes(c) \/ StopPool(c) \/ JoinPool(c)

\* The other steps of a client leave the loop and these calls alone.
LEMMA TasksOnly ==
  ASSUME TypeInv, NEW c \in Clients, ClientStep(c), ~Living(c)
  PROVE  /\ UNCHANGED <<loopVars, stopped>>
         /\ cpc[c] \notin LifeSteps /\ cpc'[c] \notin LifeSteps
         /\ call'[c] \in {call[c], None} \cup MainTasks \cup SubTasks \cup Fetches
         /\ \A k \in Starts \cup Stops \cup Exits : outcome'[k] = outcome[k]
<1> DEFINE Tasks == MainTasks \cup SubTasks \cup Fetches
           Goal  == /\ UNCHANGED <<loopVars, stopped>>
                    /\ cpc[c] \notin LifeSteps /\ cpc'[c] \notin LifeSteps
                    /\ call'[c] \in {call[c], None} \cup Tasks
                    /\ \A k \in Calls \ Tasks : outcome'[k] = outcome[k]
<1> USE DEF TypeInv, ClientInv, ClientsOK, clientOther, exitVars
<1>1. ASSUME NEW k \in Tasks, NEW l, NEW s, Enter(c, k, l, s), MayCall(c, k), l \notin LifeSteps,
             UNCHANGED <<loopVars, stopped>>
      PROVE  Goal
  BY <1>1 DEF Enter, MayCall, CAt, LifeSteps, Ending
<1>2. ASSUME NEW k \in Tasks, NEW o, Immediately(k, o), MayCall(c, k),
             UNCHANGED <<loopVars, stopped>>
      PROVE  Goal
  BY <1>2 DEF Immediately, MayCall, CAt, LifeSteps, Ending, clientVars
<1>3. ASSUME NEW l, CGoto(c, l), l \notin LifeSteps, cpc[c] \notin LifeSteps,
             UNCHANGED <<loopVars, stopped>>,
             \A k \in Calls \ Tasks : outcome'[k] = outcome[k]
      PROVE  Goal
  BY <1>3 DEF CGoto
<1>4. ASSUME NEW o, Return(c, o), call[c] \in Tasks, cpc[c] \notin LifeSteps,
             UNCHANGED <<loopVars, stopped>>
      PROVE  Goal
  BY <1>4 DEF Return, LifeSteps, Ending
<1>5. ASSUME UNCHANGED <<clientVars, outcome, loopVars, stopped>>, cpc[c] \notin LifeSteps
      PROVE  Goal
  BY <1>5 DEF clientVars
<1> SUFFICES Goal BY KindsAssumption DEF Calls
<1> HIDE DEF Goal
<1>6. ASSUME NEW m \in MainTasks, AddMainTask(c, m) PROVE Goal
  BY <1>1, <1>6 DEF AddMainTask, LifeSteps, Ending
<1>7. ASSUME NEW s \in SubTasks, AddSubTask(c, s) PROVE Goal
  BY <1>1, <1>2, <1>7 DEF AddSubTask, LifeSteps, Ending
<1>8. ASSUME NEW f \in Fetches, GetSubTaskResult(c, f) PROVE Goal
  BY <1>1, <1>2, <1>8 DEF GetSubTaskResult, LifeSteps, Ending
<1>9. CASE EnterWaiting(c) \/ NameSubTask(c) \/ InsertSubTask(c) \/ AppendMember(c)
        \/ EmplaceSlot(c) \/ LockReady(c) \/ WaitSlot(c) \/ EraseName(c)
  BY <1>3, <1>9 DEF EnterWaiting, NameSubTask, InsertSubTask, AppendMember, EmplaceSlot,
     LockReady, WaitSlot, EraseName, LifeSteps, Ending, CAt
<1>10. CASE TakeResult(c)
  <2>1. cpc[c] = "gr_take" /\ call[c] \in Tasks BY <1>10 DEF TakeResult, CAt, ClientShape, Fetching
  <2>2. \A k \in Calls \ Tasks : outcome'[k] = outcome[k] BY <1>10, <2>1 DEF TakeResult
  <2>3. CGoto(c, "gr_name") /\ UNCHANGED <<loopVars, stopped>> BY <1>10 DEF TakeResult
  <2> QED BY <1>3, <2>1, <2>2, <2>3 DEF LifeSteps, Ending
<1>11. CASE InsertMain(c) \/ LeaveWaiting(c) \/ EraseSubTask(c)
  <2>1. cpc[c] \in {"am_insert", "as_release", "gr_erase"} /\ call[c] \in Tasks
    BY <1>11 DEF InsertMain, LeaveWaiting, EraseSubTask, CAt, ClientShape, AddingMain, AddingSub,
       Fetching
  <2>2. Return(c, "done") /\ UNCHANGED <<loopVars, stopped>>
    BY <1>11 DEF InsertMain, LeaveWaiting, EraseSubTask
  <2> QED BY <1>4, <2>1, <2>2 DEF LifeSteps, Ending
<1>12. CASE CountReady(c) \/ FindSlot(c)
  <2>1. cpc[c] \in {"as_ready", "gr_slot"} /\ call[c] \in Tasks
    BY <1>12 DEF CountReady, FindSlot, CAt, ClientShape, AddingSub, Fetching
  <2>2. /\ UNCHANGED <<loopVars, stopped>>
        /\ \/ (CGoto(c, "as_lock") \/ CGoto(c, "gr_wait")) /\ UNCHANGED outcome
           \/ Return(c, "done") \/ Return(c, "not_found")
    BY <1>12 DEF CountReady, FindSlot
  <2> QED BY <1>3, <1>4, <2>1, <2>2 DEF LifeSteps, Ending
<1>13. CASE FetchMain(c) \/ PushMembers(c)
  <2>1. cpc[c] \in {"as_main", "as_push"} /\ UNCHANGED <<outcome, loopVars, stopped>>
    BY <1>13 DEF FetchMain, PushMembers, CAt
  <2> QED BY <1>3, <1>5, <1>13, <2>1 DEF FetchMain, PushMembers, LifeSteps, Ending
<1> QED
  BY <1>6, <1>7, <1>8, <1>9, <1>10, <1>11, <1>12, <1>13 DEF ClientStep, Living

\* What the steps of start, Stop and the destructor do.
Starting(c, k) ==
  /\ MayCall(c, k) /\ is_running' /\ call'[c] = k /\ cpc'[c] = "launch"
  /\ UNCHANGED <<lpc, joinable, stopped>>
  /\ outcome'[k] = "open" /\ \A i \in Calls \ {k} : outcome'[i] = outcome[i]
Stopping(c, k) ==
  /\ MayCall(c, k) /\ call'[c] = k /\ cpc'[c] = "stop"
  /\ k \in Exits => \A d \in Clients : cpc[d] = "idle"
  /\ UNCHANGED <<lpc, joinable, stopped>>
  /\ outcome'[k] = "open" /\ \A i \in Calls \ {k} : outcome'[i] = outcome[i]
Launching(c) ==
  /\ cpc[c] = "launch" /\ cpc'[c] = "idle" /\ call'[c] = None
  /\ lpc' = "test" /\ joinable' /\ UNCHANGED <<is_running, stopped>>
  /\ \A i \in Calls \ {call[c]} : outcome'[i] = outcome[i]
Ends(c) ==
  /\ cpc[c] \in Ending /\ UNCHANGED is_running
  /\ UNCHANGED <<lpc, joinable>> \/ (lpc = "exited" /\ lpc' = "none" /\ ~joinable')
  /\ stopped' => stopped \/ cpc[c] = "stop_pool"
  /\ \/ call'[c] = call[c] /\ cpc'[c] \in Ending /\ UNCHANGED outcome
     \/ /\ call'[c] = None /\ cpc'[c] = "idle"
        /\ \A i \in Calls \ {call[c]} : outcome'[i] = outcome[i]
        /\ outcome'[call[c]] = "done" =>
             outcome[call[c]] = "done" \/ lpc = "exited" \/ ~joinable \/ cpc[c] \in Destroying
  /\ cpc'[c] \in Destroying => cpc[c] \in Destroying \/ (call[c] \in Exits /\ ~joinable')
LEMMA LifeMoves ==
  ASSUME TypeInv, CallsOK, NEW c \in Clients, ClientStep(c), Living(c)
  PROVE  \/ \E k \in Starts : Starting(c, k)
         \/ \E k \in Stops \cup Exits : Stopping(c, k)
         \/ Launching(c) \/ Ends(c)
         \/ UNCHANGED <<clientVars, outcome, loopVars, stopped>>
<1> USE DEF TypeInv, ClientInv, ClientsOK, loopVars, clientOther, exitVars
<1>1. ASSUME NEW k \in Starts, Start(c, k) PROVE Starting(c, k)
  BY <1>1 DEF Start, Starting, MayCall, Enter, Calls
<1>2. ASSUME NEW k \in Stops \cup Exits, Stop(c, k) PROVE Stopping(c, k)
  BY <1>2 DEF Stop, Stopping, MayCall, Enter, Calls
<1>3. CASE LaunchLoop(c)
  <2>1. CASE Return(c, "done") /\ lpc' = "test"
    BY <1>3, <2>1 DEF LaunchLoop, CAt, Return, Launching
  <2>2. CASE ~(Return(c, "done") /\ lpc' = "test") BY <1>3, <2>2 DEF LaunchLoop, clientVars
  <2> QED BY <2>1, <2>2
<1>4. ASSUME cpc[c] \in Ending, NEW l \in Ending, CGoto(c, l), UNCHANGED <<outcome, is_running>>,
             UNCHANGED <<lpc, joinable>> \/ (lpc = "exited" /\ lpc' = "none" /\ ~joinable'),
             stopped' => stopped \/ cpc[c] = "stop_pool",
             l \in Destroying => cpc[c] \in Destroying \/ (call[c] \in Exits /\ ~joinable')
      PROVE  Ends(c)
  BY <1>4 DEF CGoto, Ends
<1>5. ASSUME cpc[c] \in Ending, NEW o, Return(c, o), UNCHANGED <<is_running, stopped>>,
             UNCHANGED <<lpc, joinable>> \/ (lpc = "exited" /\ lpc' = "none" /\ ~joinable'),
             o = "done" => lpc = "exited" \/ ~joinable \/ cpc[c] \in Destroying
      PROVE  Ends(c)
  <2>1. call[c] \in Stops \cup Exits BY <1>5 DEF CallsOK
  <2>2. outcome'[call[c]] = IF outcome[call[c]] = "open" THEN o ELSE outcome[call[c]]
    BY <1>5, <2>1 DEF Return, Calls
  <2>3. cpc'[c] = "idle" /\ call'[c] = None /\ "idle" \notin Destroying
        /\ \A i \in Calls \ {call[c]} : outcome'[i] = outcome[i]
    BY <1>5 DEF Return, Destroying
  <2> QED BY <1>5, <2>2, <2>3 DEF Ends
<1>6. CASE TestJoinable(c)
  BY <1>4, <1>5, <1>6 DEF TestJoinable, AfterJoin, CAt, Ending, Destroying
<1>7. CASE EnterJoin(c)
  BY <1>4, <1>5, <1>7 DEF EnterJoin, CAt, Ending, Destroying
<1>8. CASE Join(c)
  <2>1. cpc[c] = "joining" /\ UNCHANGED <<is_running, stopped>> BY <1>8 DEF Join, CAt
  <2>2. CASE AfterJoin(c) /\ lpc = "exited" /\ lpc' = "none" /\ ~joinable'
    BY <1>4, <1>5, <2>1, <2>2 DEF AfterJoin, Ending, Destroying
  <2>3. CASE ~(AfterJoin(c) /\ lpc = "exited" /\ lpc' = "none" /\ ~joinable')
    BY <1>8, <2>1, <2>3 DEF Join, clientVars
  <2> QED BY <2>2, <2>3
<1>9. CASE DestroyMutexes(c) \/ StopPool(c)
  BY <1>4, <1>9 DEF DestroyMutexes, StopPool, CAt, Ending, Destroying
<1>10. CASE JoinPool(c)
  BY <1>5, <1>10 DEF JoinPool, CAt, Ending, Destroying
<1> QED BY <1>1, <1>2, <1>3, <1>6, <1>7, <1>8, <1>9, <1>10 DEF Living

\* No step of a client breaks LoopOK: the destructor joins the loop before it stops the pool
\* (lines 322-327, and the order of the members).
LEMMA ClientStepLoop ==
  ASSUME TypeInv, CallsOK, LoopOK, NEW c \in Clients, ClientStep(c) PROVE LoopOK'
<1>1. \A d \in Clients \ {c} : cpc'[d] = cpc[d] /\ call'[d] = call[d]
  BY ClientMoves DEF Moves
<1>2. ring' = ring BY ClientFrame
<1>3. Destroying \subseteq Ending /\ "launch" \notin Ending /\ "stop" \notin Destroying
      /\ "idle" \notin Ending /\ None \notin Starts
  BY ConstantsAssumption DEF Destroying, Ending, Calls
<1>4. Over => Over' BY ClientMakes DEF Over, StaysMade, Calls
<1>5. CASE ~Living(c)
  <2>1. /\ UNCHANGED <<lpc, joinable, stopped>>
        /\ cpc'[c] # "launch" /\ cpc'[c] \notin Destroying /\ cpc[c] # "launch"
    BY <1>3, <1>5, TasksOnly DEF LifeSteps, loopVars
  <2>2. call'[c] \notin Starts
    BY <1>3, <1>5, <2>1, TasksOnly, KindsAssumption DEF LoopOK
  <2>3. Over' <=> Over BY <1>5, TasksOnly DEF Over
  <2> QED BY <1>1, <1>2, <2>1, <2>2, <2>3 DEF LoopOK
<1>6. ASSUME NEW k \in Starts, Starting(c, k) PROVE LoopOK'
  <2>1. Over' <=> Over BY <1>6, KindsAssumption DEF Over, Starting, Calls
  <2>2. ~Over BY <1>6 DEF Starting, MayCall, Over
  <2> QED BY <1>1, <1>2, <1>3, <1>6, <2>1, <2>2 DEF LoopOK, Starting
<1>7. ASSUME NEW k \in Stops \cup Exits, Stopping(c, k) PROVE LoopOK'
  <2>1. k \notin Starts BY KindsAssumption
  <2>2. k \notin Exits => (Over' <=> Over) BY <1>7 DEF Over, Stopping, Calls
  <2>3. k \in Exits => \A d \in Clients : cpc[d] # "launch" BY <1>7 DEF Stopping
  <2>4. \A d \in Clients : cpc'[d] = "launch" => ~Over'
    BY <1>1, <1>3, <1>7, <2>2, <2>3 DEF LoopOK, Stopping
  <2> QED BY <1>1, <1>2, <1>3, <1>4, <1>7, <2>1, <2>4 DEF LoopOK, Stopping
<1>8. CASE Launching(c)
  <2>1. call[c] \in Starts BY <1>8 DEF Launching, CallsOK
  <2>2. Over' <=> Over BY <1>8, <2>1, KindsAssumption DEF Over, Launching, Calls
  <2>3. ~Over BY <1>8 DEF LoopOK, Launching
  <2> QED BY <1>1, <1>2, <1>3, <1>8, <2>2, <2>3 DEF LoopOK, Launching
<1>9. CASE Ends(c)
  <2>1. call[c] \in Stops \cup Exits /\ outcome[call[c]] # "unissued"
    BY <1>9, ConstantsAssumption DEF Ends, CallsOK, Calls
  <2>2. Over' <=> Over
    BY <1>9, <2>1, ClientMakes DEF Over, Ends, Calls, StaysMade
  <2>3. call[c] \notin Starts /\ call'[c] \notin Starts
    BY <1>3, <1>9, <2>1, KindsAssumption DEF Ends
  <2>4. cpc'[c] # "launch" BY <1>3, <1>9 DEF Ends
  <2>5. lpc = "none" => lpc' = "none" BY <1>9 DEF Ends
  <2>6. cpc'[c] \in Destroying => lpc' = "none" /\ Over
    <3>1. cpc[c] \in Destroying => lpc = "none" /\ Over BY DEF LoopOK
    <3>2. call[c] \in Exits => Over BY <2>1 DEF Over
    <3>3. ~joinable' => lpc' = "none" BY <1>9 DEF Ends, LoopOK
    <3> QED BY <1>9, <2>5, <3>1, <3>2, <3>3 DEF Ends
  <2>7. stopped' => lpc' = "none" /\ Over
    BY <1>9, <2>5 DEF Ends, LoopOK, Destroying
  <2>8. joinable' <=> lpc' # "none" BY <1>9 DEF Ends, LoopOK
  <2>9. lpc' \in {"none", "exited"} => ring' = <<>> BY <1>2, <1>9 DEF Ends, LoopOK
  <2>10. \A d \in Clients \ {c} : cpc[d] \in Destroying => lpc' = "none" /\ Over
    BY <2>5 DEF LoopOK
  <2>11. \A d \in Clients : /\ call'[d] \in Starts => cpc'[d] = "launch"
                            /\ cpc'[d] = "launch" => ~Over
    BY <1>1, <2>3, <2>4 DEF LoopOK
  <2> QED BY <1>1, <2>2, <2>6, <2>7, <2>8, <2>9, <2>10, <2>11 DEF LoopOK
<1>10. CASE UNCHANGED <<clientVars, outcome, loopVars, stopped>>
  BY <1>2, <1>10 DEF LoopOK, Over, clientVars, loopVars
<1> QED BY <1>5, <1>6, <1>7, <1>8, <1>9, <1>10, LifeMoves

\* A worker takes what there is in the ring.
LEMMA WorkerStepLoop ==
  ASSUME TypeInv, LoopOK, NEW w \in Workers, WorkerStep(w) PROVE LoopOK'
<1>1. UNCHANGED <<clientVars, outcome, lpc, joinable, stopped>>
  BY WorkerFrame
  DEF WorkerStep, Pop, LeavePool, FindSubTask, LookupDependency, FindDependency,
      AwaitDependency, StartFunction, FinishFunction, PostResult, FlagCompleted,
      NotifyDependents, FindMainTask, CountCompleted, EraseMainTask, UseDestroyed, EraseMembers,
      workerOther, loopVars, exitVars
<1>2. ring = <<>> => ring' = <<>>
  BY DEF WorkerStep, Pop, LeavePool, FindSubTask, LookupDependency, FindDependency,
      AwaitDependency, StartFunction, FinishFunction, PostResult, FlagCompleted,
      NotifyDependents, FindMainTask, CountCompleted, EraseMainTask, UseDestroyed, EraseMembers,
      workerOther, queueVars
<1> QED BY <1>1, <1>2 DEF LoopOK, Over, clientVars

\* What has been submitted and has not ended keeps the loop (line 159).
LEMMA KeepsLoop ==
  ASSUME NamesOK, CompletedOK, PendingSubTasks, lpc' = "exited", NEW s \in SubTasks,
         Beyond(s, Unlisted)
  PROVE  Finished(s)
BY DEF PendingSubTasks, LAt, NoSubTaskPending, NamesOK, CompletedOK

\* The loop leaves when all that is listed has ended, and what is in the ring has not.
LEMMA LoopStepLoop ==
  ASSUME TypeInv, OnceInv, CompletedOK, LoopOK, LoopStep PROVE LoopOK'
<1>1. UNCHANGED <<clientVars, outcome, joinable, stopped>>
  BY LoopFrame
  DEF LoopStep, TestRunning, PendingReady, PendingWaiting, PendingSubTasks, LoopLock, Dispatch,
      LoopUnlock, loopOther, exitVars
<1>2. lpc # "none" /\ lpc' # "none"
  BY DEF LoopStep, TestRunning, PendingReady, PendingWaiting, PendingSubTasks, LoopLock, Dispatch,
     LoopUnlock, LAt
<1>3. lpc' = "exited" => PendingSubTasks
  BY DEF LoopStep, TestRunning, PendingReady, PendingWaiting, LoopLock, Dispatch, LoopUnlock, LAt
<1>4. lpc' = "exited" => ring' = <<>>
  <2> SUFFICES ASSUME lpc' = "exited", ring # <<>> PROVE FALSE
    BY <1>3 DEF PendingSubTasks, queueVars
  <2>1. PICK s \in SubTasks : s = ring[1] /\ 1 \in DOMAIN ring BY DEF TypeInv, QueuesOK
  <2>2. Enqueued(s) BY <2>1 DEF Enqueued
  <2>3. Beyond(s, Unlisted)
    BY <2>2 DEF Present, OnceInv, FilledOK, Beyond, Unappended, Unlisted
  <2>4. Finished(s) BY <1>3, <2>3, KeepsLoop DEF OnceInv
  <2>5. fn[s] = "none" BY <2>2 DEF OnceInv, PlacesOK
  <2> QED BY <2>4, <2>5 DEF Finished
<1> QED BY <1>1, <1>2, <1>4 DEF LoopOK, Over, clientVars

\* A start has returned when the loop has been launched.
LEMMA ReturnsStart ==
  ASSUME TypeInv, CallsOK, LoopOK, NEW c \in Clients, ClientStep(c), NEW j \in Starts, Returned(j)'
  PROVE  Returned(j) \/ Launching(c)
<1> SUFFICES ASSUME ~Returned(j) PROVE Launching(c) OBVIOUS
<1>1. j \in Calls /\ j # None BY ConstantsAssumption DEF Calls
<1>2. \A d \in Clients \ {c} : call'[d] = call[d] BY ClientMoves DEF Moves
<1>3. outcome[j] # "unissued"
  <2> SUFFICES ASSUME outcome[j] = "unissued" PROVE FALSE OBVIOUS
  <2>1. Start(c, j)
    BY <1>1, ClientIssues, KindsAssumption DEF Makes, Returned
  <2>2. call'[c] = j BY <2>1 DEF Start, Enter, TypeInv, ClientInv, ClientsOK
  <2> QED BY <2>2 DEF Returned
<1>4. call[c] = j BY <1>2, <1>3 DEF Returned
<1>5. cpc[c] = "launch" BY <1>4 DEF LoopOK
<1>6. "launch" \notin Ending BY DEF Ending
<1>7. call'[c] # j BY DEF Returned
<1> QED
  BY <1>4, <1>5, <1>6, <1>7, TasksOnly, LifeMoves
  DEF Starting, Stopping, Ends, MayCall, CAt, clientVars, LifeSteps

\* No step of a client breaks CoverOK: no Stop comes between the start and the submission
\* (lines 119-124, 322).
LEMMA ClientStepCover ==
  ASSUME TypeInv, CallsOK, IssuedOK, LoopOK, CoverOK, NEW c \in Clients, ClientStep(c)
  PROVE  CoverOK'
<1> SUFFICES ASSUME NEW j \in Starts, NEW s \in SubTasks, Covers(j, s)
             PROVE  /\ outcome'[j] # "unissued" /\ ~Returned(s)' => is_running'
                    /\ Returned(j)' /\ ~Returned(s)' => lpc' \in {"test", "lock", "dispatch"}
                    /\ Returned(j)' /\ Accepted(s)' /\ lpc' \in {"none", "exited"} => Finished(s)'
  BY DEF CoverOK, Covers
<1>0. j \in Calls /\ s \in Calls BY DEF Calls
<1>1. Returned(s) => Returned(s)' /\ outcome'[s] = outcome[s] BY <1>0, ClientReturned
<1>2. Returned(j)' => Returned(j) \/ Launching(c) BY ReturnsStart
<1>3. Launching(c) => lpc' = "test" BY DEF Launching
<1>4. lpc' = lpc \/ Launching(c) \/ (lpc = "exited" /\ lpc' = "none")
  BY TasksOnly, LifeMoves DEF Starting, Stopping, Ends, loopVars
<1>5. outcome[j] = "unissued" /\ outcome'[j] # "unissued" => is_running'
  <2>1. outcome[j] = "unissued" /\ outcome'[j] # "unissued" => Start(c, j)
    BY <1>0, ClientIssues, KindsAssumption DEF Makes
  <2> QED BY <2>1 DEF Start
<1>6. ASSUME is_running, ~is_running', outcome[j] # "unissued", ~Returned(s)' PROVE FALSE
  <2>1. PICK k \in Stops \cup Exits : Stopping(c, k)
    BY <1>6, TasksOnly, LifeMoves DEF Starting, Launching, Ends, loopVars
  <2>2. outcome[k] = "unissued" /\ \A i \in After[k] : Returned(i) BY <2>1 DEF Stopping, MayCall
  <2>3. k \notin After[j] BY <1>0, <1>6, <2>2 DEF IssuedOK, Returned
  <2>4. s \in After[k] BY <2>3 DEF Covers
  <2> QED BY <1>1, <1>6, <2>2, <2>4
<1>7. outcome'[j] # "unissued" /\ ~Returned(s)' => is_running'
  <2> SUFFICES ASSUME outcome'[j] # "unissued", ~Returned(s)', ~is_running' PROVE FALSE
    OBVIOUS
  <2>1. outcome[j] # "unissued" /\ ~Returned(s) BY <1>1, <1>5
  <2>2. is_running BY <2>1 DEF CoverOK
  <2> QED BY <1>6, <2>1, <2>2
<1>8. Returned(j)' /\ ~Returned(s)' => lpc' \in {"test", "lock", "dispatch"}
  BY <1>1, <1>2, <1>3, <1>4 DEF CoverOK
<1>9. ASSUME Returned(j)', Accepted(s)', lpc' \in {"none", "exited"} PROVE Finished(s)'
  <2>1. Returned(j) /\ lpc \in {"none", "exited"} BY <1>2, <1>3, <1>4, <1>9
  <2>2. Returned(s) BY <2>1 DEF CoverOK
  <2>3. Finished(s) BY <1>1, <1>9, <2>1, <2>2 DEF CoverOK, Accepted
  <2> QED BY <2>3, ClientFrame DEF Finished
<1> QED BY <1>7, <1>8, <1>9

\* The loop leaves when what has been submitted has ended (lines 131-167).
LEMMA LoopStepCover ==
  ASSUME TypeInv, OnceInv, CompletedOK, CoverOK, LoopStep PROVE CoverOK'
<1> SUFFICES ASSUME NEW j \in Starts, NEW s \in SubTasks, Covers(j, s)
             PROVE  /\ outcome'[j] # "unissued" /\ ~Returned(s)' => is_running'
                    /\ Returned(j)' /\ ~Returned(s)' => lpc' \in {"test", "lock", "dispatch"}
                    /\ Returned(j)' /\ Accepted(s)' /\ lpc' \in {"none", "exited"} => Finished(s)'
  BY DEF CoverOK, Covers
<1>1. UNCHANGED <<clientVars, outcome, is_running, fn>>
  BY LoopFrame
  DEF LoopStep, TestRunning, PendingReady, PendingWaiting, PendingSubTasks, LoopLock, Dispatch,
      LoopUnlock, loopOther, histVars
<1>2. /\ Returned(j)' <=> Returned(j)
      /\ Returned(s)' <=> Returned(s)
      /\ Accepted(s)' <=> Accepted(s)
      /\ Finished(s)' <=> Finished(s)
  BY <1>1 DEF Returned, Accepted, Finished, clientVars
<1>3. Returned(j) => outcome[j] # "unissued" BY DEF Returned
<1>4. lpc \in {"test", "lock", "dispatch"} /\ is_running => lpc' \in {"test", "lock", "dispatch"}
  BY DEF LoopStep, TestRunning, PendingReady, PendingWaiting, PendingSubTasks, LoopLock, Dispatch,
     LoopUnlock, LAt
<1>5. lpc' \in {"none", "exited"} => PendingSubTasks /\ lpc' = "exited"
  BY DEF LoopStep, TestRunning, PendingReady, PendingWaiting, PendingSubTasks, LoopLock, Dispatch,
     LoopUnlock, LAt
<1>6. Accepted(s) => Beyond(s, Unlisted) BY DEF OnceInv, CallsOK, Accepted, Beyond
<1>7. Accepted(s) /\ lpc' \in {"none", "exited"} => Finished(s)
  BY <1>5, <1>6, KeepsLoop DEF OnceInv
<1> QED BY <1>1, <1>2, <1>3, <1>4, <1>7 DEF CoverOK

\* Stop and the destructor return when the loop has left, or there was none (lines 322-327).
LEMMA StopReturns ==
  ASSUME TypeInv, CallsOK, LoopOK, NEW c \in Clients, ClientStep(c), NEW k \in Stops \cup Exits,
         outcome'[k] = "done", outcome[k] # "done"
  PROVE  call[c] = k /\ lpc \in {"none", "exited"}
<1>1. k \in Calls BY DEF Calls
<1>2. Living(c) BY TasksOnly
<1>3. ~\E i \in Starts : Starting(c, i) BY <1>1, KindsAssumption DEF Starting
<1>4. ~\E i \in Stops \cup Exits : Stopping(c, i) BY <1>1 DEF Stopping
<1>5. ~Launching(c)
  <2>1. Launching(c) => call[c] # k BY KindsAssumption DEF Launching, CallsOK
  <2> QED BY <1>1, <2>1 DEF Launching
<1>6. Ends(c) BY <1>2, <1>3, <1>4, <1>5, LifeMoves
<1>7. call[c] = k BY <1>1, <1>6 DEF Ends
<1> QED BY <1>6, <1>7 DEF Ends, LoopOK

\* What has been submitted before has ended then.
LEMMA StepDrained ==
  ASSUME TypeInv, CallsOK, IssuedOK, LoopOK, CoverOK, DrainedWhenStopped, [Next]_vars,
         \A s \in SubTasks : Finished(s) => Finished(s)'
  PROVE  DrainedWhenStopped'
<1>1. SUFFICES ASSUME NEW k \in Stops \cup Exits, NEW s \in After[k] \cap SubTasks,
                      NEW j \in After[k] \cap Starts,
                      outcome'[k] = "done", Accepted(s)',
                      \A i \in (Stops \cup Exits) \ {k} : i \in After[j] \/ s \in After[i]
               PROVE  Finished(s)
  BY DEF DrainedWhenStopped
<1>2. k \in Calls /\ s \in Calls /\ j \in Calls BY DEF Calls
<1>3. Covers(j, s) BY <1>1 DEF Covers
<1>4. CASE outcome[k] = "done"
  <2>1. Returned(s) BY <1>2, <1>4 DEF IssuedOK
  <2>2. Accepted(s)
    <3>1. ASSUME NEW c \in Clients, ClientStep(c) PROVE Accepted(s)
      BY <1>1, <1>2, <2>1, <3>1, ClientReturned DEF Accepted
    <3>2. ASSUME NEW w \in Workers, WorkerStep(w) PROVE Accepted(s)
      BY <1>1, <3>2, WorkerFrame DEF Accepted
    <3>3. CASE LoopStep BY <1>1, <3>3, LoopFrame DEF Accepted
    <3>4. CASE UNCHANGED vars BY <1>1, <3>4 DEF vars, Accepted
    <3> QED BY <3>1, <3>2, <3>3, <3>4 DEF Next, Rest
  <2> QED BY <1>1, <1>4, <2>2 DEF DrainedWhenStopped
<1>5. CASE outcome[k] # "done"
  <2>1. PICK c \in Clients : ClientStep(c)
    BY <1>1, <1>5, WorkerFrame, LoopFrame DEF Next, Rest, vars
  <2>2. call[c] = k /\ lpc \in {"none", "exited"} BY <1>1, <1>5, <2>1, StopReturns
  <2>3. outcome[k] # "unissued" BY <1>2, <2>2, ConstantsAssumption DEF CallsOK
  <2>4. Returned(s) /\ Returned(j) BY <1>2, <2>3 DEF IssuedOK
  <2>5. Accepted(s) BY <1>1, <1>2, <2>1, <2>4, ClientReturned DEF Accepted
  <2> QED BY <1>3, <2>2, <2>4, <2>5 DEF CoverOK
<1> QED BY <1>4, <1>5

\* The flag of a subtask is set at the end of its closure (line 90).
LEMMA StepCompleted ==
  ASSUME TypeInv, FetchesOK, CompletedOK, [Next]_vars PROVE CompletedOK'
<1>1. \A s \in SubTasks : Finished(s) => Finished(s)' BY FinishedStays
<1>2. ASSUME NEW c \in Clients, ClientStep(c) PROVE UNCHANGED completed
  BY <1>2 DEF ClientStep, AddMainTask, EnterWaiting, InsertMain, AddSubTask, NameSubTask,
     InsertSubTask, AppendMember, EmplaceSlot, FetchMain, CountReady, LockReady, PushMembers,
     LeaveWaiting, GetSubTaskResult, FindSlot, WaitSlot, TakeResult, EraseName, EraseSubTask,
     Start, LaunchLoop, Stop, TestJoinable, EnterJoin, Join, DestroyMutexes, StopPool, JoinPool,
     taskVars, subVars, subFields
<1>3. ASSUME NEW w \in Workers, WorkerStep(w)
      PROVE  completed' \subseteq completed \cup {s \in SubTasks : Finished(s)}
  <2>1. CASE FlagCompleted(w)
    <3>1. wpc[w] = "flag" /\ completed' = completed \cup {job[w]} BY <2>1 DEF FlagCompleted, WAt
    <3>2. job[w] \in SubTasks BY <3>1 DEF TypeInv, WorkerInv, WorkerShape
    <3> QED BY <3>1, <3>2 DEF FetchesOK
  <2>2. CASE ~FlagCompleted(w)
    <3>1. UNCHANGED completed
      BY <1>3, <2>2 DEF WorkerStep, Pop, LeavePool, FindSubTask, LookupDependency, FindDependency,
         AwaitDependency, StartFunction, FinishFunction, PostResult, NotifyDependents,
         FindMainTask, CountCompleted, EraseMainTask, UseDestroyed, EraseMembers, taskVars,
         subVars, subFields
    <3> QED BY <3>1
  <2> QED BY <2>1, <2>2
<1>4. LoopStep => UNCHANGED completed BY LoopFrame DEF taskVars, subVars, subFields
<1>5. UNCHANGED vars => UNCHANGED completed BY DEF vars, taskVars, subVars, subFields
<1>6. completed' \subseteq completed \cup {s \in SubTasks : Finished(s)}
  BY <1>2, <1>3, <1>4, <1>5 DEF Next, Rest
<1> QED BY <1>1, <1>6 DEF CompletedOK

\* What has returned stays so, whoever takes the step.
LEMMA StepReturned ==
  ASSUME TypeInv, CallsOK, [Next]_vars, NEW k \in Calls, Returned(k) PROVE Returned(k)'
<1>1. ASSUME NEW w \in Workers, WorkerStep(w) PROVE Returned(k)'
  BY <1>1, WorkerFrame DEF Returned, clientVars
<1>2. CASE LoopStep BY <1>2, LoopFrame DEF Returned, clientVars
<1>3. CASE UNCHANGED vars BY <1>3 DEF vars, Returned, clientVars
<1> QED BY <1>1, <1>2, <1>3, ClientReturned DEF Next, Rest

\* IssuedOK is inductive.
LEMMA StepIssued ==
  ASSUME TypeInv, CallsOK, IssuedOK, [Next]_vars PROVE IssuedOK'
<1> SUFFICES ASSUME NEW k \in Calls, outcome'[k] # "unissued", NEW j \in After[k]
             PROVE  Returned(j)'
  BY DEF IssuedOK
<1>1. j \in Calls BY ConstantsAssumption
<1>2. outcome[k] = "unissued" => \E c \in Clients : MayCall(c, k) BY Issues
<1>3. Returned(j) BY <1>2 DEF IssuedOK, MayCall
<1> QED BY <1>1, <1>3, StepReturned

\* At first nothing has been called.
LEMMA InitStop == ASSUME Init PROVE StopInv
<1>1. CompletedOK BY DEF Init, CompletedOK
<1>2. IssuedOK BY DEF Init, IssuedOK
<1>3. LoopOK BY ConstantsAssumption DEF Init, LoopOK, Destroying, Calls
<1>4. \A k \in Calls : outcome[k] = "unissued" BY DEF Init
<1>5. CoverOK BY <1>4 DEF CoverOK, Returned, Calls
<1>6. DrainedWhenStopped BY <1>4 DEF DrainedWhenStopped, Calls
<1> QED BY <1>1, <1>2, <1>3, <1>5, <1>6 DEF StopInv

\* StopInv is inductive, with the invariants that hold for all programs.
LEMMA StepStop ==
  ASSUME PriorityInv, OnceInv, StopInv, [Next]_vars PROVE StopInv'
<1> USE DEF StopInv
<1>0. TypeInv /\ CallsOK /\ FetchesOK BY DEF PriorityInv, OnceInv
<1>1. \A s \in SubTasks : Finished(s) => Finished(s)' BY <1>0, FinishedStays
<1>2. CompletedOK' BY <1>0, StepCompleted
<1>3. IssuedOK' BY <1>0, StepIssued
<1>4. DrainedWhenStopped' BY <1>0, <1>1, StepDrained
<1>5. ASSUME NEW c \in Clients, ClientStep(c) PROVE LoopOK' /\ CoverOK'
  BY <1>0, <1>5, ClientStepLoop, ClientStepCover
<1>6. ASSUME UNCHANGED <<clientVars, outcome, lpc, is_running>> PROVE CoverOK'
  BY <1>1, <1>6 DEF CoverOK, Covers, Returned, Accepted, clientVars
<1>7. ASSUME NEW w \in Workers, WorkerStep(w) PROVE LoopOK' /\ CoverOK'
  <2>1. UNCHANGED <<clientVars, outcome, lpc, is_running>> BY <1>7, WorkerFrame DEF loopVars
  <2> QED BY <1>0, <1>6, <1>7, <2>1, WorkerStepLoop
<1>8. ASSUME LoopStep PROVE LoopOK' /\ CoverOK'
  BY <1>0, <1>8, LoopStepLoop, LoopStepCover
<1>9. ASSUME UNCHANGED vars PROVE LoopOK' /\ CoverOK'
  <2>1. CoverOK' BY <1>6, <1>9 DEF vars, loopVars
  <2>2. LoopOK'
    BY <1>9 DEF vars, loopVars, clientVars, queueVars, exitVars, LoopOK, Over
  <2> QED BY <2>1, <2>2
<1> QED BY <1>2, <1>3, <1>4, <1>5, <1>7, <1>8, <1>9 DEF Next, Rest

\* The invariants that hold for all programs.
LEMMA StopInvariants == Spec => [](PriorityInv /\ OnceInv /\ StopInv)
<1>1. Init => PriorityInv /\ OnceInv /\ StopInv BY InitPriority, InitPlaces, InitStop
<1>2. (PriorityInv /\ OnceInv /\ StopInv) /\ [Next]_vars => (PriorityInv /\ OnceInv /\ StopInv)'
  BY StepPriority, StepOnce, StepStop
<1> QED BY <1>1, <1>2, PTL DEF Spec

\* The pool is stopped with an empty ring: the destructor joins the loop first, which stays while a
\* subtask that is listed is not flagged (EventDispatcher.hpp:125, 159, 322-327).
THEOREM RingTaken == Spec => []RingEmptyWhenStopped
<1>1. StopInv => RingEmptyWhenStopped BY DEF StopInv, LoopOK, RingEmptyWhenStopped
<1> QED BY <1>1, StopInvariants, PTL

\* When Stop has returned, the subtasks submitted before it have run, if the loop had been started
\* and no other Stop came in between (EventDispatcher.hpp:125, 131-167, 322-327).
THEOREM StopDrains == Spec => []DrainedWhenStopped
<1>1. StopInv => DrainedWhenStopped BY DEF StopInv
<1> QED BY <1>1, StopInvariants, PTL

-----------------------------------------------------------------------------
(* The pool's queue. *)

\* A client only stops the queue, in the destructor.
LEMMA ClientStepFIFO ==
  ASSUME NEW c \in Clients, ClientStep(c) PROVE [FIFO!Next]_(FIFO!vars)
<1>1. UNCHANGED <<ring, job>> BY ClientFrame DEF workerVars
<1>2. CASE StopPool(c) BY <1>1, <1>2 DEF StopPool, FIFO!Next, FIFO!Close
<1>3. CASE ~StopPool(c)
  <2>1. UNCHANGED stopped
    BY <1>3 DEF ClientStep, AddMainTask, EnterWaiting, InsertMain, AddSubTask, NameSubTask,
       InsertSubTask, AppendMember, EmplaceSlot, FetchMain, CountReady, LockReady, PushMembers,
       LeaveWaiting, GetSubTaskResult, FindSlot, WaitSlot, TakeResult, EraseName, EraseSubTask,
       Start, LaunchLoop, Stop, TestJoinable, EnterJoin, Join, DestroyMutexes, JoinPool,
       clientOther, exitVars
  <2> QED BY <1>1, <2>1 DEF FIFO!vars
<1> QED BY <1>2, <1>3

\* A worker takes the first task when it has none, and puts it away when its closure is over.
LEMMA WorkerStepFIFO ==
  ASSUME TypeInv, PlacesOK, NEW w \in Workers, WorkerStep(w) PROVE [FIFO!Next]_(FIFO!vars)
<1>1. UNCHANGED stopped
  BY DEF WorkerStep, Pop, LeavePool, FindSubTask, LookupDependency, FindDependency,
     AwaitDependency, StartFunction, FinishFunction, PostResult, FlagCompleted, NotifyDependents,
     FindMainTask, CountCompleted, EraseMainTask, EraseMembers, UseDestroyed, workerOther, exitVars
<1>2. CASE Pop(w)
  <2>1. job[w] = None BY <1>2 DEF Pop, WAt, PlacesOK
  <2>2. FIFO!Deliver(w) BY <1>1, <1>2, <2>1 DEF Pop, WJob, FIFO!Deliver
  <2> QED BY <2>2 DEF FIFO!Next
<1>3. ASSUME WReturn(w), UNCHANGED ring PROVE [FIFO!Next]_(FIFO!vars)
  <2>1. FIFO!PutAway(w) BY <1>1, <1>3 DEF WReturn, WJob, FIFO!PutAway
  <2> QED BY <2>1 DEF FIFO!Next
<1>4. ~Pop(w) => UNCHANGED ring BY WorkerMoves
<1>5. ~Pop(w) => WReturn(w) \/ UNCHANGED job
  BY DEF WorkerStep, LeavePool, FindSubTask, LookupDependency, FindDependency, AwaitDependency,
     StartFunction, FinishFunction, PostResult, FlagCompleted, NotifyDependents, FindMainTask,
     CountCompleted, EraseMainTask, EraseMembers, UseDestroyed, NextDependency, WGoto, workerVars
<1> QED BY <1>1, <1>2, <1>3, <1>4, <1>5 DEF FIFO!vars

\* The loop enqueues when there is room, and the queue is not stopped while the loop runs.
LEMMA LoopStepFIFO ==
  ASSUME TypeInv, LoopOK, LoopStep PROVE [FIFO!Next]_(FIFO!vars)
<1>1. UNCHANGED <<stopped, job>>
  BY DEF LoopStep, TestRunning, PendingReady, PendingWaiting, PendingSubTasks, LoopLock, Dispatch,
     LoopUnlock, loopOther, exitVars, workerVars
<1>2. ASSUME NEW p \in Priorities, Dispatch(p) PROVE [FIFO!Next]_(FIFO!vars)
  <2>1. ~stopped BY <1>2 DEF LoopOK, Dispatch, LAt
  <2>2. ready_subtasks[p] \in Seq(SubTasks) /\ ready_subtasks[p] # <<>>
    BY <1>2 DEF Dispatch, ScanIsAt, TypeInv, QueuesOK
  <2>3. Head(ready_subtasks[p]) \in SubTasks BY <2>2
  <2>4. FIFO!Put(Head(ready_subtasks[p]))
    BY <1>1, <1>2, <2>1 DEF Dispatch, RingHasRoom, FIFO!Put
  <2> QED BY <2>3, <2>4 DEF FIFO!Next
<1>3. CASE ~\E p \in Priorities : Dispatch(p) BY <1>1, <1>3, LoopQuiet DEF FIFO!vars
<1> QED BY <1>2, <1>3

\* The dispatcher uses the queue of the pool as the bounded FIFO that RingQueue implements
\* (EventDispatcher.hpp:178, 322-327), whatever the clients submit: the loop is joined before the
\* pool is stopped, and no worker takes a task while it has one.
THEOREM PoolUsedAsFIFO == Spec => PoolIsFIFO
<1> DEFINE Inv == PriorityInv /\ OnceInv /\ StopInv
<1>1. Init => FIFO!Init BY DEF Init, FIFO!Init
<1>2. Inv /\ [Next]_vars => [FIFO!Next]_(FIFO!vars)
  <2> SUFFICES ASSUME Inv, [Next]_vars PROVE [FIFO!Next]_(FIFO!vars) OBVIOUS
  <2>0. TypeInv /\ PlacesOK /\ LoopOK BY DEF PriorityInv, OnceInv, StopInv
  <2>1. CASE UNCHANGED vars BY <2>1 DEF vars, queueVars, workerVars, exitVars, FIFO!vars
  <2> QED BY <2>0, <2>1, ClientStepFIFO, WorkerStepFIFO, LoopStepFIFO DEF Next, Rest
<1>3. Spec => []Inv BY StopInvariants
<1> HIDE DEF Inv
<1> QED BY <1>1, <1>2, <1>3, PTL DEF Spec, PoolIsFIFO, FIFO!Spec

-----------------------------------------------------------------------------
(* What a thread looks up is there. *)

\* A main task stays until the closures of all its subtasks have counted (lines 98-117), a slot
\* until its result is taken.
Erasing        == {"erase_main", "erase_members"}
Closed(s)      == Finished(s) /\ \A w \in Workers : job[w] = s => wpc[w] \in Erasing
CompletedOf(m) == {s \in SubTasks : main_task_id[s] = m /\ Closed(s)}
AllClosed(m)   == Complete(m) /\ \A s \in SubTasks : MainTaskName[s] = MainName[m] => Closed(s)
Unslotted      == {"as_name", "as_insert", "as_members", "as_slot"}
ClosedOK ==
  /\ \A m \in MainTasks : /\ completed_count[m] = Cardinality(CompletedOf(m))
                          /\ Returned(m) => m \in main_tasks \/ AllClosed(m)
  /\ \A w \in Workers : wpc[w] \in Erasing => AllClosed(main_task_id[job[w]])
  /\ \A c \in Clients : call[c] \in MainTasks => cpc[c] \in AddingMain
  /\ \A s \in SubTasks : Beyond(s, Unslotted) => s \in subtask_results \/ Answered(s)

\* The main task of a subtask that is not counted, or not closed, is there.
LEMMA MainIsThere ==
  ASSUME Ordered, PriorityInv, DependencyInv, ClosedOK, NEW s \in SubTasks,
         main_task_id[s] # None, ~Beyond(s, Uncounted) \/ ~Closed(s)
  PROVE  main_task_id[s] \in main_tasks
<1>1. PICK m \in MainTasks : m = main_task_id[s] BY DEF PriorityInv, TypeInv, MapsOK
<1>2. MainTaskName[s] = MainName[m] BY <1>1 DEF DependencyInv, CountsOK
<1>3. outcome[s] # "unissued" BY DEF PriorityInv, IdOfCall
<1>4. Returned(m) BY <1>2, <1>3 DEF Ordered, DependencyInv, CallsOK
<1>5. ~AllClosed(m) BY <1>2 DEF AllClosed, Complete
<1> QED BY <1>1, <1>4, <1>5 DEF ClosedOK

\* What has ended has been released.
LEMMA FinishedReleased ==
  ASSUME PriorityInv, DependencyInv, PlaceInv, NEW s \in SubTasks, Finished(s)
  PROVE  Released(s) /\ main_task_id[s] # None
<1>1. started[s] > 0
  BY DEF PlaceInv, PlacesOK, Finished, PriorityInv, TypeInv, OthersOK
<1>2. Released(s)
  BY <1>1, PresentReleased DEF Present, PriorityInv, PlaceInv
<1> QED BY <1>2, ConstantsAssumption DEF Released, Calls

\* The steps of addMainTask.
LEMMA MainSteps ==
  ASSUME TypeInv, NEW c \in Clients, ClientStep(c)
  PROVE  /\ cpc[c] \in AddingMain =>
              \/ cpc'[c] = "am_insert" /\ call'[c] = call[c] /\ UNCHANGED main_tasks
              \/ call'[c] = None /\ main_tasks' = main_tasks \cup {call[c]}
         /\ \A m \in MainTasks : AddMainTask(c, m) => cpc'[c] = "am_waiting" /\ call'[c] = m
         /\ main_tasks \subseteq main_tasks' /\ UNCHANGED completed_count
<1> USE DEF TypeInv, ClientInv, ClientsOK
<1>1. EnterWaiting(c) => cpc'[c] = "am_insert" /\ call' = call /\ UNCHANGED main_tasks
  BY DEF EnterWaiting, CGoto
<1>2. InsertMain(c) => call'[c] = None /\ main_tasks' = main_tasks \cup {call[c]}
  BY DEF InsertMain, Return
<1>3. cpc[c] \in AddingMain => EnterWaiting(c) \/ InsertMain(c)
  BY DEF AddingMain, ClientStep, AddMainTask, EnterWaiting, InsertMain, AddSubTask, NameSubTask,
     InsertSubTask, AppendMember, EmplaceSlot, FetchMain, CountReady, LockReady, PushMembers,
     LeaveWaiting, GetSubTaskResult, FindSlot, WaitSlot, TakeResult, EraseName, EraseSubTask,
     Start, LaunchLoop, Stop, TestJoinable, EnterJoin, Join, DestroyMutexes, StopPool, JoinPool,
     MayCall, CAt
<1>4. \A m \in MainTasks : AddMainTask(c, m) => cpc'[c] = "am_waiting" /\ call'[c] = m
  BY DEF AddMainTask, Enter, Calls
<1>5. main_tasks \subseteq main_tasks' /\ UNCHANGED completed_count
  BY DEF ClientStep, AddMainTask, EnterWaiting, InsertMain, AddSubTask, NameSubTask,
     InsertSubTask, AppendMember, EmplaceSlot, FetchMain, CountReady, LockReady, PushMembers,
     LeaveWaiting, GetSubTaskResult, FindSlot, WaitSlot, TakeResult, EraseName, EraseSubTask,
     Start, LaunchLoop, Stop, TestJoinable, EnterJoin, Join, DestroyMutexes, StopPool, JoinPool,
     taskVars, mainVars, mainMaps, counts
<1> QED BY <1>1, <1>2, <1>3, <1>4, <1>5

\* The steps that fill and empty the slots (lines 298, 233).
LEMMA SlotSteps ==
  ASSUME TypeInv, NEW c \in Clients, ClientStep(c)
  PROVE  /\ cpc[c] \in Unslotted =>
              \/ call'[c] = call[c] /\ cpc'[c] \in Unslotted
              \/ subtask_results' = subtask_results \cup {call[c]}
         /\ \/ subtask_results \subseteq subtask_results'
            \/ TakeResult(c) /\ subtask_results' = subtask_results \ {found[c]}
<1> USE DEF TypeInv, ClientInv, ClientsOK
<1>1. ASSUME NEW l, CGoto(c, l) PROVE cpc'[c] = l /\ call'[c] = call[c] BY <1>1 DEF CGoto
<1>2. CASE NameSubTask(c) \/ InsertSubTask(c) \/ AppendMember(c)
  BY <1>1, <1>2 DEF NameSubTask, InsertSubTask, AppendMember, Unslotted, subVars, subMaps
<1>3. CASE EmplaceSlot(c) BY <1>3 DEF EmplaceSlot
<1>4. CASE TakeResult(c) BY <1>4 DEF TakeResult, CAt, Unslotted
<1>5. CASE ~(NameSubTask(c) \/ InsertSubTask(c) \/ AppendMember(c) \/ EmplaceSlot(c)
             \/ TakeResult(c))
  <2>1. cpc[c] \notin Unslotted
    BY <1>5 DEF ClientStep, AddMainTask, EnterWaiting, InsertMain, AddSubTask, FetchMain,
       CountReady, LockReady, PushMembers, LeaveWaiting, GetSubTaskResult, FindSlot, WaitSlot,
       EraseName, EraseSubTask, Start, LaunchLoop, Stop, TestJoinable, EnterJoin, Join,
       DestroyMutexes, StopPool, JoinPool, Unslotted, CAt, MayCall
  <2>2. UNCHANGED subtask_results
    BY <1>5 DEF ClientStep, AddMainTask, EnterWaiting, InsertMain, AddSubTask, FetchMain,
       CountReady, LockReady, PushMembers, LeaveWaiting, GetSubTaskResult, FindSlot, WaitSlot,
       EraseName, EraseSubTask, Start, LaunchLoop, Stop, TestJoinable, EnterJoin, Join,
       DestroyMutexes, StopPool, JoinPool, taskVars, subVars, subMaps
  <2> QED BY <2>1, <2>2
<1> QED BY <1>2, <1>3, <1>4, <1>5

\* What has been answered stays so.
LEMMA AnsweredStay ==
  ASSUME TypeInv, CallsOK, ResultOK, NEW c \in Clients, ClientStep(c),
         NEW f \in Fetches, outcome[f] \in Slots
  PROVE  outcome'[f] = outcome[f]
<1>0. f \in Calls BY DEF Calls
<1>1. CASE TakeResult(c)
  <2>1. outcome[call[c]] = "open" /\ "open" \notin Slots
    BY <1>1, TakeMoves DEF ResultOK, Slots
  <2> QED BY <1>0, <1>1, <2>1, TakeMoves
<1>2. CASE WaitSlot(c) BY <1>2, WaitMoves
<1>3. CASE ~TakeResult(c) /\ ~WaitSlot(c) BY <1>0, <1>3, FetchMoves
<1> QED BY <1>1, <1>2, <1>3

\* No step of a client breaks ClosedOK: it closes nothing, and a call of addMainTask returns when
\* the main task is there (line 273).
LEMMA ClientStepClosed ==
  ASSUME PriorityInv, DependencyInv, PlaceInv, ClosedOK, IdsStay, NEW c \in Clients, ClientStep(c)
  PROVE  ClosedOK'
<1>0. TypeInv /\ CallsOK /\ ResultOK BY DEF PriorityInv, DependencyInv, PlaceInv
<1>1. Moves(c) BY <1>0, ClientMoves
<1>2. UNCHANGED <<workerVars, fn>> BY ClientFrame
<1>3. \A s \in SubTasks : Closed(s)' <=> Closed(s)
  BY <1>2 DEF Closed, Finished, workerVars
<1>4. \A s \in SubTasks : Closed(s) => main_task_id'[s] = main_task_id[s]
  BY FinishedReleased DEF Closed, IdsStay
<1>5. \A m \in MainTasks : AllClosed(m) => AllClosed(m)'
  BY <1>0, <1>1, <1>3, ReleasedStay DEF AllClosed
<1>6. ASSUME NEW m \in MainTasks PROVE completed_count'[m] = Cardinality(CompletedOf(m))'
  <2>1. CompletedOf(m)' = CompletedOf(m)
    <3>1. \A s \in SubTasks : Closed(s) => main_task_id[s] # None
      BY FinishedReleased DEF Closed
    <3> QED BY <1>3, <1>4, <3>1 DEF CompletedOf
  <2> QED BY <1>0, <2>1, MainSteps DEF ClosedOK
<1>7. ASSUME NEW m \in MainTasks, Returned(m)' PROVE m \in main_tasks' \/ AllClosed(m)'
  <2>0. m \in Calls /\ m # None BY ConstantsAssumption DEF Calls
  <2>1. CASE Returned(m) BY <1>0, <1>5, <2>1, MainSteps DEF ClosedOK
  <2>2. CASE outcome[m] = "unissued"
    <3>1. AddMainTask(c, m)
      BY <1>0, <1>7, <2>0, <2>2, ClientIssues, KindsAssumption DEF Makes, Returned
    <3> QED BY <1>0, <1>7, <3>1, MainSteps DEF Returned
  <2>3. CASE ~Returned(m) /\ outcome[m] # "unissued"
    <3>1. PICK d \in Clients : call[d] = m BY <2>3 DEF Returned
    <3>2. d = c BY <1>1, <1>7, <3>1 DEF Moves, Returned
    <3>3. cpc[c] \in AddingMain BY <3>1, <3>2 DEF ClosedOK
    <3> QED BY <1>0, <1>7, <3>1, <3>2, <3>3, MainSteps DEF Returned
  <2> QED BY <2>1, <2>2, <2>3
<1>8. ASSUME NEW w \in Workers, wpc'[w] \in Erasing PROVE AllClosed(main_task_id[job[w]])'
  <2>1. wpc[w] \in Erasing /\ job' = job BY <1>2, <1>8 DEF workerVars
  <2>2. job[w] \in SubTasks /\ Released(job[w])
    BY <1>0, <2>1 DEF Erasing, TypeInv, WorkerInv, WorkerShape, DependencyInv, ReleasedOK
  <2>3. main_task_id'[job[w]] = main_task_id[job[w]]
    BY <2>2, ConstantsAssumption DEF IdsStay, Released, Calls
  <2> QED BY <1>5, <2>1, <2>2, <2>3 DEF ClosedOK, Released
<1>9. ASSUME NEW d \in Clients, call'[d] \in MainTasks PROVE cpc'[d] \in AddingMain
  <2>0. None \notin MainTasks BY ConstantsAssumption DEF Calls
  <2>1. CASE d # c BY <1>1, <1>9, <2>1 DEF ClosedOK, Moves
  <2>2. CASE d = c /\ call'[c] = call[c]
    BY <1>0, <1>9, <2>0, <2>2, MainSteps DEF ClosedOK, AddingMain
  <2>3. CASE d = c /\ call'[c] # call[c]
    <3>1. outcome[call'[c]] = "unissued" /\ call'[c] \in Calls
      BY <1>1, <1>9, <2>0, <2>3 DEF Moves
    <3>2. outcome'[call'[c]] # "unissued"
      <4>1. CallsOK' BY <1>0, ClientStepCalls
      <4> QED BY <1>9, <2>0, <2>3, <4>1 DEF CallsOK
    <3>3. AddMainTask(c, call'[c])
      BY <1>0, <1>9, <2>3, <3>1, <3>2, ClientIssues, KindsAssumption DEF Makes
    <3> QED BY <1>0, <1>9, <2>3, <3>3, MainSteps DEF AddingMain
  <2> QED BY <2>1, <2>2, <2>3
<1>10. ASSUME NEW s \in SubTasks, Beyond(s, Unslotted)'
       PROVE  s \in subtask_results' \/ Answered(s)'
  <2>1. Answered(s) => Answered(s)' BY <1>0, AnsweredStay DEF Answered
  <2>2. CASE Beyond(s, Unslotted)
    <3>1. CASE TakeResult(c) /\ s = found[c] /\ subtask_results' = subtask_results \ {s}
      <4>1. call[c] \in Fetches /\ outcome'[call[c]] \in Slots /\ cpc[c] = "gr_take"
        BY <1>0, <3>1, TakeMoves
      <4>2. SubName[s] = FetchName[call[c]]
        BY <3>1, <4>1 DEF DependencyInv, FetchesOK, Fetching
      <4> QED BY <4>1, <4>2 DEF Answered
    <3> QED BY <1>0, <2>1, <2>2, <3>1, SlotSteps DEF ClosedOK
  <2>3. CASE ~Beyond(s, Unslotted)
    <3>1. main_task_id[s] # None
      BY <1>10 DEF Beyond, IdsStay, Unslotted
    <3>2. PICK d \in Clients : call[d] = s /\ cpc[d] \in Unslotted BY <2>3, <3>1 DEF Beyond
    <3>3. d = c BY <1>1, <1>10, <3>2 DEF Moves, Beyond
    <3> QED BY <1>0, <1>10, <3>2, <3>3, SlotSteps DEF Beyond
  <2> QED BY <2>2, <2>3
<1> QED BY <1>6, <1>7, <1>8, <1>9, <1>10 DEF ClosedOK

\* The steps of a worker that erase (lines 101-117).
LEMMA ErasingSteps ==
  ASSUME TypeInv, NEW w \in Workers, WorkerStep(w)
  PROVE  /\ UNCHANGED subtask_results
         /\ ~CountCompleted(w) =>
              /\ UNCHANGED completed_count
              /\ wpc'[w] \in Erasing => wpc[w] \in Erasing /\ job'[w] = job[w]
         /\ wpc[w] \in Erasing /\ job'[w] = job[w] => wpc'[w] \in Erasing
         /\ job'[w] # job[w] =>
              \/ Pop(w) \/ CountCompleted(w) \/ wpc[w] \in {"find", "erase_members"}
              \/ wpc[w] = "find_main" /\ main_task_id[job[w]] \notin main_tasks
         /\ \/ UNCHANGED main_tasks
            \/ wpc[w] = "erase_main" /\ main_tasks' = main_tasks \ {main_task_id[job[w]]}
<1> USE DEF TypeInv, WorkerInv, WorkersOK, WAt, workerOther, taskVars, subVars, subMaps, mainVars,
            mainMaps, counts, Erasing
<1>1. ASSUME NEW l, WGoto(w, l) PROVE wpc'[w] = l /\ job'[w] = job[w] BY <1>1 DEF WGoto
<1>2. ASSUME NEW l, NEW s, WJob(w, l, s) PROVE wpc'[w] = l BY <1>2 DEF WJob
<1>3. ASSUME NextDependency(w) PROVE wpc'[w] = "deps" /\ job'[w] = job[w]
  BY <1>3 DEF NextDependency
<1>4. CASE Pop(w) BY <1>2, <1>4 DEF Pop
<1>5. CASE FindSubTask(w) BY <1>1, <1>2, <1>5 DEF FindSubTask, WReturn
<1>6. CASE LookupDependency(w) BY <1>3, <1>6 DEF LookupDependency
<1>7. CASE FindDependency(w) \/ AwaitDependency(w) \/ StartFunction(w) \/ LeavePool(w)
  BY <1>1, <1>3, <1>7 DEF FindDependency, AwaitDependency, StartFunction, LeavePool
<1>8. CASE FinishFunction(w) BY <1>1, <1>8 DEF FinishFunction
<1>9. CASE PostResult(w) \/ FlagCompleted(w) \/ NotifyDependents(w)
  BY <1>1, <1>9 DEF PostResult, FlagCompleted, NotifyDependents
<1>10. CASE FindMainTask(w) BY <1>1, <1>2, <1>10 DEF FindMainTask, WReturn
<1>11. CASE CountCompleted(w) BY <1>11 DEF CountCompleted
<1>12. CASE EraseMainTask(w) BY <1>1, <1>12 DEF EraseMainTask
<1>13. CASE EraseMembers(w)
  <2>1. job[w] # None /\ job'[w] = None
    BY <1>13, ConstantsAssumption DEF EraseMembers, WReturn, WJob, WorkerShape, Calls
  <2> QED BY <1>2, <1>13, <2>1 DEF EraseMembers, WReturn
<1>14. CASE UseDestroyed(w) BY <1>14 DEF UseDestroyed, workerVars
<1> QED
  BY <1>4, <1>5, <1>6, <1>7, <1>8, <1>9, <1>10, <1>11, <1>12, <1>13, <1>14 DEF WorkerStep

\* A closure is over when it has counted for its main task (line 104): no other step of a worker
\* closes a subtask, since what it looks up is there.
LEMMA ClosedMoves ==
  ASSUME Ordered, PriorityInv, DependencyInv, PlaceInv, KeptOK, ClosedOK, NEW w \in Workers,
         WorkerStep(w), ~CountCompleted(w), NEW s \in SubTasks
  PROVE  Closed(s)' <=> Closed(s)
<1>0. TypeInv /\ PlacesOK BY DEF PriorityInv, PlaceInv
<1>1. \A v \in Workers \ {w} : wpc'[v] = wpc[v] /\ job'[v] = job[v] BY <1>0, WorkerMoves
<1>2. s # None BY ConstantsAssumption DEF Calls
<1>3. CASE Pop(w)
  <2>1. PICK h \in SubTasks : Enqueued(h) /\ job[w] = None /\ job'[w] = h
    BY <1>0, <1>3, PopMoves
  <2>2. ~Finished(h) BY <1>0, <2>1 DEF PlacesOK, Finished
  <2>3. fn' = fn BY <1>3 DEF Pop, histVars
  <2> QED BY <1>1, <1>2, <2>1, <2>2, <2>3 DEF Closed, Finished
<1>4. CASE FinishFunction(w)
  <2>1. /\ wpc[w] = "running" /\ wpc'[w] = "post" /\ job' = job /\ fn[job[w]] = "none"
        /\ \A t \in SubTasks \ {job[w]} : fn'[t] = fn[t]
    BY <1>0, <1>4, FinishMoves DEF PlacesOK
  <2> QED BY <1>1, <2>1 DEF Closed, Finished, Erasing
<1>5. CASE ~Pop(w) /\ ~FinishFunction(w)
  <2>1. fn' = fn BY <1>0, <1>5, WorkerMoves
  <2>2. CASE job'[w] = job[w]
    <3>1. wpc'[w] \in Erasing <=> wpc[w] \in Erasing BY <1>0, <2>2, ErasingSteps
    <3> QED BY <1>1, <2>1, <2>2, <3>1 DEF Closed, Finished
  <2>3. CASE job'[w] # job[w]
    <3>1. job'[w] = None
      BY <1>0, <1>5, <2>3, WorkerMoves, StartMoves
    <3>2. CASE s # job[w] BY <1>1, <1>2, <2>1, <3>1, <3>2 DEF Closed, Finished
    <3>3. CASE s = job[w] /\ wpc[w] = "erase_members"
      BY <1>1, <1>2, <2>1, <3>1, <3>3 DEF Closed, Finished, Erasing
    <3>4. CASE s = job[w] /\ wpc[w] = "find"
      <4>1. ~Finished(s) BY <1>0, <3>4 DEF PlacesOK, Scanning, Finished
      <4> QED BY <2>1, <4>1 DEF Closed, Finished
    <3>5. CASE s = job[w] /\ wpc[w] = "find_main" /\ main_task_id[s] \notin main_tasks
      <4>1. ~Closed(s) BY <3>5 DEF Closed, Erasing
      <4>2. Finished(s) BY <3>5 DEF KeptOK, Closing
      <4> QED BY <3>5, <4>1, <4>2, FinishedReleased, MainIsThere
    <3> QED BY <1>0, <1>5, <2>3, <3>2, <3>3, <3>4, <3>5, ErasingSteps
  <2> QED BY <2>2, <2>3
<1> QED BY <1>3, <1>4, <1>5

\* The count of a subtask closes it, and the last of its main task goes on to erase (lines 104-117).
LEMMA CountCloses ==
  ASSUME WellFormed, PriorityInv, DependencyInv, PlaceInv, KeptOK, ClosedOK, NEW w \in Workers,
         WorkerStep(w), CountCompleted(w)
  PROVE  \E s \in SubTasks, m \in MainTasks :
           /\ s = job[w] /\ m = main_task_id[s] /\ Complete(m)
           /\ s \notin CompletedOf(m) /\ CompletedOf(m)' = CompletedOf(m) \cup {s}
           /\ \A k \in MainTasks \ {m} : CompletedOf(k)' = CompletedOf(k)
           /\ \A t \in SubTasks : Closed(t) => Closed(t)'
           /\ completed_count' = [completed_count EXCEPT ![m] = @ + 1]
           /\ \/ wpc'[w] = "erase_main" /\ job'[w] = s /\ LastCompleted(m)
              \/ wpc'[w] = "idle" /\ ~LastCompleted(m)
<1>0. TypeInv /\ PlacesOK BY DEF PriorityInv, PlaceInv
<1>1. wpc[w] = "count" BY DEF CountCompleted, WAt
<1>2. PICK s \in SubTasks : s = job[w] BY <1>0, <1>1 DEF TypeInv, WorkerInv, WorkerShape
<1>3. PICK m \in MainTasks : m = main_task_id[s] /\ Complete(m)
  BY <1>1, <1>2 DEF DependencyInv, ReleasedOK, Released
<1>4. Finished(s) BY <1>1, <1>2 DEF KeptOK, Closing
<1>5. s # None BY ConstantsAssumption DEF Calls
<1>6. \/ wpc'[w] = "erase_main" /\ job'[w] = s /\ LastCompleted(m)
      \/ wpc'[w] = "idle" /\ job'[w] = None /\ ~LastCompleted(m)
  BY <1>0, <1>2, <1>3
  DEF CountCompleted, WGoto, WReturn, WJob, TypeInv, WorkerInv, WorkersOK
<1>7. \A v \in Workers \ {w} : wpc'[v] = wpc[v] /\ job'[v] = job[v] /\ job[v] # s
  BY <1>0, <1>2, <1>5, WorkerMoves DEF PlacesOK
<1>8. UNCHANGED <<fn, main_task_id>>
  BY DEF CountCompleted, workerOther, histVars, subVars, subFields
<1>9. ~Closed(s) /\ Closed(s)'
  BY <1>1, <1>2, <1>4, <1>5, <1>6, <1>7, <1>8 DEF Closed, Finished, Erasing
<1>10. \A t \in SubTasks \ {s} : Closed(t)' <=> Closed(t)
  <2> SUFFICES ASSUME NEW t \in SubTasks, t # s PROVE Closed(t)' <=> Closed(t) OBVIOUS
  <2>1. t # None BY ConstantsAssumption DEF Calls
  <2> QED BY <1>2, <1>6, <1>7, <1>8, <2>1 DEF Closed, Finished
<1>11. completed_count' = [completed_count EXCEPT ![m] = @ + 1]
  BY <1>2, <1>3 DEF CountCompleted
<1> QED BY <1>2, <1>3, <1>6, <1>8, <1>9, <1>10, <1>11 DEF CompletedOf

\* When as many closures are over as the main task announced, all are.
LEMMA AllCounted ==
  ASSUME WellFormed, CountsOK', NEW m \in MainTasks, Complete(m)',
         Cardinality(CompletedOf(m))' = SubtaskSize[m]
  PROVE  AllClosed(m)'
<1> DEFINE G == {s \in SubTasks : MainTaskName[s] = MainName[m]}
<1>1. CompletedOf(m)' \subseteq G
  BY ConstantsAssumption DEF CompletedOf, CountsOK, Calls
<1>2. IsFiniteSet(G) BY ConstantsAssumption, FS_Subset
<1>3. Cardinality(CompletedOf(m))' = Cardinality(G) BY DEF WellFormed
<1>4. CompletedOf(m)' = G BY <1>1, <1>2, <1>3, FS_Subset
<1> QED BY <1>4 DEF AllClosed, CompletedOf

\* No step of a worker breaks ClosedOK: it erases a main task when all of it is closed.
LEMMA WorkerStepClosed ==
  ASSUME Ordered, PriorityInv, DependencyInv, PlaceInv, KeptOK, ClosedOK, DependencyInv',
         NEW w \in Workers, WorkerStep(w)
  PROVE  ClosedOK'
<1>0. TypeInv /\ PlacesOK /\ WellFormed BY DEF PriorityInv, PlaceInv, Ordered
<1>1. UNCHANGED <<clientVars, outcome, main_task_id>> BY WorkerFrame
<1>2. \A v \in Workers \ {w} : wpc'[v] = wpc[v] /\ job'[v] = job[v] BY <1>0, WorkerMoves
<1>3. \A m \in MainTasks : Complete(m)' <=> Complete(m) BY <1>1, ReleasedSame
<1>4. \A c \in Clients : call'[c] \in MainTasks => cpc'[c] \in AddingMain
  BY <1>1 DEF ClosedOK, clientVars
<1>5. \A s \in SubTasks : Beyond(s, Unslotted)' => s \in subtask_results' \/ Answered(s)'
  BY <1>0, <1>1, BeyondSame, ErasingSteps DEF ClosedOK, Answered
<1>6. \A s \in SubTasks : Closed(s) => Closed(s)' BY <1>0, ClosedMoves, CountCloses
<1>7. \A m \in MainTasks : AllClosed(m) => AllClosed(m)' BY <1>3, <1>6 DEF AllClosed
<1>8. \A v \in Workers : wpc[v] \in Erasing =>
        job[v] \in SubTasks /\ main_task_id[job[v]] \in MainTasks
  BY <1>0 DEF Erasing, TypeInv, WorkerInv, WorkerShape, DependencyInv, ReleasedOK, Released
<1>9. ASSUME NEW m \in MainTasks, Returned(m)' PROVE m \in main_tasks' \/ AllClosed(m)'
  <2>1. Returned(m) BY <1>1, <1>9 DEF Returned, clientVars
  <2>2. CASE AllClosed(m) BY <1>7, <2>2
  <2>3. CASE m \in main_tasks /\ ~AllClosed(m)
    <3>1. wpc[w] = "erase_main" => main_task_id[job[w]] # m BY <2>3 DEF ClosedOK, Erasing
    <3> QED BY <1>0, <2>3, <3>1, ErasingSteps
  <2> QED BY <2>1, <2>2, <2>3 DEF ClosedOK
<1>10. CASE CountCompleted(w)
  <2>1. PICK s \in SubTasks, m \in MainTasks :
          /\ s = job[w] /\ m = main_task_id[s] /\ Complete(m)
          /\ s \notin CompletedOf(m) /\ CompletedOf(m)' = CompletedOf(m) \cup {s}
          /\ \A k \in MainTasks \ {m} : CompletedOf(k)' = CompletedOf(k)
          /\ completed_count' = [completed_count EXCEPT ![m] = @ + 1]
          /\ \/ wpc'[w] = "erase_main" /\ job'[w] = s /\ LastCompleted(m)
             \/ wpc'[w] = "idle" /\ ~LastCompleted(m)
    BY <1>0, <1>10, CountCloses
  <2>2. IsFiniteSet(CompletedOf(m))
    BY ConstantsAssumption, FS_Subset DEF CompletedOf
  <2>3. Cardinality(CompletedOf(m))' = Cardinality(CompletedOf(m)) + 1
    <3>1. s \notin CompletedOf(m) /\ CompletedOf(m)' = CompletedOf(m) \cup {s} BY <2>1
    <3>2. Cardinality(CompletedOf(m) \cup {s}) = Cardinality(CompletedOf(m)) + 1
      BY <2>2, <3>1, FS_AddElement
    <3> QED BY <3>1, <3>2
  <2>4. \A k \in MainTasks : completed_count'[k] = Cardinality(CompletedOf(k))'
    BY <1>0, <2>1, <2>3 DEF ClosedOK, TypeInv, MapsOK
  <2>5. ASSUME wpc'[w] \in Erasing PROVE AllClosed(main_task_id[job[w]])'
    <3>1. LastCompleted(m) /\ job'[w] = s BY <2>1, <2>5 DEF Erasing
    <3>2. Cardinality(CompletedOf(m))' = SubtaskSize[m]
      BY <2>3, <3>1 DEF LastCompleted, ClosedOK
    <3>3. Complete(m)' /\ CountsOK' BY <1>3, <2>1 DEF DependencyInv
    <3>4. AllClosed(m)' BY <1>0, <3>2, <3>3, AllCounted
    <3> QED BY <1>1, <2>1, <3>1, <3>4
  <2>6. ASSUME NEW v \in Workers \ {w}, wpc'[v] \in Erasing
        PROVE  AllClosed(main_task_id[job[v]])'
    BY <1>1, <1>2, <1>7, <1>8, <2>6 DEF ClosedOK
  <2> QED BY <1>4, <1>5, <1>9, <2>4, <2>5, <2>6 DEF ClosedOK
<1>11. CASE ~CountCompleted(w)
  <2>1. \A m \in MainTasks : CompletedOf(m)' = CompletedOf(m)
    BY <1>1, <1>11, ClosedMoves DEF CompletedOf
  <2>2. \A m \in MainTasks : completed_count'[m] = Cardinality(CompletedOf(m))'
    BY <1>0, <1>11, <2>1, ErasingSteps DEF ClosedOK
  <2>3. ASSUME NEW v \in Workers, wpc'[v] \in Erasing PROVE AllClosed(main_task_id[job[v]])'
    <3>1. wpc[v] \in Erasing /\ job'[v] = job[v] BY <1>0, <1>2, <1>11, <2>3, ErasingSteps
    <3> QED BY <1>1, <1>7, <1>8, <3>1 DEF ClosedOK
  <2> QED BY <1>4, <1>5, <1>9, <2>2, <2>3 DEF ClosedOK
<1> QED BY <1>10, <1>11

\* ClosedOK holds at first, and every step keeps it.
LEMMA StepClosed ==
  ASSUME Ordered
  PROVE  /\ Init => ClosedOK
         /\ /\ PriorityInv /\ DependencyInv /\ PlaceInv /\ KeptOK /\ ClosedOK /\ [Next]_vars
            => ClosedOK'
<1>0. WellFormed BY DEF Ordered
<1>1. ASSUME Init PROVE ClosedOK
  <2>1. \A m \in MainTasks : CompletedOf(m) = {} BY <1>1 DEF Init, CompletedOf, Closed, Finished
  <2>2. \A k \in Calls : ~Returned(k) BY <1>1 DEF Init, Returned
  <2>3. None \notin MainTasks BY ConstantsAssumption DEF Calls
  <2>4. \A w \in Workers : wpc[w] \notin Erasing BY <1>1 DEF Init, Erasing
  <2>5. \A m \in MainTasks : completed_count[m] = 0 BY <1>1 DEF Init
  <2>6. \A c \in Clients : call[c] \notin MainTasks BY <1>1, <2>3 DEF Init
  <2>7. \A s \in SubTasks : ~Beyond(s, Unslotted) BY <1>1 DEF Init, Beyond
  <2> QED BY <2>1, <2>2, <2>4, <2>5, <2>6, <2>7, FS_EmptySet DEF ClosedOK, Calls
<1>2. ASSUME PriorityInv, DependencyInv, PlaceInv, KeptOK, ClosedOK, [Next]_vars PROVE ClosedOK'
  <2>1. IdsStay BY <1>2, IdsStayed
  <2>2. DependencyInv' BY <1>0, <1>2, StepDependency
  <2>3. ASSUME NEW c \in Clients, ClientStep(c) PROVE ClosedOK'
    BY <1>2, <2>1, <2>3, ClientStepClosed
  <2>4. ASSUME NEW w \in Workers, WorkerStep(w) PROVE ClosedOK'
    BY <1>2, <2>2, <2>4, WorkerStepClosed
  <2>5. ASSUME UNCHANGED <<taskVars, clientVars, outcome, workerVars, histVars>> PROVE ClosedOK'
    BY <1>2, <2>5 DEF ClosedOK, CompletedOf, AllClosed, Complete, Closed, Finished, Returned,
       Beyond, Answered, taskVars, mainVars, mainMaps, counts, subVars, subMaps, subFields,
       clientVars, workerVars, histVars
  <2> QED BY <1>2, <2>3, <2>4, <2>5, LoopFrame DEF Next, Rest, vars
<1> QED BY <1>1, <1>2

\* What a thread looks up is there (EventDispatcher.hpp:32, 81, 101, 304), when main tasks are
\* added before their subtasks: a main task is erased only when all its closures have counted.
THEOREM NothingIsMissing == Ordered => (Spec => []NothingMissing)
<1> SUFFICES ASSUME Ordered PROVE Spec => []NothingMissing OBVIOUS
<1>0. WellFormed BY DEF Ordered
<1> DEFINE Inv == PriorityInv /\ DependencyInv /\ PlaceInv
<1>1. Inv /\ KeptOK /\ ClosedOK => NothingMissing
  <2> SUFFICES ASSUME Inv, KeptOK, ClosedOK PROVE NothingMissing OBVIOUS
  <2>0. TypeInv /\ PlacesOK BY DEF PriorityInv, PlaceInv
  <2>1. ASSUME NEW c \in Clients, cpc[c] = "as_main" PROVE main_task_id[call[c]] \in main_tasks
    <3>1. call[c] \in SubTasks /\ main_task_id[call[c]] \in MainTasks
      BY <2>0, <2>1 DEF TypeInv, ClientInv, ClientShape, AddingSub
    <3>2. ~Beyond(call[c], Uncounted) BY <2>1 DEF Beyond, Uncounted
    <3>3. None \notin MainTasks BY ConstantsAssumption DEF Calls
    <3> QED BY <3>1, <3>2, <3>3, MainIsThere
  <2>2. ASSUME NEW w \in Workers, wpc[w] \in {"find", "post", "find_main"}
        PROVE  /\ wpc[w] = "find" => job[w] \in sub_tasks
               /\ wpc[w] = "post" => job[w] \in subtask_results
               /\ wpc[w] = "find_main" => main_task_id[job[w]] \in main_tasks
    <3>1. PICK s \in SubTasks : s = job[w] /\ Released(s)
      BY <2>0, <2>2 DEF TypeInv, WorkerInv, WorkerShape, DependencyInv, ReleasedOK
    <3>2. Beyond(s, Uncounted)
      BY <3>1, ConstantsAssumption DEF Released, Complete, DependencyInv, CountsOK, Calls
    <3>3. Beyond(s, Unlisted) /\ Beyond(s, Unslotted)
      BY <3>2 DEF Beyond, Uncounted, Unlisted, Unslotted
    <3>4. ASSUME wpc[w] = "find" PROVE s \in sub_tasks
      BY <2>0, <3>1, <3>3, <3>4 DEF PlacesOK, Scanning, Finished, DependencyInv, NamesOK
    <3>5. ASSUME wpc[w] = "post" PROVE s \in subtask_results
      <4>1. ~Answered(s) BY <3>1, <3>5 DEF PlaceInv, ResultOK, Unposted, Taken
      <4> QED BY <3>3, <4>1 DEF ClosedOK
    <3>6. ASSUME wpc[w] = "find_main" PROVE main_task_id[s] \in main_tasks
      <4>1. ~Closed(s) BY <3>1, <3>6 DEF Closed, Erasing
      <4> QED BY <3>2, <4>1, MainIsThere DEF Beyond
    <3> QED BY <3>1, <3>4, <3>5, <3>6
  <2> QED BY <2>1, <2>2 DEF NothingMissing
<1>2. Spec => []Inv BY <1>0, AllInvariants
<1> HIDE DEF Inv
<1>3. Init => KeptOK /\ ClosedOK BY <1>0, StepKept, StepClosed
<1>4. Inv /\ KeptOK /\ ClosedOK /\ [Next]_vars => (KeptOK /\ ClosedOK)'
  BY <1>0, StepKept, StepClosed DEF Inv
<1> QED BY <1>1, <1>2, <1>3, <1>4, PTL DEF Spec

-----------------------------------------------------------------------------
(* What the maps keep. *)

\* Each main task announces a subtask: one that announces none is never released nor erased.
Sized == Ordered /\ Distinct /\ \A m \in MainTasks : SubtaskSize[m] > 0

\* A main task whose closures have all counted is kept only until the last of them erases it (lines
\* 106-117), and waits for its subtasks only until its list has been pushed (lines 303-317).
MainsClean ==
  /\ \A m \in MainTasks : AllClosed(m) =>
       /\ m \in main_tasks =>
            \E w \in Workers : wpc[w] = "erase_main" /\ main_task_id[job[w]] = m
       /\ main_to_subtasks[m] # <<>> =>
            \E w \in Workers : wpc[w] \in Erasing /\ main_task_id[job[w]] = m
  /\ \A m \in waiting_maintasks : Complete(m) =>
       \E c \in Clients : cpc[c] \in Late /\ main_task_id[call[c]] = m
\* A subtask whose result has been taken is kept only until the same fetch erases it (lines
\* 232-249).
SubsClean ==
  \A s \in SubTasks :
    /\ s \in sub_tasks \cup subtask_results => main_task_id[s] # None
    /\ Answered(s) =>
         /\ s \notin subtask_results
         /\ s \in sub_tasks =>
              \E c \in Clients : cpc[c] \in {"gr_name", "gr_erase"} /\ found[c] = s
         /\ sub_task_name_to_id[SubName[s]] # None =>
              \E c \in Clients : cpc[c] = "gr_name" /\ found[c] = s

\* A main task has a subtask, and none of it is submitted while it is added.
LEMMA NotCompleteYet ==
  ASSUME Sized, PriorityInv, CallsOK, NEW m \in MainTasks
  PROVE  /\ \E s \in SubTasks : MainTaskName[s] = MainName[m]
         /\ (outcome[m] = "unissued" \/ \E c \in Clients : call[c] = m) => ~Complete(m)
<1>1. PICK s \in SubTasks : MainTaskName[s] = MainName[m]
  <2> SUFFICES ASSUME \A s \in SubTasks : MainTaskName[s] # MainName[m] PROVE FALSE OBVIOUS
  <2>1. {s \in SubTasks : MainTaskName[s] = MainName[m]} = {} OBVIOUS
  <2>2. SubtaskSize[m] = 0 BY <2>1, FS_EmptySet DEF Sized, Ordered, WellFormed
  <2> QED BY <2>2 DEF Sized
<1>2. ASSUME Complete(m) PROVE Returned(m)
  <2>1. outcome[s] # "unissued"
    BY <1>1, <1>2, ConstantsAssumption DEF Complete, PriorityInv, IdOfCall, Calls
  <2> QED BY <1>1, <2>1 DEF Sized, Ordered, CallsOK
<1> QED BY <1>1, <1>2 DEF Returned

\* The steps that add main tasks, list their subtasks and release them.
LEMMA MainListsMove ==
  ASSUME TypeInv, NEW c \in Clients, ClientStep(c)
  PROVE  /\ main_tasks' \subseteq main_tasks \cup {call[c]}
         /\ waiting_maintasks' \subseteq waiting_maintasks \cup {call[c]}
         /\ \A m \in MainTasks :
              \/ main_to_subtasks'[m] = main_to_subtasks[m]
              \/ cpc[c] = "as_members" /\ call[c] \in SubTasks /\ m = main_task_id[call[c]]
         /\ cpc[c] \in Late =>
              \/ call'[c] = call[c] /\ cpc'[c] \in Late
              \/ main_task_id[call[c]] \notin waiting_maintasks'
<1> USE DEF TypeInv, MapsOK, ClientInv, ClientsOK, ClientShape, AddingSub, CAt
<1>1. CASE EnterWaiting(c) BY <1>1 DEF EnterWaiting, Late
<1>2. CASE InsertMain(c) BY <1>2 DEF InsertMain, Late
<1>3. CASE Listing(c)
  <2>1. CASE AppendMember(c) BY <2>1 DEF AppendMember, Late
  <2>2. CASE CountReady(c) BY <2>2 DEF CountReady, Late, mainMaps
  <2>3. CASE LockReady(c)
    BY <2>3, <1>3, ListingStep DEF LockReady, Late, taskVars, mainVars, mainMaps
  <2>4. CASE PushMembers(c)
    <3>1. cpc[c] = "as_push" /\ call' = call /\ (cpc'[c] = "as_release" \/ cpc' = cpc)
      BY <1>3, <2>4, ListingStep
    <3> QED BY <2>4, <3>1 DEF PushMembers, Late, taskVars, mainVars, mainMaps
  <2>5. CASE LeaveWaiting(c) BY <2>5 DEF LeaveWaiting
  <2> QED BY <1>3, <2>1, <2>2, <2>3, <2>4, <2>5 DEF Listing
<1>4. CASE ~(EnterWaiting(c) \/ InsertMain(c) \/ Listing(c))
  <2>1. cpc[c] \notin Late BY <1>4, QuietStep
  <2>2. UNCHANGED <<main_tasks, waiting_maintasks, main_to_subtasks>>
    BY <1>4 DEF ClientStep, Listing, AddMainTask, AddSubTask, NameSubTask,
       InsertSubTask, EmplaceSlot, FetchMain, GetSubTaskResult, FindSlot, WaitSlot, TakeResult,
       EraseName, EraseSubTask, Start, LaunchLoop, Stop, TestJoinable, EnterJoin, Join,
       DestroyMutexes, StopPool, JoinPool, taskVars, mainVars, mainMaps
  <2> QED BY <2>1, <2>2
<1> QED BY <1>1, <1>2, <1>3, <1>4

\* No step of a client breaks MainsClean: what it adds to is not complete, and it leaves the waiting
\* main tasks when it has pushed the list (line 315).
LEMMA ClientStepMains ==
  ASSUME Sized, PriorityInv, DependencyInv, PlaceInv, MainsClean, IdsStay,
         NEW c \in Clients, ClientStep(c)
  PROVE  MainsClean'
<1>0. TypeInv /\ CallsOK /\ WellFormed /\ None \notin MainTasks
  BY ConstantsAssumption DEF PriorityInv, DependencyInv, Sized, Ordered, Calls
<1>1. Moves(c) BY <1>0, ClientMoves
<1>2. UNCHANGED <<workerVars, fn>> BY ClientFrame
<1>3. \A s \in SubTasks : Closed(s)' <=> Closed(s)
  BY <1>2 DEF Closed, Finished, workerVars
<1>4. ASSUME NEW m \in MainTasks, AllClosed(m)' PROVE AllClosed(m)
  <2>1. CASE Complete(m) BY <1>3, <1>4, <2>1 DEF AllClosed
  <2>2. CASE ~Complete(m)
    <3>1. CountReady(c) /\ main_task_id[call[c]] = m
      BY <1>0, <1>4, <2>2, CompletedBy DEF AllClosed
    <3>2. call[c] \in SubTasks BY <1>0, <3>1, ListingStep DEF Listing
    <3>3. MainTaskName[call[c]] = MainName[m]
      BY <1>0, <3>1, <3>2 DEF DependencyInv, CountsOK
    <3>4. Finished(call[c]) BY <1>3, <1>4, <3>2, <3>3 DEF AllClosed, Closed
    <3> QED BY <2>2, <3>1, <3>2, <3>4, FinishedReleased DEF Released
  <2> QED BY <2>1, <2>2
<1>5. \A w \in Workers : wpc[w] \in Erasing =>
        wpc'[w] = wpc[w] /\ main_task_id'[job'[w]] = main_task_id[job[w]]
  <2> SUFFICES ASSUME NEW w \in Workers, wpc[w] \in Erasing
               PROVE  main_task_id'[job[w]] = main_task_id[job[w]]
    BY <1>2 DEF workerVars
  <2>1. job[w] \in SubTasks /\ Released(job[w])
    BY <1>0 DEF Erasing, TypeInv, WorkerInv, WorkerShape, DependencyInv, ReleasedOK
  <2> QED BY <1>0, <2>1 DEF IdsStay, Released
<1>6. ASSUME NEW m \in MainTasks, AllClosed(m)', m \in main_tasks'
      PROVE  (\E w \in Workers : wpc[w] = "erase_main" /\ main_task_id[job[w]] = m)'
  <2>1. AllClosed(m) /\ Complete(m) BY <1>4, <1>6 DEF AllClosed
  <2>2. m \in main_tasks BY <1>0, <1>6, <2>1, MainListsMove, NotCompleteYet
  <2> QED BY <1>5, <2>1, <2>2 DEF MainsClean, Erasing
<1>7. ASSUME NEW m \in MainTasks, AllClosed(m)', main_to_subtasks'[m] # <<>>
      PROVE  (\E w \in Workers : wpc[w] \in Erasing /\ main_task_id[job[w]] = m)'
  <2>1. AllClosed(m) /\ Complete(m) BY <1>4, <1>7 DEF AllClosed
  <2>2. main_to_subtasks[m] # <<>>
    <3>1. CASE cpc[c] = "as_members" /\ call[c] \in SubTasks /\ m = main_task_id[call[c]]
      <4>1. MainTaskName[call[c]] = MainName[m]
        BY <1>0, <3>1 DEF DependencyInv, CountsOK
      <4> QED BY <2>1, <3>1, <4>1 DEF Complete, Beyond, Uncounted
    <3> QED BY <1>0, <1>7, <3>1, MainListsMove
  <2> QED BY <1>5, <2>1, <2>2 DEF MainsClean
<1>8. ASSUME NEW m \in waiting_maintasks', Complete(m)'
      PROVE  (\E d \in Clients : cpc[d] \in Late /\ main_task_id[call[d]] = m)'
  <2>0. m \in MainTasks
    BY <1>8, StepInv, <1>0 DEF Next, TypeInv, MapsOK
  <2>1. CASE Complete(m)
    <3>1. m \in waiting_maintasks BY <1>0, <1>8, <2>0, <2>1, MainListsMove, NotCompleteYet
    <3>2. PICK d \in Clients : cpc[d] \in Late /\ main_task_id[call[d]] = m
      BY <2>1, <3>1 DEF MainsClean
    <3>3. call[d] \in SubTasks /\ main_task_id'[call[d]] = m
      BY <1>0, <2>0, <3>2 DEF Late, TypeInv, ClientInv, ClientShape, AddingSub, IdsStay
    <3>4. cpc'[d] \in Late /\ call'[d] = call[d]
      BY <1>0, <1>1, <1>8, <3>2, MainListsMove DEF Moves
    <3> QED BY <3>3, <3>4
  <2>2. CASE ~Complete(m)
    <3>1. CountReady(c) /\ cpc'[c] = "as_lock" /\ call' = call /\ main_task_id[call[c]] = m
      BY <1>0, <1>8, <2>0, <2>2, CompletedBy
    <3>2. UNCHANGED main_task_id BY <1>0, <3>1, ListingStep DEF Listing
    <3> QED BY <3>1, <3>2 DEF Late
  <2> QED BY <2>1, <2>2
<1> QED BY <1>6, <1>7, <1>8 DEF MainsClean

\* The last step that a worker takes for a main task empties its list (line 115).
LEMMA EraseMoves ==
  ASSUME TypeInv, NEW w \in Workers, WorkerStep(w)
  PROVE  /\ UNCHANGED <<waiting_maintasks, sub_tasks, subtask_results, sub_task_name_to_id>>
         /\ wpc[w] \in Erasing =>
              \/ UNCHANGED <<wpc, job, main_tasks, main_to_subtasks>>
              \/ /\ wpc[w] = "erase_main" /\ wpc'[w] = "erase_members" /\ job' = job
                 /\ main_tasks' = main_tasks \ {main_task_id[job[w]]}
                 /\ UNCHANGED main_to_subtasks
              \/ wpc[w] = "erase_members" /\ EraseMembers(w)
         /\ ~EraseMembers(w) => UNCHANGED main_to_subtasks
<1> USE DEF taskVars, mainVars, mainMaps, subVars, subMaps
<1>1. /\ UNCHANGED <<waiting_maintasks, sub_tasks, subtask_results, sub_task_name_to_id>>
      /\ ~EraseMembers(w) => UNCHANGED main_to_subtasks
  BY DEF WorkerStep, Pop, LeavePool, FindSubTask, LookupDependency, FindDependency,
     AwaitDependency, StartFunction, FinishFunction, PostResult, FlagCompleted, NotifyDependents,
     FindMainTask, CountCompleted, EraseMainTask, EraseMembers, UseDestroyed
<1>2. wpc[w] \in Erasing => EraseMainTask(w) \/ EraseMembers(w) \/ UseDestroyed(w)
  BY DEF Erasing, WorkerStep, Pop, LeavePool, FindSubTask, LookupDependency, FindDependency,
     AwaitDependency, StartFunction, FinishFunction, PostResult, FlagCompleted, NotifyDependents,
     FindMainTask, CountCompleted, WAt
<1>3. CASE EraseMainTask(w)
  BY <1>1, <1>3 DEF EraseMainTask, WAt, WGoto, TypeInv, WorkerInv, WorkersOK
<1>4. CASE EraseMembers(w) BY <1>1, <1>4 DEF EraseMembers, WAt
<1>5. CASE UseDestroyed(w) BY <1>5 DEF UseDestroyed, workerVars
<1> QED BY <1>1, <1>2, <1>3, <1>4, <1>5

\* No step of a worker breaks MainsClean: the count that closes the last subtask goes on to erase.
LEMMA WorkerStepMains ==
  ASSUME Sized, PriorityInv, DependencyInv, PlaceInv, KeptOK, ClosedOK, MainsClean,
         NEW w \in Workers, WorkerStep(w)
  PROVE  MainsClean'
<1>0. TypeInv /\ PlacesOK /\ WellFormed /\ Ordered
  BY DEF PriorityInv, PlaceInv, Sized, Ordered
<1>1. UNCHANGED <<clientVars, main_task_id>> BY WorkerFrame
<1>2. \A v \in Workers \ {w} : wpc'[v] = wpc[v] /\ job'[v] = job[v] BY <1>0, WorkerMoves
<1>3. \A m \in MainTasks : Complete(m)' <=> Complete(m) BY <1>1, ReleasedSame
<1>4. \A m \in waiting_maintasks' : Complete(m)' =>
        (\E c \in Clients : cpc[c] \in Late /\ main_task_id[call[c]] = m)'
  <2>1. waiting_maintasks' = waiting_maintasks /\ waiting_maintasks \subseteq MainTasks
    BY <1>0, EraseMoves DEF TypeInv, MapsOK
  <2> QED BY <1>1, <1>3, <2>1 DEF MainsClean, clientVars
<1>5. main_tasks' \subseteq main_tasks BY <1>0, ErasingSteps
<1>6. CASE CountCompleted(w)
  <2>0. wpc[w] = "count" BY <1>6 DEF CountCompleted, WAt
  <2>1. PICK s \in SubTasks, m \in MainTasks :
          /\ m = main_task_id[s] /\ s \notin CompletedOf(m)
          /\ CompletedOf(m)' = CompletedOf(m) \cup {s}
          /\ \A k \in MainTasks \ {m} : CompletedOf(k)' = CompletedOf(k)
          /\ \/ wpc'[w] = "erase_main" /\ job'[w] = s
             \/ wpc'[w] = "idle" /\ ~LastCompleted(m)
    BY <1>0, <1>6, CountCloses
  <2>2. UNCHANGED main_to_subtasks BY <1>6 DEF CountCompleted, mainMaps
  <2>3. ASSUME NEW k \in MainTasks \ {m}, AllClosed(k)' PROVE AllClosed(k)
    <3>1. Complete(k) BY <1>3, <2>3 DEF AllClosed
    <3>2. ASSUME NEW t \in SubTasks, MainTaskName[t] = MainName[k] PROVE Closed(t)
      <4>1. t \in CompletedOf(k)'
        BY <1>1, <2>3, <3>1, <3>2 DEF AllClosed, CompletedOf, Complete
      <4>2. CompletedOf(k)' = CompletedOf(k) BY <2>1
      <4> QED BY <4>1, <4>2 DEF CompletedOf
    <3> QED BY <3>1, <3>2 DEF AllClosed
  <2>4. ASSUME AllClosed(m)' PROVE wpc'[w] = "erase_main" /\ main_task_id'[job'[w]] = m
    <3> DEFINE G == {t \in SubTasks : MainTaskName[t] = MainName[m]}
    <3>1. CompletedOf(m)' = G
      <4>1. \A t \in G : main_task_id'[t] = m /\ Closed(t)'
        BY <1>1, <1>3, <2>4 DEF AllClosed, Complete
      <4>2. \A t \in SubTasks : main_task_id'[t] = m => t \in G
        BY <1>1, ConstantsAssumption DEF DependencyInv, CountsOK, Calls
      <4> QED BY <4>1, <4>2 DEF CompletedOf
    <3>2. IsFiniteSet(CompletedOf(m))
      <4>1. CompletedOf(m) \subseteq SubTasks BY DEF CompletedOf
      <4> QED BY <4>1, ConstantsAssumption, FS_Subset
    <3>3. s \notin CompletedOf(m) /\ G = CompletedOf(m) \cup {s} BY <2>1, <3>1
    <3>4. Cardinality(G) = Cardinality(CompletedOf(m)) + 1
      <4>1. Cardinality(CompletedOf(m) \cup {s}) = Cardinality(CompletedOf(m)) + 1
        BY <3>2, <3>3, FS_AddElement
      <4> QED BY <3>3, <4>1
    <3>5. SubtaskSize[m] = Cardinality(G) BY <1>0 DEF WellFormed
    <3>6. LastCompleted(m) BY <3>4, <3>5 DEF LastCompleted, ClosedOK
    <3> QED BY <1>1, <2>1, <3>6
  <2>5. \A v \in Workers : wpc[v] \in Erasing => wpc'[v] = wpc[v] /\ job'[v] = job[v]
    BY <1>2, <2>0 DEF Erasing
  <2>6. ASSUME NEW k \in MainTasks, AllClosed(k)', k \in main_tasks'
        PROVE  (\E v \in Workers : wpc[v] = "erase_main" /\ main_task_id[job[v]] = k)'
    <3>1. CASE k = m BY <2>4, <2>6, <3>1
    <3>2. CASE k # m BY <1>1, <1>5, <2>3, <2>5, <2>6, <3>2 DEF MainsClean, Erasing
    <3> QED BY <3>1, <3>2
  <2>7. ASSUME NEW k \in MainTasks, AllClosed(k)', main_to_subtasks'[k] # <<>>
        PROVE  (\E v \in Workers : wpc[v] \in Erasing /\ main_task_id[job[v]] = k)'
    <3>1. CASE k = m BY <2>4, <2>7, <3>1 DEF Erasing
    <3>2. CASE k # m BY <1>1, <2>2, <2>3, <2>5, <2>7, <3>2 DEF MainsClean
    <3> QED BY <3>1, <3>2
  <2> QED BY <1>4, <2>6, <2>7 DEF MainsClean
<1>7. CASE ~CountCompleted(w)
  <2>1. \A m \in MainTasks : AllClosed(m)' => AllClosed(m)
    BY <1>0, <1>3, <1>7, ClosedMoves DEF AllClosed
  <2>2. ASSUME NEW m \in MainTasks, AllClosed(m)', m \in main_tasks'
        PROVE  (\E v \in Workers : wpc[v] = "erase_main" /\ main_task_id[job[v]] = m)'
    <3>1. PICK v \in Workers : wpc[v] = "erase_main" /\ main_task_id[job[v]] = m
      BY <1>5, <2>1, <2>2 DEF MainsClean
    <3>2. wpc'[v] = wpc[v] /\ job'[v] = job[v]
      BY <1>0, <1>2, <2>2, <3>1, EraseMoves DEF Erasing
    <3> QED BY <1>1, <3>1, <3>2
  <2>3. ASSUME NEW m \in MainTasks, AllClosed(m)', main_to_subtasks'[m] # <<>>
        PROVE  (\E v \in Workers : wpc[v] \in Erasing /\ main_task_id[job[v]] = m)'
    <3>0. \A k \in MainTasks : main_to_subtasks'[k] # <<>> =>
            main_to_subtasks[k] # <<>> /\ (EraseMembers(w) => k # main_task_id[job[w]])
      <4>1. CASE EraseMembers(w) BY <1>0, <4>1 DEF EraseMembers, TypeInv, MapsOK
      <4> QED BY <1>0, <4>1, EraseMoves
    <3>1. PICK v \in Workers : wpc[v] \in Erasing /\ main_task_id[job[v]] = m
      BY <2>1, <2>3, <3>0 DEF MainsClean
    <3>2. wpc'[v] \in Erasing /\ job'[v] = job[v]
      BY <1>0, <1>2, <2>3, <3>0, <3>1, EraseMoves DEF Erasing
    <3> QED BY <1>1, <3>1, <3>2
  <2> QED BY <1>4, <2>2, <2>3 DEF MainsClean
<1> QED BY <1>6, <1>7

\* The steps that list and name subtasks, and that erase them.
LEMMA SubListsMove ==
  ASSUME TypeInv, NEW c \in Clients, ClientStep(c)
  PROVE  /\ \A s \in SubTasks : /\ s \in sub_tasks' => s \in sub_tasks \/ s = call[c]
                                /\ s \in subtask_results' => s \in subtask_results \/ s = call[c]
         /\ \A s \in SubTasks :
              sub_task_name_to_id'[SubName[s]] # None =>
                \/ sub_task_name_to_id[SubName[s]] # None
                \/ call[c] \in SubTasks /\ cpc[c] \in Uncounted /\ SubName[call[c]] = SubName[s]
         /\ call[c] \in SubTasks /\ cpc[c] \notin Uncounted =>
              UNCHANGED <<sub_tasks, subtask_results>>
         /\ cpc[c] = "gr_name" =>
              /\ cpc'[c] = "gr_erase" /\ found'[c] = found[c]
              /\ sub_task_name_to_id'[FetchName[call[c]]] = None
         /\ cpc[c] = "gr_erase" => found[c] \notin sub_tasks'
<1> USE DEF TypeInv, MapsOK, ClientInv, ClientsOK, ClientShape, AddingSub, Fetching, CAt, Uncounted
<1>0. /\ \A k \in SubTasks : k \notin Fetches
      /\ \A s \in SubTasks : SubName[s] \in SubNames /\ s # None
      /\ \A f \in Fetches : FetchName[f] \in SubNames
  BY ConstantsAssumption, KindsAssumption DEF Calls
<1>1. CASE NameSubTask(c) BY <1>0, <1>1 DEF NameSubTask
<1>2. CASE InsertSubTask(c) BY <1>0, <1>2 DEF InsertSubTask
<1>3. CASE EmplaceSlot(c) BY <1>0, <1>3 DEF EmplaceSlot
<1>4. CASE TakeResult(c) BY <1>0, <1>4 DEF TakeResult
<1>5. CASE EraseName(c) BY <1>0, <1>5 DEF EraseName, CGoto
<1>6. CASE EraseSubTask(c) BY <1>0, <1>6 DEF EraseSubTask
<1>7. CASE ~(NameSubTask(c) \/ InsertSubTask(c) \/ EmplaceSlot(c) \/ TakeResult(c) \/ EraseName(c)
             \/ EraseSubTask(c))
  <2>1. cpc[c] \notin {"gr_name", "gr_erase"}
    BY <1>7 DEF ClientStep, AddMainTask, EnterWaiting, InsertMain, AddSubTask, AppendMember,
       FetchMain, CountReady, LockReady, PushMembers, LeaveWaiting, GetSubTaskResult, FindSlot,
       WaitSlot, Start, LaunchLoop, Stop, TestJoinable, EnterJoin, Join, DestroyMutexes, StopPool,
       JoinPool, MayCall
  <2>2. UNCHANGED <<sub_tasks, subtask_results, sub_task_name_to_id>>
    BY <1>7 DEF ClientStep, AddMainTask, EnterWaiting, InsertMain, AddSubTask, AppendMember,
       FetchMain, CountReady, LockReady, PushMembers, LeaveWaiting, GetSubTaskResult, FindSlot,
       WaitSlot, Start, LaunchLoop, Stop, TestJoinable, EnterJoin, Join, DestroyMutexes, StopPool,
       JoinPool, taskVars, subVars, subMaps
  <2> QED BY <2>1, <2>2
<1> QED BY <1>1, <1>2, <1>3, <1>4, <1>5, <1>6, <1>7

\* A result becomes an answer when it is taken, and its slot is erased with it (lines 229-234).
LEMMA AnswersMove ==
  ASSUME WellFormed, TypeInv, DependencyInv, ResultOK, NEW c \in Clients, ClientStep(c),
         NEW s \in SubTasks, Answered(s)', ~Answered(s)
  PROVE  cpc[c] = "gr_take" /\ cpc'[c] = "gr_name" /\ found[c] = s /\ found'[c] = s
         /\ s \notin subtask_results'
<1>0. CallsOK /\ Fetches \subseteq Calls BY DEF DependencyInv, Calls
<1>1. PICK f \in Fetches : FetchName[f] = SubName[s] /\ outcome'[f] \in Slots
                           /\ outcome[f] \notin Slots
  BY DEF Answered
<1>2. TakeResult(c) BY <1>0, <1>1, FetchMoves, WaitMoves
<1>3. f = call[c] BY <1>0, <1>1, <1>2, TakeMoves
<1>4. SubName[found[c]] = SubName[s]
  BY <1>1, <1>2, <1>3, TakeMoves DEF DependencyInv, FetchesOK, Fetching
<1>5. found[c] = s BY <1>2, <1>4, TakeMoves DEF WellFormed
<1> QED BY <1>2, <1>5, TakeMoves DEF TakeResult

\* What has been answered has ended, and its submission is over.
LEMMA AnsweredFinished ==
  ASSUME WellFormed, PriorityInv, DependencyInv, PlaceInv, NEW s \in SubTasks, Answered(s)
  PROVE  Beyond(s, Uncounted)
<1>1. Finished(s) BY DEF PlaceInv, ResultOK, Answered, WellFormed
<1>2. Released(s) /\ main_task_id[s] # None BY <1>1, FinishedReleased
<1>3. MainTaskName[s] = MainName[main_task_id[s]] BY <1>2 DEF DependencyInv, CountsOK
<1> QED BY <1>2, <1>3 DEF Released, Complete

\* No step of a client breaks SubsClean: a fetch erases what it has taken the result of.
LEMMA ClientStepSubs ==
  ASSUME WellFormed, PriorityInv, DependencyInv, PlaceInv, SubsClean, IdsStay,
         NEW c \in Clients, ClientStep(c)
  PROVE  SubsClean'
<1>0. TypeInv /\ CallsOK /\ ResultOK BY DEF PriorityInv, DependencyInv, PlaceInv
<1>1. Moves(c) BY <1>0, ClientMoves
<1>2. SUFFICES ASSUME NEW s \in SubTasks
               PROVE  /\ s \in sub_tasks' \cup subtask_results' => main_task_id'[s] # None
                      /\ Answered(s)' =>
                           /\ s \notin subtask_results'
                           /\ s \in sub_tasks' =>
                                (\E d \in Clients : /\ cpc[d] \in {"gr_name", "gr_erase"}
                                                    /\ found[d] = s)'
                           /\ sub_task_name_to_id'[SubName[s]] # None =>
                                (\E d \in Clients : cpc[d] = "gr_name" /\ found[d] = s)'
  BY DEF SubsClean
<1>3. s # None BY ConstantsAssumption DEF Calls
<1>4. ASSUME s \in sub_tasks' \cup subtask_results' PROVE main_task_id'[s] # None
  <2>1. CASE s \in sub_tasks \cup subtask_results BY <2>1 DEF SubsClean, IdsStay
  <2>2. CASE s \notin sub_tasks \cup subtask_results
    <3>1. s = call[c] BY <1>0, <1>4, <2>2, SubListsMove
    <3>2. cpc[c] \in AddingSub BY <1>0, <3>1 DEF PlaceInv, AcceptedOK
    <3>3. main_task_id[s] # None
      BY <1>0, <3>1, <3>2, ConstantsAssumption DEF TypeInv, ClientInv, ClientShape, Calls
    <3> QED BY <3>3 DEF IdsStay
  <2> QED BY <2>1, <2>2
<1>5. CASE Answered(s)' /\ ~Answered(s)
  <2>1. cpc[c] = "gr_take" /\ cpc'[c] = "gr_name" /\ found'[c] = s /\ s \notin subtask_results'
    BY <1>0, <1>5, AnswersMove
  <2> QED BY <1>4, <2>1
<1>6. CASE Answered(s)' /\ Answered(s)
  <2>1. Beyond(s, Uncounted) BY <1>6, AnsweredFinished
  <2>2. s \notin subtask_results'
    BY <1>0, <1>6, <2>1, SubListsMove DEF SubsClean, Beyond
  <2>3. ASSUME s \in sub_tasks'
        PROVE  (\E d \in Clients : cpc[d] \in {"gr_name", "gr_erase"} /\ found[d] = s)'
    <3>1. s \in sub_tasks BY <1>0, <2>1, <2>3, SubListsMove DEF Beyond
    <3>2. PICK d \in Clients : cpc[d] \in {"gr_name", "gr_erase"} /\ found[d] = s
      BY <1>6, <3>1 DEF SubsClean
    <3>3. CASE d = c BY <1>0, <2>3, <3>2, <3>3, SubListsMove
    <3>4. CASE d # c BY <1>1, <3>2, <3>4 DEF Moves
    <3> QED BY <3>3, <3>4
  <2>4. ASSUME sub_task_name_to_id'[SubName[s]] # None
        PROVE  (\E d \in Clients : cpc[d] = "gr_name" /\ found[d] = s)'
    <3>1. sub_task_name_to_id[SubName[s]] # None
      <4>1. CASE /\ call[c] \in SubTasks /\ cpc[c] \in Uncounted
                 /\ SubName[call[c]] = SubName[s]
        BY <2>1, <4>1 DEF WellFormed, Beyond
      <4> QED BY <1>0, <2>4, <4>1, SubListsMove
    <3>2. PICK d \in Clients : cpc[d] = "gr_name" /\ found[d] = s
      BY <1>6, <3>1 DEF SubsClean
    <3>3. CASE d = c
      <4>1. FetchName[call[c]] = SubName[s]
        BY <3>2, <3>3 DEF DependencyInv, FetchesOK, Fetching
      <4> QED BY <1>0, <2>4, <3>2, <3>3, <4>1, SubListsMove
    <3>4. CASE d # c BY <1>1, <3>2, <3>4 DEF Moves
    <3> QED BY <3>3, <3>4
  <2> QED BY <1>4, <2>2, <2>3, <2>4
<1> QED BY <1>4, <1>5, <1>6

\* MainsClean and SubsClean hold at first, and every step keeps them.
LEMMA StepClean ==
  ASSUME Sized
  PROVE  /\ Init => MainsClean /\ SubsClean
         /\ PriorityInv /\ DependencyInv /\ PlaceInv /\ KeptOK /\ ClosedOK
              /\ MainsClean /\ SubsClean /\ [Next]_vars => (MainsClean /\ SubsClean)'
<1>0. WellFormed /\ Ordered BY DEF Sized, Ordered
<1>1. ASSUME Init PROVE MainsClean /\ SubsClean
  <2>1. main_tasks = {} /\ waiting_maintasks = {} /\ sub_tasks = {} /\ subtask_results = {}
    BY <1>1 DEF Init
  <2>2. \A m \in MainTasks : main_to_subtasks[m] = <<>> BY <1>1 DEF Init
  <2>3. \A s \in SubTasks : ~Answered(s) BY <1>1 DEF Init, Answered, Slots, Calls
  <2> QED BY <2>1, <2>2, <2>3 DEF MainsClean, SubsClean
<1>2. ASSUME PriorityInv, DependencyInv, PlaceInv, KeptOK, ClosedOK, MainsClean, SubsClean,
             [Next]_vars
      PROVE  (MainsClean /\ SubsClean)'
  <2>1. IdsStay BY <1>2, IdsStayed
  <2>2. ASSUME NEW c \in Clients, ClientStep(c) PROVE (MainsClean /\ SubsClean)'
    BY <1>0, <1>2, <2>1, <2>2, ClientStepMains, ClientStepSubs
  <2>3. ASSUME NEW w \in Workers, WorkerStep(w) PROVE (MainsClean /\ SubsClean)'
    <3>1. UNCHANGED <<clientVars, outcome, main_task_id>> BY <2>3, WorkerFrame
    <3>2. UNCHANGED <<sub_tasks, subtask_results, sub_task_name_to_id>>
      BY <1>2, <2>3, EraseMoves DEF PriorityInv
    <3>3. SubsClean' BY <1>2, <3>1, <3>2 DEF SubsClean, Answered, clientVars
    <3> QED BY <1>2, <2>3, <3>3, WorkerStepMains
  <2>4. ASSUME UNCHANGED <<taskVars, clientVars, outcome, workerVars, histVars>>
        PROVE  (MainsClean /\ SubsClean)'
    <3>1. MainsClean'
      BY <1>2, <2>4 DEF MainsClean, AllClosed, Complete, Closed, Finished, Beyond, taskVars,
         mainVars, mainMaps, subVars, subFields, clientVars, workerVars, histVars
    <3>2. SubsClean'
      BY <1>2, <2>4 DEF SubsClean, Answered, taskVars, subVars, subMaps, subFields, clientVars
    <3> QED BY <3>1, <3>2
  <2> QED BY <1>2, <2>2, <2>3, <2>4, LoopFrame DEF Next, Rest, vars
<1> QED BY <1>1, <1>2

\* When all calls have returned and all closures are over, a main task is closed.
LEMMA QuietCloses ==
  ASSUME Sized, PriorityInv, DependencyInv, PlaceInv, KnownOK, NEW m \in MainTasks,
         \A k \in Calls : Returned(k), \A s \in SubTasks : Accepted(s) => Finished(s),
         \A w \in Workers : wpc[w] \in {"idle", "exited"}
  PROVE  AllClosed(m) /\ Complete(m)
<1>1. SUFFICES ASSUME NEW s \in SubTasks, MainTaskName[s] = MainName[m]
               PROVE  main_task_id[s] = m /\ Beyond(s, Uncounted) /\ Closed(s)
  BY DEF AllClosed, Complete
<1>2. Returned(s) BY DEF Calls
<1>3. main_task_id[s] # None BY <1>1, <1>2 DEF KnownOK, Returned
<1>4. main_task_id[s] = m
  BY <1>1, <1>3 DEF DependencyInv, CountsOK, PriorityInv, TypeInv, MapsOK, Sized, Distinct
<1>5. Beyond(s, Uncounted) BY <1>2, <1>3 DEF Beyond, Returned
<1>6. Accepted(s) BY <1>2, <1>3 DEF PlaceInv, AcceptedOK, Returned
<1>7. \A w \in Workers : job[w] # s
  BY ConstantsAssumption DEF PlaceInv, PlacesOK, Calls
<1> QED BY <1>4, <1>5, <1>6, <1>7 DEF Closed

\* When every result has been fetched and the pool is idle, no map keeps an entry of a task, but for
\* the names of main tasks (EventDispatcher.hpp:106-117, 232-249, 315): a worker that counts the
\* last closure of a main task erases it, and a fetch erases the subtask whose result it has taken.
THEOREM CleanedUp == Sized => (Spec => []CleanWhenQuiet)
<1> SUFFICES ASSUME Sized PROVE Spec => []CleanWhenQuiet OBVIOUS
<1>0. WellFormed /\ Ordered BY DEF Sized, Ordered
<1> DEFINE Inv == PriorityInv /\ DependencyInv /\ PlaceInv
<1>1. Inv /\ WaitInv /\ MainsClean /\ SubsClean => CleanWhenQuiet
  <2> SUFFICES ASSUME Inv, WaitInv, MainsClean, SubsClean,
                      \A k \in Calls : Returned(k),
                      \A s \in SubTasks : Accepted(s) => Finished(s),
                      \A s \in SubTasks : Accepted(s) => Answered(s),
                      \A w \in Workers : wpc[w] \in {"idle", "exited"}
               PROVE  /\ main_tasks = {} /\ waiting_maintasks = {}
                      /\ \A m \in MainTasks : main_to_subtasks[m] = <<>>
                      /\ sub_tasks = {} /\ subtask_results = {}
                      /\ \A n \in SubNames : sub_task_name_to_id[n] = None
    BY DEF CleanWhenQuiet, Answered
  <2>0. TypeInv BY DEF PriorityInv
  <2>1. \A c \in Clients : cpc[c] \notin AddingSub /\ cpc[c] \notin Fetching
    BY <2>0 DEF TypeInv, ClientInv, ClientShape, Returned, Calls
  <2>2. ASSUME NEW m \in MainTasks
        PROVE  m \notin main_tasks /\ m \notin waiting_maintasks /\ main_to_subtasks[m] = <<>>
    <3>1. AllClosed(m) /\ Complete(m) BY QuietCloses DEF WaitInv
    <3>2. \A w \in Workers : wpc[w] \notin Erasing BY DEF Erasing
    <3>3. \A c \in Clients : cpc[c] \notin Late BY <2>1 DEF AddingSub, Late
    <3> QED BY <3>1, <3>2, <3>3 DEF MainsClean, Erasing
  <2>3. ASSUME NEW s \in SubTasks, main_task_id[s] # None
        PROVE  /\ s \notin sub_tasks \cup subtask_results
               /\ sub_task_name_to_id[SubName[s]] = None
    <3>1. Accepted(s) BY <2>3 DEF PlaceInv, AcceptedOK, Returned, Calls
    <3> QED BY <2>1, <3>1 DEF SubsClean, Fetching
  <2>4. ASSUME NEW n \in SubNames PROVE sub_task_name_to_id[n] = None
    <3> SUFFICES ASSUME sub_task_name_to_id[n] # None PROVE FALSE OBVIOUS
    <3>1. PICK s \in SubTasks : sub_task_name_to_id[n] = s BY <2>0 DEF TypeInv, MapsOK
    <3>2. SubName[s] = n BY <3>1 DEF DependencyInv, NamesOK
    <3>3. main_task_id[s] # None BY <3>1 DEF WaitInv, FlaggedOK
    <3> QED BY <2>3, <3>2, <3>3
  <2>5. main_tasks \subseteq MainTasks /\ waiting_maintasks \subseteq MainTasks
        /\ sub_tasks \subseteq SubTasks /\ subtask_results \subseteq SubTasks
    BY <2>0 DEF TypeInv, MapsOK
  <2>6. sub_tasks = {} /\ subtask_results = {} BY <2>3, <2>5 DEF SubsClean
  <2> QED BY <2>2, <2>4, <2>5, <2>6
<1>2. Spec => []Inv BY <1>0, AllInvariants
<1>3. Init => WaitInv /\ KeptOK /\ ClosedOK /\ MainsClean /\ SubsClean
  BY <1>0, StepWait, StepKept, StepClosed, StepClean
<1>4. Inv /\ WaitInv /\ KeptOK /\ ClosedOK /\ MainsClean /\ SubsClean /\ [Next]_vars
        => (WaitInv /\ KeptOK /\ ClosedOK /\ MainsClean /\ SubsClean)'
  BY <1>0, StepWait, StepKept, StepClosed, StepClean
<1> HIDE DEF Inv
<1> QED BY <1>1, <1>2, <1>3, <1>4, PTL DEF Spec
=============================================================================
