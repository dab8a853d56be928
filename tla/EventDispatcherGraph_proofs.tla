--------------------- MODULE EventDispatcherGraph_proofs ----------------------
(***************************************************************************)
(* Proof that the dispatcher implements TaskGraph and loses no subtask,    *)
(* for every set of clients, workers and calls in which tasks have         *)
(* different names and each main task gets the subtasks it announced.      *)
(***************************************************************************)
EXTENDS EventDispatcherDependencies_proofs

-----------------------------------------------------------------------------
(* The invariant. *)

\* The places of a subtask.
Queued(s)   == \E p \in Priorities : \E i \in DOMAIN ready_subtasks[p] : ready_subtasks[p][i] = s
Enqueued(s) == \E i \in DOMAIN ring : ring[i] = s
AtWork(s)   == \E w \in Workers : job[w] = s
Present(s)  == Queued(s) \/ Enqueued(s) \/ AtWork(s) \/ started[s] > 0

\* A subtask is listed once, when its own call appends it.
MembersOK ==
  \A m \in MainTasks : \A i \in DOMAIN main_to_subtasks[m] :
    /\ Beyond(main_to_subtasks[m][i], Unappended)
    /\ \A j \in DOMAIN main_to_subtasks[m] :
         main_to_subtasks[m][i] = main_to_subtasks[m][j] => i = j

\* A list is pushed once, when as many subtasks as announced have been counted: while a call is
\* going to push it, no other is and nothing of it is there.
Pushing == {"as_lock", "as_push"}
Filled(m) == m \in MainTasks /\ ready_count[m] >= SubtaskSize[m]
FilledOK ==
  /\ \A c \in Clients : cpc[c] \in Pushing => Filled(main_task_id[call[c]])
  /\ \A s \in SubTasks : Present(s) => Filled(main_task_id[s]) /\ Beyond(s, Unappended)
PushOK ==
  \A c \in Clients : cpc[c] \in Pushing =>
    /\ \A d \in Clients :
         cpc[d] \in Pushing /\ main_task_id[call[d]] = main_task_id[call[c]] => d = c
    /\ \A s \in SubTasks : main_task_id[s] = main_task_id[call[c]] => ~Present(s)

\* A subtask is in one place at a time, and before its function has started.
Scanning == {"find", "deps", "dep_task", "await"}
PlacesOK ==
  /\ \A p \in Priorities : \A i, j \in DOMAIN ready_subtasks[p] :
       ready_subtasks[p][i] = ready_subtasks[p][j] => i = j
  /\ \A i, j \in DOMAIN ring : ring[i] = ring[j] => i = j
  /\ \A v, w \in Workers : job[v] # None /\ job[v] = job[w] => v = w
  /\ \A s \in SubTasks : Queued(s) => ~Enqueued(s) /\ ~AtWork(s) /\ started[s] = 0
  /\ \A s \in SubTasks : Enqueued(s) => ~AtWork(s) /\ started[s] = 0
  /\ \A w \in Workers : /\ wpc[w] \in {"idle", "exited"} => job[w] = None
                        /\ wpc[w] \in Scanning => started[job[w]] = 0
                        /\ wpc[w] \in {"running", "post"} => started[job[w]] > 0
                        /\ wpc[w] = "running" => fn[job[w]] = "none"
  /\ \A s \in SubTasks : started[s] = 0 => fn[s] = "none"

\* What the loop can take has been accepted, with all its siblings.
AllAccepted(s) == \A t \in Siblings(s) : Accepted(t)
AcceptedOK ==
  /\ \A c \in Clients : call[c] \in SubTasks =>
                           cpc[c] \in AddingSub /\ outcome[call[c]] = "open"
  /\ \A s \in SubTasks :
       /\ main_task_id[s] # None => Accepted(s) \/ \E c \in Clients : call[c] = s
       /\ Queued(s) => \/ AllAccepted(s)
                       \/ \E c \in Clients : /\ cpc[c] = "as_release"
                                             /\ main_task_id[call[c]] = main_task_id[s]
       /\ Enqueued(s) \/ AtWork(s) => AllAccepted(s)

\* A result is posted once, and whoever waits for it first takes it.
Answered(s) == \E f \in Fetches : FetchName[f] = SubName[s] /\ outcome[f] \in Slots
Taken(s)    == Answered(s) \/ \E c \in Clients : cpc[c] = "gr_take" /\ found[c] = s
Unposted(s) == \/ started[s] = 0
               \/ \E w \in Workers : wpc[w] \in {"running", "post"} /\ job[w] = s
ResultOK ==
  /\ \A s \in SubTasks : /\ Unposted(s) => semaphore[s] = 0 /\ ~Taken(s)
                         /\ semaphore[s] > 0 => semaphore[s] = 1 /\ slot[s] = fn[s] /\ ~Taken(s)
  /\ \A c \in Clients :
       /\ cpc[c] \in {"gr_slot", "gr_wait", "gr_take"} => outcome[call[c]] = "open"
       /\ cpc[c] = "gr_take" =>
            /\ semaphore[found[c]] = 0 /\ slot[found[c]] = fn[found[c]] /\ ~Answered(found[c])
            /\ \A d \in Clients : cpc[d] = "gr_take" /\ found[d] = found[c] => d = c
  /\ \A f \in Fetches : outcome[f] \in Slots =>
       /\ \E s \in SubTasks : SubName[s] = FetchName[f] /\ outcome[f] = fn[s] /\ Finished(s)
       /\ \A g \in Fetches : outcome[g] \in Slots /\ FetchName[g] = FetchName[f] => g = f
\* What holds whatever names the tasks have, and however many subtasks are submitted.
OnceInv  == CallsOK /\ FetchesOK /\ NamesOK /\ MembersOK /\ FilledOK /\ PushOK /\ PlacesOK
PlaceInv == /\ MembersOK /\ FilledOK /\ PushOK /\ PlacesOK /\ HeldOK /\ SweptOK
            /\ AcceptedOK /\ ResultOK

-----------------------------------------------------------------------------
(* What steps leave alone. *)

\* A client leaves the ring, the workers and the history alone.
LEMMA ClientFrame ==
  ASSUME NEW c \in Clients, ClientStep(c) PROVE UNCHANGED <<ring, workerVars, fn, started>>
BY DEF ClientStep, AddMainTask, EnterWaiting, InsertMain, AddSubTask, NameSubTask,
   InsertSubTask, AppendMember, EmplaceSlot, FetchMain, CountReady, LockReady, PushMembers,
   LeaveWaiting, GetSubTaskResult, FindSlot, WaitSlot, TakeResult, EraseName, EraseSubTask,
   Start, LaunchLoop, Stop, TestJoinable, EnterJoin, Join, DestroyMutexes, StopPool, JoinPool,
   clientOther, queueVars, histVars

-----------------------------------------------------------------------------
(* The lists of members. *)

\* A subtask is appended by its own call (line 296), which goes on.
LEMMA ClientStepMembers ==
  ASSUME PriorityInv, CallsOK, MembersOK, IdsStay, NEW c \in Clients, ClientStep(c)
  PROVE  MembersOK'
<1>0. TypeInv BY DEF PriorityInv
<1>1. Moves(c) BY <1>0, ClientMoves
<1>2. \A s \in SubTasks : Beyond(s, Unappended) => Beyond(s, Unappended)'
  BY <1>1, BeyondMoves
<1>3. \A m \in MainTasks : main_to_subtasks[m] \in Seq(SubTasks) BY <1>0 DEF TypeInv, MapsOK
<1>4. CASE UNCHANGED main_to_subtasks
  <2>1. \A m \in MainTasks : \A i \in DOMAIN main_to_subtasks[m] :
          main_to_subtasks[m][i] \in SubTasks
    BY <1>3
  <2> QED BY <1>2, <1>4, <2>1 DEF MembersOK
<1>5. CASE AppendMember(c)
  <2>1. PICK s \in SubTasks, m \in MainTasks : s = call[c] /\ m = main_task_id[s]
    BY <1>0, <1>5 DEF AppendMember, CAt, TypeInv, ClientInv, ClientShape, AddingSub
  <2>2. /\ main_to_subtasks'[m] = Append(main_to_subtasks[m], s)
        /\ \A k \in MainTasks \ {m} : main_to_subtasks'[k] = main_to_subtasks[k]
    BY <1>0, <1>5, <2>1 DEF AppendMember, TypeInv, MapsOK
  <2>3. cpc[c] = "as_members" /\ cpc'[c] = "as_slot" /\ call' = call /\ UNCHANGED main_task_id
    BY <1>0, <1>5, ListingStep DEF Listing
  <2>4. ~Beyond(s, Unappended) BY <2>1, <2>3 DEF Beyond, Unappended
  <2>5. Beyond(s, Unappended)'
    <3>1. main_task_id'[s] # None BY <2>1, <2>3, ConstantsAssumption DEF Calls
    <3>2. \A d \in Clients : call[d] = s => d = c
      BY <2>1, ConstantsAssumption DEF CallsOK, Calls
    <3> QED BY <2>3, <3>1, <3>2 DEF Beyond, Unappended
  <2>6. PICK q \in Seq(SubTasks) : q = main_to_subtasks[m] BY <1>3
  <2>7. \A i \in DOMAIN Append(q, s) :
          \/ i \in DOMAIN q /\ Append(q, s)[i] = q[i] /\ q[i] \in SubTasks
          \/ i = Len(q) + 1 /\ Append(q, s)[i] = s
    BY <2>6
  <2>8. \A i \in DOMAIN q : Beyond(q[i], Unappended) BY <2>6 DEF MembersOK
  <2>9. \A i, j \in DOMAIN q : q[i] = q[j] => i = j BY <2>6 DEF MembersOK
  <2>10. \A i \in DOMAIN q : q[i] # s BY <2>4, <2>8
  <2>11. \A i \in DOMAIN Append(q, s) : Beyond(Append(q, s)[i], Unappended)'
    <3> SUFFICES ASSUME NEW i \in DOMAIN Append(q, s), NEW t \in SubTasks, t = Append(q, s)[i]
                 PROVE  Beyond(t, Unappended)'
      BY <2>1, <2>2, <2>3, <2>6, <2>7 DEF Beyond
    <3>1. CASE t = s BY <2>5, <3>1
    <3>2. CASE t # s BY <1>2, <2>7, <2>8, <3>2
    <3> QED BY <3>1, <3>2
  <2>12. \A i, j \in DOMAIN Append(q, s) : Append(q, s)[i] = Append(q, s)[j] => i = j
    BY <2>7, <2>9, <2>10
  <2>13. \A k \in MainTasks \ {m} : \A i \in DOMAIN main_to_subtasks[k] :
           main_to_subtasks[k][i] \in SubTasks
    BY <1>3
  <2>14. \A k \in MainTasks \ {m} : \A i \in DOMAIN main_to_subtasks'[k] :
           /\ Beyond(main_to_subtasks[k][i], Unappended)'
           /\ \A j \in DOMAIN main_to_subtasks'[k] :
                main_to_subtasks'[k][i] = main_to_subtasks'[k][j] => i = j
    BY <1>2, <2>2, <2>13 DEF MembersOK
  <2> QED BY <2>2, <2>6, <2>11, <2>12, <2>14 DEF MembersOK
<1> QED BY <1>0, <1>4, <1>5, QuietStep, ListingStep DEF Listing

\* A worker only empties lists.
LEMMA WorkerStepMembers ==
  ASSUME TypeInv, MembersOK, NEW w \in Workers, WorkerStep(w) PROVE MembersOK'
<1>1. \A m \in MainTasks :
        main_to_subtasks'[m] = <<>> \/ main_to_subtasks'[m] = main_to_subtasks[m]
  BY DEF WorkerStep, Pop, LeavePool, FindSubTask, LookupDependency, FindDependency,
     AwaitDependency, StartFunction, FinishFunction, PostResult, FlagCompleted,
     NotifyDependents, FindMainTask, CountCompleted, EraseMainTask, UseDestroyed, EraseMembers,
     taskVars, mainVars, mainMaps, TypeInv, MapsOK
<1>2. \A m \in MainTasks : \A i \in DOMAIN main_to_subtasks[m] :
        main_to_subtasks[m][i] \in SubTasks
  BY DEF TypeInv, MapsOK
<1>3. \A s \in SubTasks : Beyond(s, Unappended)' <=> Beyond(s, Unappended)
  BY WorkerFrame, BeyondSame
<1> QED BY <1>1, <1>2, <1>3 DEF MembersOK

-----------------------------------------------------------------------------
(* The places of a subtask. *)

\* Only what has been released is anywhere.
LEMMA PresentReleased ==
  ASSUME TypeInv, DependencyInv, PlacesOK, NEW s \in SubTasks, Present(s) PROVE Released(s)
<1>1. CASE Queued(s) BY <1>1 DEF Queued, DependencyInv, ReleasedOK
<1>2. CASE Enqueued(s) BY <1>2 DEF Enqueued, DependencyInv, ReleasedOK
<1>3. CASE AtWork(s)
  <2>1. PICK w \in Workers : job[w] = s BY <1>3 DEF AtWork
  <2>2. wpc[w] \notin {"idle", "exited"}
    BY <2>1, ConstantsAssumption DEF PlacesOK, Calls
  <2> QED BY <2>1, <2>2 DEF DependencyInv, ReleasedOK
<1>4. CASE started[s] > 0 BY <1>4 DEF DependencyInv, ScanOK, Unhindered
<1> QED BY <1>1, <1>2, <1>3, <1>4 DEF Present

\* Client c pushes the list of m, and so its subtasks only.
Pushes(c, m) ==
  /\ m = main_task_id[call[c]] /\ cpc[c] = "as_push" /\ cpc'[c] = "as_release"
  /\ ready_subtasks'[Priority[m]] = ready_subtasks[Priority[m]] \o main_to_subtasks[m]
  /\ \A p \in Priorities \ {Priority[m]} : ready_subtasks'[p] = ready_subtasks[p]
  /\ \A s \in SubTasks : Queued(s)' =>
       \/ Queued(s)
       \/ /\ main_task_id[s] = m
          /\ \E i \in DOMAIN main_to_subtasks[m] : main_to_subtasks[m][i] = s

\* The step that changes the queues pushes a list, and so does the one that leaves "as_push".
LEMMA PushMoves ==
  ASSUME PriorityInv, NEW c \in Clients, PushMembers(c),
         ready_subtasks' # ready_subtasks \/ cpc'[c] # cpc[c]
  PROVE  \E m \in MainTasks : Pushes(c, m)
<1>0. TypeInv /\ ListedUnderMain BY DEF PriorityInv
<1>1. PICK m \in MainTasks :
        /\ m = main_task_id[call[c]] /\ cpc[c] = "as_push" /\ cpc'[c] = "as_release"
        /\ ready_subtasks' =
             [ready_subtasks EXCEPT ![Priority[m]] =
                ready_subtasks[Priority[m]] \o main_to_subtasks[m]]
  BY <1>0
  DEF PushMembers, CAt, CGoto, TypeInv, ClientInv, ClientsOK, ClientShape, AddingSub, clientVars
<1>2. Priority[m] \in Priorities BY ConstantsAssumption
<1>3. /\ ready_subtasks'[Priority[m]] = ready_subtasks[Priority[m]] \o main_to_subtasks[m]
      /\ \A p \in Priorities \ {Priority[m]} : ready_subtasks'[p] = ready_subtasks[p]
  BY <1>0, <1>1, <1>2 DEF TypeInv, QueuesOK
<1>4. PICK q \in Seq(SubTasks) : q = ready_subtasks[Priority[m]]
  BY <1>0, <1>2 DEF TypeInv, QueuesOK
<1>5. PICK l \in Seq(SubTasks) : l = main_to_subtasks[m] BY <1>0 DEF TypeInv, MapsOK
<1>6. ASSUME NEW s \in SubTasks, Queued(s)', ~Queued(s)
      PROVE  /\ main_task_id[s] = m
             /\ \E i \in DOMAIN main_to_subtasks[m] : main_to_subtasks[m][i] = s
  <2>1. PICK p \in Priorities : \E i \in DOMAIN ready_subtasks'[p] : ready_subtasks'[p][i] = s
    BY <1>6 DEF Queued
  <2>2. p = Priority[m] BY <1>3, <1>6, <2>1 DEF Queued
  <2>3. PICK i \in DOMAIN (q \o l) : (q \o l)[i] = s BY <1>3, <1>4, <1>5, <2>1, <2>2
  <2>4. \/ i \in DOMAIN q /\ q[i] = s
        \/ i - Len(q) \in DOMAIN l /\ l[i - Len(q)] = s
    BY <2>3
  <2>5. ~\E j \in DOMAIN q : q[j] = s BY <1>2, <1>4, <1>6 DEF Queued
  <2> QED BY <1>0, <1>5, <2>4, <2>5 DEF ListedUnderMain
<1> QED BY <1>1, <1>3, <1>6 DEF Pushes

\* A step of a client that pushes nothing.
LEMMA ClientPlaces ==
  ASSUME NEW c \in Clients, ClientStep(c), UNCHANGED ready_subtasks, NEW s \in SubTasks
  PROVE  /\ Queued(s)' <=> Queued(s)
         /\ Enqueued(s)' <=> Enqueued(s)
         /\ AtWork(s)' <=> AtWork(s)
         /\ Present(s)' <=> Present(s)
BY ClientFrame DEF Queued, Enqueued, AtWork, Present, workerVars

\* Only the call that counts the last subtask of a main task pushes (line 306), and once.
LEMMA ClientStepPush ==
  ASSUME PriorityInv, FilledOK, PushOK, IdsStay, NEW c \in Clients, ClientStep(c)
  PROVE  PushOK'
<1>0. TypeInv BY DEF PriorityInv
<1>1. \A d \in Clients \ {c} : cpc'[d] = cpc[d] /\ call'[d] = call[d]
  BY <1>0, ClientMoves DEF Moves
<1>2. None \notin MainTasks BY ConstantsAssumption DEF Calls
<1>3. \A d \in Clients : cpc[d] \in Pushing =>
        /\ call[d] \in SubTasks /\ main_task_id[call[d]] \in MainTasks
        /\ main_task_id'[call[d]] = main_task_id[call[d]]
        /\ Filled(main_task_id[call[d]])
  BY <1>0, <1>2 DEF TypeInv, ClientInv, ClientShape, AddingSub, Pushing, IdsStay, FilledOK
<1>4. \A s \in SubTasks : Present(s) => main_task_id'[s] = main_task_id[s]
  BY <1>2 DEF FilledOK, Filled, IdsStay
<1>5. ASSUME \A d \in Clients : cpc'[d] \in Pushing => cpc[d] \in Pushing /\ call'[d] = call[d],
             UNCHANGED ready_subtasks
      PROVE  PushOK'
  <2>1. \A s \in SubTasks : Present(s)' => Present(s) BY <1>5, ClientPlaces
  <2> QED BY <1>3, <1>4, <1>5, <2>1 DEF PushOK
<1>6. CASE CountReady(c) /\ cpc'[c] = "as_lock"
  <2>1. /\ UNCHANGED <<main_task_id, ready_subtasks>> /\ cpc[c] = "as_ready" /\ call' = call
        /\ call[c] \in SubTasks
    BY <1>0, <1>6, ListingStep DEF Listing, CountReady, clientOther, queueVars
  <2>2. PICK m \in MainTasks : m = main_task_id[call[c]]
    BY <1>0, <1>6, ListingStep DEF Listing
  <2>3. ~Filled(m)
    <3>1. ready_count[m] \in Nat /\ SubtaskSize[m] \in Nat
      BY <1>0, ConstantsAssumption DEF TypeInv, MapsOK
    <3>2. LastReady(m)
      BY <1>0, <1>6, <2>2 DEF CountReady, Return, TypeInv, ClientInv, ClientsOK
    <3> QED BY <3>1, <3>2 DEF Filled, LastReady
  <2>4. \A d \in Clients : cpc[d] \in Pushing => main_task_id[call[d]] # m BY <1>3, <2>3
  <2>5. \A s \in SubTasks : main_task_id[s] = m => ~Present(s)
    BY <2>3 DEF FilledOK
  <2>6. \A s \in SubTasks : Present(s)' => Present(s) BY <1>6, <2>1, ClientPlaces
  <2> QED BY <1>1, <2>1, <2>2, <2>4, <2>5, <2>6 DEF PushOK
<1>7. CASE PushMembers(c) /\ ready_subtasks' # ready_subtasks
  <2>0. PICK m \in MainTasks : Pushes(c, m) BY <1>7, PushMoves
  <2>1. /\ m = main_task_id[call[c]] /\ cpc[c] = "as_push" /\ cpc'[c] = "as_release"
        /\ \A s \in SubTasks : Queued(s)' => Queued(s) \/ main_task_id[s] = m
    BY <2>0 DEF Pushes
  <2>2. UNCHANGED main_task_id BY <1>0, <1>7, ListingStep DEF Listing
  <2>3. \A d \in Clients : cpc'[d] \in Pushing =>
          d # c /\ cpc[d] \in Pushing /\ call'[d] = call[d] /\ main_task_id[call[d]] # m
    BY <1>1, <2>1 DEF Pushing, PushOK
  <2>4. \A s \in SubTasks : Present(s)' => Present(s) \/ main_task_id[s] = m
    BY <2>1, ClientFrame DEF Present, Enqueued, AtWork, workerVars
  <2> QED BY <2>2, <2>3, <2>4 DEF PushOK
<1>8. CASE Listing(c) /\ ~(CountReady(c) /\ cpc'[c] = "as_lock")
             /\ ~(PushMembers(c) /\ ready_subtasks' # ready_subtasks)
  <2>1. UNCHANGED ready_subtasks BY <1>0, <1>8, ListingStep
  <2>2. cpc'[c] \in Pushing => cpc[c] \in Pushing /\ call'[c] = call[c]
    BY <1>0, <1>8, ListingStep DEF Listing, Pushing
  <2> QED BY <1>1, <1>5, <2>1, <2>2
<1>9. CASE ~Listing(c) BY <1>0, <1>1, <1>5, <1>9, QuietStep DEF Late, Pushing
<1> QED BY <1>6, <1>7, <1>8, <1>9 DEF Listing

\* The counts of addSubTask only grow (line 305).
LEMMA FilledStay ==
  ASSUME TypeInv, NEW c \in Clients, ClientStep(c), NEW m, Filled(m) PROVE Filled(m)'
<1>1. CASE CountReady(c)
  <2>1. main_task_id[call[c]] \in MainTasks
    BY <1>1 DEF CountReady, CAt, TypeInv, ClientInv, ClientShape, AddingSub
  <2>2. /\ m \in MainTasks /\ ready_count[m] \in Nat /\ SubtaskSize[m] \in Nat
        /\ ready_count[m] >= SubtaskSize[m]
    BY ConstantsAssumption DEF Filled, TypeInv, MapsOK
  <2>3. ready_count'[m] = ready_count[m] \/ ready_count'[m] = ready_count[m] + 1
    BY <1>1, <2>1, <2>2 DEF CountReady, TypeInv, MapsOK
  <2> QED BY <2>2, <2>3 DEF Filled
<1>2. CASE ~CountReady(c)
  BY <1>2 DEF ClientStep, AddMainTask, EnterWaiting, InsertMain, AddSubTask, NameSubTask,
     InsertSubTask, AppendMember, EmplaceSlot, FetchMain, LockReady, PushMembers,
     LeaveWaiting, GetSubTaskResult, FindSlot, WaitSlot, TakeResult, EraseName, EraseSubTask,
     Start, LaunchLoop, Stop, TestJoinable, EnterJoin, Join, DestroyMutexes, StopPool,
     JoinPool, taskVars, mainVars, counts, Filled
<1> QED BY <1>1, <1>2

\* A call goes on to push when it has counted as many subtasks as announced (line 306), and the
\* list it pushes is that of its main task.
LEMMA ClientStepFilled ==
  ASSUME PriorityInv, CallsOK, MembersOK, FilledOK, IdsStay, NEW c \in Clients, ClientStep(c)
  PROVE  FilledOK'
<1>0. TypeInv BY DEF PriorityInv
<1>1. \A d \in Clients \ {c} : cpc'[d] = cpc[d] /\ call'[d] = call[d]
  BY <1>0, ClientMoves DEF Moves
<1>2. None \notin MainTasks BY ConstantsAssumption DEF Calls
<1>3. \A d \in Clients : cpc[d] \in Pushing => call[d] \in SubTasks
  BY <1>0 DEF TypeInv, ClientInv, ClientShape, AddingSub, Pushing
<1>4. \A s \in SubTasks : Filled(main_task_id[s]) => Filled(main_task_id[s])'
  <2> SUFFICES ASSUME NEW s \in SubTasks, Filled(main_task_id[s]) PROVE Filled(main_task_id[s])'
    OBVIOUS
  <2>1. PICK m : m = main_task_id[s] OBVIOUS
  <2>2. Filled(m)' BY <1>0, <2>1, FilledStay
  <2>3. main_task_id'[s] = m BY <1>2, <2>1 DEF Filled, IdsStay
  <2> QED BY <2>2, <2>3 DEF Filled
<1>5. ASSUME NEW d \in Clients, cpc'[d] \in Pushing PROVE Filled(main_task_id[call[d]])'
  <2>1. CASE cpc[d] \in Pushing /\ call'[d] = call[d]
    BY <1>3, <1>4, <2>1 DEF FilledOK, Filled
  <2>2. CASE ~(cpc[d] \in Pushing /\ call'[d] = call[d])
    <3>1. d = c BY <1>1, <1>5, <2>2
    <3>2. /\ call'[c] = call[c] /\ call[c] \in SubTasks /\ main_task_id[call[c]] \in MainTasks
          /\ CountReady(c) /\ LastReady(main_task_id[call[c]])
      BY <1>0, <1>5, <2>2, <3>1, GoesToPush DEF Pushing
    <3>3. PICK m \in MainTasks : m = main_task_id[call[c]] BY <3>2
    <3>4. main_task_id' = main_task_id /\ ready_count'[m] = ready_count[m] + 1
      BY <1>0, <3>2, <3>3
      DEF CountReady, TypeInv, MapsOK, subVars, subFields
    <3>5. ready_count[m] \in Nat /\ SubtaskSize[m] \in Nat
      BY <1>0, ConstantsAssumption DEF TypeInv, MapsOK
    <3> QED BY <3>1, <3>2, <3>3, <3>4, <3>5 DEF Filled, LastReady
  <2> QED BY <2>1, <2>2
<1>6. ASSUME NEW s \in SubTasks, Present(s)'
      PROVE  Filled(main_task_id[s])' /\ Beyond(s, Unappended)'
  <2>0. Beyond(s, Unappended) => Beyond(s, Unappended)' BY <1>0, ClientMoves, BeyondMoves
  <2>1. CASE Present(s) BY <1>4, <2>0, <2>1 DEF FilledOK
  <2>2. CASE ~Present(s)
    <3>1. ready_subtasks' # ready_subtasks BY <1>6, <2>2, ClientPlaces
    <3>2. PushMembers(c) BY <1>0, <3>1, QuietStep, ListingStep
    <3>3. PICK m \in MainTasks : Pushes(c, m) BY <3>1, <3>2, PushMoves
    <3>4. Present(s)' => Present(s) \/ Queued(s)'
      BY ClientFrame DEF Present, Enqueued, AtWork, workerVars
    <3>5. main_task_id[s] = m
      BY <1>6, <2>2, <3>3, <3>4 DEF Pushes, Present
    <3>6. Filled(m) BY <3>3 DEF Pushes, FilledOK, Pushing
    <3>7. Queued(s)' /\ ~Queued(s) BY <1>6, <2>2, <3>4 DEF Present
    <3>8. \E i \in DOMAIN main_to_subtasks[m] : main_to_subtasks[m][i] = s
      BY <3>3, <3>7 DEF Pushes
    <3> QED BY <1>4, <2>0, <3>5, <3>6, <3>8 DEF MembersOK
  <2> QED BY <2>1, <2>2
<1> QED BY <1>5, <1>6 DEF FilledOK

\* What is pushed was nowhere before.
LEMMA ClientStepPlaces ==
  ASSUME PriorityInv, MembersOK, PushOK, PlacesOK, NEW c \in Clients, ClientStep(c)
  PROVE  PlacesOK'
<1>0. TypeInv BY DEF PriorityInv
<1>1. UNCHANGED <<ring, wpc, job, fn, started>> BY ClientFrame DEF workerVars
<1>2. CASE UNCHANGED ready_subtasks
  <2>1. \A s \in SubTasks : /\ Queued(s)' <=> Queued(s)
                            /\ Enqueued(s)' <=> Enqueued(s)
                            /\ AtWork(s)' <=> AtWork(s)
    BY <1>2, ClientPlaces
  <2> QED BY <1>1, <1>2, <2>1 DEF PlacesOK
<1>3. CASE ready_subtasks' # ready_subtasks
  <2>1. PushMembers(c) BY <1>0, <1>3, QuietStep, ListingStep
  <2>0. PICK m \in MainTasks : Pushes(c, m) BY <1>3, <2>1, PushMoves
  <2>2. /\ m = main_task_id[call[c]] /\ cpc[c] = "as_push"
        /\ ready_subtasks'[Priority[m]] = ready_subtasks[Priority[m]] \o main_to_subtasks[m]
        /\ \A p \in Priorities \ {Priority[m]} : ready_subtasks'[p] = ready_subtasks[p]
        /\ \A s \in SubTasks : Queued(s)' => Queued(s) \/ main_task_id[s] = m
    BY <2>0 DEF Pushes
  <2>3. \A s \in SubTasks : main_task_id[s] = m => ~Present(s)
    BY <2>2 DEF PushOK, Pushing
  <2>4. \A s \in SubTasks : Queued(s)' => ~Enqueued(s)' /\ ~AtWork(s)' /\ started'[s] = 0
    BY <1>0, <1>1, <2>2, <2>3 DEF Present, PlacesOK, Enqueued, AtWork, TypeInv, OthersOK
  <2>5. PICK q \in Seq(SubTasks) : q = ready_subtasks[Priority[m]]
    BY <1>0, ConstantsAssumption DEF TypeInv, QueuesOK
  <2>6. PICK l \in Seq(SubTasks) : l = main_to_subtasks[m] BY <1>0 DEF TypeInv, MapsOK
  <2>7. \A i \in DOMAIN l : main_task_id[l[i]] = m /\ l[i] \in SubTasks
    BY <2>6 DEF PriorityInv, ListedUnderMain
  <2>8. \A i \in DOMAIN q : \A j \in DOMAIN l : q[i] # l[j]
    <3>1. Priority[m] \in Priorities BY ConstantsAssumption
    <3>2. \A i \in DOMAIN q : q[i] \in SubTasks /\ Queued(q[i])
      BY <2>5, <3>1 DEF Queued
    <3> QED BY <2>3, <2>7, <3>2 DEF Present
  <2>9. \A i, j \in DOMAIN q : q[i] = q[j] => i = j
    BY <2>5, ConstantsAssumption DEF PlacesOK
  <2>10. \A i, j \in DOMAIN l : l[i] = l[j] => i = j BY <2>6 DEF MembersOK
  <2>11. \A i, j \in DOMAIN (q \o l) : (q \o l)[i] = (q \o l)[j] => i = j
    <3>1. \A i \in DOMAIN (q \o l) :
            \/ i \in DOMAIN q /\ (q \o l)[i] = q[i]
            \/ /\ i - Len(q) \in DOMAIN l /\ i \in Int
               /\ (q \o l)[i] = l[i - Len(q)]
      OBVIOUS
    <3>2. \A i, j \in Int : i - Len(q) = j - Len(q) => i = j OBVIOUS
    <3>3. ASSUME NEW i \in DOMAIN (q \o l), NEW j \in DOMAIN (q \o l), (q \o l)[i] = (q \o l)[j]
          PROVE  i = j
      <4>1. CASE i \in DOMAIN q /\ (q \o l)[i] = q[i] BY <2>8, <2>9, <3>1, <3>3, <4>1
      <4>2. CASE i - Len(q) \in DOMAIN l /\ i \in Int /\ (q \o l)[i] = l[i - Len(q)]
        BY <2>8, <2>10, <3>1, <3>2, <3>3, <4>2
      <4> QED BY <3>1, <4>1, <4>2
    <3> QED BY <3>3
  <2>12. ASSUME NEW p \in Priorities, NEW i \in DOMAIN ready_subtasks'[p],
                NEW j \in DOMAIN ready_subtasks'[p],
                ready_subtasks'[p][i] = ready_subtasks'[p][j]
         PROVE  i = j
    <3>1. CASE p = Priority[m] BY <2>2, <2>5, <2>6, <2>11, <2>12, <3>1
    <3>2. CASE p # Priority[m]
      <4>1. ready_subtasks'[p] = ready_subtasks[p] BY <2>2, <3>2
      <4> QED BY <2>12, <4>1 DEF PlacesOK
    <3> QED BY <3>1, <3>2
  <2>13. \A s \in SubTasks : (Enqueued(s)' <=> Enqueued(s)) /\ (AtWork(s)' <=> AtWork(s))
    BY <1>1 DEF Enqueued, AtWork
  <2> QED BY <1>1, <2>4, <2>12, <2>13 DEF PlacesOK
<1> QED BY <1>2, <1>3

\* A step of worker w, as the places of subtasks see it.
LEMMA WorkerMoves ==
  ASSUME TypeInv, PlacesOK, NEW w \in Workers, WorkerStep(w)
  PROVE  /\ \A v \in Workers \ {w} : wpc'[v] = wpc[v] /\ job'[v] = job[v]
         /\ ~Pop(w) => UNCHANGED ring
         /\ ~StartFunction(w) => UNCHANGED started
         /\ ~FinishFunction(w) => UNCHANGED fn
         /\ \/ Pop(w) \/ StartFunction(w) \/ FinishFunction(w)
            \/ /\ job'[w] = job[w]
               /\ wpc'[w] \in {"idle", "exited"} => wpc[w] \in {"idle", "exited"}
               /\ wpc'[w] \in Scanning => wpc[w] \in Scanning
               /\ wpc'[w] \in {"running", "post"} => wpc'[w] = wpc[w]
            \/ wpc'[w] = "idle" /\ job'[w] = None
<1> USE DEF workerOther, workerVars, queueVars, histVars
<1>1. wpc \in [Workers -> WorkerSteps] /\ job \in [Workers -> SubTasks \cup {None}]
  BY DEF TypeInv, WorkerInv, WorkersOK
<1>2. ASSUME NEW l, WGoto(w, l)
      PROVE  /\ \A v \in Workers \ {w} : wpc'[v] = wpc[v] /\ job'[v] = job[v]
             /\ wpc'[w] = l /\ job'[w] = job[w]
  BY <1>1, <1>2 DEF WGoto
<1>3. ASSUME NEW l, NEW s, WJob(w, l, s)
      PROVE  /\ \A v \in Workers \ {w} : wpc'[v] = wpc[v] /\ job'[v] = job[v]
             /\ wpc'[w] = l /\ job'[w] = s
  BY <1>1, <1>3 DEF WJob
<1>4. ASSUME NextDependency(w)
      PROVE  /\ \A v \in Workers \ {w} : wpc'[v] = wpc[v] /\ job'[v] = job[v]
             /\ wpc'[w] = "deps" /\ job'[w] = job[w]
  BY <1>1, <1>4 DEF NextDependency
<1>5. CASE Pop(w) BY <1>3, <1>5 DEF Pop, StartFunction, FinishFunction
<1>6. CASE StartFunction(w) BY <1>2, <1>6 DEF StartFunction
<1>7. CASE FinishFunction(w) BY <1>2, <1>7 DEF FinishFunction
<1>8. CASE LeavePool(w) BY <1>2, <1>8 DEF LeavePool, WAt, Scanning
<1>9. CASE FindSubTask(w) BY <1>2, <1>3, <1>9 DEF FindSubTask, WAt, WReturn, Scanning
<1>10. CASE LookupDependency(w)
  BY <1>1, <1>4, <1>10 DEF LookupDependency, WAt, Scanning
<1>11. CASE FindDependency(w) BY <1>2, <1>4, <1>11 DEF FindDependency, WAt, Scanning
<1>12. CASE AwaitDependency(w) BY <1>4, <1>12 DEF AwaitDependency, WAt, Scanning
<1>13. CASE PostResult(w) BY <1>2, <1>13 DEF PostResult, Scanning
<1>14. CASE FlagCompleted(w) BY <1>2, <1>14 DEF FlagCompleted, Scanning
<1>15. CASE NotifyDependents(w) BY <1>2, <1>15 DEF NotifyDependents, Scanning
<1>16. CASE FindMainTask(w) BY <1>2, <1>3, <1>16 DEF FindMainTask, WReturn, Scanning
<1>17. CASE CountCompleted(w) BY <1>2, <1>3, <1>17 DEF CountCompleted, WReturn, Scanning
<1>18. CASE EraseMainTask(w) BY <1>2, <1>18 DEF EraseMainTask, Scanning
<1>19. CASE EraseMembers(w) BY <1>3, <1>19 DEF EraseMembers, WReturn
<1>20. CASE UseDestroyed(w) BY <1>20 DEF UseDestroyed
<1> QED
  BY <1>5, <1>6, <1>7, <1>8, <1>9, <1>10, <1>11, <1>12, <1>13, <1>14, <1>15, <1>16, <1>17, <1>18,
     <1>19, <1>20 DEF WorkerStep

\* A worker that pops a subtask takes it from the front of the ring.
LEMMA PopMoves ==
  ASSUME TypeInv, PlacesOK, NEW w \in Workers, Pop(w)
  PROVE  \E h \in SubTasks :
           /\ Enqueued(h) /\ job[w] = None /\ job'[w] = h /\ wpc'[w] = "find"
           /\ \A v \in Workers \ {w} : wpc'[v] = wpc[v] /\ job'[v] = job[v]
           /\ \A i, j \in DOMAIN ring' : ring'[i] = ring'[j] => i = j
           /\ \A s \in SubTasks : Enqueued(s)' => Enqueued(s) /\ s # h
           /\ \A s \in SubTasks : AtWork(s)' => AtWork(s) \/ s = h
<1>1. PICK q \in Seq(SubTasks) : q = ring /\ q # <<>> BY DEF Pop, TypeInv, QueuesOK
<1>2. ring' = Tail(q) /\ Head(q) \in SubTasks /\ Head(q) = q[1] /\ 1 \in DOMAIN q
  BY <1>1 DEF Pop
<1>3. \A i \in DOMAIN Tail(q) : i + 1 \in DOMAIN q /\ Tail(q)[i] = q[i + 1] /\ i \in Nat \ {0}
  BY <1>1
<1>4. \A i, j \in DOMAIN q : q[i] = q[j] => i = j BY <1>1 DEF PlacesOK
<1>5. wpc[w] = "idle" /\ WJob(w, "find", Head(q)) BY <1>1 DEF Pop, WAt
<1>6. /\ job[w] = None /\ job'[w] = Head(q) /\ wpc'[w] = "find"
      /\ \A v \in Workers \ {w} : wpc'[v] = wpc[v] /\ job'[v] = job[v]
  BY <1>5 DEF WJob, PlacesOK, TypeInv, WorkerInv, WorkersOK
<1>7. \A i, j \in DOMAIN Tail(q) : Tail(q)[i] = Tail(q)[j] => i = j
  <2>1. \A i, j \in Nat : i + 1 = j + 1 => i = j OBVIOUS
  <2> QED BY <1>3, <1>4, <2>1
<1>8. \A i \in DOMAIN Tail(q) : Tail(q)[i] # q[1]
  <2>1. \A i \in Nat \ {0} : i + 1 # 1 OBVIOUS
  <2> QED BY <1>2, <1>3, <1>4, <2>1
<1>9. Enqueued(Head(q)) BY <1>1, <1>2 DEF Enqueued
<1>10. \A s \in SubTasks : Enqueued(s)' => Enqueued(s) /\ s # Head(q)
  BY <1>1, <1>2, <1>3, <1>8 DEF Enqueued
<1>11. \A s \in SubTasks : AtWork(s)' => AtWork(s) \/ s = Head(q) BY <1>6 DEF AtWork
<1> QED BY <1>2, <1>6, <1>7, <1>9, <1>10, <1>11

\* A worker starts the function of the subtask it has scanned; nothing else increments a count.
LEMMA StartMoves ==
  ASSUME TypeInv, NEW w \in Workers, StartFunction(w)
  PROVE  /\ wpc[w] = "deps" /\ wpc'[w] = "running" /\ job[w] \in SubTasks /\ job' = job
         /\ \A v \in Workers \ {w} : wpc'[v] = wpc[v]
         /\ started'[job[w]] = started[job[w]] + 1
         /\ \A s \in SubTasks \ {job[w]} : started'[s] = started[s]
         /\ UNCHANGED <<ring, ready_subtasks, fn>>
BY DEF StartFunction, WAt, WGoto, TypeInv, WorkerInv, WorkersOK, WorkerShape, OthersOK, queueVars

\* A function ends.
LEMMA FinishMoves ==
  ASSUME TypeInv, NEW w \in Workers, FinishFunction(w)
  PROVE  /\ wpc[w] = "running" /\ wpc'[w] = "post" /\ job[w] \in SubTasks /\ job' = job
         /\ \A v \in Workers \ {w} : wpc'[v] = wpc[v]
         /\ fn'[job[w]] \in {"value", "error"}
         /\ \A s \in SubTasks \ {job[w]} : fn'[s] = fn[s]
         /\ UNCHANGED <<ring, ready_subtasks, started>>
BY DEF FinishFunction, WAt, WGoto, TypeInv, WorkerInv, WorkersOK, WorkerShape, OthersOK, queueVars

\* Present subtasks stay where they were or go on to the next place.
LEMMA WorkerStepPresent ==
  ASSUME TypeInv, PlacesOK, NEW w \in Workers, WorkerStep(w), NEW s \in SubTasks, Present(s)'
  PROVE  Present(s)
<1>1. Queued(s)' => Queued(s) BY WorkerFrame DEF Queued
<1>2. Enqueued(s)' => Enqueued(s)
  <2>1. CASE Pop(w) BY <2>1, PopMoves
  <2>2. CASE ~Pop(w) BY <2>2, WorkerMoves DEF Enqueued
  <2> QED BY <2>1, <2>2
<1>3. AtWork(s)' => AtWork(s) \/ Enqueued(s)
  <2>0. s # None BY ConstantsAssumption DEF Calls
  <2>1. CASE Pop(w) BY <2>1, PopMoves
  <2>2. CASE StartFunction(w) \/ FinishFunction(w) BY <2>2, StartMoves, FinishMoves DEF AtWork
  <2>3. CASE ~Pop(w) /\ ~StartFunction(w) /\ ~FinishFunction(w)
    BY <2>0, <2>3, WorkerMoves DEF AtWork
  <2> QED BY <2>1, <2>2, <2>3
<1>4. started'[s] > 0 => started[s] > 0 \/ AtWork(s)
  <2>1. CASE StartFunction(w) BY <2>1, StartMoves DEF AtWork
  <2>2. CASE ~StartFunction(w) BY <2>2, WorkerMoves
  <2> QED BY <2>1, <2>2
<1> QED BY <1>1, <1>2, <1>3, <1>4 DEF Present

\* No worker puts a subtask anywhere that was not somewhere.
LEMMA WorkerStepPush ==
  ASSUME TypeInv, FilledOK, PushOK, PlacesOK, NEW w \in Workers, WorkerStep(w)
  PROVE  FilledOK' /\ PushOK'
<1>1. UNCHANGED <<cpc, call, main_task_id, ready_count>>
  BY WorkerFrame
  DEF WorkerStep, Pop, LeavePool, FindSubTask, LookupDependency, FindDependency,
     AwaitDependency, StartFunction, FinishFunction, PostResult, FlagCompleted, NotifyDependents,
     FindMainTask, CountCompleted, EraseMainTask, UseDestroyed, EraseMembers, taskVars, mainVars,
     counts, clientVars
<1>2. \A s \in SubTasks : Present(s)' => Present(s) BY WorkerStepPresent
<1>3. \A s \in SubTasks : Beyond(s, Unappended)' <=> Beyond(s, Unappended)
  BY WorkerFrame, BeyondSame
<1>4. FilledOK' BY <1>1, <1>2, <1>3 DEF FilledOK, Filled
<1> QED BY <1>1, <1>2, <1>4 DEF PushOK

\* A worker moves its subtask from the ring to itself, and starts its function once.
LEMMA WorkerStepPlaces ==
  ASSUME TypeInv, PlacesOK, NEW w \in Workers, WorkerStep(w) PROVE PlacesOK'
<1>0. /\ None \notin SubTasks
      /\ \A v \in Workers : wpc[v] \notin {"idle", "exited"} => job[v] \in SubTasks
      /\ \A s \in SubTasks : started[s] \in Nat
      /\ job \in [Workers -> SubTasks \cup {None}]
  BY ConstantsAssumption DEF Calls, TypeInv, WorkerInv, WorkersOK, WorkerShape, OthersOK
<1>1. UNCHANGED ready_subtasks BY WorkerFrame
<1>2. \A s \in SubTasks : Queued(s)' <=> Queued(s) BY <1>1 DEF Queued
<1>3. CASE Pop(w)
  <2>1. UNCHANGED <<fn, started>> BY <1>3 DEF Pop, histVars
  <2>2. PICK h \in SubTasks :
          /\ Enqueued(h) /\ job[w] = None /\ job'[w] = h /\ wpc'[w] = "find"
          /\ \A v \in Workers \ {w} : wpc'[v] = wpc[v] /\ job'[v] = job[v]
          /\ \A i, j \in DOMAIN ring' : ring'[i] = ring'[j] => i = j
          /\ \A s \in SubTasks : Enqueued(s)' => Enqueued(s) /\ s # h
          /\ \A s \in SubTasks : AtWork(s)' => AtWork(s) \/ s = h
    BY <1>3, PopMoves
  <2>3. started[h] = 0 /\ ~AtWork(h) /\ ~Queued(h) BY <2>2 DEF PlacesOK
  <2>4. \A s \in SubTasks : Queued(s)' => ~Enqueued(s)' /\ ~AtWork(s)' /\ started'[s] = 0
    BY <1>2, <2>1, <2>2, <2>3 DEF PlacesOK
  <2>5. \A s \in SubTasks : Enqueued(s)' => ~AtWork(s)' /\ started'[s] = 0
    BY <2>1, <2>2, <2>3 DEF PlacesOK
  <2>6. \A u, v \in Workers : job'[u] # None /\ job'[u] = job'[v] => u = v
    BY <2>2, <2>3 DEF PlacesOK, AtWork
  <2>7. \A v \in Workers : /\ wpc'[v] \in {"idle", "exited"} => job'[v] = None
                           /\ wpc'[v] \in Scanning => started'[job'[v]] = 0
                           /\ wpc'[v] \in {"running", "post"} => started'[job'[v]] > 0
                           /\ wpc'[v] = "running" => fn'[job'[v]] = "none"
    BY <2>1, <2>2, <2>3 DEF PlacesOK
  <2> QED BY <1>1, <2>1, <2>2, <2>4, <2>5, <2>6, <2>7 DEF PlacesOK
<1>4. CASE StartFunction(w)
  <2>1. PICK s \in SubTasks : s = job[w] BY <1>4, StartMoves
  <2>2. /\ wpc[w] = "deps" /\ wpc'[w] = "running" /\ job' = job
        /\ \A v \in Workers \ {w} : wpc'[v] = wpc[v]
        /\ started'[s] = started[s] + 1
        /\ \A t \in SubTasks \ {s} : started'[t] = started[t]
        /\ UNCHANGED <<ring, ready_subtasks, fn>>
    BY <1>4, <2>1, StartMoves
  <2>3. /\ started[s] = 0 /\ fn[s] = "none" /\ ~Queued(s) /\ ~Enqueued(s)
    BY <2>1, <2>2 DEF PlacesOK, AtWork, Scanning
  <2>4. \A t \in SubTasks : (Enqueued(t)' <=> Enqueued(t)) /\ (AtWork(t)' <=> AtWork(t))
    BY <2>2 DEF Enqueued, AtWork
  <2>5. \A v \in Workers \ {w} : job[v] # s BY <1>0, <2>1 DEF PlacesOK
  <2>6. \A v \in Workers : /\ wpc'[v] \in {"idle", "exited"} => job'[v] = None
                           /\ wpc'[v] \in Scanning => started'[job'[v]] = 0
                           /\ wpc'[v] \in {"running", "post"} => started'[job'[v]] > 0
                           /\ wpc'[v] = "running" => fn'[job'[v]] = "none"
    BY <1>0, <2>1, <2>2, <2>3, <2>5 DEF PlacesOK, Scanning
  <2>7. \A t \in SubTasks : started'[t] = 0 => fn'[t] = "none"
    BY <1>0, <2>2, <2>3 DEF PlacesOK
  <2>8. \A t \in SubTasks : /\ Queued(t)' => ~Enqueued(t)' /\ ~AtWork(t)' /\ started'[t] = 0
                            /\ Enqueued(t)' => ~AtWork(t)' /\ started'[t] = 0
    BY <1>2, <2>2, <2>3, <2>4 DEF PlacesOK
  <2> QED BY <2>2, <2>6, <2>7, <2>8 DEF PlacesOK
<1>5. CASE FinishFunction(w)
  <2>1. PICK s \in SubTasks : s = job[w] BY <1>5, FinishMoves
  <2>2. /\ wpc[w] = "running" /\ wpc'[w] = "post" /\ job' = job
        /\ \A v \in Workers \ {w} : wpc'[v] = wpc[v]
        /\ \A t \in SubTasks \ {s} : fn'[t] = fn[t]
        /\ UNCHANGED <<ring, ready_subtasks, started>>
    BY <1>5, <2>1, FinishMoves
  <2>3. started[s] > 0 BY <2>1, <2>2 DEF PlacesOK
  <2>4. \A t \in SubTasks : (Enqueued(t)' <=> Enqueued(t)) /\ (AtWork(t)' <=> AtWork(t))
    BY <2>2 DEF Enqueued, AtWork
  <2>5. \A v \in Workers \ {w} : job[v] # s BY <1>0, <2>1 DEF PlacesOK
  <2>6. \A v \in Workers : /\ wpc'[v] \in {"idle", "exited"} => job'[v] = None
                           /\ wpc'[v] \in Scanning => started'[job'[v]] = 0
                           /\ wpc'[v] \in {"running", "post"} => started'[job'[v]] > 0
                           /\ wpc'[v] = "running" => fn'[job'[v]] = "none"
    BY <1>0, <2>1, <2>2, <2>3, <2>5 DEF PlacesOK, Scanning
  <2>7. \A t \in SubTasks : started'[t] = 0 => fn'[t] = "none"
    BY <1>0, <2>2, <2>3 DEF PlacesOK
  <2> QED BY <1>2, <2>2, <2>4, <2>6, <2>7 DEF PlacesOK
<1>6. CASE ~Pop(w) /\ ~StartFunction(w) /\ ~FinishFunction(w)
  <2>1. /\ \A v \in Workers \ {w} : wpc'[v] = wpc[v] /\ job'[v] = job[v]
        /\ UNCHANGED <<ring, started, fn>>
        /\ \/ /\ job'[w] = job[w]
              /\ wpc'[w] \in {"idle", "exited"} => wpc[w] \in {"idle", "exited"}
              /\ wpc'[w] \in Scanning => wpc[w] \in Scanning
              /\ wpc'[w] \in {"running", "post"} => wpc'[w] = wpc[w]
           \/ wpc'[w] = "idle" /\ job'[w] = None
    BY <1>6, WorkerMoves
  <2>2. \A t \in SubTasks : (Enqueued(t)' <=> Enqueued(t)) /\ (AtWork(t)' => AtWork(t))
    BY <1>0, <2>1 DEF Enqueued, AtWork
  <2>3. \A v \in Workers : /\ wpc'[v] \in {"idle", "exited"} => job'[v] = None
                           /\ wpc'[v] \in Scanning => started'[job'[v]] = 0
                           /\ wpc'[v] \in {"running", "post"} => started'[job'[v]] > 0
                           /\ wpc'[v] = "running" => fn'[job'[v]] = "none"
    BY <2>1 DEF PlacesOK, Scanning
  <2>4. \A u, v \in Workers : job'[u] # None /\ job'[u] = job'[v] => u = v
    BY <2>1 DEF PlacesOK
  <2> QED BY <1>1, <1>2, <2>1, <2>2, <2>3, <2>4 DEF PlacesOK
<1> QED BY <1>3, <1>4, <1>5, <1>6

\* The loop takes a subtask from the front of a queue and puts it at the end of the ring.
LEMMA DispatchMoves ==
  ASSUME PriorityInv, PlacesOK, NEW p \in Priorities, Dispatch(p)
  PROVE  \E h \in SubTasks :
           /\ Queued(h)
           /\ \A r \in Priorities : \A i, j \in DOMAIN ready_subtasks'[r] :
                ready_subtasks'[r][i] = ready_subtasks'[r][j] => i = j
           /\ \A i, j \in DOMAIN ring' : ring'[i] = ring'[j] => i = j
           /\ \A s \in SubTasks : Queued(s)' => Queued(s) /\ s # h
           /\ \A s \in SubTasks : Enqueued(s)' => Enqueued(s) \/ s = h
<1>0. TypeInv BY DEF PriorityInv
<1>1. PICK q \in Seq(SubTasks) : q = ready_subtasks[p] /\ q # <<>>
  BY <1>0 DEF Dispatch, ScanIsAt, TypeInv, QueuesOK
<1>2. PICK g \in Seq(SubTasks) : g = ring BY <1>0 DEF TypeInv, QueuesOK
<1>3. /\ ready_subtasks'[p] = Tail(q) /\ ring' = Append(g, Head(q))
      /\ \A r \in Priorities \ {p} : ready_subtasks'[r] = ready_subtasks[r]
  BY <1>0, <1>1, <1>2 DEF Dispatch, TypeInv, QueuesOK
<1>4. Head(q) \in SubTasks /\ Head(q) = q[1] /\ 1 \in DOMAIN q BY <1>1
<1>5. Queued(Head(q)) BY <1>1, <1>4 DEF Queued
<1>6. \A i \in DOMAIN Tail(q) : i + 1 \in DOMAIN q /\ Tail(q)[i] = q[i + 1] /\ i \in Nat \ {0}
  BY <1>1
<1>7. \A i, j \in DOMAIN q : q[i] = q[j] => i = j BY <1>1 DEF PlacesOK
<1>8. \A i, j \in DOMAIN Tail(q) : Tail(q)[i] = Tail(q)[j] => i = j
  <2>1. \A i, j \in Nat : i + 1 = j + 1 => i = j OBVIOUS
  <2> QED BY <1>6, <1>7, <2>1
<1>9. \A i \in DOMAIN Tail(q) : Tail(q)[i] # q[1]
  <2>1. \A i \in Nat \ {0} : i + 1 # 1 OBVIOUS
  <2> QED BY <1>4, <1>6, <1>7, <2>1
<1>10. \A r \in Priorities \ {p} : \A i \in DOMAIN ready_subtasks[r] :
         ready_subtasks[r][i] # Head(q)
  BY <1>1, <1>4 DEF PriorityInv, ReadyAtPriority
<1>11. \A r \in Priorities : \A i, j \in DOMAIN ready_subtasks'[r] :
         ready_subtasks'[r][i] = ready_subtasks'[r][j] => i = j
  <2> SUFFICES ASSUME NEW r \in Priorities, NEW i \in DOMAIN ready_subtasks'[r],
                      NEW j \in DOMAIN ready_subtasks'[r],
                      ready_subtasks'[r][i] = ready_subtasks'[r][j]
               PROVE  i = j
    OBVIOUS
  <2>1. CASE r = p BY <1>3, <1>8, <2>1
  <2>2. CASE r # p BY <1>3, <2>2 DEF PlacesOK
  <2> QED BY <2>1, <2>2
<1>12. ASSUME NEW s \in SubTasks, Queued(s)' PROVE Queued(s) /\ s # Head(q)
  <2>1. PICK r \in Priorities : \E i \in DOMAIN ready_subtasks'[r] : ready_subtasks'[r][i] = s
    BY <1>12 DEF Queued
  <2>2. CASE r = p
    <3>1. PICK i \in DOMAIN Tail(q) : Tail(q)[i] = s BY <1>3, <2>1, <2>2
    <3>2. i + 1 \in DOMAIN q /\ q[i + 1] = s /\ s # Head(q) BY <1>4, <1>6, <1>9, <3>1
    <3> QED BY <1>1, <3>2 DEF Queued
  <2>3. CASE r # p BY <1>3, <1>10, <2>1, <2>3 DEF Queued
  <2> QED BY <2>2, <2>3
<1>13. \A i \in DOMAIN Append(g, Head(q)) :
         \/ i \in DOMAIN g /\ Append(g, Head(q))[i] = g[i]
         \/ i = Len(g) + 1 /\ Append(g, Head(q))[i] = Head(q)
  BY <1>4
<1>14. \A i \in DOMAIN g : g[i] # Head(q) BY <1>2, <1>4, <1>5 DEF PlacesOK, Enqueued
<1>15. \A i, j \in DOMAIN Append(g, Head(q)) :
         Append(g, Head(q))[i] = Append(g, Head(q))[j] => i = j
  <2>1. \A i, j \in DOMAIN g : g[i] = g[j] => i = j BY <1>2 DEF PlacesOK
  <2> QED BY <1>13, <1>14, <2>1
<1>16. \A s \in SubTasks : Enqueued(s)' => Enqueued(s) \/ s = Head(q)
  BY <1>2, <1>3, <1>13 DEF Enqueued
<1> QED BY <1>3, <1>4, <1>5, <1>11, <1>12, <1>15, <1>16

\* The other steps of the loop leave the queues alone.
LEMMA LoopQuiet ==
  ASSUME LoopStep, ~\E p \in Priorities : Dispatch(p) PROVE UNCHANGED <<ready_subtasks, ring>>
BY DEF LoopStep, TestRunning, PendingReady, PendingWaiting, PendingSubTasks, LoopLock,
   LoopUnlock, queueVars

\* The loop moves a subtask from its queue to the ring (lines 177-183).
LEMMA LoopStepPlaces ==
  ASSUME PriorityInv, PlacesOK, LoopStep PROVE PlacesOK'
<1>1. UNCHANGED <<wpc, job, fn, started>> BY LoopFrame DEF workerVars, histVars
<1>2. \A s \in SubTasks : AtWork(s)' <=> AtWork(s) BY <1>1 DEF AtWork
<1>3. ASSUME NEW p \in Priorities, Dispatch(p) PROVE PlacesOK'
  <2>1. PICK h \in SubTasks :
          /\ Queued(h)
          /\ \A r \in Priorities : \A i, j \in DOMAIN ready_subtasks'[r] :
               ready_subtasks'[r][i] = ready_subtasks'[r][j] => i = j
          /\ \A i, j \in DOMAIN ring' : ring'[i] = ring'[j] => i = j
          /\ \A s \in SubTasks : Queued(s)' => Queued(s) /\ s # h
          /\ \A s \in SubTasks : Enqueued(s)' => Enqueued(s) \/ s = h
    BY <1>3, DispatchMoves
  <2>2. ~AtWork(h) /\ started[h] = 0 BY <2>1 DEF PlacesOK
  <2>3. \A s \in SubTasks : /\ Queued(s)' => ~Enqueued(s)' /\ ~AtWork(s)' /\ started'[s] = 0
                            /\ Enqueued(s)' => ~AtWork(s)' /\ started'[s] = 0
    BY <1>1, <1>2, <2>1, <2>2 DEF PlacesOK
  <2> QED BY <1>1, <2>1, <2>3 DEF PlacesOK
<1>4. CASE ~\E p \in Priorities : Dispatch(p)
  <2>1. UNCHANGED <<ready_subtasks, ring>> BY <1>4, LoopQuiet
  <2>2. \A s \in SubTasks : (Queued(s)' <=> Queued(s)) /\ (Enqueued(s)' <=> Enqueued(s))
    BY <2>1 DEF Queued, Enqueued
  <2> QED BY <1>1, <1>2, <2>1, <2>2 DEF PlacesOK
<1> QED BY <1>3, <1>4

\* It puts no subtask anywhere that was not somewhere.
LEMMA LoopStepPush ==
  ASSUME PriorityInv, FilledOK, PushOK, PlacesOK, LoopStep PROVE FilledOK' /\ PushOK'
<1>1. UNCHANGED <<cpc, call, main_task_id, ready_count, job, started>>
  BY LoopFrame
  DEF clientVars, taskVars, subVars, subFields, mainVars, counts, workerVars, histVars
<1>2. ASSUME NEW s \in SubTasks, Present(s)' PROVE Present(s)
  <2>1. ASSUME NEW p \in Priorities, Dispatch(p) PROVE Present(s)
    BY <1>1, <1>2, <2>1, DispatchMoves DEF Present, AtWork
  <2>2. CASE ~\E p \in Priorities : Dispatch(p)
    BY <1>1, <1>2, <2>2, LoopQuiet DEF Present, AtWork, Queued, Enqueued
  <2> QED BY <2>1, <2>2
<1>3. \A s \in SubTasks : Beyond(s, Unappended)' <=> Beyond(s, Unappended)
  BY <1>1 DEF Beyond
<1> QED BY <1>1, <1>2, <1>3 DEF FilledOK, Filled, PushOK

\* It leaves the lists alone.
LEMMA LoopStepMembers ==
  ASSUME MembersOK, TypeInv, LoopStep PROVE MembersOK'
<1>1. UNCHANGED <<clientVars, main_task_id, main_to_subtasks>>
  BY LoopFrame DEF taskVars, subVars, subFields, mainVars, mainMaps
<1>2. \A m \in MainTasks : \A i \in DOMAIN main_to_subtasks[m] :
        main_to_subtasks[m][i] \in SubTasks
  BY DEF TypeInv, MapsOK
<1>3. \A s \in SubTasks : Beyond(s, Unappended)' <=> Beyond(s, Unappended) BY <1>1, BeyondSame
<1> QED BY <1>1, <1>2, <1>3 DEF MembersOK

-----------------------------------------------------------------------------
(* What is accepted. *)

\* A step of client c, as the submissions see it: a call of addSubTask begins, ends, or goes on.
Submits(c) ==
  \/ \E s \in SubTasks : /\ call'[c] = s /\ cpc'[c] = "as_name" /\ call[c] \notin SubTasks
                         /\ outcome[s] = "unissued" /\ outcome'[s] = "open"
                         /\ \A t \in SubTasks \ {s} : outcome'[t] = outcome[t]
  \/ /\ call'[c] = call[c]
     /\ cpc[c] \in AddingSub => cpc'[c] \in AddingSub
     /\ \A t \in SubTasks : \/ outcome'[t] = outcome[t]
                            \/ outcome[t] = "unissued" /\ outcome'[t] = "not_found"
  \/ /\ call[c] \in SubTasks /\ call'[c] = None
     /\ CountReady(c) \/ LeaveWaiting(c)
     /\ outcome'[call[c]] = "done"
     /\ \A t \in SubTasks \ {call[c]} : outcome'[t] = outcome[t]
  \/ /\ call[c] \notin SubTasks /\ call'[c] \notin SubTasks
     /\ \A t \in SubTasks : outcome'[t] = outcome[t]

\* Every step of a client is seen so.
LEMMA ClientSubmits ==
  ASSUME TypeInv, AcceptedOK, NEW c \in Clients, ClientStep(c) PROVE Submits(c)
<1>0. /\ None \notin SubTasks /\ \A s \in SubTasks : s \in Calls
      /\ SubTasks \cap (MainTasks \cup Fetches \cup Starts \cup Stops \cup Exits) = {}
  BY ConstantsAssumption, KindsAssumption DEF Calls
<1>1. /\ cpc \in [Clients -> ClientSteps] /\ call \in [Clients -> Calls \cup {None}]
      /\ outcome \in [Calls -> Outcomes]
  BY DEF TypeInv, ClientInv, ClientsOK
<1>2. cpc[c] \notin AddingSub => call[c] \notin SubTasks BY DEF AcceptedOK
<1>3. ASSUME NEW k \in Calls \ SubTasks, NEW l, NEW s, Enter(c, k, l, s), cpc[c] = "idle"
      PROVE  Submits(c)
  BY <1>1, <1>2, <1>3 DEF Enter, AddingSub, Submits
<1>4. ASSUME NEW k \in Calls \ SubTasks, NEW o, Immediately(k, o) PROVE Submits(c)
  BY <1>0, <1>1, <1>4 DEF Immediately, clientVars, Submits
<1>5. ASSUME NEW o, Return(c, o), cpc[c] \notin AddingSub PROVE Submits(c)
  BY <1>0, <1>1, <1>2, <1>5 DEF Return, Submits
<1>6. ASSUME Return(c, "done"), CountReady(c) \/ LeaveWaiting(c) PROVE Submits(c)
  <2>1. call[c] \in SubTasks /\ outcome[call[c]] = "open"
    BY <1>6 DEF CountReady, LeaveWaiting, CAt, TypeInv, ClientInv, ClientShape, AddingSub,
                AcceptedOK
  <2>2. /\ call'[c] = None /\ outcome'[call[c]] = "done"
        /\ \A t \in SubTasks \ {call[c]} : outcome'[t] = outcome[t]
    BY <1>0, <1>1, <1>6, <2>1 DEF Return
  <2> QED BY <1>6, <2>1, <2>2 DEF Submits
<1>7. ASSUME NEW l, CGoto(c, l), UNCHANGED outcome, cpc[c] \in AddingSub => l \in AddingSub
      PROVE  Submits(c)
  BY <1>1, <1>7 DEF CGoto, Submits
<1>8. CASE UNCHANGED <<clientVars, outcome>> BY <1>8 DEF clientVars, Submits
<1>9. ASSUME NEW m \in MainTasks, AddMainTask(c, m) PROVE Submits(c)
  BY <1>0, <1>3, <1>9 DEF AddMainTask, MayCall, CAt, Calls
<1>10. CASE EnterWaiting(c) BY <1>7, <1>10 DEF EnterWaiting, CAt, AddingSub
<1>11. CASE InsertMain(c) BY <1>5, <1>11 DEF InsertMain, CAt, AddingSub
<1>12. ASSUME NEW s \in SubTasks, AddSubTask(c, s) PROVE Submits(c)
  <2>1. cpc[c] = "idle" /\ outcome[s] = "unissued" BY <1>12 DEF AddSubTask, MayCall, CAt
  <2>2. CASE Enter(c, s, "as_name", None)
    BY <1>0, <1>1, <1>2, <2>1, <2>2 DEF Enter, AddingSub, Submits
  <2>3. CASE Immediately(s, "not_found")
    BY <1>0, <1>1, <2>1, <2>3 DEF Immediately, clientVars, Submits
  <2> QED BY <1>12, <2>2, <2>3 DEF AddSubTask
<1>13. CASE NameSubTask(c) BY <1>7, <1>13 DEF NameSubTask, AddingSub
<1>14. CASE InsertSubTask(c) BY <1>7, <1>14 DEF InsertSubTask, AddingSub
<1>15. CASE AppendMember(c) BY <1>7, <1>15 DEF AppendMember, AddingSub
<1>16. CASE EmplaceSlot(c) BY <1>7, <1>16 DEF EmplaceSlot, AddingSub
<1>17. CASE FetchMain(c) BY <1>7, <1>8, <1>17 DEF FetchMain, AddingSub
<1>18. CASE CountReady(c) BY <1>6, <1>7, <1>18 DEF CountReady, AddingSub
<1>19. CASE LockReady(c) BY <1>7, <1>19 DEF LockReady, AddingSub
<1>20. CASE PushMembers(c) BY <1>7, <1>8, <1>20 DEF PushMembers, AddingSub
<1>21. CASE LeaveWaiting(c) BY <1>6, <1>21 DEF LeaveWaiting
<1>22. ASSUME NEW f \in Fetches, GetSubTaskResult(c, f) PROVE Submits(c)
  BY <1>0, <1>3, <1>4, <1>22 DEF GetSubTaskResult, MayCall, CAt, Calls
<1>23. CASE FindSlot(c) BY <1>5, <1>7, <1>23 DEF FindSlot, CAt, AddingSub
<1>24. CASE WaitSlot(c) BY <1>7, <1>24 DEF WaitSlot, CAt, AddingSub
<1>25. CASE TakeResult(c)
  <2>1. call[c] \notin SubTasks BY <1>2, <1>25 DEF TakeResult, CAt, AddingSub
  <2>2. \A t \in SubTasks : outcome'[t] = outcome[t] BY <1>0, <1>1, <1>25, <2>1 DEF TakeResult
  <2>3. call' = call BY <1>25 DEF TakeResult, CGoto
  <2> QED BY <2>1, <2>2, <2>3 DEF Submits
<1>26. CASE EraseName(c) BY <1>7, <1>26 DEF EraseName, CAt, AddingSub
<1>27. CASE EraseSubTask(c) BY <1>5, <1>27 DEF EraseSubTask, CAt, AddingSub
<1>28. ASSUME NEW k \in Starts, Start(c, k) PROVE Submits(c)
  BY <1>0, <1>3, <1>28 DEF Start, MayCall, CAt, Calls
<1>29. CASE LaunchLoop(c) BY <1>5, <1>8, <1>29 DEF LaunchLoop, CAt, AddingSub
<1>30. ASSUME NEW k \in Stops \cup Exits, Stop(c, k) PROVE Submits(c)
  BY <1>0, <1>3, <1>30 DEF Stop, MayCall, CAt, Calls
<1>31. CASE TestJoinable(c) BY <1>5, <1>7, <1>31 DEF TestJoinable, AfterJoin, CAt, AddingSub
<1>32. CASE EnterJoin(c) BY <1>5, <1>7, <1>32 DEF EnterJoin, CAt, AddingSub
<1>33. CASE Join(c) BY <1>5, <1>7, <1>8, <1>33 DEF Join, AfterJoin, CAt, AddingSub
<1>34. CASE DestroyMutexes(c) BY <1>7, <1>34 DEF DestroyMutexes, CAt, AddingSub
<1>35. CASE StopPool(c) BY <1>7, <1>35 DEF StopPool, CAt, AddingSub
<1>36. CASE JoinPool(c) BY <1>5, <1>36 DEF JoinPool, CAt, AddingSub
<1> QED
  BY <1>9, <1>10, <1>11, <1>12, <1>13, <1>14, <1>15, <1>16, <1>17, <1>18, <1>19, <1>20, <1>21,
     <1>22, <1>23, <1>24, <1>25, <1>26, <1>27, <1>28, <1>29, <1>30, <1>31, <1>32, <1>33, <1>34,
     <1>35, <1>36
  DEF ClientStep

\* When the call that pushed the list of m returns, all subtasks of m have been accepted.
LEMMA LastAccepted ==
  ASSUME PriorityInv, DependencyInv, PushOK, HeldOK, AcceptedOK, PlacesOK,
         NEW c \in Clients, LeaveWaiting(c), NEW s \in SubTasks, Queued(s),
         main_task_id[call[c]] = main_task_id[s], NEW t \in Siblings(s)
  PROVE  Accepted(t) \/ t = call[c]
<1>0. TypeInv /\ t \in SubTasks BY DEF PriorityInv, Siblings
<1>1. /\ cpc[c] = "as_release" /\ None \notin MainTasks /\ None \notin SubTasks
  BY ConstantsAssumption DEF LeaveWaiting, CAt, Calls
<1>2. Released(s) BY <1>0, PresentReleased DEF Present
<1>3. PICK m \in MainTasks : m = main_task_id[s] BY <1>2 DEF Released
<1>4. MainTaskName[t] = MainName[m]
  BY <1>1, <1>3 DEF Siblings, DependencyInv, CountsOK
<1>5. main_task_id[t] = m /\ Beyond(t, Uncounted) BY <1>0, <1>2, <1>3, <1>4 DEF Released, Complete
<1>6. ASSUME NEW d \in Clients, call[d] = t PROVE d = c
  <2>1. cpc[d] \in AddingSub /\ cpc[d] \notin Uncounted
    BY <1>0, <1>5, <1>6 DEF AcceptedOK, Beyond
  <2>2. CASE cpc[d] \in Pushing
    BY <1>3, <1>5, <1>6, <2>2 DEF PushOK, Present
  <2>3. CASE cpc[d] = "as_release" BY <1>1, <2>3 DEF HeldOK
  <2> QED BY <2>1, <2>2, <2>3 DEF AddingSub, Uncounted, Pushing
<1> QED BY <1>0, <1>1, <1>3, <1>5, <1>6 DEF AcceptedOK

\* The list of a main task is released when all calls that submitted to it have returned or
\* hold ready_mutex.
LEMMA ClientStepAccepted ==
  ASSUME PriorityInv, DependencyInv, PushOK, PlacesOK, HeldOK, AcceptedOK, IdsStay,
         NEW c \in Clients, ClientStep(c)
  PROVE  AcceptedOK'
<1>0. /\ TypeInv /\ None \notin SubTasks /\ None \notin MainTasks
      /\ \A d \in Clients : call[d] \in Calls \cup {None}
  BY ConstantsAssumption DEF PriorityInv, TypeInv, ClientInv, ClientsOK, Calls
<1>1. \A d \in Clients \ {c} : cpc'[d] = cpc[d] /\ call'[d] = call[d]
  BY <1>0, ClientMoves DEF Moves
<1>2. Submits(c) BY <1>0, ClientSubmits
<1>3. \A d \in Clients \ {c} : call[d] \in SubTasks =>
        outcome'[call[d]] = outcome[call[d]] /\ outcome[call[d]] = "open" /\ call[d] # call[c]
  <2> SUFFICES ASSUME NEW d \in Clients \ {c}, call[d] \in SubTasks
               PROVE  /\ outcome'[call[d]] = outcome[call[d]] /\ outcome[call[d]] = "open"
                      /\ call[d] # call[c]
    OBVIOUS
  <2>1. outcome[call[d]] = "open" BY DEF AcceptedOK
  <2>2. call[d] # call[c] BY <1>0 DEF DependencyInv, CallsOK
  <2> QED BY <1>2, <2>1, <2>2 DEF Submits
<1>4. \A d \in Clients : call'[d] \in SubTasks =>
        cpc'[d] \in AddingSub /\ outcome'[call'[d]] = "open"
  <2>1. "as_name" \in AddingSub BY DEF AddingSub
  <2>2. call'[c] \in SubTasks => cpc'[c] \in AddingSub /\ outcome'[call'[c]] = "open"
    BY <1>0, <1>2, <2>1 DEF Submits, AcceptedOK
  <2> QED BY <1>1, <1>3, <2>2 DEF AcceptedOK
<1>5. \A t \in SubTasks : Accepted(t) => Accepted(t)' BY <1>0, <1>2 DEF Accepted, Submits
<1>6. ASSUME NEW s \in SubTasks, main_task_id'[s] # None
      PROVE  Accepted(s)' \/ \E d \in Clients : call'[d] = s
  <2>1. CASE main_task_id[s] = None BY <1>6, <2>1 DEF IdsStay
  <2>2. CASE main_task_id[s] # None /\ Accepted(s) BY <1>5, <2>2
  <2>3. ASSUME NEW d \in Clients, call[d] = s PROVE Accepted(s)' \/ \E e \in Clients : call'[e] = s
    BY <1>0, <1>1, <1>2, <2>3 DEF Accepted, Submits
  <2> QED BY <1>6, <2>1, <2>2, <2>3 DEF AcceptedOK
<1>7. ASSUME NEW s \in SubTasks, AllAccepted(s) PROVE AllAccepted(s)'
  BY <1>5, <1>7 DEF AllAccepted, Siblings
<1>8. ASSUME NEW s \in SubTasks, Enqueued(s)' \/ AtWork(s)' PROVE AllAccepted(s)'
  BY <1>7, <1>8, ClientFrame DEF AcceptedOK, Enqueued, AtWork, workerVars
<1>9. ASSUME NEW s \in SubTasks, Queued(s)'
      PROVE  \/ AllAccepted(s)'
             \/ \E d \in Clients : /\ cpc'[d] = "as_release"
                                   /\ main_task_id'[call'[d]] = main_task_id'[s]
  <2>1. CASE ~Queued(s)
    <3>1. ready_subtasks' # ready_subtasks BY <1>9, <2>1, ClientPlaces
    <3>2. PushMembers(c) BY <1>0, <3>1, QuietStep, ListingStep
    <3>3. PICK m \in MainTasks : Pushes(c, m) BY <3>1, <3>2, PushMoves
    <3>4. /\ m = main_task_id[call[c]] /\ cpc'[c] = "as_release"
          /\ \A t \in SubTasks : Queued(t)' => Queued(t) \/ main_task_id[t] = m
      BY <3>3 DEF Pushes
    <3>5. UNCHANGED <<main_task_id, call>> BY <1>0, <3>2, ListingStep DEF Listing
    <3> QED BY <1>9, <2>1, <3>4, <3>5
  <2>2. CASE Queued(s) /\ AllAccepted(s) BY <1>7, <2>2
  <2>3. ASSUME Queued(s), NEW d \in Clients, cpc[d] = "as_release",
               main_task_id[call[d]] = main_task_id[s]
        PROVE  \/ AllAccepted(s)'
               \/ \E e \in Clients : /\ cpc'[e] = "as_release"
                                     /\ main_task_id'[call'[e]] = main_task_id'[s]
    <3>1. /\ call[d] \in SubTasks /\ main_task_id[call[d]] \in MainTasks
      BY <1>0, <2>3 DEF TypeInv, ClientInv, ClientShape, AddingSub
    <3>2. /\ main_task_id'[call[d]] = main_task_id[call[d]]
          /\ main_task_id'[s] = main_task_id[s]
      BY <1>0, <2>3, <3>1 DEF IdsStay
    <3>3. CASE d # c BY <1>1, <2>3, <3>2, <3>3
    <3>4. CASE d = c /\ LeaveWaiting(c)
      <4>1. outcome'[call[c]] = "done"
        BY <1>0, <2>3, <3>1, <3>4
           DEF LeaveWaiting, Return, AcceptedOK, TypeInv, ClientInv, ClientsOK
      <4>2. \A t \in Siblings(s) : Accepted(t) \/ t = call[c] BY <2>3, <3>4, LastAccepted
      <4>3. \A t \in Siblings(s) : Accepted(t)'
        BY <1>5, <4>1, <4>2 DEF Accepted, Siblings
      <4> QED BY <4>3 DEF AllAccepted, Siblings
    <3>5. CASE d = c /\ ~LeaveWaiting(c)
      <4>1. CASE Listing(c) BY <1>0, <2>3, <3>5, <4>1, ListingStep DEF Listing
      <4>2. CASE ~Listing(c) BY <1>0, <2>3, <3>5, <4>2, QuietStep DEF Late
      <4> QED BY <4>1, <4>2
    <3> QED BY <3>3, <3>4, <3>5
  <2> QED BY <2>1, <2>2, <2>3 DEF AcceptedOK
<1> QED BY <1>4, <1>6, <1>8, <1>9 DEF AcceptedOK

\* A worker takes subtasks from the ring only.
LEMMA WorkerStepAccepted ==
  ASSUME TypeInv, PlacesOK, AcceptedOK, NEW w \in Workers, WorkerStep(w) PROVE AcceptedOK'
<1>0. None \notin SubTasks BY ConstantsAssumption DEF Calls
<1>1. UNCHANGED <<cpc, call, outcome, main_task_id, ready_subtasks>>
  BY WorkerFrame DEF clientVars
<1>2. \A s \in SubTasks : /\ Queued(s)' <=> Queued(s)
                          /\ AllAccepted(s)' <=> AllAccepted(s)
                          /\ Accepted(s)' <=> Accepted(s)
  BY <1>1 DEF Queued, AllAccepted, Accepted, Siblings
<1>3. ASSUME NEW s \in SubTasks, Enqueued(s)' \/ AtWork(s)' PROVE Enqueued(s) \/ AtWork(s)
  <2>1. CASE Pop(w) BY <1>3, <2>1, PopMoves
  <2>2. CASE StartFunction(w) \/ FinishFunction(w)
    BY <1>3, <2>2, StartMoves, FinishMoves DEF AtWork, Enqueued
  <2>3. CASE ~Pop(w) /\ ~StartFunction(w) /\ ~FinishFunction(w)
    BY <1>0, <1>3, <2>3, WorkerMoves DEF AtWork, Enqueued
  <2> QED BY <2>1, <2>2, <2>3
<1> QED BY <1>1, <1>2, <1>3 DEF AcceptedOK

\* When the loop holds ready_mutex, the call that pushed a list has returned.
LEMMA LoopStepAccepted ==
  ASSUME PriorityInv, PlacesOK, HeldOK, AcceptedOK, LoopStep PROVE AcceptedOK'
<1>0. "loop" \notin Clients BY ConstantsAssumption
<1>1. UNCHANGED <<cpc, call, outcome, main_task_id, job>>
  BY LoopFrame DEF clientVars, taskVars, subVars, subFields, workerVars
<1>2. \A s \in SubTasks : /\ AtWork(s)' <=> AtWork(s)
                          /\ AllAccepted(s)' <=> AllAccepted(s)
                          /\ Accepted(s)' <=> Accepted(s)
  BY <1>1 DEF AtWork, AllAccepted, Accepted, Siblings
<1>3. ASSUME NEW p \in Priorities, Dispatch(p) PROVE AcceptedOK'
  <2>1. PICK h \in SubTasks :
          /\ Queued(h)
          /\ \A s \in SubTasks : Queued(s)' => Queued(s) /\ s # h
          /\ \A s \in SubTasks : Enqueued(s)' => Enqueued(s) \/ s = h
    BY <1>3, DispatchMoves
  <2>2. \A c \in Clients : cpc[c] # "as_release" BY <1>0, <1>3 DEF Dispatch, LAt, HeldOK
  <2>3. AllAccepted(h) BY <2>1, <2>2 DEF AcceptedOK
  <2> QED BY <1>1, <1>2, <2>1, <2>3 DEF AcceptedOK
<1>4. CASE ~\E p \in Priorities : Dispatch(p)
  <2>1. UNCHANGED <<ready_subtasks, ring>> BY <1>4, LoopQuiet
  <2>2. \A s \in SubTasks : (Queued(s)' <=> Queued(s)) /\ (Enqueued(s)' <=> Enqueued(s))
    BY <2>1 DEF Queued, Enqueued
  <2> QED BY <1>1, <1>2, <2>2 DEF AcceptedOK
<1> QED BY <1>3, <1>4

-----------------------------------------------------------------------------
(* The results. *)

\* The steps of a client that neither take the post of a result nor the result.
LEMMA FetchMoves ==
  ASSUME TypeInv, CallsOK, ResultOK, NEW c \in Clients, ClientStep(c),
         ~WaitSlot(c), ~TakeResult(c)
  PROVE  /\ UNCHANGED <<semaphore, slot>>
         /\ cpc[c] # "gr_take" /\ cpc'[c] # "gr_take"
         /\ cpc'[c] \in {"gr_slot", "gr_wait"} => outcome'[call'[c]] = "open"
         /\ \A k \in Calls : \/ outcome'[k] = outcome[k]
                             \/ /\ outcome[k] \notin Slots /\ outcome'[k] \notin Slots
                                /\ outcome[k] = "unissued" \/ k = call[c]
<1>0. /\ cpc \in [Clients -> ClientSteps] /\ call \in [Clients -> Calls \cup {None}]
      /\ outcome \in [Calls -> Outcomes]
  BY DEF TypeInv, ClientInv, ClientsOK
<1>1. UNCHANGED <<semaphore, slot>>
  BY DEF ClientStep, AddMainTask, EnterWaiting, InsertMain, AddSubTask, NameSubTask,
     InsertSubTask, AppendMember, EmplaceSlot, FetchMain, CountReady, LockReady, PushMembers,
     LeaveWaiting, GetSubTaskResult, FindSlot, EraseName, EraseSubTask,
     Start, LaunchLoop, Stop, TestJoinable, EnterJoin, Join, DestroyMutexes, StopPool,
     JoinPool, taskVars, subVars, subFields
<1>2. cpc[c] # "gr_take"
  BY DEF ClientStep, AddMainTask, EnterWaiting, InsertMain, AddSubTask, NameSubTask,
     InsertSubTask, AppendMember, EmplaceSlot, FetchMain, CountReady, LockReady, PushMembers,
     LeaveWaiting, GetSubTaskResult, FindSlot, EraseName, EraseSubTask,
     Start, LaunchLoop, Stop, TestJoinable, EnterJoin, Join, DestroyMutexes, StopPool,
     JoinPool, MayCall, CAt
<1> DEFINE Quiet == \A k \in Calls : \/ outcome'[k] = outcome[k]
                                     \/ /\ outcome[k] \notin Slots /\ outcome'[k] \notin Slots
                                        /\ outcome[k] = "unissued" \/ k = call[c]
           Open  == cpc'[c] \in {"gr_slot", "gr_wait"} => outcome'[call'[c]] = "open"
           Goal  == cpc'[c] # "gr_take" /\ Open /\ Quiet
<1> SUFFICES Goal BY <1>1, <1>2
<1>3. ASSUME NEW k \in Calls, NEW l, NEW s, Enter(c, k, l, s), outcome[k] = "unissued",
             l # "gr_take"
      PROVE  Goal
  BY <1>0, <1>3 DEF Enter, Slots
<1>4. ASSUME NEW k \in Calls, Immediately(k, "not_found"), outcome[k] = "unissued",
             cpc[c] = "idle"
      PROVE  Goal
  BY <1>0, <1>4 DEF Immediately, clientVars, Slots
<1>5. ASSUME NEW o \in {"done", "not_found", "not_joinable"}, Return(c, o) PROVE Goal
  BY <1>0, <1>5 DEF Return, Slots
<1>6. ASSUME NEW l, CGoto(c, l), UNCHANGED outcome, l # "gr_take",
             l \in {"gr_slot", "gr_wait"} => outcome[call[c]] = "open"
      PROVE  Goal
  BY <1>0, <1>6 DEF CGoto
<1>7. CASE UNCHANGED <<clientVars, outcome>> /\ cpc[c] \notin {"gr_slot", "gr_wait"}
  BY <1>2, <1>7 DEF clientVars
<1> HIDE DEF Goal
<1>8. ASSUME NEW m \in MainTasks, AddMainTask(c, m) PROVE Goal
  BY <1>3, <1>8 DEF AddMainTask, MayCall, Calls
<1>9. CASE EnterWaiting(c) \/ NameSubTask(c) \/ InsertSubTask(c) \/ AppendMember(c)
             \/ EmplaceSlot(c) \/ LockReady(c) \/ EraseName(c) \/ DestroyMutexes(c)
             \/ StopPool(c)
  BY <1>6, <1>9 DEF EnterWaiting, NameSubTask, InsertSubTask, AppendMember, EmplaceSlot,
     LockReady, EraseName, DestroyMutexes, StopPool
<1>10. CASE InsertMain(c) \/ LeaveWaiting(c) \/ EraseSubTask(c) \/ JoinPool(c)
  BY <1>5, <1>10 DEF InsertMain, LeaveWaiting, EraseSubTask, JoinPool
<1>11. ASSUME NEW s \in SubTasks, AddSubTask(c, s) PROVE Goal
  BY <1>3, <1>4, <1>11 DEF AddSubTask, MayCall, CAt, Calls
<1>12. CASE FetchMain(c) \/ PushMembers(c)
  BY <1>6, <1>7, <1>12 DEF FetchMain, PushMembers, CAt
<1>13. CASE CountReady(c) \/ TestJoinable(c) \/ EnterJoin(c)
  BY <1>5, <1>6, <1>13 DEF CountReady, TestJoinable, AfterJoin, EnterJoin
<1>14. ASSUME NEW f \in Fetches, GetSubTaskResult(c, f) PROVE Goal
  BY <1>3, <1>4, <1>14 DEF GetSubTaskResult, MayCall, CAt, Calls
<1>15. CASE FindSlot(c)
  <2>1. outcome[call[c]] = "open" BY <1>15 DEF FindSlot, CAt, ResultOK
  <2> QED BY <1>5, <1>6, <1>15, <2>1 DEF FindSlot
<1>16. ASSUME NEW k \in Starts, Start(c, k) PROVE Goal
  BY <1>3, <1>16 DEF Start, MayCall, Calls
<1>17. ASSUME NEW k \in Stops \cup Exits, Stop(c, k) PROVE Goal
  BY <1>3, <1>17 DEF Stop, MayCall, Calls
<1>18. CASE LaunchLoop(c) BY <1>5, <1>7, <1>18 DEF LaunchLoop, CAt
<1>19. CASE Join(c) BY <1>5, <1>6, <1>7, <1>19 DEF Join, AfterJoin, CAt
<1> QED
  BY <1>8, <1>9, <1>10, <1>11, <1>12, <1>13, <1>14, <1>15, <1>16, <1>17, <1>18, <1>19
  DEF ClientStep

\* A client takes the post of the slot it waits for.
LEMMA WaitMoves ==
  ASSUME TypeInv, NEW c \in Clients, WaitSlot(c)
  PROVE  /\ cpc[c] = "gr_wait" /\ cpc'[c] = "gr_take" /\ UNCHANGED <<call, found, outcome, slot>>
         /\ \A d \in Clients \ {c} : cpc'[d] = cpc[d]
         /\ found[c] \in SubTasks /\ call[c] \in Fetches
         /\ semaphore[found[c]] > 0 /\ semaphore'[found[c]] = semaphore[found[c]] - 1
         /\ \A s \in SubTasks \ {found[c]} : semaphore'[s] = semaphore[s]
BY DEF WaitSlot, SlotPosted, CAt, CGoto, TypeInv, ClientInv, ClientsOK, ClientShape, Fetching,
       MapsOK

\* A client takes the result.
LEMMA TakeMoves ==
  ASSUME TypeInv, NEW c \in Clients, TakeResult(c)
  PROVE  /\ cpc[c] = "gr_take" /\ cpc'[c] = "gr_name" /\ UNCHANGED <<call, found, semaphore>>
         /\ \A d \in Clients \ {c} : cpc'[d] = cpc[d]
         /\ found[c] \in SubTasks /\ call[c] \in Fetches
         /\ outcome'[call[c]] = slot[found[c]] /\ slot[found[c]] \in Slots
         /\ \A k \in Calls \ {call[c]} : outcome'[k] = outcome[k]
         /\ \A s \in SubTasks \ {found[c]} : slot'[s] = slot[s]
<1>1. cpc[c] = "gr_take" /\ found[c] \in SubTasks /\ call[c] \in Fetches /\ call[c] \in Calls
  BY DEF TakeResult, CAt, TypeInv, ClientInv, ClientShape, Fetching, Calls
<1> QED BY <1>1 DEF TakeResult, CGoto, TypeInv, ClientInv, ClientsOK, MapsOK

\* A client moves a result out of its slot only when it has taken the post of it.
LEMMA ClientStepResults ==
  ASSUME WellFormed, TypeInv, DependencyInv, ResultOK, NEW c \in Clients, ClientStep(c)
  PROVE  ResultOK'
<1>0. /\ None \notin Calls /\ \A f \in Fetches : f \in Calls
      /\ \A d \in Clients : cpc[d] \in Fetching => call[d] \in Fetches /\ found[d] \in SubTasks
      /\ \A s \in SubTasks : semaphore[s] \in Nat
  BY ConstantsAssumption DEF Calls, TypeInv, ClientInv, ClientShape, MapsOK
<1>1. UNCHANGED <<wpc, job, fn, started>> BY ClientFrame DEF workerVars
<1>2. /\ \A s \in SubTasks : Unposted(s)' <=> Unposted(s)
      /\ \A s \in SubTasks : Finished(s)' <=> Finished(s)
  BY <1>1 DEF Unposted, Finished
<1>3. /\ \A d \in Clients \ {c} : cpc'[d] = cpc[d] /\ call'[d] = call[d] /\ found'[d] = found[d]
  BY ClientMoves DEF Moves
<1>4. \A d \in Clients \ {c} : cpc[d] \in Fetching =>
        call[d] # call[c] /\ outcome[call[d]] # "unissued"
  BY <1>0 DEF DependencyInv, CallsOK
<1>5. {"gr_slot", "gr_wait", "gr_take"} \subseteq Fetching BY DEF Fetching
<1>6. CASE WaitSlot(c)
  <2>1. PICK s \in SubTasks : s = found[c] BY <1>6, WaitMoves
  <2>2. /\ cpc[c] = "gr_wait" /\ cpc'[c] = "gr_take" /\ UNCHANGED <<call, found, outcome, slot>>
        /\ semaphore[s] > 0 /\ semaphore'[s] = semaphore[s] - 1
        /\ \A t \in SubTasks \ {s} : semaphore'[t] = semaphore[t]
    BY <1>6, <2>1, WaitMoves
  <2>3. semaphore'[s] = 0 /\ slot[s] = fn[s] /\ ~Taken(s) /\ ~Unposted(s)
    BY <1>0, <2>2 DEF ResultOK
  <2>4. \A t \in SubTasks : Answered(t)' <=> Answered(t) BY <2>2 DEF Answered
  <2>5. \A t \in SubTasks \ {s} : Taken(t)' <=> Taken(t)
    BY <1>3, <2>1, <2>2, <2>4 DEF Taken
  <2>6. \A t \in SubTasks :
          /\ Unposted(t)' => semaphore'[t] = 0 /\ ~Taken(t)'
          /\ semaphore'[t] > 0 => semaphore'[t] = 1 /\ slot'[t] = fn'[t] /\ ~Taken(t)'
    <3> SUFFICES ASSUME NEW t \in SubTasks
                 PROVE  /\ Unposted(t)' => semaphore'[t] = 0 /\ ~Taken(t)'
                        /\ semaphore'[t] > 0 => /\ semaphore'[t] = 1 /\ slot'[t] = fn'[t]
                                                /\ ~Taken(t)'
      OBVIOUS
    <3>1. CASE t = s BY <1>2, <2>3, <3>1
    <3>2. CASE t # s BY <1>1, <1>2, <2>2, <2>5, <3>2 DEF ResultOK
    <3> QED BY <3>1, <3>2
  <2>7. \A d \in Clients :
          cpc'[d] \in {"gr_slot", "gr_wait", "gr_take"} => outcome'[call'[d]] = "open"
    BY <1>3, <2>2 DEF ResultOK
  <2>8. \A d \in Clients \ {c} : cpc[d] = "gr_take" => found[d] # s
    BY <2>3 DEF Taken
  <2>9. ASSUME NEW d \in Clients, cpc'[d] = "gr_take"
        PROVE  /\ semaphore'[found'[d]] = 0 /\ slot'[found'[d]] = fn'[found'[d]]
               /\ ~Answered(found[d])'
               /\ \A e \in Clients : cpc'[e] = "gr_take" /\ found'[e] = found'[d] => e = d
    <3>1. CASE d = c
      <4>1. ~Answered(s)' BY <2>3, <2>4 DEF Taken
      <4> QED BY <1>1, <1>3, <2>1, <2>2, <2>3, <2>8, <3>1, <4>1
    <3>2. CASE d # c
      <4>1. found[d] \in SubTasks \ {s} /\ cpc[d] = "gr_take"
        BY <1>0, <1>3, <1>5, <2>8, <2>9, <3>2
      <4> QED BY <1>1, <1>3, <2>1, <2>2, <2>4, <3>2, <4>1 DEF ResultOK
    <3> QED BY <3>1, <3>2
  <2>10. \A f \in Fetches : outcome'[f] \in Slots =>
           /\ \E t \in SubTasks : /\ SubName[t] = FetchName[f] /\ outcome'[f] = fn'[t]
                                  /\ Finished(t)'
           /\ \A g \in Fetches : outcome'[g] \in Slots /\ FetchName[g] = FetchName[f] => g = f
    BY <1>1, <1>2, <2>2 DEF ResultOK
  <2>11. \A d \in Clients : found'[d] = found[d] BY <2>2
  <2> QED BY <2>2, <2>6, <2>7, <2>9, <2>10, <2>11 DEF ResultOK, Answered
<1>7. CASE TakeResult(c)
  <2>1. PICK s \in SubTasks, f \in Fetches : s = found[c] /\ f = call[c] BY <1>7, TakeMoves
  <2>2. /\ cpc[c] = "gr_take" /\ cpc'[c] = "gr_name" /\ UNCHANGED <<call, found, semaphore>>
        /\ outcome'[f] = slot[s] /\ slot[s] \in Slots
        /\ \A k \in Calls \ {f} : outcome'[k] = outcome[k]
        /\ \A t \in SubTasks \ {s} : slot'[t] = slot[t]
    BY <1>7, <2>1, TakeMoves
  <2>3. /\ SubName[s] = FetchName[f] /\ Finished(s)
    BY <2>1, <2>2 DEF DependencyInv, FetchesOK, Fetching, Fetched
  <2>4. /\ outcome[f] = "open" /\ semaphore[s] = 0 /\ slot[s] = fn[s] /\ ~Answered(s)
        /\ \A d \in Clients \ {c} : cpc[d] = "gr_take" => found[d] # s
    BY <2>1, <2>2 DEF ResultOK
  <2>5. ~Unposted(s) /\ Taken(s) BY <2>1, <2>2 DEF ResultOK, Taken
  <2>6. \A t \in SubTasks \ {s} : Answered(t)' <=> Answered(t)
    <3>1. \A t \in SubTasks \ {s} : FetchName[f] # SubName[t] BY <2>3 DEF WellFormed
    <3>2. \A g \in Fetches \ {f} : outcome'[g] = outcome[g] BY <1>0, <2>2
    <3> QED BY <3>1, <3>2 DEF Answered
  <2>7. \A t \in SubTasks \ {s} : Taken(t)' <=> Taken(t)
    BY <1>3, <2>1, <2>2, <2>6 DEF Taken
  <2>8. ASSUME NEW t \in SubTasks
        PROVE  /\ Unposted(t)' => semaphore'[t] = 0 /\ ~Taken(t)'
               /\ semaphore'[t] > 0 => semaphore'[t] = 1 /\ slot'[t] = fn'[t] /\ ~Taken(t)'
    <3>1. CASE t = s BY <1>2, <2>2, <2>4, <2>5, <3>1
    <3>2. CASE t # s BY <1>1, <1>2, <2>2, <2>7, <3>2 DEF ResultOK
    <3> QED BY <3>1, <3>2
  <2>9. ASSUME NEW d \in Clients, cpc'[d] \in {"gr_slot", "gr_wait", "gr_take"}
        PROVE  outcome'[call'[d]] = "open"
    <3>1. d # c /\ cpc[d] = cpc'[d] BY <1>3, <2>2, <2>9
    <3>2. call[d] # f /\ call[d] \in Calls BY <1>0, <1>4, <1>5, <2>1, <2>9, <3>1
    <3> QED BY <2>2, <2>9, <3>1, <3>2 DEF ResultOK
  <2>10. ASSUME NEW d \in Clients, cpc'[d] = "gr_take"
         PROVE  /\ semaphore'[found'[d]] = 0 /\ slot'[found'[d]] = fn'[found'[d]]
                /\ ~Answered(found[d])'
                /\ \A e \in Clients : cpc'[e] = "gr_take" /\ found'[e] = found'[d] => e = d
    <3>1. d # c /\ cpc[d] = "gr_take" BY <1>3, <2>2, <2>10
    <3>2. found[d] \in SubTasks \ {s} BY <1>0, <1>5, <2>4, <3>1
    <3> QED BY <1>1, <1>3, <2>2, <2>6, <3>1, <3>2 DEF ResultOK
  <2>11. ASSUME NEW g \in Fetches, outcome'[g] \in Slots
         PROVE  /\ \E t \in SubTasks : /\ SubName[t] = FetchName[g] /\ outcome'[g] = fn'[t]
                                       /\ Finished(t)'
                /\ \A h \in Fetches : outcome'[h] \in Slots /\ FetchName[h] = FetchName[g] => h = g
    <3>1. \A h \in Fetches \ {f} : outcome'[h] = outcome[h] BY <1>0, <2>2
    <3>2. \A h \in Fetches \ {f} : outcome'[h] \in Slots => FetchName[h] # FetchName[f]
      BY <2>3, <2>4, <3>1 DEF Answered
    <3>3. CASE g = f BY <1>1, <1>2, <2>2, <2>3, <2>4, <3>2, <3>3
    <3>4. CASE g # f BY <1>1, <1>2, <2>11, <3>1, <3>2, <3>4 DEF ResultOK
    <3> QED BY <3>3, <3>4
  <2>12. \A d \in Clients : found'[d] = found[d] BY <2>2
  <2> QED BY <2>8, <2>9, <2>10, <2>11, <2>12 DEF ResultOK, Answered
<1>8. CASE ~WaitSlot(c) /\ ~TakeResult(c)
  <2>1. /\ UNCHANGED <<semaphore, slot>>
        /\ cpc[c] # "gr_take" /\ cpc'[c] # "gr_take"
        /\ cpc'[c] \in {"gr_slot", "gr_wait"} => outcome'[call'[c]] = "open"
        /\ \A k \in Calls : \/ outcome'[k] = outcome[k]
                            \/ /\ outcome[k] \notin Slots /\ outcome'[k] \notin Slots
                               /\ outcome[k] = "unissued" \/ k = call[c]
    BY <1>8, FetchMoves DEF DependencyInv
  <2>2. \A f \in Fetches : outcome'[f] = outcome[f]
                             \/ (outcome[f] \notin Slots /\ outcome'[f] \notin Slots)
    BY <1>0, <2>1
  <2>3. \A s : Answered(s)' <=> Answered(s) BY <2>2 DEF Answered
  <2>4. \A s \in SubTasks : Taken(s)' <=> Taken(s) BY <1>3, <2>1, <2>3 DEF Taken
  <2>5. \A s \in SubTasks :
          /\ Unposted(s)' => semaphore'[s] = 0 /\ ~Taken(s)'
          /\ semaphore'[s] > 0 => semaphore'[s] = 1 /\ slot'[s] = fn'[s] /\ ~Taken(s)'
    BY <1>1, <1>2, <2>1, <2>4 DEF ResultOK
  <2>6. ASSUME NEW d \in Clients, cpc'[d] \in {"gr_slot", "gr_wait", "gr_take"}
        PROVE  outcome'[call'[d]] = "open"
    <3>1. CASE d = c BY <2>1, <2>6, <3>1
    <3>2. CASE d # c
      <4>1. call[d] # call[c] /\ outcome[call[d]] # "unissued" /\ call[d] \in Calls
        BY <1>0, <1>3, <1>4, <1>5, <2>6, <3>2
      <4>2. outcome'[call[d]] = outcome[call[d]] BY <2>1, <4>1
      <4> QED BY <1>3, <2>6, <3>2, <4>2 DEF ResultOK
    <3> QED BY <3>1, <3>2
  <2>7. ASSUME NEW d \in Clients, cpc'[d] = "gr_take"
        PROVE  /\ semaphore'[found'[d]] = 0 /\ slot'[found'[d]] = fn'[found'[d]]
               /\ ~Answered(found[d])'
               /\ \A e \in Clients : cpc'[e] = "gr_take" /\ found'[e] = found'[d] => e = d
    <3>1. d # c /\ cpc[d] = "gr_take" /\ found'[d] = found[d] BY <1>3, <2>1, <2>7
    <3>2. ~Answered(found[d]) BY <3>1 DEF ResultOK
    <3>3. ~Answered(found[d])' BY <2>2, <3>1, <3>2 DEF Answered
    <3> QED BY <1>1, <1>3, <2>1, <3>1, <3>3 DEF ResultOK
  <2>8. \A f \in Fetches : outcome'[f] \in Slots =>
          /\ \E t \in SubTasks : /\ SubName[t] = FetchName[f] /\ outcome'[f] = fn'[t]
                                 /\ Finished(t)'
          /\ \A g \in Fetches : outcome'[g] \in Slots /\ FetchName[g] = FetchName[f] => g = f
    BY <1>1, <1>2, <2>2 DEF ResultOK
  <2> QED BY <2>5, <2>6, <2>7, <2>8 DEF ResultOK
<1> QED BY <1>6, <1>7, <1>8

\* A worker posts the result of the subtask it has run.
LEMMA PostMoves ==
  ASSUME TypeInv, NEW w \in Workers, PostResult(w)
  PROVE  /\ wpc[w] = "post" /\ wpc'[w] = "flag" /\ job' = job /\ job[w] \in SubTasks
         /\ \A v \in Workers \ {w} : wpc'[v] = wpc[v]
         /\ UNCHANGED <<fn, started>>
         /\ \/ UNCHANGED <<slot, semaphore>>
            \/ /\ slot'[job[w]] = fn[job[w]] /\ semaphore'[job[w]] = semaphore[job[w]] + 1
               /\ \A s \in SubTasks \ {job[w]} : slot'[s] = slot[s] /\ semaphore'[s] = semaphore[s]
BY DEF PostResult, WAt, WGoto, TypeInv, WorkerInv, WorkersOK, WorkerShape, MapsOK, workerOther,
       histVars

\* The other steps of a worker post nothing.
LEMMA PostsNothing ==
  ASSUME NEW w \in Workers, WorkerStep(w), ~PostResult(w) PROVE UNCHANGED <<slot, semaphore>>
BY DEF WorkerStep, Pop, LeavePool, FindSubTask, LookupDependency, FindDependency,
   AwaitDependency, StartFunction, FinishFunction, FlagCompleted,
   NotifyDependents, FindMainTask, CountCompleted, EraseMainTask, UseDestroyed, EraseMembers,
   taskVars, subVars, subFields

\* A worker posts the result of its subtask, which nobody has posted before (lines 81-86).
LEMMA WorkerStepResults ==
  ASSUME TypeInv, PlacesOK, ResultOK, NEW w \in Workers, WorkerStep(w) PROVE ResultOK'
<1>0. /\ None \notin SubTasks
      /\ \A s \in SubTasks : semaphore[s] \in Nat
      /\ \A c \in Clients : cpc[c] = "gr_take" => found[c] \in SubTasks
  BY ConstantsAssumption
  DEF Calls, TypeInv, ClientInv, ClientShape, Fetching, MapsOK
<1>1. UNCHANGED <<cpc, call, found, outcome>> BY WorkerFrame DEF clientVars
<1>2. \A s \in SubTasks : (Answered(s)' <=> Answered(s)) /\ (Taken(s)' <=> Taken(s))
  BY <1>1 DEF Answered, Taken
<1>3. ASSUME \A s \in SubTasks : Unposted(s)' => Unposted(s),
             UNCHANGED <<slot, semaphore>>,
             \A s \in SubTasks : fn'[s] = fn[s] \/ (Unposted(s) /\ ~Finished(s))
      PROVE  ResultOK'
  <2>1. \A s \in SubTasks :
          /\ Unposted(s)' => semaphore'[s] = 0 /\ ~Taken(s)'
          /\ semaphore'[s] > 0 => semaphore'[s] = 1 /\ slot'[s] = fn'[s] /\ ~Taken(s)'
    BY <1>2, <1>3 DEF ResultOK
  <2>2. \A c \in Clients : cpc[c] = "gr_take" => fn'[found[c]] = fn[found[c]]
    BY <1>0, <1>3 DEF ResultOK, Taken
  <2>3. \A c \in Clients : cpc'[c] = "gr_take" =>
          /\ semaphore'[found'[c]] = 0 /\ slot'[found'[c]] = fn'[found'[c]]
          /\ ~Answered(found[c])'
          /\ \A d \in Clients : cpc'[d] = "gr_take" /\ found'[d] = found'[c] => d = c
    <3>1. \A c \in Clients : Answered(found[c])' <=> Answered(found[c]) BY <1>1 DEF Answered
    <3> QED BY <1>1, <1>3, <2>2, <3>1 DEF ResultOK
  <2>4. \A s \in SubTasks : Finished(s) => fn'[s] = fn[s] /\ Finished(s)'
    BY <1>3 DEF Finished
  <2>5. \A f \in Fetches : outcome'[f] \in Slots =>
          /\ \E s \in SubTasks : /\ SubName[s] = FetchName[f] /\ outcome'[f] = fn'[s]
                                 /\ Finished(s)'
          /\ \A g \in Fetches : outcome'[g] \in Slots /\ FetchName[g] = FetchName[f] => g = f
    BY <1>1, <2>4 DEF ResultOK
  <2> QED BY <1>1, <2>1, <2>3, <2>5 DEF ResultOK
<1>4. CASE StartFunction(w)
  <2>1. PICK s \in SubTasks : s = job[w] BY <1>4, StartMoves
  <2>2. /\ wpc[w] = "deps" /\ wpc'[w] = "running" /\ job' = job
        /\ \A v \in Workers \ {w} : wpc'[v] = wpc[v]
        /\ \A t \in SubTasks \ {s} : started'[t] = started[t]
        /\ UNCHANGED fn
    BY <1>4, <2>1, StartMoves
  <2>3. Unposted(s) BY <2>1, <2>2 DEF PlacesOK, Scanning, Unposted
  <2>4. \A t \in SubTasks : Unposted(t)' => Unposted(t)
    BY <2>1, <2>2, <2>3 DEF Unposted
  <2>5. ~PostResult(w) BY <2>2 DEF PostResult, WAt
  <2> QED BY <1>3, <2>2, <2>4, <2>5, PostsNothing
<1>5. CASE FinishFunction(w)
  <2>1. PICK s \in SubTasks : s = job[w] BY <1>5, FinishMoves
  <2>2. /\ wpc[w] = "running" /\ wpc'[w] = "post" /\ job' = job
        /\ \A v \in Workers \ {w} : wpc'[v] = wpc[v]
        /\ \A t \in SubTasks \ {s} : fn'[t] = fn[t]
        /\ UNCHANGED started
    BY <1>5, <2>1, FinishMoves
  <2>3. Unposted(s) /\ ~Finished(s) BY <2>1, <2>2 DEF Unposted, PlacesOK, Finished
  <2>4. \A t \in SubTasks : Unposted(t)' => Unposted(t) BY <2>2 DEF Unposted
  <2>5. ~PostResult(w) BY <2>2 DEF PostResult, WAt
  <2> QED BY <1>3, <2>2, <2>3, <2>4, <2>5, PostsNothing
<1>6. CASE PostResult(w)
  <2>1. PICK s \in SubTasks : s = job[w] BY <1>6, PostMoves
  <2>2. /\ wpc[w] = "post" /\ wpc'[w] = "flag" /\ job' = job
        /\ \A v \in Workers \ {w} : wpc'[v] = wpc[v]
        /\ UNCHANGED <<fn, started>>
        /\ \/ UNCHANGED <<slot, semaphore>>
           \/ /\ slot'[s] = fn[s] /\ semaphore'[s] = semaphore[s] + 1
              /\ \A t \in SubTasks \ {s} : slot'[t] = slot[t] /\ semaphore'[t] = semaphore[t]
    BY <1>6, <2>1, PostMoves
  <2>3. Unposted(s) /\ semaphore[s] = 0 /\ ~Taken(s)
    BY <2>1, <2>2 DEF Unposted, ResultOK
  <2>4. ~Unposted(s)'
    BY <1>0, <2>1, <2>2 DEF Unposted, PlacesOK
  <2>5. \A t \in SubTasks : Unposted(t)' => Unposted(t) BY <2>2 DEF Unposted
  <2>6. CASE UNCHANGED <<slot, semaphore>> BY <1>3, <2>2, <2>5, <2>6
  <2>7. CASE ~UNCHANGED <<slot, semaphore>>
    <3>1. /\ slot'[s] = fn[s] /\ semaphore'[s] = 1
          /\ \A t \in SubTasks \ {s} : slot'[t] = slot[t] /\ semaphore'[t] = semaphore[t]
      BY <2>2, <2>3, <2>7
    <3>2. ASSUME NEW t \in SubTasks
          PROVE  /\ Unposted(t)' => semaphore'[t] = 0 /\ ~Taken(t)'
                 /\ semaphore'[t] > 0 => semaphore'[t] = 1 /\ slot'[t] = fn'[t] /\ ~Taken(t)'
      <4>1. CASE t = s BY <1>2, <2>2, <2>3, <2>4, <3>1, <4>1
      <4>2. CASE t # s BY <1>2, <2>2, <2>5, <3>1, <4>2 DEF ResultOK
      <4> QED BY <4>1, <4>2
    <3>3. ASSUME NEW c \in Clients, cpc'[c] = "gr_take"
          PROVE  /\ semaphore'[found'[c]] = 0 /\ slot'[found'[c]] = fn'[found'[c]]
                 /\ ~Answered(found[c])'
                 /\ \A d \in Clients : cpc'[d] = "gr_take" /\ found'[d] = found'[c] => d = c
      <4>1. found[c] \in SubTasks /\ found[c] # s BY <1>0, <1>1, <2>3, <3>3 DEF Taken
      <4>2. ~Answered(found[c])' BY <1>1, <3>3 DEF ResultOK, Answered
      <4> QED BY <1>1, <2>2, <3>1, <3>3, <4>1, <4>2 DEF ResultOK
    <3>4. \A f \in Fetches : outcome'[f] \in Slots =>
            /\ \E t \in SubTasks : /\ SubName[t] = FetchName[f] /\ outcome'[f] = fn'[t]
                                   /\ Finished(t)'
            /\ \A g \in Fetches : outcome'[g] \in Slots /\ FetchName[g] = FetchName[f] => g = f
      BY <1>1, <2>2 DEF ResultOK, Finished
    <3> QED BY <1>1, <3>2, <3>3, <3>4 DEF ResultOK
  <2> QED BY <2>6, <2>7
<1>7. CASE ~StartFunction(w) /\ ~FinishFunction(w) /\ ~PostResult(w)
  <2>1. UNCHANGED <<slot, semaphore, fn, started>> BY <1>7, PostsNothing, WorkerMoves
  <2>2. \A v \in Workers : wpc'[v] \in {"running", "post"} => wpc'[v] = wpc[v] /\ job'[v] = job[v]
    <3>1. CASE Pop(w) BY <3>1, PopMoves
    <3>2. CASE ~Pop(w) BY <1>7, <3>2, WorkerMoves
    <3> QED BY <3>1, <3>2
  <2>3. \A t \in SubTasks : Unposted(t)' => Unposted(t) BY <2>1, <2>2 DEF Unposted
  <2> QED BY <1>3, <2>1, <2>3
<1> QED BY <1>4, <1>5, <1>6, <1>7

\* A step that leaves all of it alone.
LEMMA ResultsStay ==
  ASSUME ResultOK,
         UNCHANGED <<clientVars, outcome, semaphore, slot, fn, started, wpc, job>>
  PROVE  ResultOK'
BY DEF ResultOK, Unposted, Taken, Answered, Finished, clientVars

-----------------------------------------------------------------------------
(* The invariant holds. *)

\* Every step keeps OnceInv.
LEMMA StepOnce ==
  ASSUME PriorityInv, OnceInv, [Next]_vars PROVE OnceInv'
<1> USE DEF OnceInv
<1>0. TypeInv BY DEF PriorityInv
<1>1. IdsStay BY IdsStayed
<1>2. \A s \in SubTasks : Finished(s) => Finished(s)' BY <1>0, FinishedStays
<1>3. ASSUME NEW c \in Clients, ClientStep(c) PROVE OnceInv'
  <2>1. CallsOK' BY <1>1, <1>3, ClientStepCalls
  <2>2. FetchesOK' BY <1>0, <1>3, ClientStepFetches
  <2>3. NamesOK' BY <1>1, <1>2, <1>3, ClientStepNames
  <2>4. MembersOK' BY <1>1, <1>3, ClientStepMembers
  <2>5. FilledOK' /\ PushOK' BY <1>1, <1>3, ClientStepFilled, ClientStepPush
  <2>6. PlacesOK' BY <1>3, ClientStepPlaces
  <2> QED BY <2>1, <2>2, <2>3, <2>4, <2>5, <2>6
<1>4. ASSUME NEW w \in Workers, WorkerStep(w) PROVE OnceInv'
  <2>1. UNCHANGED <<clientVars, outcome, main_task_id, sub_task_name_to_id, sub_tasks>>
    BY <1>4, WorkerFrame
    DEF WorkerStep, Pop, LeavePool, FindSubTask, LookupDependency, FindDependency,
       AwaitDependency, StartFunction, FinishFunction, PostResult, FlagCompleted,
       NotifyDependents, FindMainTask, CountCompleted, EraseMainTask, UseDestroyed, EraseMembers,
       taskVars, subVars, subMaps
  <2>2. CallsOK' BY <2>1, CallsSame
  <2>3. FetchesOK' BY <1>0, <1>2, <1>4, WorkerStepFetches
  <2>4. NamesOK' BY <1>2, <2>1, OtherStepNames
  <2>5. MembersOK' BY <1>0, <1>4, WorkerStepMembers
  <2>6. FilledOK' /\ PushOK' BY <1>0, <1>4, WorkerStepPush
  <2>7. PlacesOK' BY <1>0, <1>4, WorkerStepPlaces
  <2> QED BY <2>2, <2>3, <2>4, <2>5, <2>6, <2>7
<1>5. ASSUME UNCHANGED <<taskVars, clientVars, outcome, workerVars, histVars>>
      PROVE  CallsOK' /\ FetchesOK' /\ NamesOK'
  <2> USE <1>5 DEF taskVars, subVars, subMaps, subFields, histVars
  <2>1. CallsOK' BY CallsSame
  <2>2. FetchesOK' BY DEF FetchesOK, Finished, clientVars, workerVars
  <2>3. NamesOK' BY <1>2, OtherStepNames
  <2> QED BY <2>1, <2>2, <2>3
<1>6. CASE LoopStep
  <2>1. CallsOK' /\ FetchesOK' /\ NamesOK' BY <1>5, <1>6, LoopFrame
  <2>2. MembersOK' BY <1>0, <1>6, LoopStepMembers
  <2>3. FilledOK' /\ PushOK' BY <1>6, LoopStepPush
  <2>4. PlacesOK' BY <1>6, LoopStepPlaces
  <2> QED BY <2>1, <2>2, <2>3, <2>4
<1>7. CASE UNCHANGED vars
  <2> USE <1>7
  <2>1. CallsOK' /\ FetchesOK' /\ NamesOK' BY <1>5 DEF vars
  <2> USE DEF vars, taskVars, mainVars, mainMaps, counts, subVars, subFields, queueVars, clientVars,
              workerVars, histVars
  <2>2. MembersOK' BY DEF MembersOK, Beyond
  <2>3. FilledOK' /\ PushOK'
    BY DEF FilledOK, Filled, Beyond, PushOK, Present, Queued, Enqueued, AtWork
  <2>4. PlacesOK' BY DEF PlacesOK, Queued, Enqueued, AtWork
  <2> QED BY <2>1, <2>2, <2>3, <2>4
<1> QED BY <1>3, <1>4, <1>6, <1>7 DEF Next, Rest

\* Nothing is anywhere at first.
LEMMA InitPlaces == ASSUME Init PROVE OnceInv /\ PlaceInv
<1>0. /\ \A s \in SubTasks : s \in Calls /\ s # None
      /\ \A f \in Fetches : f \in Calls
      /\ \A m \in MainTasks : DOMAIN main_to_subtasks[m] = {}
      /\ \A p \in Priorities : DOMAIN ready_subtasks[p] = {}
      /\ DOMAIN ring = {}
  BY ConstantsAssumption DEF Init, Calls
<1>1. \A s \in SubTasks : ~Queued(s) /\ ~Enqueued(s) /\ ~AtWork(s)
  BY <1>0 DEF Init, Queued, Enqueued, AtWork
<1>2. MembersOK BY <1>0 DEF MembersOK
<1>3. FilledOK /\ PushOK BY <1>1 DEF Init, FilledOK, PushOK, Pushing, Present
<1>4. PlacesOK BY <1>0, <1>1 DEF Init, PlacesOK, Scanning
<1>5. HeldOK /\ SweptOK BY StepLoop DEF LoopInv
<1>6. AcceptedOK BY <1>0, <1>1 DEF Init, AcceptedOK
<1>7. ResultOK
  <2>1. \A f \in Fetches : outcome[f] \notin Slots BY <1>0 DEF Init, Slots
  <2> QED BY <2>1 DEF Init, ResultOK, Taken, Answered
<1>8. CallsOK /\ FetchesOK /\ NamesOK BY InitDependency DEF DependencyInv
<1> QED BY <1>2, <1>3, <1>4, <1>5, <1>6, <1>7, <1>8 DEF OnceInv, PlaceInv

\* PlaceInv is inductive, with the two invariants before it.
LEMMA StepPlaces ==
  ASSUME WellFormed, PriorityInv, DependencyInv, PlaceInv, [Next]_vars PROVE PlaceInv'
<1> USE DEF PlaceInv
<1>0. TypeInv /\ CallsOK BY DEF PriorityInv, DependencyInv
<1>1. OnceInv' BY StepOnce DEF OnceInv, DependencyInv
<1>2. HeldOK' /\ SweptOK' BY StepLoop DEF LoopInv
<1>3. ASSUME NEW c \in Clients, ClientStep(c) PROVE AcceptedOK' /\ ResultOK'
  <2>1. AcceptedOK' BY <1>3, IdsStayed, ClientStepAccepted
  <2>2. ResultOK' BY <1>0, <1>3, ClientStepResults
  <2> QED BY <2>1, <2>2
<1>4. ASSUME NEW w \in Workers, WorkerStep(w) PROVE AcceptedOK' /\ ResultOK'
  <2>1. AcceptedOK' BY <1>0, <1>4, WorkerStepAccepted
  <2>2. ResultOK' BY <1>0, <1>4, WorkerStepResults
  <2> QED BY <2>1, <2>2
<1>5. ASSUME LoopStep PROVE AcceptedOK' /\ ResultOK'
  <2>1. AcceptedOK' BY <1>5, LoopStepAccepted
  <2>2. ResultOK'
    BY <1>5, LoopFrame, ResultsStay DEF taskVars, subVars, subFields, workerVars, histVars
  <2> QED BY <2>1, <2>2
<1>6. ASSUME UNCHANGED vars PROVE AcceptedOK' /\ ResultOK'
  <2> USE <1>6
  <2> USE DEF vars, taskVars, mainVars, mainMaps, subVars, subFields, queueVars, clientVars,
              workerVars, loopVars, histVars
  <2>1. AcceptedOK'
    BY DEF AcceptedOK, AllAccepted, Accepted, Siblings, Queued, Enqueued, AtWork
  <2>2. ResultOK' BY ResultsStay
  <2> QED BY <2>1, <2>2
<1> QED BY <1>1, <1>2, <1>3, <1>4, <1>5, <1>6 DEF Next, Rest, OnceInv

-----------------------------------------------------------------------------
(* The refinement. *)

\* What the task graph sees of the state.
accepted == {s \in SubTasks : Accepted(s)}
stage    == [s \in SubTasks |-> IF Finished(s) THEN fn[s]
                                ELSE IF started[s] > 0 THEN "running" ELSE "waiting"]
answer   == [f \in Fetches |-> IF outcome[f] \in Slots THEN outcome[f] ELSE "none"]
Asked    == [f \in Fetches |-> CHOOSE s \in SubTasks : SubName[s] = FetchName[f]]

\* A step of the task graph, or one that it does not see.
GraphStep == Graph!Next \/ UNCHANGED <<accepted, stage, answer>>

\* What a fetch asks for, when there is a subtask of that name.
LEMMA AskedIs ==
  ASSUME WellFormed, NEW f \in Fetches, NEW s \in SubTasks, SubName[s] = FetchName[f]
  PROVE  Asked[f] = s
BY DEF Asked, WellFormed

\* The task graph sees calls and the history only.
LEMMA GraphStays == ASSUME UNCHANGED <<outcome, fn, started>> PROVE GraphStep
BY DEF GraphStep, accepted, stage, answer, Accepted, Finished

\* Acceptance is a step of the graph, and the taking of a result; no other step of a client is.
LEMMA ClientStepGraph ==
  ASSUME WellFormed, PriorityInv, DependencyInv, PlaceInv, NEW c \in Clients, ClientStep(c)
  PROVE  GraphStep
<1>0. /\ TypeInv /\ CallsOK /\ ResultOK /\ AcceptedOK
      /\ \A f \in Fetches : f \in Calls /\ f \notin SubTasks
      /\ \A s \in SubTasks : s \in Calls
      /\ \A s \in SubTasks : fn[s] \in {"none", "value", "error"}
  BY KindsAssumption DEF PriorityInv, DependencyInv, PlaceInv, Calls, TypeInv, OthersOK
<1>1. UNCHANGED <<fn, started>> BY ClientFrame
<1>2. stage' = stage BY <1>1 DEF stage, Finished
<1>3. CASE WaitSlot(c) BY <1>0, <1>1, <1>3, WaitMoves, GraphStays
<1>4. CASE TakeResult(c)
  <2>1. PICK s \in SubTasks, f \in Fetches : s = found[c] /\ f = call[c]
    BY <1>0, <1>4, TakeMoves
  <2>2. /\ cpc[c] = "gr_take" /\ outcome'[f] = slot[s] /\ slot[s] \in Slots
        /\ \A k \in Calls \ {f} : outcome'[k] = outcome[k]
    BY <1>0, <1>4, <2>1, TakeMoves
  <2>3. SubName[s] = FetchName[f] /\ Finished(s)
    BY <2>1, <2>2 DEF DependencyInv, FetchesOK, Fetching, Fetched
  <2>4. outcome[f] = "open" /\ slot[s] = fn[s] /\ ~Answered(s)
    BY <1>0, <2>1, <2>2 DEF ResultOK
  <2>5. Asked[f] = s BY <2>3, AskedIs
  <2>6. accepted' = accepted BY <1>0, <2>2 DEF accepted, Accepted
  <2>7. answer[f] = "none" BY <2>4 DEF answer, Slots
  <2>8. stage[s] = fn[s] /\ fn[s] \in {"value", "error"} BY <1>0, <2>3 DEF stage, Finished
  <2>9. ASSUME NEW g \in Fetches, Asked[g] = s PROVE answer[g] = "none"
    <3>1. ASSUME outcome[g] \in Slots PROVE FALSE
      <4>1. PICK t \in SubTasks : SubName[t] = FetchName[g] BY <1>0, <3>1 DEF ResultOK
      <4>2. t = s BY <2>9, <4>1, AskedIs
      <4> QED BY <2>4, <3>1, <4>1, <4>2 DEF Answered
    <3> QED BY <3>1 DEF answer
  <2>10. answer' = [answer EXCEPT ![f] = stage[s]]
    BY <1>0, <2>2, <2>4, <2>8 DEF answer
  <2>11. Graph!Answer(f)
    BY <1>2, <2>5, <2>6, <2>7, <2>8, <2>9, <2>10
    DEF Graph!Answer, Graph!Ended, Graph!Results, Asked, accepted, stage, answer
  <2> QED BY <2>11 DEF Graph!Next, GraphStep
<1>5. CASE ~WaitSlot(c) /\ ~TakeResult(c)
  <2>1. \A k \in Calls : outcome'[k] = outcome[k]
                           \/ (outcome[k] \notin Slots /\ outcome'[k] \notin Slots)
    BY <1>0, <1>5, FetchMoves
  <2>2. answer' = answer BY <1>0, <2>1 DEF answer
  <2>3. Submits(c) BY <1>0, ClientSubmits
  <2>4. CASE call[c] \in SubTasks /\ outcome'[call[c]] = "done"
             /\ \A t \in SubTasks \ {call[c]} : outcome'[t] = outcome[t]
    <3>1. PICK s \in SubTasks : s = call[c] BY <2>4
    <3>2. outcome[s] = "open" BY <1>0, <3>1 DEF AcceptedOK
    <3>3. s \notin accepted /\ accepted' = accepted \cup {s}
      BY <2>4, <3>1, <3>2 DEF accepted, Accepted
    <3>4. Graph!Accept(s) BY <1>2, <2>2, <3>3 DEF Graph!Accept, accepted, stage, answer
    <3> QED BY <3>4 DEF Graph!Next, GraphStep
  <2>5. CASE \A t \in SubTasks : outcome'[t] = "done" <=> outcome[t] = "done"
    BY <1>2, <2>2, <2>5 DEF GraphStep, accepted, Accepted
  <2> QED BY <2>3, <2>4, <2>5 DEF Submits
<1> QED BY <1>3, <1>4, <1>5

\* The start and the end of a function are steps of the graph; no other step of a worker is.
LEMMA WorkerStepGraph ==
  ASSUME WellFormed, PriorityInv, DependencyInv, PlaceInv, NEW w \in Workers, WorkerStep(w),
         DependencyInv'
  PROVE  GraphStep
<1>0. /\ TypeInv /\ CallsOK /\ PlacesOK /\ AcceptedOK
      /\ \A s \in SubTasks : started[s] \in Nat
  BY DEF PriorityInv, DependencyInv, PlaceInv, TypeInv, OthersOK
<1>1. UNCHANGED <<outcome, main_task_id>> BY WorkerFrame
<1>2. accepted' = accepted /\ answer' = answer BY <1>1 DEF accepted, answer, Accepted
<1>3. CASE StartFunction(w)
  <2>1. PICK s \in SubTasks : s = job[w] BY <1>0, <1>3, StartMoves
  <2>2. /\ wpc[w] = "deps" /\ started'[s] = started[s] + 1
        /\ \A t \in SubTasks \ {s} : started'[t] = started[t]
        /\ UNCHANGED fn
    BY <1>0, <1>3, <2>1, StartMoves
  <2>3. started[s] = 0 /\ fn[s] = "none" BY <1>0, <2>1, <2>2 DEF PlacesOK, Scanning
  <2>4. AllAccepted(s) BY <1>0, <2>1 DEF AcceptedOK, AtWork
  <2>5. Unhindered(s)' BY <2>2, <2>3 DEF DependencyInv, ScanOK
  <2>6. \A d \in Relied(s) : Accepted(d) => d \in SubTasks /\ Finished(d)
    BY <1>0, <1>1, <2>2, <2>5, ReliedType DEF Unhindered, Accepted, CallsOK, Finished
  <2>7. \A d \in SubTasks : Finished(d) => stage[d] \in {"value", "error"}
    BY <1>0 DEF stage, Finished, TypeInv, OthersOK
  <2>8. stage[s] = "waiting" BY <2>3 DEF stage, Finished
  <2>9. stage' = [stage EXCEPT ![s] = "running"]
    <3>1. started'[s] > 0 /\ fn'[s] = "none" BY <1>0, <2>2, <2>3
    <3> QED BY <2>2, <3>1 DEF stage, Finished
  <2>10. Siblings(s) \subseteq accepted BY <2>4 DEF AllAccepted, accepted, Siblings
  <2>11. \A d \in Relied(s) \cap accepted : stage[d] \in {"value", "error"}
    BY <2>6, <2>7 DEF accepted
  <2>12. Graph!Begin(s)
    BY <1>2, <2>8, <2>9, <2>10, <2>11
    DEF Graph!Begin, Graph!Ended, Graph!Results, accepted, stage, answer
  <2> QED BY <2>12 DEF Graph!Next, GraphStep
<1>4. CASE FinishFunction(w)
  <2>1. PICK s \in SubTasks : s = job[w] BY <1>0, <1>4, FinishMoves
  <2>2. /\ wpc[w] = "running" /\ fn'[s] \in {"value", "error"}
        /\ \A t \in SubTasks \ {s} : fn'[t] = fn[t]
        /\ UNCHANGED started
    BY <1>0, <1>4, <2>1, FinishMoves
  <2>3. started[s] > 0 /\ fn[s] = "none" BY <1>0, <2>1, <2>2 DEF PlacesOK
  <2>4. stage[s] = "running" BY <2>3 DEF stage, Finished
  <2>5. stage' = [stage EXCEPT ![s] = fn'[s]] BY <2>2 DEF stage, Finished
  <2>6. Graph!End(s)
    BY <1>2, <2>2, <2>4, <2>5 DEF Graph!End, Graph!Results, accepted, stage, answer
  <2> QED BY <2>6 DEF Graph!Next, GraphStep
<1>5. CASE ~StartFunction(w) /\ ~FinishFunction(w)
  BY <1>0, <1>1, <1>5, WorkerMoves, GraphStays
<1> QED BY <1>3, <1>4, <1>5

\* Every step of the dispatcher is a step of the task graph or leaves it alone.
LEMMA StepGraph ==
  ASSUME WellFormed, PriorityInv, DependencyInv, PlaceInv, DependencyInv', [Next]_vars
  PROVE  [Graph!Next]_(Graph!vars)
<1> SUFFICES GraphStep BY DEF GraphStep, Graph!vars, accepted, stage, answer
<1>1. ASSUME NEW c \in Clients, ClientStep(c) PROVE GraphStep BY <1>1, ClientStepGraph
<1>2. ASSUME NEW w \in Workers, WorkerStep(w) PROVE GraphStep BY <1>2, WorkerStepGraph
<1>3. CASE LoopStep BY <1>3, LoopFrame, GraphStays DEF histVars
<1>4. CASE UNCHANGED vars BY <1>4, GraphStays DEF vars, histVars
<1> QED BY <1>1, <1>2, <1>3, <1>4 DEF Next, Rest

\* The task graph starts empty too.
LEMMA InitGraph == ASSUME Init PROVE Graph!Init
<1>1. /\ \A s \in SubTasks : outcome[s] = "unissued" /\ fn[s] = "none" /\ started[s] = 0
      /\ \A f \in Fetches : outcome[f] = "unissued"
  BY DEF Init, Calls
<1>2. accepted = {} BY <1>1 DEF accepted, Accepted
<1>3. stage = [s \in SubTasks |-> "waiting"] BY <1>1 DEF stage, Finished
<1>4. answer = [f \in Fetches |-> "none"] BY <1>1 DEF answer, Slots
<1> QED BY <1>2, <1>3, <1>4 DEF Graph!Init, accepted, stage, answer

-----------------------------------------------------------------------------
\* The invariants of the dispatcher together.
LEMMA AllInvariants == WellFormed => (Spec => [](PriorityInv /\ DependencyInv /\ PlaceInv))
<1> SUFFICES ASSUME WellFormed PROVE Spec => [](PriorityInv /\ DependencyInv /\ PlaceInv)
  OBVIOUS
<1>1. Init => PriorityInv /\ DependencyInv /\ PlaceInv
  BY InitPriority, InitDependency, InitPlaces
<1>2. (PriorityInv /\ DependencyInv /\ PlaceInv) /\ [Next]_vars
        => (PriorityInv /\ DependencyInv /\ PlaceInv)'
  BY StepPriority, StepDependency, StepPlaces
<1> QED BY <1>1, <1>2, PTL DEF Spec

\* The dispatcher keeps what TaskGraph promises: the subtasks of a main task start only when all of
\* them have been accepted (EventDispatcher.hpp:303-317), each function runs at most once and after
\* those of its dependencies (lines 38-79), and a result is handed over once (lines 228-237).
THEOREM TaskGraphImplemented == WellFormed => (Spec => ImplementsTaskGraph)
<1> SUFFICES ASSUME WellFormed PROVE Spec => ImplementsTaskGraph OBVIOUS
<1>1. Init => Graph!Init BY InitGraph
<1>2. /\ PriorityInv /\ DependencyInv /\ PlaceInv
      /\ (PriorityInv /\ DependencyInv /\ PlaceInv)' /\ [Next]_vars
      => [Graph!Next]_(Graph!vars)
  BY StepGraph
<1>3. Spec => [](PriorityInv /\ DependencyInv /\ PlaceInv) BY AllInvariants
<1> QED BY <1>1, <1>2, <1>3, PTL DEF Spec, ImplementsTaskGraph, Graph!Spec

\* A fetch returns the value or the error that the function of its subtask produced, and no other
\* fetch gets it (EventDispatcher.hpp:81-86, 228-237), however the two meet at the slot.
THEOREM ResultsKept == WellFormed => (Spec => []ResultsIntact)
<1> SUFFICES ASSUME WellFormed PROVE Spec => []ResultsIntact OBVIOUS
<1>1. PriorityInv /\ DependencyInv /\ PlaceInv => ResultsIntact
  BY DEF PlaceInv, ResultOK, ResultsIntact
<1>2. Spec => [](PriorityInv /\ DependencyInv /\ PlaceInv) BY AllInvariants
<1> QED BY <1>1, <1>2, PTL

-----------------------------------------------------------------------------
(* No subtask is lost. *)

\* A program gives main tasks different names too.
Distinct == WellFormed /\ \A k, m \in MainTasks : MainName[k] = MainName[m] => k = m

\* Once its list has been pushed, a subtask is somewhere or has ended; until then it is listed.
Closing      == {"post", "flag", "notify", "find_main", "count", "erase_main", "erase_members"}
Pending(m)   == \E c \in Clients : cpc[c] \in Pushing /\ main_task_id[call[c]] = m
Scheduled(s) == Released(s) /\ ~Pending(main_task_id[s])
Kept(s)      == Queued(s) \/ Enqueued(s) \/ AtWork(s) \/ Finished(s)
Listed(s)    == \E i \in DOMAIN main_to_subtasks[main_task_id[s]] :
                  main_to_subtasks[main_task_id[s]][i] = s
KeptOK ==
  /\ \A w \in Workers : wpc[w] \in Closing => Finished(job[w])
  /\ \A s \in SubTasks : /\ Scheduled(s) => Kept(s)
                         /\ Beyond(s, Unappended) => Listed(s) \/ Scheduled(s)

\* Only the count of its last subtask completes a main task, and goes on to push its list.
LEMMA CompletedBy ==
  ASSUME WellFormed, PriorityInv, DependencyInv, IdsStay, NEW c \in Clients, ClientStep(c),
         NEW m \in MainTasks, Complete(m)', ~Complete(m)
  PROVE  CountReady(c) /\ cpc'[c] = "as_lock" /\ call' = call /\ main_task_id[call[c]] = m
<1>0. TypeInv /\ CallsOK /\ CountsOK /\ None \notin MainTasks
  BY ConstantsAssumption DEF PriorityInv, DependencyInv, Calls
<1>1. Moves(c) BY <1>0, ClientMoves
<1>2. PICK s \in SubTasks : MainTaskName[s] = MainName[m] /\ s \notin CountedOf(m)
  BY DEF Complete, CountedOf
<1>3. s \in CountedOf(m)' BY <1>2 DEF Complete, CountedOf
<1>4. CASE ~CountReady(c)
  <2>1. cpc[c] \in Uncounted => cpc'[c] \in Uncounted BY <1>0, <1>4, CountsNothing
  <2> QED BY <1>0, <1>1, <1>2, <1>3, <2>1, CountedStay
<1>5. CASE CountReady(c)
  <2>1. PICK t \in SubTasks, k \in MainTasks :
          /\ t = call[c] /\ k = main_task_id[t] /\ t \notin CountedOf(k)
          /\ CountedOf(k)' = CountedOf(k) \cup {t}
          /\ \A j \in MainTasks \ {k} : CountedOf(j)' = CountedOf(j)
    BY <1>0, <1>5, CountReadyCounts
  <2>2. k = m BY <1>2, <1>3, <2>1
  <2> DEFINE G == {r \in SubTasks : MainTaskName[r] = MainName[m]}
  <2>3. UNCHANGED main_task_id BY <1>5 DEF CountReady, subVars, subFields
  <2>4. G \subseteq CountedOf(m)' BY DEF Complete, CountedOf
  <2>5. CountedOf(m)' \subseteq G BY <1>0, <2>3 DEF CountedOf, CountsOK
  <2>6. CountedOf(m) \cup {t} = G BY <2>1, <2>2, <2>4, <2>5
  <2>7. Cardinality(CountedOf(m) \cup {t}) = ready_count[m] + 1
    BY <1>0, <2>1, <2>2, CountedFinite DEF CountsOK
  <2>8. LastReady(m) BY <2>6, <2>7 DEF LastReady, WellFormed
  <2> QED BY <1>0, <1>5, <2>1, <2>2, <2>8
          DEF CountReady, CGoto, TypeInv, ClientInv, ClientsOK
<1> QED BY <1>4, <1>5

\* A client that goes to push a list has completed its main task.
LEMMA PendingMoves ==
  ASSUME WellFormed, PriorityInv, DependencyInv, IdsStay, NEW c \in Clients, ClientStep(c),
         NEW m \in MainTasks
  PROVE  /\ Pending(m)' => Pending(m) \/ ~Complete(m)
         /\ Pending(m) => Pending(m)' \/ Pushes(c, m)
<1>0. TypeInv /\ CallsOK /\ CountsOK /\ None \notin MainTasks
  BY ConstantsAssumption DEF PriorityInv, DependencyInv, Calls
<1>1. \A d \in Clients \ {c} : cpc'[d] = cpc[d] /\ call'[d] = call[d]
  BY <1>0, ClientMoves DEF Moves
<1>2. \A d \in Clients : cpc[d] \in Pushing =>
        /\ call[d] \in SubTasks /\ main_task_id[call[d]] \in MainTasks
        /\ main_task_id'[call[d]] = main_task_id[call[d]]
  BY <1>0 DEF TypeInv, ClientInv, ClientShape, AddingSub, Pushing, IdsStay
<1>3. ASSUME Pending(m)', ~Pending(m) PROVE ~Complete(m)
  <2>1. PICK d \in Clients : cpc'[d] \in Pushing /\ main_task_id'[call'[d]] = m
    BY <1>3 DEF Pending
  <2>2. d = c BY <1>1, <1>2, <1>3, <2>1 DEF Pending
  <2>3. CASE call'[c] = call[c] /\ cpc[c] \in Pushing BY <1>2, <1>3, <2>1, <2>2, <2>3 DEF Pending
  <2>4. CASE /\ call'[c] = call[c] /\ call[c] \in SubTasks /\ main_task_id[call[c]] \in MainTasks
             /\ CountReady(c)
    <3>1. main_task_id[call[c]] = m /\ cpc[c] = "as_ready"
      BY <2>1, <2>2, <2>4 DEF CountReady, CAt, subVars, subFields
    <3>2. MainTaskName[call[c]] = MainName[m] BY <1>0, <2>4, <3>1 DEF CountsOK
    <3> QED BY <2>4, <3>1, <3>2 DEF Complete, Beyond, Uncounted
  <2> QED BY <1>0, <2>1, <2>2, <2>3, <2>4, GoesToPush DEF Pushing
<1>4. ASSUME Pending(m), ~Pending(m)' PROVE Pushes(c, m)
  <2>1. PICK d \in Clients : cpc[d] \in Pushing /\ main_task_id[call[d]] = m
    BY <1>4 DEF Pending
  <2>2. d = c BY <1>1, <1>2, <1>4, <2>1 DEF Pending
  <2>3. Listing(c) BY <1>0, <2>1, <2>2, QuietStep DEF Pushing, Late
  <2>4. cpc'[c] \notin Pushing \/ call'[c] # call[c] BY <1>2, <1>4, <2>1, <2>2 DEF Pending
  <2>5. PushMembers(c) /\ cpc'[c] = "as_release"
    BY <1>0, <2>1, <2>2, <2>3, <2>4, ListingStep DEF Listing, Pushing
  <2>6. \E k \in MainTasks : Pushes(c, k) BY <2>1, <2>2, <2>5, PushMoves DEF Pushing
  <2> QED BY <2>1, <2>2, <2>6 DEF Pushes
<1> QED BY <1>3, <1>4

\* A push adds the list of its main task to what is queued.
LEMMA PushKeeps ==
  ASSUME PriorityInv, NEW c \in Clients, NEW m \in MainTasks, Pushes(c, m), NEW s \in SubTasks
  PROVE  /\ Queued(s) => Queued(s)'
         /\ (\E i \in DOMAIN main_to_subtasks[m] : main_to_subtasks[m][i] = s) => Queued(s)'
<1>1. Priority[m] \in Priorities BY ConstantsAssumption
<1>2. PICK q \in Seq(SubTasks) : q = ready_subtasks[Priority[m]]
  BY <1>1 DEF PriorityInv, TypeInv, QueuesOK
<1>3. PICK l \in Seq(SubTasks) : l = main_to_subtasks[m] BY DEF PriorityInv, TypeInv, MapsOK
<1>4. /\ ready_subtasks'[Priority[m]] = q \o l
      /\ \A p \in Priorities \ {Priority[m]} : ready_subtasks'[p] = ready_subtasks[p]
  BY <1>2, <1>3 DEF Pushes
<1>5. ASSUME NEW p \in Priorities, NEW i \in DOMAIN ready_subtasks[p], ready_subtasks[p][i] = s
      PROVE  Queued(s)'
  <2>1. CASE p = Priority[m]
    <3>1. i \in DOMAIN (q \o l) /\ (q \o l)[i] = q[i] BY <1>2, <1>5, <2>1
    <3> QED BY <1>1, <1>2, <1>4, <1>5, <2>1, <3>1 DEF Queued
  <2>2. CASE p # Priority[m] BY <1>4, <1>5, <2>2 DEF Queued
  <2> QED BY <2>1, <2>2
<1>6. ASSUME NEW i \in DOMAIN l, l[i] = s PROVE Queued(s)'
  <2>1. Len(q) + i \in DOMAIN (q \o l) /\ (q \o l)[Len(q) + i] = l[i] OBVIOUS
  <2> QED BY <1>1, <1>4, <1>6, <2>1 DEF Queued
<1> QED BY <1>3, <1>5, <1>6 DEF Queued

\* A subtask leaves the steps before its listing by being listed (line 296).
LEMMA AppendsOwn ==
  ASSUME TypeInv, NEW c \in Clients, ClientStep(c), cpc[c] \in Unappended,
         cpc'[c] \notin Unappended
  PROVE  AppendMember(c)
<1>1. \A l : CGoto(c, l) => cpc'[c] = l BY DEF CGoto, TypeInv, ClientInv, ClientsOK
<1> QED BY <1>1 DEF ClientStep, AddMainTask, EnterWaiting, InsertMain, AddSubTask, NameSubTask,
   InsertSubTask, EmplaceSlot, FetchMain, CountReady, LockReady, PushMembers, LeaveWaiting,
   GetSubTaskResult, FindSlot, WaitSlot, TakeResult, EraseName, EraseSubTask, Start, LaunchLoop,
   Stop, TestJoinable, EnterJoin, Join, DestroyMutexes, StopPool, JoinPool, CAt, MayCall,
   Unappended

\* What is listed stays so in the steps of a client, which may list its own subtask.
LEMMA ClientLists ==
  ASSUME TypeInv, NEW c \in Clients, ClientStep(c)
  PROVE  /\ \A s \in SubTasks : AppendMember(c) /\ s = call[c] => Listed(s)'
         /\ \A s \in SubTasks : main_task_id[s] \in MainTasks /\ main_task_id'[s] = main_task_id[s]
                                  /\ Listed(s) => Listed(s)'
<1>1. ASSUME AppendMember(c)
      PROVE  /\ \A s \in SubTasks : s = call[c] => Listed(s)'
             /\ \A s \in SubTasks : main_task_id[s] \in MainTasks /\ Listed(s) => Listed(s)'
  <2>1. PICK s \in SubTasks, m \in MainTasks : s = call[c] /\ m = main_task_id[s]
    BY <1>1, ListingStep DEF Listing
  <2>2. UNCHANGED main_task_id /\ call' = call BY <1>1, ListingStep DEF Listing
  <2>3. PICK q \in Seq(SubTasks) : q = main_to_subtasks[m] BY DEF TypeInv, MapsOK
  <2>4. /\ main_to_subtasks'[m] = Append(q, s)
        /\ \A k \in MainTasks \ {m} : main_to_subtasks'[k] = main_to_subtasks[k]
    BY <1>1, <2>1, <2>3 DEF AppendMember, TypeInv, MapsOK
  <2>5. /\ Len(q) + 1 \in DOMAIN Append(q, s) /\ Append(q, s)[Len(q) + 1] = s
        /\ \A i \in DOMAIN q : i \in DOMAIN Append(q, s) /\ Append(q, s)[i] = q[i]
    OBVIOUS
  <2>6. Listed(s)' BY <2>1, <2>2, <2>4, <2>5 DEF Listed
  <2>7. ASSUME NEW t \in SubTasks, main_task_id[t] \in MainTasks, Listed(t) PROVE Listed(t)'
    <3>1. PICK i \in DOMAIN main_to_subtasks[main_task_id[t]] :
            main_to_subtasks[main_task_id[t]][i] = t
      BY <2>7 DEF Listed
    <3>2. CASE main_task_id[t] = m BY <2>2, <2>3, <2>4, <2>5, <3>1, <3>2 DEF Listed
    <3>3. CASE main_task_id[t] # m BY <2>2, <2>4, <2>7, <3>1, <3>3 DEF Listed
    <3> QED BY <3>2, <3>3
  <2> QED BY <2>1, <2>6, <2>7
<1>2. CASE ~AppendMember(c)
  <2>1. UNCHANGED main_to_subtasks BY <1>2, QuietStep, ListingStep
  <2> QED BY <1>2, <2>1 DEF Listed
<1> QED BY <1>1, <1>2

\* A step of a client keeps what is kept, and a push keeps the whole list.
LEMMA ClientStepKept ==
  ASSUME WellFormed, PriorityInv, DependencyInv, KeptOK, IdsStay, NEW c \in Clients, ClientStep(c)
  PROVE  KeptOK'
<1>0. /\ TypeInv /\ CallsOK /\ CountsOK /\ None \notin MainTasks
      /\ Unappended \subseteq Uncounted
      /\ \A s \in SubTasks : main_task_id[s] \in MainTasks \cup {None}
  BY ConstantsAssumption
  DEF PriorityInv, DependencyInv, Calls, Unappended, Uncounted, TypeInv, MapsOK
<1>1. Moves(c) BY <1>0, ClientMoves
<1>2. UNCHANGED <<ring, wpc, job, fn>> BY ClientFrame DEF workerVars
<1>3. \A s \in SubTasks : main_task_id[s] \in MainTasks => main_task_id'[s] = main_task_id[s]
  BY <1>0 DEF IdsStay
<1>4. ASSUME NEW s \in SubTasks, Kept(s) PROVE Kept(s)'
  <2>1. CASE UNCHANGED ready_subtasks BY <1>2, <1>4, <2>1, ClientPlaces DEF Kept, Finished
  <2>2. CASE ready_subtasks' # ready_subtasks
    <3>1. PushMembers(c) BY <1>0, <2>2, QuietStep, ListingStep
    <3>2. PICK m \in MainTasks : Pushes(c, m) BY <2>2, <3>1, PushMoves
    <3>3. Queued(s) => Queued(s)' BY <3>2, PushKeeps
    <3> QED BY <1>2, <1>4, <3>3 DEF Kept, Enqueued, AtWork, Finished
  <2> QED BY <2>1, <2>2
<1>5. ASSUME NEW s \in SubTasks, Scheduled(s) PROVE Scheduled(s)'
  <2>1. PICK m \in MainTasks : m = main_task_id[s] /\ Complete(m) /\ ~Pending(m)
    BY <1>5 DEF Scheduled, Released
  <2>2. Released(s)' BY <1>0, <1>1, <1>5, ReleasedStay DEF Scheduled
  <2>3. ~Pending(m)' BY <2>1, PendingMoves
  <2> QED BY <1>3, <2>1, <2>2, <2>3 DEF Scheduled
<1>6. ASSUME NEW s \in SubTasks, Scheduled(s)', ~Scheduled(s) PROVE Kept(s)'
  <2>1. PICK m \in MainTasks : m = main_task_id'[s] /\ Complete(m)' /\ ~Pending(m)'
    BY <1>6 DEF Scheduled, Released
  <2>2. MainTaskName[s] = MainName[m] BY <1>0, <2>1, ClientStepIds
  <2>3. main_task_id[s] = m
    <3>1. Beyond(s, Uncounted)' BY <2>1, <2>2 DEF Complete
    <3>2. "as_name" \in Uncounted BY DEF Uncounted
    <3> QED BY <2>1, <3>1, <3>2 DEF Beyond, IdsStay
  <2>4. CASE Complete(m)
    <3>1. Beyond(s, Unappended) BY <1>0, <2>2, <2>4 DEF Complete, Beyond
    <3>2. Listed(s) BY <1>6, <3>1 DEF KeptOK
    <3>3. Pending(m) BY <1>6, <2>3, <2>4 DEF Scheduled, Released
    <3>4. Pushes(c, m) BY <2>1, <3>3, PendingMoves
    <3>5. Queued(s)' BY <2>3, <3>2, <3>4, PushKeeps DEF Listed
    <3> QED BY <3>5 DEF Kept
  <2>5. CASE ~Complete(m)
    <3>1. CountReady(c) /\ cpc'[c] = "as_lock" /\ call' = call /\ main_task_id[call[c]] = m
      BY <2>1, <2>5, CompletedBy
    <3>2. UNCHANGED main_task_id BY <3>1 DEF CountReady, subVars, subFields
    <3> QED BY <2>1, <3>1, <3>2 DEF Pending, Pushing
  <2> QED BY <2>4, <2>5
<1>7. ASSUME NEW s \in SubTasks, Beyond(s, Unappended)' PROVE Listed(s)' \/ Scheduled(s)'
  <2>1. CASE Beyond(s, Unappended)
    <3>1. main_task_id[s] \in MainTasks BY <1>0, <2>1 DEF Beyond
    <3> QED BY <1>0, <1>3, <1>5, <2>1, <3>1, ClientLists DEF KeptOK
  <2>2. CASE ~Beyond(s, Unappended)
    <3>1. call[c] = s /\ cpc[c] \in Unappended /\ cpc'[c] \notin Unappended
      BY <1>0, <1>1, <1>7, <2>2, BeyondMoves
    <3> QED BY <1>0, <3>1, AppendsOwn, ClientLists
  <2> QED BY <2>1, <2>2
<1>8. \A w \in Workers : wpc'[w] \in Closing => Finished(job[w])'
  BY <1>2 DEF KeptOK, Finished
<1>9. \A s \in SubTasks : Scheduled(s)' => Kept(s)' BY <1>4, <1>6 DEF KeptOK
<1> QED BY <1>7, <1>8, <1>9 DEF KeptOK

\* A worker that pops a subtask has it, and leaves the others in the ring.
LEMMA PopKeeps ==
  ASSUME TypeInv, PlacesOK, NEW w \in Workers, Pop(w), NEW s \in SubTasks
  PROVE  (Enqueued(s) => Enqueued(s)' \/ AtWork(s)') /\ (AtWork(s) => AtWork(s)')
<1>1. PICK q \in Seq(SubTasks) : q = ring /\ q # <<>> BY DEF Pop, TypeInv, QueuesOK
<1>2. ring' = Tail(q) /\ wpc[w] = "idle" /\ job' = [job EXCEPT ![w] = Head(q)]
  BY <1>1 DEF Pop, WAt, WJob
<1>3. job'[w] = q[1] /\ \A v \in Workers \ {w} : job'[v] = job[v]
  BY <1>1, <1>2 DEF TypeInv, WorkerInv, WorkersOK
<1>4. \A i \in DOMAIN q : i = 1 \/ (i - 1 \in DOMAIN Tail(q) /\ Tail(q)[i - 1] = q[i])
  BY <1>1
<1>5. Enqueued(s) => Enqueued(s)' \/ AtWork(s)' BY <1>1, <1>2, <1>3, <1>4 DEF Enqueued, AtWork
<1>6. job[w] = None /\ s # None BY <1>2, ConstantsAssumption DEF PlacesOK, Calls
<1> QED BY <1>3, <1>5, <1>6 DEF AtWork

\* A worker closes what has ended, and drops a subtask only then, or when it is not known.
LEMMA WorkerCloses ==
  ASSUME TypeInv, NEW w \in Workers, WorkerStep(w)
  PROVE  /\ wpc'[w] \in Closing =>
              FinishFunction(w) \/ (wpc[w] \in Closing /\ job'[w] = job[w])
         /\ job'[w] # job[w] /\ ~Pop(w) =>
              wpc[w] \in Closing \/ (wpc[w] = "find" /\ job[w] \notin sub_tasks)
         /\ EraseMembers(w) \/ UNCHANGED main_to_subtasks
<1> USE DEF workerOther, WAt, Closing
<1>1. ASSUME NEW l, WGoto(w, l) PROVE wpc'[w] = l /\ job'[w] = job[w]
  BY <1>1 DEF WGoto, TypeInv, WorkerInv, WorkersOK
<1>2. ASSUME NEW l, NEW s, WJob(w, l, s) PROVE wpc'[w] = l
  BY <1>2 DEF WJob, TypeInv, WorkerInv, WorkersOK
<1>3. ASSUME NextDependency(w) PROVE wpc'[w] = "deps" /\ job'[w] = job[w]
  BY <1>3 DEF NextDependency, TypeInv, WorkerInv, WorkersOK
<1>4. EraseMembers(w) \/ UNCHANGED main_to_subtasks
  BY DEF WorkerStep, Pop, LeavePool, FindSubTask, LookupDependency, FindDependency,
     AwaitDependency, StartFunction, FinishFunction, PostResult, FlagCompleted,
     NotifyDependents, FindMainTask, CountCompleted, EraseMainTask, UseDestroyed, taskVars,
     mainVars, mainMaps
<1>5. CASE Pop(w) BY <1>2, <1>4, <1>5 DEF Pop
<1>6. CASE FindSubTask(w) BY <1>1, <1>2, <1>4, <1>6 DEF FindSubTask, WReturn
<1>7. CASE LookupDependency(w)
  BY <1>3, <1>4, <1>7 DEF LookupDependency, TypeInv, WorkerInv, WorkersOK
<1>8. CASE FindDependency(w) \/ AwaitDependency(w) \/ StartFunction(w) \/ LeavePool(w)
  BY <1>1, <1>3, <1>4, <1>8 DEF FindDependency, AwaitDependency, StartFunction, LeavePool
<1>9. CASE FinishFunction(w) BY <1>1, <1>4, <1>9 DEF FinishFunction
<1>10. CASE PostResult(w) \/ FlagCompleted(w) \/ NotifyDependents(w) \/ EraseMainTask(w)
  BY <1>1, <1>4, <1>10 DEF PostResult, FlagCompleted, NotifyDependents, EraseMainTask
<1>11. CASE FindMainTask(w) \/ CountCompleted(w) \/ EraseMembers(w)
  BY <1>1, <1>2, <1>4, <1>11 DEF FindMainTask, CountCompleted, EraseMembers, WReturn
<1>12. CASE UseDestroyed(w) BY <1>4, <1>12 DEF UseDestroyed, workerVars
<1> QED BY <1>5, <1>6, <1>7, <1>8, <1>9, <1>10, <1>11, <1>12 DEF WorkerStep

\* A worker keeps its subtask until the function has ended: a scheduled subtask is known.
LEMMA WorkerStepKept ==
  ASSUME WellFormed, PriorityInv, DependencyInv, PlaceInv, KeptOK, [Next]_vars,
         NEW w \in Workers, WorkerStep(w)
  PROVE  KeptOK'
<1>0. /\ TypeInv /\ PlacesOK /\ Unlisted \subseteq Uncounted /\ None \notin MainTasks
      /\ \A s \in SubTasks : s # None
      /\ \A v \in Workers : job[v] \in SubTasks \cup {None}
      /\ \A v \in Workers : wpc[v] \notin {"idle", "exited"} => job[v] \in SubTasks
  BY ConstantsAssumption
  DEF PriorityInv, PlaceInv, Unlisted, Uncounted, Calls, TypeInv, WorkerInv, WorkersOK, WorkerShape
<1>1. UNCHANGED <<clientVars, main_task_id, ready_subtasks>> BY WorkerFrame
<1>2. \A s \in SubTasks : Finished(s) => Finished(s)' BY <1>0, FinishedStays
<1>3. \A v \in Workers \ {w} : wpc'[v] = wpc[v] /\ job'[v] = job[v] BY <1>0, WorkerMoves
<1>4. \A s \in SubTasks : /\ Scheduled(s)' <=> Scheduled(s)
                          /\ Beyond(s, Unappended)' <=> Beyond(s, Unappended)
  BY <1>1, ReleasedSame, BeyondSame DEF Scheduled, Pending, clientVars
<1>5. ASSUME NEW v \in Workers, wpc'[v] \in Closing PROVE Finished(job[v])'
  <2>1. CASE wpc[v] \in Closing /\ job'[v] = job[v]
    <3>1. job[v] \in SubTasks /\ Finished(job[v]) BY <1>0, <2>1 DEF Closing, KeptOK
    <3> QED BY <1>2, <2>1, <3>1 DEF Finished
  <2>2. CASE v = w /\ FinishFunction(w) BY <1>0, <2>2, FinishMoves DEF Finished
  <2> QED BY <1>0, <1>3, <1>5, <2>1, <2>2, WorkerCloses
<1>6. ASSUME NEW s \in SubTasks, Scheduled(s) PROVE Kept(s)'
  <2>1. CASE Finished(s) BY <1>2, <2>1 DEF Kept
  <2>2. CASE Queued(s) BY <1>1, <2>2 DEF Kept, Queued
  <2>3. CASE Enqueued(s)
    <3>1. CASE Pop(w) BY <1>0, <2>3, <3>1, PopKeeps DEF Kept
    <3>2. CASE ~Pop(w) BY <1>0, <2>3, <3>2, WorkerMoves DEF Kept, Enqueued
    <3> QED BY <3>1, <3>2
  <2>4. CASE AtWork(s) /\ ~Finished(s)
    <3>1. PICK v \in Workers : job[v] = s BY <2>4 DEF AtWork
    <3>2. CASE job'[v] = s BY <3>2 DEF Kept, AtWork
    <3>3. CASE Pop(w) BY <1>0, <2>4, <3>3, PopKeeps DEF Kept
    <3>4. CASE job'[v] # s /\ ~Pop(w)
      <4>1. wpc[v] = "find" /\ s \notin sub_tasks
        BY <1>0, <1>3, <2>4, <3>1, <3>4, WorkerCloses DEF KeptOK
      <4>2. Beyond(s, Unlisted)
        <5>1. PICK m \in MainTasks : m = main_task_id[s] /\ Complete(m)
          BY <1>6 DEF Scheduled, Released
        <5>2. MainTaskName[s] = MainName[m] BY <1>0, <5>1 DEF DependencyInv, CountsOK
        <5> QED BY <1>0, <5>1, <5>2 DEF Complete, Beyond
      <4> QED BY <2>4, <4>1, <4>2 DEF DependencyInv, NamesOK
    <3> QED BY <3>2, <3>3, <3>4
  <2> QED BY <1>6, <2>1, <2>2, <2>3, <2>4 DEF KeptOK, Kept
<1>7. ASSUME NEW s \in SubTasks, Beyond(s, Unappended) PROVE Listed(s)' \/ Scheduled(s)
  <2>1. CASE UNCHANGED main_to_subtasks BY <1>1, <1>7, <2>1 DEF KeptOK, Listed
  <2>2. CASE EraseMembers(w)
    <3>1. /\ job[w] \in SubTasks
          /\ main_to_subtasks' = [main_to_subtasks EXCEPT ![main_task_id[job[w]]] = <<>>]
      BY <1>0, <2>2 DEF EraseMembers, WAt
    <3>2. Released(job[w])
      BY <2>2 DEF EraseMembers, WAt, DependencyInv, ReleasedOK
    <3>3. CASE main_task_id[s] = main_task_id[job[w]]
      <4>1. Released(s) BY <3>2, <3>3 DEF Released
      <4>2. Present(job[w]) BY DEF Present, AtWork
      <4>3. ~Pending(main_task_id[s])
        BY <3>1, <3>3, <4>2 DEF Pending, PlaceInv, PushOK
      <4> QED BY <4>1, <4>3 DEF Scheduled
    <3>4. CASE main_task_id[s] # main_task_id[job[w]]
      <4>1. main_task_id[s] \in MainTasks
        BY <1>0, <1>7 DEF Beyond, TypeInv, MapsOK
      <4>2. main_to_subtasks'[main_task_id[s]] = main_to_subtasks[main_task_id[s]]
        BY <1>0, <3>1, <3>4, <4>1 DEF TypeInv, MapsOK
      <4> QED BY <1>1, <1>7, <4>2 DEF KeptOK, Listed
    <3> QED BY <3>3, <3>4
  <2> QED BY <1>0, <2>1, <2>2, WorkerCloses
<1> QED BY <1>4, <1>5, <1>6, <1>7 DEF KeptOK

\* What the loop takes from a queue it puts in the ring.
LEMMA LoopStepKept ==
  ASSUME PriorityInv, KeptOK, LoopStep PROVE KeptOK'
<1>0. TypeInv BY DEF PriorityInv
<1>1. UNCHANGED <<clientVars, main_task_id, main_to_subtasks, wpc, job, fn>>
  BY LoopFrame DEF taskVars, subVars, subFields, mainVars, mainMaps, workerVars, histVars
<1>2. \A s \in SubTasks : /\ Scheduled(s)' <=> Scheduled(s)
                          /\ Beyond(s, Unappended)' <=> Beyond(s, Unappended)
  BY <1>1, ReleasedSame, BeyondSame DEF Scheduled, Pending, clientVars
<1>3. ASSUME NEW s \in SubTasks, Kept(s) PROVE Kept(s)'
  <2>1. CASE UNCHANGED <<ready_subtasks, ring>>
    BY <1>1, <1>3, <2>1 DEF Kept, Queued, Enqueued, AtWork, Finished
  <2>2. ASSUME NEW p \in Priorities, Dispatch(p) PROVE Kept(s)'
    <3>1. PICK q \in Seq(SubTasks) : q = ready_subtasks[p] /\ q # <<>>
      BY <1>0, <2>2 DEF Dispatch, ScanIsAt, TypeInv, QueuesOK
    <3>2. PICK g \in Seq(SubTasks) : g = ring BY <1>0 DEF TypeInv, QueuesOK
    <3>3. /\ ready_subtasks'[p] = Tail(q) /\ ring' = Append(g, Head(q))
          /\ \A r \in Priorities \ {p} : ready_subtasks'[r] = ready_subtasks[r]
      BY <1>0, <2>2, <3>1, <3>2 DEF Dispatch, TypeInv, QueuesOK
    <3>4. /\ \A i \in DOMAIN g : i \in DOMAIN Append(g, Head(q)) /\ Append(g, Head(q))[i] = g[i]
          /\ Len(g) + 1 \in DOMAIN Append(g, Head(q)) /\ Append(g, Head(q))[Len(g) + 1] = q[1]
      BY <3>1
    <3>5. \A i \in DOMAIN q : i = 1 \/ (i - 1 \in DOMAIN Tail(q) /\ Tail(q)[i - 1] = q[i])
      BY <3>1
    <3>6. Enqueued(s) => Enqueued(s)' BY <3>2, <3>3, <3>4 DEF Enqueued
    <3>7. ASSUME NEW r \in Priorities, NEW i \in DOMAIN ready_subtasks[r],
                 ready_subtasks[r][i] = s
          PROVE  Queued(s)' \/ Enqueued(s)'
      <4>1. CASE r = p
        <5>1. CASE i = 1 BY <3>1, <3>3, <3>4, <3>7, <4>1, <5>1 DEF Enqueued
        <5>2. CASE i # 1 BY <3>1, <3>3, <3>5, <3>7, <4>1, <5>2 DEF Queued
        <5> QED BY <5>1, <5>2
      <4>2. CASE r # p BY <3>3, <3>7, <4>2 DEF Queued
      <4> QED BY <4>1, <4>2
    <3> QED BY <1>1, <1>3, <3>6, <3>7 DEF Kept, Queued, AtWork, Finished
  <2> QED BY <2>1, <2>2, LoopQuiet
<1> QED BY <1>1, <1>2, <1>3 DEF KeptOK, Listed, Finished

\* KeptOK holds at first, and every step keeps it.
LEMMA StepKept ==
  ASSUME WellFormed
  PROVE  /\ Init => KeptOK
         /\ PriorityInv /\ DependencyInv /\ PlaceInv /\ KeptOK /\ [Next]_vars => KeptOK'
<1>1. ASSUME Init PROVE KeptOK
  <2>1. \A s \in SubTasks : main_task_id[s] = None BY <1>1 DEF Init
  <2>2. None \notin MainTasks BY ConstantsAssumption DEF Calls
  <2>3. \A w \in Workers : wpc[w] \notin Closing BY <1>1 DEF Init, Closing
  <2> QED BY <2>1, <2>2, <2>3 DEF KeptOK, Scheduled, Released, Beyond
<1>2. ASSUME PriorityInv, DependencyInv, PlaceInv, KeptOK, [Next]_vars PROVE KeptOK'
  <2>1. IdsStay BY <1>2, IdsStayed
  <2>2. ASSUME NEW c \in Clients, ClientStep(c) PROVE KeptOK' BY <1>2, <2>1, <2>2, ClientStepKept
  <2>3. ASSUME NEW w \in Workers, WorkerStep(w) PROVE KeptOK' BY <1>2, <2>3, WorkerStepKept
  <2>4. CASE LoopStep BY <1>2, <2>4, LoopStepKept
  <2>5. CASE UNCHANGED vars
    BY <1>2, <2>5 DEF KeptOK, Scheduled, Released, Complete, Pending, Beyond, Kept, Listed,
       Queued, Enqueued, AtWork, Finished, vars, taskVars, mainVars, mainMaps, subVars,
       subFields, queueVars, clientVars, workerVars, histVars
  <2> QED BY <1>2, <2>2, <2>3, <2>4, <2>5 DEF Next, Rest
<1> QED BY <1>1, <1>2

\* A subtask is in one place at most, and in one if it is kept.
LEMMA CopiesOf ==
  ASSUME PriorityInv, PlacesOK, NEW s \in SubTasks
  PROVE  Copies(s) = IF Kept(s) THEN 1 ELSE 0
<1> DEFINE Q == UNION {{p} \X InReadyAt(s, p) : p \in Priorities}
           F == IF Finished(s) /\ AtWorker(s) = {} THEN 1 ELSE 0
<1>1. /\ Queued(s) => ~Enqueued(s) /\ ~AtWork(s) /\ ~Finished(s)
      /\ Enqueued(s) => ~AtWork(s) /\ ~Finished(s)
  BY DEF PlacesOK, Finished
<1>2. Cardinality(Q) = IF Queued(s) THEN 1 ELSE 0
  <2>1. CASE Queued(s)
    <3>0. PICK p \in Priorities : \E i \in DOMAIN ready_subtasks[p] : ready_subtasks[p][i] = s
      BY <2>1 DEF Queued
    <3>1. PICK i \in DOMAIN ready_subtasks[p] : ready_subtasks[p][i] = s BY <3>0
    <3>2. \A r \in Priorities \ {p} : InReadyAt(s, r) = {}
      BY <3>1 DEF InReadyAt, PriorityInv, ReadyAtPriority
    <3>3. InReadyAt(s, p) = {i} BY <3>1 DEF InReadyAt, PlacesOK
    <3>4. Q = {<<p, i>>} BY <3>2, <3>3
    <3> QED BY <2>1, <3>4, FS_Singleton
  <2>2. CASE ~Queued(s)
    <3>1. \A p \in Priorities : InReadyAt(s, p) = {} BY <2>2 DEF Queued, InReadyAt
    <3>2. Q = {} BY <3>1
    <3> QED BY <2>2, <3>2, FS_EmptySet
  <2> QED BY <2>1, <2>2
<1>3. Cardinality(InRing(s)) = IF Enqueued(s) THEN 1 ELSE 0
  <2>1. CASE Enqueued(s)
    <3>1. PICK i \in DOMAIN ring : ring[i] = s BY <2>1 DEF Enqueued
    <3>2. InRing(s) = {i} BY <3>1 DEF InRing, PlacesOK
    <3> QED BY <2>1, <3>2, FS_Singleton
  <2>2. CASE ~Enqueued(s)
    <3>1. InRing(s) = {} BY <2>2 DEF Enqueued, InRing
    <3> QED BY <2>2, <3>1, FS_EmptySet
  <2> QED BY <2>1, <2>2
<1>4. /\ Cardinality(AtWorker(s)) = IF AtWork(s) THEN 1 ELSE 0
      /\ AtWorker(s) = {} <=> ~AtWork(s)
  <2>1. CASE AtWork(s)
    <3>1. PICK w \in Workers : job[w] = s BY <2>1 DEF AtWork
    <3>2. s # None BY ConstantsAssumption DEF Calls
    <3>3. AtWorker(s) = {w} BY <3>1, <3>2 DEF AtWorker, PlacesOK
    <3> QED BY <2>1, <3>3, FS_Singleton
  <2>2. CASE ~AtWork(s)
    <3>1. AtWorker(s) = {} BY <2>2 DEF AtWork, AtWorker
    <3> QED BY <2>2, <3>1, FS_EmptySet
  <2> QED BY <2>1, <2>2
<1>5. Copies(s) = Cardinality(Q) + Cardinality(InRing(s)) + Cardinality(AtWorker(s)) + F
  BY DEF Copies
<1> HIDE DEF Q
<1> QED BY <1>1, <1>2, <1>3, <1>4, <1>5 DEF Kept

\* A subtask is in one place at most, from the push of its list (EventDispatcher.hpp:313) over the
\* loop (lines 177-183) to the end of its closure, whatever the clients submit: also when tasks have
\* equal names, or a main task gets more subtasks than it announced.
THEOREM NeverInTwoPlaces == Spec => [](\A s \in SubTasks : Copies(s) <= 1)
<1>1. Init => PriorityInv /\ OnceInv BY InitPriority, InitPlaces
<1>2. PriorityInv /\ OnceInv /\ [Next]_vars => (PriorityInv /\ OnceInv)'
  BY StepPriority, StepOnce
<1>3. PriorityInv /\ OnceInv => \A s \in SubTasks : Copies(s) <= 1
  <2> SUFFICES ASSUME PriorityInv, OnceInv, NEW s \in SubTasks PROVE Copies(s) <= 1 OBVIOUS
  <2>1. Copies(s) = IF Kept(s) THEN 1 ELSE 0 BY CopiesOf DEF OnceInv
  <2> QED BY <2>1
<1> QED BY <1>1, <1>2, <1>3, PTL DEF Spec

\* When all calls that submit to a main task have returned, its list has been pushed.
LEMMA AcceptedScheduled ==
  ASSUME Distinct, TypeInv, CallsOK, CountsOK, NEW s \in SubTasks,
         \A t \in Siblings(s) : Accepted(t)
  PROVE  Scheduled(s)
<1>1. None \notin MainTasks BY ConstantsAssumption DEF Calls
<1>2. \A t \in Siblings(s) : /\ t \in SubTasks /\ main_task_id[t] \in MainTasks
                             /\ MainTaskName[t] = MainName[main_task_id[t]]
                             /\ \A c \in Clients : call[c] # t
  BY DEF Siblings, Accepted, CallsOK, CountsOK, TypeInv, MapsOK
<1>3. s \in Siblings(s) BY DEF Siblings
<1>4. PICK m \in MainTasks : m = main_task_id[s] /\ MainTaskName[s] = MainName[m]
  BY <1>2, <1>3
<1>5. \A t \in SubTasks : MainTaskName[t] = MainName[m] => t \in Siblings(s) /\ main_task_id[t] = m
  BY <1>2, <1>4 DEF Siblings, Distinct
<1>6. Complete(m) BY <1>1, <1>2, <1>5 DEF Complete, Beyond
<1>7. ~Pending(m)
  <2> SUFFICES ASSUME NEW c \in Clients, cpc[c] \in Pushing, main_task_id[call[c]] = m PROVE FALSE
    BY DEF Pending
  <2>1. call[c] \in SubTasks BY DEF TypeInv, ClientInv, ClientShape, AddingSub, Pushing
  <2>2. call[c] \in Siblings(s) BY <1>1, <1>5, <2>1 DEF CountsOK
  <2> QED BY <1>2, <2>2
<1> QED BY <1>4, <1>6, <1>7 DEF Scheduled, Released

\* A subtask is in one place at most from addSubTask (EventDispatcher.hpp:313) over the loop (lines
\* 177-183) to the end of its closure, and in one once all calls that submit to its main task have
\* returned: none is run twice, and none is lost.
THEOREM NoSubTaskLost == Distinct => (Spec => []NoneLost)
<1> SUFFICES ASSUME Distinct PROVE Spec => []NoneLost OBVIOUS
<1>0. WellFormed BY DEF Distinct
<1> DEFINE Inv == PriorityInv /\ DependencyInv /\ PlaceInv
<1>1. Init => KeptOK BY <1>0, StepKept
<1>2. Inv /\ KeptOK /\ [Next]_vars => KeptOK' BY <1>0, StepKept
<1>3. Inv /\ KeptOK => NoneLost
  <2> SUFFICES ASSUME Inv, KeptOK, NEW s \in SubTasks
               PROVE  /\ Copies(s) <= 1
                      /\ (\A t \in Siblings(s) : Accepted(t)) => Copies(s) = 1
    BY DEF NoneLost
  <2>1. Copies(s) = IF Kept(s) THEN 1 ELSE 0 BY CopiesOf DEF PlaceInv
  <2>2. (\A t \in Siblings(s) : Accepted(t)) => Kept(s)
    BY AcceptedScheduled DEF KeptOK, PriorityInv, DependencyInv
  <2> QED BY <2>1, <2>2
<1>4. Spec => []Inv BY <1>0, AllInvariants
<1> HIDE DEF Inv
<1> QED BY <1>1, <1>2, <1>3, <1>4, PTL DEF Spec
=============================================================================
