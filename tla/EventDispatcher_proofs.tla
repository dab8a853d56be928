------------------------ MODULE EventDispatcher_proofs ------------------------
(***************************************************************************)
(* Proofs about the dispatcher, for every set of clients, workers and      *)
(* calls that the assumptions of EventDispatcher admit.                    *)
(***************************************************************************)
EXTENDS EventDispatcher, FiniteSetTheorems, TLAPS

AddingMain == {"am_waiting", "am_insert"}
AddingSub  == {"as_name", "as_insert", "as_members", "as_slot", "as_main", "as_ready", "as_lock",
               "as_push", "as_release"}
Fetching   == {"gr_slot", "gr_wait", "gr_take", "gr_name", "gr_erase"}

\* What the control of a client says of the call it makes.
ClientShape ==
  \A c \in Clients :
    /\ cpc[c] \in AddingMain => call[c] \in MainTasks
    /\ cpc[c] \in AddingSub => call[c] \in SubTasks /\ main_task_id[call[c]] \in MainTasks
    /\ cpc[c] \in Fetching => call[c] \in Fetches /\ found[c] \in SubTasks
ClientInv == ClientsOK /\ ClientShape

\* What the control of a worker says of the subtask it runs.
WorkerShape ==
  \A w \in Workers :
    /\ wpc[w] \notin {"idle", "exited"} => job[w] \in SubTasks
    /\ wpc[w] = "post" => fn[job[w]] \in {"value", "error"}
WorkerInv == WorkersOK /\ WorkerShape

TypeInv == MapsOK /\ QueuesOK /\ OthersOK /\ ClientInv /\ WorkerInv

-----------------------------------------------------------------------------
(* The operators that move a thread. *)

\* A step that only moves client c to another step of the same call.
LEMMA CGotoInv ==
  ASSUME ClientInv, NEW c \in Clients, NEW l \in ClientSteps, CGoto(c, l),
         UNCHANGED <<outcome, main_task_id>>,
         l \in AddingMain => cpc[c] \in AddingMain,
         l \in AddingSub => cpc[c] \in AddingSub,
         l \in Fetching => cpc[c] \in Fetching
  PROVE  ClientInv'
<1>1. ClientsOK' BY DEF ClientInv, ClientsOK, CGoto
<1>2. ClientShape' BY DEF ClientInv, ClientsOK, ClientShape, CGoto
<1> QED BY <1>1, <1>2 DEF ClientInv

\* The first critical section of a call, when it leaves the client inside the call.
LEMMA EnterInv ==
  ASSUME ClientInv, NEW c \in Clients, NEW k \in Calls, NEW l \in ClientSteps,
         NEW s \in SubTasks \cup {None}, Enter(c, k, l, s),
         \A d \in Clients \ {c} :
           cpc[d] \in AddingSub => main_task_id'[call[d]] = main_task_id[call[d]]
                                   \/ main_task_id'[call[d]] \in MainTasks,
         l \in AddingMain => k \in MainTasks,
         l \in AddingSub => k \in SubTasks /\ main_task_id'[k] \in MainTasks,
         l \in Fetching => k \in Fetches /\ s \in SubTasks
  PROVE  ClientInv'
<1>1. ClientsOK' BY DEF ClientInv, ClientsOK, Enter, Outcomes
<1>2. ClientShape' BY DEF ClientInv, ClientsOK, ClientShape, Enter
<1> QED BY <1>1, <1>2 DEF ClientInv

\* A call that is over with its first critical section.
LEMMA ImmediatelyInv ==
  ASSUME ClientInv, NEW k \in Calls, NEW o \in Outcomes, Immediately(k, o), UNCHANGED main_task_id
  PROVE  ClientInv'
BY DEF ClientInv, ClientsOK, ClientShape, Immediately, clientVars

\* The last step of a call.
LEMMA ReturnInv ==
  ASSUME ClientInv, NEW c \in Clients, NEW o \in Outcomes, Return(c, o), UNCHANGED main_task_id
  PROVE  ClientInv'
<1>1. ClientsOK' BY DEF ClientInv, ClientsOK, Return, ClientSteps
<1>2. ClientShape'
  BY DEF ClientInv, ClientsOK, ClientShape, Return, AddingMain, AddingSub, Fetching
<1> QED BY <1>1, <1>2 DEF ClientInv

\* A step that leaves the clients and their calls alone.
LEMMA ClientStays ==
  ASSUME ClientInv, UNCHANGED <<clientVars, outcome, main_task_id>>
  PROVE  ClientInv'
BY DEF ClientInv, ClientsOK, ClientShape, clientVars

\* A step that only moves worker w to another step of the closure.
LEMMA WGotoInv ==
  ASSUME WorkerInv, NEW w \in Workers, NEW l \in WorkerSteps, WGoto(w, l), UNCHANGED fn,
         l # "post", l \in {"idle", "exited"} \/ wpc[w] \notin {"idle", "exited"}
  PROVE  WorkerInv'
<1>1. WorkersOK' BY DEF WorkerInv, WorkersOK, WGoto
<1>2. WorkerShape' BY DEF WorkerInv, WorkersOK, WorkerShape, WGoto
<1> QED BY <1>1, <1>2 DEF WorkerInv

\* A step that gives worker w a subtask or takes it away.
LEMMA WJobInv ==
  ASSUME WorkerInv, NEW w \in Workers, NEW l \in WorkerSteps, NEW s \in SubTasks \cup {None},
         WJob(w, l, s), UNCHANGED fn, l # "post", l \in {"idle", "exited"} \/ s \in SubTasks
  PROVE  WorkerInv'
<1>1. WorkersOK' BY DEF WorkerInv, WorkersOK, WJob
<1>2. WorkerShape' BY DEF WorkerInv, WorkersOK, WorkerShape, WJob
<1> QED BY <1>1, <1>2 DEF WorkerInv

\* A step to the next name of the list of dependencies.
LEMMA NextDependencyInv ==
  ASSUME WorkerInv, NEW w \in Workers, NextDependency(w), UNCHANGED fn,
         wpc[w] \notin {"idle", "exited"}
  PROVE  WorkerInv'
<1>1. WorkersOK' BY DEF WorkerInv, WorkersOK, NextDependency, WorkerSteps
<1>2. WorkerShape' BY DEF WorkerInv, WorkersOK, WorkerShape, NextDependency
<1> QED BY <1>1, <1>2 DEF WorkerInv

\* A step that leaves the workers and how functions ended alone.
LEMMA WorkerStays == ASSUME WorkerInv, UNCHANGED <<workerVars, fn>> PROVE WorkerInv'
BY DEF WorkerInv, WorkersOK, WorkerShape, workerVars

-----------------------------------------------------------------------------
\* The dispatcher is constructed with empty maps, queues and counts.
LEMMA InitInv == ASSUME Init PROVE TypeInv
<1> USE ConstantsAssumption DEF Init
<1>1. MapsOK BY DEF MapsOK, Slots
<1>2. QueuesOK BY FS_CardinalityType DEF QueuesOK, PoolSize
<1>3. ClientInv
  BY DEF ClientInv, ClientsOK, ClientSteps, Outcomes, ClientShape, AddingMain, AddingSub, Fetching
<1>4. WorkerInv BY DEF WorkerInv, WorkersOK, WorkerSteps, WorkerShape
<1>5. OthersOK
  <2>1. HIGHEST \in Priorities BY DEF Priorities, LOWEST, HIGHEST
  <2> QED BY <2>1 DEF OthersOK, LoopSteps
<1> QED BY <1>1, <1>2, <1>3, <1>4, <1>5 DEF TypeInv

\* No step of a call of addMainTask, addSubTask, getSubTaskResult, start or Stop, nor of the
\* destructor, breaks TypeInv.
LEMMA ClientStepInv ==
  ASSUME TypeInv, NEW c \in Clients, ClientStep(c) PROVE TypeInv'
<1> USE DEF TypeInv, CAt, clientOther, taskVars, mainVars, subVars, mainMaps, counts, subMaps,
            subFields, queueVars, loopVars, exitVars, histVars
<1>1. ASSUME NEW m \in MainTasks, AddMainTask(c, m) PROVE TypeInv'
  <2>1. MapsOK'
    BY <1>1 DEF AddMainTask, MapsOK, ClientInv, ClientShape, AddingMain, AddingSub, Fetching
  <2>2. ClientInv'
    BY <1>1, EnterInv DEF AddMainTask, ClientSteps, AddingMain, AddingSub, Fetching, Calls
  <2> QED BY <1>1, <2>1, <2>2, WorkerStays DEF AddMainTask, QueuesOK, OthersOK
<1>2. CASE EnterWaiting(c)
  <2>1. MapsOK'
    BY <1>2 DEF EnterWaiting, MapsOK, ClientInv, ClientShape, AddingMain, AddingSub, Fetching
  <2>2. ClientInv'
    BY <1>2, CGotoInv DEF EnterWaiting, ClientSteps, AddingMain, AddingSub, Fetching
  <2> QED BY <1>2, <2>1, <2>2, WorkerStays DEF EnterWaiting, QueuesOK, OthersOK
<1>3. CASE InsertMain(c)
  <2>1. MapsOK'
    BY <1>3 DEF InsertMain, MapsOK, ClientInv, ClientShape, AddingMain, AddingSub, Fetching
  <2>2. ClientInv'
    BY <1>3, ReturnInv DEF InsertMain, ClientSteps, AddingMain, AddingSub, Fetching, Outcomes
  <2> QED BY <1>3, <2>1, <2>2, WorkerStays DEF InsertMain, QueuesOK, OthersOK
<1>4. ASSUME NEW s \in SubTasks, AddSubTask(c, s) PROVE TypeInv'
  <2>1. MapsOK'
    <3>1. PICK m \in MainTasks \cup {None} : m = main_task_name_to_id[MainTaskName[s]]
      BY ConstantsAssumption DEF MapsOK
    <3>2. main_task_id' \in [SubTasks -> MainTasks \cup {None}]
      <4>1. CASE m = None BY <1>4, <3>1, <4>1 DEF AddSubTask, MapsOK
      <4>2. CASE m # None BY <1>4, <3>1, <4>2 DEF AddSubTask, MapsOK
      <4> QED BY <4>1, <4>2
    <3> QED BY <1>4, <3>2 DEF AddSubTask, MapsOK
  <2>2. ClientInv'
    <3>1. PICK m \in MainTasks \cup {None} : m = main_task_name_to_id[MainTaskName[s]]
      BY ConstantsAssumption DEF MapsOK
    <3>2. CASE m = None
      <4>1. Immediately(s, "not_found") /\ UNCHANGED main_task_id
        BY <1>4, <3>1, <3>2 DEF AddSubTask
      <4> QED BY <4>1, ImmediatelyInv DEF Calls, Outcomes
    <3>3. CASE m # None
      <4>1. Enter(c, s, "as_name", None) /\ main_task_id' = [main_task_id EXCEPT ![s] = m]
        BY <1>4, <3>1, <3>3 DEF AddSubTask
      <4>2. main_task_id'[s] \in MainTasks
        BY <3>1, <3>3, <4>1 DEF MapsOK
      <4>3. ASSUME NEW d \in Clients \ {c}, cpc[d] \in AddingSub
            PROVE  main_task_id'[call[d]] \in MainTasks
        BY <3>1, <3>3, <4>1, <4>2, <4>3 DEF ClientInv, ClientShape, MapsOK
      <4> QED BY <4>1, <4>2, <4>3, EnterInv DEF Calls, ClientSteps, AddingMain, AddingSub, Fetching
    <3> QED BY <3>2, <3>3
  <2> QED BY <1>4, <2>1, <2>2, WorkerStays DEF AddSubTask, QueuesOK, OthersOK
<1>5. CASE NameSubTask(c)
  <2>1. MapsOK'
    BY <1>5 DEF NameSubTask, MapsOK, ClientInv, ClientShape, AddingMain, AddingSub, Fetching
  <2>2. ClientInv'
    BY <1>5, CGotoInv DEF NameSubTask, ClientSteps, AddingMain, AddingSub, Fetching
  <2> QED BY <1>5, <2>1, <2>2, WorkerStays DEF NameSubTask, QueuesOK, OthersOK
<1>6. CASE InsertSubTask(c)
  <2>1. MapsOK'
    BY <1>6 DEF InsertSubTask, MapsOK, ClientInv, ClientShape, AddingMain, AddingSub, Fetching
  <2>2. ClientInv'
    BY <1>6, CGotoInv DEF InsertSubTask, ClientSteps, AddingMain, AddingSub, Fetching
  <2> QED BY <1>6, <2>1, <2>2, WorkerStays DEF InsertSubTask, QueuesOK, OthersOK
<1>7. CASE AppendMember(c)
  <2>1. MapsOK'
    BY <1>7 DEF AppendMember, MapsOK, ClientInv, ClientShape, AddingMain, AddingSub, Fetching
  <2>2. ClientInv'
    BY <1>7, CGotoInv DEF AppendMember, ClientSteps, AddingMain, AddingSub, Fetching
  <2> QED BY <1>7, <2>1, <2>2, WorkerStays DEF AppendMember, QueuesOK, OthersOK
<1>8. CASE EmplaceSlot(c)
  <2>1. MapsOK'
    BY <1>8 DEF EmplaceSlot, MapsOK, ClientInv, ClientShape, AddingMain, AddingSub, Fetching
  <2>2. ClientInv'
    BY <1>8, CGotoInv DEF EmplaceSlot, ClientSteps, AddingMain, AddingSub, Fetching
  <2> QED BY <1>8, <2>1, <2>2, WorkerStays DEF EmplaceSlot, QueuesOK, OthersOK
<1>9. CASE FetchMain(c)
  <2>1. OthersOK' BY <1>9 DEF FetchMain, OthersOK, Undefined
  <2>2. ClientInv'
    BY <1>9, CGotoInv, ClientStays DEF FetchMain, ClientSteps, AddingMain, AddingSub,
       Fetching, Undefined
  <2> QED BY <1>9, <2>1, <2>2, WorkerStays DEF FetchMain, MapsOK, QueuesOK
<1>10. CASE CountReady(c)
  <2>1. MapsOK'
    <3>1. PICK m \in MainTasks : m = main_task_id[call[c]]
      BY <1>10 DEF CountReady, ClientInv, ClientShape, AddingSub
    <3>2. ready_count' = [ready_count EXCEPT ![m] = ready_count[m] + 1]
      BY <1>10, <3>1 DEF CountReady
    <3>3. ready_count[m] + 1 \in Nat BY DEF MapsOK
    <3>4. ready_count' \in [MainTasks -> Nat] BY <3>2, <3>3 DEF MapsOK
    <3> QED BY <1>10, <3>4 DEF CountReady, MapsOK
  <2>2. ClientInv'
    BY <1>10, CGotoInv, ReturnInv DEF CountReady, ClientSteps, AddingMain, AddingSub,
       Fetching, Outcomes
  <2> QED BY <1>10, <2>1, <2>2, WorkerStays DEF CountReady, QueuesOK, OthersOK
<1>11. CASE LockReady(c)
  <2>1. QueuesOK' BY <1>11 DEF LockReady, QueuesOK
  <2>2. ClientInv'
    BY <1>11, CGotoInv DEF LockReady, ClientSteps, AddingMain, AddingSub, Fetching
  <2> QED BY <1>11, <2>1, <2>2, WorkerStays DEF LockReady, MapsOK, OthersOK
<1>12. CASE PushMembers(c)
  <2>1. QueuesOK'
    <3>1. CASE ready_subtasks' = ready_subtasks BY <1>12, <3>1 DEF PushMembers, QueuesOK
    <3>2. CASE ready_subtasks' # ready_subtasks
      <4>1. PICK m : /\ m = main_task_id[call[c]]
                     /\ ready_subtasks' =
                          [ready_subtasks EXCEPT ![Priority[m]] = @ \o main_to_subtasks[m]]
        BY <1>12, <3>2 DEF PushMembers
      <4>2. m \in MainTasks
        BY <1>12, <4>1 DEF PushMembers, ClientInv, ClientShape, AddingSub
      <4>3. Priority[m] \in Priorities /\ main_to_subtasks[m] \in Seq(SubTasks)
        BY <4>2, ConstantsAssumption DEF MapsOK
      <4>4. ready_subtasks[Priority[m]] \o main_to_subtasks[m] \in Seq(SubTasks)
        BY <4>3 DEF QueuesOK
      <4>5. ready_subtasks' \in [Priorities -> Seq(SubTasks)]
        BY <4>1, <4>3, <4>4 DEF QueuesOK
      <4> QED BY <1>12, <4>5 DEF PushMembers, QueuesOK
    <3> QED BY <3>1, <3>2
  <2>2. OthersOK' BY <1>12 DEF PushMembers, OthersOK, Undefined
  <2>3. ClientInv'
    BY <1>12, CGotoInv, ClientStays DEF PushMembers, ClientSteps, AddingMain, AddingSub,
       Fetching, Undefined
  <2> QED BY <1>12, <2>1, <2>2, <2>3, WorkerStays DEF PushMembers, MapsOK
<1>13. CASE LeaveWaiting(c)
  <2>1. MapsOK'
    BY <1>13 DEF LeaveWaiting, MapsOK, ClientInv, ClientShape, AddingMain, AddingSub, Fetching
  <2>2. QueuesOK' BY <1>13 DEF LeaveWaiting, QueuesOK
  <2>3. ClientInv'
    BY <1>13, ReturnInv DEF LeaveWaiting, ClientSteps, AddingMain, AddingSub, Fetching,
       Outcomes
  <2> QED BY <1>13, <2>1, <2>2, <2>3, WorkerStays DEF LeaveWaiting, OthersOK
<1>14. ASSUME NEW f \in Fetches, GetSubTaskResult(c, f) PROVE TypeInv'
  <2>1. ClientInv'
    <3>1. PICK s \in SubTasks \cup {None} : s = sub_task_name_to_id[FetchName[f]]
      BY ConstantsAssumption DEF MapsOK
    <3>2. CASE s = None
      <4>1. Immediately(f, "not_found") /\ UNCHANGED main_task_id
        BY <1>14, <3>1, <3>2 DEF GetSubTaskResult
      <4> QED BY <4>1, ImmediatelyInv DEF Calls, Outcomes
    <3>3. CASE s # None
      <4>1. Enter(c, f, "gr_slot", s) /\ UNCHANGED main_task_id
        BY <1>14, <3>1, <3>3 DEF GetSubTaskResult
      <4> QED BY <3>1, <3>3, <4>1, EnterInv DEF Calls, ClientSteps, AddingMain, AddingSub, Fetching
    <3> QED BY <3>2, <3>3
  <2> QED BY <1>14, <2>1, WorkerStays DEF GetSubTaskResult, MapsOK, QueuesOK, OthersOK
<1>15. CASE FindSlot(c)
  <2>1. ClientInv'
    BY <1>15, CGotoInv, ReturnInv DEF FindSlot, ClientSteps, AddingMain, AddingSub, Fetching,
       Outcomes
  <2> QED BY <1>15, <2>1, WorkerStays DEF FindSlot, MapsOK, QueuesOK, OthersOK
<1>16. CASE WaitSlot(c)
  <2>1. MapsOK'
    <3>1. found[c] \in SubTasks BY <1>16 DEF WaitSlot, ClientInv, ClientShape, Fetching
    <3>2. semaphore[found[c]] - 1 \in Nat BY <1>16, <3>1 DEF WaitSlot, SlotPosted, MapsOK
    <3>3. semaphore' = [semaphore EXCEPT ![found[c]] = semaphore[found[c]] - 1]
      BY <1>16 DEF WaitSlot
    <3>4. semaphore' \in [SubTasks -> Nat] BY <3>2, <3>3 DEF MapsOK
    <3> QED BY <1>16, <3>4 DEF WaitSlot, MapsOK
  <2>2. ClientInv' BY <1>16, CGotoInv DEF WaitSlot, ClientSteps, AddingMain, AddingSub, Fetching
  <2> QED BY <1>16, <2>1, <2>2, WorkerStays DEF WaitSlot, QueuesOK, OthersOK
<1>17. CASE TakeResult(c)
  <2>1. MapsOK'
    <3>1. slot' \in [SubTasks -> Slots] BY <1>17 DEF TakeResult, MapsOK, Slots
    <3> QED BY <1>17, <3>1 DEF TakeResult, MapsOK
  <2>2. ClientInv'
    <3>1. found[c] \in SubTasks BY <1>17 DEF TakeResult, ClientInv, ClientShape, Fetching
    <3>2. slot[found[c]] \in Outcomes BY <3>1 DEF MapsOK, Outcomes
    <3>3. /\ outcome' = [outcome EXCEPT ![call[c]] = slot[found[c]]]
          /\ CGoto(c, "gr_name") /\ UNCHANGED main_task_id
      BY <1>17 DEF TakeResult
    <3>4. ClientsOK' BY <3>2, <3>3 DEF ClientInv, ClientsOK, CGoto, ClientSteps
    <3>5. ClientShape'
      BY <1>17, <3>3
      DEF TakeResult, ClientInv, ClientsOK, ClientShape, CGoto, AddingMain, AddingSub, Fetching
    <3> QED BY <3>4, <3>5 DEF ClientInv
  <2> QED BY <1>17, <2>1, <2>2, WorkerStays DEF TakeResult, QueuesOK, OthersOK
<1>18. CASE EraseName(c)
  <2>1. MapsOK'
    BY <1>18 DEF EraseName, MapsOK, ClientInv, ClientShape, AddingMain, AddingSub, Fetching
  <2>2. ClientInv'
    BY <1>18, CGotoInv DEF EraseName, ClientSteps, AddingMain, AddingSub, Fetching
  <2> QED BY <1>18, <2>1, <2>2, WorkerStays DEF EraseName, QueuesOK, OthersOK
<1>19. CASE EraseSubTask(c)
  <2>1. MapsOK'
    BY <1>19 DEF EraseSubTask, MapsOK, ClientInv, ClientShape, AddingMain, AddingSub, Fetching
  <2>2. ClientInv'
    BY <1>19, ReturnInv DEF EraseSubTask, ClientSteps, AddingMain, AddingSub, Fetching,
       Outcomes
  <2> QED BY <1>19, <2>1, <2>2, WorkerStays DEF EraseSubTask, QueuesOK, OthersOK
<1>20. ASSUME NEW k \in Starts, Start(c, k) PROVE TypeInv'
  <2>1. OthersOK' BY <1>20 DEF Start, OthersOK
  <2>2. ClientInv'
    BY <1>20, EnterInv DEF Start, ClientSteps, AddingMain, AddingSub, Fetching, Calls
  <2> QED BY <1>20, <2>1, <2>2, WorkerStays DEF Start, MapsOK, QueuesOK
<1>21. CASE LaunchLoop(c)
  <2>1. OthersOK' BY <1>21 DEF LaunchLoop, OthersOK, LoopSteps
  <2>2. ClientInv' BY <1>21, ReturnInv, ClientStays DEF LaunchLoop, Outcomes
  <2> QED BY <1>21, <2>1, <2>2, WorkerStays DEF LaunchLoop, MapsOK, QueuesOK
<1>22. ASSUME NEW k \in Stops \cup Exits, Stop(c, k) PROVE TypeInv'
  <2>1. OthersOK' BY <1>22 DEF Stop, OthersOK
  <2>2. ClientInv'
    BY <1>22, EnterInv DEF Stop, ClientSteps, AddingMain, AddingSub, Fetching, Calls
  <2> QED BY <1>22, <2>1, <2>2, WorkerStays DEF Stop, MapsOK, QueuesOK
<1>23. ASSUME AfterJoin(c), UNCHANGED main_task_id PROVE ClientInv'
  BY <1>23, CGotoInv, ReturnInv
  DEF AfterJoin, ClientSteps, AddingMain, AddingSub, Fetching, Outcomes
<1>24. CASE TestJoinable(c)
  <2>1. ClientInv'
    BY <1>23, <1>24, CGotoInv DEF TestJoinable, ClientSteps, AddingMain, AddingSub, Fetching
  <2> QED BY <1>24, <2>1, WorkerStays DEF TestJoinable, MapsOK, QueuesOK, OthersOK
<1>25. CASE EnterJoin(c)
  <2>1. ClientInv'
    BY <1>25, CGotoInv, ReturnInv
    DEF EnterJoin, ClientSteps, AddingMain, AddingSub, Fetching, Outcomes
  <2> QED BY <1>25, <2>1, WorkerStays DEF EnterJoin, MapsOK, QueuesOK, OthersOK
<1>26. CASE Join(c)
  <2>1. OthersOK' BY <1>26 DEF Join, OthersOK, Undefined, LoopSteps
  <2>2. ClientInv' BY <1>23, <1>26, ClientStays DEF Join, Undefined
  <2> QED BY <1>26, <2>1, <2>2, WorkerStays DEF Join, MapsOK, QueuesOK
<1>27. CASE DestroyMutexes(c)
  <2>1. OthersOK' BY <1>27 DEF DestroyMutexes, OthersOK
  <2>2. ClientInv'
    BY <1>27, CGotoInv DEF DestroyMutexes, ClientSteps, AddingMain, AddingSub, Fetching
  <2> QED BY <1>27, <2>1, <2>2, WorkerStays DEF DestroyMutexes, MapsOK, QueuesOK
<1>28. CASE StopPool(c)
  <2>1. OthersOK' BY <1>28 DEF StopPool, OthersOK
  <2>2. ClientInv' BY <1>28, CGotoInv DEF StopPool, ClientSteps, AddingMain, AddingSub, Fetching
  <2> QED BY <1>28, <2>1, <2>2, WorkerStays DEF StopPool, MapsOK, QueuesOK
<1>29. CASE JoinPool(c)
  <2>1. ClientInv'
    BY <1>29, ReturnInv DEF JoinPool, ClientSteps, AddingMain, AddingSub, Fetching, Outcomes
  <2> QED BY <1>29, <2>1, WorkerStays DEF JoinPool, MapsOK, QueuesOK, OthersOK
<1> QED
  BY <1>1, <1>2, <1>3, <1>4, <1>5, <1>6, <1>7, <1>8, <1>9, <1>10, <1>11, <1>12, <1>13, <1>14,
     <1>15, <1>16, <1>17, <1>18, <1>19, <1>20, <1>21, <1>22, <1>24, <1>25, <1>26, <1>27, <1>28,
     <1>29
  DEF ClientStep

\* No step of a worker, from pop to the end of the closure, breaks TypeInv.
LEMMA WorkerStepInv ==
  ASSUME TypeInv, NEW w \in Workers, WorkerStep(w) PROVE TypeInv'
<1> USE DEF TypeInv, WAt, workerOther, taskVars, mainVars, subVars, mainMaps, counts, subMaps,
            subFields, queueVars, loopVars, exitVars, histVars
<1>1. CASE Pop(w)
  <2>1. QueuesOK'
    <3>1. ring \in Seq(SubTasks) /\ ring # <<>> BY <1>1 DEF Pop, QueuesOK
    <3>2. Tail(ring) \in Seq(SubTasks) /\ Len(Tail(ring)) = Len(ring) - 1 BY <3>1
    <3>3. Len(ring) \in Nat BY <3>1
    <3>4. PoolSize \in Nat BY ConstantsAssumption, FS_CardinalityType DEF PoolSize
    <3>5. Len(Tail(ring)) <= PoolSize BY <3>2, <3>3, <3>4 DEF QueuesOK
    <3> QED BY <1>1, <3>2, <3>5 DEF Pop, QueuesOK
  <2>2. WorkerInv'
    <3>1. Head(ring) \in SubTasks BY <1>1 DEF Pop, QueuesOK
    <3> QED BY <1>1, <3>1, WJobInv DEF Pop, WorkerSteps
  <2> QED BY <1>1, <2>1, <2>2, ClientStays DEF Pop, MapsOK, OthersOK
<1>2. CASE LeavePool(w)
  <2>1. WorkerInv' BY <1>2, WGotoInv DEF LeavePool, WorkerSteps
  <2> QED BY <1>2, <2>1, ClientStays DEF LeavePool, MapsOK, QueuesOK, OthersOK
<1>3. CASE FindSubTask(w)
  <2>1. WorkerInv' BY <1>3, WGotoInv, WJobInv DEF FindSubTask, WorkerSteps, WReturn
  <2> QED BY <1>3, <2>1, ClientStays DEF FindSubTask, MapsOK, QueuesOK, OthersOK
<1>4. CASE LookupDependency(w)
  <2>1. WorkerInv'
    <3>1. job[w] \in SubTasks /\ wpc[w] = "deps"
      BY <1>4 DEF LookupDependency, WorkerInv, WorkerShape
    <3>2. CASE NextDependency(w) BY <1>4, <3>1, <3>2, NextDependencyInv DEF LookupDependency
    <3>3. CASE ~NextDependency(w)
      <4>1. PICK d \in SubNames : d = Dependencies[job[w]][dep[w]]
        BY <1>4, <3>1, ConstantsAssumption DEF LookupDependency, WorkerInv, WorkersOK
      <4>2. PICK a \in SubTasks : /\ wpc' = [wpc EXCEPT ![w] = "dep_task"]
                                  /\ awaited' = [awaited EXCEPT ![w] = a]
                                  /\ UNCHANGED <<job, dep>>
        BY <1>4, <3>3, <4>1 DEF LookupDependency, MapsOK
      <4>3. WorkersOK' BY <4>2 DEF WorkerInv, WorkersOK, WorkerSteps
      <4>4. WorkerShape'
        BY <1>4, <3>1, <4>2 DEF LookupDependency, WorkerInv, WorkersOK, WorkerShape
      <4> QED BY <4>3, <4>4 DEF WorkerInv
    <3> QED BY <3>2, <3>3
  <2> QED BY <1>4, <2>1, ClientStays DEF LookupDependency, MapsOK, QueuesOK, OthersOK
<1>5. CASE FindDependency(w)
  <2>1. WorkerInv' BY <1>5, WGotoInv, NextDependencyInv DEF FindDependency, WorkerSteps
  <2> QED BY <1>5, <2>1, ClientStays DEF FindDependency, MapsOK, QueuesOK, OthersOK
<1>6. CASE AwaitDependency(w)
  <2>1. WorkerInv' BY <1>6, NextDependencyInv DEF AwaitDependency, WorkerSteps
  <2> QED BY <1>6, <2>1, ClientStays DEF AwaitDependency, MapsOK, QueuesOK, OthersOK
<1>7. CASE StartFunction(w)
  <2>1. OthersOK'
    <3>1. job[w] \in SubTasks BY <1>7 DEF StartFunction, WorkerInv, WorkerShape
    <3>2. started' \in [SubTasks -> Nat] BY <1>7, <3>1 DEF StartFunction, OthersOK
    <3> QED BY <1>7, <3>2 DEF StartFunction, OthersOK
  <2>2. WorkerInv' BY <1>7, WGotoInv DEF StartFunction, WorkerSteps
  <2> QED BY <1>7, <2>1, <2>2, ClientStays DEF StartFunction, MapsOK, QueuesOK
<1>8. CASE FinishFunction(w)
  <2>1. OthersOK' BY <1>8 DEF FinishFunction, OthersOK
  <2>2. WorkerInv'
    <3>1. job[w] \in SubTasks BY <1>8 DEF FinishFunction, WorkerInv, WorkerShape
    <3>2. /\ WGoto(w, "post")
          /\ \E r \in {"value", "error"} : fn' = [fn EXCEPT ![job[w]] = r]
      BY <1>8 DEF FinishFunction
    <3>3. WorkersOK' BY <3>2 DEF WorkerInv, WorkersOK, WGoto, WorkerSteps
    <3>4. WorkerShape' BY <3>1, <3>2 DEF WorkerInv, WorkersOK, WorkerShape, WGoto, OthersOK
    <3> QED BY <3>3, <3>4 DEF WorkerInv
  <2> QED BY <1>8, <2>1, <2>2, ClientStays DEF FinishFunction, MapsOK, QueuesOK
<1>9. CASE PostResult(w)
  <2>1. MapsOK'
    <3>1. job[w] \in SubTasks /\ fn[job[w]] \in {"value", "error"}
      BY <1>9 DEF PostResult, WorkerInv, WorkerShape
    <3>2. slot' \in [SubTasks -> Slots]
      <4>1. CASE job[w] \in subtask_results BY <1>9, <3>1, <4>1 DEF PostResult, MapsOK, Slots
      <4>2. CASE job[w] \notin subtask_results BY <1>9, <4>2 DEF PostResult, MapsOK
      <4> QED BY <4>1, <4>2
    <3>3. semaphore' \in [SubTasks -> Nat]
      <4>1. CASE job[w] \in subtask_results
        <5>1. semaphore' = [semaphore EXCEPT ![job[w]] = semaphore[job[w]] + 1]
          BY <1>9, <4>1 DEF PostResult
        <5>2. semaphore[job[w]] + 1 \in Nat BY <3>1 DEF MapsOK
        <5> QED BY <5>1, <5>2 DEF MapsOK
      <4>2. CASE job[w] \notin subtask_results BY <1>9, <4>2 DEF PostResult, MapsOK
      <4> QED BY <4>1, <4>2
    <3> QED BY <1>9, <3>2, <3>3 DEF PostResult, MapsOK
  <2>2. WorkerInv' BY <1>9, WGotoInv DEF PostResult, WorkerSteps
  <2> QED BY <1>9, <2>1, <2>2, ClientStays DEF PostResult, QueuesOK, OthersOK
<1>10. CASE FlagCompleted(w)
  <2>1. MapsOK' BY <1>10 DEF FlagCompleted, MapsOK, WorkerInv, WorkerShape
  <2>2. WorkerInv' BY <1>10, WGotoInv DEF FlagCompleted, WorkerSteps
  <2> QED BY <1>10, <2>1, <2>2, ClientStays DEF FlagCompleted, QueuesOK, OthersOK
<1>11. CASE NotifyDependents(w)
  <2>1. MapsOK' BY <1>11 DEF NotifyDependents, MapsOK, WorkerInv, WorkerShape
  <2>2. WorkerInv' BY <1>11, WGotoInv DEF NotifyDependents, WorkerSteps
  <2> QED BY <1>11, <2>1, <2>2, ClientStays DEF NotifyDependents, QueuesOK, OthersOK
<1>12. CASE FindMainTask(w)
  <2>1. WorkerInv' BY <1>12, WGotoInv, WJobInv DEF FindMainTask, WorkerSteps, WReturn
  <2> QED BY <1>12, <2>1, ClientStays DEF FindMainTask, MapsOK, QueuesOK, OthersOK
<1>13. CASE CountCompleted(w)
  <2>1. MapsOK'
    <3>1. PICK m : m = main_task_id[job[w]] OBVIOUS
    <3>2. completed_count' = [completed_count EXCEPT ![m] = @ + 1]
      BY <1>13, <3>1 DEF CountCompleted
    <3>3. completed_count' \in [MainTasks -> Nat]
      <4>1. CASE m \in MainTasks
        <5>1. completed_count[m] + 1 \in Nat BY <4>1 DEF MapsOK
        <5> QED BY <3>2, <4>1, <5>1 DEF MapsOK
      <4>2. CASE m \notin MainTasks
        <5>1. completed_count' = completed_count BY <3>2, <4>2 DEF MapsOK
        <5> QED BY <5>1 DEF MapsOK
      <4> QED BY <4>1, <4>2
    <3> QED BY <1>13, <3>3 DEF CountCompleted, MapsOK
  <2>2. WorkerInv' BY <1>13, WGotoInv, WJobInv DEF CountCompleted, WorkerSteps, WReturn
  <2> QED BY <1>13, <2>1, <2>2, ClientStays DEF CountCompleted, QueuesOK, OthersOK
<1>14. CASE EraseMainTask(w)
  <2>1. MapsOK' BY <1>14 DEF EraseMainTask, MapsOK, WorkerInv, WorkerShape
  <2>2. WorkerInv' BY <1>14, WGotoInv DEF EraseMainTask, WorkerSteps
  <2> QED BY <1>14, <2>1, <2>2, ClientStays DEF EraseMainTask, QueuesOK, OthersOK
<1>15. CASE EraseMembers(w)
  <2>1. MapsOK'
    <3>1. <<>> \in Seq(SubTasks) OBVIOUS
    <3>2. main_to_subtasks' \in [MainTasks -> Seq(SubTasks)]
      BY <1>15, <3>1 DEF EraseMembers, MapsOK
    <3> QED BY <1>15, <3>2 DEF EraseMembers, MapsOK
  <2>2. WorkerInv' BY <1>15, WJobInv DEF EraseMembers, WorkerSteps, WReturn
  <2> QED BY <1>15, <2>1, <2>2, ClientStays DEF EraseMembers, QueuesOK, OthersOK
<1>16. CASE UseDestroyed(w)
  <2>1. OthersOK' BY <1>16 DEF UseDestroyed, OthersOK, Undefined
  <2>2. WorkerInv' BY <1>16, WorkerStays DEF UseDestroyed, WorkerSteps, Undefined
  <2> QED BY <1>16, <2>1, <2>2, ClientStays DEF UseDestroyed, MapsOK, QueuesOK
<1> QED
  BY <1>1, <1>2, <1>3, <1>4, <1>5, <1>6, <1>7, <1>8, <1>9, <1>10, <1>11, <1>12, <1>13, <1>14,
     <1>15, <1>16
  DEF WorkerStep

\* No step of the event loop thread breaks TypeInv.
LEMMA LoopStepInv ==
  ASSUME TypeInv, LoopStep PROVE TypeInv'
<1> USE DEF TypeInv, LAt, loopOther, taskVars, mainVars, subVars, mainMaps, counts, subMaps,
            subFields, queueVars, loopVars, exitVars, histVars
<1>1. CASE TestRunning
  <2>1. OthersOK' BY <1>1 DEF TestRunning, OthersOK, LoopSteps
  <2> QED BY <1>1, <2>1, ClientStays, WorkerStays DEF TestRunning, MapsOK, QueuesOK
<1>2. CASE PendingReady
  <2>1. OthersOK' BY <1>2 DEF PendingReady, OthersOK, LoopSteps
  <2> QED BY <1>2, <2>1, ClientStays, WorkerStays DEF PendingReady, MapsOK, QueuesOK
<1>3. CASE PendingWaiting
  <2>1. OthersOK' BY <1>3 DEF PendingWaiting, OthersOK, LoopSteps
  <2> QED BY <1>3, <2>1, ClientStays, WorkerStays DEF PendingWaiting, MapsOK, QueuesOK
<1>4. CASE PendingSubTasks
  <2>1. OthersOK' BY <1>4 DEF PendingSubTasks, OthersOK, LoopSteps
  <2> QED BY <1>4, <2>1, ClientStays, WorkerStays DEF PendingSubTasks, MapsOK, QueuesOK
<1>5. CASE LoopLock
  <2>1. QueuesOK' BY <1>5 DEF LoopLock, QueuesOK
  <2>2. OthersOK' BY <1>5 DEF LoopLock, OthersOK, LoopSteps
  <2> QED BY <1>5, <2>1, <2>2, ClientStays, WorkerStays DEF LoopLock, MapsOK
<1>6. ASSUME NEW p \in Priorities, Dispatch(p) PROVE TypeInv'
  <2>1. QueuesOK'
    <3>1. PICK q : q = ready_subtasks[p] OBVIOUS
    <3>2. q \in Seq(SubTasks) /\ q # <<>> BY <1>6, <3>1 DEF Dispatch, ScanIsAt, QueuesOK
    <3>3. Head(q) \in SubTasks /\ Tail(q) \in Seq(SubTasks) BY <3>2
    <3>4. PoolSize \in Nat BY ConstantsAssumption, FS_CardinalityType DEF PoolSize
    <3>5. ring' = Append(ring, Head(q)) /\ ring \in Seq(SubTasks) /\ Len(ring) < PoolSize
      BY <1>6, <3>1 DEF Dispatch, RingHasRoom, QueuesOK
    <3>6. ring' \in Seq(SubTasks) /\ Len(ring') <= PoolSize BY <3>3, <3>4, <3>5
    <3>7. ready_subtasks' = [ready_subtasks EXCEPT ![p] = Tail(q)]
      BY <1>6, <3>1 DEF Dispatch, QueuesOK
    <3>8. ready_subtasks' \in [Priorities -> Seq(SubTasks)] BY <3>3, <3>7 DEF QueuesOK
    <3> QED BY <1>6, <3>6, <3>8 DEF Dispatch, QueuesOK
  <2> QED BY <1>6, <2>1, ClientStays, WorkerStays DEF Dispatch, MapsOK, OthersOK
<1>7. CASE LoopUnlock
  <2>1. QueuesOK' BY <1>7 DEF LoopUnlock, QueuesOK
  <2>2. OthersOK' BY <1>7 DEF LoopUnlock, OthersOK, LoopSteps, Priorities, LOWEST, HIGHEST
  <2> QED BY <1>7, <2>1, <2>2, ClientStays, WorkerStays DEF LoopUnlock, MapsOK
<1> QED BY <1>1, <1>2, <1>3, <1>4, <1>5, <1>6, <1>7 DEF LoopStep

\* TypeInv is inductive.
LEMMA StepInv == ASSUME TypeInv, [Next]_vars PROVE TypeInv'
<1>1. ASSUME NEW c \in Clients, ClientStep(c) PROVE TypeInv' BY <1>1, ClientStepInv
<1>2. ASSUME NEW w \in Workers, WorkerStep(w) PROVE TypeInv' BY <1>2, WorkerStepInv
<1>3. CASE LoopStep BY <1>3, LoopStepInv
<1>4. CASE UNCHANGED vars
  BY <1>4, ClientStays, WorkerStays
  DEF TypeInv, MapsOK, QueuesOK, OthersOK, vars, taskVars, mainVars, subVars, mainMaps, counts,
      subMaps, subFields, queueVars, clientVars, workerVars, loopVars, exitVars, histVars
<1> QED BY <1>1, <1>2, <1>3, <1>4 DEF Next, Rest

\* Whatever the clients submit, fetch and stop, the maps hold tasks that were submitted, the counts
\* and semaphores of EventDispatcher.hpp are never negative, and the pool's ring never holds more
\* tasks than it has slots.
THEOREM TypeCorrect == Spec => []TypeOK
<1>1. Init => TypeInv BY InitInv
<1>2. TypeInv /\ [Next]_vars => TypeInv' BY StepInv
<1>3. TypeInv => TypeOK BY DEF TypeInv, TypeOK, ClientInv, WorkerInv
<1> QED BY <1>1, <1>2, <1>3, PTL DEF Spec

-----------------------------------------------------------------------------
(* Priorities. *)

\* What puts a subtask into the queue of its priority: the id of its main task is set by its own
\* call only (line 285), it is listed under that id (line 296), and it becomes ready at the
\* priority of that main task (line 313).
IdOfCall == \A s \in SubTasks : main_task_id[s] # None => outcome[s] # "unissued"
ListedUnderMain ==
  \A m \in MainTasks : \A i \in DOMAIN main_to_subtasks[m] :
    main_task_id[main_to_subtasks[m][i]] = m
ReadyAtPriority ==
  \A p \in Priorities : \A i \in DOMAIN ready_subtasks[p] :
    /\ main_task_id[ready_subtasks[p][i]] \in MainTasks
    /\ Priority[main_task_id[ready_subtasks[p][i]]] = p
PriorityInv == TypeInv /\ IdOfCall /\ ListedUnderMain /\ ReadyAtPriority

\* A call that has been made stays made.
StaysMade == \A k \in Calls : outcome[k] # "unissued" => outcome'[k] # "unissued"

\* A step that touches neither ids nor lists nor ready queues.
LEMMA PriorityStays ==
  ASSUME PriorityInv, TypeInv', StaysMade,
         UNCHANGED <<main_task_id, main_to_subtasks, ready_subtasks>>
  PROVE  PriorityInv'
BY DEF PriorityInv, IdOfCall, ListedUnderMain, ReadyAtPriority, StaysMade, Calls

\* No step of a client makes the outcome of a call "unissued" again.
LEMMA ClientMakes == ASSUME TypeInv, NEW c \in Clients, ClientStep(c) PROVE StaysMade
<1> USE DEF StaysMade, TypeInv, ClientInv, ClientsOK
<1>1. CASE \/ EnterWaiting(c) \/ NameSubTask(c) \/ InsertSubTask(c) \/ AppendMember(c)
           \/ EmplaceSlot(c) \/ FetchMain(c) \/ LockReady(c) \/ PushMembers(c) \/ WaitSlot(c)
           \/ EraseName(c) \/ DestroyMutexes(c) \/ StopPool(c)
  BY <1>1 DEF EnterWaiting, NameSubTask, InsertSubTask, AppendMember, EmplaceSlot, FetchMain,
              LockReady, PushMembers, WaitSlot, EraseName, DestroyMutexes, StopPool
<1>2. ASSUME NEW m \in MainTasks, AddMainTask(c, m) PROVE StaysMade
  BY <1>2 DEF AddMainTask, Enter
<1>3. CASE InsertMain(c) BY <1>3 DEF InsertMain, Return
<1>4. ASSUME NEW s \in SubTasks, AddSubTask(c, s) PROVE StaysMade
  BY <1>4 DEF AddSubTask, Enter, Immediately
<1>5. CASE CountReady(c) BY <1>5 DEF CountReady, Return
<1>6. CASE LeaveWaiting(c) BY <1>6 DEF LeaveWaiting, Return
<1>7. ASSUME NEW f \in Fetches, GetSubTaskResult(c, f) PROVE StaysMade
  BY <1>7 DEF GetSubTaskResult, Enter, Immediately
<1>8. CASE FindSlot(c) BY <1>8 DEF FindSlot, Return
<1>9. CASE TakeResult(c)
  <2>1. found[c] \in SubTasks BY <1>9 DEF TakeResult, CAt, ClientShape, Fetching
  <2>2. slot[found[c]] # "unissued" BY <2>1 DEF MapsOK, Slots
  <2> QED BY <1>9, <2>2 DEF TakeResult
<1>10. CASE EraseSubTask(c) BY <1>10 DEF EraseSubTask, Return
<1>11. ASSUME NEW k \in Starts, Start(c, k) PROVE StaysMade BY <1>11 DEF Start, Enter
<1>12. ASSUME NEW k \in Stops \cup Exits, Stop(c, k) PROVE StaysMade
  BY <1>12 DEF Stop, Enter
<1>13. CASE Join(c) BY <1>13 DEF Join, AfterJoin, Return
<1>14. CASE JoinPool(c) BY <1>14 DEF JoinPool, Return
<1>15. CASE LaunchLoop(c) BY <1>15 DEF LaunchLoop, Return
<1>16. CASE TestJoinable(c) BY <1>16 DEF TestJoinable, AfterJoin, Return
<1>17. CASE EnterJoin(c) BY <1>17 DEF EnterJoin, Return
<1> QED
  BY <1>1, <1>2, <1>3, <1>4, <1>5, <1>6, <1>7, <1>8, <1>9, <1>10, <1>11, <1>12, <1>13, <1>14,
     <1>15, <1>16, <1>17
  DEF ClientStep

\* addSubTask sets the id of a subtask that has none, lists the subtask under it and releases the
\* list at the priority of its main task; the other steps of clients do not touch these.
LEMMA ClientStepPriority ==
  ASSUME PriorityInv, TypeInv', NEW c \in Clients, ClientStep(c)
  PROVE  PriorityInv'
<1> USE DEF PriorityInv, taskVars, mainVars, mainMaps, subVars, subFields, queueVars, clientOther
<1>1. StaysMade BY ClientMakes
<1>2. ASSUME NEW s \in SubTasks, AddSubTask(c, s) PROVE PriorityInv'
  <2>1. main_task_id[s] = None BY <1>2 DEF AddSubTask, MayCall, IdOfCall
  <2>2. /\ UNCHANGED <<main_to_subtasks, ready_subtasks>>
        /\ \A r \in SubTasks \ {s} : main_task_id'[r] = main_task_id[r]
        /\ outcome'[s] # "unissued"
    BY <1>2 DEF AddSubTask, Enter, Immediately, TypeInv, MapsOK, ClientInv, ClientsOK, Calls,
                clientOther, mainVars, mainMaps, queueVars
  <2>3. \A r \in SubTasks : main_task_id[r] # None => main_task_id'[r] = main_task_id[r]
    BY <2>1, <2>2
  <2>4. IdOfCall' BY <1>1, <2>2 DEF IdOfCall, StaysMade, Calls
  <2>5. ListedUnderMain'
    BY <2>2, <2>3, ConstantsAssumption DEF ListedUnderMain, TypeInv, MapsOK, Calls
  <2>6. ASSUME NEW p \in Priorities, NEW i \in DOMAIN ready_subtasks[p]
        PROVE  main_task_id'[ready_subtasks[p][i]] = main_task_id[ready_subtasks[p][i]]
    <3>1. ready_subtasks[p][i] \in SubTasks BY <2>6 DEF TypeInv, QueuesOK
    <3>2. main_task_id[ready_subtasks[p][i]] # None
      BY <2>6, ConstantsAssumption DEF ReadyAtPriority, Calls
    <3> QED BY <2>3, <3>1, <3>2
  <2>7. ReadyAtPriority' BY <2>2, <2>6 DEF ReadyAtPriority
  <2> QED BY <2>4, <2>5, <2>7
<1>3. CASE AppendMember(c)
  <2>1. PICK s \in SubTasks : s = call[c] /\ main_task_id[s] \in MainTasks
    BY <1>3 DEF AppendMember, CAt, TypeInv, ClientInv, ClientShape, AddingSub
  <2>2. /\ UNCHANGED <<main_task_id, ready_subtasks>>
        /\ main_to_subtasks' =
             [main_to_subtasks EXCEPT ![main_task_id[s]] =
                Append(main_to_subtasks[main_task_id[s]], s)]
    BY <1>3, <2>1 DEF AppendMember, subVars, subFields, clientOther, queueVars
  <2>3. IdOfCall' BY <1>1, <2>2 DEF IdOfCall, StaysMade, Calls
  <2>4. ASSUME NEW m \in MainTasks, NEW i \in DOMAIN main_to_subtasks'[m]
        PROVE  main_task_id'[main_to_subtasks'[m][i]] = m
    <3>1. main_to_subtasks[m] \in Seq(SubTasks) BY DEF TypeInv, MapsOK
    <3>2. CASE m = main_task_id[s]
      <4>1. main_to_subtasks'[m] = Append(main_to_subtasks[m], s)
        BY <2>2, <3>2 DEF TypeInv, MapsOK
      <4>2. main_to_subtasks'[m][i] = s \/ (/\ i \in DOMAIN main_to_subtasks[m]
                                           /\ main_to_subtasks'[m][i] = main_to_subtasks[m][i])
        BY <2>4, <3>1, <4>1
      <4> QED BY <2>2, <3>2, <4>2 DEF ListedUnderMain
    <3>3. CASE m # main_task_id[s]
      BY <2>2, <2>4, <3>3 DEF ListedUnderMain, TypeInv, MapsOK
    <3> QED BY <3>2, <3>3
  <2>5. ReadyAtPriority' BY <2>2 DEF ReadyAtPriority
  <2> QED BY <2>3, <2>4, <2>5 DEF ListedUnderMain
<1>4. CASE PushMembers(c)
  <2>1. UNCHANGED <<main_task_id, main_to_subtasks>>
    BY <1>4 DEF PushMembers, taskVars, mainVars, mainMaps, subVars, subFields
  <2>2. IdOfCall' /\ ListedUnderMain'
    BY <1>1, <2>1 DEF IdOfCall, ListedUnderMain, StaysMade, Calls
  <2>3. CASE ready_subtasks' = ready_subtasks BY <1>1, <2>1, <2>3, PriorityStays
  <2>4. CASE ready_subtasks' # ready_subtasks
    <3>1. PICK m \in MainTasks :
            ready_subtasks' =
              [ready_subtasks EXCEPT ![Priority[m]] =
                 ready_subtasks[Priority[m]] \o main_to_subtasks[m]]
      BY <1>4, <2>4 DEF PushMembers, CAt, TypeInv, ClientInv, ClientShape, AddingSub
    <3>2. ASSUME NEW p \in Priorities, NEW i \in DOMAIN ready_subtasks'[p]
          PROVE  /\ main_task_id'[ready_subtasks'[p][i]] \in MainTasks
                 /\ Priority[main_task_id'[ready_subtasks'[p][i]]] = p
      <4>1. CASE p = Priority[m]
        <5>1. PICK q \in Seq(SubTasks) : q = ready_subtasks[p]
          BY DEF TypeInv, QueuesOK
        <5>2. PICK l \in Seq(SubTasks) : l = main_to_subtasks[m]
          BY DEF TypeInv, MapsOK
        <5>3. ready_subtasks'[p] = q \o l
          BY <3>1, <4>1, <5>1, <5>2 DEF TypeInv, QueuesOK
        <5>4. \/ i \in DOMAIN q /\ ready_subtasks'[p][i] = q[i]
              \/ i - Len(q) \in DOMAIN l /\ ready_subtasks'[p][i] = l[i - Len(q)]
          BY <3>2, <5>3
        <5> QED BY <2>1, <4>1, <5>1, <5>2, <5>4 DEF ReadyAtPriority, ListedUnderMain
      <4>2. CASE p # Priority[m]
        BY <2>1, <3>1, <3>2, <4>2 DEF ReadyAtPriority, TypeInv, QueuesOK
      <4> QED BY <4>1, <4>2
    <3> QED BY <2>2, <3>2 DEF ReadyAtPriority
  <2> QED BY <2>3, <2>4
<1>5. ASSUME NEW m \in MainTasks, AddMainTask(c, m) PROVE PriorityInv'
  BY <1>1, <1>5, PriorityStays DEF AddMainTask
<1>6. CASE EnterWaiting(c) BY <1>1, <1>6, PriorityStays DEF EnterWaiting
<1>7. CASE InsertMain(c) BY <1>1, <1>7, PriorityStays DEF InsertMain
<1>8. CASE NameSubTask(c) BY <1>1, <1>8, PriorityStays DEF NameSubTask
<1>9. CASE InsertSubTask(c) BY <1>1, <1>9, PriorityStays DEF InsertSubTask
<1>10. CASE EmplaceSlot(c) BY <1>1, <1>10, PriorityStays DEF EmplaceSlot
<1>11. CASE FetchMain(c) BY <1>1, <1>11, PriorityStays DEF FetchMain
<1>12. CASE CountReady(c) BY <1>1, <1>12, PriorityStays DEF CountReady
<1>13. CASE LockReady(c) BY <1>1, <1>13, PriorityStays DEF LockReady
<1>14. CASE LeaveWaiting(c) BY <1>1, <1>14, PriorityStays DEF LeaveWaiting
<1>15. ASSUME NEW f \in Fetches, GetSubTaskResult(c, f) PROVE PriorityInv'
  BY <1>1, <1>15, PriorityStays DEF GetSubTaskResult
<1>16. CASE FindSlot(c) BY <1>1, <1>16, PriorityStays DEF FindSlot
<1>17. CASE WaitSlot(c) BY <1>1, <1>17, PriorityStays DEF WaitSlot
<1>18. CASE TakeResult(c) BY <1>1, <1>18, PriorityStays DEF TakeResult
<1>19. CASE EraseName(c) BY <1>1, <1>19, PriorityStays DEF EraseName
<1>20. CASE EraseSubTask(c) BY <1>1, <1>20, PriorityStays DEF EraseSubTask
<1>21. ASSUME NEW k \in Starts, Start(c, k) PROVE PriorityInv'
  BY <1>1, <1>21, PriorityStays DEF Start
<1>22. ASSUME NEW k \in Stops \cup Exits, Stop(c, k) PROVE PriorityInv'
  BY <1>1, <1>22, PriorityStays DEF Stop
<1>23. CASE Join(c) BY <1>1, <1>23, PriorityStays DEF Join
<1>24. CASE DestroyMutexes(c) BY <1>1, <1>24, PriorityStays DEF DestroyMutexes
<1>25. CASE StopPool(c) BY <1>1, <1>25, PriorityStays DEF StopPool
<1>26. CASE JoinPool(c) BY <1>1, <1>26, PriorityStays DEF JoinPool
<1>27. CASE LaunchLoop(c) BY <1>1, <1>27, PriorityStays DEF LaunchLoop
<1>28. CASE TestJoinable(c) BY <1>1, <1>28, PriorityStays DEF TestJoinable
<1>29. CASE EnterJoin(c) BY <1>1, <1>29, PriorityStays DEF EnterJoin
<1> QED
  BY <1>2, <1>3, <1>4, <1>5, <1>6, <1>7, <1>8, <1>9, <1>10, <1>11, <1>12, <1>13, <1>14, <1>15,
     <1>16, <1>17, <1>18, <1>19, <1>20, <1>21, <1>22, <1>23, <1>24, <1>25, <1>26, <1>27, <1>28,
     <1>29
  DEF ClientStep

\* A worker erases whole lists only.
LEMMA WorkerStepPriority ==
  ASSUME PriorityInv, TypeInv', NEW w \in Workers, WorkerStep(w)
  PROVE  PriorityInv'
<1> USE DEF PriorityInv, taskVars, mainVars, mainMaps, subVars, subFields, queueVars, workerOther
<1>1. CASE EraseMembers(w)
  <2>1. UNCHANGED <<main_task_id, ready_subtasks, outcome>> BY <1>1 DEF EraseMembers
  <2>2. ASSUME NEW m \in MainTasks
        PROVE  main_to_subtasks'[m] = <<>> \/ main_to_subtasks'[m] = main_to_subtasks[m]
    BY <1>1 DEF EraseMembers, TypeInv, MapsOK
  <2>3. ListedUnderMain' BY <2>1, <2>2 DEF ListedUnderMain
  <2> QED BY <2>1, <2>3 DEF IdOfCall, ReadyAtPriority
<1>2. CASE Pop(w) BY <1>2, PriorityStays DEF StaysMade, Pop
<1>3. CASE LeavePool(w) BY <1>3, PriorityStays DEF StaysMade, LeavePool
<1>4. CASE FindSubTask(w) BY <1>4, PriorityStays DEF StaysMade, FindSubTask
<1>5. CASE LookupDependency(w) BY <1>5, PriorityStays DEF StaysMade, LookupDependency
<1>6. CASE FindDependency(w) BY <1>6, PriorityStays DEF StaysMade, FindDependency
<1>7. CASE AwaitDependency(w) BY <1>7, PriorityStays DEF StaysMade, AwaitDependency
<1>8. CASE StartFunction(w) BY <1>8, PriorityStays DEF StaysMade, StartFunction
<1>9. CASE FinishFunction(w) BY <1>9, PriorityStays DEF StaysMade, FinishFunction
<1>10. CASE PostResult(w) BY <1>10, PriorityStays DEF StaysMade, PostResult
<1>11. CASE FlagCompleted(w) BY <1>11, PriorityStays DEF StaysMade, FlagCompleted
<1>12. CASE NotifyDependents(w) BY <1>12, PriorityStays DEF StaysMade, NotifyDependents
<1>13. CASE FindMainTask(w) BY <1>13, PriorityStays DEF StaysMade, FindMainTask
<1>14. CASE CountCompleted(w) BY <1>14, PriorityStays DEF StaysMade, CountCompleted
<1>15. CASE EraseMainTask(w) BY <1>15, PriorityStays DEF StaysMade, EraseMainTask
<1>16. CASE UseDestroyed(w) BY <1>16, PriorityStays DEF StaysMade, UseDestroyed
<1> QED
  BY <1>1, <1>2, <1>3, <1>4, <1>5, <1>6, <1>7, <1>8, <1>9, <1>10, <1>11, <1>12, <1>13, <1>14,
     <1>15, <1>16 DEF WorkerStep

\* The loop takes subtasks from the front of a queue only.
LEMMA LoopStepPriority ==
  ASSUME PriorityInv, TypeInv', LoopStep
  PROVE  PriorityInv'
<1> USE DEF PriorityInv, taskVars, mainVars, mainMaps, subVars, subFields, queueVars, loopOther
<1>1. ASSUME NEW p \in Priorities, Dispatch(p) PROVE PriorityInv'
  <2>1. UNCHANGED <<main_task_id, main_to_subtasks, outcome>> BY <1>1 DEF Dispatch
  <2>2. ASSUME NEW r \in Priorities, NEW i \in DOMAIN ready_subtasks'[r]
        PROVE  /\ main_task_id'[ready_subtasks'[r][i]] \in MainTasks
               /\ Priority[main_task_id'[ready_subtasks'[r][i]]] = r
    <3>1. CASE r = p
      <4>1. PICK q \in Seq(SubTasks) : q = ready_subtasks[p] BY DEF TypeInv, QueuesOK
      <4>2. q # <<>> /\ ready_subtasks'[p] = Tail(q)
        BY <1>1, <4>1 DEF Dispatch, ScanIsAt, TypeInv, QueuesOK
      <4>3. i + 1 \in DOMAIN q /\ ready_subtasks'[p][i] = q[i + 1] BY <2>2, <3>1, <4>2
      <4> QED BY <2>1, <3>1, <4>1, <4>3 DEF ReadyAtPriority
    <3>2. CASE r # p
      BY <1>1, <2>1, <2>2, <3>2 DEF Dispatch, ReadyAtPriority, TypeInv, QueuesOK
    <3> QED BY <3>1, <3>2
  <2> QED BY <2>1, <2>2 DEF IdOfCall, ListedUnderMain, ReadyAtPriority
<1>2. CASE \/ TestRunning \/ PendingReady \/ PendingWaiting \/ PendingSubTasks
           \/ LoopLock \/ LoopUnlock
  BY <1>2, PriorityStays DEF StaysMade, TestRunning, PendingReady, PendingWaiting,
     PendingSubTasks, LoopLock, LoopUnlock
<1> QED BY <1>1, <1>2 DEF LoopStep

\* All queues and lists are empty at first.
LEMMA InitPriority == ASSUME Init PROVE PriorityInv
<1>1. IdOfCall BY DEF Init, IdOfCall
<1>2. \A m \in MainTasks : DOMAIN main_to_subtasks[m] = {} BY DEF Init
<1>3. \A p \in Priorities : DOMAIN ready_subtasks[p] = {} BY DEF Init
<1> QED BY <1>1, <1>2, <1>3, InitInv DEF PriorityInv, ListedUnderMain, ReadyAtPriority

\* PriorityInv is inductive.
LEMMA StepPriority == ASSUME PriorityInv, [Next]_vars PROVE PriorityInv'
<1>1. TypeInv' BY StepInv DEF PriorityInv
<1>2. ASSUME NEW c \in Clients, ClientStep(c) PROVE PriorityInv'
  BY <1>1, <1>2, ClientStepPriority
<1>3. ASSUME NEW w \in Workers, WorkerStep(w) PROVE PriorityInv'
  BY <1>1, <1>3, WorkerStepPriority
<1>4. CASE LoopStep BY <1>1, <1>4, LoopStepPriority
<1>5. CASE UNCHANGED vars
  BY <1>1, <1>5, PriorityStays
  DEF StaysMade, vars, taskVars, mainVars, mainMaps, subVars, subFields, queueVars
<1> QED BY <1>2, <1>3, <1>4, <1>5 DEF Next, Rest

-----------------------------------------------------------------------------
(* ready_mutex and the scan of the queues. *)

\* Whoever is in the sections of ready_mutex holds it.
HeldOK == /\ \A c \in Clients : cpc[c] \in {"as_push", "as_release"} => ready_mutex = c
          /\ lpc = "dispatch" => ready_mutex = "loop"

\* The scan has left the queues above pri empty, and none of them has been filled since: pri is a
\* local of EventLooper, which begins at the highest priority (line 174).
SweptOK == /\ lpc # "none" => joinable
           /\ lpc # "dispatch" => pri = HIGHEST
           /\ \A p \in Priorities : p > pri => ready_subtasks[p] = <<>>
LoopInv == PriorityInv /\ HeldOK /\ SweptOK

\* A worker leaves the clients, their calls and the queues of ready subtasks alone.
LEMMA WorkerFrame ==
  ASSUME NEW w \in Workers, WorkerStep(w)
  PROVE  UNCHANGED <<clientVars, outcome, main_task_id, ready_subtasks, ready_mutex, loopVars>>
BY DEF WorkerStep, Pop, LeavePool, FindSubTask, LookupDependency, FindDependency,
   AwaitDependency, StartFunction, FinishFunction, PostResult, FlagCompleted,
   NotifyDependents, FindMainTask, CountCompleted, EraseMainTask, UseDestroyed, EraseMembers,
   workerOther, taskVars, subVars, subFields, queueVars, loopVars

\* The loop leaves the tasks, the calls, the workers and the history alone.
LEMMA LoopFrame ==
  ASSUME LoopStep PROVE UNCHANGED <<taskVars, clientVars, outcome, workerVars, histVars>>
BY DEF LoopStep, TestRunning, PendingReady, PendingWaiting, PendingSubTasks, LoopLock,
   Dispatch, LoopUnlock, loopOther

\* The steps of addSubTask from the list of members on; the other steps of a client leave the
\* queues, the lists and ready_mutex alone.
Listing(c) == \/ AppendMember(c) \/ CountReady(c) \/ LockReady(c) \/ PushMembers(c)
              \/ LeaveWaiting(c)
Late == {"as_lock", "as_push", "as_release"}

\* What the steps of a client outside these leave alone.
LEMMA QuietStep ==
  ASSUME TypeInv, NEW c \in Clients, ClientStep(c), ~Listing(c)
  PROVE  /\ UNCHANGED <<ready_subtasks, ready_mutex, main_to_subtasks>>
         /\ \A d \in Clients \ {c} : cpc'[d] = cpc[d]
         /\ cpc[c] \notin Late /\ cpc'[c] \notin Late
         /\ lpc' = lpc \/ lpc' \in {"test", "none"}
         /\ pri' = pri
<1> USE DEF Listing
<1>1. UNCHANGED <<ready_subtasks, ready_mutex, main_to_subtasks>>
  BY DEF ClientStep, AddMainTask, EnterWaiting, InsertMain, AddSubTask, NameSubTask,
     InsertSubTask, EmplaceSlot, FetchMain, GetSubTaskResult, FindSlot, WaitSlot, TakeResult,
     EraseName, EraseSubTask, Start, LaunchLoop, Stop, TestJoinable, EnterJoin, Join,
     DestroyMutexes, StopPool, JoinPool, clientOther, queueVars, taskVars, mainVars, mainMaps
<1>2. pri' = pri /\ (lpc' = lpc \/ lpc' \in {"test", "none"})
  BY DEF ClientStep, AddMainTask, EnterWaiting, InsertMain, AddSubTask, NameSubTask,
     InsertSubTask, EmplaceSlot, FetchMain, GetSubTaskResult, FindSlot, WaitSlot, TakeResult,
     EraseName, EraseSubTask, Start, LaunchLoop, Stop, TestJoinable, EnterJoin, Join,
     DestroyMutexes, StopPool, JoinPool, clientOther, loopVars
<1>3. \A l : CGoto(c, l) => cpc'[c] = l /\ \A d \in Clients \ {c} : cpc'[d] = cpc[d]
  BY DEF CGoto, TypeInv, ClientInv, ClientsOK
<1>4. \A o : Return(c, o) => cpc'[c] = "idle" /\ \A d \in Clients \ {c} : cpc'[d] = cpc[d]
  BY DEF Return, TypeInv, ClientInv, ClientsOK
<1>5. \A k, l, s :
        Enter(c, k, l, s) => cpc'[c] = l /\ \A d \in Clients \ {c} : cpc'[d] = cpc[d]
  BY DEF Enter, TypeInv, ClientInv, ClientsOK
<1>6. cpc[c] \notin Late
  BY DEF ClientStep, AddMainTask, EnterWaiting, InsertMain, AddSubTask, NameSubTask,
     InsertSubTask, EmplaceSlot, FetchMain, GetSubTaskResult, FindSlot, WaitSlot, TakeResult,
     EraseName, EraseSubTask, Start, LaunchLoop, Stop, TestJoinable, EnterJoin, Join,
     DestroyMutexes, StopPool, JoinPool, CAt, MayCall, Late
<1>7. cpc'[c] \notin Late
  BY <1>3, <1>4, <1>5, <1>6
  DEF ClientStep, AddMainTask, EnterWaiting, InsertMain, AddSubTask, NameSubTask,
     InsertSubTask, EmplaceSlot, FetchMain, GetSubTaskResult, FindSlot, WaitSlot, TakeResult,
     EraseName, EraseSubTask, Start, LaunchLoop, Stop, TestJoinable, EnterJoin, Join, AfterJoin,
     DestroyMutexes, StopPool, JoinPool, Immediately, clientVars, Late
<1>8. \A d \in Clients \ {c} : cpc'[d] = cpc[d]
  BY <1>3, <1>4, <1>5
  DEF ClientStep, AddMainTask, EnterWaiting, InsertMain, AddSubTask, NameSubTask,
     InsertSubTask, EmplaceSlot, FetchMain, GetSubTaskResult, FindSlot, WaitSlot, TakeResult,
     EraseName, EraseSubTask, Start, LaunchLoop, Stop, TestJoinable, EnterJoin, Join, AfterJoin,
     DestroyMutexes, StopPool, JoinPool, Immediately, clientVars
<1> QED BY <1>1, <1>2, <1>6, <1>7, <1>8

\* What a step of addSubTask from the list of members on does.
LEMMA ListingStep ==
  ASSUME TypeInv, NEW c \in Clients, Listing(c)
  PROVE  /\ UNCHANGED main_task_id
         /\ call[c] \in SubTasks /\ main_task_id[call[c]] \in MainTasks
         /\ \A d \in Clients \ {c} : cpc'[d] = cpc[d] /\ call'[d] = call[d]
         /\ AppendMember(c) => cpc[c] = "as_members" /\ cpc'[c] = "as_slot" /\ call' = call
         /\ CountReady(c) => cpc[c] = "as_ready" /\ \/ cpc'[c] = "as_lock" /\ call' = call
                                                    \/ cpc'[c] = "idle" /\ call'[c] = None
         /\ LockReady(c) => cpc[c] = "as_lock" /\ cpc'[c] = "as_push" /\ call' = call
         /\ PushMembers(c) => /\ cpc[c] = "as_push" /\ call' = call
                              /\ \/ cpc'[c] = "as_release"
                                 \/ cpc' = cpc /\ UNCHANGED ready_subtasks
         /\ LeaveWaiting(c) => /\ cpc[c] = "as_release"
                               /\ cpc'[c] = "idle" /\ call'[c] = None
         /\ ~AppendMember(c) => UNCHANGED main_to_subtasks
         /\ ~PushMembers(c) => UNCHANGED ready_subtasks
         /\ ~LockReady(c) /\ ~LeaveWaiting(c) => UNCHANGED ready_mutex
         /\ LockReady(c) => ready_mutex = None /\ ready_mutex' = c
         /\ LeaveWaiting(c) => ready_mutex' = None
         /\ UNCHANGED loopVars
<1> USE DEF TypeInv, ClientInv, ClientsOK, ClientShape, AddingSub, CAt
<1> USE DEF clientOther, taskVars, subVars, subFields, mainVars, mainMaps, queueVars, loopVars
<1>1. CASE AppendMember(c)
  BY <1>1 DEF AppendMember, CountReady, LockReady, PushMembers, LeaveWaiting, CGoto
<1>2. CASE CountReady(c)
  BY <1>2 DEF AppendMember, CountReady, LockReady, PushMembers, LeaveWaiting, CGoto, Return
<1>3. CASE LockReady(c)
  BY <1>3 DEF AppendMember, CountReady, LockReady, PushMembers, LeaveWaiting, CGoto
<1>4. CASE PushMembers(c)
  BY <1>4 DEF AppendMember, CountReady, LockReady, PushMembers, LeaveWaiting, CGoto, clientVars
<1>5. CASE LeaveWaiting(c)
  BY <1>5 DEF AppendMember, CountReady, LockReady, PushMembers, LeaveWaiting, Return
<1> QED BY <1>1, <1>2, <1>3, <1>4, <1>5 DEF Listing


\* A client enters the section of ready_mutex when nobody holds it (line 310).
LEMMA ClientStepHeld ==
  ASSUME TypeInv, HeldOK, NEW c \in Clients, ClientStep(c) PROVE HeldOK'
<1>0. None \notin Clients /\ "loop" \notin Clients /\ None # "loop" BY ConstantsAssumption
<1>1. CASE Listing(c) BY <1>0, <1>1, ListingStep DEF HeldOK, Listing, loopVars
<1>2. CASE ~Listing(c) BY <1>0, <1>2, QuietStep DEF HeldOK, Late
<1> QED BY <1>1, <1>2

\* So does the loop (line 172).
LEMMA LoopStepHeld == ASSUME TypeInv, HeldOK, LoopStep PROVE HeldOK'
<1>0. None \notin Clients /\ "loop" \notin Clients /\ None # "loop" BY ConstantsAssumption
<1>1. UNCHANGED clientVars BY LoopFrame
<1>2. CASE TestRunning \/ PendingReady \/ PendingWaiting \/ PendingSubTasks
  BY <1>1, <1>2 DEF HeldOK, TestRunning, PendingReady, PendingWaiting, PendingSubTasks, queueVars,
                    clientVars
<1>3. CASE LoopLock BY <1>0, <1>1, <1>3 DEF HeldOK, LoopLock, clientVars
<1>4. ASSUME NEW p \in Priorities, Dispatch(p) PROVE HeldOK'
  BY <1>1, <1>4 DEF HeldOK, Dispatch, clientVars
<1>5. CASE LoopUnlock
  BY <1>0, <1>1, <1>5 DEF HeldOK, LoopUnlock, LAt, clientVars
<1> QED BY <1>2, <1>3, <1>4, <1>5 DEF LoopStep

\* Clients fill queues only while they hold ready_mutex, so not during a scan (lines 310-315).
LEMMA ClientStepSwept ==
  ASSUME LoopInv, NEW c \in Clients, ClientStep(c) PROVE SweptOK'
<1>0. TypeInv /\ HeldOK /\ SweptOK BY DEF LoopInv, PriorityInv
<1>1. CASE PushMembers(c)
  <2>1. lpc # "dispatch" BY <1>0, <1>1, ConstantsAssumption DEF PushMembers, CAt, HeldOK
  <2>2. pri' = HIGHEST /\ lpc' = lpc /\ joinable' = joinable
    BY <1>0, <1>1, <2>1 DEF PushMembers, SweptOK, loopVars
  <2> QED BY <1>0, <2>1, <2>2 DEF SweptOK, Priorities, LOWEST, HIGHEST
<1>2. CASE ~PushMembers(c)
  <2>1. ready_subtasks' = ready_subtasks /\ pri' = pri
    BY <1>0, <1>2, QuietStep, ListingStep DEF loopVars
  <2>2. \/ UNCHANGED <<lpc, joinable>>
        \/ ~joinable /\ lpc' = "test" /\ joinable'
        \/ lpc = "exited" /\ lpc' = "none"
    BY DEF ClientStep, AddMainTask, EnterWaiting, InsertMain, AddSubTask, NameSubTask,
       InsertSubTask, AppendMember, EmplaceSlot, FetchMain, CountReady, LockReady, PushMembers,
       LeaveWaiting, GetSubTaskResult, FindSlot, WaitSlot, TakeResult, EraseName, EraseSubTask,
       Start, LaunchLoop, Stop, TestJoinable, EnterJoin, Join, DestroyMutexes, StopPool,
       JoinPool, clientOther, loopVars
  <2> QED BY <1>0, <2>1, <2>2 DEF SweptOK
<1> QED BY <1>1, <1>2

\* The scan goes down (lines 174-184).
LEMMA LoopStepSwept == ASSUME LoopInv, LoopStep PROVE SweptOK'
<1>0. TypeInv /\ SweptOK BY DEF LoopInv, PriorityInv
<1>1. joinable' = joinable
  BY DEF LoopStep, TestRunning, PendingReady, PendingWaiting, PendingSubTasks, LoopLock,
     Dispatch, LoopUnlock, loopOther
<1>2. CASE TestRunning \/ PendingReady \/ PendingWaiting \/ PendingSubTasks \/ LoopLock
  BY <1>0, <1>1, <1>2 DEF SweptOK, TestRunning, PendingReady, PendingWaiting, PendingSubTasks,
     LoopLock, LAt, queueVars
<1>3. ASSUME NEW p \in Priorities, Dispatch(p) PROVE SweptOK'
  <2>1. lpc = "dispatch" /\ lpc' = lpc /\ pri' = p BY <1>3 DEF Dispatch, LAt
  <2>2. ASSUME NEW q \in Priorities, q > p PROVE ready_subtasks'[q] = <<>>
    <3>1. ready_subtasks[q] = <<>>
      <4>1. CASE q <= pri BY <1>3, <2>2, <4>1 DEF Dispatch, ScanIsAt, Priorities, LOWEST, HIGHEST
      <4>2. CASE ~(q <= pri)
        <5>1. q > pri BY <1>0, <4>2 DEF TypeInv, OthersOK, Priorities, LOWEST, HIGHEST
        <5> QED BY <1>0, <5>1 DEF SweptOK
      <4> QED BY <4>1, <4>2
    <3>2. q # p BY <2>2 DEF Priorities, LOWEST, HIGHEST
    <3> QED BY <1>0, <1>3, <3>1, <3>2 DEF Dispatch, TypeInv, QueuesOK
  <2> QED BY <1>0, <1>1, <2>1, <2>2 DEF SweptOK
<1>4. CASE LoopUnlock
  BY <1>0, <1>1, <1>4 DEF SweptOK, LoopUnlock, LAt, Priorities, LOWEST, HIGHEST
<1> QED BY <1>2, <1>3, <1>4 DEF LoopStep

\* LoopInv is inductive.
LEMMA StepLoop == (Init => LoopInv) /\ (LoopInv /\ [Next]_vars => LoopInv')
<1>1. ASSUME Init PROVE LoopInv
  <2>1. HeldOK BY <1>1 DEF Init, HeldOK
  <2>2. SweptOK BY <1>1 DEF Init, SweptOK, Priorities, LOWEST, HIGHEST
  <2> QED BY <1>1, <2>1, <2>2, InitPriority DEF LoopInv
<1>2. ASSUME LoopInv, [Next]_vars PROVE LoopInv'
  <2>0. TypeInv /\ PriorityInv' BY <1>2, StepPriority DEF LoopInv, PriorityInv
  <2>1. ASSUME NEW c \in Clients, ClientStep(c) PROVE HeldOK' /\ SweptOK'
    BY <1>2, <2>0, <2>1, ClientStepHeld, ClientStepSwept DEF LoopInv
  <2>2. ASSUME NEW w \in Workers, WorkerStep(w) PROVE HeldOK' /\ SweptOK'
    BY <1>2, <2>2, WorkerFrame DEF LoopInv, HeldOK, SweptOK, clientVars, loopVars
  <2>3. ASSUME LoopStep PROVE HeldOK' /\ SweptOK'
    BY <1>2, <2>0, <2>3, LoopStepHeld, LoopStepSwept DEF LoopInv
  <2>4. ASSUME UNCHANGED vars PROVE HeldOK' /\ SweptOK'
    BY <1>2, <2>4 DEF LoopInv, HeldOK, SweptOK, vars, clientVars, queueVars, loopVars
  <2>5. HeldOK' /\ SweptOK' BY <1>2, <2>1, <2>2, <2>3, <2>4 DEF Next, Rest
  <2> QED BY <2>0, <2>5 DEF LoopInv
<1> QED BY <1>1, <1>2

-----------------------------------------------------------------------------
\* A subtask that enters the ring finds no subtask of a higher priority ready.
EntersInOrder(s) ==
  InRing(s) = {} /\ InRing(s)' # {} =>
    \A p \in Priorities : p > Priority[main_task_id[s]] => ready_subtasks'[p] = <<>>

\* The subtask that the loop enqueues is at the front of the highest queue that is not empty.
LEMMA DispatchInOrder ==
  ASSUME PriorityInv, SweptOK, NEW p \in Priorities, Dispatch(p), NEW s \in SubTasks
  PROVE  EntersInOrder(s)
<1> SUFFICES ASSUME InRing(s) = {}, InRing(s)' # {},
                    NEW r \in Priorities, r > Priority[main_task_id[s]]
             PROVE  ready_subtasks'[r] = <<>>
  BY DEF EntersInOrder
<1>1. PICK q \in Seq(SubTasks) : q = ready_subtasks[p]
  BY DEF PriorityInv, TypeInv, QueuesOK
<1>2. q # <<>> /\ ring' = Append(ring, Head(q)) /\ ring \in Seq(SubTasks)
  BY <1>1 DEF Dispatch, ScanIsAt, PriorityInv, TypeInv, QueuesOK
<1>3. PICK i \in DOMAIN ring' : ring'[i] = s BY DEF InRing
<1>4. i \notin DOMAIN ring \/ ring[i] # s BY DEF InRing
<1>5. s = Head(q) BY <1>2, <1>3, <1>4
<1>6. 1 \in DOMAIN q /\ s = q[1] BY <1>2, <1>5
<1>7. Priority[main_task_id[s]] = p BY <1>1, <1>6 DEF PriorityInv, ReadyAtPriority
<1>8. r > p /\ ready_subtasks[r] = <<>>
  <2>1. r > pri \/ (p < r /\ r <= pri)
    BY <1>7 DEF PriorityInv, TypeInv, OthersOK, Priorities, LOWEST, HIGHEST
  <2> QED BY <1>7, <2>1 DEF Dispatch, ScanIsAt, SweptOK
<1> QED BY <1>8 DEF Dispatch, PriorityInv, TypeInv, QueuesOK, Priorities, LOWEST, HIGHEST

\* A worker only takes a subtask out of the ring.
LEMMA PopInOrder ==
  ASSUME PriorityInv, NEW w \in Workers, Pop(w), NEW s \in SubTasks PROVE EntersInOrder(s)
<1>1. ring \in Seq(SubTasks) /\ ring # <<>> /\ ring' = Tail(ring)
  BY DEF Pop, PriorityInv, TypeInv, QueuesOK
<1>2. ASSUME NEW i \in DOMAIN ring' PROVE i + 1 \in DOMAIN ring /\ ring'[i] = ring[i + 1]
  BY <1>1, <1>2
<1>3. InRing(s) = {} => InRing(s)' = {} BY <1>2 DEF InRing
<1> QED BY <1>3 DEF EntersInOrder

\* The other steps leave the ring alone.
LEMMA RingSame == ASSUME UNCHANGED ring, NEW s \in SubTasks PROVE EntersInOrder(s)
BY DEF EntersInOrder, InRing

\* Every step respects the priorities.
LEMMA StepInOrder ==
  ASSUME PriorityInv, SweptOK, [Next]_vars, NEW s \in SubTasks PROVE EntersInOrder(s)
<1>1. ASSUME NEW c \in Clients, ClientStep(c) PROVE EntersInOrder(s)
  <2>1. UNCHANGED ring
    BY <1>1 DEF ClientStep, AddMainTask, EnterWaiting, InsertMain, AddSubTask, NameSubTask,
       InsertSubTask, AppendMember, EmplaceSlot, FetchMain, CountReady, LockReady, PushMembers,
       LeaveWaiting, GetSubTaskResult, FindSlot, WaitSlot, TakeResult, EraseName, EraseSubTask,
       Start, LaunchLoop, Stop, TestJoinable, EnterJoin, Join, DestroyMutexes, StopPool,
       JoinPool, clientOther, queueVars
  <2> QED BY <2>1, RingSame
<1>2. ASSUME NEW w \in Workers, WorkerStep(w) PROVE EntersInOrder(s)
  <2>1. CASE Pop(w) BY <2>1, PopInOrder
  <2>2. CASE ~Pop(w)
    <3>1. UNCHANGED ring
      BY <1>2, <2>2 DEF WorkerStep, LeavePool, FindSubTask, LookupDependency, FindDependency,
         AwaitDependency, StartFunction, FinishFunction, PostResult, FlagCompleted,
         NotifyDependents, FindMainTask, CountCompleted, EraseMainTask, UseDestroyed,
         EraseMembers, workerOther, queueVars
    <3> QED BY <3>1, RingSame
  <2> QED BY <2>1, <2>2
<1>3. CASE LoopStep
  <2>1. ASSUME NEW p \in Priorities, Dispatch(p) PROVE EntersInOrder(s) BY <2>1, DispatchInOrder
  <2>2. CASE ~\E p \in Priorities : Dispatch(p)
    <3>1. UNCHANGED ring
      BY <1>3, <2>2 DEF LoopStep, TestRunning, PendingReady, PendingWaiting, PendingSubTasks,
         LoopLock, LoopUnlock, queueVars
    <3> QED BY <3>1, RingSame
  <2> QED BY <2>1, <2>2
<1>4. CASE UNCHANGED vars BY <1>4, RingSame DEF vars, queueVars
<1> QED BY <1>1, <1>2, <1>3, <1>4 DEF Next, Rest

\* The loop hands subtasks to the pool by priority (EventDispatcher.hpp:173-184): whatever the
\* clients submit meanwhile, no subtask enters the ring while one of a higher priority is ready.
THEOREM PrioritiesRespected == Spec => HigherFirst
<1>1. Init => LoopInv BY StepLoop
<1>2. LoopInv /\ [Next]_vars => LoopInv' BY StepLoop
<1>3. LoopInv /\ [Next]_vars => [\A s \in SubTasks : EntersInOrder(s)]_vars
  BY StepInOrder DEF LoopInv
<1>4. [\A s \in SubTasks : EntersInOrder(s)]_vars =>
        [\A s \in SubTasks : InRing(s) = {} /\ InRing(s)' # {} =>
           \A p \in Priorities : p > Priority[main_task_id[s]] => ready_subtasks'[p] = <<>>]_vars
  BY DEF EntersInOrder
<1> QED BY <1>1, <1>2, <1>3, <1>4, PTL DEF Spec, HigherFirst
=============================================================================
