---------------- MODULE EventDispatcherDependencies_proofs -----------------
(***************************************************************************)
(* Proof that no function starts before those of its dependencies have     *)
(* ended, for every set of clients, workers and calls in which subtasks    *)
(* have different names and each main task gets the subtasks it announced. *)
(***************************************************************************)
EXTENDS EventDispatcher_proofs

\* A program names each subtask once, and submits to a main task as many as it announced.
WellFormed ==
  /\ \A s, t \in SubTasks : SubName[s] = SubName[t] => s = t
  /\ \A m \in MainTasks :
       SubtaskSize[m] = Cardinality({s \in SubTasks : MainTaskName[s] = MainName[m]})

-----------------------------------------------------------------------------
(* The invariant. *)

Ending == {"stop", "join", "joining", "destroy", "stop_pool", "join_pool"}

\* What is known of calls: who makes them, and when.
CallsOK ==
  /\ \A c \in Clients : /\ call[c] # None => outcome[call[c]] # "unissued"
                        /\ cpc[c] = "launch" => call[c] \in Starts
                        /\ cpc[c] \in Ending => call[c] \in Stops \cup Exits
  /\ \A c, d \in Clients : call[c] # None /\ call[c] = call[d] => c = d
  /\ \A s \in SubTasks :
       /\ outcome[s] # "unissued" => \A k \in After[s] : Returned(k)
       /\ outcome[s] = "done" => main_task_id[s] # None /\ \A c \in Clients : call[c] # s

\* The submission of s is past the steps of S.
Unnamed   == {"as_name"}
Unlisted  == {"as_name", "as_insert"}
Unappended == {"as_name", "as_insert", "as_members"}
Uncounted == {"as_name", "as_insert", "as_members", "as_slot", "as_main", "as_ready"}
Beyond(s, S) == main_task_id[s] # None /\ \A c \in Clients : call[c] = s => cpc[c] \notin S

\* A subtask that is named or listed no more has ended.
Fetched   == {"gr_take", "gr_name", "gr_erase"}
FetchesOK ==
  /\ \A s \in SubTasks : s \in done \/ semaphore[s] > 0 => Finished(s)
  /\ \A w \in Workers : wpc[w] \in {"post", "flag", "notify"} => Finished(job[w])
  /\ \A c \in Clients : /\ cpc[c] \in Fetching => SubName[found[c]] = FetchName[call[c]]
                        /\ cpc[c] \in Fetched => Finished(found[c])
NamesOK ==
  /\ \A n \in SubNames : \A s \in SubTasks : sub_task_name_to_id[n] = s => SubName[s] = n
  /\ \A s \in SubTasks : Beyond(s, Unlisted) => s \in sub_tasks \/ Finished(s)
NamedOK ==
  \A s \in SubTasks : Beyond(s, Unnamed) => sub_task_name_to_id[SubName[s]] = s \/ Finished(s)

\* What is ready has all subtasks of its main task counted.
CountedOf(m) == {s \in SubTasks : main_task_id[s] = m /\ Beyond(s, Uncounted)}
Complete(m)  == \A s \in SubTasks : MainTaskName[s] = MainName[m]
                                      => main_task_id[s] = m /\ Beyond(s, Uncounted)
Released(s)  == main_task_id[s] \in MainTasks /\ Complete(main_task_id[s])
CountsOK ==
  /\ \A n \in MainNames : \A m \in MainTasks : main_task_name_to_id[n] = m => MainName[m] = n
  /\ \A s \in SubTasks : main_task_id[s] # None => MainTaskName[s] = MainName[main_task_id[s]]
  /\ \A m \in MainTasks : ready_count[m] = Cardinality(CountedOf(m))
ReleasedOK ==
  /\ \A c \in Clients : cpc[c] \in {"as_lock", "as_push"} => Complete(main_task_id[call[c]])
  /\ \A p \in Priorities : \A i \in DOMAIN ready_subtasks[p] : Released(ready_subtasks[p][i])
  /\ \A i \in DOMAIN ring : Released(ring[i])
  /\ \A w \in Workers : wpc[w] \notin {"idle", "exited"} => Released(job[w])

\* The dependencies that a subtask must wait for have ended, up to where its closure is.
Awaiting == {"deps", "dep_task", "await"}
Scanned(w) ==
  \A d \in Relied(job[w]) : \A i \in 1..(dep[w] - 1) :
    i \in DOMAIN Dependencies[job[w]] /\ Dependencies[job[w]][i] = SubName[d]
      /\ main_task_id[d] # None => Finished(d)
Aimed(w) == awaited[w] \in SubTasks /\ SubName[awaited[w]] = Dependencies[job[w]][dep[w]]
Unhindered(s) == Released(s) /\ \A d \in Relied(s) : main_task_id[d] # None => Finished(d)
ScanOK ==
  /\ \A w \in Workers : /\ wpc[w] = "find" => dep[w] = 1
                        /\ wpc[w] \in Awaiting => Scanned(w)
                        /\ wpc[w] \in {"dep_task", "await"} => Aimed(w)
  /\ \A s \in SubTasks : started[s] > 0 => Unhindered(s)
DependencyInv == CallsOK /\ FetchesOK /\ NamesOK /\ NamedOK /\ CountsOK /\ ReleasedOK /\ ScanOK

-----------------------------------------------------------------------------
(* What the steps of a client do to its control. *)

\* A step of client c takes it on in its call, into a call that nobody has made, or out of one.
Moves(c) ==
  /\ \A d \in Clients \ {c} : cpc'[d] = cpc[d] /\ call'[d] = call[d] /\ found'[d] = found[d]
  /\ \/ /\ call'[c] = call[c]
        /\ cpc'[c] \in Unnamed => cpc[c] \in Unnamed
        /\ cpc'[c] \in Unlisted => cpc[c] \in Unlisted
        /\ cpc'[c] \in Unappended => cpc[c] \in Unappended
        /\ cpc'[c] \in Uncounted => cpc[c] \in Uncounted
     \/ /\ cpc[c] = "idle" /\ call'[c] \in Calls /\ outcome[call'[c]] = "unissued"
        /\ call'[c] \in SubTasks => cpc'[c] = "as_name"
     \/ call'[c] = None /\ cpc'[c] = "idle"
\* The id of a subtask is set by its own call, when it begins.
IdsStay == \A s \in SubTasks :
  \/ main_task_id'[s] = main_task_id[s]
  \/ /\ main_task_id[s] = None /\ outcome[s] = "unissued"
     /\ \E c \in Clients : call'[c] = s /\ cpc'[c] = "as_name"

\* Every step of a client moves it so.
LEMMA ClientMoves == ASSUME TypeInv, NEW c \in Clients, ClientStep(c) PROVE Moves(c)
<1> USE DEF TypeInv, ClientInv, ClientsOK, Moves, Unnamed, Unlisted, Unappended, Uncounted
<1>1. ASSUME NEW k \in Calls, outcome[k] = "unissued", NEW l, NEW s, Enter(c, k, l, s),
             cpc[c] = "idle", k \in SubTasks => l = "as_name"
      PROVE  Moves(c)
  BY <1>1 DEF Enter
<1>2. CASE UNCHANGED clientVars BY <1>2 DEF clientVars
<1>3. ASSUME NEW l, CGoto(c, l), l \notin Uncounted PROVE Moves(c) BY <1>3 DEF CGoto
<1>4. ASSUME NEW o, Return(c, o) PROVE Moves(c) BY <1>4 DEF Return
<1> HIDE DEF Moves
<1>5. ASSUME NEW m \in MainTasks, AddMainTask(c, m) PROVE Moves(c)
  BY <1>1, <1>5, KindsAssumption DEF AddMainTask, MayCall, CAt, Calls
<1>6. ASSUME NEW s \in SubTasks, AddSubTask(c, s) PROVE Moves(c)
  BY <1>1, <1>2, <1>6 DEF AddSubTask, MayCall, CAt, Calls, Immediately
<1>7. ASSUME NEW f \in Fetches, GetSubTaskResult(c, f) PROVE Moves(c)
  BY <1>1, <1>2, <1>7, KindsAssumption DEF GetSubTaskResult, MayCall, CAt, Calls, Immediately
<1>8. ASSUME NEW k \in Starts, Start(c, k) PROVE Moves(c)
  BY <1>1, <1>8, KindsAssumption DEF Start, MayCall, CAt, Calls
<1>9. ASSUME NEW k \in Stops \cup Exits, Stop(c, k) PROVE Moves(c)
  BY <1>1, <1>9, KindsAssumption DEF Stop, MayCall, CAt, Calls
<1>10. CASE NameSubTask(c) BY <1>10 DEF NameSubTask, CAt, CGoto, Moves
<1>11. CASE InsertSubTask(c) BY <1>11 DEF InsertSubTask, CAt, CGoto, Moves
<1>12. CASE AppendMember(c) BY <1>12 DEF AppendMember, CAt, CGoto, Moves
<1>13. CASE EmplaceSlot(c) BY <1>13 DEF EmplaceSlot, CAt, CGoto, Moves
<1>14. CASE FetchMain(c) BY <1>2, <1>14 DEF FetchMain, CAt, CGoto, Moves
<1>15. CASE EnterWaiting(c) \/ LockReady(c) \/ WaitSlot(c) \/ TakeResult(c) \/ EraseName(c)
         \/ DestroyMutexes(c) \/ StopPool(c)
  BY <1>3, <1>15 DEF EnterWaiting, LockReady, WaitSlot, TakeResult, EraseName, DestroyMutexes,
     StopPool
<1>16. CASE InsertMain(c) \/ LeaveWaiting(c) \/ EraseSubTask(c) \/ JoinPool(c)
  BY <1>4, <1>16 DEF InsertMain, LeaveWaiting, EraseSubTask, JoinPool
<1>17. CASE PushMembers(c) BY <1>2, <1>3, <1>17 DEF PushMembers
<1>18. CASE CountReady(c) \/ FindSlot(c) \/ EnterJoin(c)
  BY <1>3, <1>4, <1>18 DEF CountReady, FindSlot, EnterJoin
<1>19. CASE TestJoinable(c) BY <1>3, <1>4, <1>19 DEF TestJoinable, AfterJoin
<1>20. CASE LaunchLoop(c) BY <1>2, <1>4, <1>20 DEF LaunchLoop
<1>21. CASE Join(c) BY <1>2, <1>3, <1>4, <1>21 DEF Join, AfterJoin
<1> QED
  BY <1>5, <1>6, <1>7, <1>8, <1>9, <1>10, <1>11, <1>12, <1>13, <1>14, <1>15, <1>16, <1>17, <1>18,
     <1>19, <1>20, <1>21
  DEF ClientStep

\* No step changes the id of a subtask otherwise (line 285).
LEMMA IdsStayed == ASSUME PriorityInv, [Next]_vars PROVE IdsStay
<1> USE DEF IdsStay
<1>1. ASSUME NEW c \in Clients, ClientStep(c) PROVE IdsStay
  <2>1. ASSUME NEW s \in SubTasks, AddSubTask(c, s) PROVE IdsStay
    <3>1. outcome[s] = "unissued" /\ main_task_id[s] = None
      BY <2>1 DEF AddSubTask, MayCall, PriorityInv, IdOfCall
    <3>2. \A t \in SubTasks \ {s} : main_task_id'[t] = main_task_id[t]
      BY <2>1 DEF AddSubTask, PriorityInv, TypeInv, MapsOK
    <3>3. main_task_id'[s] = main_task_id[s] \/ (call'[c] = s /\ cpc'[c] = "as_name")
      BY <2>1 DEF AddSubTask, Enter, PriorityInv, TypeInv, ClientInv, ClientsOK
    <3> QED BY <3>1, <3>2, <3>3
  <2>2. CASE ~\E s \in SubTasks : AddSubTask(c, s)
    BY <1>1, <2>2 DEF ClientStep, AddMainTask, EnterWaiting, InsertMain, NameSubTask,
       InsertSubTask, AppendMember, EmplaceSlot, FetchMain, CountReady, LockReady, PushMembers,
       LeaveWaiting, GetSubTaskResult, FindSlot, WaitSlot, TakeResult, EraseName, EraseSubTask,
       Start, LaunchLoop, Stop, TestJoinable, EnterJoin, Join, DestroyMutexes, StopPool,
       JoinPool, taskVars, subVars, subFields
  <2> QED BY <2>1, <2>2
<1>2. ASSUME NEW w \in Workers, WorkerStep(w) PROVE IdsStay
  BY <1>2 DEF WorkerStep, Pop, LeavePool, FindSubTask, LookupDependency, FindDependency,
     AwaitDependency, StartFunction, FinishFunction, PostResult, FlagCompleted,
     NotifyDependents, FindMainTask, CountCompleted, EraseMainTask, UseDestroyed,
     EraseMembers, taskVars, subVars, subFields
<1>3. CASE LoopStep
  BY <1>3 DEF LoopStep, TestRunning, PendingReady, PendingWaiting, PendingSubTasks, LoopLock,
     Dispatch, LoopUnlock, loopOther, taskVars, subVars, subFields
<1>4. CASE UNCHANGED vars BY <1>4 DEF vars, taskVars, subVars, subFields
<1> QED BY <1>1, <1>2, <1>3, <1>4 DEF Next, Rest

\* Who is past a step of addSubTask stays past it, and comes past it only by its own step.
LEMMA BeyondMoves ==
  ASSUME PriorityInv, CallsOK, IdsStay, NEW c \in Clients, Moves(c),
         NEW S \in {Unnamed, Unlisted, Unappended, Uncounted}, NEW s \in SubTasks
  PROVE  /\ Beyond(s, S) => Beyond(s, S)'
         /\ Beyond(s, S)' => Beyond(s, S) \/ (call[c] = s /\ cpc[c] \in S /\ cpc'[c] \notin S)
<1>1. "as_name" \in S /\ "idle" \notin S BY DEF Unnamed, Unlisted, Unappended, Uncounted
<1>2. s # None BY ConstantsAssumption DEF Calls
<1>3. main_task_id[s] # None => outcome[s] # "unissued" BY DEF PriorityInv, IdOfCall
<1>4. \A d \in Clients : call[d] = s => outcome[s] # "unissued" BY <1>2 DEF CallsOK
<1>5. \A d \in Clients \ {c} : cpc'[d] = cpc[d] /\ call'[d] = call[d] BY DEF Moves
<1>6. \/ call'[c] = call[c] /\ (cpc'[c] \in S => cpc[c] \in S)
      \/ /\ cpc[c] = "idle" /\ outcome[call'[c]] = "unissued"
         /\ call'[c] \in SubTasks => cpc'[c] = "as_name"
      \/ call'[c] = None /\ cpc'[c] = "idle"
  BY DEF Moves
<1>7. ASSUME Beyond(s, S) PROVE Beyond(s, S)'
  <2>1. main_task_id'[s] # None BY <1>7 DEF Beyond, IdsStay
  <2>2. \A d \in Clients : call'[d] = s => cpc'[d] \notin S
    BY <1>2, <1>3, <1>5, <1>6, <1>7 DEF Beyond
  <2> QED BY <2>1, <2>2 DEF Beyond
<1>8. ASSUME Beyond(s, S)', ~Beyond(s, S)
      PROVE  call[c] = s /\ cpc[c] \in S /\ cpc'[c] \notin S
  <2>1. main_task_id[s] # None BY <1>1, <1>8 DEF Beyond, IdsStay
  <2>2. PICK d \in Clients : call[d] = s /\ cpc[d] \in S BY <1>8, <2>1 DEF Beyond
  <2>3. d = c BY <1>5, <1>8, <2>2 DEF Beyond
  <2>4. outcome[s] # "unissued" BY <1>4, <2>2
  <2> QED BY <1>1, <1>2, <1>6, <1>8, <2>2, <2>3, <2>4 DEF Beyond
<1> QED BY <1>7, <1>8

\* Steps of workers and of the loop change nothing there.
LEMMA BeyondSame ==
  ASSUME UNCHANGED <<clientVars, main_task_id>>
  PROVE  \A S : \A s \in SubTasks : Beyond(s, S)' <=> Beyond(s, S)
BY DEF Beyond, clientVars

-----------------------------------------------------------------------------
(* Calls. *)

\* A client goes on in its call.
LEMMA CallsGoto ==
  ASSUME TypeInv, CallsOK, IdsStay, NEW c \in Clients, NEW l, CGoto(c, l), l # "launch",
         l \in Ending => cpc[c] \in Ending,
         \A k \in Calls : outcome'[k] = outcome[k] \/ (k \in Fetches /\ outcome'[k] # "unissued")
  PROVE  CallsOK'
<1>1. \A d \in Clients : call[d] = None \/ call[d] \in Calls BY DEF TypeInv, ClientInv, ClientsOK
<1>2. /\ UNCHANGED <<call, found>> /\ cpc'[c] = l /\ \A d \in Clients \ {c} : cpc'[d] = cpc[d]
  BY DEF CGoto, TypeInv, ClientInv, ClientsOK
<1>3. \A k \in Calls : outcome[k] # "unissued" => outcome'[k] # "unissued" OBVIOUS
<1>4. \A k \in Calls : Returned(k) => Returned(k)' BY <1>2, <1>3 DEF Returned
<1>5. \A s \in SubTasks : s \in Calls /\ s \notin Fetches BY KindsAssumption DEF Calls
<1>6. \A s \in SubTasks : After[s] \subseteq Calls BY ConstantsAssumption, <1>5
<1>7. \A d \in Clients : /\ call'[d] # None => outcome'[call'[d]] # "unissued"
                         /\ cpc'[d] = "launch" => call'[d] \in Starts
                         /\ cpc'[d] \in Ending => call'[d] \in Stops \cup Exits
  BY <1>1, <1>2, <1>3 DEF CallsOK
<1>8. \A s \in SubTasks :
        /\ outcome'[s] # "unissued" => \A k \in After[s] : Returned(k)'
        /\ outcome'[s] = "done" => main_task_id'[s] # None /\ \A d \in Clients : call'[d] # s
  BY <1>2, <1>4, <1>5, <1>6 DEF CallsOK, IdsStay
<1> QED BY <1>2, <1>7, <1>8 DEF CallsOK

\* A client begins a call that stays open.
LEMMA CallsEnter ==
  ASSUME TypeInv, CallsOK, IdsStay, NEW c \in Clients, NEW k \in Calls, NEW l, NEW s,
         MayCall(c, k), Enter(c, k, l, s),
         l = "launch" => k \in Starts, l \in Ending => k \in Stops \cup Exits
  PROVE  CallsOK'
<1>1. \A d \in Clients : call[d] = None \/ call[d] \in Calls BY DEF TypeInv, ClientInv, ClientsOK
<1>2. /\ cpc'[c] = l /\ call'[c] = k
      /\ \A d \in Clients \ {c} : cpc'[d] = cpc[d] /\ call'[d] = call[d]
      /\ outcome'[k] = "open" /\ \A j \in Calls \ {k} : outcome'[j] = outcome[j]
  BY DEF Enter, TypeInv, ClientInv, ClientsOK
<1>3. outcome[k] = "unissued" /\ \A j \in After[k] : Returned(j) BY DEF MayCall
<1>4. \A j \in Calls : Returned(j) => Returned(j)' BY <1>2, <1>3 DEF Returned
<1>5. \A r \in SubTasks : r \in Calls BY DEF Calls
<1>6. \A r \in SubTasks : After[r] \subseteq Calls BY ConstantsAssumption, <1>5
<1>7. None \notin Calls BY ConstantsAssumption
<1>8. \A d \in Clients : call[d] # k BY <1>3, <1>7 DEF CallsOK
<1>9. \A d \in Clients : /\ call'[d] # None => outcome'[call'[d]] # "unissued"
                         /\ cpc'[d] = "launch" => call'[d] \in Starts
                         /\ cpc'[d] \in Ending => call'[d] \in Stops \cup Exits
  BY <1>1, <1>2, <1>8 DEF CallsOK
<1>10. \A d, e \in Clients : call'[d] # None /\ call'[d] = call'[e] => d = e
  BY <1>2, <1>8 DEF CallsOK
<1>11. \A r \in SubTasks :
         /\ outcome'[r] # "unissued" => \A j \in After[r] : Returned(j)'
         /\ outcome'[r] = "done" => main_task_id'[r] # None /\ \A d \in Clients : call'[d] # r
  BY <1>2, <1>3, <1>4, <1>5, <1>6 DEF CallsOK, IdsStay
<1> QED BY <1>9, <1>10, <1>11 DEF CallsOK

\* The call is over at once, or has an end that is not "done".
LEMMA CallsImmediately ==
  ASSUME TypeInv, CallsOK, IdsStay, NEW c \in Clients, NEW k \in Calls, NEW o, MayCall(c, k),
         Immediately(k, o), o # "unissued", o # "done"
  PROVE  CallsOK'
<1>1. \A d \in Clients : call[d] = None \/ call[d] \in Calls BY DEF TypeInv, ClientInv, ClientsOK
<1>2. /\ UNCHANGED <<cpc, call, found>>
      /\ outcome'[k] = o /\ \A j \in Calls \ {k} : outcome'[j] = outcome[j]
  BY DEF Immediately, clientVars, TypeInv, ClientInv, ClientsOK
<1>3. \A j \in After[k] : Returned(j) BY DEF MayCall
<1>4. \A j \in Calls : Returned(j) => Returned(j)' BY <1>2 DEF Returned
<1>5. \A r \in SubTasks : r \in Calls BY DEF Calls
<1>6. \A r \in SubTasks : After[r] \subseteq Calls BY ConstantsAssumption, <1>5
<1>7. \A d \in Clients : call'[d] # None => outcome'[call'[d]] # "unissued"
  BY <1>1, <1>2 DEF CallsOK
<1>8. \A r \in SubTasks :
        /\ outcome'[r] # "unissued" => \A j \in After[r] : Returned(j)'
        /\ outcome'[r] = "done" => main_task_id'[r] # None /\ \A d \in Clients : call'[d] # r
  BY <1>2, <1>3, <1>4, <1>5, <1>6 DEF CallsOK, IdsStay
<1> QED BY <1>2, <1>7, <1>8 DEF CallsOK

\* A call returns: one of addSubTask with success only when the subtask has an id.
LEMMA CallsReturn ==
  ASSUME TypeInv, CallsOK, IdsStay, NEW c \in Clients, NEW o, Return(c, o), o # "unissued",
         o = "done" /\ call[c] \in SubTasks => main_task_id[call[c]] # None
  PROVE  CallsOK'
<1>1. \A d \in Clients : call[d] = None \/ call[d] \in Calls BY DEF TypeInv, ClientInv, ClientsOK
<1>2. /\ cpc'[c] = "idle" /\ call'[c] = None
      /\ \A d \in Clients \ {c} : cpc'[d] = cpc[d] /\ call'[d] = call[d]
  BY DEF Return, TypeInv, ClientInv, ClientsOK
<1>3. \A k \in Calls : outcome'[k] = outcome[k] \/ (k = call[c] /\ outcome'[k] = o)
  BY DEF Return, TypeInv, ClientInv, ClientsOK
<1>4. None \notin Calls /\ \A r \in SubTasks : r \in Calls BY ConstantsAssumption DEF Calls
<1>5. \A r \in SubTasks : After[r] \subseteq Calls BY ConstantsAssumption, <1>4
<1>6. \A k \in Calls : outcome[k] # "unissued" => outcome'[k] # "unissued" BY <1>3
<1>7. \A k \in Calls : Returned(k) => Returned(k)' BY <1>2, <1>4, <1>6 DEF Returned
<1>8. \A d \in Clients : /\ call'[d] # None => outcome'[call'[d]] # "unissued"
                         /\ cpc'[d] = "launch" => call'[d] \in Starts
                         /\ cpc'[d] \in Ending => call'[d] \in Stops \cup Exits
  BY <1>1, <1>2, <1>6 DEF CallsOK, Ending
<1>9. \A d, e \in Clients : call'[d] # None /\ call'[d] = call'[e] => d = e
  BY <1>2 DEF CallsOK
<1>10. \A r \in SubTasks : outcome'[r] # "unissued" => \A k \in After[r] : Returned(k)'
  <2>1. \A r \in SubTasks : outcome'[r] # "unissued" => outcome[r] # "unissued"
    BY <1>3, <1>4 DEF CallsOK
  <2> QED BY <1>5, <1>7, <2>1 DEF CallsOK
<1>11. ASSUME NEW r \in SubTasks, outcome'[r] = "done"
       PROVE  main_task_id'[r] # None /\ \A d \in Clients : call'[d] # r
  <2>1. CASE outcome[r] = "done" BY <1>2, <1>4, <2>1 DEF CallsOK, IdsStay
  <2>2. CASE outcome[r] # "done"
    <3>1. r = call[c] /\ o = "done" BY <1>3, <1>4, <1>11, <2>2
    <3>2. main_task_id'[r] # None BY <3>1 DEF IdsStay
    <3>3. \A d \in Clients \ {c} : call[d] # r BY <1>4, <3>1 DEF CallsOK
    <3> QED BY <1>2, <1>4, <3>2, <3>3
  <2> QED BY <2>1, <2>2
<1> QED BY <1>8, <1>9, <1>10, <1>11 DEF CallsOK

\* A step that no client takes.
LEMMA CallsSame ==
  ASSUME CallsOK, UNCHANGED <<clientVars, outcome, main_task_id>> PROVE CallsOK'
BY DEF CallsOK, Returned, clientVars

\* No step of a client breaks CallsOK.
LEMMA ClientStepCalls ==
  ASSUME PriorityInv, CallsOK, IdsStay, NEW c \in Clients, ClientStep(c) PROVE CallsOK'
<1> USE DEF PriorityInv
<1>0. TypeInv /\ KindsAssumption BY KindsAssumption
<1>1. ASSUME NEW m \in MainTasks, AddMainTask(c, m) PROVE CallsOK'
  BY <1>1, CallsEnter DEF AddMainTask, Calls, Ending
<1>2. ASSUME NEW s \in SubTasks, AddSubTask(c, s) PROVE CallsOK'
  BY <1>2, CallsEnter, CallsImmediately DEF AddSubTask, Calls, Ending
<1>3. ASSUME NEW f \in Fetches, GetSubTaskResult(c, f) PROVE CallsOK'
  BY <1>3, CallsEnter, CallsImmediately DEF GetSubTaskResult, Calls, Ending
<1>4. ASSUME NEW k \in Starts, Start(c, k) PROVE CallsOK'
  BY <1>4, CallsEnter DEF Start, Calls, Ending
<1>5. ASSUME NEW k \in Stops \cup Exits, Stop(c, k) PROVE CallsOK'
  BY <1>5, CallsEnter DEF Stop, Calls
<1>6. CASE EnterWaiting(c) \/ NameSubTask(c) \/ InsertSubTask(c) \/ AppendMember(c)
        \/ EmplaceSlot(c) \/ LockReady(c) \/ WaitSlot(c) \/ EraseName(c)
  BY <1>6, CallsGoto DEF EnterWaiting, NameSubTask, InsertSubTask, AppendMember, EmplaceSlot,
     LockReady, WaitSlot, EraseName, Ending
<1>7. CASE DestroyMutexes(c) \/ StopPool(c)
  BY <1>7, CallsGoto DEF DestroyMutexes, StopPool, Ending, CAt
<1>8. CASE FetchMain(c) BY <1>8, CallsGoto, CallsSame DEF FetchMain, Ending, taskVars, subVars,
                           subFields
<1>9. CASE PushMembers(c) BY <1>9, CallsGoto, CallsSame DEF PushMembers, Ending, taskVars, subVars,
                             subFields
<1>10. CASE TakeResult(c)
  <2>1. call[c] \in Fetches /\ slot[found[c]] # "unissued"
    BY <1>10 DEF TakeResult, CAt, TypeInv, ClientInv, ClientShape, Fetching, MapsOK, Slots
  <2>2. \A k \in Calls : outcome'[k] = outcome[k] \/ (k \in Fetches /\ outcome'[k] # "unissued")
    BY <1>10, <2>1 DEF TakeResult, TypeInv, ClientInv, ClientsOK
  <2> QED BY <1>10, <2>2, CallsGoto DEF TakeResult, Ending
<1>11. CASE InsertMain(c)
  <2>1. call[c] \notin SubTasks
    BY <1>0, <1>11 DEF InsertMain, CAt, TypeInv, ClientInv, ClientShape, AddingMain, KindsAssumption
  <2> QED BY <1>11, <2>1, CallsReturn DEF InsertMain
<1>12. CASE CountReady(c) \/ LeaveWaiting(c)
  <2>1. main_task_id[call[c]] # None
    BY <1>12, ConstantsAssumption
    DEF CountReady, LeaveWaiting, CAt, TypeInv, ClientInv, ClientShape, AddingSub, Calls
  <2> QED BY <1>12, <2>1, CallsReturn, CallsGoto DEF CountReady, LeaveWaiting, Ending
<1>13. CASE FindSlot(c) \/ EraseSubTask(c)
  <2>1. call[c] \notin SubTasks
    BY <1>0, <1>13 DEF FindSlot, EraseSubTask, CAt, TypeInv, ClientInv, ClientShape, Fetching,
                       KindsAssumption
  <2> QED BY <1>13, <2>1, CallsReturn, CallsGoto DEF FindSlot, EraseSubTask, Ending
<1>14. CASE LaunchLoop(c)
  <2>1. call[c] \notin SubTasks BY <1>0, <1>14 DEF LaunchLoop, CAt, CallsOK, KindsAssumption
  <2> QED BY <1>14, <2>1, CallsReturn, CallsSame
          DEF LaunchLoop, clientVars, taskVars, subVars, subFields
<1>15. ASSUME cpc[c] \in Ending PROVE call[c] \notin SubTasks
  BY <1>0, <1>15 DEF CallsOK, KindsAssumption
<1>16. CASE TestJoinable(c) \/ EnterJoin(c) \/ JoinPool(c)
  BY <1>15, <1>16, CallsReturn, CallsGoto
  DEF TestJoinable, EnterJoin, JoinPool, AfterJoin, CAt, Ending
<1>17. CASE Join(c)
  BY <1>15, <1>17, CallsReturn, CallsGoto, CallsSame
  DEF Join, AfterJoin, CAt, Ending, clientVars, taskVars, subVars, subFields
<1> QED
  BY <1>1, <1>2, <1>3, <1>4, <1>5, <1>6, <1>7, <1>8, <1>9, <1>10, <1>11, <1>12, <1>13, <1>14,
     <1>16, <1>17
  DEF ClientStep

-----------------------------------------------------------------------------
(* Fetches and names. *)

\* A function that has ended stays so.
LEMMA FinishedStays ==
  ASSUME TypeInv, [Next]_vars PROVE \A s \in SubTasks : Finished(s) => Finished(s)'
<1> SUFFICES ASSUME NEW s \in SubTasks, Finished(s) PROVE Finished(s)' OBVIOUS
<1>1. ASSUME NEW c \in Clients, ClientStep(c) PROVE Finished(s)'
  BY <1>1 DEF ClientStep, AddMainTask, EnterWaiting, InsertMain, AddSubTask, NameSubTask,
     InsertSubTask, AppendMember, EmplaceSlot, FetchMain, CountReady, LockReady, PushMembers,
     LeaveWaiting, GetSubTaskResult, FindSlot, WaitSlot, TakeResult, EraseName, EraseSubTask,
     Start, LaunchLoop, Stop, TestJoinable, EnterJoin, Join, DestroyMutexes, StopPool,
     JoinPool, clientOther, histVars, Finished
<1>2. ASSUME NEW w \in Workers, WorkerStep(w) PROVE Finished(s)'
  <2>1. CASE FinishFunction(w)
    BY <2>1 DEF FinishFunction, Finished, TypeInv, OthersOK
  <2>2. CASE ~FinishFunction(w)
    BY <1>2, <2>2 DEF WorkerStep, Pop, LeavePool, FindSubTask, LookupDependency, FindDependency,
       AwaitDependency, StartFunction, PostResult, FlagCompleted,
       NotifyDependents, FindMainTask, CountCompleted, EraseMainTask, UseDestroyed,
       EraseMembers, workerOther, histVars, Finished
  <2> QED BY <2>1, <2>2
<1>3. CASE LoopStep
  BY <1>3 DEF LoopStep, TestRunning, PendingReady, PendingWaiting, PendingSubTasks, LoopLock,
     Dispatch, LoopUnlock, loopOther, histVars, Finished
<1>4. CASE UNCHANGED vars BY <1>4 DEF vars, histVars, Finished
<1> QED BY <1>1, <1>2, <1>3, <1>4 DEF Next, Rest

\* A step of a client that posts and takes no result.
LEMMA FetchesClient ==
  ASSUME TypeInv, FetchesOK, NEW c \in Clients, Moves(c),
         UNCHANGED <<done, semaphore, fn, wpc, job>>,
         cpc'[c] \in Fetching => SubName[found'[c]] = FetchName[call'[c]],
         cpc'[c] \in Fetched => Finished(found'[c])
  PROVE  FetchesOK'
BY DEF FetchesOK, Moves, Finished

\* No step of a client breaks FetchesOK: a fetch passes the semaphore of a slot (line 228) only
\* after its result has been posted.
LEMMA ClientStepFetches ==
  ASSUME TypeInv, FetchesOK, NamesOK, NEW c \in Clients, ClientStep(c) PROVE FetchesOK'
<1> USE DEF clientOther, workerVars, histVars, taskVars, subVars, subFields, Fetching, Fetched
<1>1. Moves(c) BY ClientMoves
<1>2. ASSUME NEW f \in Fetches, GetSubTaskResult(c, f) PROVE FetchesOK'
  <2>1. PICK s \in SubTasks \cup {None} : s = sub_task_name_to_id[FetchName[f]]
    BY ConstantsAssumption DEF TypeInv, MapsOK
  <2>2. FetchName[f] \in SubNames BY ConstantsAssumption
  <2>3. CASE s = None
    BY <1>1, <1>2, <2>1, <2>3, FetchesClient
    DEF GetSubTaskResult, Immediately, MayCall, CAt, clientVars
  <2>4. CASE s # None
    <3>1. SubName[s] = FetchName[f] BY <2>1, <2>2, <2>4 DEF NamesOK
    <3>2. cpc'[c] = "gr_slot" /\ call'[c] = f /\ found'[c] = s
      BY <1>2, <2>1, <2>4 DEF GetSubTaskResult, Enter, TypeInv, ClientInv, ClientsOK
    <3> QED BY <1>1, <1>2, <3>1, <3>2, FetchesClient DEF GetSubTaskResult
  <2> QED BY <2>3, <2>4
<1>3. CASE WaitSlot(c)
  <2>1. /\ cpc[c] = "gr_wait" /\ cpc'[c] = "gr_take" /\ UNCHANGED <<call, found>>
        /\ \A d \in Clients \ {c} : cpc'[d] = cpc[d]
    BY <1>3 DEF WaitSlot, CAt, CGoto, TypeInv, ClientInv, ClientsOK
  <2>2. found[c] \in SubTasks BY <2>1 DEF TypeInv, ClientInv, ClientShape
  <2>3. semaphore[found[c]] > 0 BY <1>3 DEF WaitSlot, SlotPosted
  <2>4. Finished(found[c]) BY <2>2, <2>3 DEF FetchesOK
  <2>5. \A s \in SubTasks : semaphore'[s] > 0 => semaphore[s] > 0
    BY <1>3, <2>2 DEF WaitSlot, TypeInv, MapsOK
  <2>6. UNCHANGED <<done, fn, wpc, job>> BY <1>3 DEF WaitSlot
  <2> QED BY <2>1, <2>4, <2>5, <2>6 DEF FetchesOK, Finished
<1>4. ASSUME NEW l, CGoto(c, l), UNCHANGED <<done, semaphore, fn, wpc, job>>,
             l \in Fetching => cpc[c] \in Fetching, l \in Fetched => cpc[c] \in Fetched
      PROVE  FetchesOK'
  <2>1. cpc'[c] = l /\ UNCHANGED <<call, found>>
    BY <1>4 DEF CGoto, TypeInv, ClientInv, ClientsOK
  <2> QED BY <1>1, <1>4, <2>1, FetchesClient DEF FetchesOK
<1>5. ASSUME NEW o, Return(c, o), UNCHANGED <<done, semaphore, fn, wpc, job>> PROVE FetchesOK'
  BY <1>1, <1>5, FetchesClient DEF Return, TypeInv, ClientInv, ClientsOK
<1>6. ASSUME NEW k \in Calls, NEW l, Enter(c, k, l, None), l \notin Fetching,
             UNCHANGED <<done, semaphore, fn, wpc, job>>
      PROVE  FetchesOK'
  BY <1>1, <1>6, FetchesClient DEF Enter, TypeInv, ClientInv, ClientsOK
<1>7. ASSUME UNCHANGED <<done, semaphore, fn, wpc, job, clientVars>> PROVE FetchesOK'
  BY <1>1, <1>7, FetchesClient DEF FetchesOK, clientVars
<1>8. ASSUME NEW m \in MainTasks, AddMainTask(c, m) PROVE FetchesOK'
  BY <1>6, <1>8 DEF AddMainTask, Calls
<1>9. ASSUME NEW s \in SubTasks, AddSubTask(c, s) PROVE FetchesOK'
  BY <1>6, <1>7, <1>9 DEF AddSubTask, Immediately, Calls
<1>10. ASSUME NEW k \in Starts, Start(c, k) PROVE FetchesOK' BY <1>6, <1>10 DEF Start, Calls
<1>11. ASSUME NEW k \in Stops \cup Exits, Stop(c, k) PROVE FetchesOK'
  BY <1>6, <1>11 DEF Stop, Calls
<1>12. CASE EnterWaiting(c) \/ NameSubTask(c) \/ InsertSubTask(c) \/ AppendMember(c)
         \/ EmplaceSlot(c) \/ LockReady(c) \/ DestroyMutexes(c) \/ StopPool(c)
  BY <1>4, <1>12 DEF EnterWaiting, NameSubTask, InsertSubTask, AppendMember, EmplaceSlot,
     LockReady, DestroyMutexes, StopPool
<1>13. CASE TakeResult(c) \/ EraseName(c)
  BY <1>4, <1>13 DEF TakeResult, EraseName, CAt
<1>14. CASE InsertMain(c) \/ LeaveWaiting(c) \/ EraseSubTask(c) \/ JoinPool(c)
  BY <1>5, <1>14 DEF InsertMain, LeaveWaiting, EraseSubTask, JoinPool
<1>15. CASE CountReady(c) \/ FindSlot(c) \/ EnterJoin(c)
  BY <1>4, <1>5, <1>15 DEF CountReady, FindSlot, EnterJoin, CAt
<1>16. CASE FetchMain(c) \/ PushMembers(c)
  BY <1>4, <1>7, <1>16 DEF FetchMain, PushMembers
<1>17. CASE TestJoinable(c) BY <1>4, <1>5, <1>17 DEF TestJoinable, AfterJoin
<1>18. CASE LaunchLoop(c) BY <1>5, <1>7, <1>18 DEF LaunchLoop, clientVars
<1>19. CASE Join(c) BY <1>4, <1>5, <1>7, <1>19 DEF Join, AfterJoin, clientVars
<1> QED
  BY <1>2, <1>3, <1>8, <1>9, <1>10, <1>11, <1>12, <1>13, <1>14, <1>15, <1>16, <1>17, <1>18, <1>19
  DEF ClientStep

\* A worker posts a result and notifies dependents (lines 79-97) only after the function has ended.
LEMMA WorkerStepFetches ==
  ASSUME TypeInv, FetchesOK, NEW w \in Workers, WorkerStep(w),
         \A s \in SubTasks : Finished(s) => Finished(s)'
  PROVE  FetchesOK'
<1> USE DEF workerOther, clientVars, histVars, taskVars, subVars, subFields
<1>1. \A c \in Clients : /\ cpc[c] \in Fetching => found[c] \in SubTasks
                         /\ cpc[c] \in Fetched => found[c] \in SubTasks
  BY DEF TypeInv, ClientInv, ClientShape, Fetching, Fetched
<1>2. \A v \in Workers : wpc[v] \in {"post", "flag", "notify"} => job[v] \in SubTasks
  BY DEF TypeInv, WorkerInv, WorkerShape
<1>3. ASSUME UNCHANGED <<done, semaphore, clientVars>>,
             \A v \in Workers \ {w} : wpc'[v] = wpc[v] /\ job'[v] = job[v],
             wpc'[w] \in {"post", "flag", "notify"} =>
               \/ job'[w] \in SubTasks /\ Finished(job[w])'
               \/ job'[w] = job[w] /\ wpc[w] \in {"post", "flag", "notify"}
      PROVE  FetchesOK'
  <2>1. \A s \in SubTasks : s \in done' \/ semaphore'[s] > 0 => Finished(s)'
    BY <1>3 DEF FetchesOK
  <2>2. \A v \in Workers : wpc'[v] \in {"post", "flag", "notify"} => Finished(job[v])'
    BY <1>2, <1>3 DEF FetchesOK
  <2>3. \A c \in Clients : /\ cpc'[c] \in Fetching => SubName[found'[c]] = FetchName[call'[c]]
                           /\ cpc'[c] \in Fetched => Finished(found[c])'
    BY <1>1, <1>3 DEF FetchesOK
  <2> QED BY <2>1, <2>2, <2>3 DEF FetchesOK
<1>4. ASSUME NEW l, WGoto(w, l), UNCHANGED <<done, semaphore, clientVars>>,
             l \in {"post", "flag", "notify"} => wpc[w] \in {"post", "flag", "notify"}
      PROVE  FetchesOK'
  BY <1>3, <1>4 DEF WGoto, TypeInv, WorkerInv, WorkersOK
<1>5. ASSUME NEW l, NEW s, WJob(w, l, s), UNCHANGED <<done, semaphore, clientVars>>,
             l \notin {"post", "flag", "notify"}
      PROVE  FetchesOK'
  BY <1>3, <1>5 DEF WJob, TypeInv, WorkerInv, WorkersOK
<1>6. ASSUME NextDependency(w), UNCHANGED <<done, semaphore, clientVars>> PROVE FetchesOK'
  BY <1>3, <1>6 DEF NextDependency, TypeInv, WorkerInv, WorkersOK
<1>7. CASE FinishFunction(w)
  <2>1. job[w] \in SubTasks /\ UNCHANGED <<done, semaphore, clientVars, job>>
    BY <1>7 DEF FinishFunction, WAt, WGoto, TypeInv, WorkerInv, WorkerShape
  <2>2. Finished(job[w])' BY <1>7, <2>1 DEF FinishFunction, Finished, TypeInv, OthersOK
  <2>3. \A v \in Workers \ {w} : wpc'[v] = wpc[v]
    BY <1>7 DEF FinishFunction, WGoto, TypeInv, WorkerInv, WorkersOK
  <2> QED BY <1>3, <2>1, <2>2, <2>3
<1>8. CASE PostResult(w)
  <2>1. /\ wpc[w] = "post" /\ wpc'[w] = "flag" /\ UNCHANGED <<done, clientVars, job, fn>>
        /\ \A v \in Workers \ {w} : wpc'[v] = wpc[v]
    BY <1>8 DEF PostResult, WAt, WGoto, TypeInv, WorkerInv, WorkersOK
  <2>2. \A s \in SubTasks : semaphore'[s] > 0 => s = job[w] \/ semaphore[s] > 0
    BY <1>8 DEF PostResult, TypeInv, MapsOK
  <2>3. Finished(job[w]) BY <2>1 DEF FetchesOK
  <2> QED BY <2>1, <2>2, <2>3 DEF FetchesOK, Finished
<1>9. CASE NotifyDependents(w)
  <2>1. /\ wpc[w] = "notify" /\ wpc'[w] = "find_main"
        /\ UNCHANGED <<semaphore, clientVars, job, fn>>
        /\ \A v \in Workers \ {w} : wpc'[v] = wpc[v]
        /\ done' = done \cup {job[w]}
    BY <1>9 DEF NotifyDependents, WAt, WGoto, TypeInv, WorkerInv, WorkersOK
  <2>2. Finished(job[w]) BY <2>1 DEF FetchesOK
  <2> QED BY <2>1, <2>2 DEF FetchesOK, Finished
<1>10. CASE Pop(w) BY <1>5, <1>10 DEF Pop
<1>11. CASE FindSubTask(w) BY <1>4, <1>5, <1>11 DEF FindSubTask, WReturn
<1>12. CASE FindMainTask(w) BY <1>4, <1>5, <1>12 DEF FindMainTask, WReturn
<1>13. CASE CountCompleted(w) BY <1>4, <1>5, <1>13 DEF CountCompleted, WReturn
<1>14. CASE EraseMembers(w) BY <1>5, <1>14 DEF EraseMembers, WReturn
<1>15. CASE LeavePool(w) \/ StartFunction(w) \/ EraseMainTask(w)
  BY <1>4, <1>15 DEF LeavePool, StartFunction, EraseMainTask
<1>16. CASE FlagCompleted(w) BY <1>4, <1>16 DEF FlagCompleted, WAt
<1>17. CASE LookupDependency(w)
  <2>1. CASE NextDependency(w) BY <1>6, <1>17, <2>1 DEF LookupDependency
  <2>2. CASE ~NextDependency(w)
    BY <1>3, <1>17, <2>2 DEF LookupDependency, TypeInv, WorkerInv, WorkersOK
  <2> QED BY <2>1, <2>2
<1>18. CASE FindDependency(w) BY <1>4, <1>6, <1>18 DEF FindDependency
<1>19. CASE AwaitDependency(w) BY <1>6, <1>19 DEF AwaitDependency
<1>20. CASE UseDestroyed(w)
  BY <1>3, <1>20 DEF UseDestroyed, workerVars
<1> QED
  BY <1>7, <1>8, <1>9, <1>10, <1>11, <1>12, <1>13, <1>14, <1>15, <1>16, <1>17, <1>18, <1>19, <1>20
  DEF WorkerStep

\* A step of a client that neither names nor lists a subtask.
LEMMA NamesStay ==
  ASSUME PriorityInv, CallsOK, IdsStay, NEW c \in Clients, Moves(c),
         UNCHANGED <<sub_task_name_to_id, sub_tasks>>, cpc[c] \notin Unlisted,
         \A s \in SubTasks : Finished(s) => Finished(s)'
  PROVE  (NamesOK => NamesOK') /\ (NamedOK => NamedOK')
<1>1. \A s \in SubTasks : /\ Beyond(s, Unnamed)' => Beyond(s, Unnamed)
                          /\ Beyond(s, Unlisted)' => Beyond(s, Unlisted)
  BY BeyondMoves DEF Unnamed, Unlisted
<1> QED BY <1>1 DEF NamesOK, NamedOK

\* The steps of a client that neither name nor list a subtask, nor erase it.
LEMMA NamesNothing ==
  ASSUME NEW c \in Clients, ClientStep(c),
         ~(NameSubTask(c) \/ InsertSubTask(c) \/ EraseName(c) \/ EraseSubTask(c))
  PROVE  UNCHANGED <<sub_task_name_to_id, sub_tasks>> /\ cpc[c] \notin Unlisted
BY DEF ClientStep, AddMainTask, EnterWaiting, InsertMain, AddSubTask, AppendMember,
   EmplaceSlot, FetchMain, CountReady, LockReady, PushMembers, LeaveWaiting,
   GetSubTaskResult, FindSlot, WaitSlot, TakeResult, Start, LaunchLoop, Stop, TestJoinable,
   EnterJoin, Join, DestroyMutexes, StopPool, JoinPool, MayCall, CAt, Unlisted, taskVars,
   subVars, subMaps

\* A name is given to the subtask of the call (line 286), and taken from one that has ended (line
\* 240).
LEMMA NameMoves ==
  ASSUME TypeInv, FetchesOK, NEW c \in Clients, NameSubTask(c) \/ EraseName(c)
  PROVE  \E s \in SubTasks :
           /\ \/ /\ cpc[c] = "as_name" /\ cpc'[c] = "as_insert" /\ s = call[c] /\ call' = call
                 /\ sub_task_name_to_id'[SubName[s]] = s
              \/ cpc[c] = "gr_name" /\ Finished(s) /\ sub_task_name_to_id'[SubName[s]] = None
           /\ \A n \in SubNames \ {SubName[s]} : sub_task_name_to_id'[n] = sub_task_name_to_id[n]
           /\ UNCHANGED sub_tasks
<1>1. \A s \in SubTasks : SubName[s] \in SubNames BY ConstantsAssumption
<1>2. CASE NameSubTask(c)
  BY <1>1, <1>2
  DEF NameSubTask, CAt, CGoto, TypeInv, ClientInv, ClientsOK, ClientShape, AddingSub, MapsOK
<1>3. CASE EraseName(c)
  BY <1>1, <1>3
  DEF EraseName, CAt, TypeInv, ClientInv, ClientShape, Fetching, FetchesOK, Fetched, MapsOK
<1> QED BY <1>2, <1>3

\* No step of a client breaks NamesOK: a subtask stays listed until it has ended and is erased
\* (line 247).
LEMMA ClientStepNames ==
  ASSUME PriorityInv, CallsOK, FetchesOK, NamesOK, IdsStay,
         NEW c \in Clients, ClientStep(c), \A s \in SubTasks : Finished(s) => Finished(s)'
  PROVE  NamesOK'
<1> USE DEF PriorityInv
<1>1. Moves(c) BY ClientMoves
<1>2. \A s \in SubTasks : s # None BY ConstantsAssumption DEF Calls
<1>3. \A s \in SubTasks :
        Beyond(s, Unlisted)' =>
          Beyond(s, Unlisted) \/ (call[c] = s /\ cpc[c] \in Unlisted /\ cpc'[c] \notin Unlisted)
  BY <1>1, BeyondMoves
<1>4. CASE NameSubTask(c) \/ EraseName(c)
  BY <1>2, <1>3, <1>4, NameMoves DEF NamesOK, Unlisted
<1>5. CASE InsertSubTask(c)
  BY <1>3, <1>5 DEF InsertSubTask, CAt, NamesOK
<1>6. CASE EraseSubTask(c)
  <2>1. PICK s \in SubTasks : s = found[c] /\ Finished(s)
    BY <1>6 DEF EraseSubTask, CAt, TypeInv, ClientInv, ClientShape, Fetching, FetchesOK, Fetched
  <2>2. /\ UNCHANGED sub_task_name_to_id /\ sub_tasks' = sub_tasks \ {s} /\ cpc[c] = "gr_erase"
    BY <1>6, <2>1 DEF EraseSubTask, CAt
  <2> QED BY <1>3, <2>1, <2>2 DEF NamesOK, Unlisted
<1> QED BY <1>1, <1>4, <1>5, <1>6, NamesNothing, NamesStay

\* Nor does one break NamedOK: no other subtask takes its name, and what a fetch erases has ended.
LEMMA ClientStepNamed ==
  ASSUME WellFormed, PriorityInv, CallsOK, FetchesOK, NamedOK, IdsStay,
         NEW c \in Clients, ClientStep(c), \A s \in SubTasks : Finished(s) => Finished(s)'
  PROVE  NamedOK'
<1> USE DEF PriorityInv
<1>1. Moves(c) BY ClientMoves
<1>2. \A s \in SubTasks : SubName[s] \in SubNames BY ConstantsAssumption
<1>3. \A s, t \in SubTasks : SubName[s] = SubName[t] => s = t BY DEF WellFormed
<1>4. \A s \in SubTasks :
        Beyond(s, Unnamed)' =>
          Beyond(s, Unnamed) \/ (call[c] = s /\ cpc[c] \in Unnamed /\ cpc'[c] \notin Unnamed)
  BY <1>1, BeyondMoves
<1>5. CASE NameSubTask(c) \/ EraseName(c)
  BY <1>2, <1>3, <1>4, <1>5, NameMoves DEF NamedOK, Unnamed
<1>6. CASE InsertSubTask(c) \/ EraseSubTask(c)
  BY <1>4, <1>6 DEF InsertSubTask, EraseSubTask, CAt, NamedOK, Unnamed
<1> QED BY <1>1, <1>5, <1>6, NamesNothing, NamesStay

\* Steps of workers and of the loop name, list and submit nothing.
LEMMA OtherStepNames ==
  ASSUME UNCHANGED <<sub_task_name_to_id, sub_tasks, clientVars, main_task_id>>,
         \A s \in SubTasks : Finished(s) => Finished(s)'
  PROVE  (NamesOK => NamesOK') /\ (NamedOK => NamedOK')
BY DEF NamesOK, NamedOK, Beyond, clientVars

-----------------------------------------------------------------------------
(* Counts. *)

\* A name of a main task leads to a main task of that name, and a subtask gets its id from there
\* (lines 278-285).
LEMMA ClientStepIds ==
  ASSUME PriorityInv, CountsOK, NEW c \in Clients, ClientStep(c)
  PROVE  /\ \A n \in MainNames : \A m \in MainTasks :
              main_task_name_to_id'[n] = m => MainName[m] = n
         /\ \A s \in SubTasks :
              main_task_id'[s] # None => MainTaskName[s] = MainName[main_task_id'[s]]
<1> USE DEF PriorityInv, TypeInv, MapsOK
<1>1. ASSUME NEW m \in MainTasks, AddMainTask(c, m)
      PROVE  /\ \A n \in MainNames : \A k \in MainTasks :
                  main_task_name_to_id'[n] = k => MainName[k] = n
             /\ UNCHANGED main_task_id
  BY <1>1 DEF AddMainTask, CountsOK, subVars, subFields
<1>2. ASSUME NEW s \in SubTasks, AddSubTask(c, s)
      PROVE  /\ UNCHANGED main_task_name_to_id
             /\ \A t \in SubTasks :
                  main_task_id'[t] # None => MainTaskName[t] = MainName[main_task_id'[t]]
  <2>1. MainTaskName[s] \in MainNames BY ConstantsAssumption
  <2>2. UNCHANGED main_task_name_to_id BY <1>2 DEF AddSubTask, mainVars, mainMaps
  <2>3. PICK m \in MainTasks \cup {None} : m = main_task_name_to_id[MainTaskName[s]]
    BY <2>1
  <2>4. CASE m = None
    <3>1. UNCHANGED main_task_id BY <1>2, <2>3, <2>4 DEF AddSubTask
    <3> QED BY <2>2, <3>1 DEF CountsOK
  <2>5. CASE m # None
    <3>1. main_task_id' = [main_task_id EXCEPT ![s] = m] BY <1>2, <2>3, <2>5 DEF AddSubTask
    <3>2. main_task_id'[s] = m /\ \A t \in SubTasks \ {s} : main_task_id'[t] = main_task_id[t]
      BY <3>1
    <3>3. MainName[m] = MainTaskName[s] BY <2>1, <2>3, <2>5 DEF CountsOK
    <3>4. \A t \in SubTasks : main_task_id[t] # None => MainTaskName[t] = MainName[main_task_id[t]]
      BY DEF CountsOK
    <3> QED BY <2>2, <3>2, <3>3, <3>4
  <2> QED BY <2>4, <2>5
<1> HIDE DEF PriorityInv, TypeInv, MapsOK
<1>3. CASE ~\E m \in MainTasks : AddMainTask(c, m)
  <2>1. UNCHANGED main_task_name_to_id
    BY <1>3 DEF ClientStep, AddSubTask, EnterWaiting, InsertMain, NameSubTask,
       InsertSubTask, AppendMember, EmplaceSlot, FetchMain, CountReady, LockReady, PushMembers,
       LeaveWaiting, GetSubTaskResult, FindSlot, WaitSlot, TakeResult, EraseName, EraseSubTask,
       Start, LaunchLoop, Stop, TestJoinable, EnterJoin, Join, DestroyMutexes, StopPool,
       JoinPool, taskVars, mainVars, mainMaps
  <2>2. CASE ~\E s \in SubTasks : AddSubTask(c, s)
    <3>2. UNCHANGED main_task_id
      BY <2>2 DEF ClientStep, AddMainTask, EnterWaiting, InsertMain, NameSubTask,
         InsertSubTask, AppendMember, EmplaceSlot, FetchMain, CountReady, LockReady, PushMembers,
         LeaveWaiting, GetSubTaskResult, FindSlot, WaitSlot, TakeResult, EraseName, EraseSubTask,
         Start, LaunchLoop, Stop, TestJoinable, EnterJoin, Join, DestroyMutexes, StopPool,
         JoinPool, taskVars, subVars, subFields
    <3> QED BY <2>1, <3>2 DEF CountsOK
  <2> QED BY <1>2, <2>1, <2>2 DEF CountsOK
<1> QED BY <1>1, <1>3 DEF CountsOK

\* The subtasks counted are the same after a step that counts none.
LEMMA CountedStay ==
  ASSUME PriorityInv, CallsOK, IdsStay, NEW c \in Clients, Moves(c),
         cpc[c] \in Uncounted => cpc'[c] \in Uncounted, NEW m \in MainTasks
  PROVE  CountedOf(m)' = CountedOf(m)
<1>1. ASSUME NEW s \in SubTasks
      PROVE  (main_task_id'[s] = m /\ Beyond(s, Uncounted)')
               <=> (main_task_id[s] = m /\ Beyond(s, Uncounted))
  <2>1. Beyond(s, Uncounted)' <=> Beyond(s, Uncounted) BY BeyondMoves
  <2>2. Beyond(s, Uncounted) => main_task_id'[s] = main_task_id[s] BY DEF Beyond, IdsStay
  <2> QED BY <2>1, <2>2
<1> QED BY <1>1 DEF CountedOf

\* The subtasks counted are finitely many, so that one more is one more.
LEMMA CountedFinite ==
  ASSUME NEW m \in MainTasks
  PROVE  /\ IsFiniteSet(CountedOf(m))
         /\ \A s \in SubTasks \ CountedOf(m) :
              Cardinality(CountedOf(m) \cup {s}) = Cardinality(CountedOf(m)) + 1
<1>1. IsFiniteSet(SubTasks) /\ CountedOf(m) \subseteq SubTasks
  BY ConstantsAssumption DEF CountedOf
<1>2. IsFiniteSet(CountedOf(m)) BY <1>1, FS_Subset
<1> QED BY <1>2, FS_AddElement

\* addSubTask counts its own subtask, and that once.
LEMMA CountReadyCounts ==
  ASSUME PriorityInv, CallsOK, IdsStay, NEW c \in Clients, CountReady(c)
  PROVE  \E s \in SubTasks, m \in MainTasks :
           /\ s = call[c] /\ m = main_task_id[s] /\ s \notin CountedOf(m)
           /\ CountedOf(m)' = CountedOf(m) \cup {s}
           /\ \A k \in MainTasks \ {m} : CountedOf(k)' = CountedOf(k)
<1> USE DEF PriorityInv
<1>1. PICK s \in SubTasks : s = call[c] /\ main_task_id[s] \in MainTasks
  BY DEF CountReady, CAt, TypeInv, ClientInv, ClientShape, AddingSub
<1>2. None \notin MainTasks /\ \A t \in SubTasks : t # None
  BY ConstantsAssumption DEF Calls
<1>3. cpc[c] = "as_ready" /\ UNCHANGED main_task_id
  BY DEF CountReady, CAt, subVars, subFields
<1>4. /\ (cpc'[c] = "as_lock" /\ call'[c] = s) \/ call'[c] = None
      /\ \A d \in Clients \ {c} : call'[d] = call[d] /\ cpc'[d] = cpc[d]
  BY <1>1 DEF CountReady, CGoto, Return, TypeInv, ClientInv, ClientsOK
<1>5. \A d \in Clients \ {c} : call[d] # s BY <1>1, <1>2 DEF CallsOK
<1>6. ~Beyond(s, Uncounted) BY <1>1, <1>3 DEF Beyond, Uncounted
<1>7. Beyond(s, Uncounted)' BY <1>1, <1>2, <1>3, <1>4, <1>5 DEF Beyond, Uncounted
<1>8. ASSUME NEW t \in SubTasks \ {s} PROVE Beyond(t, Uncounted)' <=> Beyond(t, Uncounted)
  BY <1>1, <1>2, <1>3, <1>4 DEF Beyond
<1>9. PICK m \in MainTasks : m = main_task_id[s] BY <1>1
<1>10. s \notin CountedOf(m) /\ CountedOf(m)' = CountedOf(m) \cup {s}
  BY <1>3, <1>6, <1>7, <1>8, <1>9 DEF CountedOf
<1>11. \A k \in MainTasks \ {m} : CountedOf(k)' = CountedOf(k)
  BY <1>3, <1>8, <1>9 DEF CountedOf
<1> QED BY <1>1, <1>9, <1>10, <1>11

\* No other step of a client takes it past the count.
LEMMA CountsNothing ==
  ASSUME TypeInv, NEW c \in Clients, ClientStep(c), ~CountReady(c), cpc[c] \in Uncounted
  PROVE  cpc'[c] \in Uncounted
<1>1. \A l : CGoto(c, l) => cpc'[c] = l BY DEF CGoto, TypeInv, ClientInv, ClientsOK
<1> QED BY <1>1 DEF ClientStep, AddMainTask, EnterWaiting, InsertMain, AddSubTask,
   NameSubTask, InsertSubTask, AppendMember, EmplaceSlot, FetchMain, LockReady,
   PushMembers, LeaveWaiting, GetSubTaskResult, FindSlot, WaitSlot, TakeResult, EraseName,
   EraseSubTask, Start, LaunchLoop, Stop, TestJoinable, EnterJoin, Join, DestroyMutexes,
   StopPool, JoinPool, CAt, MayCall, Uncounted, clientVars

\* No step of a client breaks CountsOK: ready_count is the number of subtasks counted.
LEMMA ClientStepCounts ==
  ASSUME PriorityInv, CallsOK, IdsStay, CountsOK, NEW c \in Clients, ClientStep(c)
  PROVE  CountsOK'
<1>1. Moves(c) BY ClientMoves DEF PriorityInv
<1>2. CASE CountReady(c)
  <2>1. PICK s \in SubTasks, m \in MainTasks :
          /\ s = call[c] /\ m = main_task_id[s] /\ s \notin CountedOf(m)
          /\ CountedOf(m)' = CountedOf(m) \cup {s}
          /\ \A k \in MainTasks \ {m} : CountedOf(k)' = CountedOf(k)
    BY <1>2, CountReadyCounts
  <2>2. ready_count' = [ready_count EXCEPT ![m] = ready_count[m] + 1]
    BY <1>2, <2>1 DEF CountReady
  <2>3. ready_count[m] = Cardinality(CountedOf(m)) BY DEF CountsOK
  <2>4. Cardinality(CountedOf(m))' = Cardinality(CountedOf(m)) + 1
    BY <2>1, CountedFinite
  <2>5. \A k \in MainTasks \ {m} : CountedOf(k)' = CountedOf(k) BY <2>1
  <2>6. \A k \in MainTasks : ready_count'[k] = Cardinality(CountedOf(k))'
    BY <2>2, <2>3, <2>4, <2>5 DEF CountsOK, PriorityInv, TypeInv, MapsOK
  <2> QED BY <2>6, ClientStepIds DEF CountsOK
<1>3. CASE ~CountReady(c)
  <2>1. cpc[c] \in Uncounted => cpc'[c] \in Uncounted BY <1>3, CountsNothing DEF PriorityInv
  <2>2. UNCHANGED ready_count
    BY <1>3 DEF ClientStep, AddMainTask, EnterWaiting, InsertMain, AddSubTask, NameSubTask,
       InsertSubTask, AppendMember, EmplaceSlot, FetchMain, LockReady, PushMembers,
       LeaveWaiting, GetSubTaskResult, FindSlot, WaitSlot, TakeResult, EraseName,
       EraseSubTask, Start, LaunchLoop, Stop, TestJoinable, EnterJoin, Join, DestroyMutexes,
       StopPool, JoinPool, taskVars, mainVars, counts
  <2>3. \A m \in MainTasks : CountedOf(m)' = CountedOf(m) BY <1>1, <2>1, CountedStay
  <2> QED BY <2>2, <2>3, ClientStepIds DEF CountsOK
<1> QED BY <1>2, <1>3

\* Nothing is submitted or counted by workers and the loop.
LEMMA OtherStepCounts ==
  ASSUME CountsOK, UNCHANGED <<main_task_name_to_id, main_task_id, ready_count, clientVars>>
  PROVE  CountsOK'
<1>1. \A m \in MainTasks : CountedOf(m)' = CountedOf(m) BY DEF CountedOf, Beyond, clientVars
<1> QED BY <1>1 DEF CountsOK

-----------------------------------------------------------------------------
(* What is released. *)

\* A main task that has got all its subtasks keeps them, and a released subtask stays released.
LEMMA ReleasedStay ==
  ASSUME PriorityInv, CallsOK, IdsStay, NEW c \in Clients, Moves(c)
  PROVE  /\ \A m \in MainTasks : Complete(m) => Complete(m)'
         /\ \A s \in SubTasks : Released(s) => Released(s)'
<1>1. None \notin MainTasks BY ConstantsAssumption DEF Calls
<1>2. \A s \in SubTasks : Beyond(s, Uncounted) => Beyond(s, Uncounted)' BY BeyondMoves
<1>3. \A m \in MainTasks : Complete(m) => Complete(m)' BY <1>1, <1>2 DEF Complete, IdsStay
<1>4. \A s \in SubTasks : main_task_id[s] \in MainTasks => main_task_id'[s] = main_task_id[s]
  BY <1>1 DEF IdsStay
<1> QED BY <1>3, <1>4 DEF Released

\* A step that moves no client and sets no id.
LEMMA ReleasedSame ==
  ASSUME UNCHANGED <<clientVars, main_task_id>>
  PROVE  /\ \A m \in MainTasks : Complete(m)' <=> Complete(m)
         /\ \A s \in SubTasks : Released(s)' <=> Released(s)
BY DEF Complete, Released, Beyond, clientVars

\* addSubTask counts the last subtask that was announced (lines 303-307): all are there then.
LEMMA LastCounted ==
  ASSUME WellFormed, PriorityInv, CallsOK, CountsOK, IdsStay, NEW c \in Clients, CountReady(c),
         LastReady(main_task_id[call[c]])
  PROVE  \E m \in MainTasks :
           m = main_task_id[call[c]] /\ main_task_id'[call[c]] = m /\ Complete(m)'
<1>1. PICK s \in SubTasks, m \in MainTasks :
        /\ s = call[c] /\ m = main_task_id[s] /\ s \notin CountedOf(m)
        /\ CountedOf(m)' = CountedOf(m) \cup {s}
  BY CountReadyCounts
<1> DEFINE G == {t \in SubTasks : MainTaskName[t] = MainName[m]}
<1>2. UNCHANGED main_task_id BY DEF CountReady, subVars, subFields
<1>3. None \notin MainTasks BY ConstantsAssumption DEF Calls
<1>4. CountedOf(m)' \subseteq G BY <1>2, <1>3 DEF CountedOf, CountsOK
<1>5. IsFiniteSet(G) BY ConstantsAssumption, FS_Subset
<1>6. Cardinality(G) = ready_count[m] + 1 BY <1>1 DEF LastReady, WellFormed
<1>7. Cardinality(CountedOf(m) \cup {s}) = ready_count[m] + 1
  BY <1>1, CountedFinite DEF CountsOK
<1>8. CountedOf(m) \cup {s} = G BY <1>1, <1>4, <1>5, <1>6, <1>7, FS_Subset
<1>9. G = CountedOf(m)' BY <1>1, <1>8
<1>10. Complete(m)' BY <1>9 DEF Complete, CountedOf
<1> QED BY <1>1, <1>2, <1>10

\* Who goes to push a list has counted the last subtask of it.
LEMMA GoesToPush ==
  ASSUME TypeInv, NEW c \in Clients, ClientStep(c), cpc'[c] \in {"as_lock", "as_push"}
  PROVE  \/ call'[c] = call[c] /\ cpc[c] \in {"as_lock", "as_push"}
         \/ /\ call'[c] = call[c] /\ call[c] \in SubTasks /\ main_task_id[call[c]] \in MainTasks
            /\ CountReady(c) /\ LastReady(main_task_id[call[c]])
<1> USE DEF TypeInv, ClientInv, ClientsOK
<1>1. CASE CountReady(c)
  BY <1>1 DEF CountReady, CAt, CGoto, Return, ClientShape, AddingSub
<1>2. CASE LockReady(c) BY <1>2 DEF LockReady, CAt, CGoto
<1>3. CASE ~(CountReady(c) \/ LockReady(c))
  <2>1. \A l : CGoto(c, l) => cpc'[c] = l BY DEF CGoto
  <2>2. \A o : Return(c, o) => cpc'[c] = "idle" BY DEF Return
  <2>3. \A k, l, s : Enter(c, k, l, s) => cpc'[c] = l BY DEF Enter
  <2>4. cpc[c] \in {"as_lock", "as_push"} /\ UNCHANGED clientVars
    BY <1>3, <2>1, <2>2, <2>3
    DEF ClientStep, AddMainTask, EnterWaiting, InsertMain, AddSubTask, NameSubTask,
        InsertSubTask, AppendMember, EmplaceSlot, FetchMain, PushMembers, LeaveWaiting,
        GetSubTaskResult, FindSlot, WaitSlot, TakeResult, EraseName, EraseSubTask, Start,
        LaunchLoop, Stop, TestJoinable, EnterJoin, Join, AfterJoin, DestroyMutexes, StopPool,
        JoinPool, CAt, MayCall, Immediately, clientVars
  <2> QED BY <2>4 DEF clientVars
<1> QED BY <1>1, <1>2, <1>3

\* No step of a client breaks ReleasedOK: a list is pushed when all its subtasks are counted.
LEMMA ClientStepReleased ==
  ASSUME WellFormed, PriorityInv, CallsOK, CountsOK, ReleasedOK, IdsStay,
         NEW c \in Clients, ClientStep(c)
  PROVE  ReleasedOK'
<1>0. TypeInv BY DEF PriorityInv
<1>1. Moves(c) BY <1>0, ClientMoves
<1>2. /\ \A m \in MainTasks : Complete(m) => Complete(m)'
      /\ \A s \in SubTasks : Released(s) => Released(s)'
  BY <1>1, ReleasedStay
<1>3. None \notin MainTasks BY ConstantsAssumption DEF Calls
<1>4. ASSUME NEW d \in Clients, cpc[d] \in {"as_lock", "as_push"}, call'[d] = call[d]
      PROVE  Complete(main_task_id[call[d]])'
  <2>1. PICK s \in SubTasks, m \in MainTasks : s = call[d] /\ m = main_task_id[s]
    BY <1>0, <1>4 DEF TypeInv, ClientInv, ClientShape, AddingSub
  <2>2. Complete(m)' BY <1>2, <1>4, <2>1 DEF ReleasedOK
  <2>3. main_task_id'[s] = m BY <1>3, <2>1 DEF IdsStay
  <2> QED BY <1>4, <2>1, <2>2, <2>3
<1>5. ASSUME NEW d \in Clients, cpc'[d] \in {"as_lock", "as_push"}
      PROVE  Complete(main_task_id[call[d]])'
  <2>1. CASE d # c BY <1>1, <1>4, <1>5, <2>1 DEF Moves
  <2>2. CASE d = c /\ cpc[c] \in {"as_lock", "as_push"} /\ call'[c] = call[c] BY <1>4, <2>2
  <2>3. CASE d = c /\ ~(cpc[c] \in {"as_lock", "as_push"} /\ call'[c] = call[c])
    <3>1. /\ call'[c] = call[c] /\ call[c] \in SubTasks /\ main_task_id[call[c]] \in MainTasks
          /\ CountReady(c) /\ LastReady(main_task_id[call[c]])
      BY <1>0, <1>5, <2>3, GoesToPush
    <3>2. PICK m \in MainTasks :
            m = main_task_id[call[c]] /\ main_task_id'[call[c]] = m /\ Complete(m)'
      BY <3>1, LastCounted
    <3> QED BY <2>3, <3>1, <3>2
  <2> QED BY <2>1, <2>2, <2>3
<1>6. ASSUME NEW p \in Priorities, NEW i \in DOMAIN ready_subtasks'[p]
      PROVE  Released(ready_subtasks[p][i])'
  <2>1. CASE ready_subtasks' = ready_subtasks
    <3>1. PICK s \in SubTasks : s = ready_subtasks[p][i]
      BY <1>0, <1>6, <2>1 DEF TypeInv, QueuesOK
    <3>2. Released(s)' BY <1>2, <1>6, <2>1, <3>1 DEF ReleasedOK
    <3> QED BY <2>1, <3>1, <3>2
  <2>2. CASE ready_subtasks' # ready_subtasks
    <3>1. PushMembers(c)
      BY <1>0, <2>2
      DEF ClientStep, AddMainTask, EnterWaiting, InsertMain, AddSubTask, NameSubTask,
          InsertSubTask, AppendMember, EmplaceSlot, FetchMain, CountReady, LockReady,
          LeaveWaiting, GetSubTaskResult, FindSlot, WaitSlot, TakeResult, EraseName,
          EraseSubTask, Start, LaunchLoop, Stop, TestJoinable, EnterJoin, Join, DestroyMutexes,
          StopPool, JoinPool, clientOther, queueVars
    <3>2. PICK m \in MainTasks :
            /\ m = main_task_id[call[c]] /\ cpc[c] = "as_push"
            /\ ready_subtasks' =
                 [ready_subtasks EXCEPT ![Priority[m]] =
                    ready_subtasks[Priority[m]] \o main_to_subtasks[m]]
      BY <1>0, <2>2, <3>1 DEF PushMembers, CAt, TypeInv, ClientInv, ClientShape, AddingSub
    <3>3. Complete(m) BY <3>2 DEF ReleasedOK
    <3>4. PICK q \in Seq(SubTasks) : q = ready_subtasks[p]
      BY <1>0 DEF TypeInv, QueuesOK
    <3>5. PICK l \in Seq(SubTasks) : l = main_to_subtasks[m]
      BY <1>0 DEF TypeInv, MapsOK
    <3>6. ready_subtasks'[p] = q \/ ready_subtasks'[p] = q \o l
      BY <1>0, <3>2, <3>4, <3>5 DEF TypeInv, QueuesOK
    <3>7. PICK s \in SubTasks : s = ready_subtasks'[p][i]
            /\ \/ i \in DOMAIN q /\ s = q[i]
               \/ i - Len(q) \in DOMAIN l /\ s = l[i - Len(q)]
      <4>1. CASE ready_subtasks'[p] = q BY <1>6, <4>1
      <4>2. CASE ready_subtasks'[p] = q \o l BY <1>6, <4>2
      <4> QED BY <3>6, <4>1, <4>2
    <3>8. Released(s)
      <4>1. CASE i \in DOMAIN q /\ s = q[i] BY <3>4, <4>1 DEF ReleasedOK
      <4>2. CASE i - Len(q) \in DOMAIN l /\ s = l[i - Len(q)]
        BY <3>3, <3>5, <4>2 DEF PriorityInv, ListedUnderMain, Released
      <4> QED BY <3>7, <4>1, <4>2
    <3>9. Released(s)' BY <1>2, <3>8
    <3> QED BY <3>7, <3>9
  <2> QED BY <2>1, <2>2
<1>7. UNCHANGED <<ring, wpc, job>>
  BY DEF ClientStep, AddMainTask, EnterWaiting, InsertMain, AddSubTask, NameSubTask,
     InsertSubTask, AppendMember, EmplaceSlot, FetchMain, CountReady, LockReady, PushMembers,
     LeaveWaiting, GetSubTaskResult, FindSlot, WaitSlot, TakeResult, EraseName, EraseSubTask,
     Start, LaunchLoop, Stop, TestJoinable, EnterJoin, Join, DestroyMutexes, StopPool, JoinPool,
     clientOther, queueVars, workerVars
<1>8. \A i \in DOMAIN ring : ring[i] \in SubTasks BY <1>0 DEF TypeInv, QueuesOK
<1>9. \A w \in Workers : wpc[w] \notin {"idle", "exited"} => job[w] \in SubTasks
  BY <1>0 DEF TypeInv, WorkerInv, WorkerShape
<1>10. \A i \in DOMAIN ring : Released(ring[i])' BY <1>2, <1>7, <1>8 DEF ReleasedOK
<1>11. \A w \in Workers : wpc[w] \notin {"idle", "exited"} => Released(job[w])'
  BY <1>2, <1>7, <1>9 DEF ReleasedOK
<1> QED BY <1>5, <1>6, <1>7, <1>10, <1>11 DEF ReleasedOK

\* A worker takes the first subtask of the ring.
LEMMA WorkerStepReleased ==
  ASSUME TypeInv, ReleasedOK, NEW w \in Workers, WorkerStep(w) PROVE ReleasedOK'
<1> USE DEF workerOther, queueVars, taskVars, subVars, subFields
<1>1. UNCHANGED <<clientVars, main_task_id, ready_subtasks>>
  BY DEF WorkerStep, Pop, LeavePool, FindSubTask, LookupDependency, FindDependency,
     AwaitDependency, StartFunction, FinishFunction, PostResult, FlagCompleted,
     NotifyDependents, FindMainTask, CountCompleted, EraseMainTask, UseDestroyed, EraseMembers
<1>2. /\ \A m \in MainTasks : Complete(m)' <=> Complete(m)
      /\ \A s \in SubTasks : Released(s)' <=> Released(s)
  BY <1>1, ReleasedSame
<1>3. \A c \in Clients : cpc'[c] \in {"as_lock", "as_push"} =>
                           Complete(main_task_id[call[c]])'
  BY <1>1, <1>2 DEF ReleasedOK, TypeInv, ClientInv, ClientShape, AddingSub, clientVars
<1>4. \A p \in Priorities : \A i \in DOMAIN ready_subtasks'[p] : Released(ready_subtasks[p][i])'
  BY <1>1, <1>2 DEF ReleasedOK, TypeInv, QueuesOK
<1>5. ring \in Seq(SubTasks) BY DEF TypeInv, QueuesOK
<1>6. \A v \in Workers : wpc[v] \notin {"idle", "exited"} => job[v] \in SubTasks
  BY DEF TypeInv, WorkerInv, WorkerShape
<1>7. CASE Pop(w)
  <2>1. /\ ring # <<>> /\ ring' = Tail(ring) /\ job'[w] = ring[1]
        /\ \A v \in Workers \ {w} : wpc'[v] = wpc[v] /\ job'[v] = job[v]
    BY <1>5, <1>7 DEF Pop, WJob, TypeInv, WorkerInv, WorkersOK
  <2>2. \A i \in DOMAIN ring' : i + 1 \in DOMAIN ring /\ ring'[i] = ring[i + 1]
    BY <1>5, <2>1
  <2>3. \A i \in DOMAIN ring : ring[i] \in SubTasks /\ Released(ring[i]) BY <1>5 DEF ReleasedOK
  <2>4. \A i \in DOMAIN ring' : Released(ring[i])' BY <1>2, <2>2, <2>3
  <2>5. 1 \in DOMAIN ring BY <1>5, <2>1
  <2>6. Released(job[w])' BY <1>2, <2>1, <2>3, <2>5
  <2>7. \A v \in Workers : wpc'[v] \notin {"idle", "exited"} => Released(job[v])'
    BY <1>2, <1>6, <2>1, <2>6 DEF ReleasedOK
  <2> QED BY <1>3, <1>4, <2>4, <2>7 DEF ReleasedOK
<1>8. CASE ~Pop(w)
  <2>1. UNCHANGED ring
    BY <1>8 DEF WorkerStep, LeavePool, FindSubTask, LookupDependency, FindDependency,
       AwaitDependency, StartFunction, FinishFunction, PostResult, FlagCompleted,
       NotifyDependents, FindMainTask, CountCompleted, EraseMainTask, UseDestroyed, EraseMembers
  <2>2. /\ \A v \in Workers \ {w} : wpc'[v] = wpc[v] /\ job'[v] = job[v]
        /\ wpc'[w] \in {"idle", "exited"}
             \/ (wpc[w] \notin {"idle", "exited"} /\ job'[w] = job[w])
    <3>1. \A l : WGoto(w, l) => /\ wpc'[w] = l /\ UNCHANGED job
                                /\ \A v \in Workers \ {w} : wpc'[v] = wpc[v]
      BY DEF WGoto, TypeInv, WorkerInv, WorkersOK
    <3>2. WReturn(w) => /\ wpc'[w] = "idle"
                        /\ \A v \in Workers \ {w} : wpc'[v] = wpc[v] /\ job'[v] = job[v]
      BY DEF WReturn, WJob, TypeInv, WorkerInv, WorkersOK
    <3>3. NextDependency(w) => /\ UNCHANGED job
                               /\ \A v \in Workers \ {w} : wpc'[v] = wpc[v]
      BY DEF NextDependency, TypeInv, WorkerInv, WorkersOK
    <3>4. CASE LookupDependency(w)
      BY <3>3, <3>4 DEF LookupDependency, WAt, TypeInv, WorkerInv, WorkersOK
    <3>5. CASE UseDestroyed(w) BY <3>5 DEF UseDestroyed, AboutToLock, workerVars
    <3>6. CASE ~(LookupDependency(w) \/ UseDestroyed(w))
      BY <1>8, <3>1, <3>2, <3>3, <3>6
      DEF WorkerStep, LeavePool, FindSubTask, FindDependency, AwaitDependency, StartFunction,
          FinishFunction, PostResult, FlagCompleted, NotifyDependents, FindMainTask,
          CountCompleted, EraseMainTask, EraseMembers, WAt
    <3> QED BY <3>4, <3>5, <3>6
  <2>3. \A v \in Workers : wpc'[v] \notin {"idle", "exited"} => Released(job[v])'
    BY <1>2, <1>6, <2>2 DEF ReleasedOK
  <2>4. \A i \in DOMAIN ring' : Released(ring[i])' BY <1>2, <1>5, <2>1 DEF ReleasedOK
  <2> QED BY <1>3, <1>4, <2>3, <2>4 DEF ReleasedOK
<1> QED BY <1>7, <1>8

\* The loop moves the first subtask of a queue to the ring.
LEMMA LoopStepReleased ==
  ASSUME TypeInv, ReleasedOK, LoopStep PROVE ReleasedOK'
<1> USE DEF loopOther, queueVars, taskVars, subVars, subFields
<1>1. UNCHANGED <<clientVars, main_task_id, wpc, job>>
  BY DEF LoopStep, TestRunning, PendingReady, PendingWaiting, PendingSubTasks, LoopLock,
     Dispatch, LoopUnlock, workerVars
<1>2. /\ \A m \in MainTasks : Complete(m)' <=> Complete(m)
      /\ \A s \in SubTasks : Released(s)' <=> Released(s)
  BY <1>1, ReleasedSame
<1>3. \A c \in Clients : cpc'[c] \in {"as_lock", "as_push"} =>
                           Complete(main_task_id[call[c]])'
  BY <1>1, <1>2 DEF ReleasedOK, TypeInv, ClientInv, ClientShape, AddingSub, clientVars
<1>4. \A w \in Workers : wpc'[w] \notin {"idle", "exited"} => Released(job[w])'
  BY <1>1, <1>2 DEF ReleasedOK, TypeInv, WorkerInv, WorkerShape
<1>5. \A i \in DOMAIN ring : ring[i] \in SubTasks /\ Released(ring[i])
  BY DEF ReleasedOK, TypeInv, QueuesOK
<1>6. \A p \in Priorities : \A i \in DOMAIN ready_subtasks[p] :
        ready_subtasks[p][i] \in SubTasks /\ Released(ready_subtasks[p][i])
  BY DEF ReleasedOK, TypeInv, QueuesOK
<1>7. ASSUME NEW p \in Priorities, Dispatch(p) PROVE ReleasedOK'
  <2>1. PICK q \in Seq(SubTasks) : q = ready_subtasks[p] BY DEF TypeInv, QueuesOK
  <2>2. /\ q # <<>> /\ ring' = Append(ring, q[1]) /\ ring \in Seq(SubTasks)
        /\ ready_subtasks'[p] = Tail(q)
        /\ \A r \in Priorities \ {p} : ready_subtasks'[r] = ready_subtasks[r]
    BY <1>7, <2>1 DEF Dispatch, ScanIsAt, TypeInv, QueuesOK
  <2>3. 1 \in DOMAIN q BY <2>1, <2>2
  <2>4. \A i \in DOMAIN ring' : ring'[i] = q[1] \/ (i \in DOMAIN ring /\ ring'[i] = ring[i])
    BY <2>1, <2>2
  <2>5. \A i \in DOMAIN ring' : Released(ring[i])' BY <1>2, <1>5, <1>6, <2>1, <2>3, <2>4
  <2>6. \A i \in DOMAIN Tail(q) : i + 1 \in DOMAIN q /\ Tail(q)[i] = q[i + 1]
    BY <2>1, <2>2
  <2>7. ASSUME NEW r \in Priorities, NEW i \in DOMAIN ready_subtasks'[r]
        PROVE  Released(ready_subtasks[r][i])'
    <3>1. CASE r = p BY <1>2, <1>6, <2>1, <2>2, <2>6, <2>7, <3>1
    <3>2. CASE r # p BY <1>2, <1>6, <2>2, <2>7, <3>2
    <3> QED BY <3>1, <3>2
  <2> QED BY <1>3, <1>4, <2>5, <2>7 DEF ReleasedOK
<1>8. CASE ~\E p \in Priorities : Dispatch(p)
  <2>1. UNCHANGED <<ring, ready_subtasks>>
    BY <1>8 DEF LoopStep, TestRunning, PendingReady, PendingWaiting, PendingSubTasks, LoopLock,
       LoopUnlock
  <2> QED BY <1>2, <1>3, <1>4, <1>5, <1>6, <2>1 DEF ReleasedOK
<1> QED BY <1>7, <1>8

-----------------------------------------------------------------------------
(* The scan of the dependencies. *)

\* The dependencies of a subtask are subtasks.
LEMMA ReliedType == ASSUME NEW s \in SubTasks PROVE Relied(s) \subseteq SubTasks
BY DEF Relied

\* A dependency that a released subtask relies on is named and listed, if it was accepted: as a
\* sibling, since all of them are counted; submitted before, since that call has returned.
LEMMA ReliedKnown ==
  ASSUME PriorityInv, CallsOK, CountsOK, NEW s \in SubTasks, Released(s), NEW d \in Relied(s)
  PROVE  /\ main_task_id[d] # None => Beyond(d, Unnamed) /\ Beyond(d, Unlisted)
         /\ IdsStay => (main_task_id'[d] # None => main_task_id[d] # None)
<1>1. d \in SubTasks /\ d \in Siblings(s) \cup After[s] BY DEF Relied
<1>2. None \notin MainTasks BY ConstantsAssumption DEF Calls
<1>3. CASE d \in Siblings(s)
  <2>1. PICK m \in MainTasks : m = main_task_id[s] /\ Complete(m) BY DEF Released
  <2>2. MainTaskName[d] = MainName[m] BY <1>2, <1>3, <2>1 DEF Siblings, CountsOK
  <2>3. main_task_id[d] = m /\ Beyond(d, Uncounted) BY <1>1, <2>1, <2>2 DEF Complete
  <2>4. Beyond(d, Unnamed) /\ Beyond(d, Unlisted)
    BY <2>3 DEF Beyond, Uncounted, Unnamed, Unlisted
  <2> QED BY <1>2, <2>3, <2>4
<1>4. CASE d \in After[s]
  <2>1. outcome[s] # "unissued" BY <1>2 DEF Released, PriorityInv, IdOfCall
  <2>2. Returned(d) BY <1>4, <2>1 DEF CallsOK
  <2>3. outcome[d] # "unissued" /\ \A c \in Clients : call[c] # d BY <2>2 DEF Returned
  <2> QED BY <1>1, <2>3 DEF Beyond, IdsStay
<1> QED BY <1>1, <1>3, <1>4

\* The names it has waited for, and what it has found, stand.
LEMMA UnhinderedStay ==
  ASSUME PriorityInv, CallsOK, CountsOK, IdsStay, NEW s \in SubTasks,
         \A t \in SubTasks : Released(t) => Released(t)',
         \A t \in SubTasks : Finished(t) => Finished(t)', Unhindered(s)
  PROVE  Unhindered(s)'
<1>1. Released(s) /\ Released(s)' BY DEF Unhindered
<1>2. ASSUME NEW d \in Relied(s), main_task_id'[d] # None PROVE Finished(d)'
  <2>1. d \in SubTasks BY ReliedType
  <2>2. main_task_id[d] # None BY <1>1, <1>2, ReliedKnown
  <2> QED BY <2>1, <2>2 DEF Unhindered
<1> QED BY <1>1, <1>2 DEF Unhindered

\* The names that a worker has scanned stay settled.
LEMMA ScannedStay ==
  ASSUME PriorityInv, CallsOK, CountsOK, IdsStay, NEW w \in Workers,
         job[w] \in SubTasks, Released(job[w]),
         \A t \in SubTasks : Finished(t) => Finished(t)',
         Scanned(w), job'[w] = job[w], dep'[w] = dep[w]
  PROVE  Scanned(w)'
<1>1. PICK s \in SubTasks : s = job[w] OBVIOUS
<1>2. ASSUME NEW d \in Relied(s), NEW i \in 1..(dep[w] - 1),
             i \in DOMAIN Dependencies[s], Dependencies[s][i] = SubName[d],
             main_task_id'[d] # None
      PROVE  Finished(d)'
  <2>1. d \in SubTasks BY ReliedType
  <2>2. main_task_id[d] # None BY <1>1, <1>2, ReliedKnown
  <2>3. Finished(d) BY <1>1, <1>2, <2>2 DEF Scanned
  <2> QED BY <2>1, <2>3
<1> QED BY <1>1, <1>2 DEF Scanned

\* A step of a client or of the loop.
LEMMA ScanStays ==
  ASSUME PriorityInv, CallsOK, CountsOK, ReleasedOK, ScanOK, IdsStay,
         UNCHANGED <<workerVars, started>>,
         \A t \in SubTasks : Released(t) => Released(t)',
         \A t \in SubTasks : Finished(t) => Finished(t)'
  PROVE  ScanOK'
<1>1. \A s \in SubTasks : started[s] > 0 => Unhindered(s)' BY UnhinderedStay DEF ScanOK
<1>2. ASSUME NEW w \in Workers, wpc[w] \in Awaiting PROVE Scanned(w)'
  <2>1. job[w] \in SubTasks /\ Released(job[w]) /\ Scanned(w)
    BY <1>2 DEF Awaiting, ReleasedOK, ScanOK, PriorityInv, TypeInv, WorkerInv, WorkerShape
  <2> QED BY <2>1, ScannedStay DEF workerVars
<1>3. \A w \in Workers : Aimed(w) => Aimed(w)' BY DEF Aimed, workerVars
<1> QED BY <1>1, <1>2, <1>3 DEF ScanOK, workerVars

\* A step of worker w.
LEMMA ScanWorker ==
  ASSUME PriorityInv, CallsOK, CountsOK, ReleasedOK, ScanOK, NEW w \in Workers,
         UNCHANGED <<clientVars, main_task_id>>,
         \A v \in Workers \ {w} : /\ wpc'[v] = wpc[v] /\ job'[v] = job[v]
                                  /\ dep'[v] = dep[v] /\ awaited'[v] = awaited[v],
         \A t \in SubTasks : Finished(t) => Finished(t)',
         \A s \in SubTasks : started'[s] > 0 => started[s] > 0 \/ Unhindered(s),
         wpc'[w] = "find" => dep'[w] = 1,
         wpc'[w] \in Awaiting => Scanned(w)',
         wpc'[w] \in {"dep_task", "await"} => Aimed(w)'
  PROVE  ScanOK'
<1>1. IdsStay BY DEF IdsStay
<1>2. \A t \in SubTasks : Released(t) => Released(t)' BY ReleasedSame
<1>3. \A s \in SubTasks : started'[s] > 0 => Unhindered(s)'
  BY <1>1, <1>2, UnhinderedStay DEF ScanOK
<1>4. ASSUME NEW v \in Workers \ {w}, wpc'[v] \in Awaiting PROVE Scanned(v)'
  <2>1. job[v] \in SubTasks /\ Released(job[v]) /\ Scanned(v)
    BY <1>4 DEF Awaiting, ReleasedOK, ScanOK, PriorityInv, TypeInv, WorkerInv, WorkerShape
  <2> QED BY <1>1, <2>1, ScannedStay
<1>5. \A v \in Workers \ {w} : wpc'[v] \in {"dep_task", "await"} => Aimed(v)'
  BY DEF ScanOK, Aimed
<1>6. \A v \in Workers \ {w} : wpc'[v] = "find" => dep'[v] = 1 BY DEF ScanOK
<1> QED BY <1>3, <1>4, <1>5, <1>6 DEF ScanOK

\* The scan goes on to the next name when no dependency that it must wait for has this one.
LEMMA ScanNext ==
  ASSUME PriorityInv, CallsOK, CountsOK, ReleasedOK, ScanOK, NEW w \in Workers,
         UNCHANGED <<clientVars, main_task_id, fn, started>>,
         wpc[w] \in Awaiting, NextDependency(w),
         \A d \in Relied(job[w]) :
           dep[w] \in DOMAIN Dependencies[job[w]] /\ Dependencies[job[w]][dep[w]] = SubName[d]
             /\ main_task_id[d] # None => Finished(d)
  PROVE  ScanOK'
<1>1. /\ UNCHANGED job /\ wpc'[w] = "deps" /\ dep'[w] = dep[w] + 1 /\ dep[w] \in Nat
      /\ \A v \in Workers \ {w} : /\ wpc'[v] = wpc[v] /\ dep'[v] = dep[v]
                                  /\ awaited'[v] = awaited[v]
  BY DEF NextDependency, PriorityInv, TypeInv, WorkerInv, WorkersOK
<1>2. Scanned(w) BY DEF ScanOK
<1>3. \A i \in 1..(dep'[w] - 1) : i = dep[w] \/ i \in 1..(dep[w] - 1) BY <1>1
<1>4. \A t \in SubTasks : Finished(t)' <=> Finished(t) BY DEF Finished
<1>5. job[w] \in SubTasks
  BY DEF Awaiting, PriorityInv, TypeInv, WorkerInv, WorkerShape
<1>6. Relied(job[w]) \subseteq SubTasks BY <1>5, ReliedType
<1>7. Scanned(w)' BY <1>1, <1>2, <1>3, <1>4, <1>6 DEF Scanned
<1> QED BY <1>1, <1>4, <1>7, ScanWorker

\* No step of a worker breaks ScanOK: a name that is unknown or unlisted, or whose completion is
\* awaited (lines 38-65), is that of a function that has ended.
LEMMA WorkerStepScan ==
  ASSUME WellFormed, PriorityInv, CallsOK, FetchesOK, NamesOK, NamedOK, CountsOK, ReleasedOK,
         ScanOK, NEW w \in Workers, WorkerStep(w), \A t \in SubTasks : Finished(t) => Finished(t)'
  PROVE  ScanOK'
<1> USE DEF workerOther, taskVars, subVars, subFields
<1>0. WorkersOK /\ WorkerShape BY DEF PriorityInv, TypeInv, WorkerInv
<1>1. UNCHANGED <<clientVars, main_task_id>>
  BY DEF WorkerStep, Pop, LeavePool, FindSubTask, LookupDependency, FindDependency,
     AwaitDependency, StartFunction, FinishFunction, PostResult, FlagCompleted,
     NotifyDependents, FindMainTask, CountCompleted, EraseMainTask, UseDestroyed, EraseMembers
<1>2. ASSUME NEW l, WGoto(w, l), l \notin Awaiting, l # "find", UNCHANGED started PROVE ScanOK'
  BY <1>0, <1>1, <1>2, ScanWorker DEF WGoto, WorkersOK, Awaiting
<1>3. ASSUME NEW l, NEW s, WJob(w, l, s), l \notin Awaiting, UNCHANGED started PROVE ScanOK'
  BY <1>0, <1>1, <1>3, ScanWorker DEF WJob, WorkersOK, Awaiting
<1>4. ASSUME wpc[w] \in Awaiting
      PROVE  /\ job[w] \in SubTasks /\ Released(job[w]) /\ dep[w] \in Nat \ {0}
             /\ Relied(job[w]) \subseteq SubTasks
             /\ \A d \in Relied(job[w]) :
                  main_task_id[d] # None => Beyond(d, Unnamed) /\ Beyond(d, Unlisted)
  <2>1. job[w] \in SubTasks /\ Released(job[w]) /\ dep[w] \in Nat \ {0}
    BY <1>0, <1>4 DEF WorkersOK, WorkerShape, Awaiting, ReleasedOK
  <2> QED BY <2>1, ReliedType, ReliedKnown
<1>5. \A s, t \in SubTasks : SubName[s] = SubName[t] => s = t BY DEF WellFormed
<1>6. \A s \in SubTasks : s # None BY ConstantsAssumption DEF Calls
<1>7. CASE FindSubTask(w)
  <2>1. CASE WReturn(w) BY <1>3, <1>7, <2>1 DEF FindSubTask, WReturn, Awaiting, histVars
  <2>2. CASE ~WReturn(w)
    <3>1. /\ wpc[w] = "find" /\ wpc'[w] = "deps" /\ UNCHANGED <<job, dep, awaited, started>>
          /\ \A v \in Workers \ {w} : wpc'[v] = wpc[v]
      BY <1>0, <1>7, <2>2 DEF FindSubTask, WAt, WGoto, WorkersOK, histVars
    <3>2. dep'[w] = 1 BY <3>1 DEF ScanOK
    <3>3. Scanned(w)' BY <3>2 DEF Scanned
    <3> QED BY <1>1, <3>1, <3>3, ScanWorker
  <2> QED BY <2>1, <2>2
<1>8. CASE LookupDependency(w)
  <2>1. wpc[w] \in Awaiting /\ wpc[w] = "deps" BY <1>8 DEF LookupDependency, WAt, Awaiting
  <2>2. /\ dep[w] \in DOMAIN Dependencies[job[w]]
        /\ Dependencies[job[w]][dep[w]] \in SubNames
    <3>1. PICK q \in Seq(SubNames) : q = Dependencies[job[w]]
      BY <1>4, <2>1, ConstantsAssumption
    <3>2. dep[w] \in 1..Len(q) BY <1>4, <1>8, <2>1, <3>1 DEF LookupDependency
    <3> QED BY <3>1, <3>2
  <2>3. PICK n \in SubNames : n = Dependencies[job[w]][dep[w]] BY <2>2
  <2>4. PICK d \in SubTasks \cup {None} : d = sub_task_name_to_id[n]
    BY DEF PriorityInv, TypeInv, MapsOK
  <2>5. UNCHANGED <<fn, started>> BY <1>8 DEF LookupDependency, histVars
  <2>6. CASE d = None
    <3>1. NextDependency(w) BY <1>8, <2>3, <2>4, <2>6 DEF LookupDependency
    <3>2. ASSUME NEW x \in Relied(job[w]), n = SubName[x], main_task_id[x] # None
          PROVE  Finished(x)
      <4>1. x \in SubTasks /\ Beyond(x, Unnamed) BY <1>4, <2>1, <3>2
      <4>2. sub_task_name_to_id[SubName[x]] = None BY <2>4, <2>6, <3>2
      <4>3. sub_task_name_to_id[SubName[x]] = x \/ Finished(x) BY <4>1 DEF NamedOK
      <4> QED BY <1>6, <4>1, <4>2, <4>3
    <3> QED BY <1>1, <2>1, <2>3, <2>5, <3>1, <3>2, ScanNext
  <2>7. CASE d # None
    <3>1. /\ wpc' = [wpc EXCEPT ![w] = "dep_task"] /\ awaited' = [awaited EXCEPT ![w] = d]
          /\ UNCHANGED <<job, dep>>
      BY <1>8, <2>3, <2>4, <2>7 DEF LookupDependency
    <3>2. /\ wpc'[w] = "dep_task" /\ awaited'[w] = d
          /\ \A v \in Workers \ {w} : wpc'[v] = wpc[v] /\ awaited'[v] = awaited[v]
      BY <1>0, <3>1 DEF WorkersOK
    <3>3. Aimed(w)' BY <2>3, <2>4, <2>7, <3>1, <3>2 DEF NamesOK, Aimed
    <3>4. Scanned(w)'
      BY <1>1, <1>4, <2>1, <2>5, <3>1 DEF ScanOK, Scanned, Finished
    <3> QED BY <1>1, <2>5, <3>1, <3>2, <3>3, <3>4, ScanWorker
  <2> QED BY <2>6, <2>7
<1>9. CASE FindDependency(w)
  <2>1. wpc[w] \in Awaiting /\ wpc[w] = "dep_task" BY <1>9 DEF FindDependency, WAt, Awaiting
  <2>2. UNCHANGED <<fn, started>> BY <1>9 DEF FindDependency, histVars
  <2>3. Aimed(w) /\ Scanned(w) BY <2>1 DEF ScanOK
  <2>4. CASE awaited[w] \in sub_tasks
    <3>1. WGoto(w, "await") BY <1>9, <2>4 DEF FindDependency
    <3>2. /\ wpc'[w] = "await" /\ UNCHANGED <<job, dep, awaited>>
          /\ \A v \in Workers \ {w} : wpc'[v] = wpc[v]
      BY <1>0, <3>1 DEF WGoto, WorkersOK
    <3>3. Aimed(w)' BY <2>3, <3>2 DEF Aimed
    <3>4. Scanned(w)' BY <1>1, <1>4, <2>1, <2>2, <2>3, <3>2 DEF Scanned, Finished
    <3> QED BY <1>1, <2>2, <3>2, <3>3, <3>4, ScanWorker
  <2>5. CASE awaited[w] \notin sub_tasks
    <3>1. NextDependency(w) BY <1>9, <2>5 DEF FindDependency
    <3>2. ASSUME NEW x \in Relied(job[w]), Dependencies[job[w]][dep[w]] = SubName[x],
                 main_task_id[x] # None
          PROVE  Finished(x)
      BY <1>4, <1>5, <2>1, <2>3, <2>5, <3>2 DEF NamesOK, Aimed
    <3> QED BY <1>1, <2>1, <2>2, <3>1, <3>2, ScanNext
  <2> QED BY <2>4, <2>5
<1>10. CASE AwaitDependency(w)
  <2>1. wpc[w] \in Awaiting /\ wpc[w] = "await" BY <1>10 DEF AwaitDependency, WAt, Awaiting
  <2>2. UNCHANGED <<fn, started>> BY <1>10 DEF AwaitDependency, histVars
  <2>3. Aimed(w) BY <2>1 DEF ScanOK
  <2>4. NextDependency(w) /\ awaited[w] \in done
    BY <1>10 DEF AwaitDependency, DependencyDone
  <2>5. ASSUME NEW x \in Relied(job[w]), Dependencies[job[w]][dep[w]] = SubName[x]
        PROVE  Finished(x)
    BY <1>4, <1>5, <2>1, <2>3, <2>4, <2>5 DEF FetchesOK, Aimed
  <2> QED BY <1>1, <2>1, <2>2, <2>4, <2>5, ScanNext
<1>11. CASE StartFunction(w)
  <2>1. wpc[w] \in Awaiting /\ wpc[w] = "deps" BY <1>11 DEF StartFunction, WAt, Awaiting
  <2>2. PICK s \in SubTasks : s = job[w] /\ Released(s) BY <1>4, <2>1
  <2>3. /\ dep[w] > Len(Dependencies[s]) /\ started' = [started EXCEPT ![s] = started[s] + 1]
        /\ WGoto(w, "running")
    BY <1>11, <2>2 DEF StartFunction
  <2>4. PICK q \in Seq(SubNames) : q = Dependencies[s] BY ConstantsAssumption
  <2>5. \A i \in DOMAIN q : i \in 1..(dep[w] - 1) BY <1>4, <2>1, <2>3, <2>4
  <2>6. \A d \in Relied(s) : \E i \in DOMAIN q : q[i] = SubName[d]
    BY <2>4 DEF Relied, DependsOn
  <2>7. Scanned(w) BY <2>1 DEF ScanOK
  <2>8. \A d \in Relied(s) : main_task_id[d] # None => Finished(d)
    BY <2>2, <2>4, <2>5, <2>6, <2>7 DEF Scanned
  <2>9. Unhindered(s) BY <2>2, <2>8 DEF Unhindered
  <2>10. \A t \in SubTasks : started'[t] > 0 => started[t] > 0 \/ Unhindered(t)
    BY <2>3, <2>9 DEF PriorityInv, TypeInv, OthersOK
  <2>11. /\ wpc'[w] = "running" /\ UNCHANGED <<job, dep, awaited>>
         /\ \A v \in Workers \ {w} : wpc'[v] = wpc[v]
    BY <1>0, <2>3 DEF WGoto, WorkersOK
  <2> QED BY <1>1, <2>10, <2>11, ScanWorker DEF Awaiting
<1>12. CASE Pop(w) BY <1>0, <1>1, <1>12, ScanWorker DEF Pop, WJob, WorkersOK, Awaiting, histVars
<1>13. CASE FindMainTask(w) \/ CountCompleted(w) \/ EraseMembers(w)
  BY <1>2, <1>3, <1>13 DEF FindMainTask, CountCompleted, EraseMembers, WReturn, Awaiting, histVars
<1>14. CASE LeavePool(w) \/ FinishFunction(w) \/ PostResult(w) \/ FlagCompleted(w)
         \/ NotifyDependents(w) \/ EraseMainTask(w)
  BY <1>2, <1>14 DEF LeavePool, FinishFunction, PostResult, FlagCompleted, NotifyDependents,
     EraseMainTask, Awaiting, histVars
<1>15. CASE UseDestroyed(w)
  <2>1. UNCHANGED <<workerVars, started>> /\ IdsStay
    BY <1>1, <1>15 DEF UseDestroyed, histVars, IdsStay
  <2>2. \A t \in SubTasks : Released(t) => Released(t)' BY <1>1, ReleasedSame
  <2> QED BY <2>1, <2>2, ScanStays
<1> QED
  BY <1>7, <1>8, <1>9, <1>10, <1>11, <1>12, <1>13, <1>14, <1>15 DEF WorkerStep

-----------------------------------------------------------------------------
(* The invariant is inductive. *)

\* No call has been made at first.
LEMMA InitDependency == ASSUME Init PROVE DependencyInv
<1> USE DEF Init
<1>0. \A s \in SubTasks : main_task_id[s] = None /\ s \in Calls BY DEF Calls
<1>1. CallsOK BY <1>0 DEF CallsOK, Ending
<1>2. FetchesOK BY DEF FetchesOK, Fetching, Fetched
<1>3. NamesOK /\ NamedOK
  <2>1. \A s \in SubTasks : s # None BY ConstantsAssumption DEF Calls
  <2> QED BY <1>0, <2>1 DEF NamesOK, NamedOK, Beyond
<1>4. CountsOK
  <2>1. None \notin MainTasks BY ConstantsAssumption DEF Calls
  <2>2. \A m \in MainTasks : CountedOf(m) = {} BY <1>0, <2>1 DEF CountedOf
  <2>3. \A m \in MainTasks : ready_count[m] = Cardinality(CountedOf(m))
    BY <2>2, FS_EmptySet
  <2> QED BY <1>0, <2>1, <2>3 DEF CountsOK
<1>5. ReleasedOK
  <2>1. \A p \in Priorities : DOMAIN ready_subtasks[p] = {} OBVIOUS
  <2>2. DOMAIN ring = {} OBVIOUS
  <2> QED BY <2>1, <2>2 DEF ReleasedOK
<1>6. ScanOK BY DEF ScanOK, Awaiting
<1> QED BY <1>1, <1>2, <1>3, <1>4, <1>5, <1>6 DEF DependencyInv

\* DependencyInv is inductive.
LEMMA StepDependency ==
  ASSUME WellFormed, PriorityInv, DependencyInv, [Next]_vars PROVE DependencyInv'
<1> USE DEF DependencyInv
<1>0. TypeInv BY DEF PriorityInv
<1>1. IdsStay BY IdsStayed
<1>2. \A s \in SubTasks : Finished(s) => Finished(s)' BY <1>0, FinishedStays
<1>3. ASSUME NEW c \in Clients, ClientStep(c) PROVE DependencyInv'
  <2>1. Moves(c) BY <1>0, <1>3, ClientMoves
  <2>2. \A s \in SubTasks : Released(s) => Released(s)' BY <1>1, <2>1, ReleasedStay
  <2>3. UNCHANGED <<workerVars, started>>
    BY <1>3 DEF ClientStep, AddMainTask, EnterWaiting, InsertMain, AddSubTask, NameSubTask,
       InsertSubTask, AppendMember, EmplaceSlot, FetchMain, CountReady, LockReady, PushMembers,
       LeaveWaiting, GetSubTaskResult, FindSlot, WaitSlot, TakeResult, EraseName, EraseSubTask,
       Start, LaunchLoop, Stop, TestJoinable, EnterJoin, Join, DestroyMutexes, StopPool,
       JoinPool, clientOther, histVars
  <2>4. CallsOK' BY <1>1, <1>3, ClientStepCalls
  <2>5. FetchesOK' BY <1>0, <1>3, ClientStepFetches
  <2>6. NamesOK' /\ NamedOK' BY <1>1, <1>2, <1>3, ClientStepNames, ClientStepNamed
  <2>7. CountsOK' BY <1>1, <1>3, ClientStepCounts
  <2>8. ReleasedOK' BY <1>1, <1>3, ClientStepReleased
  <2>9. ScanOK' BY <1>1, <1>2, <2>2, <2>3, ScanStays
  <2> QED BY <2>4, <2>5, <2>6, <2>7, <2>8, <2>9
<1>4. ASSUME NEW w \in Workers, WorkerStep(w) PROVE DependencyInv'
  <2>1. UNCHANGED <<clientVars, outcome, main_task_name_to_id, ready_count, sub_task_name_to_id,
                    sub_tasks, main_task_id>>
    BY <1>4 DEF WorkerStep, Pop, LeavePool, FindSubTask, LookupDependency, FindDependency,
       AwaitDependency, StartFunction, FinishFunction, PostResult, FlagCompleted,
       NotifyDependents, FindMainTask, CountCompleted, EraseMainTask, UseDestroyed, EraseMembers,
       workerOther, taskVars, mainVars, mainMaps, counts, subVars, subMaps, subFields
  <2>2. CallsOK' BY <2>1, CallsSame
  <2>3. FetchesOK' BY <1>0, <1>2, <1>4, WorkerStepFetches
  <2>4. NamesOK' /\ NamedOK' BY <1>2, <2>1, OtherStepNames
  <2>5. CountsOK' BY <2>1, OtherStepCounts
  <2>6. ReleasedOK' BY <1>0, <1>4, WorkerStepReleased
  <2>7. ScanOK' BY <1>2, <1>4, WorkerStepScan
  <2> QED BY <2>2, <2>3, <2>4, <2>5, <2>6, <2>7
<1>5. ASSUME UNCHANGED <<taskVars, clientVars, outcome, workerVars, histVars>>, ReleasedOK'
      PROVE  DependencyInv'
  <2> USE <1>5 DEF taskVars, mainVars, mainMaps, counts, subVars, subMaps, subFields, histVars
  <2>1. CallsOK' BY CallsSame
  <2>2. FetchesOK' BY DEF FetchesOK, Finished, clientVars, workerVars
  <2>3. NamesOK' /\ NamedOK' BY <1>2, OtherStepNames
  <2>4. CountsOK' BY OtherStepCounts
  <2>5. \A t \in SubTasks : Released(t) => Released(t)' BY ReleasedSame
  <2>6. ScanOK' BY <1>1, <1>2, <2>5, ScanStays
  <2> QED BY <2>1, <2>2, <2>3, <2>4, <2>6
<1>6. CASE LoopStep
  <2>1. UNCHANGED <<taskVars, clientVars, outcome, workerVars, histVars>>
    BY <1>6 DEF LoopStep, TestRunning, PendingReady, PendingWaiting, PendingSubTasks, LoopLock,
       Dispatch, LoopUnlock, loopOther
  <2>2. ReleasedOK' BY <1>0, <1>6, LoopStepReleased
  <2> QED BY <1>5, <2>1, <2>2
<1>7. CASE UNCHANGED vars
  <2>1. UNCHANGED <<clientVars, main_task_id, ready_subtasks, ring, wpc, job>>
    BY <1>7 DEF vars, taskVars, subVars, subFields, queueVars, workerVars
  <2>2. ReleasedOK'
    BY <1>0, <2>1, ReleasedSame
    DEF ReleasedOK, TypeInv, QueuesOK, ClientInv, ClientShape, AddingSub, WorkerInv, WorkerShape,
        clientVars
  <2> QED BY <1>5, <1>7, <2>2 DEF vars
<1> QED BY <1>3, <1>4, <1>6, <1>7 DEF Next, Rest

\* No function starts before the functions of the dependencies it can rely on have ended
\* (EventDispatcher.hpp:38-65): the release of a main task (lines 303-317) makes its subtasks
\* known to each other, and a name is erased (lines 240-243) only after its function has ended.
THEOREM DependenciesRespected == WellFormed => (Spec => []DependenciesFirst)
<1>1. Init => PriorityInv /\ DependencyInv BY InitPriority, InitDependency
<1>2. WellFormed /\ PriorityInv /\ DependencyInv /\ [Next]_vars
        => (PriorityInv /\ DependencyInv)'
  BY StepPriority, StepDependency
<1>3. ASSUME DependencyInv PROVE DependenciesFirst
  <2> SUFFICES ASSUME NEW s \in SubTasks, started[s] > 0, NEW d \in Relied(s), Accepted(d)
               PROVE  Finished(d)
    BY DEF DependenciesFirst
  <2>1. d \in SubTasks BY ReliedType
  <2>2. main_task_id[d] # None BY <1>3, <2>1 DEF DependencyInv, CallsOK, Accepted
  <2> QED BY <1>3, <2>2 DEF DependencyInv, ScanOK, Unhindered
<1> SUFFICES ASSUME WellFormed PROVE Spec => []DependenciesFirst OBVIOUS
<1>4. PriorityInv /\ DependencyInv /\ [Next]_vars => (PriorityInv /\ DependencyInv)' BY <1>2
<1> QED BY <1>1, <1>3, <1>4, PTL DEF Spec
=============================================================================
