--------------------------- MODULE EventDispatcher ---------------------------
(***************************************************************************)
(* The dependency-aware task scheduler of EventDispatcher.hpp: client      *)
(* threads that submit main tasks and subtasks and fetch results, the      *)
(* event-loop thread that hands ready subtasks to the pool, and the pool's *)
(* workers running the closure of wrapSubTask.                             *)
(*                                                                         *)
(* Grain of atomicity: one critical section (one LockGuard block) is one   *)
(* step; only ready_mutex is held across other steps and across a blocking *)
(* call, so only ready_mutex is a variable.  The ring of the pool is a     *)
(* bounded FIFO, a CompletionEvent a flag with a blocking wait.            *)
(*                                                                         *)
(* A call of the API is an element of Calls.  The call that submits a task *)
(* is also the task's identity and stands for the id IDAllocator returns:  *)
(* the dispatcher gives no id back, so no id is issued twice.              *)
(***************************************************************************)
EXTENDS Integers, Sequences, FiniteSets

CONSTANTS
  Clients, Workers,          \* threads that call the dispatcher; threads of the pool
  MainTasks, SubTasks,       \* calls of addMainTask and of addSubTask
  Fetches,                   \* calls of getSubTaskResult
  Starts, Stops, Exits,      \* calls of start() and Stop(); the destruction at process exit
  After,                     \* After[k]: the calls that have returned before k is made
  MainNames, SubNames,
  MainName, SubtaskSize, Priority,     \* MainTask::name, subtask_size, priority
  SubName, MainTaskName, Dependencies, \* SubTask::name, main_task_name, dependencies (a sequence)
  Throwing,                            \* the subtasks whose task_function throws
  FetchName,                           \* the name a getSubTaskResult call asks for
  None

Calls      == MainTasks \cup SubTasks \cup Fetches \cup Starts \cup Stops \cup Exits
LOWEST     == 0
HIGHEST    == 6
Priorities == LOWEST..HIGHEST
PoolSize   == Cardinality(Workers)     \* ThreadPool<N>: N workers, a ring of N slots

ASSUME ConstantsAssumption ==
  /\ IsFiniteSet(Workers) /\ Workers # {}
  /\ IsFiniteSet(SubTasks)
  /\ None \notin Calls \cup Clients \cup {"loop"}
  /\ "loop" \notin Clients
  /\ After        \in [Calls -> SUBSET Calls]
  /\ MainName     \in [MainTasks -> MainNames]
  /\ SubtaskSize  \in [MainTasks -> Nat]
  /\ Priority     \in [MainTasks -> Priorities]
  /\ SubName      \in [SubTasks -> SubNames]
  /\ MainTaskName \in [SubTasks -> MainNames]
  /\ Dependencies \in [SubTasks -> Seq(SubNames)]
  /\ FetchName    \in [Fetches -> SubNames]

\* A call is of one kind.
ASSUME KindsAssumption ==
  /\ MainTasks \cap (SubTasks \cup Fetches \cup Starts \cup Stops \cup Exits) = {}
  /\ SubTasks \cap (Fetches \cup Starts \cup Stops \cup Exits) = {}
  /\ Fetches \cap (Starts \cup Stops \cup Exits) = {}
  /\ Starts \cap (Stops \cup Exits) = {}
  /\ Stops \cap Exits = {}

VARIABLES
  main_task_name_to_id, main_tasks, main_to_subtasks, waiting_maintasks,
  ready_count, completed_count,         \* MainTask::ready_subtasks, completed_subtasks
  sub_task_name_to_id, sub_tasks, subtask_results,
  main_task_id, completed, done,        \* SubTask: main_task_id, completed, completion.done
  slot, semaphore,                      \* SubTaskResult: result and error, semaphore
  ready_subtasks, ready_mutex,
  ring,           \* the RingQueue of the pool
  cpc, call, found,              \* a client: its control, current call, subtask id it has found
  outcome,        \* how each call ended
  wpc, job, dep, awaited,        \* a worker: its control, subtask, next dependency, one awaited
  lpc, pri, is_running, joinable, \* the event loop thread: its control, the priority it scans
  destroyed, stopped, process,   \* mutexes destroyed, pool stopped, fate of the process
  fn, started     \* history: how a subtask's function ended, how often it was started

mainMaps  == <<main_task_name_to_id, main_tasks, main_to_subtasks, waiting_maintasks>>
counts    == <<ready_count, completed_count>>
subMaps   == <<sub_task_name_to_id, sub_tasks, subtask_results>>
subFields == <<main_task_id, completed, done, slot, semaphore>>
mainVars  == <<mainMaps, counts>>
subVars   == <<subMaps, subFields>>
taskVars  == <<mainVars, subVars>>
queueVars == <<ready_subtasks, ready_mutex, ring>>
loopVars  == <<lpc, pri, is_running, joinable>>
exitVars  == <<destroyed, stopped, process>>
histVars  == <<fn, started>>
clientVars == <<cpc, call, found>>
workerVars == <<wpc, job, dep, awaited>>
vars      == <<taskVars, queueVars, clientVars, outcome, workerVars, loopVars, exitVars, histVars>>
\* What most steps of a client and of a worker leave alone.
clientOther == <<queueVars, workerVars, loopVars, exitVars, histVars>>
workerOther == <<queueVars, clientVars, outcome, loopVars, exitVars, histVars>>

ClientSteps == {"idle", "am_waiting", "am_insert", "as_name", "as_insert", "as_members", "as_slot",
                "as_main", "as_ready", "as_lock", "as_push", "as_release", "gr_slot", "gr_wait",
                "gr_take", "gr_name", "gr_erase", "launch", "stop", "join", "joining", "destroy",
                "stop_pool", "join_pool"}
WorkerSteps == {"idle", "find", "deps", "dep_task", "await", "running", "post", "flag", "notify",
                "find_main", "count", "erase_main", "erase_members", "exited"}
LoopSteps   == {"none", "test", "pending_ready", "pending_waiting", "pending_subs", "lock",
                "dispatch", "exited"}
Slots       == {"unset", "value", "error", "moved"}
Outcomes    == Slots \cup {"unissued", "open", "done", "not_found", "not_joinable"}

MapsOK ==
  /\ main_task_name_to_id \in [MainNames -> MainTasks \cup {None}]
  /\ main_tasks \subseteq MainTasks /\ waiting_maintasks \subseteq MainTasks
  /\ main_to_subtasks \in [MainTasks -> Seq(SubTasks)]
  /\ ready_count \in [MainTasks -> Nat] /\ completed_count \in [MainTasks -> Nat]
  /\ sub_task_name_to_id \in [SubNames -> SubTasks \cup {None}]
  /\ sub_tasks \subseteq SubTasks /\ subtask_results \subseteq SubTasks
  /\ main_task_id \in [SubTasks -> MainTasks \cup {None}]
  /\ completed \subseteq SubTasks /\ done \subseteq SubTasks
  /\ slot \in [SubTasks -> Slots] /\ semaphore \in [SubTasks -> Nat]
QueuesOK ==
  /\ ready_subtasks \in [Priorities -> Seq(SubTasks)]
  /\ ready_mutex \in Clients \cup {"loop", None}
  /\ ring \in Seq(SubTasks) /\ Len(ring) <= PoolSize
ClientsOK ==
  /\ cpc \in [Clients -> ClientSteps] /\ call \in [Clients -> Calls \cup {None}]
  /\ found \in [Clients -> SubTasks \cup {None}]
  /\ outcome \in [Calls -> Outcomes]
WorkersOK ==
  /\ wpc \in [Workers -> WorkerSteps] /\ job \in [Workers -> SubTasks \cup {None}]
  /\ dep \in [Workers -> Nat \ {0}] /\ awaited \in [Workers -> SubTasks \cup {None}]
OthersOK ==
  /\ lpc \in LoopSteps /\ pri \in Priorities /\ is_running \in BOOLEAN /\ joinable \in BOOLEAN
  /\ destroyed \in BOOLEAN /\ stopped \in BOOLEAN
  /\ process \in {"alive", "undefined", "terminated"}
  /\ fn \in [SubTasks -> {"none", "value", "error"}]
  /\ started \in [SubTasks -> Nat]
\* The values the variables have; the pool's ring holds at most one task per worker
\* (RingQueue.hpp:13-14).
TypeOK == MapsOK /\ QueuesOK /\ ClientsOK /\ WorkersOK /\ OthersOK

Init ==
  /\ main_task_name_to_id = [n \in MainNames |-> None] /\ main_tasks = {}
  /\ main_to_subtasks = [m \in MainTasks |-> <<>>] /\ waiting_maintasks = {}
  /\ ready_count = [m \in MainTasks |-> 0] /\ completed_count = [m \in MainTasks |-> 0]
  /\ sub_task_name_to_id = [n \in SubNames |-> None] /\ sub_tasks = {} /\ subtask_results = {}
  /\ main_task_id = [s \in SubTasks |-> None] /\ completed = {} /\ done = {}
  /\ slot = [s \in SubTasks |-> "unset"] /\ semaphore = [s \in SubTasks |-> 0]
  /\ ready_subtasks = [p \in Priorities |-> <<>>] /\ ready_mutex = None /\ ring = <<>>
  /\ cpc = [c \in Clients |-> "idle"] /\ call = [c \in Clients |-> None]
  /\ found = [c \in Clients |-> None]
  /\ outcome = [k \in Calls |-> "unissued"]
  /\ wpc = [w \in Workers |-> "idle"] /\ job = [w \in Workers |-> None]
  /\ dep = [w \in Workers |-> 1] /\ awaited = [w \in Workers |-> None]
  /\ lpc = "none" /\ pri = HIGHEST /\ is_running = FALSE /\ joinable = FALSE
  /\ destroyed = FALSE /\ stopped = FALSE /\ process = "alive"
  /\ fn = [s \in SubTasks |-> "none"] /\ started = [s \in SubTasks |-> 0]

-----------------------------------------------------------------------------
(* The calls of client threads. *)

CAt(c, l)   == process = "alive" /\ cpc[c] = l
CGoto(c, l) == cpc' = [cpc EXCEPT ![c] = l] /\ UNCHANGED <<call, found>>

Returned(k)   == outcome[k] # "unissued" /\ \A c \in Clients : call[c] # k
\* Client c makes call k; no call is made once the process exits.
MayCall(c, k) == /\ CAt(c, "idle") /\ outcome[k] = "unissued"
                 /\ \A j \in After[k] : Returned(j)
                 /\ \A x \in Exits : outcome[x] = "unissued"

\* The first critical section of call k: it leaves c at step l, with subtask id s ...
Enter(c, k, l, s) == /\ cpc' = [cpc EXCEPT ![c] = l]
                     /\ call' = [call EXCEPT ![c] = k]
                     /\ found' = [found EXCEPT ![c] = s]
                     /\ outcome' = [outcome EXCEPT ![k] = "open"]
\* ... or it is also the last one.
Immediately(k, o) == outcome' = [outcome EXCEPT ![k] = o] /\ UNCHANGED clientVars

\* The last step of a call, which ends with outcome o unless it has one.
Return(c, o) == /\ cpc' = [cpc EXCEPT ![c] = "idle"]
                /\ call' = [call EXCEPT ![c] = None]
                /\ found' = [found EXCEPT ![c] = None]
                /\ outcome' = [outcome EXCEPT ![call[c]] = IF @ = "open" THEN o ELSE @]

Undefined == process' = "undefined"

(* addMainTask *)

AddMainTask(c, m) ==
  /\ MayCall(c, m)
  /\ Enter(c, m, "am_waiting", None)
  /\ main_task_name_to_id' = [main_task_name_to_id EXCEPT ![MainName[m]] = m]
  /\ UNCHANGED <<main_tasks, waiting_maintasks, main_to_subtasks, counts, subVars, clientOther>>

EnterWaiting(c) ==
  /\ CAt(c, "am_waiting")
  /\ waiting_maintasks' = waiting_maintasks \cup {call[c]}
  /\ CGoto(c, "am_insert")
  /\ UNCHANGED <<main_task_name_to_id, main_tasks, main_to_subtasks, counts, subVars, outcome,
                 clientOther>>

InsertMain(c) ==
  /\ CAt(c, "am_insert")
  /\ main_tasks' = main_tasks \cup {call[c]}
  /\ Return(c, "done")
  /\ UNCHANGED <<main_task_name_to_id, waiting_maintasks, main_to_subtasks, counts, subVars,
                 clientOther>>

(* addSubTask *)

AddSubTask(c, s) ==
  /\ MayCall(c, s)
  /\ LET m == main_task_name_to_id[MainTaskName[s]] IN
       IF m = None
       THEN Immediately(s, "not_found") /\ UNCHANGED main_task_id
       ELSE Enter(c, s, "as_name", None) /\ main_task_id' = [main_task_id EXCEPT ![s] = m]
  /\ UNCHANGED <<mainVars, subMaps, completed, done, slot, semaphore, clientOther>>

NameSubTask(c) ==
  /\ CAt(c, "as_name")
  /\ LET s == call[c] IN sub_task_name_to_id' = [sub_task_name_to_id EXCEPT ![SubName[s]] = s]
  /\ CGoto(c, "as_insert")
  /\ UNCHANGED <<mainVars, sub_tasks, subtask_results, subFields, outcome, clientOther>>

InsertSubTask(c) ==
  /\ CAt(c, "as_insert")
  /\ sub_tasks' = sub_tasks \cup {call[c]}
  /\ CGoto(c, "as_members")
  /\ UNCHANGED <<mainVars, sub_task_name_to_id, subtask_results, subFields, outcome, clientOther>>

AppendMember_AtFront(c) ==
  /\ CAt(c, "as_members")
  /\ LET s == call[c] IN
       main_to_subtasks' = [main_to_subtasks EXCEPT ![main_task_id[s]] = <<s>> \o @]
  /\ CGoto(c, "as_slot")
  /\ UNCHANGED <<main_task_name_to_id, main_tasks, waiting_maintasks, counts, subVars, outcome,
                 clientOther>>

AppendMember(c) ==
  /\ CAt(c, "as_members")
  /\ LET s == call[c] IN
       main_to_subtasks' = [main_to_subtasks EXCEPT ![main_task_id[s]] = Append(@, s)]
  /\ CGoto(c, "as_slot")
  /\ UNCHANGED <<main_task_name_to_id, main_tasks, waiting_maintasks, counts, subVars, outcome,
                 clientOther>>

EmplaceSlot(c) ==
  /\ CAt(c, "as_slot")
  /\ subtask_results' = subtask_results \cup {call[c]}
  /\ CGoto(c, "as_main")
  /\ UNCHANGED <<mainVars, sub_task_name_to_id, sub_tasks, subFields, outcome, clientOther>>

\* main_tasks.find(main_id)->second: undefined when the main task is not there.
FetchMain(c) ==
  /\ CAt(c, "as_main")
  /\ IF main_task_id[call[c]] \in main_tasks
     THEN CGoto(c, "as_ready") /\ UNCHANGED process
     ELSE Undefined /\ UNCHANGED clientVars
  /\ UNCHANGED <<taskVars, queueVars, outcome, workerVars, loopVars, destroyed, stopped, histVars>>

LastReady_OffByOne(m) == ready_count[m] = SubtaskSize[m]
LastReady(m) == ready_count[m] + 1 = SubtaskSize[m]

\* The increment is not atomic: another client that is about to count writes back what it has read.
CountReady_LostUpdate(c) ==
  /\ CAt(c, "as_ready")
  /\ LET m == main_task_id[call[c]]
         raced == \E d \in Clients \ {c} : cpc[d] = "as_ready" /\ main_task_id[call[d]] = m IN
       /\ ready_count' = [ready_count EXCEPT ![m] = IF raced THEN @ ELSE @ + 1]
       /\ IF LastReady(m)
          THEN CGoto(c, "as_lock") /\ UNCHANGED outcome
          ELSE Return(c, "done")
  /\ UNCHANGED <<mainMaps, completed_count, subVars, clientOther>>

CountReady(c) ==
  /\ CAt(c, "as_ready")
  /\ LET m == main_task_id[call[c]] IN
       /\ ready_count' = [ready_count EXCEPT ![m] = @ + 1]
       /\ IF LastReady(m)
          THEN CGoto(c, "as_lock") /\ UNCHANGED outcome
          ELSE Return(c, "done")
  /\ UNCHANGED <<mainMaps, completed_count, subVars, clientOther>>

LockReady_NoLock(c) ==
  /\ CAt(c, "as_lock")
  /\ CGoto(c, "as_push")
  /\ UNCHANGED <<taskVars, queueVars, outcome, workerVars, loopVars, exitVars, histVars>>

LockReady(c) ==
  /\ CAt(c, "as_lock")
  /\ ready_mutex = None
  /\ ready_mutex' = c
  /\ CGoto(c, "as_push")
  /\ UNCHANGED <<taskVars, ready_subtasks, ring, outcome, workerVars, loopVars, exitVars, histVars>>

\* Another thread modifies main_to_subtasks.
MembersBeingWritten(c) ==
  \/ \E w \in Workers : wpc[w] = "erase_members"
  \/ \E d \in Clients \ {c} : cpc[d] = "as_members"

\* main_to_subtasks is read without main_to_subtasks_mutex: while another thread modifies the
\* map the read may give what it should, or anything.
PushMembers(c) ==
  /\ CAt(c, "as_push")
  /\ \/ LET m == main_task_id[call[c]] IN
          /\ ready_subtasks' = [ready_subtasks EXCEPT ![Priority[m]] = @ \o main_to_subtasks[m]]
          /\ CGoto(c, "as_release")
          /\ UNCHANGED process
     \/ MembersBeingWritten(c) /\ Undefined /\ UNCHANGED <<ready_subtasks, clientVars>>
  /\ UNCHANGED <<taskVars, ready_mutex, ring, outcome, workerVars, loopVars, destroyed, stopped,
                 histVars>>

LeaveWaiting(c) ==
  /\ CAt(c, "as_release")
  /\ waiting_maintasks' = waiting_maintasks \ {main_task_id[call[c]]}
  /\ ready_mutex' = None
  /\ Return(c, "done")
  /\ UNCHANGED <<main_task_name_to_id, main_tasks, main_to_subtasks, counts, subVars,
                 ready_subtasks, ring, workerVars, loopVars, exitVars, histVars>>

(* getSubTaskResult *)

GetSubTaskResult(c, f) ==
  /\ MayCall(c, f)
  /\ LET s == sub_task_name_to_id[FetchName[f]] IN
       IF s = None THEN Immediately(f, "not_found") ELSE Enter(c, f, "gr_slot", s)
  /\ UNCHANGED <<taskVars, clientOther>>

FindSlot(c) ==
  /\ CAt(c, "gr_slot")
  /\ IF found[c] \in subtask_results
     THEN CGoto(c, "gr_wait") /\ UNCHANGED outcome
     ELSE Return(c, "not_found")
  /\ UNCHANGED <<taskVars, clientOther>>

SlotPosted_NoWait(s) == TRUE
SlotPosted(s) == semaphore[s] > 0

WaitSlot_KeepsPost(c) ==
  /\ CAt(c, "gr_wait")
  /\ SlotPosted(found[c])
  /\ CGoto(c, "gr_take")
  /\ UNCHANGED <<taskVars, outcome, clientOther>>

WaitSlot(c) ==
  /\ CAt(c, "gr_wait")
  /\ LET s == found[c] IN
       /\ SlotPosted(s)
       /\ semaphore' = [semaphore EXCEPT ![s] = @ - 1]
  /\ CGoto(c, "gr_take")
  /\ UNCHANGED <<mainVars, subMaps, main_task_id, completed, done, slot, outcome, clientOther>>

\* The std::any is moved out of the slot, the exception_ptr copied.
TakeResult(c) ==
  /\ CAt(c, "gr_take")
  /\ LET s == found[c] IN
       /\ outcome' = [outcome EXCEPT ![call[c]] = slot[s]]
       /\ subtask_results' = subtask_results \ {s}
       /\ slot' = [slot EXCEPT ![s] = IF @ = "value" THEN "moved" ELSE @]
  /\ CGoto(c, "gr_name")
  /\ UNCHANGED <<mainVars, sub_task_name_to_id, sub_tasks, main_task_id, completed, done, semaphore,
                 clientOther>>

\* The name is erased whatever id it maps to by now.
EraseName(c) ==
  /\ CAt(c, "gr_name")
  /\ sub_task_name_to_id' = [sub_task_name_to_id EXCEPT ![FetchName[call[c]]] = None]
  /\ CGoto(c, "gr_erase")
  /\ UNCHANGED <<mainVars, sub_tasks, subtask_results, subFields, outcome, clientOther>>

EraseSubTask(c) ==
  /\ CAt(c, "gr_erase")
  /\ sub_tasks' = sub_tasks \ {found[c]}
  /\ Return(c, "done")
  /\ UNCHANGED <<mainVars, sub_task_name_to_id, subtask_results, subFields, clientOther>>

(* start, Stop and ~EventDispatcher *)

Start(c, k) ==
  /\ MayCall(c, k)
  /\ is_running' = TRUE
  /\ Enter(c, k, "launch", None)
  /\ UNCHANGED <<taskVars, queueVars, workerVars, lpc, pri, joinable, exitVars, histVars>>

\* The thread is created and assigned to event_loop_thread; assigning to a Thread that is still
\* joinable terminates the program.
LaunchLoop(c) ==
  /\ CAt(c, "launch")
  /\ \/ /\ joinable
        /\ process' = "terminated"
        /\ UNCHANGED <<lpc, joinable, clientVars, outcome>>
     \/ /\ ~joinable
        /\ lpc' = "test" /\ joinable' = TRUE
        /\ Return(c, "done")
        /\ UNCHANGED process
  /\ UNCHANGED <<taskVars, queueVars, workerVars, pri, is_running, destroyed, stopped, histVars>>

\* Stop() called by a client or by the destructor; at process exit no other thread of the program
\* is inside a call.
Stop(c, k) ==
  /\ MayCall(c, k)
  /\ k \in Exits => \A d \in Clients : cpc[d] = "idle"
  /\ is_running' = FALSE
  /\ Enter(c, k, "stop", None)
  /\ UNCHANGED <<taskVars, queueVars, workerVars, lpc, pri, joinable, exitVars, histVars>>

AfterJoin(c) == IF call[c] \in Exits
                THEN CGoto(c, "destroy") /\ UNCHANGED outcome
                ELSE Return(c, "done")

TestJoinable_NotAtExit(c) ==
  /\ CAt(c, "stop")
  /\ IF joinable /\ call[c] \notin Exits
     THEN CGoto(c, "join") /\ UNCHANGED outcome
     ELSE AfterJoin(c)
  /\ UNCHANGED <<taskVars, clientOther>>

TestJoinable(c) ==
  /\ CAt(c, "stop")
  /\ IF joinable THEN CGoto(c, "join") /\ UNCHANGED outcome ELSE AfterJoin(c)
  /\ UNCHANGED <<taskVars, clientOther>>

\* Thread::join tests again and throws when another Stop has joined the thread in between.
EnterJoin(c) ==
  /\ CAt(c, "join")
  /\ IF joinable THEN CGoto(c, "joining") /\ UNCHANGED outcome ELSE Return(c, "not_joinable")
  /\ UNCHANGED <<taskVars, clientOther>>

\* pthread_join, undefined for a thread that another join waits for or has joined.
Join(c) ==
  /\ CAt(c, "joining")
  /\ \/ /\ joinable /\ lpc = "exited"
        /\ \A d \in Clients \ {c} : cpc[d] # "joining"
        /\ lpc' = "none" /\ joinable' = FALSE
        /\ AfterJoin(c)
        /\ UNCHANGED process
     \/ /\ ~joinable \/ \E d \in Clients \ {c} : cpc[d] = "joining"
        /\ Undefined
        /\ UNCHANGED <<lpc, joinable, clientVars, outcome>>
  /\ UNCHANGED <<taskVars, queueVars, workerVars, pri, is_running, destroyed, stopped, histVars>>

\* Members are destroyed in reverse order of declaration: the mutexes, then the pool, then the maps.
DestroyMutexes(c) ==
  /\ CAt(c, "destroy")
  /\ destroyed' = TRUE
  /\ CGoto(c, "stop_pool")
  /\ UNCHANGED <<taskVars, queueVars, outcome, workerVars, loopVars, stopped, process, histVars>>

StopPool(c) ==
  /\ CAt(c, "stop_pool")
  /\ stopped' = TRUE
  /\ CGoto(c, "join_pool")
  /\ UNCHANGED <<taskVars, queueVars, outcome, workerVars, loopVars, destroyed, process, histVars>>

JoinPool(c) ==
  /\ CAt(c, "join_pool")
  /\ \A w \in Workers : wpc[w] = "exited"
  /\ Return(c, "done")
  /\ UNCHANGED <<taskVars, clientOther>>

-----------------------------------------------------------------------------
(* The workers: RingQueue::pop and the closure of wrapSubTask. *)

WAt(w, l)   == process = "alive" /\ wpc[w] = l
WGoto(w, l) == wpc' = [wpc EXCEPT ![w] = l] /\ UNCHANGED <<job, dep, awaited>>
\* The worker goes to step l with subtask s.
WJob(w, l, s) == /\ wpc' = [wpc EXCEPT ![w] = l]
                 /\ job' = [job EXCEPT ![w] = s]
                 /\ dep' = [dep EXCEPT ![w] = 1]
                 /\ awaited' = [awaited EXCEPT ![w] = None]
WReturn(w) == WJob(w, "idle", None)      \* back to pop

\* The scan of the dependencies goes on with the next name.
NextDependency(w) == /\ wpc' = [wpc EXCEPT ![w] = "deps"]
                     /\ dep' = [dep EXCEPT ![w] = @ + 1]
                     /\ awaited' = [awaited EXCEPT ![w] = None]
                     /\ UNCHANGED job

RingIsEmpty == Len(ring) % PoolSize = 0        \* RingQueue::IsEmpty compares head and tail

Pop(w) ==
  /\ WAt(w, "idle")
  /\ ring # <<>>
  /\ ~(stopped /\ RingIsEmpty)
  /\ ring' = Tail(ring)
  /\ WJob(w, "find", Head(ring))
  /\ UNCHANGED <<taskVars, ready_subtasks, ready_mutex, clientVars, outcome, loopVars, exitVars,
                 histVars>>

LeavePool(w) ==
  /\ WAt(w, "idle")
  /\ stopped /\ RingIsEmpty
  /\ WGoto(w, "exited")
  /\ UNCHANGED <<taskVars, workerOther>>

FindSubTask(w) ==
  /\ WAt(w, "find")
  /\ IF job[w] \in sub_tasks THEN WGoto(w, "deps") ELSE WReturn(w)
  /\ UNCHANGED <<taskVars, workerOther>>

\* A dependency whose name is not known is skipped.
LookupDependency(w) ==
  /\ WAt(w, "deps")
  /\ dep[w] <= Len(Dependencies[job[w]])
  /\ LET d == sub_task_name_to_id[Dependencies[job[w]][dep[w]]] IN
       IF d = None
       THEN NextDependency(w)
       ELSE /\ wpc' = [wpc EXCEPT ![w] = "dep_task"]
            /\ awaited' = [awaited EXCEPT ![w] = d]
            /\ UNCHANGED <<job, dep>>
  /\ UNCHANGED <<taskVars, workerOther>>

FindDependency(w) ==
  /\ WAt(w, "dep_task")
  /\ IF awaited[w] \in sub_tasks THEN WGoto(w, "await") ELSE NextDependency(w)
  /\ UNCHANGED <<taskVars, workerOther>>

DependencyDone_NoRetest(w) == TRUE
DependencyDone(w) == awaited[w] \in done

AwaitDependency(w) ==
  /\ WAt(w, "await")
  /\ DependencyDone(w)
  /\ NextDependency(w)
  /\ UNCHANGED <<taskVars, workerOther>>

StartFunction(w) ==
  /\ WAt(w, "deps")
  /\ dep[w] > Len(Dependencies[job[w]])
  /\ started' = [started EXCEPT ![job[w]] = @ + 1]
  /\ WGoto(w, "running")
  /\ UNCHANGED <<taskVars, queueVars, clientVars, outcome, loopVars, exitVars, fn>>

FinishFunction(w) ==
  /\ WAt(w, "running")
  /\ LET s == job[w] IN fn' = [fn EXCEPT ![s] = IF s \in Throwing THEN "error" ELSE "value"]
  /\ WGoto(w, "post")
  /\ UNCHANGED <<taskVars, queueVars, clientVars, outcome, loopVars, exitVars, started>>

PostResult(w) ==
  /\ WAt(w, "post")
  /\ LET s == job[w] IN
       IF s \in subtask_results
       THEN /\ slot' = [slot EXCEPT ![s] = fn[s]]
            /\ semaphore' = [semaphore EXCEPT ![s] = @ + 1]
       ELSE UNCHANGED <<slot, semaphore>>
  /\ WGoto(w, "flag")
  /\ UNCHANGED <<mainVars, subMaps, main_task_id, completed, done, workerOther>>

FlagCompleted(w) ==
  /\ WAt(w, "flag")
  /\ completed' = completed \cup {job[w]}
  /\ WGoto(w, "notify")
  /\ UNCHANGED <<mainVars, subMaps, main_task_id, done, slot, semaphore, workerOther>>

NotifyDependents_Lost(w) ==
  /\ WAt(w, "notify")
  /\ WGoto(w, "find_main")
  /\ UNCHANGED <<taskVars, workerOther>>

NotifyDependents(w) ==
  /\ WAt(w, "notify")
  /\ done' = done \cup {job[w]}
  /\ WGoto(w, "find_main")
  /\ UNCHANGED <<mainVars, subMaps, main_task_id, completed, slot, semaphore, workerOther>>

FindMainTask(w) ==
  /\ WAt(w, "find_main")
  /\ IF main_task_id[job[w]] \in main_tasks THEN WGoto(w, "count") ELSE WReturn(w)
  /\ UNCHANGED <<taskVars, workerOther>>

LastCompleted_TooEarly(m) == completed_count[m] + 2 >= SubtaskSize[m]
LastCompleted_TooLate(m)  == completed_count[m] = SubtaskSize[m]
LastCompleted(m) == completed_count[m] + 1 = SubtaskSize[m]

CountCompleted(w) ==
  /\ WAt(w, "count")
  /\ LET m == main_task_id[job[w]] IN
       /\ completed_count' = [completed_count EXCEPT ![m] = @ + 1]
       /\ IF LastCompleted(m) THEN WGoto(w, "erase_main") ELSE WReturn(w)
  /\ UNCHANGED <<mainMaps, ready_count, subVars, workerOther>>

EraseMainTask(w) ==
  /\ WAt(w, "erase_main")
  /\ main_tasks' = main_tasks \ {main_task_id[job[w]]}
  /\ WGoto(w, "erase_members")
  /\ UNCHANGED <<main_task_name_to_id, waiting_maintasks, main_to_subtasks, counts, subVars,
                 workerOther>>

EraseMembers(w) ==
  /\ WAt(w, "erase_members")
  /\ main_to_subtasks' = [main_to_subtasks EXCEPT ![main_task_id[job[w]]] = <<>>]
  /\ WReturn(w)
  /\ UNCHANGED <<main_task_name_to_id, main_tasks, waiting_maintasks, counts, subVars, workerOther>>

\* Worker w locks a mutex of the dispatcher in its next step.
AboutToLock(w) ==
  \/ wpc[w] \in {"find", "dep_task", "post", "find_main", "erase_main", "erase_members"}
  \/ wpc[w] = "deps" /\ dep[w] <= Len(Dependencies[job[w]])

\* Locking a mutex that the destructor has destroyed.
UseDestroyed(w) ==
  /\ process = "alive" /\ destroyed
  /\ AboutToLock(w)
  /\ Undefined
  /\ UNCHANGED <<taskVars, queueVars, clientVars, outcome, workerVars, loopVars, destroyed, stopped,
                 histVars>>

-----------------------------------------------------------------------------
(* The event loop thread: the loop of start(), hasPendingWork and EventLooper. *)

LAt(l)    == process = "alive" /\ lpc = l
loopOther == <<taskVars, clientVars, outcome, workerVars, is_running, joinable, exitVars, histVars>>

TestRunning ==
  /\ LAt("test")
  /\ lpc' = IF is_running THEN "lock" ELSE "pending_ready"
  /\ UNCHANGED <<pri, queueVars, loopOther>>

PendingReady ==
  /\ LAt("pending_ready") /\ ready_mutex = None
  /\ lpc' = IF \E p \in Priorities : ready_subtasks[p] # <<>> THEN "lock" ELSE "pending_waiting"
  /\ UNCHANGED <<pri, queueVars, loopOther>>

PendingWaiting ==
  /\ LAt("pending_waiting")
  /\ lpc' = IF waiting_maintasks # {} THEN "lock" ELSE "pending_subs"
  /\ UNCHANGED <<pri, queueVars, loopOther>>

NoSubTaskPending_NotAsked == TRUE
NoSubTaskPending == sub_tasks \subseteq completed

PendingSubTasks ==
  /\ LAt("pending_subs")
  /\ lpc' = IF NoSubTaskPending THEN "exited" ELSE "lock"
  /\ UNCHANGED <<pri, queueVars, loopOther>>

LoopLock ==
  /\ LAt("lock") /\ ready_mutex = None
  /\ ready_mutex' = "loop"
  /\ lpc' = "dispatch"
  /\ UNCHANGED <<pri, ready_subtasks, ring, loopOther>>

ScanIsAt_Ascending(p) == /\ p <= pri /\ ready_subtasks[p] # <<>>
                         /\ \A q \in Priorities : q < p => ready_subtasks[q] = <<>>
\* The descending scan, now at pri, stops next at queue p.
ScanIsAt(p) == /\ p <= pri /\ ready_subtasks[p] # <<>>
               /\ \A q \in Priorities : p < q /\ q <= pri => ready_subtasks[q] = <<>>

\* enqueue blocks on a full ring with ready_mutex held.
RingHasRoom_OffByOne == Len(ring) <= PoolSize
RingHasRoom == Len(ring) < PoolSize

Dispatch(p) ==
  /\ LAt("dispatch") /\ ScanIsAt(p)
  /\ RingHasRoom
  /\ pri' = p
  /\ ring' = Append(ring, Head(ready_subtasks[p]))
  /\ ready_subtasks' = [ready_subtasks EXCEPT ![p] = Tail(@)]
  /\ UNCHANGED <<ready_mutex, lpc, loopOther>>

LoopUnlock ==
  /\ LAt("dispatch") /\ \A q \in Priorities : q <= pri => ready_subtasks[q] = <<>>
  /\ ready_mutex' = None
  /\ lpc' = "test" /\ pri' = HIGHEST
  /\ UNCHANGED <<ready_subtasks, ring, loopOther>>

-----------------------------------------------------------------------------
ClientStep(c) ==
  \/ \E m \in MainTasks : AddMainTask(c, m)
  \/ EnterWaiting(c) \/ InsertMain(c)
  \/ \E s \in SubTasks : AddSubTask(c, s)
  \/ NameSubTask(c) \/ InsertSubTask(c) \/ AppendMember(c) \/ EmplaceSlot(c) \/ FetchMain(c)
  \/ CountReady(c) \/ LockReady(c) \/ PushMembers(c) \/ LeaveWaiting(c)
  \/ \E f \in Fetches : GetSubTaskResult(c, f)
  \/ FindSlot(c) \/ WaitSlot(c) \/ TakeResult(c) \/ EraseName(c) \/ EraseSubTask(c)
  \/ (\E k \in Starts : Start(c, k)) \/ LaunchLoop(c)
  \/ \E k \in Stops \cup Exits : Stop(c, k)
  \/ TestJoinable(c) \/ EnterJoin(c) \/ Join(c) \/ DestroyMutexes(c) \/ StopPool(c) \/ JoinPool(c)

WorkerStep(w) ==
  \/ Pop(w) \/ LeavePool(w) \/ FindSubTask(w)
  \/ LookupDependency(w) \/ FindDependency(w) \/ AwaitDependency(w)
  \/ StartFunction(w) \/ FinishFunction(w) \/ PostResult(w) \/ FlagCompleted(w)
  \/ NotifyDependents(w) \/ FindMainTask(w) \/ CountCompleted(w)
  \/ EraseMainTask(w) \/ EraseMembers(w) \/ UseDestroyed(w)

LoopStep ==
  \/ TestRunning \/ PendingReady \/ PendingWaiting \/ PendingSubTasks
  \/ LoopLock \/ (\E p \in Priorities : Dispatch(p)) \/ LoopUnlock

\* A result is posted once: of several fetches of one subtask that have found its slot, one
\* returns and the others wait for ever.
Outrun(k) == /\ k \in Fetches
             /\ \E f \in Fetches \ {k} : FetchName[f] = FetchName[k] /\ outcome[f] \in Slots

\* Every call that can return has, and no thread of the scheduler has work, or the process is gone.
Settled == \/ process # "alive"
           \/ /\ (\A k \in Calls : Returned(k) \/ Outrun(k)) \/ (\E x \in Exits : Returned(x))
              /\ lpc \in {"none", "exited"} /\ ring = <<>>
              /\ \A w \in Workers : wpc[w] \in {"idle", "exited"}
Rest    == Settled /\ UNCHANGED vars

Next == \/ \E c \in Clients : ClientStep(c)
        \/ \E w \in Workers : WorkerStep(w)
        \/ LoopStep
        \/ Rest

Spec == Init /\ [][Next]_vars

\* A thread that can take a step takes it in the end, and user functions end.  A client waiting
\* for ready_mutex is not starved by the loop, which sleeps 1 ms between two holdings of it.
Fairness == /\ \A c \in Clients : WF_vars(ClientStep(c)) /\ SF_vars(LockReady(c))
            /\ \A w \in Workers : WF_vars(WorkerStep(w))
            /\ WF_vars(LoopStep)
FairSpec == Spec /\ Fairness
-----------------------------------------------------------------------------
(* Properties. *)

Accepted(s)     == outcome[s] = "done"
\* s names d among its dependencies.
DependsOn(s, d) == \E i \in DOMAIN Dependencies[s] : Dependencies[s][i] = SubName[d]
Siblings(s)     == {t \in SubTasks : MainTaskName[t] = MainTaskName[s]}
Finished(s)     == fn[s] # "none"
\* The dependencies s can count on: in its own main task, or submitted before s.
Relied(s)       == {d \in SubTasks : DependsOn(s, d) /\ d \in Siblings(s) \cup After[s]}

\* No function starts before the functions of its dependencies have ended (lines 38-65), although
\* names are registered, looked up and erased by getSubTaskResult in between.
DependenciesFirst ==
  \A s \in SubTasks : started[s] > 0 => \A d \in Relied(s) : Accepted(d) => Finished(d)

\* The places a subtask can be in between its release and the end of its closure.
InReadyAt(s, p) == {i \in DOMAIN ready_subtasks[p] : ready_subtasks[p][i] = s}
InReady(s)  == \E p \in Priorities : InReadyAt(s, p) # {}
InRing(s)   == {i \in DOMAIN ring : ring[i] = s}
AtWorker(s) == {w \in Workers : job[w] = s}
Copies(s)   == Cardinality(UNION {{p} \X InReadyAt(s, p) : p \in Priorities})
                 + Cardinality(InRing(s)) + Cardinality(AtWorker(s))
                 + (IF Finished(s) /\ AtWorker(s) = {} THEN 1 ELSE 0)

\* A subtask is never in two places, and once its main task is complete it is in one: nothing is
\* lost or run twice between addSubTask (line 313), EventLooper (lines 177-183) and the pool.
NoneLost == \A s \in SubTasks :
              /\ Copies(s) <= 1
              /\ (\A t \in Siblings(s) : Accepted(t)) => Copies(s) = 1

\* What a thread looks up is there: the main task in addSubTask (line 304), the subtask and its
\* result slot in the closure (lines 32, 81) and the main task it counts for (line 101).
NothingMissing ==
  /\ \A c \in Clients : cpc[c] = "as_main" => main_task_id[call[c]] \in main_tasks
  /\ \A w \in Workers :
       /\ wpc[w] = "find" => job[w] \in sub_tasks
       /\ wpc[w] = "post" => job[w] \in subtask_results
       /\ wpc[w] = "find_main" => main_task_id[job[w]] \in main_tasks

\* A result is moved out of its slot once, by the fetch that waited for it, as the function
\* produced it (lines 228-237).
ResultsIntact ==
  \A f \in Fetches : outcome[f] \in Slots =>
    \E s \in SubTasks : /\ SubName[s] = FetchName[f] /\ outcome[f] = fn[s]
                        /\ \A g \in Fetches \ {f} :
                             outcome[g] \in Slots => FetchName[g] # SubName[s]

\* The workers do not all wait for dependencies that have not ended (lines 59-63): then the ring
\* would fill up and nothing would move again, while the loop holds ready_mutex in enqueue.
NotAllBlocked == \E w \in Workers : wpc[w] = "await" => DependencyDone(w)

\* Subtasks of a main task are dispatched in the order of their submission (lines 311-314).
DispatchedInOrder ==
  \A s \in SubTasks : ~InReady(s) /\ Copies(s) = 1 =>
    \A t \in Siblings(s) \cap After[s] : ~InReady(t)

\* A subtask enters the pool only when no subtask of a higher priority is ready (lines 173-184).
HigherFirst ==
  [][\A s \in SubTasks : InRing(s) = {} /\ InRing(s)' # {} =>
       \A p \in Priorities : p > Priority[main_task_id[s]] => ready_subtasks'[p] = <<>>]_vars

\* Stop waits until what was submitted before it has run (lines 125, 131-167, 322-327), when the
\* loop has been started and no other Stop came in between: hasPendingWork looks at three
\* containers one after the other while subtasks move between them.
DrainedWhenStopped ==
  \A k \in Stops \cup Exits : \A s \in After[k] \cap SubTasks :
    /\ outcome[k] = "done" /\ Accepted(s)
    /\ \E j \in After[k] \cap Starts :
         \A i \in (Stops \cup Exits) \ {k} : i \in After[j] \/ s \in After[i]
    => Finished(s)

\* The loop has not left before the pool has taken what is in its ring (line 125): ~ThreadPool
\* never meets the full ring that RingQueue::IsEmpty takes for an empty one.
RingEmptyWhenStopped == stopped => ring = <<>>

\* When every result has been fetched and the pool is idle, no map keeps an entry of a task, but
\* for the names of main tasks (lines 106-117, 232-249).
CleanWhenQuiet ==
  (/\ \A k \in Calls : Returned(k)
   /\ \A s \in SubTasks : Accepted(s) => Finished(s)
   /\ \A s \in SubTasks : Accepted(s) => \E f \in Fetches :
        FetchName[f] = SubName[s] /\ outcome[f] \in Slots
   /\ \A w \in Workers : wpc[w] \in {"idle", "exited"})
  => /\ main_tasks = {} /\ waiting_maintasks = {}
     /\ \A m \in MainTasks : main_to_subtasks[m] = <<>>
     /\ sub_tasks = {} /\ subtask_results = {}
     /\ \A n \in SubNames : sub_task_name_to_id[n] = None

\* Every call returns, unless the behaviour becomes undefined: no client waits for ever for a
\* result (line 228), for ready_mutex (line 310) or for the loop (line 326).  Only a fetch may stay,
\* and only when another fetch has got the result: one of them always does, whichever steps of the
\* two meet between the slot's lookup and its erasure (lines 217-249).
EveryCallReturns == \A k \in Calls : <>(Returned(k) \/ Outrun(k) \/ process # "alive")

\* The dispatcher implements TaskGraph.
Graph == INSTANCE TaskGraph WITH
  Group    <- [s \in SubTasks |-> Siblings(s)],
  Before   <- [s \in SubTasks |-> Relied(s)],
  Asked    <- [f \in Fetches |-> CHOOSE s \in SubTasks : SubName[s] = FetchName[f]],
  accepted <- {s \in SubTasks : Accepted(s)},
  stage    <- [s \in SubTasks |-> IF Finished(s) THEN fn[s]
                                  ELSE IF started[s] > 0 THEN "running" ELSE "waiting"],
  answer   <- [f \in Fetches |-> IF outcome[f] \in Slots THEN outcome[f] ELSE "none"]
\* Every step of the dispatcher is a step of the task graph or leaves it unchanged.
ImplementsTaskGraph == Graph!Spec

\* The dispatcher and its pool make of the ring what RingQueue implements: the loop enqueues only
\* while there is room and never once ~ThreadPool has stopped the queue (lines 178, 322-327,
\* 350-359), and workers take what they run in that order, one at a time.
FIFO == INSTANCE BoundedFIFO WITH
  Items <- SubTasks, Consumers <- Workers, Capacity <- PoolSize,
  queue <- ring, closed <- stopped, hand <- job
PoolIsFIFO == FIFO!Spec

(* What the documentation says and the code does not keep. *)

\* README.md:76 "wait until all dependencies are complete": in any main task, submitted or not.
WaitsForAllDependencies ==
  \A s, d \in SubTasks : started[s] > 0 /\ DependsOn(s, d) => Finished(d)

\* README.md:197 the completion event "solves the starvation of several dependents at the root".
DependentsDoNotStarve ==
  \A s \in SubTasks :
    (\A t \in Siblings(s) : Accepted(t)) ~> (Finished(s) \/ process # "alive")

\* README.md:95 Stop and the end of the loop make the "exit safe".
ExitIsSafe == (\E x \in Exits : outcome[x] # "unissued") => process # "undefined"

\* README.md:90-91 main_to_subtasks is "protected by a mutex" (line 311 takes none of its own).
MembersProtected ==
  \A c \in Clients : process = "alive" /\ cpc[c] = "as_push" => ~MembersBeingWritten(c)
=============================================================================
