# Verification of the dependency-aware task scheduler

TLA+ models of the scheduler in `src/`, the TLC configurations that check them
and the proofs that TLAPS checks. The reference of every definition is the C++
code; PROJECT.json maps each definition to the lines it models.

## 1. The system

A program submits *main tasks* (a name, a priority, a number of subtasks) and
*subtasks* (a name, the name of a main task, the names of dependencies, a
function) to the singleton `EventDispatcher<PoolSize>`. When the last subtask of
a main task is submitted, all of them become ready; an event-loop thread hands
ready subtasks, highest priority first, to a pool of threads; a pool thread
waits for the dependencies of its subtask, runs the function and posts the
result, which the program fetches by name.

### Components

| component (source) | state | operations | who calls it |
|---|---|---|---|
| submission (`EventDispatcher.hpp` 186-202, 270-321) | `main_task_name_to_id`, `main_tasks`, `main_to_subtasks`, `waiting_maintasks`, `sub_task_name_to_id`, `sub_tasks`, `subtask_results`, `ready_subtasks`, `MainTask::ready_subtasks` | `addMainTask`, `addSubTask` | client threads |
| closure of a subtask (25-119) | `SubTask::completed`, `completion`, the slot's result, error and semaphore, `MainTask::completed_subtasks` | `wrapSubTask` | pool threads |
| event loop (120-185) | `is_running`, `event_loop_thread`, `ready_subtasks` under `ready_mutex` | `start`, `hasPendingWork`, `EventLooper` | the loop thread |
| results (204-269) | `subtask_results`, names, `sub_tasks` | `getSubTaskResult(As)` | client threads |
| end (322-359) | the thread, the mutexes, the pool | `Stop`, `~EventDispatcher` | a client; process exit |
| task data (`Task.hpp`) | fields of the three structures | constructors, moves | the dispatcher |
| completion event (`Task.hpp` 48-52, `ConditionVariable.hpp`, `UniqueLock.hpp`) | `done`, waiter count, semaphore | `wait`, `notify_all`, `notify_one` | pool threads |
| `RingQueue.hpp` | slots, head, tail, two semaphores, two mutexes, stop flag | `emplace`, `pop`, `Stop` | loop thread; pool threads; `~ThreadPool` |
| `ThreadPool.hpp` | workers, the ring | constructor, `enqueue`, destructor | dispatcher |
| `thread.hpp` | handle, joined, detached | construct, assign, `join`, `detach`, `swap` | dispatcher, pool |
| `IDAllocator.hpp` | recycled, used, next id | `allocate`, `deallocate`, batches, `reset` | dispatcher |
| `Mutex.hpp`, `LockGuard.hpp` | a semaphore, a flag | `lock`, `try_lock`, `unlock` | all |
| tests, benchmark, sample | | clients of the above | |

### How they interact

Everything is shared memory. Each map has a mutex of its own, so a call is a
sequence of short critical sections between which anything may happen; only two
locks are held across something else: `ready_mutex`, which the loop holds while
`enqueue` may block on a full ring, and which the client that completes a main
task holds while it takes `waiting_maintasks_mutex`. Blocking waits: a worker on the
completion event of a dependency, a worker on an empty ring, the loop on a full
ring, a client on the semaphore of a result, a client on `ready_mutex`, and
`Stop` on the loop thread.

### What is hard, and what must hold

* Names and tasks are looked up and erased by different threads in separate
  critical sections: dependencies must still be respected (`DependenciesFirst`)
  and nothing be looked up that has gone (`NothingMissing`).
* Counting and appending are separate: every subtask must be released exactly
  once (`NoneLost`), in the order of submission (`DispatchedInOrder`).
* Workers wait inside pool threads: the pool must not be full of waiters
  (`NotAllBlocked`), and all calls return (`EveryCallReturns`).
* `hasPendingWork` looks at three containers one after the other: `Stop` must
  drain (`DrainedWhenStopped`, `RingEmptyWhenStopped`), and the destructor must join the loop
  before it stops the queue into which the loop enqueues (`PoolIsFIFO`).
* Cleaning is split between the last worker and the fetching client:
  nothing stays behind (`CleanWhenQuiet`), results are handed over once and
  intact (`ResultsIntact`).
* Priorities: nothing enters the pool before something of a higher priority
  that is ready (`HigherFirst`).
* Producers and consumers of the ring hold different mutexes and meet only through two
  semaphores, to which `Stop` posts without a slot being free or taken: slots must not be
  written and read at once (`SlotsExclusive`), order and capacity be kept
  (`ImplementsFIFO`), everybody blocked get out (`ClientsReleased`, `EnqueueEnds`, `DestructorReturns`,
  `AcceptedRuns`), and what was accepted be run (`AllOrNone`).
* The destructor of the pool joins its workers, not the clients inside `enqueue`: a call may find the
  queue destroyed (`UseDestroyed` in the model).
* A condition variable made of a counter and a semaphore must lose no wake-up
  (`NoLostWakeup`), a mutex that waits release and retake must still exclude
  (`MutualExclusion`), and everybody must get past the event (`ImplementsEvent`).
* Ids are recycled, given back twice, allocated in batches, reset, and `next_id` overflows: no id in
  use may be issued again (`Accounted`, `NextIsFree`, `BatchIntact`).
* `Thread` keeps handle and flags after `join` and `detach`, and handles are reused: every
  thread needs exactly one object that can join it (`OneOwner`), no joinable object may
  name a thread that has gone (`HandlesValid`), and a function must live as long as it runs
  (`FunctionKept`, `TaskSaved`).

## 2. The modules

`EventDispatcher.tla` is the dispatcher as the code has it: one variable per map,
counter, flag and queue, named as in the source; for each client, worker and the
loop a control variable (`cpc`, `wpc`, `lpc`) that says which critical section
comes next. A step is one critical section; a name in the control is the name of
the section (`as_*` for `addSubTask`, `am_*` for `addMainTask`, `gr_*` for
`getSubTaskResult`). Points that are not obvious:

* *Ids.* A call that submits a task is the identity of the task, since the
  dispatcher never gives an id back (`deallocate` is never called). The maps go from names to
  these identities, so a name that is unknown, erased or registered again behaves as in the code.
* *The program that uses the dispatcher* is in the constants: the calls it makes and,
  for each call, the calls that have returned before it is made (`After`). Any free
  client may make any call that is due; calls not ordered by `After` run in any order and
  concurrently.
* *Counters.* `++ready_subtasks == subtask_size` (line 306) and its counterpart at
  line 107 are one atomic step each, as they are on `std::atomic`.
* *The data race at line 311.* While another thread modifies `main_to_subtasks`,
  the read gives the list or the behaviour is undefined: both are allowed, and after undefined
  behaviour nothing is claimed (`process = "undefined"`).
* *Undefined and fatal behaviour* that the model has: `end()` dereferenced at line 304
  (`FetchMain`), a thread joined by two `Stop` at once (`Join`), a mutex used after its
  destruction (`UseDestroyed`), a `Thread` assigned while joinable (`LaunchLoop`, the process
  terminates). `Stop` tests `joinable`, `Thread::join` tests it again and throws when another
  `Stop` was faster (`TestJoinable`, `EnterJoin`).
* *The ring* is a sequence of at most `PoolSize` subtasks, with the emptiness
  test of the code (`RingIsEmpty`: head = tail, also true when the ring is full). That loop, workers
  and destructor use it as a bounded FIFO is `PoolIsFIFO`, a refinement of `BoundedFIFO` with `queue <- ring`,
  `closed <- stopped` and `hand <- job`: the abstraction that `RingQueue` implements.
* *The scan of the loop.* `pri` is the queue that `EventLooper` is at (line 174), under `ready_mutex`:
  `Dispatch` takes from the first queue from there down that is not empty (`ScanIsAt`), and the loop releases
  the mutex when it has found them all empty. A queue above `pri` is not looked at again in this
  round, so that nothing may be pushed there is a matter of the mutex, not of the model.
* *`LaunchLoop`* creates the loop thread and moves the new `Thread` into `event_loop_thread` in one step (line 123).
  The moment between the two is not a state of the model: a `Stop` of another client would find nothing to join then, as
  it does in the model just before the step. No property is about that moment; `Thread.tla` has the two apart.
* *`SubTask::completed`* is a plain `bool` read without a common lock (lines 91, 159).
  A late read only makes the loop go round once more, so it is a set that a step of
  its own changes.
* *User functions* end, with a value or, for the subtasks in `Throwing`, an exception.

`TaskGraph.tla` is what the scheduler promises its users: subtasks are accepted; a
subtask begins once, when its whole main task has been accepted and its dependencies have ended, and
ends once; a result is answered once, as it was produced. `EventDispatcher` refines it:
`accepted` are the `addSubTask` calls that succeeded, `stage` is read off the history
variables `started` and `fn`, `answer` off the outcome of `getSubTaskResult`.
The dependencies the promise is about are those `Relied` names: in the same main task, or
submitted before. The run `cross` shows that others are not waited for.

`RingQueue.tla` is the queue of the pool, one step per semaphore operation and one per
critical section; the sections that access a slot are two steps, entered with the mutex taken
(`TestStop`, `TestEmpty`) and left with it released (`Store`, `Take`), so
that the overlap of a write and a read is a state. `pc` says where a thread is in
`emplace` (`put_*`), `pop` (`take_*`) or `Stop` (`stop_*`); a call that has returned is at
`"true"` or `"false"` until its caller goes on (`Resume`). `content` (the items stored and not yet
taken) and `posted` (the rounds of `Stop` begun) are history variables. `BoundedFIFO.tla` is
what the queue promises; `RingQueue` refines it with `queue <- content`, `closed <- stop`,
`hand <- item` of the consumers, and content is tied to the slots by what `Take` reads.

`ThreadPool.tla` EXTENDS `RingQueue` and composes it with the pool: every action of the pool is
an action of the ring, with the pool's variables beside it, or leaves the ring alone. The
constructor starts the workers one at a time (they may pop before it ends), `Enqueue` and `EnqueueReturns`
are the call and its end, `RunTask` runs the `packaged_task` a worker has popped, and `Destroy`,
`StopReturns`, `JoinWorker`, `Destroyed` are the destructor. With `Destroyed` the queue goes, its semaphores (`~RingQueue`),
mutexes and slots: no step of the queue is taken any more (`QueueLives`), and a client that is still
inside `emplace` meets undefined behaviour (`UseDestroyed`, `phase = "undefined"`), as in the dispatcher. `future` is what the
caller holds: a task may be fulfilled before `enqueue` has returned. `Rest` lets the model stutter only
when the pool is gone and no client is inside `enqueue`, or after undefined behaviour: any other standstill is a deadlock for TLC.

`CompletionEvent.tla` is `CompletionEvent` with `Mutex`, `UniqueLock`, `ConditionVariable`
and the loop around `wait`, as wrapSubTask uses them. `lock` and `unlock` are two steps each (the
semaphore, then `is_locked_`); `wait` registers, releases and only then sleeps on the
semaphore. `Triers` call `try_lock`; a notifier in `OneOnly` calls `notify_one`, which no code in the
repository does, the others `notify_all`. `Event.tla` is what it promises, a flag
that everybody passes once it is set; `EventDispatcher` uses that abstraction
(`done`, `AwaitDependency`).

`IDAllocator.tla` has the queue of recycled ids, the set of used ids and `next_id`, an int of the
range `MinInt..MaxInt` that goes round. The batch calls hold the mutex over one step per id. `start`,
where `next_id` began since the last `reset`, is a history variable.

`Thread.tla` has the objects (`m_thread`, `m_task`, `m_joined`, `m_detached`), which of them
exist, and beside them the POSIX threads, whose handles are used again once a thread is gone. One
program uses the objects, one call at a time; `Create` is `pthread_create` and `Save` the rest of the
constructor, because the thread may run and end between them. The moves are written with
`MovedFrom`, what is left in the object moved from. `std::terminate` ends everything (`terminated`).

`MC*.tla` give the constants of the runs, `*_proofs.tla` hold the proofs.

Mutated definitions (`RingHasRoom_OffByOne`, `DependencyDone_NoRetest`, ...) stand before
the definition they alter; each of them makes TLC find the property it is listed for in PROJECT.json
violated, which shows that the property depends on that line of the code.

## 3. What TLC checks

| run | threads | program | distinct states |
|---|---|---|---|
| `pair` | 2 clients, 2 workers | main tasks A (two subtasks, priority 1, the first throws) and B (one subtask, priority 5, depends on the first of A), all three results fetched (that of a2 after that of a1, the other concurrently), a stop, start at any time | 418,378 |
| `lifecycle` | 2 clients, 2 workers | two sessions (start, submit, stop), two stops at once, destruction, a superfluous start, a superfluous subtask | 331,218 |
| `liveness` | 2 clients, 1 worker | a main task A whose two subtasks are submitted at once, then one of a less urgent main task that depends on both, two fetches of its result at once, stop; under fairness | 34,984 |
| `pool` | 2 clients, 2 workers, the owner | a ring of two slots, three tasks (one throws), the destructor at any time after the constructor; under fairness | 135,315 |
| `event` | 3 waiters, 2 notifiers, 1 trier | a `notify_all`, a `notify_one` and a `try_lock` at any time; under fairness | 87,231 |
| `alloc` | 2 clients | every call in any order, ints -2..2, batches of up to two ids (a list with an id twice), resets to 1 and -1 | 62,354 |
| `thread` | the program, 2 threads | every sequence of calls on 3 objects, 2 handles and 2 functions, one of which throws | 20,048 |
| `fan` | 1 client, 2 workers | two dependents, then their root | violation |
| `cross` | 1 client, 2 workers | a dependency submitted after its dependent, in another main task | violation |
| `exit` | 1 client, 2 workers | one subtask, fetched; stop; process exit | violation |
| `race` | 1 client, 1 worker | a worker finishes A while the client submits B | violation |
| `detach` | the program, 2 threads | as `thread` | violation |

*Bounds.* The counters are bounded by the calls of the program, so no further
bound is needed: every state of each program is explored. Two clients are enough for
every pair of critical sections of two calls to interleave; two workers for one
worker to wait while the other runs, and for a ring (of two slots) that is full
when three subtasks are ready; two main tasks for priorities, for dependencies across, and for
one to be erased while the other is submitted. `liveness` has one worker because
that is where waiting in the pool is most dangerous: one waiter blocks it.
The workers and clients are symmetric in the safety runs.
In `pool` the three tasks of two clients are one more than the ring has slots: a client blocks on the full
ring, another announces its item out of order, and `Stop` finds the ring empty, half full
and full. In `event` three waiters are at three places between registering and sleeping when a
notification comes. In `alloc` five ints let `next_id` go round with ids still recycled or in use, and
all of them be in use. In `thread` two handles and three objects let a handle be reused while an object that was joined
or detached still has it, and a third one hold another thread. `thread` and `detach` do not check
deadlock, because `std::terminate` really stops the process.

*What the passing runs say.* `pair`: all safety properties, over all interleavings
of submission, dispatch, execution, fetching and stopping; there the subtasks of one main task are submitted one after the
other, each result is fetched once, and the program stops when it has submitted everything. `liveness` has two
clients that append and count for one main task at once (`NoneLost`) and two fetches that wait for one
result (`ResultsIntact`: one of them gets it); `lifecycle` has clients that submit while another stops.
`lifecycle`: `Stop` drains also after a restart and with a subtask too many (with which it may also hang:
`DrainedWhenStopped` says only that it does not return too early), and `~ThreadPool` never meets a ring with tasks in it, so the
wrong answer of `RingQueue::IsEmpty` on a full ring does no harm; nothing is enqueued once the queue is stopped. `liveness`: when subtasks are
submitted in an order that respects their dependencies, every call returns, except that of two
concurrent fetches of one result one gets it, and the other may wait for ever (`Outrun`: the result is posted
once and nobody posts again). `pool`: the ring is a bounded FIFO in every interleaving, accepted tasks run, the
destructor returns, and so does `enqueue` unless it meets the destruction of the queue (it can: the run takes
`UseDestroyed`, and with `phase = "undefined"` not allowed in `EnqueueEnds` it would fail; but when the joins begin
a slot is there for it, `ClientsReleased`); and when `Stop` finds the ring full, all tasks in it are dropped, which is the
second disjunct of `AllOrNone` (with that disjunct taken away, TLC finds the state). `event`: no
wake-up is lost and everybody passes. `alloc`: no id in use is issued again until every int is in use.
`thread`: every thread that is not detached has exactly one owner and keeps its function.

*Fairness.* `FairSpec` has weak fairness of each thread's steps: the threads are
preemptive threads of the operating system, and user functions are assumed to end. It
has strong fairness of the step that takes `ready_mutex` in `addSubTask`: the loop
releases it and sleeps 1 ms in each round (line 126), so a client waiting on the semaphore under
`Mutex` gets it in the end. `ThreadPool.FairSpec` has weak fairness of each client inside `enqueue`, of each
worker and of the owner inside constructor and destructor; nobody has to call `enqueue` or to destroy the pool. A
thread that waits on a semaphore competes with a bounded number of others there, so weak fairness is
enough. `CompletionEvent.FairSpec` has weak fairness of each thread, for the same reason: each of them takes the mutex
a bounded number of times.

*What the violations say* (PROJECT.json, `findings`):

* `fan`: dependents submitted before their root can occupy every worker; the
  root then never runs. README.md:197 of the sources says completion events solve the starvation of
  dependents. The passing runs submit dependencies first.
* `cross`: a name not yet registered is skipped (line 44-45), so a dependency
  in another main task that is submitted later is not waited for (README.md:76).
* `exit`: the mutexes are destroyed before the pool is joined (lines 350-359);
  `Stop` only waits for `completed`, which is set before the closure's last locks (README.md:95).
* `race`: line 311 reads `main_to_subtasks` without its mutex (README.md:90-91).
* `detach`: a `Thread` that is detached and destroyed drops the only reference to the function object its
  thread still runs (line 107, 72; the comment at thread.hpp:33 says the task is kept). The
  repository itself joins all its threads.

Other places where the documentation and the code differ, without a run:
README.md:98 says no map is cleaned by workers, lines 106-117 erase two of them
(`EraseMainTask`, `EraseMembers`); README.md:191 says `join` zeroes the handle, `thread.hpp` keeps it and sets
`m_joined` (`JoinReturns`); `RingQueue::IsEmpty` says empty for a full ring, which costs a pool that is
stopped with a full ring all the tasks in it (`AllOrNone`); RingQueue.hpp:57 says of the posts of `Stop` that they release all waiting
threads, and `enqueue` throws for the callers they release (ThreadPool.hpp:52), but the destructor of the pool joins the workers
only, so that such a caller may go on in `emplace` with semaphores and mutexes that have been destroyed (`UseDestroyed` of
`ThreadPool`). In the dispatcher this does not happen: the loop is the only caller of `enqueue`, and its
destructor joins the loop first (`PoolIsFIFO`).

## 4. What is proved

`EventDispatcher_proofs.tla`, for all sets of clients, workers, tasks and calls that
satisfy `ConstantsAssumption` (the pool is finite and not empty, names and lists are of their kinds):

* `TypeCorrect == Spec => []TypeOK`. `TypeOK` is not inductive: that a closure
  writes a `value` or `error` into a slot, or that the list of a main task gets a subtask appended, depends on
  what the worker or the client is doing. `TypeInv` adds `ClientShape` (inside
  `addSubTask` the call is a subtask whose main task is known; inside
  `getSubTaskResult` a subtask has been found) and `WorkerShape` (outside `pop` a worker has a
  subtask; before posting its function has ended). One lemma per kind of control step
  (`CGotoInv`, `EnterInv`, `ReturnInv`, `WGotoInv`, `WJobInv`, ...) shows that the
  threads keep their shape; one step per action shows that the maps and queues do.
  That the ring never exceeds its slots is part of it, and rests on the guard of `Dispatch`.
* `PrioritiesRespected == Spec => HigherFirst`. The step that enters a subtask in the
  ring is `Dispatch`, whose scan stops at the highest queue that is not empty; what has to be shown is that
  a subtask is in the queue of its own main task's priority, although its main
  task's id, the list of members and the queues are written in different critical sections. The
  inductive invariant `PriorityInv` says: a subtask has an id of a main task only
  when its call has been made (`IdOfCall`, so the id never changes once others can
  see it), it is listed under that id (`ListedUnderMain`), and it is ready at that main task's priority
  (`ReadyAtPriority`). That nothing is ready above the queue the scan is at is `SweptOK`: the queues above `pri` are
  empty, and stay so because whoever pushes holds `ready_mutex` (`HeldOK`), and the loop has it. `LoopInv` is the three
  together. `TypeInv` and `StepInv` are used as they are.

`EventDispatcherDependencies_proofs.tla`, from the same assumptions:

* `DependenciesRespected == WellFormed => (Spec => []DependenciesFirst)`. `WellFormed` is a condition on
  the program that uses the dispatcher: it gives subtasks different names, and each main task as many subtasks as it
  announced (the constants of `dispatcher_pair`, for one, satisfy it). The inductive
  invariant `DependencyInv` follows a subtask through the maps. `CallsOK`: who makes a call, and what has returned
  before. `NamesOK` and `FetchesOK`: a subtask that has been listed stays so until its function has ended,
  because a fetch erases only after it has passed the semaphore; `NamedOK`: it keeps its name as long, which needs that
  names are different and is therefore apart from `NamesOK`, which holds for every program. `CountsOK`: `ready_count` is the number of subtasks
  that have been counted, so that the one that reaches `subtask_size` has all of them (`LastCounted`: a subset with
  as many elements is the whole set). `ReleasedOK`: what is pushed, queued, in the ring or at a worker has a complete
  main task. `ScanOK`: all relied-on names that the scan has passed belong to functions that have ended; a name
  is passed when it is unknown, when its subtask is not listed, or when its completion is done, and the first two
  mean "ended" because a relied-on dependency is complete or was submitted before (`ReliedKnown`).

`EventDispatcherGraph_proofs.tla`:

* `NeverInTwoPlaces == Spec => [](\A s \in SubTasks : Copies(s) <= 1)`, for every program, also one with equal
  names or too many subtasks: a list is pushed once (`PushOK`), because the count passes `subtask_size` once
  (`FilledOK`: a list that has been pushed had been counted full), and a subtask that has left it is in one place (`PlacesOK`). `OnceInv` is this
  part of the invariant below.
* `TaskGraphImplemented == WellFormed => (Spec => ImplementsTaskGraph)` and
  `ResultsKept == WellFormed => (Spec => []ResultsIntact)`. The return of `addSubTask` maps to `Accept`,
  `StartFunction` to `Begin`, `FinishFunction` to `End`, `TakeResult` to `Answer`, every other step to a stutter. The
  hard one is `Begin`: the function must not have begun before, and all of its siblings must have been accepted. The
  inductive invariant `PlaceInv`, on top of `DependencyInv`, follows where a subtask is. `MembersOK`: it is
  listed once, by its own call. `PushOK`: the list of a main task is pushed by one
  thread and once, and nothing of it is anywhere before. `PlacesOK`: a subtask is in one place
  (a queue, the ring, one worker) until its function has started, and in none of the first two after. `HeldOK` and `SweptOK` are
  those of `PrioritiesRespected`. `AcceptedOK`: what the loop can take has all siblings accepted, because the
  call that pushed the list holds `ready_mutex` until it returns. `ResultOK`: the slot is filled once, its
  semaphore posted once and taken once, and what it holds is what the function produced.
* `NoSubTaskLost == Distinct => (Spec => []NoneLost)`, for programs that give main tasks different names too (two main
  tasks of one name would share the subtasks submitted under it). `PlacesOK` gives one place at most (`CopiesOf`). For
  one at least, `KeptOK` says that a subtask, once appended, is listed until its list has been pushed, and
  kept (queued, in the ring, at a worker, or ended) from then on. Its steps are those where code could lose one:
  the last count always goes on to push (`CompletedBy`, by the same counting as `LastCounted`); the push takes the whole
  list (`PushKeeps`); the list is erased only after its push, because who erases it works on one of its subtasks;
  and a closure returns before its function has run only if its subtask is not known, which `NamesOK` excludes.

`EventDispatcherOrder_proofs.tla`. Three theorems hold for every program, equal names and wrong sizes included:

* `StopDrains == Spec => []DrainedWhenStopped` and `RingTaken == Spec => []RingEmptyWhenStopped`. What makes
  them true is the last test of `hasPendingWork`: the loop leaves only when all listed subtasks have
  completed. `LoopOK`: a thread is joinable exactly while the loop exists; the ring is empty when the loop is not
  there; and the destructor is beyond its join only then. `CoverOK`: when all Stops come before the start `j` or after the submission of
  `s` (`Covers`), the loop goes on until `s` has been submitted, and once it has left after that, `s` has
  ended. `CompletedOK`: a subtask is flagged only after its function has ended.
* `PoolUsedAsFIFO == Spec => PoolIsFIFO`. `Dispatch` maps to `Put`, `Pop` to `Deliver`, the end of a closure to `PutAway`, the
  destructor's stop of the queue to `Close`; that `Put` finds the queue open is `LoopOK`, and one task at a time
  per worker is `WorkerShape`. Together with `RingIsFIFO` it says that the sequence used in this model and the slots, indices and
  semaphores of `RingQueue` behave alike.

The others are for programs that meet a condition:

* `SubmissionOrderKept == WellFormed => (Spec => []DispatchedInOrder)`. `OrderInv` states one
  order for every place a subtask passes: the list of its main task (`ListOrder`), the queues (`QueueOrder`), the ring
  (`RingOrder`), and from place to place (`PlaceOrder`: nothing overtakes). The order is `Ahead(t, s)`: `t` has been
  submitted before `s`, to the same main task or to one that is complete before and of no lower priority (`Above`).
* `PoolNeverStuck == Layered => (Spec => []NotAllBlocked)`. `Layered` says that every dependency is `Ahead` of its dependent; it
  is the condition the run `fan` breaks, and the run `liveness` meets. Suppose all workers wait. By `OrderInv`, of
  their subtasks the one submitted first (`Acyclic`) waits for one that has left the queues before and that no
  worker has: it has ended, and is flagged or about to be (`FlaggedOK`). `KnownOK` and `KeptOK` give
  that what is waited for has been scheduled.
* `NothingIsMissing == Ordered => (Spec => []NothingMissing)`. `Ordered` is `WellFormed`, and main tasks are added before their
  subtasks (without it line 304 dereferences `end()`). `ClosedOK`: `completed_count` is the number of subtasks whose closure has counted, so a
  main task stays until the closures of all its subtasks have, by the counting of `LastCounted`.
* `CleanedUp == Sized => (Spec => []CleanWhenQuiet)`. `Sized` adds to `Ordered` that main tasks have different names and
  announce at least one subtask: one that announces none is never released and stays. `MainsClean`: a main task all of whose
  closures have counted is still there only while a worker is about to erase it, and waits only while a client is about to
  release it. `SubsClean`: a subtask whose result has been taken is there only while the same fetch is about to erase it.

The constants of `pair` satisfy `Sized`, and so `Ordered`, `Distinct` and `WellFormed`; those of `liveness` satisfy `Sized` and `Layered`;
those of `lifecycle`, with a subtask too many, satisfy none of them: only the theorems without a condition speak of that run.

The first part of `ThreadPool_proofs.tla`, for every `Size`, every set of items and any finite numbers of producers, consumers and
callers of `Stop` (`RingAssumption`):

* `RingInvAlways == RingSpec => []Inv`. `Geometry`: `content` is what the slots hold from `head` on,
  the other slots are empty, and `tail` is `head` plus its length, modulo `Size`. `Counting` is the heart of it: `full` plus the
  producers that hold a slot without having filled it, plus the consumers that have emptied one
  without posting, plus the items in the ring, is `Size` plus the posts of `Stop`; and
  likewise for `empty`. `Owners` ties the mutexes to the control. `Inside` says what the
  semaphores guarantee after their posts of `Stop` are added: a producer inside its
  section has a free slot (the flag cannot have been set, since `Stop` takes both locks), and a
  consumer inside its section an item (or it would have found the queue stopped and left). The counts are
  cardinalities of sets of threads; `CountMove` says how one thread's step changes them.
* `RingSlotsExclusive`, `RingTailStable`, and `RingIsFIFO == RingSpec => ImplementsFIFO`: each
  step maps to `Put`, `Deliver`, `PutAway`, `Close` or a stutter.

The second part: `PoolUsesRing == Spec => RingSpec` carries these facts over to the pool
(`PoolSlotsExclusive`); `NothingLostUnlessFull == Spec => []AllOrNone` adds `Leaving` (a worker that
has left saw the queue stopped with `head = tail`, and nobody reads any more),
`Building` (which workers have been started and joined) and `Promises` (a pending task is in the ring or
in the hand of somebody). The types of the pool rest on `Promises`. `ClientsAreReleased == Spec => []ClientsReleased` adds `Posting`
(the rounds of posts `Stop` has made, by how far the destructor has come: none before it, all `Size` once it joins) to
`Counting`: if `full` were 0 with nobody inside or on the way, the ring would have to hold twice its size.

`CompletionEvent_proofs.tla`, for any number of threads: `MutexExcludes`, `NobodyIsForgotten`, `FlagIsCleared` and
`ImplementsSafeEvent`, from `KindsOK` (who can be where), `MutexOK` (the semaphore is 1 exactly when
nobody holds the mutex), `DoneOK` (done is set before the notification and tested under the mutex), `CountOK` (posts and count
together are the registered waiters) and `AllNotified` (after `notify_all` the count stays 0, because later
waiters find `done` set).

`IDAllocator_proofs.tla`, for every range of int and every argument: `AllAccounted`, `NeverIssuedTwice`,
`BatchesIntact`. Recycled ids are distinct, not in use, and with the used ones make up what `next_id` has
passed since `start`, or all ints once it has gone round (`AccountInv`).

`Thread_proofs.tla`, for any number of objects, handles and functions: `EveryThreadOwned`, `JoinableIsThere`,
`FunctionIsKept`. The invariant `OwnerInv` states uniqueness of the owner (`SpeakOnce`) apart from its
existence (`SpeakAll`), that it keeps the function its thread runs (`SpeakKeep`), and what a pending constructor
or join knows (`CallOK`); `MovedSpeakers` shows what a permutation of the objects' members does to it.

All invariants, action properties and refinements that the passing runs check are proved. What is only model-checked is liveness
under fairness (`EveryCallReturns`, `AcceptedRuns`, `DestructorReturns`, `EnqueueEnds`, the fair part of `ImplementsEvent`): it and ENABLED are
out of the prover's reach. The conditions on the program (`WellFormed` and those that add to it) are hypotheses of theorems; TLC checks the properties
for the programs of the runs only.

## 5. Plan

1. Further runs of `EventDispatcher`: a name used again after its result was fetched, too few subtasks.
2. Weaker hypotheses: `ResultsKept` without exact sizes.

## 6. What is not modelled

Memory (shared pointers of the dispatcher, rehashing), the any-casts of `getSubTaskResultAs` and the types of futures,
failures of `sem_*` and of `pthread_create`, the data race on `Mutex::is_locked_` as such (its writes are atomic
steps in the model; nothing in the repository reads the flag but `is_locked`), `get_id`, `yield` and `sleep_for`
of `Thread`, task functions that never end, and the tests, benchmark and sample, which are clients of
the scheduler.
