----------------------------- MODULE ThreadPool ------------------------------
(***************************************************************************)
(* ThreadPool.hpp over RingQueue: the constructor starts the workers one   *)
(* by one, clients enqueue tasks, and the destructor stops the queue and   *)
(* joins the workers.  A worker is a consumer of the queue, the thread     *)
(* that owns the pool its only stopper.  The destructor may begin while    *)
(* calls of enqueue are under way, no call begins after it.  The code      *)
(* refuses those calls by throwing, but it joins the workers only: a       *)
(* caller may find the queue destroyed, and then the behaviour is          *)
(* undefined.                                                              *)
(***************************************************************************)
EXTENDS RingQueue

CONSTANTS
  Owner,       \* the thread that has the pool
  Calls,       \* Calls[p]: the tasks client p enqueues, in this order
  Throwing     \* the tasks that throw

ASSUME PoolAssumption == /\ Stoppers = {Owner} /\ Throwing \subseteq Items
                         /\ Calls \in [Producers -> Seq(Items)]

VARIABLES
  phase,       \* of the pool: its constructor, its life, its destructor; or undefined behaviour
  workers,     \* the vector of threads
  joined,      \* how many of them the destructor has joined
  future       \* of each task: no call, a pending call, refused, or how the task ended

poolVars == <<phase, workers, joined, future>>
vars     == <<ringVars, poolVars>>

Phases  == {"building", "open", "stopping", "joining", "gone", "undefined"}
Futures == {"none", "called", "pending", "refused", "value", "error"}
TypeOK  == /\ RingTypeOK
           /\ phase \in Phases /\ workers \in Seq(Consumers) /\ joined \in 0..Len(workers)
           /\ future \in [Items -> Futures]

Init == /\ RingInit
        /\ phase = "building" /\ workers = <<>> /\ joined = 0
        /\ future = [x \in Items |-> "none"]

Started(w) == \E i \in DOMAIN workers : workers[i] = w

StartWorker(w) ==
  /\ phase = "building" /\ Len(workers) < Size /\ ~Started(w)
  /\ workers' = Append(workers, w)
  /\ UNCHANGED <<ringVars, phase, joined, future>>

Constructed ==
  /\ phase = "building" /\ Len(workers) = Size
  /\ phase' = "open"
  /\ UNCHANGED <<ringVars, workers, joined, future>>

(* enqueue *)

Enqueue(p, i) ==
  /\ phase = "open" /\ future[Calls[p][i]] = "none"
  /\ \A j \in 1..(i - 1) : future[Calls[p][j]] # "none"
  /\ Emplace(p, Calls[p][i])
  /\ future' = [future EXCEPT ![Calls[p][i]] = "called"]
  /\ UNCHANGED <<phase, workers, joined>>

\* The call returns a future, which the task may have fulfilled by then, or throws.
EnqueueReturns(p) ==
  /\ phase # "undefined"
  /\ Resume(p)
  /\ LET x == item[p] IN
       future' = [future EXCEPT ![x] = IF At(p, "false") THEN "refused"
                                       ELSE IF @ = "called" THEN "pending" ELSE @]
  /\ UNCHANGED <<phase, workers, joined>>

(* The loop of a worker. *)

PopNext(w) ==
  /\ Started(w)
  /\ Pop(w)
  /\ UNCHANGED poolVars

\* The task has run, its packaged_task has kept what it threw; the worker pops again.
RunTask(w) ==
  /\ At(w, "true")
  /\ future' = [future EXCEPT ![item[w]] = IF item[w] \in Throwing THEN "error" ELSE "value"]
  /\ Resume(w)
  /\ UNCHANGED <<phase, workers, joined>>

Exited(w) == At(w, "false")        \* pop has answered false: the loop ends, and the thread

(* ~ThreadPool *)

Destroy ==
  /\ phase = "open"
  /\ Stop(Owner)
  /\ phase' = "stopping"
  /\ UNCHANGED <<workers, joined, future>>

StopReturns ==
  /\ phase = "stopping" /\ At(Owner, "true")
  /\ phase' = "joining"
  /\ UNCHANGED <<ringVars, workers, joined, future>>

JoinWorker ==
  /\ phase = "joining" /\ joined < Len(workers)
  /\ Exited(workers[joined + 1])
  /\ joined' = joined + 1
  /\ UNCHANGED <<ringVars, phase, workers, future>>

\* The members are destroyed, the queue first: ~RingQueue destroys the semaphores, then the mutexes
\* and the slots go.
Destroyed ==
  /\ phase = "joining" /\ joined = Len(workers)
  /\ phase' = "gone"
  /\ UNCHANGED <<ringVars, workers, joined, future>>

\* Client p waits in emplace, or goes on there, with what ~RingQueue has destroyed.
UseDestroyed(p) ==
  /\ phase = "gone"
  /\ InEmplace(p)
  /\ phase' = "undefined"
  /\ UNCHANGED <<ringVars, workers, joined, future>>

-----------------------------------------------------------------------------
QueueLives == phase \notin {"gone", "undefined"}
Client(p) == \/ EnqueueReturns(p) \/ UseDestroyed(p)
             \/ QueueLives /\ EmplaceStep(p) /\ UNCHANGED poolVars
Worker(w) == PopNext(w) \/ RunTask(w) \/ (PopStep(w) /\ UNCHANGED poolVars)
OwnerStep == \/ (\E w \in Consumers : StartWorker(w)) \/ Constructed
             \/ StopStep(Owner) /\ UNCHANGED poolVars
             \/ StopReturns \/ JoinWorker \/ Destroyed

\* The pool is gone and no call is under way, or what happens is undefined.
Rest == /\ \/ phase = "gone" /\ \A p \in Producers : At(p, "idle")
           \/ phase = "undefined"
        /\ UNCHANGED vars

Next == \/ \E p \in Producers : (\E i \in DOMAIN Calls[p] : Enqueue(p, i)) \/ Client(p)
        \/ \E w \in Consumers : Worker(w)
        \/ OwnerStep \/ Destroy
        \/ Rest

Spec == Init /\ [][Next]_vars

\* Every thread that can go on does, and tasks end; nobody has to call enqueue or the destructor.
FairSpec == /\ Spec
            /\ \A p \in Producers : WF_vars(Client(p))
            /\ \A w \in Consumers : WF_vars(Worker(w))
            /\ WF_vars(OwnerStep)
-----------------------------------------------------------------------------
(* Properties. *)

Accepted(x) == future[x] \in {"pending", "value", "error"}

\* The destructor runs every task that was accepted, unless the ring was full when Stop set its
\* flag: then IsEmpty (head = tail) holds, every worker leaves at once and none of the Size tasks
\* in the ring is run (RingQueue lines 40-43, 63-65; ThreadPool lines 22, 36-38).
AllOrNone ==
  phase = "gone" =>
    \/ \A x \in Items : Accepted(x) => future[x] # "pending"
    \/ Len(content) = Size /\ \A x \in Items :
         future[x] = "pending" => \E i \in DOMAIN content : content[i] = x

\* The destructor returns: each worker gets a post of Stop, or one that a worker gives back when
\* it leaves (RingQueue lines 41, 58-59), while it may be anywhere in pop or in a task.
DestructorReturns == phase = "stopping" ~> phase = "gone"

\* A task that was accepted runs while the pool lives: the post that announces it wakes a worker,
\* whichever worker that is and wherever the others are (RingQueue lines 33, 37, 47).
AcceptedRuns == \A x \in Items : future[x] = "pending" ~> future[x] # "pending" \/ phase # "open"

\* Stop leaves nobody behind in P(full): once it has returned, a client that waits there for a slot
\* finds one, or somebody is about to give one back (RingQueue lines 22-27, 47, 57-61), although
\* the ring may be full and nobody will empty it any more.
ClientsReleased ==
  phase = "joining" /\ (\E p \in Producers : At(p, "put_wait")) =>
    \/ full > 0
    \/ \E p \in Producers : At(p, "put_lock")
    \/ \E w \in Consumers : At(w, "take_post")

\* A call of enqueue returns or throws, unless it meets the destruction of the queue: while the
\* pool lives, workers that take tasks give back their slots (RingQueue lines 22, 47).
EnqueueEnds == \A p \in Producers : At(p, "put_wait") ~> At(p, "idle") \/ phase = "undefined"
=============================================================================
