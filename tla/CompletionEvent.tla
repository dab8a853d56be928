--------------------------- MODULE CompletionEvent ---------------------------
(***************************************************************************)
(* The CompletionEvent of Task.hpp as the closures use it, down to the     *)
(* semaphores: a Mutex m, a ConditionVariable cv and the flag done.        *)
(* A waiter takes a UniqueLock on m and waits on cv until done; a notifier *)
(* locks m, sets done and notifies.                                        *)
(*                                                                         *)
(* lock and unlock of Mutex are two steps each, the semaphore and then the *)
(* flag is_locked_.  A section under m_internal_mutex, which is not held   *)
(* across a blocking call, is one step.  UniqueLock::owns_lock is the      *)
(* control of its waiter: true from the step after "locked" to the one     *)
(* after "unlocked" or "leaving".                                          *)
(***************************************************************************)
EXTENDS Integers, FiniteSets

CONSTANTS
  Waiters, Notifiers, Triers,   \* Triers: threads that only try_lock m
  OneOnly                       \* the notifiers that call notify_one, not notify_all

Threads == Waiters \cup Notifiers \cup Triers

ASSUME EventAssumption ==
  /\ IsFiniteSet(Threads) /\ OneOnly \subseteq Notifiers
  /\ Waiters \cap Notifiers = {} /\ Waiters \cap Triers = {} /\ Notifiers \cap Triers = {}

VARIABLES
  semaphore_, is_locked_,           \* Mutex m
  m_semaphore, m_waiting_count,     \* ConditionVariable cv
  done,
  pc

mutexVars == <<semaphore_, is_locked_>>
cvVars    == <<m_semaphore, m_waiting_count>>
vars      == <<mutexVars, cvVars, done, pc>>

Steps == {"start", "lock", "locked", "test", "register", "unlock", "unlocked", "asleep",
          "set", "notify", "leave", "leaving", "left"}

TypeOK == /\ semaphore_ \in {0, 1} /\ is_locked_ \in BOOLEAN
          /\ m_semaphore \in Nat /\ m_waiting_count \in Nat
          /\ done \in BOOLEAN /\ pc \in [Threads -> Steps]

Init == /\ semaphore_ = 1 /\ is_locked_ = FALSE
        /\ m_semaphore = 0 /\ m_waiting_count = 0
        /\ done = FALSE /\ pc = [t \in Threads |-> "start"]

At(t, l)   == pc[t] = l
Goto(t, l) == pc' = [pc EXCEPT ![t] = l]

-----------------------------------------------------------------------------
(* Mutex, LockGuard and UniqueLock. *)

Start(t) == /\ At(t, "start") /\ t \notin Triers
            /\ Goto(t, "lock")
            /\ UNCHANGED <<mutexVars, cvVars, done>>

Available_NoWait == TRUE
Available == semaphore_ > 0

Lock(t) ==
  /\ At(t, "lock") /\ Available
  /\ semaphore_' = semaphore_ - 1
  /\ Goto(t, "locked")
  /\ UNCHANGED <<is_locked_, cvVars, done>>

TryLock(t) ==
  /\ At(t, "start") /\ t \in Triers
  /\ IF semaphore_ > 0 THEN semaphore_' = semaphore_ - 1 /\ Goto(t, "locked")
                       ELSE Goto(t, "left") /\ UNCHANGED semaphore_
  /\ UNCHANGED <<is_locked_, cvVars, done>>

SetFlag(t) ==
  /\ At(t, "locked")
  /\ is_locked_' = TRUE
  /\ Goto(t, CASE t \in Waiters -> "test" [] t \in Notifiers -> "set" [] t \in Triers -> "leave")
  /\ UNCHANGED <<semaphore_, cvVars, done>>

Unlock(t) ==
  /\ pc[t] \in {"unlock", "leave"}
  /\ semaphore_' = semaphore_ + 1
  /\ Goto(t, IF At(t, "unlock") THEN "unlocked" ELSE "leaving")
  /\ UNCHANGED <<is_locked_, cvVars, done>>

ClearFlag_Forgets(t) ==
  /\ pc[t] \in {"unlocked", "leaving"}
  /\ Goto(t, IF At(t, "unlocked") THEN "asleep" ELSE "left")
  /\ UNCHANGED <<mutexVars, cvVars, done>>

\* The flag is cleared after the post, when another thread may have locked and set it.
ClearFlag(t) ==
  /\ pc[t] \in {"unlocked", "leaving"}
  /\ is_locked_' = FALSE
  /\ Goto(t, IF At(t, "unlocked") THEN "asleep" ELSE "left")
  /\ UNCHANGED <<semaphore_, cvVars, done>>

-----------------------------------------------------------------------------
(* ConditionVariable, and the code around it in wrapSubTask. *)

TestDone(t) ==
  /\ At(t, "test")
  /\ Goto(t, IF done THEN "leave" ELSE "register")
  /\ UNCHANGED <<mutexVars, cvVars, done>>

\* The count is read and written back after a notifier has reset it.
Register_LostUpdate(t) ==
  /\ At(t, "register")
  /\ m_waiting_count' = m_waiting_count
  /\ Goto(t, "unlock")
  /\ UNCHANGED <<mutexVars, m_semaphore, done>>

Register(t) ==
  /\ At(t, "register")
  /\ m_waiting_count' = m_waiting_count + 1
  /\ Goto(t, "unlock")
  /\ UNCHANGED <<mutexVars, m_semaphore, done>>

Wake(t) ==
  /\ At(t, "asleep") /\ m_semaphore > 0
  /\ m_semaphore' = m_semaphore - 1
  /\ Goto(t, "lock")
  /\ UNCHANGED <<mutexVars, m_waiting_count, done>>

SetDone(n) ==
  /\ At(n, "set")
  /\ done' = TRUE
  /\ Goto(n, "notify")
  /\ UNCHANGED <<mutexVars, cvVars>>

Notified_OneOnly(n) == IF m_waiting_count > 0 THEN 1 ELSE 0
\* The posts that notifier n makes.
Notified(n) == IF n \in OneOnly /\ m_waiting_count > 0 THEN 1 ELSE m_waiting_count

Notify(n) ==
  /\ At(n, "notify")
  /\ m_semaphore' = m_semaphore + Notified(n)
  /\ m_waiting_count' = m_waiting_count - Notified(n)
  /\ Goto(n, "leave")
  /\ UNCHANGED <<mutexVars, done>>

-----------------------------------------------------------------------------
MutexStep(t)  == Start(t) \/ Lock(t) \/ SetFlag(t) \/ Unlock(t) \/ ClearFlag(t)
WaiterStep(t) == TestDone(t) \/ Register(t) \/ Wake(t)
Step(t)       == MutexStep(t) \/ TryLock(t) \/ WaiterStep(t) \/ SetDone(t) \/ Notify(t)

\* All threads have left; anything else that stops is a deadlock.
Rest == /\ \A t \in Threads : At(t, "left")
        /\ UNCHANGED vars

Next == (\E t \in Threads : Step(t)) \/ Rest

Spec == Init /\ [][Next]_vars

\* A thread that can go on does; a wait on a semaphore is not put off for ever while it has a post,
\* since each thread takes m a bounded number of times.
FairSpec == Spec /\ \A t \in Threads : WF_vars(Step(t))
-----------------------------------------------------------------------------
(* Properties. *)

Holding    == {"locked", "test", "register", "unlock", "set", "notify", "leave"}
Holds(t)   == pc[t] \in Holding
Registered == {w \in Waiters : pc[w] \in {"unlock", "unlocked", "asleep"}}

\* At most one thread is between lock and unlock of m, and m is free when none is (Mutex 30-57):
\* waiters release and retake it around the wait, and try_lock takes it too.
MutualExclusion ==
  /\ \A t, u \in Threads : Holds(t) /\ Holds(u) => t = u
  /\ (\A t \in Threads : ~Holds(t)) => semaphore_ = 1

\* Once notify_all has run, cv holds a post for every waiter that has registered and not yet woken,
\* wherever it is between registering and sem_wait (ConditionVariable 37-44, 53-62).
NoLostWakeup ==
  (\E n \in Notifiers \ OneOnly : pc[n] \in {"leave", "leaving", "left"})
    => m_semaphore = Cardinality(Registered)

\* is_locked() does not say yes of a mutex that nobody holds or is about to have released
\* (Mutex 30-35, 52-57); it may say no of one that is held, since unlock clears the flag last.
FlagOutlivesNobody == is_locked_ => \E t \in Threads : Holds(t) \/ pc[t] \in {"unlocked", "leaving"}

\* The event built from mutex, counter and semaphores is one that waiters pass once it has
\* happened, and all of them do (EventDispatcher 58-64, 91-95).
E == INSTANCE Event WITH happened <- done, past <- {w \in Waiters : At(w, "left")}
ImplementsEvent == E!Spec
=============================================================================
