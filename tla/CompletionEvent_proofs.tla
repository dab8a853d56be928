------------------------ MODULE CompletionEvent_proofs ------------------------
(***************************************************************************)
(* Mutual exclusion and the absence of lost wakeups, for any number of     *)
(* threads.  The induction counts: what cv has been posted and what is     *)
(* still to be notified are together the waiters that have registered.     *)
(***************************************************************************)
EXTENDS CompletionEvent, FiniteSetTheorems, TLAPS

\* Where the threads of each kind can be.
Waiting   == {"start", "lock", "locked", "test", "register", "unlock", "unlocked", "asleep",
              "leave", "leaving", "left"}
Notifying == {"start", "lock", "locked", "set", "notify", "leave", "leaving", "left"}
Trying    == {"start", "locked", "leave", "leaving", "left"}
KindsOK   == \A t \in Threads : /\ t \in Waiters => pc[t] \in Waiting
                                /\ t \in Notifiers => pc[t] \in Notifying
                                /\ t \in Triers => pc[t] \in Trying

\* semaphore_ is 0 exactly while a thread holds m.
MutexOK == /\ \A t, u \in Threads : Holds(t) /\ Holds(u) => t = u
           /\ semaphore_ = 1 <=> \A t \in Threads : ~Holds(t)

\* What the control of a thread says of done.
DoneOK == /\ \A w \in Waiters : pc[w] = "register" => ~done
          /\ \A w \in Waiters : pc[w] \in {"leave", "leaving", "left"} => done
          /\ \A n \in Notifiers : pc[n] \in {"notify", "leave", "leaving", "left"} => done

CountOK == m_semaphore + m_waiting_count = Cardinality(Registered)
\* After a notify_all nobody is left to be notified.
AllNotified == \A n \in Notifiers \ OneOnly :
                 pc[n] \in {"leave", "leaving", "left"} => m_waiting_count = 0

Inv == TypeOK /\ KindsOK /\ MutexOK /\ DoneOK /\ CountOK /\ AllNotified

LEMMA RegisteredFinite ==
  ASSUME TypeOK
  PROVE  /\ IsFiniteSet(Registered) /\ Cardinality(Registered) \in Nat
         /\ \A w \in Waiters : /\ w \notin Registered =>
                                    Cardinality(Registered \cup {w}) = Cardinality(Registered) + 1
                               /\ w \in Registered =>
                                    Cardinality(Registered \ {w}) = Cardinality(Registered) - 1
  <1>1. Registered \subseteq Threads /\ IsFiniteSet(Threads)
    BY EventAssumption DEF Registered, Threads
  <1>2. IsFiniteSet(Registered) BY <1>1, FS_Subset
  <1> QED BY <1>2, FS_AddElement, FS_RemoveElement, FS_CardinalityType

LEMMA StepTyped == ASSUME TypeOK, KindsOK, MutexOK, [Next]_vars PROVE TypeOK' /\ KindsOK'
  <1> USE EventAssumption DEF TypeOK, KindsOK, Steps, Waiting, Notifying, Trying
  <1>1. CASE UNCHANGED vars BY <1>1 DEF vars, mutexVars, cvVars
  <1>2. ASSUME NEW t \in Threads, Step(t) PROVE TypeOK' /\ KindsOK'
    <2>1. CASE Start(t) BY <2>1 DEF Start, At, Goto, mutexVars, cvVars, Threads
    <2>2. CASE Lock(t) BY <2>2 DEF Lock, Available, At, Goto, cvVars
    <2>3. CASE SetFlag(t) BY <2>3 DEF SetFlag, At, Goto, cvVars, Threads
    <2>4. CASE Unlock(t)
      <3>1. semaphore_ = 0 BY <2>4 DEF Unlock, MutexOK, Holds, Holding
      <3> QED BY <2>4, <3>1 DEF Unlock, At, Goto, cvVars
    <2>5. CASE ClearFlag(t) BY <2>5 DEF ClearFlag, At, Goto, cvVars
    <2>6. CASE TryLock(t) BY <2>6 DEF TryLock, At, Goto, cvVars
    <2>7. CASE TestDone(t) BY <2>7 DEF TestDone, At, Goto, mutexVars, cvVars
    <2>8. CASE Register(t) BY <2>8 DEF Register, At, Goto, mutexVars
    <2>9. CASE Wake(t) BY <2>9 DEF Wake, At, Goto, mutexVars
    <2>10. CASE SetDone(t) BY <2>10 DEF SetDone, At, Goto, mutexVars, cvVars
    <2>11. CASE Notify(t) BY <2>11 DEF Notify, Notified, At, Goto, mutexVars
    <2> QED BY <1>2, <2>1, <2>2, <2>3, <2>4, <2>5, <2>6, <2>7, <2>8, <2>9, <2>10, <2>11
            DEF Step, MutexStep, WaiterStep
  <1>3. CASE Rest BY <1>3 DEF Rest, vars, mutexVars, cvVars
  <1> QED BY <1>1, <1>2, <1>3 DEF Next

\* A step that goes from one place under m to another leaves m as it is.
LEMMA StepMutex == ASSUME TypeOK, KindsOK, MutexOK, [Next]_vars PROVE MutexOK'
  <1> USE EventAssumption DEF TypeOK, KindsOK, MutexOK, Holds, Holding
  <1>1. CASE UNCHANGED vars BY <1>1 DEF vars, mutexVars
  <1>2. ASSUME NEW t \in Threads, Step(t) PROVE MutexOK'
    <2>0. ASSUME NEW l, pc' = [pc EXCEPT ![t] = l], pc[t] \in Holding <=> l \in Holding,
                 UNCHANGED semaphore_
          PROVE  MutexOK'
      BY <2>0
    <2>1. CASE Start(t) BY <2>0, <2>1 DEF Start, At, Goto, mutexVars
    <2>2. CASE Lock(t) BY <2>2 DEF Lock, Available, At, Goto
    <2>3. CASE SetFlag(t) BY <2>0, <2>3 DEF SetFlag, At, Goto, Threads
    <2>4. CASE Unlock(t)
      <3>1. semaphore_ = 0 BY <2>4 DEF Unlock
      <3> QED BY <2>4, <3>1 DEF Unlock, At, Goto
    <2>5. CASE ClearFlag(t) BY <2>0, <2>5 DEF ClearFlag, At, Goto
    <2>6. CASE TryLock(t) BY <2>6 DEF TryLock, At, Goto
    <2>7. CASE TestDone(t) BY <2>0, <2>7 DEF TestDone, At, Goto, mutexVars
    <2>8. CASE Register(t) BY <2>0, <2>8 DEF Register, At, Goto, mutexVars
    <2>9. CASE Wake(t) BY <2>0, <2>9 DEF Wake, At, Goto, mutexVars
    <2>10. CASE SetDone(t) BY <2>0, <2>10 DEF SetDone, At, Goto, mutexVars
    <2>11. CASE Notify(t) BY <2>0, <2>11 DEF Notify, At, Goto, mutexVars
    <2> QED BY <1>2, <2>1, <2>2, <2>3, <2>4, <2>5, <2>6, <2>7, <2>8, <2>9, <2>10, <2>11
            DEF Step, MutexStep, WaiterStep
  <1>3. CASE Rest BY <1>3 DEF Rest, vars, mutexVars
  <1> QED BY <1>1, <1>2, <1>3 DEF Next

LEMMA StepDone == ASSUME TypeOK, KindsOK, MutexOK, DoneOK, [Next]_vars PROVE DoneOK'
  <1> USE EventAssumption DEF TypeOK, KindsOK, DoneOK, Threads, Waiting, Notifying, Trying
  <1>1. CASE UNCHANGED vars BY <1>1 DEF vars
  <1>2. ASSUME NEW t \in Threads, Step(t) PROVE DoneOK'
    <2>1. CASE Start(t) BY <2>1 DEF Start, At, Goto
    <2>2. CASE Lock(t) BY <2>2 DEF Lock, At, Goto
    <2>3. CASE SetFlag(t) BY <2>3 DEF SetFlag, At, Goto
    <2>4. CASE Unlock(t) BY <2>4 DEF Unlock, At, Goto
    <2>5. CASE ClearFlag(t) BY <2>5 DEF ClearFlag, At, Goto
    <2>6. CASE TryLock(t) BY <2>6 DEF TryLock, At, Goto
    <2>7. CASE TestDone(t) BY <2>7 DEF TestDone, At, Goto
    <2>8. CASE Register(t) BY <2>8 DEF Register, At, Goto
    <2>9. CASE Wake(t) BY <2>9 DEF Wake, At, Goto
    <2>10. CASE SetDone(t)
      <3>1. \A w \in Waiters : pc[w] # "register"
        BY <2>10 DEF SetDone, At, MutexOK, Holds, Holding
      <3> QED BY <2>10, <3>1 DEF SetDone, At, Goto
    <2>11. CASE Notify(t) BY <2>11 DEF Notify, At, Goto
    <2> QED BY <1>2, <2>1, <2>2, <2>3, <2>4, <2>5, <2>6, <2>7, <2>8, <2>9, <2>10, <2>11
            DEF Step, MutexStep, WaiterStep
  <1>3. CASE Rest BY <1>3 DEF Rest, vars
  <1> QED BY <1>1, <1>2, <1>3 DEF Next

LEMMA StepCount ==
  ASSUME TypeOK, KindsOK, MutexOK, DoneOK, CountOK, AllNotified, [Next]_vars
  PROVE  CountOK' /\ AllNotified'
  <1> USE EventAssumption DEF CountOK, AllNotified
  <1> DEFINE Asleep == {"unlock", "unlocked", "asleep"}
             Through == {"leave", "leaving", "left"}
  <1>1. ASSUME UNCHANGED <<pc, m_semaphore, m_waiting_count>> PROVE CountOK' /\ AllNotified'
    BY <1>1 DEF Registered
  \* Steps that register or wake nobody, and get no notifier past its notify_all.
  <1>2. ASSUME NEW t \in Threads, NEW l, pc' = [pc EXCEPT ![t] = l], UNCHANGED cvVars,
               t \in Waiters => (pc[t] \in Asleep <=> l \in Asleep),
               t \in Notifiers /\ l \in Through => pc[t] \in Through
        PROVE  CountOK' /\ AllNotified'
    <2>1. Registered' = Registered BY <1>2 DEF Registered, TypeOK
    <2> QED BY <1>2, <2>1 DEF cvVars, TypeOK, Threads
  <1>3. ASSUME NEW t \in Threads, Step(t) PROVE CountOK' /\ AllNotified'
    <2> USE DEF At, Goto
    <2>1. CASE Start(t) BY <1>2, <2>1 DEF Start
    <2>2. CASE Lock(t) BY <1>2, <2>2 DEF Lock
    <2>3. CASE SetFlag(t) BY <1>2, <2>3 DEF SetFlag
    <2>4. CASE Unlock(t) BY <1>2, <2>4 DEF Unlock
    <2>5. CASE ClearFlag(t) BY <1>2, <2>5 DEF ClearFlag
    <2>6. CASE TryLock(t)
      <3>1. t \notin Waiters /\ t \notin Notifiers BY <2>6 DEF TryLock
      <3>2. CASE semaphore_ > 0 BY <1>2, <2>6, <3>1, <3>2 DEF TryLock
      <3>3. CASE ~(semaphore_ > 0) BY <1>2, <2>6, <3>1, <3>3 DEF TryLock
      <3> QED BY <3>2, <3>3
    <2>7. CASE TestDone(t)
      <3>1. t \notin Notifiers BY <2>7 DEF TestDone, KindsOK, Notifying
      <3> QED BY <1>2, <2>7, <3>1 DEF TestDone
    <2>8. CASE Register(t)
      <3>1. t \in Waiters /\ t \notin Registered
        BY <2>8 DEF Register, KindsOK, Threads, Waiting, Notifying, Trying, Registered
      <3>2. Registered' = Registered \cup {t} BY <2>8, <3>1 DEF Register, Registered, TypeOK
      <3>3. /\ Cardinality(Registered') = Cardinality(Registered) + 1
            /\ Cardinality(Registered) \in Nat
        BY <3>1, <3>2, RegisteredFinite
      <3>4. \A n \in Notifiers : pc[n] \notin Through
        BY <2>8, <3>1 DEF Register, DoneOK
      <3>5. AllNotified' BY <2>8, <3>1, <3>4 DEF Register, TypeOK, Threads
      <3> QED BY <2>8, <3>3, <3>5 DEF Register, TypeOK
    <2>9. CASE Wake(t)
      <3>1. t \in Waiters /\ t \in Registered
        BY <2>9 DEF Wake, KindsOK, Threads, Waiting, Notifying, Trying, Registered
      <3>2. Registered' = Registered \ {t} BY <2>9, <3>1 DEF Wake, Registered, TypeOK
      <3>3. /\ Cardinality(Registered') = Cardinality(Registered) - 1
            /\ Cardinality(Registered) \in Nat
        BY <3>1, <3>2, RegisteredFinite
      <3>4. AllNotified' BY <2>9, <3>1 DEF Wake, TypeOK, Threads
      <3> QED BY <2>9, <3>3, <3>4 DEF Wake, TypeOK
    <2>10. CASE SetDone(t) BY <1>2, <2>10 DEF SetDone
    <2>11. CASE Notify(t)
      <3>1. t \in Notifiers
        BY <2>11 DEF Notify, KindsOK, Threads, Waiting, Notifying, Trying
      <3>2. Registered' = Registered BY <2>11, <3>1 DEF Notify, Registered, TypeOK
      <3>3. Notified(t) \in Nat /\ (t \notin OneOnly => Notified(t) = m_waiting_count)
            /\ (m_waiting_count = 0 => Notified(t) = 0)
        BY DEF Notified, TypeOK
      <3>4. CountOK' BY <2>11, <3>2, <3>3 DEF Notify, TypeOK
      <3>5. AllNotified' BY <2>11, <3>1, <3>3 DEF Notify, TypeOK, Threads
      <3> QED BY <3>4, <3>5
    <2> QED BY <1>3, <2>1, <2>2, <2>3, <2>4, <2>5, <2>6, <2>7, <2>8, <2>9, <2>10, <2>11
            DEF Step, MutexStep, WaiterStep
  <1> QED BY <1>1, <1>3 DEF Next, Rest, vars, cvVars

THEOREM InvAlways == Spec => []Inv
  <1>1. Init => Inv
    <2> SUFFICES ASSUME Init PROVE Inv OBVIOUS
    <2>1. Registered = {} BY DEF Init, Registered, Threads
    <2>2. Cardinality(Registered) = 0 BY <2>1, FS_EmptySet
    <2>3. CountOK BY <2>2 DEF Init, CountOK
    <2> QED BY <2>3, EventAssumption
            DEF Init, Inv, TypeOK, Steps, KindsOK, Waiting, Notifying, Trying, MutexOK, Holds,
                Holding, DoneOK, AllNotified, Threads
  <1>2. Inv /\ [Next]_vars => Inv'
    BY StepTyped, StepMutex, StepDone, StepCount DEF Inv
  <1> QED BY <1>1, <1>2, PTL DEF Spec

THEOREM TypeCorrect == Spec => []TypeOK
  BY InvAlways, PTL DEF Inv

\* At most one thread holds m (Mutex 30-57), for any number of threads.
THEOREM MutexExcludes == Spec => []MutualExclusion
  <1>1. Inv => MutualExclusion BY DEF Inv, MutexOK, MutualExclusion
  <1> QED BY <1>1, InvAlways, PTL

\* Whoever has registered when notify_all runs has a post (ConditionVariable 37-44, 53-62).
THEOREM NobodyIsForgotten == Spec => []NoLostWakeup
  <1>1. Inv => NoLostWakeup
    BY RegisteredFinite DEF Inv, TypeOK, CountOK, AllNotified, NoLostWakeup
  <1> QED BY <1>1, InvAlways, PTL

\* is_locked() is not left on by the last to unlock (Mutex 30-35, 52-57).
THEOREM FlagIsCleared == Spec => []FlagOutlivesNobody
  <1> DEFINE Mine(t) == Holds(t) \/ pc[t] \in {"unlocked", "leaving"}
  <1>1. Init => FlagOutlivesNobody BY DEF Init, FlagOutlivesNobody
  <1>2. Inv /\ FlagOutlivesNobody /\ [Next]_vars => FlagOutlivesNobody'
    <2> SUFFICES ASSUME Inv, FlagOutlivesNobody, [Next]_vars, is_locked_'
                 PROVE  \E t \in Threads : Mine(t)'
      BY DEF FlagOutlivesNobody
    <2> USE DEF Inv, TypeOK, Holds, Holding
    <2>1. CASE UNCHANGED vars BY <2>1 DEF FlagOutlivesNobody, vars, mutexVars
    <2>2. ASSUME NEW t \in Threads, SetFlag(t) PROVE \E u \in Threads : Mine(u)'
      BY <2>2 DEF SetFlag, Goto, Threads
    <2>3. ASSUME NEW t \in Threads, Step(t), ~SetFlag(t) PROVE \E u \in Threads : Mine(u)'
      <3>1. is_locked_
        BY <2>3 DEF Step, MutexStep, WaiterStep, Start, Lock, Unlock, ClearFlag, TryLock, TestDone,
                    Register, Wake, SetDone, Notify, mutexVars
      <3>2. PICK u \in Threads : Mine(u) BY <3>1 DEF FlagOutlivesNobody
      <3>3. Mine(u)'
        <4>1. CASE u # t
          <5>1. pc'[u] = pc[u]
            BY <2>3, <4>1 DEF Step, MutexStep, WaiterStep, Start, Lock, Unlock, ClearFlag, TryLock,
                              TestDone, Register, Wake, SetDone, Notify, Goto
          <5> QED BY <3>2, <5>1
        <4>2. CASE u = t
          BY <2>3, <3>2, <4>2
             DEF Step, MutexStep, WaiterStep, Start, Lock, Unlock, ClearFlag, TryLock,
                 TestDone, Register, Wake, SetDone, Notify, Goto, At
        <4> QED BY <4>1, <4>2
      <3> QED BY <3>3
    <2> QED BY <2>1, <2>2, <2>3 DEF Next, Rest
  <1> QED BY <1>1, <1>2, InvAlways, PTL DEF Spec

-----------------------------------------------------------------------------
\* Every step is one of the event or leaves it alone: nobody gets past the wait before done is set
\* (EventDispatcher 58-64, 91-95).  That they all do in the end is left to model checking.
THEOREM ImplementsSafeEvent == Spec => E!SafeSpec
  <1> DEFINE passed == {w \in Waiters : At(w, "left")}
  <1>1. Init => E!Init BY DEF Init, E!Init, At, Threads
  <1>2. Inv /\ [Next]_vars => [E!Next]_(E!vars)
    <2> SUFFICES ASSUME Inv, [Next]_vars, ~UNCHANGED <<done, passed>> PROVE E!Next
      BY DEF E!vars
    <2> USE EventAssumption DEF Inv, TypeOK
    <2>1. ASSUME UNCHANGED <<done, pc>> PROVE FALSE BY <2>1 DEF At
    <2>2. PICK t \in Threads : Step(t) BY <2>1 DEF Next, Rest, vars
    <2>3. CASE SetDone(t)
      <3>1. passed' = passed BY <2>3 DEF SetDone, At, Goto
      <3> QED BY <2>3, <3>1 DEF SetDone, E!Next, E!Happen
    <2>4. CASE ClearFlag(t) /\ At(t, "leaving") /\ t \in Waiters
      <3>1. done' = done /\ done BY <2>4 DEF ClearFlag, DoneOK, At
      <3>2. passed' = passed \cup {t} /\ t \notin passed BY <2>4 DEF ClearFlag, At, Goto, Threads
      <3> QED BY <2>4, <3>1, <3>2 DEF E!Next, E!Pass
    <2>5. CASE ~SetDone(t) /\ ~(ClearFlag(t) /\ At(t, "leaving") /\ t \in Waiters)
      <3>1. done' = done
        BY <2>2, <2>5 DEF Step, MutexStep, WaiterStep, Start, Lock, SetFlag, Unlock, ClearFlag,
                          TryLock, TestDone, Register, Wake, Notify
      <3>2. passed' = passed
        <4>1. \A u \in Threads \ {t} : pc'[u] = pc[u]
          BY <2>2, <2>5 DEF Step, MutexStep, WaiterStep, Start, Lock, SetFlag, Unlock, ClearFlag,
                            TryLock, TestDone, Register, Wake, Notify, Goto
        <4>2. t \in Waiters => (pc'[t] = "left" <=> pc[t] = "left")
          <5>1. CASE TryLock(t) BY <5>1 DEF TryLock
          <5>2. CASE ClearFlag(t) BY <2>5, <5>2 DEF ClearFlag, At, Goto
          <5>3. CASE ~TryLock(t) /\ ~ClearFlag(t)
            BY <2>2, <2>5, <5>3 DEF Step, MutexStep, WaiterStep, Start, Lock, SetFlag, Unlock,
                                    TestDone, Register, Wake, Notify, At, Goto
          <5> QED BY <5>1, <5>2, <5>3
        <4> QED BY <4>1, <4>2 DEF At, Threads
      <3> QED BY <3>1, <3>2
    <2> QED BY <2>3, <2>4, <2>5
  <1> QED BY <1>1, <1>2, InvAlways, PTL DEF Spec, E!SafeSpec
=============================================================================
