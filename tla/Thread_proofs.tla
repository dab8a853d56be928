---------------------------- MODULE Thread_proofs ----------------------------
(***************************************************************************)
(* No thread is lost and none has two owners, for any number of objects.   *)
(* The induction is on the relation Speaks between objects and threads: it *)
(* relates each object to at most one thread and each thread that waits to *)
(* be joined to exactly one object.                                        *)
(***************************************************************************)
EXTENDS Thread, TLAPS

Waits(h) == posix[h].status # "gone" /\ ~posix[h].detached

SpeakOnce == \A h \in Handles : \A o, u \in Objects : Speaks(o, h) /\ Speaks(u, h) => o = u
SpeakAll  == \A h \in Handles : Waits(h) <=> \E o \in Objects : Speaks(o, h)
\* The object that speaks for a running thread keeps its function, or its constructor does.
SpeakKeep == \A h \in Handles : \A o \in Objects :
               Speaks(o, h) /\ posix[h].status = "running"
                 => \/ o \in alive /\ object[o].m_task = posix[h].func
                    \/ call.op = "construct" /\ call.obj = o /\ call.func = posix[h].func
CallOK == /\ call.op = "construct" =>
               call.obj \in Objects \ alive /\ call.thread \in Handles
          /\ call.op = "join" => /\ call.obj \in alive /\ joinable(call.obj)
                                 /\ object[call.obj].m_thread = call.thread

OwnerInv == SpeakOnce /\ SpeakAll /\ SpeakKeep /\ CallOK

Joined(r)   == [r EXCEPT !.m_joined = TRUE]
Detached(r) == [r EXCEPT !.m_detached = TRUE]
Ended(r)    == [r EXCEPT !.status = "ended", !.func = Null]

LEMMA DefaultFacts ==
  /\ Default \in Members /\ Default.m_thread = Null /\ Gone \in PosixThread /\ Gone.status = "gone"
  /\ NoCall \in PendingCall /\ NoCall.op = "none" /\ NoCall.func = Null
  BY DEF Default, Members, Gone, PosixThread, NoCall, PendingCall

LEMMA MemberFacts ==
  ASSUME NEW r \in Members
  PROVE  /\ r.m_thread \in Handles \cup {Null} /\ r.m_task \in Functions \cup {Null}
         /\ r.m_joined \in BOOLEAN /\ r.m_detached \in BOOLEAN
         /\ Joined(r) \in Members /\ Joined(r).m_joined = TRUE
         /\ Joined(r).m_thread = r.m_thread /\ Joined(r).m_task = r.m_task
         /\ Detached(r) \in Members /\ Detached(r).m_detached = TRUE
         /\ Detached(r).m_thread = r.m_thread /\ Detached(r).m_task = r.m_task
  BY DEF Members, Joined, Detached

LEMMA PosixFacts ==
  ASSUME NEW r \in PosixThread
  PROVE  /\ r.status \in {"gone", "running", "ended"} /\ r.detached \in BOOLEAN
         /\ [r EXCEPT !.detached = TRUE] \in PosixThread
         /\ [r EXCEPT !.detached = TRUE].detached = TRUE
         /\ Ended(r) \in PosixThread /\ Ended(r).status = "ended" /\ Ended(r).detached = r.detached
  BY DEF PosixThread, Ended

LEMMA NewRecords ==
  ASSUME NEW h \in Handles, NEW f \in Functions \cup {Null}, NEW o \in Objects
  PROVE  LET r == [m_thread |-> h, m_task |-> f, m_joined |-> FALSE, m_detached |-> FALSE]
             p == [status |-> "running", func |-> f, detached |-> FALSE]
         IN /\ r \in Members /\ r.m_thread = h /\ r.m_task = f /\ ~r.m_joined /\ ~r.m_detached
            /\ p \in PosixThread /\ p.status = "running" /\ p.func = f /\ ~p.detached
            /\ [op |-> "construct", obj |-> o, func |-> f, thread |-> h] \in PendingCall
            /\ [op |-> "join", obj |-> o, func |-> Null, thread |-> h] \in PendingCall
  BY DEF Members, PosixThread, PendingCall

LEMMA CallFacts ==
  ASSUME NEW c \in PendingCall
  PROVE  /\ c.op \in {"none", "construct", "join"} /\ c.obj \in Objects \cup {Null}
         /\ c.func \in Functions \cup {Null} /\ c.thread \in Handles \cup {Null}
  BY DEF PendingCall

LEMMA StepTyped == ASSUME TypeOK, CallOK, [Next]_vars PROVE TypeOK'
  <1> USE ThreadAssumption DEF TypeOK
  <1>1. CASE UNCHANGED vars BY <1>1 DEF vars
  <1>2. CASE Terminate BY <1>2 DEF Terminate
  <1>3. ASSUME NEW o \in Objects, ConstructDefault(o) PROVE TypeOK'
    BY <1>3 DEF ConstructDefault
  <1>4. ASSUME NEW o \in Objects, Destroy(o) PROVE TypeOK'
    BY <1>2, <1>4, DefaultFacts DEF Destroy
  <1>5. ASSUME NEW o \in Objects, Join(o) PROVE TypeOK'
    <2>1. object[o].m_thread \in Handles BY <1>5, MemberFacts DEF Join, joinable
    <2> QED BY <1>5, <2>1, NewRecords DEF Join
  <1>6. ASSUME NEW o \in Objects, detach(o) PROVE TypeOK'
    <2>1. object[o].m_thread \in Handles BY <1>6, MemberFacts DEF detach, joinable
    <2>2. posix' \in [Handles -> PosixThread] BY <1>6, <2>1, DefaultFacts, PosixFacts DEF detach
    <2>3. object' = [object EXCEPT ![o] = Detached(object[o])] BY <1>6 DEF detach, Detached
    <2>4. o \in alive /\ UNCHANGED <<alive, call, terminated>> BY <1>6 DEF detach
    <2>5. object[o] \in Members /\ Detached(object[o]) \in Members
          /\ Detached(object[o]).m_thread # Null
      <3>1. object[o] \in Members /\ object[o].m_thread # Null BY <2>1
      <3> QED BY <3>1, MemberFacts
    <2> QED BY <2>2, <2>3, <2>4, <2>5
  <1>7. ASSUME NEW o \in Objects, NEW h \in Handles, NEW f \in Functions, Create(o, h, f)
        PROVE  TypeOK'
    BY <1>7, NewRecords DEF Create
  <1>8. ASSUME NEW o \in Objects, NEW other \in Objects, MoveConstruct(o, other) PROVE TypeOK'
    BY <1>8, DefaultFacts DEF MoveConstruct, MovedFrom
  <1>9. ASSUME NEW o \in Objects, NEW other \in Objects, MoveAssign(o, other) PROVE TypeOK'
    BY <1>2, <1>9, DefaultFacts DEF MoveAssign, MovedFrom
  <1>10. ASSUME NEW o \in Objects, NEW other \in Objects, swap(o, other) PROVE TypeOK'
    BY <1>10 DEF swap
  <1>11. CASE Save
    <2>1. call.obj \in Objects /\ call.thread \in Handles /\ call.func \in Functions \cup {Null}
      BY <1>11, CallFacts DEF Save, CallOK
    <2> QED BY <1>11, <2>1, DefaultFacts, NewRecords DEF Save
  <1>12. CASE JoinReturns
    <2>1. call.obj \in alive /\ call.thread \in Handles /\ joinable(call.obj)
      BY <1>12, MemberFacts DEF JoinReturns, CallOK, joinable
    <2>2. object' = [object EXCEPT ![call.obj] = Joined(object[call.obj])]
      BY <1>12 DEF JoinReturns, Joined
    <2>3. posix' \in [Handles -> PosixThread] BY <1>12, DefaultFacts DEF JoinReturns
    <2>4. call' = NoCall /\ UNCHANGED <<alive, terminated>> BY <1>12 DEF JoinReturns
    <2>5. object[call.obj].m_thread # Null BY <2>1 DEF joinable
    <2>6. object[call.obj] \in Members /\ Joined(object[call.obj]) \in Members
          /\ Joined(object[call.obj]).m_thread # Null
      BY <2>1, <2>5, MemberFacts
    <2> QED BY <2>1, <2>2, <2>3, <2>4, <2>6, DefaultFacts
  <1>13. ASSUME NEW h \in Handles, ThreadEnds(h) PROVE TypeOK'
    <2>1. posix' \in [Handles -> PosixThread] \/ Terminate
      <3>1. CASE posix[h].func \in Throwing BY <1>13, <3>1 DEF ThreadEnds
      <3>2. CASE posix[h].func \notin Throwing
        <4>1. posix' = [posix EXCEPT ![h] = IF @.detached THEN Gone ELSE Ended(@)]
          BY <1>13, <3>2 DEF ThreadEnds, Ended
        <4> QED BY <4>1, PosixFacts, DefaultFacts
      <3> QED BY <3>1, <3>2
    <2>2. UNCHANGED <<object, alive, call>> BY <1>13 DEF ThreadEnds, Terminate
    <2>3. terminated' \in BOOLEAN BY <1>13 DEF ThreadEnds, Terminate
    <2> QED BY <1>2, <2>1, <2>2, <2>3
  <1> QED BY <1>1, <1>3, <1>4, <1>5, <1>6, <1>7, <1>8, <1>9, <1>10, <1>11, <1>12, <1>13
          DEF Next, ProgramStep

-----------------------------------------------------------------------------
\* In a step that changes object, alive and call, who speaks is read off object, alive and call.
LEMMA SpeaksBy ==
  ASSUME NEW o \in Objects, NEW h \in Handles
  PROVE  /\ Speaks(o, h) <=> \/ o \in alive /\ object[o].m_thread = h
                                /\ ~object[o].m_joined /\ ~object[o].m_detached
                             \/ call.op = "construct" /\ call.obj = o /\ call.thread = h
         /\ Speaks(o, h)' <=> \/ o \in alive' /\ object'[o].m_thread = h
                                 /\ ~object'[o].m_joined /\ ~object'[o].m_detached
                              \/ call'.op = "construct" /\ call'.obj = o /\ call'.thread = h
  BY ThreadAssumption DEF Speaks, joinable

\* If the same objects speak for the same threads and the same threads wait, nothing is lost.
LEMMA SameSpeakers ==
  ASSUME SpeakOnce, SpeakAll,
         \A o \in Objects, h \in Handles : Speaks(o, h)' <=> Speaks(o, h),
         \A h \in Handles : Waits(h)' <=> Waits(h)
  PROVE  SpeakOnce' /\ SpeakAll'
  BY DEF SpeakOnce, SpeakAll

\* Nor if an object speaks for what another one spoke for.
LEMMA MovedSpeakers ==
  ASSUME SpeakOnce, SpeakAll, UNCHANGED posix, NEW o \in Objects, NEW other \in Objects,
         \A h \in Handles : Speaks(o, h)' <=> Speaks(other, h),
         \A h \in Handles : Speaks(other, h)' <=> Speaks(o, h),
         \A u \in Objects \ {o, other}, h \in Handles : Speaks(u, h)' <=> Speaks(u, h)
  PROVE  SpeakOnce' /\ SpeakAll'
  <1>1. \A h \in Handles : Waits(h)' <=> Waits(h) BY DEF Waits
  <1>2. SpeakOnce' BY DEF SpeakOnce
  <1>3. SpeakAll'
    <2> SUFFICES ASSUME NEW h \in Handles
                 PROVE  (\E u \in Objects : Speaks(u, h)') <=> (\E u \in Objects : Speaks(u, h))
      BY <1>1 DEF SpeakAll
    <2> QED OBVIOUS
  <1> QED BY <1>2, <1>3

\* Nor if a thread no longer waits and nobody speaks for it any more.
LEMMA SpokenFor ==
  ASSUME SpeakOnce, SpeakAll, NEW h \in Handles, ~Waits(h)',
         \A g \in Handles \ {h} : Waits(g)' <=> Waits(g),
         \A u \in Objects : ~Speaks(u, h)',
         \A u \in Objects, g \in Handles \ {h} : Speaks(u, g)' <=> Speaks(u, g)
  PROVE  SpeakOnce' /\ SpeakAll'
  <1>1. SpeakOnce' BY DEF SpeakOnce
  <1>2. SpeakAll'
    <2> SUFFICES ASSUME NEW g \in Handles
                 PROVE  Waits(g)' <=> \E u \in Objects : Speaks(u, g)'
      BY DEF SpeakAll
    <2>1. CASE g = h BY <2>1
    <2>2. CASE g # h BY <2>2 DEF SpeakAll
    <2> QED BY <2>1, <2>2
  <1> QED BY <1>1, <1>2

LEMMA StepOwned == ASSUME TypeOK, OwnerInv, TypeOK', [Next]_vars PROVE OwnerInv'
  <1> USE DEF OwnerInv
  <1> DEFINE Frame == UNCHANGED <<object, alive, posix, call>>
  <1>1. CASE Frame
    BY <1>1 DEF SpeakOnce, SpeakAll, SpeakKeep, CallOK, Speaks, Waits, joinable
  <1>2. CASE UNCHANGED vars BY <1>1, <1>2 DEF vars
  <1>3. CASE Terminate BY <1>1, <1>3 DEF Terminate
  <1>4. ASSUME NEW o \in Objects, ConstructDefault(o) PROVE OwnerInv'
    <2>1. object[o].m_thread = Null /\ call = NoCall /\ o \notin alive
      BY <1>4, DefaultFacts DEF ConstructDefault, TypeOK, Idle
    <2>2. alive' = alive \cup {o} /\ UNCHANGED <<object, posix, call>>
      BY <1>4 DEF ConstructDefault
    <2>3. \A u \in Objects, h \in Handles : Speaks(u, h)' <=> Speaks(u, h)
      BY <2>1, <2>2, SpeaksBy, ThreadAssumption
    <2>4. SpeakOnce' /\ SpeakAll' BY <2>2, <2>3, SameSpeakers DEF Waits
    <2>5. SpeakKeep' BY <2>2, <2>3 DEF SpeakKeep
    <2>6. CallOK' BY <2>1, <2>2, DefaultFacts DEF CallOK
    <2> QED BY <2>4, <2>5, <2>6
  <1>5. ASSUME NEW o \in Objects, Destroy(o), ~Terminate PROVE OwnerInv'
    <2>1. ~joinable(o) /\ call = NoCall BY <1>5 DEF Destroy, Terminates, Idle
    <2>2. /\ alive' = alive \ {o} /\ object' = [object EXCEPT ![o] = Default]
          /\ UNCHANGED <<posix, call>>
      BY <1>5 DEF Destroy
    <2>3. \A u \in Objects, h \in Handles : Speaks(u, h)' <=> Speaks(u, h)
      <3> TAKE u \in Objects, h \in Handles
      <3>1. CASE u = o
        BY <2>1, <2>2, <3>1, DefaultFacts, ThreadAssumption DEF Speaks, joinable
      <3>2. CASE u # o BY <2>2, <3>2 DEF TypeOK, Speaks, joinable
      <3> QED BY <3>1, <3>2
    <2>4. SpeakOnce' /\ SpeakAll' BY <2>2, <2>3, SameSpeakers DEF Waits
    <2>5. SpeakKeep'
      <3>1. \A u \in Objects, h \in Handles : Speaks(u, h) => u # o
        BY <2>1, DefaultFacts DEF Speaks
      <3> QED BY <2>2, <2>3, <3>1 DEF SpeakKeep, TypeOK
    <2>6. CallOK' BY <2>1, <2>2, DefaultFacts DEF CallOK
    <2> QED BY <2>4, <2>5, <2>6
  <1>6. ASSUME NEW o \in Objects, Join(o) PROVE OwnerInv'
    <2>1. /\ call = NoCall /\ o \in alive /\ joinable(o)
          /\ UNCHANGED <<object, alive, posix>>
          /\ call' = [op |-> "join", obj |-> o, func |-> Null, thread |-> object[o].m_thread]
      BY <1>6 DEF Join, Idle
    <2>2. call'.op = "join" /\ call'.obj = o /\ call'.func = Null
          /\ call'.thread = object[o].m_thread
      BY <2>1
    <2>3. \A u \in Objects, h \in Handles : Speaks(u, h)' <=> Speaks(u, h)
      BY <2>1, <2>2, DefaultFacts DEF Speaks, joinable
    <2>4. SpeakOnce' /\ SpeakAll' BY <2>1, <2>3, SameSpeakers DEF Waits
    <2>5. SpeakKeep' BY <2>1, <2>2, <2>3, DefaultFacts DEF SpeakKeep
    <2>6. CallOK' BY <2>1, <2>2 DEF CallOK, joinable
    <2> QED BY <2>4, <2>5, <2>6
  <1>7. ASSUME NEW o \in Objects, detach(o) PROVE OwnerInv'
    <2>1. call = NoCall /\ o \in alive /\ joinable(o) /\ UNCHANGED <<alive, call>>
      BY <1>7 DEF detach, Idle
    <2>h. PICK h \in Handles : object[o].m_thread = h
      <3>1. object[o] \in Members /\ object[o].m_thread # Null BY <2>1 DEF joinable, TypeOK
      <3> QED BY <3>1, MemberFacts
    <2>2. object' = [object EXCEPT ![o] = Detached(object[o])] BY <1>7 DEF detach, Detached
    <2>3. posix' = [posix EXCEPT ![h] = IF @.status = "ended" THEN Gone
                                                               ELSE [@ EXCEPT !.detached = TRUE]]
      BY <1>7, <2>h DEF detach
    <2>4. Speaks(o, h) BY <2>1, <2>h DEF Speaks
    <2>5. ~Waits(h)' BY <2>1, <2>h, <2>3, PosixFacts, DefaultFacts DEF Waits, TypeOK
    <2>6. \A g \in Handles \ {h} : posix'[g] = posix[g] BY <2>1, <2>3, <2>h DEF TypeOK
    <2>7. object'[o].m_detached /\ \A u \in Objects \ {o} : object'[u] = object[u]
      <3>1. object \in [Objects -> Members] BY DEF TypeOK
      <3>2. Detached(object[o]).m_detached BY <3>1, MemberFacts
      <3> QED BY <2>2, <3>1, <3>2
    <2>8. \A u \in Objects : ~Speaks(u, h)'
      <3> TAKE u \in Objects
      <3>1. CASE u = o BY <2>1, <2>h, <2>7, <3>1, DefaultFacts DEF Speaks, joinable
      <3>2. CASE u # o
        <4>1. ~Speaks(u, h) BY <2>1, <2>4, <3>2 DEF SpeakOnce
        <4> QED BY <2>1, <2>7, <3>2, <4>1, SpeaksBy
      <3> QED BY <3>1, <3>2
    <2>9. \A u \in Objects, g \in Handles \ {h} : Speaks(u, g)' <=> Speaks(u, g)
      <3> TAKE u \in Objects, g \in Handles \ {h}
      <3>1. CASE u = o BY <2>1, <2>h, <2>7, <3>1, DefaultFacts DEF Speaks, joinable
      <3>2. CASE u # o BY <2>1, <2>7, <3>2, SpeaksBy
      <3> QED BY <3>1, <3>2
    <2>10. SpeakOnce' /\ SpeakAll' BY <2>1, <2>5, <2>6, <2>8, <2>9, SpokenFor DEF Waits
    <2>11. SpeakKeep'
      <3> SUFFICES ASSUME NEW g \in Handles, NEW u \in Objects, Speaks(u, g)',
                          posix'[g].status = "running"
                   PROVE  \/ u \in alive' /\ object'[u].m_task = posix'[g].func
                          \/ /\ call'.op = "construct" /\ call'.obj = u
                             /\ call'.func = posix'[g].func
        BY DEF SpeakKeep
      <3>1. g # h /\ Speaks(u, g) BY <2>8, <2>9
      <3>2. u # o BY <2>1, <2>7, DefaultFacts DEF Speaks, joinable
      <3> QED BY <2>1, <2>6, <2>7, <3>1, <3>2 DEF SpeakKeep
    <2>12. CallOK' BY <2>1, DefaultFacts DEF CallOK
    <2> QED BY <2>10, <2>11, <2>12
  <1>8. ASSUME NEW o \in Objects, NEW h \in Handles, NEW f \in Functions, Create(o, h, f)
        PROVE  OwnerInv'
    <2>1. call = NoCall /\ o \notin alive /\ posix[h] = Gone /\ UNCHANGED <<object, alive>>
      BY <1>8 DEF Create, Idle
    <2>2. call'.op = "construct" /\ call'.obj = o /\ call'.func = f /\ call'.thread = h
      BY <1>8 DEF Create
    <2>3. /\ \A g \in Handles \ {h} : posix'[g] = posix[g]
          /\ posix'[h].status = "running" /\ posix'[h].func = f /\ ~posix'[h].detached
      BY <1>8, NewRecords DEF Create, TypeOK
    <2>4. \A u \in Objects : ~Speaks(u, h)
      BY <2>1, DefaultFacts DEF SpeakAll, Waits
    <2>5. \A u \in Objects, g \in Handles : Speaks(u, g)' <=> Speaks(u, g) \/ (u = o /\ g = h)
      BY <2>1, <2>2, DefaultFacts DEF Speaks, joinable
    <2>6. \A g \in Handles : ~Speaks(o, g) BY <2>1, DefaultFacts DEF Speaks
    <2>7. SpeakOnce' BY <2>4, <2>5 DEF SpeakOnce
    <2>8. SpeakAll' BY <2>3, <2>5 DEF SpeakAll, Waits
    <2>9. SpeakKeep'
      <3> SUFFICES ASSUME NEW g \in Handles, NEW u \in Objects, Speaks(u, g)',
                          posix'[g].status = "running"
                   PROVE  \/ u \in alive' /\ object'[u].m_task = posix'[g].func
                          \/ /\ call'.op = "construct" /\ call'.obj = u
                             /\ call'.func = posix'[g].func
        BY DEF SpeakKeep
      <3>1. CASE g = h BY <2>2, <2>3, <2>4, <2>5, <3>1
      <3>2. CASE g # h
        <4>1. Speaks(u, g) /\ u \in alive BY <2>1, <2>5, <3>2, DefaultFacts DEF Speaks
        <4>2. posix[g].func = object[u].m_task
          BY <2>1, <2>3, <3>2, <4>1, DefaultFacts DEF SpeakKeep
        <4> QED BY <2>1, <2>3, <3>2, <4>1, <4>2
      <3> QED BY <3>1, <3>2
    <2>10. CallOK' BY <2>1, <2>2 DEF CallOK
    <2> QED BY <2>7, <2>8, <2>9, <2>10
  <1>9. ASSUME Save PROVE OwnerInv'
    <2>1. /\ call.op = "construct" /\ call.obj \in Objects \ alive /\ call.thread \in Handles
          /\ alive' = alive \cup {call.obj} /\ call' = NoCall /\ UNCHANGED posix
      BY <1>9 DEF Save, CallOK
    <2>2. PICK o \in Objects \ alive : o = call.obj BY <2>1
    <2>3. object \in [Objects -> Members] /\ call.func \in Functions \cup {Null}
      BY CallFacts DEF TypeOK
    <2>4. /\ object'[o].m_thread = call.thread /\ object'[o].m_task = call.func
          /\ ~object'[o].m_joined /\ ~object'[o].m_detached
          /\ \A u \in Objects \ {o} : object'[u] = object[u]
      BY <1>9, <2>1, <2>2, <2>3, NewRecords DEF Save
    <2>5. \A u \in Objects, h \in Handles : Speaks(u, h)' <=> Speaks(u, h)
      <3> TAKE u \in Objects, h \in Handles
      <3>1. CASE u = o BY <2>1, <2>2, <2>4, <3>1, SpeaksBy, DefaultFacts
      <3>2. CASE u # o BY <2>1, <2>2, <2>4, <3>2, SpeaksBy, DefaultFacts
      <3> QED BY <3>1, <3>2
    <2>6. SpeakOnce' /\ SpeakAll' BY <2>1, <2>5, SameSpeakers DEF Waits
    <2>7. SpeakKeep'
      <3> SUFFICES ASSUME NEW h \in Handles, NEW u \in Objects, Speaks(u, h),
                          posix[h].status = "running"
                   PROVE  u \in alive' /\ object'[u].m_task = posix[h].func
        BY <2>1, <2>5 DEF SpeakKeep
      <3>1. CASE u = o BY <2>1, <2>2, <2>4, <3>1 DEF SpeakKeep
      <3>2. CASE u # o
        BY <2>1, <2>2, <2>4, <3>2 DEF SpeakKeep
      <3> QED BY <3>1, <3>2
    <2>8. CallOK' BY <2>1, DefaultFacts DEF CallOK
    <2> QED BY <2>6, <2>7, <2>8
  <1>10. ASSUME NEW o \in Objects, NEW other \in Objects, call = NoCall, call' = call,
                UNCHANGED posix, o # other,
                other \in alive, \A h \in Handles : ~Speaks(o, h),
                alive' = alive \cup {o},
                object' = [object EXCEPT ![o] = object[other], ![other] = Default]
         PROVE  OwnerInv'
    <2>1. /\ object'[o] = object[other] /\ object'[other] = Default
          /\ \A u \in Objects \ {o, other} : object'[u] = object[u]
      BY <1>10 DEF TypeOK
    <2>2. \A h \in Handles : Speaks(o, h)' <=> Speaks(other, h)
      <3>1. o \in alive' /\ other \in alive /\ call.op = "none" /\ call'.op = "none"
        BY <1>10, DefaultFacts
      <3> QED BY <2>1, <3>1 DEF Speaks, joinable
    <2>3. \A h \in Handles : ~Speaks(other, h)'
      BY <1>10, <2>1, DefaultFacts DEF Speaks, joinable
    <2>4. \A u \in Objects \ {o, other}, h \in Handles : Speaks(u, h)' <=> Speaks(u, h)
      BY <1>10, <2>1, SpeaksBy
    <2>5. SpeakOnce' /\ SpeakAll' BY <1>10, <2>2, <2>3, <2>4, MovedSpeakers
    <2>6. SpeakKeep'
      <3> SUFFICES ASSUME NEW h \in Handles, NEW u \in Objects, Speaks(u, h)',
                          posix[h].status = "running"
                   PROVE  u \in alive' /\ object'[u].m_task = posix[h].func
        BY <1>10 DEF SpeakKeep
      <3>1. CASE u = o BY <1>10, <2>1, <2>2, <3>1, DefaultFacts DEF SpeakKeep
      <3>2. CASE u # o
        <4>1. u # other /\ Speaks(u, h) BY <2>3, <2>4, <3>2
        <4> QED BY <1>10, <2>1, <3>2, <4>1, DefaultFacts DEF SpeakKeep
      <3> QED BY <3>1, <3>2
    <2>7. CallOK' BY <1>10, DefaultFacts DEF CallOK
    <2> QED BY <2>5, <2>6, <2>7
  <1>11. ASSUME NEW o \in Objects, NEW other \in Objects, MoveConstruct(o, other) PROVE OwnerInv'
    <2>1. /\ call = NoCall /\ call' = call /\ UNCHANGED posix /\ o \notin alive /\ other \in alive
          /\ alive' = alive \cup {o}
          /\ object' = [object EXCEPT ![o] = object[other], ![other] = Default]
      BY <1>11 DEF MoveConstruct, Idle, MovedFrom
    <2>2. \A h \in Handles : ~Speaks(o, h) BY <2>1, DefaultFacts DEF Speaks
    <2> QED BY <2>1, <2>2, <1>10
  <1>12. ASSUME NEW o \in Objects, NEW other \in Objects, MoveAssign(o, other), ~Terminate
         PROVE  OwnerInv'
    <2>1. /\ call = NoCall /\ call' = call /\ UNCHANGED posix /\ o \in alive /\ other \in alive
          /\ o # other /\ alive' = alive /\ ~joinable(o)
          /\ object' = [object EXCEPT ![o] = object[other], ![other] = Default]
      BY <1>12 DEF MoveAssign, Idle, MovedFrom, Terminates
    <2>2. alive' = alive \cup {o} BY <2>1
    <2>3. \A h \in Handles : ~Speaks(o, h) BY <2>1, DefaultFacts DEF Speaks
    <2> QED BY <2>1, <2>2, <2>3, <1>10
  <1>13. ASSUME NEW o \in Objects, NEW other \in Objects, swap(o, other) PROVE OwnerInv'
    <2>1. /\ call = NoCall /\ o \in alive /\ other \in alive /\ UNCHANGED <<alive, posix, call>>
      BY <1>13 DEF swap, Idle
    <2>2. /\ object'[o] = object[other] /\ object'[other] = object[o]
          /\ \A u \in Objects \ {o, other} : object'[u] = object[u]
      BY <1>13 DEF swap, TypeOK
    <2>3. /\ \A h \in Handles : Speaks(o, h)' <=> Speaks(other, h)
          /\ \A h \in Handles : Speaks(other, h)' <=> Speaks(o, h)
      BY <2>1, <2>2, SpeaksBy, DefaultFacts
    <2>4. \A u \in Objects \ {o, other}, h \in Handles : Speaks(u, h)' <=> Speaks(u, h)
      BY <2>1, <2>2, SpeaksBy
    <2>5. SpeakOnce' /\ SpeakAll' BY <2>1, <2>3, <2>4, MovedSpeakers
    <2>6. SpeakKeep'
      <3> SUFFICES ASSUME NEW h \in Handles, NEW u \in Objects, Speaks(u, h)',
                          posix[h].status = "running"
                   PROVE  u \in alive' /\ object'[u].m_task = posix[h].func
        BY <2>1 DEF SpeakKeep
      <3>1. CASE u = o BY <2>1, <2>2, <2>3, <3>1, DefaultFacts DEF SpeakKeep
      <3>2. CASE u = other BY <2>1, <2>2, <2>3, <3>2, DefaultFacts DEF SpeakKeep
      <3>3. CASE u \notin {o, other} BY <2>1, <2>2, <2>4, <3>3, DefaultFacts DEF SpeakKeep
      <3> QED BY <3>1, <3>2, <3>3
    <2>7. CallOK' BY <2>1, DefaultFacts DEF CallOK
    <2> QED BY <2>5, <2>6, <2>7
  <1>14. ASSUME JoinReturns PROVE OwnerInv'
    <2>1. /\ call.op = "join" /\ call.obj \in alive /\ joinable(call.obj)
          /\ object[call.obj].m_thread = call.thread
          /\ call' = NoCall /\ UNCHANGED alive
      BY <1>14 DEF JoinReturns, CallOK
    <2>2. PICK o \in Objects : o = call.obj BY <2>1 DEF TypeOK
    <2>3. PICK h \in Handles : h = call.thread
      <3>1. call.thread \in Handles \cup {Null} BY CallFacts DEF TypeOK
      <3> QED BY <2>1, <3>1 DEF joinable
    <2>4. object \in [Objects -> Members] /\ posix \in [Handles -> PosixThread] BY DEF TypeOK
    <2>5. posix'[h] = Gone /\ \A g \in Handles \ {h} : posix'[g] = posix[g]
      BY <1>14, <2>3, <2>4 DEF JoinReturns
    <2>6. object' = [object EXCEPT ![o] = Joined(object[o])]
      BY <1>14, <2>2 DEF JoinReturns, Joined
    <2>7. object'[o].m_joined /\ \A u \in Objects \ {o} : object'[u] = object[u]
      <3>1. Joined(object[o]).m_joined BY <2>4, MemberFacts
      <3> QED BY <2>4, <2>6, <3>1
    <2>8. Speaks(o, h) BY <2>1, <2>2, <2>3 DEF Speaks
    <2>9. \A u \in Objects, g \in Handles : Speaks(u, g)' <=> Speaks(u, g) /\ u # o
      <3> TAKE u \in Objects, g \in Handles
      <3>1. CASE u = o BY <2>1, <2>7, <3>1, DefaultFacts DEF Speaks, joinable
      <3>2. CASE u # o BY <2>1, <2>7, <3>2, SpeaksBy, DefaultFacts
      <3> QED BY <3>1, <3>2
    <2>10. \A u \in Objects : ~Speaks(u, h)' BY <2>8, <2>9 DEF SpeakOnce
    <2>11. \A u \in Objects, g \in Handles \ {h} : Speaks(u, g)' <=> Speaks(u, g)
      <3>1. \A g \in Handles \ {h} : ~Speaks(o, g)
        BY <2>1, <2>2, <2>3 DEF Speaks
      <3> QED BY <2>9, <3>1
    <2>12. ~Waits(h)' /\ \A g \in Handles \ {h} : Waits(g)' <=> Waits(g)
      BY <2>5, DefaultFacts DEF Waits
    <2>13. SpeakOnce' /\ SpeakAll' BY <2>10, <2>11, <2>12, SpokenFor
    <2>14. SpeakKeep'
      <3> SUFFICES ASSUME NEW g \in Handles, NEW u \in Objects, Speaks(u, g)',
                          posix'[g].status = "running"
                   PROVE  u \in alive' /\ object'[u].m_task = posix'[g].func
        BY DEF SpeakKeep
      <3>1. g # h /\ u # o /\ Speaks(u, g) BY <2>9, <2>10
      <3> QED BY <2>1, <2>5, <2>7, <3>1 DEF SpeakKeep
    <2>15. CallOK' BY <2>1, DefaultFacts DEF CallOK
    <2> QED BY <2>13, <2>14, <2>15
  <1>15. ASSUME NEW h \in Handles, ThreadEnds(h), ~Terminate PROVE OwnerInv'
    <2>1. UNCHANGED <<object, alive, call>> /\ posix[h].status = "running"
          /\ posix' = [posix EXCEPT ![h] = IF @.detached THEN Gone ELSE Ended(@)]
      BY <1>15 DEF ThreadEnds, Ended
    <2>2. posix \in [Handles -> PosixThread] BY DEF TypeOK
    <2>3. /\ \A g \in Handles \ {h} : posix'[g] = posix[g]
          /\ posix'[h] = IF posix[h].detached THEN Gone ELSE Ended(posix[h])
      BY <2>1, <2>2
    <2>4. posix'[h].status # "running" /\ (Waits(h)' <=> Waits(h))
      BY <2>1, <2>2, <2>3, PosixFacts, DefaultFacts DEF Waits
    <2>5. \A u \in Objects, g \in Handles : Speaks(u, g)' <=> Speaks(u, g)
      BY <2>1, SpeaksBy
    <2>6. \A g \in Handles : Waits(g)' <=> Waits(g) BY <2>3, <2>4 DEF Waits
    <2>7. SpeakOnce' /\ SpeakAll' BY <2>5, <2>6, SameSpeakers
    <2>8. SpeakKeep' BY <2>1, <2>3, <2>4, <2>5 DEF SpeakKeep
    <2>9. CallOK' BY <2>1 DEF CallOK, joinable
    <2> QED BY <2>7, <2>8, <2>9
  <1> QED
    BY <1>2, <1>3, <1>4, <1>5, <1>6, <1>7, <1>8, <1>9, <1>11, <1>12, <1>13, <1>14, <1>15
    DEF Next, ProgramStep

Inductive == TypeOK /\ OwnerInv

THEOREM InductiveAlways == Spec => []Inductive
  <1>1. Init => Inductive
    BY DefaultFacts DEF Init, Inductive, TypeOK, OwnerInv, SpeakOnce, SpeakAll, SpeakKeep, CallOK,
       Speaks, Waits
  <1>2. Inductive /\ [Next]_vars => Inductive'
    <2> SUFFICES ASSUME Inductive, [Next]_vars PROVE Inductive' OBVIOUS
    <2>1. TypeOK /\ CallOK /\ OwnerInv BY DEF Inductive, OwnerInv
    <2>2. TypeOK' BY <2>1, StepTyped
    <2>3. OwnerInv' BY <2>1, <2>2, StepOwned
    <2> QED BY <2>2, <2>3 DEF Inductive
  <1> QED BY <1>1, <1>2, PTL DEF Spec

THEOREM TypeCorrect == Spec => []TypeOK
  BY InductiveAlways, PTL DEF Inductive

\* No thread is lost and none has two owners (thread.hpp 38-65, 72-76, 121-126), for any number of
\* objects, threads and calls.
THEOREM EveryThreadOwned == Spec => []OneOwner
  <1>1. Inductive => OneOwner
    <2> SUFFICES ASSUME Inductive, NEW h \in Handles, Waits(h)
                 PROVE  \E o \in Objects : \A u \in Objects : Speaks(u, h) <=> u = o
      BY DEF OneOwner, Waits
    <2>1. PICK o \in Objects : Speaks(o, h) BY DEF Inductive, OwnerInv, SpeakAll
    <2>2. \A u \in Objects : Speaks(u, h) <=> u = o BY <2>1 DEF Inductive, OwnerInv, SpeakOnce
    <2> QED BY <2>2
  <1> QED BY <1>1, InductiveAlways, PTL

\* A joinable object names a thread that can be joined (thread.hpp 79-113).
THEOREM JoinableIsThere == Spec => []HandlesValid
  <1>1. Inductive => HandlesValid
    <2> SUFFICES ASSUME Inductive, NEW o \in alive, joinable(o)
                 PROVE  Waits(object[o].m_thread)
      BY DEF HandlesValid, Waits
    <2>1. o \in Objects /\ object[o] \in Members BY DEF Inductive, TypeOK
    <2>2. object[o].m_thread \in Handles BY <2>1, MemberFacts DEF joinable
    <2>3. Speaks(o, object[o].m_thread) BY DEF Speaks
    <2> QED BY <2>1, <2>2, <2>3 DEF Inductive, OwnerInv, SpeakAll
  <1> QED BY <1>1, InductiveAlways, PTL

\* The function of a running thread that is not detached is kept (thread.hpp 23-34, 40, 56, 123).
THEOREM FunctionIsKept == Spec => []FunctionKept
  <1>1. Inductive => FunctionKept
    <2> SUFFICES ASSUME Inductive, NEW h \in Handles, posix[h].status = "running",
                        ~posix[h].detached
                 PROVE  Kept(posix[h].func)
      BY DEF FunctionKept
    <2>1. PICK o \in Objects : Speaks(o, h) BY DEF Inductive, OwnerInv, SpeakAll, Waits
    <2> QED BY <2>1 DEF Inductive, OwnerInv, SpeakKeep, Kept
  <1> QED BY <1>1, InductiveAlways, PTL
=============================================================================
