------------------------------- MODULE Thread --------------------------------
(***************************************************************************)
(* thread.hpp: Thread objects, each the owner of at most one POSIX thread  *)
(* and of the function object it runs.  One program makes, moves, swaps,   *)
(* joins, detaches and destroys the objects, one call at a time; the       *)
(* threads run beside it.  A POSIX thread that is joined, or detached and  *)
(* ended, is gone and its pthread_t may name a later one.                  *)
(*                                                                         *)
(* pthread_create may fail for want of resources; the constructor throws   *)
(* and nothing is left, as when join and detach throw on an object that is *)
(* not joinable.  Those calls change nothing and have no action.           *)
(***************************************************************************)
EXTENDS FiniteSets

CONSTANTS
  Objects, Handles, Functions,
  Throwing,        \* the functions that throw
  Null             \* m_thread = 0, an empty m_task, no object

ASSUME ThreadAssumption == /\ Throwing \subseteq Functions
                           /\ Null \notin Objects \cup Handles \cup Functions

VARIABLES
  object,          \* the members of each object
  alive,           \* the objects that exist
  posix,           \* the POSIX thread of each pthread_t
  call,            \* a constructor after pthread_create, a join that waits
  terminated       \* std::terminate has run

vars == <<object, alive, posix, call, terminated>>

Default == [m_thread |-> Null, m_task |-> Null, m_joined |-> FALSE, m_detached |-> FALSE]
Gone    == [status |-> "gone", func |-> Null, detached |-> FALSE]
NoCall  == [op |-> "none", obj |-> Null, func |-> Null, thread |-> Null]

Members     == [m_thread : Handles \cup {Null}, m_task : Functions \cup {Null},
                m_joined : BOOLEAN, m_detached : BOOLEAN]
PosixThread == [status : {"gone", "running", "ended"}, func : Functions \cup {Null},
                detached : BOOLEAN]
PendingCall == [op : {"none", "construct", "join"}, obj : Objects \cup {Null},
                func : Functions \cup {Null}, thread : Handles \cup {Null}]

TypeOK ==
  /\ object \in [Objects -> Members] /\ alive \subseteq Objects
  /\ posix \in [Handles -> PosixThread]
  /\ call \in PendingCall
  /\ terminated \in BOOLEAN
  /\ \A o \in Objects : object[o].m_thread = Null \/ o \notin alive => object[o] = Default

Init == /\ object = [o \in Objects |-> Default] /\ alive = {}
        /\ posix = [h \in Handles |-> Gone]
        /\ call = NoCall /\ terminated = FALSE

joinable(o) == object[o].m_thread # Null /\ ~object[o].m_joined /\ ~object[o].m_detached

\* The shared_ptr counts: who keeps function object f from being destroyed.
Kept(f) == (\E o \in alive : object[o].m_task = f) \/ call.func = f

Idle == ~terminated /\ call = NoCall

-----------------------------------------------------------------------------
(* Construction. *)

ConstructDefault(o) ==
  /\ Idle /\ o \notin alive
  /\ alive' = alive \cup {o}
  /\ UNCHANGED <<object, posix, call, terminated>>

\* The new thread may run, and end, before the constructor has set m_task.
Create(o, h, f) ==
  /\ Idle /\ o \notin alive /\ posix[h] = Gone
  /\ ~Kept(f) /\ \A g \in Handles : posix[g].func # f
  /\ posix' = [posix EXCEPT ![h] = [status |-> "running", func |-> f, detached |-> FALSE]]
  /\ call' = [op |-> "construct", obj |-> o, func |-> f, thread |-> h]
  /\ UNCHANGED <<object, alive, terminated>>

Save ==
  /\ ~terminated /\ call.op = "construct"
  /\ object' = [object EXCEPT ![call.obj] = [m_thread |-> call.thread, m_task |-> call.func,
                                             m_joined |-> FALSE, m_detached |-> FALSE]]
  /\ alive' = alive \cup {call.obj}
  /\ call' = NoCall
  /\ UNCHANGED <<posix, terminated>>

\* The members that other keeps when it is moved from.
MovedFrom_KeepsHandle(other) == [Default EXCEPT !.m_thread = object[other].m_thread]
MovedFrom_KeepsFlags(other) == [object[other] EXCEPT !.m_thread = Null, !.m_task = Null]
MovedFrom(other) == Default

MoveConstruct(o, other) ==
  /\ Idle /\ o \notin alive /\ other \in alive
  /\ object' = [object EXCEPT ![o] = object[other], ![other] = MovedFrom(other)]
  /\ alive' = alive \cup {o}
  /\ UNCHANGED <<posix, call, terminated>>

-----------------------------------------------------------------------------
(* Assignment, swap, destruction. *)

Terminates_Never(o) == FALSE
\* What assigning to o or destroying it must not throw away.
Terminates(o) == joinable(o)

Terminate == terminated' = TRUE /\ UNCHANGED <<object, alive, posix, call>>

MoveAssign(o, other) ==
  /\ Idle /\ {o, other} \subseteq alive /\ o # other
  /\ IF Terminates(o)
       THEN Terminate
       ELSE /\ object' = [object EXCEPT ![o] = object[other], ![other] = MovedFrom(other)]
            /\ UNCHANGED <<alive, posix, call, terminated>>

Swap_KeepsTasks(o, other) ==
  /\ Idle /\ {o, other} \subseteq alive
  /\ object' = [object EXCEPT ![o] = [object[other] EXCEPT !.m_task = object[o].m_task],
                              ![other] = [object[o] EXCEPT !.m_task = object[other].m_task]]
  /\ UNCHANGED <<alive, posix, call, terminated>>

swap(o, other) ==
  /\ Idle /\ {o, other} \subseteq alive
  /\ object' = [object EXCEPT ![o] = object[other], ![other] = object[o]]
  /\ UNCHANGED <<alive, posix, call, terminated>>

Destroy(o) ==
  /\ Idle /\ o \in alive
  /\ IF Terminates(o)
       THEN Terminate
       ELSE /\ alive' = alive \ {o} /\ object' = [object EXCEPT ![o] = Default]
            /\ UNCHANGED <<posix, call, terminated>>

-----------------------------------------------------------------------------
(* join and detach. *)

Join(o) ==
  /\ Idle /\ o \in alive /\ joinable(o)
  /\ call' = [op |-> "join", obj |-> o, func |-> Null, thread |-> object[o].m_thread]
  /\ UNCHANGED <<object, alive, posix, terminated>>

JoinReturns_Unmarked ==
  /\ ~terminated /\ call.op = "join" /\ posix[call.thread].status = "ended"
  /\ posix' = [posix EXCEPT ![call.thread] = Gone]
  /\ call' = NoCall
  /\ UNCHANGED <<object, alive, terminated>>

JoinReturns ==
  /\ ~terminated /\ call.op = "join" /\ posix[call.thread].status = "ended"
  /\ posix' = [posix EXCEPT ![call.thread] = Gone]
  /\ object' = [object EXCEPT ![call.obj] = [@ EXCEPT !.m_joined = TRUE]]
  /\ call' = NoCall
  /\ UNCHANGED <<alive, terminated>>

detach(o) ==
  /\ Idle /\ o \in alive /\ joinable(o)
  /\ LET h == object[o].m_thread IN
       posix' = [posix EXCEPT ![h] = IF @.status = "ended" THEN Gone
                                                           ELSE [@ EXCEPT !.detached = TRUE]]
  /\ object' = [object EXCEPT ![o] = [@ EXCEPT !.m_detached = TRUE]]
  /\ UNCHANGED <<alive, call, terminated>>

-----------------------------------------------------------------------------
\* threadEntry: the function returns, or what it throws ends the process.
ThreadEnds(h) ==
  /\ ~terminated /\ posix[h].status = "running"
  /\ IF posix[h].func \in Throwing
       THEN Terminate
       ELSE /\ posix' = [posix EXCEPT ![h] = IF @.detached THEN Gone
                                             ELSE [@ EXCEPT !.status = "ended", !.func = Null]]
            /\ UNCHANGED <<object, alive, call, terminated>>

ProgramStep ==
  \/ \E o \in Objects : ConstructDefault(o) \/ Destroy(o) \/ Join(o) \/ detach(o)
  \/ \E o \in Objects, h \in Handles, f \in Functions : Create(o, h, f)
  \/ \E o, other \in Objects : MoveConstruct(o, other) \/ MoveAssign(o, other) \/ swap(o, other)
  \/ Save
  \/ JoinReturns

Next == ProgramStep \/ \E h \in Handles : ThreadEnds(h)

Spec == Init /\ [][Next]_vars

-----------------------------------------------------------------------------
(* Properties. *)

\* What speaks for the POSIX thread of h: a joinable object, or the constructor that made it.
Speaks(o, h) == \/ o \in alive /\ joinable(o) /\ object[o].m_thread = h
                \/ call.op = "construct" /\ call.obj = o /\ call.thread = h

\* A thread that is not detached and not joined has exactly one Thread that can join it, whatever
\* moves, swaps and destructions have gone before: none is lost, none has two owners (thread.hpp
\* 38-65, 72-76, 121-126).
OneOwner == \A h \in Handles : posix[h].status # "gone" /\ ~posix[h].detached
                                  => \E o \in Objects : \A u \in Objects : Speaks(u, h) <=> u = o

\* An object that is joinable names a thread that is there to be joined or detached, although
\* joined and detached objects keep a pthread_t that a later thread may have got (thread.hpp
\* 79-113).
HandlesValid == \A o \in alive : joinable(o) => /\ posix[object[o].m_thread].status # "gone"
                                                /\ ~posix[object[o].m_thread].detached

\* The function object of a running thread that is not detached is not destroyed (thread.hpp
\* 23-34, 40, 56, 123).
FunctionKept == \A h \in Handles : posix[h].status = "running" /\ ~posix[h].detached
                                      => Kept(posix[h].func)

\* The comment on m_task says more (thread.hpp:33): the task is kept so that it is not destroyed
\* too early, for every thread that runs.
TaskSaved == \A h \in Handles : posix[h].status = "running" => Kept(posix[h].func)
=============================================================================
