------------------------------ MODULE TaskGraph ------------------------------
(***************************************************************************)
(* What the scheduler promises its users, without queues, maps or locks:   *)
(* the subtasks of a group start only when the whole group has been        *)
(* accepted, each starts at most once and after its dependencies have      *)
(* ended, and its result is handed over once, as it was produced.          *)
(***************************************************************************)
CONSTANTS
  SubTasks, Fetches,
  Group,         \* Group[s]: the subtasks accepted with s, the subtasks of its main task
  Before,        \* Before[s]: the dependencies of s, in its group or submitted before s
  Asked          \* Asked[f]: the subtask whose result f asks for

VARIABLES
  accepted,      \* subtasks submitted with success
  stage,         \* stage[s]: "waiting", "running" or how s ended
  answer         \* answer[f]: "none", or the result that f obtained

vars == <<accepted, stage, answer>>

Results  == {"value", "error"}
Ended(s) == stage[s] \in Results

Init == /\ accepted = {}
        /\ stage = [s \in SubTasks |-> "waiting"]
        /\ answer = [f \in Fetches |-> "none"]

Accept(s) == /\ s \notin accepted
             /\ accepted' = accepted \cup {s}
             /\ UNCHANGED <<stage, answer>>

Begin(s) == /\ stage[s] = "waiting"
            /\ Group[s] \subseteq accepted
            /\ \A d \in Before[s] \cap accepted : Ended(d)
            /\ stage' = [stage EXCEPT ![s] = "running"]
            /\ UNCHANGED <<accepted, answer>>

End(s) == /\ stage[s] = "running"
          /\ \E r \in Results : stage' = [stage EXCEPT ![s] = r]
          /\ UNCHANGED <<accepted, answer>>

Answer(f) == /\ answer[f] = "none" /\ Ended(Asked[f])
             /\ \A g \in Fetches : Asked[g] = Asked[f] => answer[g] = "none"
             /\ answer' = [answer EXCEPT ![f] = stage[Asked[f]]]
             /\ UNCHANGED <<accepted, stage>>

Next == \/ \E s \in SubTasks : Accept(s) \/ Begin(s) \/ End(s)
        \/ \E f \in Fetches : Answer(f)

Spec == Init /\ [][Next]_vars
=============================================================================
