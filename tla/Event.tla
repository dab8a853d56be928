-------------------------------- MODULE Event --------------------------------
(***************************************************************************)
(* What a completion event promises: it happens once and for all, nobody   *)
(* gets past it before it has happened, and then everybody does.           *)
(***************************************************************************)
CONSTANT Waiters

VARIABLES happened, past        \* past: the waiters that have got past the event

vars == <<happened, past>>

Init == happened = FALSE /\ past = {}

Happen == happened' = TRUE /\ UNCHANGED past

Pass(w) == /\ happened /\ w \notin past
           /\ past' = past \cup {w}
           /\ UNCHANGED happened

Next == Happen \/ \E w \in Waiters : Pass(w)

SafeSpec == Init /\ [][Next]_vars

Spec == /\ SafeSpec
        /\ \A w \in Waiters : WF_vars(Pass(w))
=============================================================================
