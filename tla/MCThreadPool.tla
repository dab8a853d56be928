---------------------------- MODULE MCThreadPool -----------------------------
(* A pool of two workers, a ring of two slots and two clients, one of which *)
(* finds the ring full when no worker has taken anything yet.               *)
EXTENDS ThreadPool, TLC

CONSTANTS p1, p2, x1, x2, x3

TwoClients == p1 :> <<x1, x2>> @@ p2 :> <<x3>>
=============================================================================
