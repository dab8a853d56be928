------------------------- MODULE MCCompletionEvent ---------------------------
(* Three dependents wait for the event; the closure notifies all of them,  *)
(* another thread only one, and a third one tries the lock.                *)
EXTENDS CompletionEvent
=============================================================================
