------------------------------ MODULE MCThread -------------------------------
(* Three objects and two pthread_t, so that handles are reused while an object *)
(* that was joined or detached still keeps them; one function throws.          *)
EXTENDS Thread
=============================================================================
