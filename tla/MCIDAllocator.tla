---------------------------- MODULE MCIDAllocator ----------------------------
(* Ints of five values, so that next_id goes round; batches of up to two ids, *)
(* with an id that is listed twice.                                           *)
EXTENDS IDAllocator

MCMinInt == -2
MCStarts == {1, -1}
MCCounts == {-1, 0, 2}
MCLists  == {<<>>, <<1, 1>>, <<2, 0>>}
=============================================================================
