-------------------------- MODULE MCMemoryManager --------------------------
(* A small arena for TLC: enough room for four or five regions at once, with
   request sizes that leave holes of every shape. *)
EXTENDS MemoryManager

MCRequests == {1, 2, 3, 5}
=============================================================================
