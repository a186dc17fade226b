------------------------------- MODULE MCHeap -------------------------------
(* A heap of a few chunks for TLC.  A cell has 5 values, so that dimensions
   need both bytes of a header.  The bytes a program stores are those that
   look like a status. *)
EXTENDS Heap

MCSizes == {0, 1, 4}
MCPayloads == {OWNED}
=============================================================================
