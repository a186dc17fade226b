------------------------------ MODULE MCSystem ------------------------------
(* Two programs of two sizes, a RAM that holds one process of each, or two of
   the smaller, and programs that overwrite their first byte and their last one.
   The framebuffer, which nothing here touches, is empty. *)
EXTENDS System

MCBinaries == {<<0, 2>>, <<0, 2, 3>>}
MCTouched(n) == {0, n - 1}
=============================================================================
