----------------------------- MODULE MCDisplay -----------------------------
(* Two pixels, two colours and a byte that is neither, two presses and two
   runs: a key of the first run is still there in the second. *)
EXTENDS Display

MCPixels == {1, 2}
=============================================================================
