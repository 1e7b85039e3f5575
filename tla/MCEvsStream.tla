----------------------------- MODULE MCEvsStream -----------------------------
(* The instances of EvsStream that TLC checks. *)
EXTENDS EvsStream

CONSTANTS f1, f2, f3

\* The three buffers the handler asks the camera for.
ThreeFrames == {f1, f2, f3}
=============================================================================
