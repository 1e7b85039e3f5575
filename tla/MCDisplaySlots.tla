---------------------------- MODULE MCDisplaySlots ----------------------------
(* The instances of DisplaySlots that TLC checks. *)
EXTENDS DisplaySlots

EnvAll == EnvKinds
=============================================================================
