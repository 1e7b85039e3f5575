----------------------------- MODULE MCEvsCamera -----------------------------
(* The instances of EvsCamera that TLC checks. *)
EXTENDS EvsCamera, TLC

CONSTANTS m1, m2, m3

MCMemory == {m1, m2, m3}

\* Every behaviour of the environment.
EnvAll == EnvKinds
\* Frames returned after the camera was closed, as ~VideoTex()
\* of evs_app and a stolen camera lead to.
EnvLate == {"late", "steal"}
\* The client sets the number of buffers once and returns frames only while
\* the camera is open; it may die, and the enumerator may close the camera at
\* any time.
EnvSteady == {"steal", "death"}
=============================================================================
