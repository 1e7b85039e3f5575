------------------------------ MODULE MCEvsState ------------------------------
(* The instances of EvsState that TLC checks. *)
EXTENDS EvsState

MCGear == {"REVERSE", "PARK", "DRIVE"}
MCSignal == {"NONE", "LEFT", "RIGHT"}
\* No camera for the right turn signal: a state that leaves the display off.
SomeCameras == [s \in State |-> CASE s = "REVERSE" -> 1 [] s = "LEFT" -> 2 [] OTHER -> 0]
\* Without turn signal notifications (evs_app.cpp:135).
GearNotified == {"gear"}
AllFaults == FaultKinds
=============================================================================
