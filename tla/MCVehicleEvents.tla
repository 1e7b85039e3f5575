--------------------------- MODULE MCVehicleEvents ---------------------------
(* The instances of VehicleEvents that TLC checks. *)
EXTENDS VehicleEvents

CONSTANTS speed, w0, w1

Speed == {speed}
TwoWriters == {w0, w1}
=============================================================================
