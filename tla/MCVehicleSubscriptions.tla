----------------------- MODULE MCVehicleSubscriptions -----------------------
(* The instances of VehicleSubscriptions that TLC checks. *)
EXTENDS VehicleSubscriptions

CONSTANTS c0, c1, p0, p1, t0, t1

TwoClients == {c0, c1}
TwoProps == {p0, p1}
TwoThreads == {t0, t1}

Ask(f, r) == [flags |-> f, rate |-> r]
\* Slow or fast events of the car; what others set; both properties at once.
Requests ==
  {[Nothing EXCEPT ![p0] = Ask({"car"}, 1)],
   [Nothing EXCEPT ![p0] = Ask({"car"}, 2)],
   [Nothing EXCEPT ![p0] = Ask({"android"}, 2)],
   [p \in Prop |-> Ask({"car", "android"}, 1)]}
=============================================================================
