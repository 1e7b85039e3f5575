----------------------------- MODULE MCEvsOwner -----------------------------
(* The instances of EvsOwner that TLC checks. *)
EXTENDS EvsOwner, TLC

CONSTANTS c1, c2, v0, v1

TwoClients == {c1, c2}
TwoDevices == {v0, v1}
\* A camera of each device, and a logical one of both, as in
\* evs_hal/resources/imx_evs_configuration.xml.
ThreeRecords == {"left", "right", "group0"}
OneGroup == {"group0"}
RecordDevices == [r \in ThreeRecords |->
  CASE r = "left" -> {v0} [] r = "right" -> {v1} [] r = "group0" -> {v0, v1}]
\* Nothing in Spec or its properties tells one client from the other.
Clients == Permutations(TwoClients)
=============================================================================
