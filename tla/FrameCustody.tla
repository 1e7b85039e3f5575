---------------------------- MODULE FrameCustody ----------------------------
(***************************************************************************)
(* What an EVS camera promises its client about frames, whatever its       *)
(* threads and buffers do: every frame buffer has one owner at a time,     *)
(* frames are lent only while the stream is open, and the end of the       *)
(* stream is announced once nothing can be lent any more, and is final.    *)
(* EvsCamera implements this specification.                                *)
(***************************************************************************)
CONSTANT Frame

VARIABLES
  owner,   \* who may touch the buffer: "none", "driver", "hal" or "client"
  phase    \* of the stream: "idle", "open" or "ended"

custodyVars == <<owner, phase>>
Owners == {"none", "driver", "hal", "client"}

CustodyTypeOK == owner \in [Frame -> Owners] /\ phase \in {"idle", "open", "ended"}

CustodyInit == owner = [f \in Frame |-> "none"] /\ phase = "idle"

Pass(f, from, to) == owner[f] \in from /\ owner' = [owner EXCEPT ![f] = to]

\* A buffer is supplied to the driver, which fills it.
Supply(f) == Pass(f, {"none", "hal"}, "driver") /\ UNCHANGED phase
Fill(f) == Pass(f, {"driver"}, "hal") /\ UNCHANGED phase

\* A filled buffer is lent to the client, which gives it back.
Lend(f) == phase = "open" /\ Pass(f, {"hal"}, "client") /\ UNCHANGED phase
GiveBack(f) == Pass(f, {"client"}, "hal") /\ UNCHANGED phase

\* A buffer in the camera's hands is retired; the driver's are recalled at once.
Retire(f) == Pass(f, {"hal"}, "none") /\ UNCHANGED phase
Recall ==
  /\ owner' = [f \in Frame |-> IF owner[f] = "driver" THEN "none" ELSE owner[f]]
  /\ UNCHANGED phase

Turn(from, to) == phase = from /\ phase' = to /\ UNCHANGED owner
Open == Turn("idle", "open")
Close == Turn("open", "idle")
End == Turn("idle", "ended")

CustodyNext ==
  \/ \E f \in Frame : Supply(f) \/ Fill(f) \/ Lend(f) \/ GiveBack(f) \/ Retire(f)
  \/ Recall \/ Open \/ Close \/ End

CustodySpec == CustodyInit /\ [][CustodyNext]_custodyVars
=============================================================================
