----------------------------- MODULE LastOwner -----------------------------
(***************************************************************************)
(* What the EVS enumerator promises about a resource that clients open,    *)
(* the display or a camera: whoever opens it last has it, alone, and who   *)
(* has lost it never has it again, whatever it calls.  Each opening makes  *)
(* an object.  EvsOwner implements this specification for its display and  *)
(* for each of its cameras.                                                *)
(***************************************************************************)
CONSTANT Object

VARIABLES
  access,  \* the objects that have the resource
  opened   \* the objects that ever opened it

ownerVars == <<access, opened>>

OwnerInit == access = {} /\ opened = {}

\* Opening takes the resource away from whoever has it.
Acquire(o) == o \notin opened /\ access' = {o} /\ opened' = opened \union {o}

\* It is given back, taken away, or lost with its client.
Lose == access' = {} /\ UNCHANGED opened

OwnerNext == Lose \/ \E o \in Object : Acquire(o)

OwnerSpec == OwnerInit /\ [][OwnerNext]_ownerVars
=============================================================================
