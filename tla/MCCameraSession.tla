-------------------------- MODULE MCCameraSession --------------------------
(* The instances of CameraSession that TLC checks. *)
EXTENDS CameraSession, TLC

CONSTANTS s0, s1, b0, b1

TwoStreams == {s0, s1}
TwoBuffers == {b0, b1}
Sizes == {"small", "large"}
\* One frame is omitted at the large size.
OmitLarge == [c \in Sizes \union {NULL} |-> IF c = "large" THEN 1 ELSE 0]

Ask(p, c, ss) == [pipeline |-> p, config |-> c, streams |-> ss]
\* One element of two cameras that sets the configuration; or two elements of
\* one each, the second with another configuration.
Requests ==
  UNION {{<<Ask(p, "small", {s0, s1})>>,
          <<Ask(p, NULL, {s0}), Ask(p, "large", {s1})>>} : p \in Pipeline}
\* Nothing in Spec or its properties tells one buffer from another.
Buffers == Permutations(TwoBuffers)
=============================================================================
