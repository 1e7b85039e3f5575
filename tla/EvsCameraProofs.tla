--------------------------- MODULE EvsCameraProofs ---------------------------
(***************************************************************************)
(* Theorems about EvsCamera, for every number of buffers, every width of   *)
(* its counters, every memory and every behaviour of the environment:      *)
(* types, the custody of the buffers, and the refinement of FrameCustody.  *)
(* every frame is counted and none is lost, short of a lost update of the  *)
(* count.  For the clients that evs_app is one of: the maps agree and no   *)
(* thread ends the process.                                                *)
(***************************************************************************)
EXTENDS EvsCamera, FiniteSetTheorems, SequenceTheorems, TLAPS

-----------------------------------------------------------------------------
(* Type correctness.  TypeOK alone is not inductive: bNeeded is decremented *)
(* after a buffer was mapped, so it must be positive there.                 *)

TypeInv == TypeOK /\ (bpc = "publish" => bNeeded > 0)

LEMMA CountsAreCounts ==
  ASSUME NEW n \in Count PROVE Incr(n) \in Count /\ Decr(n) \in Count
BY CountsAssumption DEF Count, Incr, Decr

LEMMA InitTypeInv == Init => TypeInv
<1> SUFFICES ASSUME Init PROVE TypeInv
  OBVIOUS
<1>1. FlagsOK
  BY DEF Init, FlagsOK
<1>2. 0 \in Count /\ 0 \in Index
  BY CountsAssumption DEF Count, Index
<1>3. /\ fd \in {"open", "closed", "none"} /\ mRunMode \in SUBSET {"RUN", "STOPPING"}
      /\ mBufferMap \in [Index -> Count \union {-1}] \union [{} -> {-1}]
  BY DEF Init
<1>4. mCamBuffers \in Seq(Memory \union {NULL}) /\ bVec \in Seq(Memory \union {NULL})
  BY EmptySeq DEF Init
<1>5. queued \in [Index -> Memory \union {NULL}] /\ bNeeded \in 0 .. MAX_BUFFERS_IN_FLIGHT
  BY CountsAssumption DEF Init
<1>6. cpc \in CapturePC /\ bpc \in BinderPC /\ bpc # "publish"
      /\ bCall \in {"none", "setMax", "start", "stop", "shutdown", "done"}
  BY DEF Init, CapturePC, BinderPC
<1>7. DataOK
  BY <1>2, <1>3, <1>4, <1>5, <1>6 DEF Init, DataOK
<1>8. QED BY <1>1, <1>6, <1>7 DEF TypeInv, TypeOK

\* The flags keep their type: a leaf about Booleans is for Zenon.
LEMMA NextFlags == FlagsOK /\ [Next]_vars => FlagsOK'
<1> SUFFICES ASSUME FlagsOK, [Next]_vars PROVE FlagsOK'
  OBVIOUS
<1> USE DEF FlagsOK, camVars, bufVars, drvVars, capVars, binVars, cliVars, useVars
<1>1. CASE \E n \in 1 .. MAX_BUFFERS_IN_FLIGHT : setMaxFramesInFlight(n)
  BY <1>1, ZenonT(30) DEF setMaxFramesInFlight, Call
<1>2. CASE \E stream \in {"1.0", "1.1"} : startVideoStream(stream)
  BY <1>2, ZenonT(30) DEF startVideoStream, Call
<1>3. CASE stopVideoStream
  BY <1>3, ZenonT(30) DEF stopVideoStream, StopStream, Call
<1>4. CASE shutdown
  BY <1>4, ZenonT(30) DEF shutdown, StopStream, Call
<1>5. CASE \E i \in Index : doneWithFrame(i)
  BY <1>5, ZenonT(30) DEF doneWithFrame, Call
<1>6. CASE AwaitDecrease
  BY <1>6, ZenonT(30) DEF AwaitDecrease
<1>7. CASE DecreaseNotified
  BY <1>7, ZenonT(30) DEF DecreaseNotified, LeaveWait, Return
<1>8. CASE IncreaseMap
  BY <1>8, ZenonT(30) DEF IncreaseMap
<1>9. CASE IncreasePublish
  BY <1>9, ZenonT(30) DEF IncreasePublish
<1>10. CASE IncreaseDone
  BY <1>10, ZenonT(30) DEF IncreaseDone, Return
<1>11. CASE StreamOn
  BY <1>11, ZenonT(30) DEF StreamOn
<1>12. CASE StreamOnFails
  BY <1>12, ZenonT(30) DEF StreamOnFails
<1>13. CASE SpawnCapture
  BY <1>13, ZenonT(30) DEF SpawnCapture, Return
<1>14. CASE onStop
  BY <1>14, ZenonT(30) DEF onStop
<1>15. CASE JoinCapture
  BY <1>15, ZenonT(30) DEF JoinCapture
<1>16. CASE EndStream
  BY <1>16, ZenonT(30) DEF EndStream, Return
<1>17. CASE onClose
  BY <1>17, ZenonT(30) DEF onClose, onMemoryDestroy, Return
<1>18. CASE ReturnFrame
  BY <1>18, ZenonT(30) DEF ReturnFrame, Return, Store, onFrameReturn, DropFrame,
     RequeueFrame, onDecreaseMemoryBuffer
<1>19. CASE ReadRunMode
  BY <1>19, ZenonT(30) DEF ReadRunMode
<1>20. CASE DequeueFrame
  BY <1>20, ZenonT(30) DEF DequeueFrame
<1>21. CASE DequeueFails
  BY <1>21, ZenonT(30) DEF DequeueFails
<1>22. CASE LookUpFrame
  BY <1>22, ZenonT(30) DEF LookUpFrame
<1>23. CASE SkipFrame
  BY <1>23, ZenonT(30) DEF SkipFrame
<1>24. CASE ForwardFrame
  BY <1>24, ZenonT(30) DEF ForwardFrame
<1>25. CASE DeliverFrame
  BY <1>25, ZenonT(30) DEF DeliverFrame, Store
<1>26. CASE DeliveryFails
  BY <1>26, ZenonT(30) DEF DeliveryFails, Store
<1>27. CASE ReturnUndelivered
  BY <1>27, ZenonT(30) DEF ReturnUndelivered, onFrameReturn, DropFrame,
     RequeueFrame, onDecreaseMemoryBuffer
<1>28. CASE SpuriousWakeup
  BY <1>28, ZenonT(30) DEF SpuriousWakeup, LeaveWait, Return
<1>29. CASE ClientDies
  BY <1>29, ZenonT(30) DEF ClientDies
<1>30. CASE UNCHANGED vars
  BY <1>30 DEF vars
<1>31. QED
  BY <1>1, <1>2, <1>3, <1>4, <1>5, <1>6, <1>7, <1>8, <1>9, <1>10, <1>11, <1>12, <1>13, <1>14, <1>15,
     <1>16, <1>17, <1>18, <1>19, <1>20, <1>21, <1>22, <1>23, <1>24, <1>25, <1>26, <1>27, <1>28, <1>29, <1>30
     DEF Next, Calls, BinderSteps, CaptureSteps

\* A frame that comes back leaves the buffers well typed.
LEMMA FrameReturnTypes ==
  ASSUME DataOK, NEW i \in Index, onFrameReturn(i)
  PROVE  /\ mFramesAllowed' \in Count /\ mDecreasenum' \in Count
         /\ mBufferMap' \in [Index -> Count \union {-1}] \union [{} -> {-1}]
         /\ mCamBuffers' \in Seq(Memory \union {NULL})
         /\ live' \subseteq Memory
         /\ queued' \in [Index -> Memory \union {NULL}]
<1>1. CASE DropFrame(i)
  <2> USE <1>1 DEF DropFrame, onDecreaseMemoryBuffer
  <2>1. mFramesAllowed' \in Count
    BY CountsAreCounts DEF DataOK
  <2>2. mDecreasenum' \in Count
    BY CountsAssumption DEF DataOK, Count
  <2>3. live' \subseteq Memory
    BY DEF DataOK
  <2>4. mCamBuffers' \in Seq(Memory \union {NULL})
    BY ExceptSeq DEF DataOK, CanLookUp
  <2>5. mBufferMap' \in [Index -> Count \union {-1}] \union [{} -> {-1}]
    BY DEF DataOK, CanLookUp, Mapped
  <2>6. QED BY <2>1, <2>2, <2>3, <2>4, <2>5 DEF DataOK
<1>2. CASE RequeueFrame(i)
  <2>1. queued' \in [Index -> Memory \union {NULL}]
    BY <1>2 DEF DataOK, RequeueFrame, CanLookUp, BackedBy
  <2>2. QED
    BY <1>2, <2>1 DEF DataOK, RequeueFrame, bufVars
<1>3. QED BY <1>1, <1>2 DEF onFrameReturn

LEMMA NextData == TypeInv /\ [Next]_vars => DataOK' /\ (bpc' = "publish" => bNeeded' > 0)
<1> SUFFICES ASSUME TypeInv, [Next]_vars
             PROVE  DataOK' /\ (bpc' = "publish" => bNeeded' > 0)
  OBVIOUS
<1> USE CountsAssumption
    DEF TypeInv, TypeOK, DataOK, BinderPC, CapturePC, Streams,
        camVars, bufVars, drvVars, capVars, binVars, cliVars, useVars
<1>1. CASE \E n \in 1 .. MAX_BUFFERS_IN_FLIGHT : setMaxFramesInFlight(n)
  BY <1>1 DEF setMaxFramesInFlight, Call, Count
<1>2. CASE \E stream \in {"1.0", "1.1"} : startVideoStream(stream)
  BY <1>2 DEF startVideoStream, Call
<1>3. CASE stopVideoStream
  BY <1>3 DEF stopVideoStream, StopStream, Call
<1>4. CASE shutdown
  BY <1>4 DEF shutdown, StopStream, Call
<1>5. CASE \E i \in Index : doneWithFrame(i)
  BY <1>5 DEF doneWithFrame, Call
<1>6. CASE AwaitDecrease
  BY <1>6 DEF AwaitDecrease
<1>7. CASE DecreaseNotified
  BY <1>7 DEF DecreaseNotified, LeaveWait, Return
<1>8. CASE IncreaseMap
  <2> USE <1>8 DEF IncreaseMap
  <2>1. CASE fd = "open" /\ Unmapped # {} /\ live # Memory
    <3>1. PICK v \in FirstOf(Unmapped), s \in SlotFor, m \in Memory \ live :
            /\ live' = live \union {m}
            /\ bVec' = IF \E k \in DOMAIN mCamBuffers : mCamBuffers[k] = NULL
                         THEN mCamBuffers ELSE Append(mCamBuffers, m)
            /\ mBufferMap' = [mBufferMap EXCEPT ![v] = s]
            /\ queued' = IF requested THEN [queued EXCEPT ![v] = m] ELSE queued
            /\ bpc' = "publish"
      BY <2>1
    <3>2. s \in Count \union {-1}
      BY DEF SlotFor, FreeSlots, FirstOf, Count
    <3>3. mBufferMap' \in [Index -> Count \union {-1}] \union [{} -> {-1}]
      BY <3>1, <3>2, <2>1 DEF FirstOf, Unmapped, Mapped
    <3>4. bVec' \in Seq(Memory \union {NULL})
      BY <3>1, AppendProperties
    <3>5. queued' \in [Index -> Memory \union {NULL}]
      BY <3>1
    <3>6. QED BY <3>1, <3>3, <3>4, <3>5
  <2>2. CASE ~(fd = "open" /\ Unmapped # {} /\ live # Memory)
    BY <2>2
  <2>3. QED BY <2>1, <2>2
<1>9. CASE IncreasePublish
  BY <1>9, CountsAreCounts DEF IncreasePublish
<1>10. CASE IncreaseDone
  BY <1>10 DEF IncreaseDone, Return
<1>11. CASE StreamOn
  BY <1>11 DEF StreamOn
<1>12. CASE StreamOnFails
  BY <1>12 DEF StreamOnFails
<1>13. CASE SpawnCapture
  BY <1>13 DEF SpawnCapture, Return
<1>14. CASE onStop
  BY <1>14 DEF onStop
<1>15. CASE JoinCapture
  BY <1>15 DEF JoinCapture
<1>16. CASE EndStream
  BY <1>16 DEF EndStream, Return
<1>17. CASE onClose
  BY <1>17 DEF onClose, onMemoryDestroy, Return
<1>18. CASE ReturnFrame
  <2>1. mFramesInUse' \in Count
    BY <1>18, CountsAreCounts DEF ReturnFrame, Store
  <2>2. QED BY <1>18, <2>1, FrameReturnTypes DEF ReturnFrame, Return
<1>19. CASE ReadRunMode
  BY <1>19 DEF ReadRunMode
<1>20. CASE DequeueFrame
  BY <1>20 DEF DequeueFrame
<1>21. CASE DequeueFails
  BY <1>21 DEF DequeueFails
<1>22. CASE LookUpFrame
  BY <1>22 DEF LookUpFrame, CanLookUp, BackedBy
<1>23. CASE SkipFrame
  BY <1>23 DEF SkipFrame
<1>24. CASE ForwardFrame
  BY <1>24 DEF ForwardFrame
<1>25. CASE DeliverFrame
  BY <1>25, CountsAreCounts DEF DeliverFrame, Store
<1>26. CASE DeliveryFails
  BY <1>26, CountsAreCounts DEF DeliveryFails, Store
<1>27. CASE ReturnUndelivered
  BY <1>27, FrameReturnTypes DEF ReturnUndelivered
<1>28. CASE SpuriousWakeup
  BY <1>28 DEF SpuriousWakeup, LeaveWait, Return
<1>29. CASE ClientDies
  BY <1>29 DEF ClientDies
<1>30. CASE UNCHANGED vars
  BY <1>30 DEF vars
<1>31. QED
  BY <1>1, <1>2, <1>3, <1>4, <1>5, <1>6, <1>7, <1>8, <1>9, <1>10, <1>11, <1>12, <1>13, <1>14, <1>15,
     <1>16, <1>17, <1>18, <1>19, <1>20, <1>21, <1>22, <1>23, <1>24, <1>25, <1>26, <1>27, <1>28, <1>29, <1>30
     DEF Next, Calls, BinderSteps, CaptureSteps

LEMMA NextTypeInv == TypeInv /\ [Next]_vars => TypeInv'
BY NextFlags, NextData DEF TypeInv, TypeOK

\* Every variable of the camera keeps its type.
THEOREM TypeCorrect == Spec => []TypeOK
<1>1. TypeInv => TypeOK BY DEF TypeInv
<1>2. QED BY InitTypeInv, NextTypeInv, <1>1, PTL DEF Spec

-----------------------------------------------------------------------------
(* Custody.  CustodyInv of EvsCamera is inductive. *)

LEMMA MappedIsFinite == DataOK => Mapped \subseteq Index /\ IsFiniteSet(Mapped)
<1> SUFFICES ASSUME DataOK PROVE Mapped \subseteq Index /\ IsFiniteSet(Mapped)
  OBVIOUS
<1>1. Mapped \subseteq Index
  BY DEF DataOK, Mapped
<1>2. IsFiniteSet(Index)
  BY CountsAssumption, FS_Interval DEF Index
<1>3. QED BY <1>1, <1>2, FS_Subset

\* The search of onIncreaseMemoryBuffer for a gralloc slot succeeds: it looks at
\* one slot more than there are buffers mapped.
LEMMA SlotExists ==
  ASSUME CustodyInv, bpc = "increase" PROVE FreeSlots # {}
<1>1. SUFFICES ASSUME FreeSlots = {} PROVE FALSE
  OBVIOUS
<1> DEFINE Used == {mBufferMap[i] : i \in Mapped}
<1>2. mFramesAllowed \in Nat /\ Cardinality(Mapped) = mFramesAllowed
  BY CountsAssumption DEF CustodyInv, CountsAgree, TypeOK, DataOK, Count
<1>3. IsFiniteSet(Mapped)
  BY MappedIsFinite DEF CustodyInv, TypeOK
<1>4. IsFiniteSet(Used) /\ Cardinality(Used) <= Cardinality(Mapped)
  <2> DEFINE f == [i \in Mapped |-> mBufferMap[i]]
  <2>1. f \in Surjection(Mapped, Used)
    BY DEF Surjection
  <2>2. QED BY <1>3, <2>1, FS_Surjection DEF ExistsSurjection
<1>5. 0 .. mFramesAllowed \subseteq Used
  BY <1>1 DEF FreeSlots
<1>6. Cardinality(0 .. mFramesAllowed) <= Cardinality(Used)
  BY <1>4, <1>5, FS_Subset
<1>7. Cardinality(0 .. mFramesAllowed) = mFramesAllowed + 1
  BY <1>2, FS_Interval
<1>8. Cardinality(Used) \in Nat
  BY <1>4, FS_CardinalityType
<1>9. QED BY <1>2, <1>4, <1>6, <1>7, <1>8

LEMMA InitCustody == Init => CustodyInv
<1> SUFFICES ASSUME Init PROVE CustodyInv
  OBVIOUS
<1>1. TypeOK
  BY InitTypeInv DEF TypeInv
<1>2. Mapped = {} /\ WithDriver = {} /\ Capturing = {} /\ Returning = {}
  BY DEF Init, Mapped, WithDriver, Capturing, Returning
<1>3. Cardinality(Mapped) = 0
  BY <1>2, FS_EmptySet
<1>4. CountsAgree
  BY <1>3, CountsAssumption DEF CountsAgree, Init
<1>5. QED
  BY <1>1, <1>2, <1>4 DEF CustodyInv, ExclusiveCustody, Circulating, Init

\* What onFrameReturn does to the maps and the counts, for a frame in hand.
LEMMA FrameReturnCustody ==
  ASSUME CustodyInv, NEW i \in Mapped, i \notin WithDriver, onFrameReturn(i)
  PROVE  /\ Mapped \ {i} \subseteq Mapped'
         /\ WithDriver' \subseteq WithDriver \union {i}
         /\ i \in WithDriver' => i \in Mapped'
         /\ mFramesAllowed' \in Nat /\ mFramesAllowed' <= mFramesAllowed
         /\ Cardinality(Mapped') \in Nat
         /\ Cardinality(Mapped') - mFramesAllowed' = Cardinality(Mapped) - mFramesAllowed
         /\ mDecreasenum' > 0 => mDecreasenum' < mFramesAllowed'
<1> USE DEF CustodyInv, TypeOK, CountsAgree
<1>0. mFramesAllowed \in Nat /\ mDecreasenum \in Nat /\ IsFiniteSet(Mapped)
      /\ Cardinality(Mapped) \in Nat
  BY MappedIsFinite, FS_CardinalityType, CountsAssumption DEF DataOK, Count
<1>1. CASE DropFrame(i) /\ CanLookUp(i)
  <2>1. Mapped' = Mapped \ {i} /\ WithDriver' = WithDriver
    BY <1>1 DEF DropFrame, onDecreaseMemoryBuffer, CanLookUp, isOpen, Mapped,
       WithDriver, DataOK
  <2>2. Cardinality(Mapped') = Cardinality(Mapped) - 1
    BY <2>1, <1>0, FS_RemoveElement
  <2>3. mFramesAllowed' = mFramesAllowed - 1 /\ mDecreasenum' = mDecreasenum - 1
        /\ mDecreasenum > 0
    BY <1>1, <1>0 DEF DropFrame, onDecreaseMemoryBuffer, CanLookUp, isOpen, Decr
  <2>4. QED BY <1>0, <2>1, <2>2, <2>3
<1>2. CASE DropFrame(i) /\ ~CanLookUp(i)
  <2>1. UNCHANGED <<mBufferMap, queued, mFramesAllowed>>
        /\ mDecreasenum' = mDecreasenum - 1 /\ mDecreasenum > 0
    BY <1>2 DEF DropFrame, onDecreaseMemoryBuffer
  <2>2. Mapped' = Mapped /\ WithDriver' = WithDriver
    BY <2>1 DEF Mapped, WithDriver
  <2>3. QED BY <1>0, <2>1, <2>2
<1>3. CASE RequeueFrame(i)
  <2>1. UNCHANGED <<mBufferMap, mFramesAllowed, mDecreasenum>>
    BY <1>3 DEF RequeueFrame, bufVars
  <2>2. Mapped' = Mapped /\ WithDriver' \subseteq WithDriver \union {i}
    BY <1>3, <2>1 DEF RequeueFrame, Mapped, WithDriver, DataOK
  <2>3. QED BY <1>0, <2>1, <2>2
<1>4. QED BY <1>1, <1>2, <1>3 DEF onFrameReturn

\* What onIncreaseMemoryBuffer maps: an index that was not mapped, for good.
LEMMA IncreaseCustody ==
  ASSUME CustodyInv, IncreaseMap, fd = "open", Unmapped # {}, live # Memory
  PROVE  \E v \in Index \ Mapped :
           /\ Mapped' = Mapped \union {v}
           /\ WithDriver' \subseteq WithDriver \union {v}
           /\ bpc' = "publish"
<1>1. PICK v \in FirstOf(Unmapped), s \in SlotFor, m \in Memory \ live :
        /\ mBufferMap' = [mBufferMap EXCEPT ![v] = s]
        /\ queued' = IF requested THEN [queued EXCEPT ![v] = m] ELSE queued
        /\ bpc' = "publish"
  BY Zenon DEF IncreaseMap
<1>2. v \in Index \ Mapped /\ v \in DOMAIN mBufferMap
  BY DEF FirstOf, Unmapped, Mapped, CustodyInv, TypeOK, DataOK
<1>3. FreeSlots # {}
  BY SlotExists DEF IncreaseMap
<1>4. s # -1
  BY <1>3 DEF SlotFor, FreeSlots, FirstOf
<1>5. Mapped' = Mapped \union {v}
  BY <1>1, <1>2, <1>4 DEF Mapped, CustodyInv, TypeOK, DataOK
<1>6. WithDriver' \subseteq WithDriver \union {v}
  BY <1>1, <1>2 DEF WithDriver, CustodyInv, TypeOK, DataOK
<1>7. QED BY <1>1, <1>2, <1>5, <1>6

LEMMA NextCounts == CustodyInv /\ [Next]_vars => CountsAgree'
<1> SUFFICES ASSUME CustodyInv, [Next]_vars PROVE CountsAgree'
  OBVIOUS
<1>0. /\ mFramesAllowed \in Nat /\ mDecreasenum \in Nat /\ bNeeded \in Nat
      /\ IsFiniteSet(Mapped) /\ Cardinality(Mapped) \in Nat
      /\ UNCHANGED mBufferMap => Mapped' = Mapped
  BY MappedIsFinite, FS_CardinalityType, CountsAssumption
     DEF DataOK, Count, Mapped, CustodyInv, TypeOK
<1> USE <1>0, CountsAssumption
    DEF CountsAgree, CustodyInv,
        camVars, bufVars, drvVars, capVars, binVars, cliVars, useVars
<1>1. CASE \E n \in 1 .. MAX_BUFFERS_IN_FLIGHT : setMaxFramesInFlight(n)
  BY <1>1 DEF setMaxFramesInFlight, Call
<1>2. CASE \E stream \in {"1.0", "1.1"} : startVideoStream(stream)
  BY <1>2 DEF startVideoStream, Call
<1>3. CASE stopVideoStream
  BY <1>3 DEF stopVideoStream, StopStream, Call
<1>4. CASE shutdown
  BY <1>4 DEF shutdown, StopStream, Call
<1>5. CASE \E i \in Index : doneWithFrame(i)
  BY <1>5 DEF doneWithFrame, Call
<1>6. CASE AwaitDecrease
  BY <1>6 DEF AwaitDecrease
<1>7. CASE DecreaseNotified
  BY <1>7 DEF DecreaseNotified, LeaveWait, Return
<1>8. CASE IncreaseMap
  <2>1. CASE fd = "open" /\ Unmapped # {} /\ live # Memory
    <3>1. PICK v \in Index \ Mapped : Mapped' = Mapped \union {v} /\ bpc' = "publish"
      BY <1>8, <2>1, IncreaseCustody
    <3>2. Cardinality(Mapped') = Cardinality(Mapped) + 1
      BY <3>1, FS_AddElement
    <3>3. QED BY <1>8, <3>1, <3>2 DEF IncreaseMap
  <2>2. CASE ~(fd = "open" /\ Unmapped # {} /\ live # Memory)
    BY <1>8, <2>2 DEF IncreaseMap
  <2>3. QED BY <2>1, <2>2
<1>9. CASE IncreasePublish
  <2>1. mFramesAllowed' = mFramesAllowed + 1
    BY <1>9 DEF IncreasePublish, Incr
  <2>2. QED BY <1>9, <2>1 DEF IncreasePublish
<1>10. CASE IncreaseDone
  BY <1>10 DEF IncreaseDone, Return
<1>11. CASE StreamOn
  BY <1>11 DEF StreamOn
<1>12. CASE StreamOnFails
  BY <1>12 DEF StreamOnFails
<1>13. CASE SpawnCapture
  BY <1>13 DEF SpawnCapture, Return
<1>14. CASE onStop
  BY <1>14 DEF onStop
<1>15. CASE JoinCapture
  BY <1>15 DEF JoinCapture
<1>16. CASE EndStream
  BY <1>16 DEF EndStream, Return
<1>17. CASE onClose
  BY <1>17 DEF onClose, onMemoryDestroy, Return
<1>18. CASE ReturnFrame
  <2>1. bIdx \in Mapped /\ bIdx \notin WithDriver
    BY <1>18 DEF ReturnFrame, ExclusiveCustody, Circulating, Returning, TypeOK, DataOK
  <2>2. QED BY <1>18, <2>1, FrameReturnCustody DEF ReturnFrame, Return
<1>19. CASE ReadRunMode
  BY <1>19 DEF ReadRunMode
<1>20. CASE DequeueFrame
  BY <1>20 DEF DequeueFrame
<1>21. CASE DequeueFails
  BY <1>21 DEF DequeueFails
<1>22. CASE LookUpFrame
  BY <1>22 DEF LookUpFrame
<1>23. CASE SkipFrame
  BY <1>23 DEF SkipFrame
<1>24. CASE ForwardFrame
  BY <1>24 DEF ForwardFrame
<1>25. CASE DeliverFrame
  BY <1>25 DEF DeliverFrame
<1>26. CASE DeliveryFails
  BY <1>26 DEF DeliveryFails
<1>27. CASE ReturnUndelivered
  <2>1. cIdx \in Mapped /\ cIdx \notin WithDriver
    BY <1>27 DEF ReturnUndelivered, ExclusiveCustody, Circulating, Capturing,
       TypeOK, DataOK
  <2>2. QED BY <1>27, <2>1, FrameReturnCustody DEF ReturnUndelivered
<1>28. CASE SpuriousWakeup
  BY <1>28 DEF SpuriousWakeup, LeaveWait, Return
<1>29. CASE ClientDies
  BY <1>29 DEF ClientDies
<1>30. CASE UNCHANGED vars
  BY <1>30 DEF vars
<1>31. QED
  BY <1>1, <1>2, <1>3, <1>4, <1>5, <1>6, <1>7, <1>8, <1>9, <1>10, <1>11, <1>12, <1>13, <1>14, <1>15,
     <1>16, <1>17, <1>18, <1>19, <1>20, <1>21, <1>22, <1>23, <1>24, <1>25, <1>26, <1>27, <1>28, <1>29, <1>30
     DEF Next, Calls, BinderSteps, CaptureSteps

LEMMA NextExclusive == CustodyInv /\ [Next]_vars =>
                         ExclusiveCustody' /\ Circulating' \subseteq Mapped'
<1> SUFFICES ASSUME CustodyInv, [Next]_vars
             PROVE  ExclusiveCustody' /\ Circulating' \subseteq Mapped'
  OBVIOUS
<1> USE DEF CustodyInv, ExclusiveCustody, Circulating, Mapped, WithDriver,
            Capturing, Returning, TypeOK, DataOK,
            camVars, bufVars, drvVars, capVars, binVars, cliVars, useVars
<1>1. CASE \E n \in 1 .. MAX_BUFFERS_IN_FLIGHT : setMaxFramesInFlight(n)
  BY <1>1 DEF setMaxFramesInFlight, Call
<1>2. CASE \E stream \in {"1.0", "1.1"} : startVideoStream(stream)
  BY <1>2 DEF startVideoStream, Call
<1>3. CASE stopVideoStream
  BY <1>3 DEF stopVideoStream, StopStream, Call
<1>4. CASE shutdown
  BY <1>4 DEF shutdown, StopStream, Call
<1>5. CASE \E i \in Index : doneWithFrame(i)
  BY <1>5 DEF doneWithFrame, Call
<1>6. CASE AwaitDecrease
  BY <1>6 DEF AwaitDecrease
<1>7. CASE DecreaseNotified
  BY <1>7 DEF DecreaseNotified, LeaveWait, Return
<1>8. CASE IncreaseMap
  <2> USE <1>8 DEF IncreaseMap
  <2>1. CASE fd = "open" /\ Unmapped # {} /\ live # Memory
    <3>1. PICK v \in Index \ Mapped : /\ Mapped' = Mapped \union {v}
                                      /\ WithDriver' \subseteq WithDriver \union {v}
                                      /\ bpc' = "publish"
      BY <2>1, IncreaseCustody
    <3>2. Capturing' = Capturing /\ Returning' = {} /\ held' = held
      BY <3>1 DEF Capturing, Returning, capVars, cliVars
    <3>3. QED BY <3>1, <3>2 DEF CustodyInv, ExclusiveCustody, Circulating
  <2>2. CASE ~(fd = "open" /\ Unmapped # {} /\ live # Memory)
    BY <2>2
  <2>3. QED BY <2>1, <2>2
<1>9. CASE IncreasePublish
  BY <1>9 DEF IncreasePublish
<1>10. CASE IncreaseDone
  BY <1>10 DEF IncreaseDone, Return
<1>11. CASE StreamOn
  BY <1>11 DEF StreamOn
<1>12. CASE StreamOnFails
  BY <1>12 DEF StreamOnFails
<1>13. CASE SpawnCapture
  BY <1>13 DEF SpawnCapture, Return
<1>14. CASE onStop
  BY <1>14 DEF onStop
<1>15. CASE JoinCapture
  BY <1>15 DEF JoinCapture
<1>16. CASE EndStream
  BY <1>16 DEF EndStream, Return
<1>17. CASE onClose
  BY <1>17 DEF onClose, onMemoryDestroy, Return
<1>18. CASE ReturnFrame
  <2>1. bIdx \in Mapped /\ bIdx \notin WithDriver
    BY <1>18 DEF ReturnFrame
  <2>2. Capturing' = Capturing /\ Returning' = {} /\ held' = held
    BY <1>18 DEF ReturnFrame, Return
  <2>3. bIdx \notin Capturing \union held
    BY <1>18 DEF ReturnFrame
  <2>4. /\ Mapped \ {bIdx} \subseteq Mapped'
        /\ WithDriver' \subseteq WithDriver \union {bIdx}
        /\ bIdx \in WithDriver' => bIdx \in Mapped'
    BY <1>18, <2>1, FrameReturnCustody DEF ReturnFrame
  <2>5. QED BY <2>2, <2>3, <2>4
<1>19. CASE ReadRunMode
  BY <1>19 DEF ReadRunMode
<1>20. CASE DequeueFrame
  BY <1>20 DEF DequeueFrame
<1>21. CASE DequeueFails
  BY <1>21 DEF DequeueFails
<1>22. CASE LookUpFrame
  BY <1>22 DEF LookUpFrame
<1>23. CASE SkipFrame
  BY <1>23 DEF SkipFrame
<1>24. CASE ForwardFrame
  BY <1>24 DEF ForwardFrame
<1>25. CASE DeliverFrame
  BY <1>25 DEF DeliverFrame
<1>26. CASE DeliveryFails
  BY <1>26 DEF DeliveryFails
<1>27. CASE ReturnUndelivered
  <2>1. cIdx \in Mapped /\ cIdx \notin WithDriver
    BY <1>27 DEF ReturnUndelivered
  <2>2. Capturing' = {} /\ Returning' = Returning /\ held' = held
    BY <1>27 DEF ReturnUndelivered
  <2>3. cIdx \notin Returning \union held
    BY <1>27 DEF ReturnUndelivered
  <2>4. /\ Mapped \ {cIdx} \subseteq Mapped'
        /\ WithDriver' \subseteq WithDriver \union {cIdx}
        /\ cIdx \in WithDriver' => cIdx \in Mapped'
    BY <1>27, <2>1, FrameReturnCustody DEF ReturnUndelivered
  <2>5. QED BY <2>2, <2>3, <2>4
<1>28. CASE SpuriousWakeup
  BY <1>28 DEF SpuriousWakeup, LeaveWait, Return
<1>29. CASE ClientDies
  BY <1>29 DEF ClientDies
<1>30. CASE UNCHANGED vars
  BY <1>30 DEF vars
<1>31. QED
  BY <1>1, <1>2, <1>3, <1>4, <1>5, <1>6, <1>7, <1>8, <1>9, <1>10, <1>11, <1>12, <1>13, <1>14, <1>15,
     <1>16, <1>17, <1>18, <1>19, <1>20, <1>21, <1>22, <1>23, <1>24, <1>25, <1>26, <1>27, <1>28, <1>29, <1>30
     DEF Next, Calls, BinderSteps, CaptureSteps

LEMMA NextCustody == CustodyInv /\ [Next]_vars => CustodyInv'
<1>1. CustodyInv => TypeInv
  BY DEF CustodyInv, CountsAgree, TypeInv
<1>2. CustodyInv /\ [Next]_vars => TypeOK'
  BY <1>1, NextTypeInv DEF TypeInv
<1>3. QED BY <1>2, NextCounts, NextExclusive DEF CustodyInv

\* The inductive invariant: types, counters, and each buffer in one place.
THEOREM CustodyCorrect == Spec => []CustodyInv
BY InitCustody, NextCustody, PTL DEF Spec

\* No buffer is ever in two places, whatever the environment does.
THEOREM CustodyIsExclusive == Spec => []ExclusiveCustody
<1>1. CustodyInv => ExclusiveCustody BY DEF CustodyInv
<1>2. QED BY CustodyCorrect, <1>1, PTL

-----------------------------------------------------------------------------
(* The course of a stream: the refinement adds to CustodyInv, which says    *)
(* where the buffers are, what the two threads do when a stream starts,     *)
(* stops and ends.                                                          *)

\* the calls that end a stream
Stopping == bpc \in {"onStop", "join", "endStream", "close"}

\* The capture thread runs from the start of a stream to the join; the thread
\* that starts one finds none running.
ThreadInv ==
  /\ cpc # "none" => /\ mStream # NULL /\ ~ended
                     /\ mRunMode = {"RUN"} \/ bpc \in {"onStop", "join"}
  /\ bpc \in {"endStream", "close"} => cpc = "none"
  /\ bCall = "start" => cpc = "none" /\ mStream # NULL /\ ~ended /\ "RUN" \in mRunMode

\* Only startVideoStream() spawns, only shutdown() closes.
CallInv ==
  /\ bpc \in {"streamOn", "spawn"} => bCall = "start"
  /\ bpc = "close" => bCall = "shutdown"
  /\ bCall = "shutdown" => Stopping
  /\ bpc = "spawn" => fd = "open"

\* mRunMode follows the stream, for a device that was opened: after a failed
\* onOpen() it is not initialised.
RunModeInv ==
  fd = "open" =>
    /\ mRunMode \subseteq {"RUN"}
    /\ Stopping => mRunMode = {}
    /\ streaming => mRunMode = {"RUN"} \/ bpc = "onStop"

\* A stream that failed to start may leave mStream_1_1 behind, but then the
\* camera is closed.
StreamInv ==
  mStream = NULL => /\ ended => fd = "closed" \/ bpc = "close"
                    /\ mStream_1_1 => fd = "closed" \/ bCall = "shutdown"

PhaseInv == ThreadInv /\ CallInv /\ RunModeInv /\ StreamInv

LEMMA InitPhase == Init => PhaseInv
BY DEF Init, PhaseInv, ThreadInv, CallInv, RunModeInv, StreamInv, Stopping

LEMMA NextPhase == TypeOK /\ PhaseInv /\ [Next]_vars => PhaseInv'
<1> SUFFICES ASSUME TypeOK, PhaseInv, [Next]_vars PROVE PhaseInv'
  OBVIOUS
<1> USE DEF PhaseInv, ThreadInv, CallInv, RunModeInv, StreamInv, Stopping, TypeOK, FlagsOK, DataOK,
            Streams, isOpen, camVars, drvVars, capVars, binVars, cliVars, useVars
<1>1. CASE \E n \in 1 .. MAX_BUFFERS_IN_FLIGHT : setMaxFramesInFlight(n)
  BY <1>1 DEF setMaxFramesInFlight, Call
<1>2. CASE \E stream \in {"1.0", "1.1"} : startVideoStream(stream)
  <2>1. PICK stream \in {"1.0", "1.1"} : startVideoStream(stream)
    BY <1>2
  <2>2. bpc = "idle" /\ isOpen /\ mRunMode' = mRunMode \union {"RUN"}
        /\ UNCHANGED <<fd, cpc, ended, streaming>>
    BY <2>1 DEF startVideoStream, Call
  <2>3. CASE "RUN" \notin mRunMode /\ mStream = NULL
    <3>1. mStream' = stream /\ bCall' = "start" /\ bpc' = "increase"
      BY <2>1, <2>3 DEF startVideoStream, Call
    <3>2. mStream' # NULL
      BY <3>1, NullAssumption
    <3>3. cpc = "none" /\ ~ended
      BY <2>2, <2>3
    <3>4. QED BY <2>2, <3>1, <3>2, <3>3
  <2>4. CASE ~("RUN" \notin mRunMode /\ mStream = NULL)
    <3>1. UNCHANGED <<mStream, mStream_1_1, bpc, bCall>>
      BY <2>1, <2>4 DEF startVideoStream
    <3>2. QED BY <2>2, <3>1
  <2>5. QED BY <2>3, <2>4
<1>3. CASE stopVideoStream
  BY <1>3 DEF stopVideoStream, StopStream, Call
<1>4. CASE shutdown
  BY <1>4 DEF shutdown, StopStream, Call
<1>5. CASE \E i \in Index : doneWithFrame(i)
  BY <1>5 DEF doneWithFrame, Call
<1>6. CASE AwaitDecrease
  BY <1>6 DEF AwaitDecrease
<1>7. CASE DecreaseNotified
  BY <1>7 DEF DecreaseNotified, LeaveWait, Return
<1>8. CASE IncreaseMap
  BY <1>8 DEF IncreaseMap
<1>9. CASE IncreasePublish
  BY <1>9 DEF IncreasePublish
<1>10. CASE IncreaseDone
  BY <1>10 DEF IncreaseDone, Return
<1>11. CASE StreamOn
  BY <1>11 DEF StreamOn
<1>12. CASE StreamOnFails
  BY <1>12 DEF StreamOnFails
<1>13. CASE SpawnCapture
  BY <1>13 DEF SpawnCapture, Return
<1>14. CASE onStop
  BY <1>14 DEF onStop
<1>15. CASE JoinCapture
  BY <1>15 DEF JoinCapture
<1>16. CASE EndStream
  BY <1>16 DEF EndStream, Return
<1>17. CASE onClose
  BY <1>17 DEF onClose, Return
<1>18. CASE ReturnFrame
  BY <1>18 DEF ReturnFrame, onFrameReturn, Return
<1>19. CASE ReadRunMode
  BY <1>19 DEF ReadRunMode
<1>20. CASE DequeueFrame
  BY <1>20 DEF DequeueFrame
<1>21. CASE DequeueFails
  BY <1>21 DEF DequeueFails
<1>22. CASE LookUpFrame
  BY <1>22 DEF LookUpFrame
<1>23. CASE SkipFrame
  BY <1>23 DEF SkipFrame
<1>24. CASE ForwardFrame
  BY <1>24 DEF ForwardFrame
<1>25. CASE DeliverFrame
  BY <1>25 DEF DeliverFrame
<1>26. CASE DeliveryFails
  BY <1>26 DEF DeliveryFails
<1>27. CASE ReturnUndelivered
  BY <1>27 DEF ReturnUndelivered, onFrameReturn
<1>28. CASE SpuriousWakeup
  BY <1>28 DEF SpuriousWakeup, LeaveWait, Return
<1>29. CASE ClientDies
  BY <1>29 DEF ClientDies
<1>30. CASE UNCHANGED vars
  BY <1>30 DEF vars
<1>31. QED
  BY <1>1, <1>2, <1>3, <1>4, <1>5, <1>6, <1>7, <1>8, <1>9, <1>10, <1>11, <1>12, <1>13, <1>14, <1>15,
     <1>16, <1>17, <1>18, <1>19, <1>20, <1>21, <1>22, <1>23, <1>24, <1>25, <1>26, <1>27, <1>28, <1>29, <1>30
     DEF Next, Calls, BinderSteps, CaptureSteps

-----------------------------------------------------------------------------
(* The custody of frames.  A step moves one frame or none, or recalls all  *)
(* that the driver has.                                                    *)

Promised == [Custody!CustodyNext]_(Custody!custodyVars)

\* A frame that changes hands in a step that leaves the phase alone.
LEMMA FramePasses ==
  ASSUME NEW k \in Index, UNCHANGED Phase, NEW to,
         \A j \in Index : Owner(j)' = IF j = k THEN to ELSE Owner(j),
         \/ Owner(k) \in {"none", "hal"} /\ to = "driver"
         \/ Owner(k) = "driver" /\ to = "hal"
         \/ Owner(k) = "client" /\ to = "hal"
         \/ Owner(k) = "hal" /\ to = "none"
         \/ Owner(k) = "hal" /\ to = "client" /\ Phase = "open"
  PROVE  Promised
<1>1. [i \in Index |-> Owner(i)]' = [[i \in Index |-> Owner(i)] EXCEPT ![k] = to]
  OBVIOUS
<1>2. QED
  BY <1>1 DEF Promised, Custody!CustodyNext, Custody!Supply, Custody!Fill, Custody!GiveBack,
              Custody!Retire, Custody!Lend, Custody!Pass

LEMMA NothingPasses ==
  ASSUME UNCHANGED Phase, \A j \in Index : UNCHANGED Owner(j)
  PROVE  Promised
<1>1. UNCHANGED [i \in Index |-> Owner(i)]
  OBVIOUS
<1>2. QED BY <1>1 DEF Promised, Custody!custodyVars

\* where the capture thread is when it has a frame
Holding == {"lookUp", "forward", "deliver", "returnUndelivered"}

\* The threads move on with what they have.
LEMMA PlacesUnchanged ==
  ASSUME UNCHANGED <<held, queued, cIdx, bIdx>>,
         bpc = "return" <=> bpc' = "return",
         cpc \in Holding <=> cpc' \in Holding
  PROVE  \A j \in Index : UNCHANGED Owner(j)
<1>1. Capturing' = Capturing
  BY DEF Capturing, Holding
<1>2. Returning' = Returning
  BY DEF Returning
<1>3. WithDriver' = WithDriver
  BY DEF WithDriver
<1>4. QED BY <1>1, <1>2, <1>3 DEF Owner

LEMMA FrameReturned ==
  ASSUME CustodyInv, NEW k \in Index, k \in Capturing \union Returning, onFrameReturn(k),
         held' = held, k \notin Capturing' \union Returning',
         \A j \in Index \ {k} : /\ j \in Capturing <=> j \in Capturing'
                                /\ j \in Returning <=> j \in Returning',
         UNCHANGED Phase
  PROVE  Promised
<1>1. k \notin held /\ k \notin WithDriver /\ Owner(k) = "hal"
  BY DEF CustodyInv, ExclusiveCustody, Owner
<1>2. \A j \in Index \ {k} : queued'[j] = queued[j]
  BY DEF onFrameReturn, DropFrame, RequeueFrame, CustodyInv, TypeOK, DataOK
<1>3. \A j \in Index \ {k} : Owner(j)' = Owner(j)
  <2> TAKE j \in Index \ {k}
  <2>1. j \in WithDriver' <=> j \in WithDriver
    BY <1>2 DEF WithDriver
  <2>2. QED BY <2>1 DEF Owner
<1>4. Owner(k)' \in {"driver", "none"}
  BY <1>1 DEF Owner
<1>5. QED BY <1>1, <1>3, <1>4, FramePasses

\* STREAMOFF: every frame of the driver is recalled.
LEMMA DriverRecalled ==
  ASSUME CustodyInv, queued' = [i \in Index |-> NULL],
         UNCHANGED <<held, cIdx, cpc, bIdx, ended>>, bpc # "return", bpc' # "return"
  PROVE  Promised
<1>1. Capturing' = Capturing /\ Returning' = Returning /\ WithDriver' = {} /\ UNCHANGED Phase
  BY DEF Capturing, Returning, WithDriver, Phase
<1>2. \A j \in Index : Owner(j)' = IF Owner(j) = "driver" THEN "none" ELSE Owner(j)
  BY <1>1 DEF Owner
<1>3. [i \in Index |-> Owner(i)]'
        = [i \in Index |-> IF [j \in Index |-> Owner(j)][i] = "driver" THEN "none"
                           ELSE [j \in Index |-> Owner(j)][i]]
  BY <1>2
<1>4. Custody!Recall
  BY <1>1, <1>3 DEF Custody!Recall
<1>5. QED BY <1>4 DEF Promised, Custody!CustodyNext

LEMMA StepIsPromised ==
  ASSUME CustodyInv, PhaseInv, [Next]_vars
  PROVE  Promised
<1> USE DEF camVars, bufVars, drvVars, capVars, binVars, cliVars, useVars
<1>1. ASSUME UNCHANGED <<held, queued, cIdx, bIdx>>,
             bpc = "return" <=> bpc' = "return",
             cpc \in Holding <=> cpc' \in Holding,
             cpc = "none" <=> cpc' = "none",
             cpc = "none" => UNCHANGED ended
      PROVE  Promised
  <2>1. UNCHANGED Phase
    BY <1>1 DEF Phase
  <2>2. QED BY <1>1, <2>1, PlacesUnchanged, NothingPasses
<1>2. CASE \/ \E n \in 1 .. MAX_BUFFERS_IN_FLIGHT : setMaxFramesInFlight(n)
           \/ \E stream \in {"1.0", "1.1"} : startVideoStream(stream)
  BY <1>1, <1>2 DEF setMaxFramesInFlight, startVideoStream, Call
<1>3. CASE stopVideoStream \/ shutdown
  BY <1>1, <1>3 DEF stopVideoStream, shutdown, StopStream, Call
<1>4. CASE \E i \in Index : doneWithFrame(i)
  <2>1. PICK i \in Index : doneWithFrame(i)
    BY <1>4
  <2>2. /\ i \in held /\ held' = held \ {i} /\ bpc = "idle" /\ bpc' = "return" /\ bIdx' = i
        /\ UNCHANGED <<queued, cIdx, cpc, ended>>
    BY <2>1 DEF doneWithFrame, Call
  <2>3. /\ Capturing' = Capturing /\ WithDriver' = WithDriver /\ Returning = {} /\ Returning' = {i}
        /\ UNCHANGED Phase
    BY <2>2 DEF Capturing, WithDriver, Returning, Phase
  <2>4. /\ Owner(i) = "client" /\ Owner(i)' = "hal"
        /\ \A j \in Index \ {i} : Owner(j)' = Owner(j)
    BY <2>2, <2>3 DEF Owner
  <2>5. QED BY <2>3, <2>4, FramePasses
<1>5. CASE AwaitDecrease
  BY <1>1, <1>5 DEF AwaitDecrease
<1>6. CASE DecreaseNotified \/ SpuriousWakeup
  BY <1>1, <1>6 DEF DecreaseNotified, SpuriousWakeup, LeaveWait, Return
<1>7. CASE IncreaseMap
  <2>1. CASE fd = "open" /\ Unmapped # {} /\ live # Memory
    <3>1. PICK v \in FirstOf(Unmapped), s \in SlotFor, m \in Memory \ live :
            /\ queued' = IF requested THEN [queued EXCEPT ![v] = m] ELSE queued
            /\ bpc' = "publish"
      BY <1>7, <2>1, Zenon DEF IncreaseMap
    <3>2. v \in Index /\ v \notin Mapped
      BY DEF FirstOf, Unmapped, Mapped, CustodyInv, TypeOK, DataOK
    <3>3. /\ v \notin held /\ v \notin Capturing /\ v \notin Returning /\ v \notin WithDriver
      BY <3>2 DEF CustodyInv, Circulating
    <3>4. UNCHANGED <<held, cIdx, cpc, bIdx, ended>> /\ bpc = "increase"
      BY <1>7 DEF IncreaseMap
    <3>5. Capturing' = Capturing /\ Returning' = Returning /\ UNCHANGED Phase
      BY <3>1, <3>4 DEF Capturing, Returning, Phase
    <3>6. CASE requested
      <4>1. WithDriver' = WithDriver \union {v}
        BY <3>1, <3>2, <3>6, NullAssumption DEF WithDriver, CustodyInv, TypeOK, DataOK
      <4>2. /\ Owner(v) = "none" /\ Owner(v)' = "driver"
            /\ \A j \in Index \ {v} : Owner(j)' = Owner(j)
        BY <3>2, <3>3, <3>4, <3>5, <4>1 DEF Owner
      <4>3. QED BY <3>2, <3>5, <4>2, FramePasses
    <3>7. CASE ~requested
      BY <1>1, <3>1, <3>4, <3>7
    <3>8. QED BY <3>6, <3>7
  <2>2. CASE ~(fd = "open" /\ Unmapped # {} /\ live # Memory)
    BY <1>1, <1>7, <2>2 DEF IncreaseMap
  <2>3. QED BY <2>1, <2>2
<1>8. CASE IncreasePublish
  BY <1>1, <1>8 DEF IncreasePublish
<1>9. CASE IncreaseDone
  BY <1>1, <1>9 DEF IncreaseDone, Return
<1>10. CASE StreamOn
  BY <1>1, <1>10 DEF StreamOn
<1>11. CASE StreamOnFails
  BY <1>1, <1>11 DEF StreamOnFails
<1>12. CASE SpawnCapture
  <2>1. /\ bpc = "spawn" /\ bpc' = "idle" /\ cpc' = "readRunMode"
        /\ UNCHANGED <<held, queued, cIdx, bIdx, ended>>
    BY <1>12 DEF SpawnCapture, Return
  <2>2. cpc = "none" /\ ~ended
    BY <2>1 DEF PhaseInv, ThreadInv, CallInv
  <2>3. \A j \in Index : UNCHANGED Owner(j)
    BY <2>1, <2>2, PlacesUnchanged DEF Holding
  <2>4. Phase = "idle" /\ Phase' = "open" /\ UNCHANGED [i \in Index |-> Owner(i)]
    BY <2>1, <2>2, <2>3 DEF Phase
  <2>5. QED BY <2>4 DEF Promised, Custody!CustodyNext, Custody!Open, Custody!Turn
<1>13. CASE onStop
  <2>1. /\ bpc = "onStop" /\ bpc' = "join" /\ UNCHANGED <<held, cIdx, cpc, bIdx, ended>>
        /\ queued' = [i \in Index |-> NULL] \/ UNCHANGED queued
    BY <1>13 DEF onStop
  <2>2. QED BY <1>1, <2>1, DriverRecalled
<1>14. CASE JoinCapture
  <2>1. /\ bpc = "join" /\ bpc' = "endStream" /\ cpc \in {"none", "exited"} /\ cpc' = "none"
        /\ UNCHANGED <<held, queued, cIdx, bIdx, ended>>
    BY <1>14 DEF JoinCapture
  <2>2. \A j \in Index : UNCHANGED Owner(j)
    BY <2>1, PlacesUnchanged DEF Holding
  <2>3. CASE cpc = "none"
    BY <2>1, <2>2, <2>3, NothingPasses DEF Phase
  <2>4. CASE cpc = "exited"
    <3>1. ~ended
      BY <2>4 DEF PhaseInv, ThreadInv
    <3>2. Phase = "open" /\ Phase' = "idle" /\ UNCHANGED [i \in Index |-> Owner(i)]
      BY <2>1, <2>2, <2>4, <3>1 DEF Phase
    <3>3. QED BY <3>2 DEF Promised, Custody!CustodyNext, Custody!Close, Custody!Turn
  <2>5. QED BY <2>1, <2>3, <2>4
<1>15. CASE EndStream
  <2>1. /\ bpc = "endStream" /\ bpc' \in {"close", "idle"}
        /\ UNCHANGED <<held, queued, cIdx, bIdx, cpc>>
    BY <1>15 DEF EndStream, Return
  <2>2. cpc = "none"
    BY <2>1 DEF PhaseInv, ThreadInv
  <2>3. \A j \in Index : UNCHANGED Owner(j)
    BY <2>1, PlacesUnchanged
  <2>4. ended => ended'
    BY <1>15, Zenon DEF EndStream
  <2>5. CASE UNCHANGED Phase
    BY <2>3, <2>5, NothingPasses
  <2>6. CASE Phase' # Phase
    <3>1. Phase = "idle" /\ Phase' = "ended" /\ UNCHANGED [i \in Index |-> Owner(i)]
      BY <2>1, <2>2, <2>3, <2>4, <2>6 DEF Phase
    <3>2. QED BY <3>1 DEF Promised, Custody!CustodyNext, Custody!End, Custody!Turn
  <2>7. QED BY <2>5, <2>6
<1>16. CASE onClose
  <2>1. /\ bpc = "close" /\ bpc' = "idle" /\ queued' = [i \in Index |-> NULL]
        /\ UNCHANGED <<held, cIdx, cpc, bIdx, ended>>
    BY <1>16 DEF onClose, Return
  <2>2. QED BY <2>1, DriverRecalled
<1>17. CASE ReturnFrame
  <2>1. /\ bpc = "return" /\ bpc' = "idle" /\ onFrameReturn(bIdx)
        /\ UNCHANGED <<held, cIdx, cpc, bIdx, ended>>
    BY <1>17 DEF ReturnFrame, Return
  <2>2. bIdx \in Index /\ Returning = {bIdx} /\ bIdx \notin Capturing
    BY <2>1 DEF CustodyInv, ExclusiveCustody, Returning, TypeOK, DataOK
  <2>3. Returning' = {} /\ Capturing' = Capturing /\ UNCHANGED Phase
    BY <2>1 DEF Returning, Capturing, Phase
  <2>4. QED BY <2>1, <2>2, <2>3, FrameReturned
<1>18. CASE ReadRunMode \/ DequeueFails \/ LookUpFrame \/ ForwardFrame \/ DeliveryFails
  BY <1>1, <1>18 DEF ReadRunMode, DequeueFails, LookUpFrame, ForwardFrame, DeliveryFails, Holding
<1>19. CASE DequeueFrame
  <2>1. PICK k \in Index : queued[k] # NULL /\ cIdx' = k /\ queued' = [queued EXCEPT ![k] = NULL]
    BY <1>19 DEF DequeueFrame
  <2>2. cpc = "dequeue" /\ cpc' = "lookUp" /\ UNCHANGED <<held, bpc, bIdx, ended>>
    BY <1>19 DEF DequeueFrame
  <2>3. /\ WithDriver' = WithDriver \ {k} /\ k \in WithDriver
        /\ Capturing = {} /\ Capturing' = {k} /\ Returning' = Returning /\ UNCHANGED Phase
    BY <2>1, <2>2 DEF WithDriver, Capturing, Returning, Phase, CustodyInv, TypeOK, DataOK
  <2>4. k \notin held /\ k \notin Returning
    BY <2>3 DEF CustodyInv, ExclusiveCustody
  <2>5. /\ Owner(k) = "driver" /\ Owner(k)' = "hal"
        /\ \A j \in Index \ {k} : Owner(j)' = Owner(j)
    BY <2>2, <2>3, <2>4 DEF Owner
  <2>6. QED BY <2>3, <2>5, FramePasses
<1>20. ASSUME cIdx \in Index, Capturing = {cIdx}, Capturing' = {}, UNCHANGED <<queued, bpc, bIdx>>,
              \/ UNCHANGED held
              \/ held' = held \union {cIdx},
              cpc # "none", cpc' # "none"
       PROVE  Promised
  <2>1. WithDriver' = WithDriver /\ Returning' = Returning /\ Phase = "open" /\ Phase' = "open"
    BY <1>20 DEF WithDriver, Returning, Phase
  <2>2. cIdx \notin held /\ cIdx \notin WithDriver /\ cIdx \notin Returning
    BY <1>20 DEF CustodyInv, ExclusiveCustody
  <2>3. /\ Owner(cIdx) = "hal" /\ \A j \in Index \ {cIdx} : Owner(j)' = Owner(j)
    BY <1>20, <2>1, <2>2 DEF Owner
  <2>4. PICK to \in {"none", "client"} : \A j \in Index : Owner(j)' = IF j = cIdx THEN to ELSE Owner(j)
    BY <1>20, <2>1, <2>2, <2>3 DEF Owner
  <2>5. QED BY <1>20, <2>1, <2>3, <2>4, FramePasses
<1>21. cpc \in Holding => cIdx \in Index /\ Capturing = {cIdx}
  BY DEF Holding, Capturing, CustodyInv, TypeOK, DataOK
<1>22. CASE SkipFrame
  BY <1>20, <1>21, <1>22 DEF SkipFrame, Holding, Capturing
<1>23. CASE DeliverFrame
  BY <1>20, <1>21, <1>23 DEF DeliverFrame, Holding, Capturing
<1>24. CASE ReturnUndelivered
  <2>1. /\ cpc \in Holding /\ cpc' = "readRunMode" /\ onFrameReturn(cIdx)
        /\ UNCHANGED <<held, cIdx, bpc, bIdx, ended>>
    BY <1>24 DEF ReturnUndelivered, Holding
  <2>2. Capturing' = {} /\ Returning' = Returning /\ UNCHANGED Phase
    BY <2>1 DEF Capturing, Returning, Phase, Holding
  <2>3. cIdx \notin Returning
    BY <1>21, <2>1 DEF CustodyInv, ExclusiveCustody
  <2>4. QED BY <1>21, <2>1, <2>2, <2>3, FrameReturned
<1>25. CASE ClientDies
  BY <1>1, <1>25 DEF ClientDies
<1>26. CASE UNCHANGED vars
  BY <1>1, <1>26 DEF vars
<1>27. QED
  BY <1>2, <1>3, <1>4, <1>5, <1>6, <1>7, <1>8, <1>9, <1>10, <1>11, <1>12, <1>13, <1>14, <1>15,
     <1>16, <1>17, <1>18, <1>19, <1>22, <1>23, <1>24, <1>25, <1>26
     DEF Next, Calls, BinderSteps, CaptureSteps

LEMMA InitIsPromised == Init => Custody!CustodyInit
BY DEF Init, Custody!CustodyInit, Owner, Phase, WithDriver, Capturing, Returning

LEMMA PhaseCorrect == Spec => [](CustodyInv /\ PhaseInv)
<1>1. CustodyInv /\ PhaseInv /\ [Next]_vars => PhaseInv'
  BY NextPhase DEF CustodyInv
<1>2. QED BY <1>1, InitPhase, InitCustody, NextCustody, PTL DEF Spec

\* The camera implements FrameCustody: its two threads, its driver and its client
\* hand every frame from one to the next as that specification allows.
THEOREM CameraKeepsCustody == Spec => KeepsCustody
<1>1. CustodyInv /\ PhaseInv /\ [Next]_vars => Promised
  BY StepIsPromised
<1>2. QED
  BY <1>1, InitIsPromised, PhaseCorrect, PTL DEF Spec, KeepsCustody, Custody!CustodySpec, Promised

\* No frame follows the end of the stream: stopVideoStream() has joined the
\* capture thread, and startVideoStream() does not make another.
THEOREM EndIsQuiet == Spec => []EndedIsQuiet
<1>1. PhaseInv => EndedIsQuiet
  BY DEF PhaseInv, ThreadInv, EndedIsQuiet
<1>2. QED BY <1>1, PhaseCorrect, PTL

\* "Stream should be stopped first!" never fires for a device that was opened.
THEOREM ClosedAfterStop == Spec => []StoppedBeforeClose
<1>1. PhaseInv => StoppedBeforeClose
  BY DEF PhaseInv, ThreadInv, CallInv, RunModeInv, Stopping, StoppedBeforeClose
<1>2. QED BY <1>1, PhaseCorrect, PTL
-----------------------------------------------------------------------------
(* The steady client.  It chooses the number of its buffers once, before it *)
(* starts its stream, and returns frames only while the camera is open; the *)
(* enumerator may take the camera from it at any time, and there is memory  *)
(* for the buffers it may ask for.  It may die, and an update of mFramesInUse *)
(* may be lost: neither matters to the maps.                                *)

Steady ==
  /\ Env \subseteq {"steal", "death"}
  /\ IsFiniteSet(Memory) => Cardinality(Memory) >= MAX_BUFFERS_IN_FLIGHT

\* What a steady client never brings about, and what the threads are doing when
\* the buffers are mapped: nothing runs that could look at the two maps.
CalmInv ==
  /\ ~aborted /\ mDecreasenum = 0 /\ bpc \notin {"toWait", "waiting"}
  /\ fd \in {"open", "closed"}
  /\ cpc # "none" => fd = "open"
  /\ bpc \in {"increase", "publish", "streamOn", "spawn", "return"} => fd = "open"
  /\ bpc \in {"increase", "publish", "streamOn"} => cpc = "none" /\ ~streaming
  /\ streaming => mStream # NULL /\ fd = "open"
  /\ cpc \in {"forward", "deliver"} => cMem # NULL

\* the buffers that the map leads to: between the mapping of an index and the
\* publication the copy has one more than mCamBuffers
Buffers == IF bpc = "publish" THEN bVec ELSE mCamBuffers

\* The maps are one to one: n indices are mapped, onto the slots 0 .. n - 1, which
\* hold n different pieces of memory, all that is allocated.
MapsInv ==
  /\ mBufferMap \in [Index -> Count \union {-1}]
  /\ Buffers \in Seq(Memory) /\ Len(Buffers) = Cardinality(Mapped)
  /\ \A i \in Mapped : mBufferMap[i] \in 0 .. Cardinality(Mapped) - 1
  /\ \A k \in 0 .. Cardinality(Mapped) - 1 : \E i \in Mapped : mBufferMap[i] = k
  /\ \A i, j \in Mapped : mBufferMap[i] = mBufferMap[j] => i = j
  /\ \A k, l \in DOMAIN Buffers : Buffers[k] = Buffers[l] => k = l
  /\ \A k \in DOMAIN Buffers : Buffers[k] \in live
  /\ IsFiniteSet(live) /\ Cardinality(live) = Cardinality(Mapped)
  /\ \A i \in WithDriver : queued[i] = Buffers[mBufferMap[i] + 1]

SteadyInv == CustodyInv /\ PhaseInv /\ CalmInv /\ MapsInv

LEMMA InitSteady == Steady /\ Init => CalmInv /\ MapsInv
<1> SUFFICES ASSUME Steady, Init PROVE CalmInv /\ MapsInv
  OBVIOUS
<1>1. fd = "open" /\ mBufferMap = [i \in Index |-> -1]
  BY DEF Init, Steady
<1>2. CalmInv
  BY <1>1 DEF Init, CalmInv
<1>3. Mapped = {} /\ WithDriver = {} /\ Buffers = << >> /\ live = {}
  BY <1>1 DEF Init, Mapped, WithDriver, Buffers
<1>4. Cardinality(Mapped) = 0 /\ IsFiniteSet(live) /\ Cardinality(live) = 0
  BY <1>3, FS_EmptySet
<1>5. << >> \in Seq(Memory) /\ Len(<< >>) = 0 /\ DOMAIN << >> = {}
  BY EmptySeq
<1>6. mBufferMap \in [Index -> Count \union {-1}] /\ 0 .. 0 - 1 = {}
  BY <1>1
<1>7. MapsInv
  BY <1>3, <1>4, <1>5, <1>6 DEF MapsInv
<1>8. QED BY <1>2, <1>7

\* How many buffers are mapped.
LEMMA MappedCount ==
  ASSUME CustodyInv
  PROVE  /\ IsFiniteSet(Mapped) /\ Cardinality(Mapped) \in Nat /\ mFramesAllowed \in Nat
         /\ mFramesAllowed <= MAX_BUFFERS_IN_FLIGHT
         /\ bpc # "publish" => Cardinality(Mapped) = mFramesAllowed
         /\ bpc = "increase" /\ bNeeded > 0 => Cardinality(Mapped) < MAX_BUFFERS_IN_FLIGHT
<1>1. IsFiniteSet(Mapped) /\ Cardinality(Mapped) \in Nat
  BY MappedIsFinite, FS_CardinalityType DEF CustodyInv, TypeOK
<1>2. mFramesAllowed \in Nat /\ bNeeded \in Nat /\ MAX_BUFFERS_IN_FLIGHT \in Nat
  BY CountsAssumption DEF CustodyInv, TypeOK, DataOK, Count
<1>3. QED BY <1>1, <1>2 DEF CustodyInv, CountsAgree

\* A lookup of a mapped index of an open camera finds its memory.
LEMMA LookUpFinds ==
  ASSUME CustodyInv, MapsInv, NEW i \in Mapped, fd = "open", bpc # "publish"
  PROVE  CanLookUp(i) /\ BackedBy(i) = Buffers[mBufferMap[i] + 1] /\ BackedBy(i) \in Memory
<1>1. Buffers = mCamBuffers
  BY DEF Buffers
<1>2. mCamBuffers \in Seq(Memory) /\ DOMAIN mCamBuffers = 1 .. Cardinality(Mapped)
  BY <1>1, LenProperties DEF MapsInv
<1>3. mBufferMap[i] + 1 \in 1 .. Cardinality(Mapped)
  BY MappedCount DEF MapsInv
<1>4. mCamBuffers[mBufferMap[i] + 1] \in Memory
  BY <1>2, <1>3, ElementOfSeq, LenProperties
<1>5. QED BY <1>1, <1>2, <1>3, <1>4 DEF CanLookUp, BackedBy

\* With no decrease pending, a frame that comes back goes back to the driver.
LEMMA FrameIsRequeued ==
  ASSUME CustodyInv, CalmInv, MapsInv, NEW i \in Mapped, fd = "open", bpc # "publish",
         onFrameReturn(i)
  PROVE  /\ ~aborted' /\ UNCHANGED <<bufVars, signalled, requested, streaming>>
         /\ queued' = IF requested THEN [queued EXCEPT ![i] = BackedBy(i)] ELSE queued
<1>1. CanLookUp(i)
  BY LookUpFinds
<1>2. RequeueFrame(i)
  BY DEF onFrameReturn, DropFrame, CalmInv
<1>3. QED BY <1>1, <1>2 DEF RequeueFrame, onFrameReturn

\* onIncreaseMemoryBuffer succeeds: it finds memory, an index, and the next slot.
LEMMA IncreaseSucceeds ==
  ASSUME Steady, CustodyInv, CalmInv, MapsInv, IncreaseMap
  PROVE  \E v \in Index \ Mapped, m \in Memory \ live :
           /\ live' = live \union {m}
           /\ bVec' = Append(mCamBuffers, m)
           /\ mBufferMap' = [mBufferMap EXCEPT ![v] = Cardinality(Mapped)]
           /\ queued' = IF requested THEN [queued EXCEPT ![v] = m] ELSE queued
           /\ bpc' = "publish" /\ UNCHANGED <<aborted, fd, requested>>
<1> DEFINE n == Cardinality(Mapped)
<1>1. n \in Nat /\ n < MAX_BUFFERS_IN_FLIGHT /\ n = mFramesAllowed /\ IsFiniteSet(Mapped)
      /\ MAX_BUFFERS_IN_FLIGHT <= V4L2_BUFFER_NUM /\ V4L2_BUFFER_NUM \in Nat
      /\ MAX_BUFFERS_IN_FLIGHT \in Nat
  BY MappedCount, CountsAssumption DEF IncreaseMap
<1>2. Unmapped = Index \ Mapped
  BY DEF Unmapped, MapsInv
<1>3. Unmapped # {}
  <2>1. SUFFICES ASSUME Unmapped = {} PROVE FALSE
    OBVIOUS
  <2>2. Index \subseteq Mapped
    BY <1>2, <2>1
  <2>3. Cardinality(Index) <= n
    BY <1>1, <2>2, FS_Subset
  <2>4. Cardinality(Index) = V4L2_BUFFER_NUM
    BY <1>1, FS_Interval DEF Index
  <2>5. QED BY <1>1, <2>3, <2>4
<1>4. live # Memory
  <2>1. SUFFICES ASSUME live = Memory PROVE FALSE
    OBVIOUS
  <2>2. IsFiniteSet(Memory) /\ Cardinality(Memory) = n
    BY <2>1 DEF MapsInv
  <2>3. QED BY <1>1, <2>2 DEF Steady
<1>5. fd = "open" /\ bpc = "increase"
  BY DEF IncreaseMap, CalmInv
<1>6. ~ \E k \in DOMAIN mCamBuffers : mCamBuffers[k] = NULL
  <2>1. mCamBuffers \in Seq(Memory)
    BY <1>5 DEF MapsInv, Buffers
  <2>2. \A k \in DOMAIN mCamBuffers : mCamBuffers[k] \in Memory
    BY <2>1, ElementOfSeq, LenProperties
  <2>3. QED BY <2>2, NullAssumption
<1>7. SlotFor = {n}
  <2>1. \A k \in 0 .. n : k \in FreeSlots <=> k = n
    <3>1. n \in FreeSlots
      BY <1>1 DEF FreeSlots, MapsInv
    <3>2. \A k \in 0 .. n : k # n => k \in 0 .. n - 1
      BY <1>1
    <3>3. \A k \in 0 .. n : k # n => k \notin FreeSlots
      BY <3>2 DEF FreeSlots, MapsInv
    <3>4. QED BY <3>1, <3>3
  <2>2. FreeSlots = {n}
    BY <1>1, <2>1 DEF FreeSlots
  <2>3. FirstOf({n}) = {n}
    BY <1>1 DEF FirstOf
  <2>4. QED BY <1>1, <2>2, <2>3 DEF SlotFor
<1>8. PICK v \in FirstOf(Unmapped), s \in SlotFor, m \in Memory \ live :
        /\ live' = live \union {m}
        /\ bVec' = IF \E k \in DOMAIN mCamBuffers : mCamBuffers[k] = NULL
                     THEN mCamBuffers ELSE Append(mCamBuffers, m)
        /\ mBufferMap' = [mBufferMap EXCEPT ![v] = s]
        /\ queued' = IF requested THEN [queued EXCEPT ![v] = m] ELSE queued
        /\ bpc' = "publish" /\ UNCHANGED aborted
  BY <1>3, <1>4, <1>5, Zenon DEF IncreaseMap
<1>9. v \in Index \ Mapped /\ s = n
  BY <1>2, <1>7 DEF FirstOf
<1>10. UNCHANGED <<fd, requested>>
  BY DEF IncreaseMap, camVars
<1>11. QED BY <1>6, <1>8, <1>9, <1>10

\* The flow of the two threads keeps what a steady client never brings about.
LEMMA NextCalm ==
  ASSUME Steady, CustodyInv, PhaseInv, CalmInv, MapsInv, [Next]_vars
  PROVE  CalmInv'
<1> USE DEF CalmInv, ThreadInv, CallInv, camVars, bufVars, drvVars, capVars, binVars, cliVars, useVars
<1>0. ThreadInv /\ CallInv
  BY DEF PhaseInv
<1>1. CASE \E n \in 1 .. MAX_BUFFERS_IN_FLIGHT : setMaxFramesInFlight(n)
  <2>1. PICK n \in 1 .. MAX_BUFFERS_IN_FLIGHT : setMaxFramesInFlight(n)
    BY <1>1
  <2>2. mStream = NULL /\ mFramesAllowed = 0 /\ isOpen /\ bpc = "idle"
    BY <2>1 DEF setMaxFramesInFlight, MayResize, Steady, Call
  <2>3. mFramesAllowed < n
    BY <2>2, CountsAssumption
  <2>4. /\ bpc' = "increase"
        /\ UNCHANGED <<aborted, mDecreasenum, fd, cpc, streaming, mStream, cMem>>
    BY <2>1, <2>3 DEF setMaxFramesInFlight, Call
  <2>5. cpc = "none" /\ ~streaming /\ fd = "open"
    BY <1>0, <2>2 DEF isOpen
  <2>6. QED BY <2>4, <2>5
<1>2. CASE \E stream \in {"1.0", "1.1"} : startVideoStream(stream)
  <2>1. PICK stream \in {"1.0", "1.1"} : startVideoStream(stream)
    BY <1>2
  <2>2. /\ isOpen /\ UNCHANGED <<aborted, mDecreasenum, fd, cpc, streaming, cMem>>
        /\ \/ mStream = NULL /\ mStream' = stream /\ bpc' = "increase"
           \/ UNCHANGED <<mStream, bpc>>
    BY <2>1 DEF startVideoStream, Call
  <2>3. mStream = NULL => cpc = "none" /\ ~streaming
    BY <1>0
  <2>4. fd = "open"
    BY <2>2 DEF isOpen
  <2>5. QED BY <2>2, <2>3, <2>4
<1>3. CASE stopVideoStream
  BY <1>3 DEF stopVideoStream, StopStream, Call
<1>4. CASE shutdown
  BY <1>4 DEF shutdown, StopStream, Call
<1>5. CASE \E i \in Index : doneWithFrame(i)
  <2>1. isOpen
    BY <1>5 DEF doneWithFrame, Steady
  <2>2. /\ bpc' = "return"
        /\ UNCHANGED <<aborted, mDecreasenum, fd, cpc, streaming, mStream, cMem>>
    BY <1>5 DEF doneWithFrame, Call
  <2>3. QED BY <2>1, <2>2 DEF isOpen
<1>6. CASE AwaitDecrease
  BY <1>6 DEF AwaitDecrease
<1>7. CASE DecreaseNotified
  BY <1>7 DEF DecreaseNotified, LeaveWait
<1>8. CASE IncreaseMap
  <2>1. bpc' = "publish" /\ UNCHANGED aborted
    BY <1>8, IncreaseSucceeds
  <2>2. /\ bpc = "increase"
        /\ UNCHANGED <<mDecreasenum, fd, cpc, streaming, mStream, cMem>>
    BY <1>8 DEF IncreaseMap
  <2>3. QED BY <2>1, <2>2
<1>9. CASE IncreasePublish
  BY <1>9 DEF IncreasePublish
<1>10. CASE IncreaseDone
  BY <1>10 DEF IncreaseDone, Return
<1>11. CASE StreamOn
  BY <1>0, <1>11 DEF StreamOn
<1>12. CASE StreamOnFails
  BY <1>12 DEF StreamOnFails
<1>13. CASE SpawnCapture
  BY <1>13 DEF SpawnCapture, Return
<1>14. CASE onStop
  BY <1>14 DEF onStop
<1>15. CASE JoinCapture
  BY <1>15 DEF JoinCapture
<1>16. CASE EndStream
  BY <1>16 DEF EndStream, Return
<1>17. CASE onClose
  BY <1>0, <1>17 DEF onClose, Return
<1>18. CASE ReturnFrame
  <2>1. bIdx \in Mapped
    BY <1>18 DEF ReturnFrame, CustodyInv, Circulating, Returning, TypeOK, DataOK
  <2>2. ~aborted' /\ UNCHANGED <<mDecreasenum, streaming>>
    BY <1>18, <2>1, FrameIsRequeued DEF ReturnFrame
  <2>3. bpc' = "idle" /\ UNCHANGED <<fd, cpc, mStream, cMem>>
    BY <1>18 DEF ReturnFrame, Return
  <2>4. QED BY <2>2, <2>3
<1>19. CASE ReadRunMode
  BY <1>19 DEF ReadRunMode
<1>20. CASE DequeueFrame
  BY <1>20 DEF DequeueFrame
<1>21. CASE DequeueFails
  BY <1>21 DEF DequeueFails
<1>22. CASE LookUpFrame
  <2>1. cIdx \in Mapped
    BY <1>22 DEF LookUpFrame, CustodyInv, Circulating, Capturing, TypeOK, DataOK
  <2>2. CanLookUp(cIdx) /\ BackedBy(cIdx) \in Memory
    BY <1>22, <2>1, LookUpFinds DEF LookUpFrame
  <2>3. ~aborted' /\ cMem' # NULL
    BY <1>22, <2>2, NullAssumption DEF LookUpFrame
  <2>4. /\ cpc = "lookUp" /\ cpc' = "forward"
        /\ UNCHANGED <<mDecreasenum, bpc, fd, streaming, mStream>>
    BY <1>22 DEF LookUpFrame
  <2>5. QED BY <2>3, <2>4
<1>23. CASE SkipFrame
  BY <1>23 DEF SkipFrame
<1>24. CASE ForwardFrame
  BY <1>24 DEF ForwardFrame
<1>25. CASE DeliverFrame
  BY <1>25 DEF DeliverFrame
<1>26. CASE DeliveryFails
  BY <1>26 DEF DeliveryFails
<1>27. CASE ReturnUndelivered
  <2>1. cIdx \in Mapped /\ fd = "open" /\ bpc # "publish"
    BY <1>27 DEF ReturnUndelivered, CustodyInv, Circulating, Capturing, TypeOK, DataOK
  <2>2. ~aborted' /\ UNCHANGED <<mDecreasenum, streaming>>
    BY <1>27, <2>1, FrameIsRequeued DEF ReturnUndelivered
  <2>3. /\ cpc = "returnUndelivered" /\ cpc' = "readRunMode"
        /\ UNCHANGED <<bpc, fd, mStream, cMem>>
    BY <1>27 DEF ReturnUndelivered
  <2>4. QED BY <2>2, <2>3
<1>28. CASE SpuriousWakeup
  BY <1>28 DEF SpuriousWakeup, LeaveWait
<1>29. CASE ClientDies
  BY <1>29 DEF ClientDies
<1>30. CASE UNCHANGED vars
  BY <1>30 DEF vars
<1>31. QED
  BY <1>1, <1>2, <1>3, <1>4, <1>5, <1>6, <1>7, <1>8, <1>9, <1>10, <1>11, <1>12, <1>13, <1>14, <1>15,
     <1>16, <1>17, <1>18, <1>19, <1>20, <1>21, <1>22, <1>23, <1>24, <1>25, <1>26, <1>27, <1>28, <1>29, <1>30
     DEF Next, Calls, BinderSteps, CaptureSteps

\* Every other step leaves the maps as they are, and what it queues is the memory
\* that they lead to.
QueuedByTheMaps ==
  /\ UNCHANGED <<mBufferMap, live>> /\ UNCHANGED Buffers
  /\ \A i \in Index : \/ queued'[i] \in {queued[i], NULL}
                      \/ i \in Mapped /\ queued'[i] = Buffers[mBufferMap[i] + 1]

LEMMA SteadySteps ==
  ASSUME Steady, CustodyInv, PhaseInv, CalmInv, MapsInv, [Next]_vars
  PROVE  IncreaseMap \/ QueuedByTheMaps
<1> USE DEF CalmInv, QueuedByTheMaps, camVars, bufVars, drvVars, capVars, binVars, cliVars, useVars
<1>a. queued \in [Index -> Memory \union {NULL}]
  BY DEF CustodyInv, TypeOK, DataOK
<1>b. ASSUME UNCHANGED <<mBufferMap, live, mCamBuffers, queued, bVec>>,
             bpc = "publish" <=> bpc' = "publish"
      PROVE  QueuedByTheMaps
  BY <1>b DEF Buffers
<1>c. ASSUME UNCHANGED <<mBufferMap, live, mCamBuffers, bVec>>,
             bpc # "publish", bpc' # "publish",
             NEW i \in Mapped, i \in Index, fd = "open",
             queued' = (IF requested THEN [queued EXCEPT ![i] = BackedBy(i)] ELSE queued)
      PROVE  QueuedByTheMaps
  <2>1. UNCHANGED Buffers
    BY <1>c DEF Buffers
  <2>2. BackedBy(i) = Buffers[mBufferMap[i] + 1]
    BY <1>c, LookUpFinds
  <2>3. QED BY <1>a, <1>c, <2>1, <2>2
<1>1. CASE \E n \in 1 .. MAX_BUFFERS_IN_FLIGHT : setMaxFramesInFlight(n)
  BY <1>1, <1>b DEF setMaxFramesInFlight, Call
<1>2. CASE \E stream \in {"1.0", "1.1"} : startVideoStream(stream)
  BY <1>2, <1>b DEF startVideoStream, Call
<1>3. CASE stopVideoStream \/ shutdown
  BY <1>3, <1>b DEF stopVideoStream, shutdown, StopStream, Call
<1>4. CASE \E i \in Index : doneWithFrame(i)
  BY <1>4, <1>b DEF doneWithFrame, Call
<1>5. CASE AwaitDecrease \/ DecreaseNotified \/ SpuriousWakeup
  BY <1>5 DEF AwaitDecrease, DecreaseNotified, SpuriousWakeup, LeaveWait
<1>6. CASE IncreasePublish
  BY <1>6 DEF IncreasePublish, Buffers
<1>7. CASE IncreaseDone \/ StreamOn \/ StreamOnFails
  BY <1>7, <1>b DEF IncreaseDone, StreamOn, StreamOnFails, Return
<1>8. CASE SpawnCapture \/ JoinCapture \/ EndStream
  BY <1>8, <1>b DEF SpawnCapture, JoinCapture, EndStream, Return
<1>9. CASE onStop
  BY <1>9 DEF onStop, Buffers
<1>10. CASE onClose
  BY <1>10 DEF onClose, onMemoryDestroy, Return, Buffers
<1>11. CASE ReturnFrame
  <2>1. bIdx \in Mapped /\ bIdx \in Index
    BY <1>11 DEF ReturnFrame, CustodyInv, Circulating, Returning, TypeOK, DataOK
  <2>2. bpc = "return" /\ bpc' = "idle" /\ UNCHANGED bVec
    BY <1>11 DEF ReturnFrame, Return
  <2>3. /\ UNCHANGED <<mBufferMap, live, mCamBuffers>>
        /\ queued' = IF requested THEN [queued EXCEPT ![bIdx] = BackedBy(bIdx)] ELSE queued
    BY <1>11, <2>1, <2>2, FrameIsRequeued DEF ReturnFrame
  <2>4. QED BY <1>c, <2>1, <2>2, <2>3
<1>12. CASE ReturnUndelivered
  <2>1. cIdx \in Mapped /\ cIdx \in Index
    BY <1>12 DEF ReturnUndelivered, CustodyInv, Circulating, Capturing, TypeOK, DataOK
  <2>2. fd = "open" /\ bpc # "publish" /\ UNCHANGED <<bpc, bVec>>
    BY <1>12 DEF ReturnUndelivered
  <2>3. /\ UNCHANGED <<mBufferMap, live, mCamBuffers>>
        /\ queued' = IF requested THEN [queued EXCEPT ![cIdx] = BackedBy(cIdx)] ELSE queued
    BY <1>12, <2>1, <2>2, FrameIsRequeued DEF ReturnUndelivered
  <2>4. QED BY <1>c, <2>1, <2>2, <2>3
<1>13. CASE ReadRunMode \/ DequeueFails \/ LookUpFrame \/ SkipFrame
  BY <1>13, <1>b DEF ReadRunMode, DequeueFails, LookUpFrame, SkipFrame
<1>14. CASE ForwardFrame \/ DeliverFrame \/ DeliveryFails \/ ClientDies
  BY <1>14, <1>b DEF ForwardFrame, DeliverFrame, DeliveryFails, ClientDies
<1>15. CASE DequeueFrame
  BY <1>15, <1>a DEF DequeueFrame, Buffers
<1>16. CASE UNCHANGED vars
  BY <1>16, <1>b DEF vars
<1>17. QED
  BY <1>1, <1>2, <1>3, <1>4, <1>5, <1>6, <1>7, <1>8, <1>9, <1>10, <1>11, <1>12, <1>13, <1>14, <1>15,
     <1>16 DEF Next, Calls, BinderSteps, CaptureSteps

LEMMA QueuingKeepsMaps == ASSUME MapsInv, QueuedByTheMaps PROVE MapsInv'
<1>1. UNCHANGED Mapped
  BY DEF QueuedByTheMaps, Mapped
<1>2. \A i \in WithDriver' : queued'[i] = Buffers'[mBufferMap'[i] + 1]
  BY DEF MapsInv, QueuedByTheMaps, WithDriver
<1>3. QED BY <1>1, <1>2 DEF MapsInv, QueuedByTheMaps

LEMMA IncreaseKeepsMaps ==
  ASSUME Steady, CustodyInv, CalmInv, MapsInv, IncreaseMap PROVE MapsInv'
<1> DEFINE n == Cardinality(Mapped)
<1>1. PICK v \in Index \ Mapped, m \in Memory \ live :
           /\ live' = live \union {m}
           /\ bVec' = Append(mCamBuffers, m)
           /\ mBufferMap' = [mBufferMap EXCEPT ![v] = n]
           /\ queued' = IF requested THEN [queued EXCEPT ![v] = m] ELSE queued
           /\ bpc' = "publish" /\ UNCHANGED <<aborted, fd, requested>>
  BY IncreaseSucceeds
<1>2. n \in Nat /\ n < MAX_BUFFERS_IN_FLIGHT /\ IsFiniteSet(Mapped) /\ n \in Count
  BY MappedCount, CountsAssumption DEF IncreaseMap, Count
<1>3. /\ mBufferMap \in [Index -> Count \union {-1}] /\ bpc = "increase"
      /\ queued \in [Index -> Memory \union {NULL}]
  BY DEF MapsInv, IncreaseMap, CustodyInv, TypeOK, DataOK
<1>4. Mapped' = Mapped \union {v}
  <2>1. DOMAIN mBufferMap = Index /\ DOMAIN mBufferMap' = Index /\ n # -1
    BY <1>1, <1>2, <1>3
  <2>2. \A i \in Index : mBufferMap'[i] = IF i = v THEN n ELSE mBufferMap[i]
    BY <1>1, <1>3
  <2>3. QED BY <1>1, <2>1, <2>2 DEF Mapped
<1>5. Cardinality(Mapped') = n + 1 /\ IsFiniteSet(live') /\ Cardinality(live') = n + 1
  <2>1. Cardinality(Mapped') = n + 1
    BY <1>1, <1>2, <1>4, FS_AddElement
  <2>2. IsFiniteSet(live) /\ Cardinality(live) = n
    BY DEF MapsInv
  <2>3. IsFiniteSet(live') /\ Cardinality(live') = n + 1
    BY <1>1, <2>2, FS_AddElement
  <2>4. QED BY <2>1, <2>3
<1>6. Buffers = mCamBuffers /\ Buffers' = Append(mCamBuffers, m)
  BY <1>1, <1>3 DEF Buffers
<1>7. /\ mCamBuffers \in Seq(Memory) /\ Len(mCamBuffers) = n /\ DOMAIN mCamBuffers = 1 .. n
      /\ \A k \in 1 .. n : mCamBuffers[k] \in live
      /\ \A k, l \in 1 .. n : mCamBuffers[k] = mCamBuffers[l] => k = l
  BY <1>6, LenProperties DEF MapsInv
<1>8. /\ Buffers' \in Seq(Memory) /\ Len(Buffers') = n + 1 /\ DOMAIN Buffers' = 1 .. n + 1
      /\ \A k \in 1 .. n : Buffers'[k] = mCamBuffers[k]
      /\ Buffers'[n + 1] = m
  BY <1>6, <1>7, AppendProperties, LenProperties
<1>9. \A k \in 1 .. n + 1 : k \in 1 .. n \/ k = n + 1
  BY <1>2
<1>10. \A k, l \in DOMAIN Buffers' : Buffers'[k] = Buffers'[l] => k = l
  BY <1>1, <1>7, <1>8, <1>9
<1>11. \A k \in DOMAIN Buffers' : Buffers'[k] \in live'
  BY <1>1, <1>7, <1>8, <1>9
<1>12. \A i \in Mapped : mBufferMap'[i] = mBufferMap[i] /\ mBufferMap[i] \in 0 .. n - 1
  BY <1>1, <1>3 DEF MapsInv
<1>13. mBufferMap'[v] = n /\ n \notin 0 .. n - 1
  BY <1>1, <1>2, <1>3
<1>14. \A i \in Mapped' : mBufferMap'[i] \in 0 .. n
  BY <1>2, <1>4, <1>12, <1>13
<1>15. \A k \in 0 .. n : \E i \in Mapped' : mBufferMap'[i] = k
  <2>1. \A k \in 0 .. n : k \in 0 .. n - 1 \/ k = n
    BY <1>2
  <2>2. \A k \in 0 .. n - 1 : \E i \in Mapped : mBufferMap[i] = k
    BY DEF MapsInv
  <2>3. QED BY <1>4, <1>12, <1>13, <2>1, <2>2
<1>16. \A i, j \in Mapped' : mBufferMap'[i] = mBufferMap'[j] => i = j
  BY <1>4, <1>12, <1>13 DEF MapsInv
<1>17. \A i \in WithDriver' : queued'[i] = Buffers'[mBufferMap'[i] + 1]
  <2> SUFFICES ASSUME NEW i \in WithDriver' PROVE queued'[i] = Buffers'[mBufferMap'[i] + 1]
    OBVIOUS
  <2>1. CASE i = v /\ requested
    BY <1>1, <1>3, <1>8, <1>13, <2>1
  <2>2. CASE ~(i = v /\ requested)
    <3>1. i \in WithDriver /\ queued'[i] = queued[i]
      BY <1>1, <1>3, <2>2 DEF WithDriver
    <3>2. i \in Mapped
      BY <3>1 DEF CustodyInv, Circulating
    <3>3. mBufferMap[i] + 1 \in 1 .. n
      BY <1>2, <1>12, <3>2
    <3>4. queued[i] = mCamBuffers[mBufferMap[i] + 1]
      BY <1>6, <3>1 DEF MapsInv
    <3>5. QED BY <1>8, <1>12, <3>1, <3>2, <3>3, <3>4
  <2>3. QED BY <2>1, <2>2
<1>18. mBufferMap' \in [Index -> Count \union {-1}]
  BY <1>1, <1>2, <1>3
<1>19. (n + 1) - 1 = n
  BY <1>2
<1>20. QED BY <1>5, <1>8, <1>10, <1>11, <1>14, <1>15, <1>16, <1>17, <1>18, <1>19 DEF MapsInv

LEMMA NextMaps ==
  ASSUME Steady, CustodyInv, PhaseInv, CalmInv, MapsInv, [Next]_vars
  PROVE  MapsInv'
BY SteadySteps, QueuingKeepsMaps, IncreaseKeepsMaps

LEMMA SteadyCorrect == ASSUME Steady PROVE Spec => []SteadyInv
<1>1. Init => SteadyInv
  BY InitSteady, InitCustody, InitPhase DEF SteadyInv
<1>2. SteadyInv /\ [Next]_vars => SteadyInv'
  BY NextCalm, NextMaps, NextCustody, NextPhase DEF SteadyInv, CustodyInv
<1>3. QED BY <1>1, <1>2, PTL DEF Spec

\* The memory the driver fills is the memory that onFrameCollect looks up, for a
\* client that sets its buffers once, whatever becomes of it.
THEOREM MapsAgree == ASSUME Steady PROVE Spec => []QueuedIsLookedUp
<1>1. SteadyInv => QueuedIsLookedUp
  <2> SUFFICES ASSUME SteadyInv, streaming, NEW i \in WithDriver
               PROVE  /\ CanLookUp(i) /\ BackedBy(i) = queued[i] /\ queued[i] \in live
                      /\ \A j \in Mapped : BackedBy(j) = BackedBy(i) => j = i
    BY DEF QueuedIsLookedUp
  <2> USE DEF SteadyInv
  <2>1. i \in Mapped /\ fd = "open" /\ bpc # "publish"
    BY DEF CustodyInv, Circulating, CalmInv
  <2>2. Buffers = mCamBuffers /\ DOMAIN mCamBuffers = 1 .. Cardinality(Mapped)
    BY <2>1, LenProperties DEF Buffers, MapsInv
  <2>3. \A j \in Mapped : mBufferMap[j] \in Int /\ mBufferMap[j] + 1 \in DOMAIN mCamBuffers
    BY <2>2, MappedCount DEF MapsInv
  <2>4. \A j \in Mapped : BackedBy(j) = BackedBy(i) => j = i
    <3> SUFFICES ASSUME NEW j \in Mapped, BackedBy(j) = BackedBy(i) PROVE j = i
      OBVIOUS
    <3>1. mBufferMap[j] + 1 = mBufferMap[i] + 1
      BY <2>1, <2>2, <2>3 DEF MapsInv, BackedBy
    <3>2. mBufferMap[j] = mBufferMap[i]
      BY <2>1, <2>3, <3>1
    <3>3. QED BY <2>1, <3>2 DEF MapsInv
  <2>5. BackedBy(i) = queued[i] /\ queued[i] \in live
    BY <2>1, <2>2, <2>3 DEF MapsInv, BackedBy
  <2>6. QED BY <2>1, <2>4, <2>5, LookUpFinds
<1>2. QED BY <1>1, SteadyCorrect, PTL

\* Neither thread ends the process for such a client: no lookup throws and no null
\* frame is forwarded.
THEOREM NothingAborts == ASSUME Steady PROVE Spec => []NoAbort
<1>1. SteadyInv => NoAbort
  BY DEF SteadyInv, CalmInv, NoAbort
<1>2. QED BY <1>1, SteadyCorrect, PTL

-----------------------------------------------------------------------------
(* The accounts, for every client and every environment: the count is exact *)
(* and no buffer is lost until an update of the count is lost.  The second  *)
(* needs to know that a frame in hand can be given back, that is, that the  *)
(* slot it was found in is not emptied under it.                            *)

\* A device without its buffers is closed or stopped; only a dead client leaves a
\* frame undelivered.
OpenInv ==
  /\ requested => fd = "open"
  /\ cpc = "returnUndelivered" => ~clientAlive

\* the frames that were looked up and found, and are not yet given back
InHand == {i \in Index : \/ i \in held \union Returning
                         \/ i = cIdx /\ cpc = "deliver"
                         \/ i = cIdx /\ cpc = "forward" /\ cMem # NULL}

\* The memory of a frame in hand stays where it was found: the indices have slots
\* of their own, and the vector that is published only adds to the one it copies.
BackingInv ==
  /\ \A i, j \in Mapped : mBufferMap[i] = mBufferMap[j] => i = j
  /\ \A i \in InHand : CanLookUp(i) => BackedBy(i) # NULL
  /\ bpc = "publish" =>
       /\ DOMAIN mCamBuffers \subseteq DOMAIN bVec
       /\ \A k \in DOMAIN mCamBuffers : bVec[k] = mCamBuffers[k]
       /\ \A k \in DOMAIN bVec \ DOMAIN mCamBuffers : bVec[k] # NULL

\* Every frame of a client that lives is accounted for, whatever else happens.
AccountsInv ==
  /\ OpenInv /\ FramesInUseIsExact /\ NothingLost
  /\ clientAlive /\ ~aborted => BackingInv

LEMMA InitAccounts == Init => AccountsInv
<1> SUFFICES ASSUME Init PROVE AccountsInv
  OBVIOUS
<1>1. held = {} /\ Returning = {} /\ mFramesInUse = 0 /\ Mapped = {}
  BY DEF Init, Returning, Mapped
<1>2. FramesInUseIsExact
  BY <1>1, FS_EmptySet DEF FramesInUseIsExact
<1>3. InHand = {}
  BY <1>1 DEF Init, InHand
<1>4. BackingInv
  BY <1>1, <1>3 DEF Init, BackingInv
<1>5. OpenInv /\ NothingLost
  BY <1>1 DEF Init, OpenInv, NothingLost
<1>6. QED BY <1>2, <1>4, <1>5 DEF AccountsInv

\* The frames lent, and the one that is being returned.
LEMMA LentCount ==
  ASSUME CustodyInv
  PROVE  /\ IsFiniteSet(held) /\ Cardinality(held) \in Nat
         /\ bpc = "return" => Returning = {bIdx} /\ Cardinality(Returning) = 1
         /\ bpc # "return" => Returning = {} /\ Cardinality(Returning) = 0
<1>1. IsFiniteSet(held) /\ Cardinality(held) \in Nat
  <2>1. IsFiniteSet(Index)
    BY CountsAssumption, FS_Interval DEF Index
  <2>2. QED BY <2>1, FS_Subset, FS_CardinalityType DEF CustodyInv, TypeOK, DataOK
<1>2. bIdx \in Index
  BY DEF CustodyInv, TypeOK, DataOK
<1>3. Cardinality({bIdx}) = 1 /\ Cardinality({}) = 0
  BY FS_Singleton, FS_EmptySet
<1>4. QED BY <1>1, <1>2, <1>3 DEF Returning

\* Of n mapped buffers, at most n - 1 are with the client while one is being
\* captured: an exact count never exceeds what is allowed.
LEMMA OneIsCaptured ==
  ASSUME CustodyInv, clientAlive, ~raced, FramesInUseIsExact, cpc \in {"forward", "deliver"}
  PROVE  mFramesInUse \in Nat /\ mFramesInUse <= mFramesAllowed
         /\ mFramesInUse < MAX_BUFFERS_IN_FLIGHT
<1>1. /\ cIdx \in Index /\ bIdx \in Index /\ held \subseteq Index /\ mFramesInUse \in Nat
  BY DEF CustodyInv, TypeOK, DataOK, Count
<1>2. cIdx \in Capturing
  BY <1>1 DEF Capturing
<1>3. cIdx \in Mapped /\ held \union Returning \subseteq Mapped \ {cIdx}
  BY <1>2 DEF CustodyInv, Circulating, ExclusiveCustody
<1>4. IsFiniteSet(Returning)
  <2>1. Returning = {bIdx} \/ Returning = {}
    BY LentCount
  <2>2. IsFiniteSet({bIdx}) /\ IsFiniteSet({})
    BY FS_EmptySet, FS_Singleton
  <2>3. QED BY <2>1, <2>2
<1>5. held \intersect Returning = {}
  BY DEF CustodyInv, ExclusiveCustody
<1>6. Cardinality(held \union Returning) = Cardinality(held) + Cardinality(Returning)
  <2>1. Cardinality(held \intersect Returning) = 0
    BY <1>5, FS_EmptySet
  <2>2. /\ Cardinality(held \union Returning) =
             Cardinality(held) + Cardinality(Returning) - Cardinality(held \intersect Returning)
        /\ Cardinality(held) \in Nat /\ Cardinality(Returning) \in Nat
    BY <1>4, LentCount, FS_Union, FS_CardinalityType
  <2>3. QED BY <2>1, <2>2
<1>7. /\ IsFiniteSet(Mapped) /\ mFramesAllowed \in Nat /\ Cardinality(Mapped) \in Nat
      /\ Cardinality(Mapped) <= mFramesAllowed + 1
      /\ Cardinality(Mapped) <= MAX_BUFFERS_IN_FLIGHT
  <2>1. /\ IsFiniteSet(Mapped) /\ mFramesAllowed \in Nat /\ Cardinality(Mapped) \in Nat
        /\ bNeeded \in Nat /\ MAX_BUFFERS_IN_FLIGHT \in Nat
    BY MappedCount, CountsAssumption DEF CustodyInv, TypeOK, DataOK
  <2>2. CountsAgree
    BY DEF CustodyInv
  <2>3. QED BY <2>1, <2>2 DEF CountsAgree
<1>8. Cardinality(Mapped \ {cIdx}) = Cardinality(Mapped) - 1 /\ IsFiniteSet(Mapped \ {cIdx})
  BY <1>3, <1>7, FS_RemoveElement
<1>9. Cardinality(held \union Returning) <= Cardinality(Mapped) - 1
  BY <1>3, <1>8, FS_Subset
<1>10. mFramesInUse = Cardinality(held \union Returning)
  BY <1>6 DEF FramesInUseIsExact
<1>11. QED BY <1>1, <1>7, <1>9, <1>10, CountsAssumption

LEMMA NextOpen == ASSUME CustodyInv, OpenInv, [Next]_vars PROVE OpenInv'
<1> USE DEF OpenInv, camVars, drvVars, capVars, cliVars
<1>1. CASE Calls \/ SpuriousWakeup
  BY <1>1 DEF Calls, setMaxFramesInFlight, startVideoStream, stopVideoStream, shutdown,
              StopStream, doneWithFrame, SpuriousWakeup, LeaveWait
<1>2. CASE AwaitDecrease \/ DecreaseNotified \/ IncreaseMap \/ IncreasePublish \/ IncreaseDone
  BY <1>2 DEF AwaitDecrease, DecreaseNotified, LeaveWait, IncreaseMap, IncreasePublish, IncreaseDone
<1>3. CASE StreamOn \/ StreamOnFails \/ SpawnCapture \/ onStop \/ JoinCapture
  BY <1>3 DEF StreamOn, StreamOnFails, SpawnCapture, onStop, JoinCapture
<1>4. CASE EndStream \/ onClose \/ ReturnFrame
  BY <1>4 DEF EndStream, onClose, ReturnFrame, onFrameReturn
<1>5. CASE CaptureSteps
  BY <1>5 DEF CaptureSteps, ReadRunMode, DequeueFrame, DequeueFails, LookUpFrame, SkipFrame,
              ForwardFrame, DeliverFrame, DeliveryFails, ReturnUndelivered, onFrameReturn
<1>6. CASE ClientDies \/ UNCHANGED vars
  BY <1>6 DEF ClientDies, vars
<1>7. QED BY <1>1, <1>2, <1>3, <1>4, <1>5, <1>6 DEF Next, BinderSteps

\* A store that loses nothing counts the frame delivered, or returned.
LEMMA NextExact ==
  ASSUME CustodyInv, FramesInUseIsExact, [Next]_vars PROVE FramesInUseIsExact'
<1> SUFFICES ASSUME clientAlive', ~raced'
             PROVE  mFramesInUse' = Cardinality(held') + Cardinality(Returning')
  BY DEF FramesInUseIsExact
<1> USE DEF camVars, bufVars, drvVars, capVars, binVars, cliVars, useVars
<1>a. /\ IsFiniteSet(held) /\ Cardinality(held) \in Nat /\ held \subseteq Index
      /\ cIdx \in Index /\ bIdx \in Index
  BY LentCount DEF CustodyInv, TypeOK, DataOK
<1> DEFINE Same == UNCHANGED <<clientAlive, raced, mFramesInUse, held, Returning>>
<1>b. CASE Same
  BY <1>b DEF FramesInUseIsExact
<1>1. CASE \E i \in Index : doneWithFrame(i)
  <2>1. PICK i \in Index : doneWithFrame(i)
    BY <1>1
  <2>2. /\ i \in held /\ held' = held \ {i} /\ bIdx' = i /\ bpc = "idle" /\ bpc' = "return"
        /\ UNCHANGED <<clientAlive, mFramesInUse, raced>>
    BY <2>1 DEF doneWithFrame, Call
  <2>3. Returning = {} /\ Returning' = {i}
    BY <2>2 DEF Returning
  <2>4. Cardinality(held') = Cardinality(held) - 1
    BY <1>a, <2>2, FS_RemoveElement
  <2>5. Cardinality(Returning) = 0 /\ Cardinality(Returning') = 1
    BY <2>3, FS_EmptySet, FS_Singleton
  <2>6. QED BY <1>a, <2>2, <2>4, <2>5 DEF FramesInUseIsExact
<1>2. CASE ReturnFrame
  <2>1. /\ bpc = "return" /\ bpc' = "idle" /\ UNCHANGED <<clientAlive, held, bIdx>>
        /\ bLoad = mFramesInUse /\ ~raced /\ mFramesInUse' = Decr(bLoad)
    BY <1>2 DEF ReturnFrame, Return, Store
  <2>2. Cardinality(Returning) = 1 /\ Returning' = {} /\ Cardinality(Returning') = 0
    BY <2>1, LentCount, FS_EmptySet DEF Returning
  <2>3. mFramesInUse = Cardinality(held) + 1
    BY <2>1, <2>2 DEF FramesInUseIsExact
  <2>4. QED BY <1>a, <2>1, <2>2, <2>3 DEF Decr
<1>3. CASE DeliverFrame
  <2>1. /\ cpc = "deliver" /\ clientAlive /\ held' = held \union {cIdx}
        /\ cLoad = mFramesInUse /\ ~raced /\ mFramesInUse' = Incr(cLoad)
        /\ UNCHANGED <<bpc, bIdx>>
    BY <1>3 DEF DeliverFrame, Store
  <2>2. mFramesInUse \in Nat /\ mFramesInUse < MAX_BUFFERS_IN_FLIGHT
    BY <2>1, OneIsCaptured
  <2>3. mFramesInUse' = mFramesInUse + 1
    BY <2>1, <2>2, CountsAssumption DEF Incr
  <2>4. cIdx \notin held /\ Returning' = Returning
    BY <1>a, <2>1 DEF Capturing, CustodyInv, ExclusiveCustody, Returning
  <2>5. Cardinality(held') = Cardinality(held) + 1
    BY <1>a, <2>1, <2>4, FS_AddElement
  <2>6. Cardinality(Returning) \in Nat
    BY LentCount
  <2>7. QED BY <1>a, <2>1, <2>3, <2>4, <2>5, <2>6 DEF FramesInUseIsExact
<1>4. CASE DeliveryFails \/ ClientDies
  BY <1>4 DEF DeliveryFails, ClientDies
<1>5. CASE /\ \/ Calls /\ ~\E i \in Index : doneWithFrame(i)
              \/ BinderSteps /\ ~ReturnFrame
              \/ SpuriousWakeup
  <2>1. bpc # "return" /\ bpc' # "return" /\ UNCHANGED <<clientAlive, raced, mFramesInUse, held>>
    <3>1. CASE Calls /\ ~\E i \in Index : doneWithFrame(i)
      BY <3>1 DEF Calls, setMaxFramesInFlight, startVideoStream, stopVideoStream, shutdown,
                  StopStream, Call
    <3>2. CASE AwaitDecrease \/ DecreaseNotified \/ SpuriousWakeup \/ IncreaseMap \/ IncreasePublish
      BY <3>2 DEF AwaitDecrease, DecreaseNotified, SpuriousWakeup, LeaveWait, IncreaseMap,
                  IncreasePublish, Return
    <3>3. CASE IncreaseDone \/ StreamOn \/ StreamOnFails \/ SpawnCapture
      BY <3>3 DEF IncreaseDone, StreamOn, StreamOnFails, SpawnCapture, Return
    <3>4. CASE onStop \/ JoinCapture \/ EndStream \/ onClose
      BY <3>4 DEF onStop, JoinCapture, EndStream, onClose, Return
    <3>5. QED BY <1>5, <3>1, <3>2, <3>3, <3>4 DEF BinderSteps
  <2>2. Returning' = {} /\ Returning = {}
    BY <2>1 DEF Returning
  <2>3. QED BY <1>b, <2>1, <2>2
<1>6. CASE (CaptureSteps /\ ~DeliverFrame /\ ~DeliveryFails) \/ UNCHANGED vars
  <2>1. UNCHANGED <<clientAlive, raced, mFramesInUse, held, bpc, bIdx>>
    BY <1>6 DEF CaptureSteps, ReadRunMode, DequeueFrame, DequeueFails, LookUpFrame, SkipFrame,
                ForwardFrame, ReturnUndelivered, vars
  <2>2. Returning' = Returning
    BY <2>1 DEF Returning
  <2>3. QED BY <1>b, <2>1, <2>2
<1>7. QED
  BY <1>1, <1>2, <1>3, <1>4, <1>5, <1>6 DEF Next, Calls

\* mFramesInUse is the number of frames lent or being returned as long as the
\* client lives and no update of the count was lost, whatever the environment
\* does: it never wraps and nothing else makes it drift.
THEOREM FramesAreCounted == Spec => []FramesInUseIsExact
<1>1. Init => FramesInUseIsExact
  BY InitAccounts DEF AccountsInv
<1>2. CustodyInv /\ FramesInUseIsExact /\ [Next]_vars => FramesInUseIsExact'
  BY NextExact
<1>3. QED BY <1>1, <1>2, CustodyCorrect, PTL DEF Spec

\* Nothing is done to the maps, nor to a frame in hand.
BackingUntouched ==
  /\ UNCHANGED <<mBufferMap, mCamBuffers>>
  /\ fd' = fd \/ fd' # "open"
  /\ InHand' \subseteq InHand /\ bpc' # "publish"

LEMMA UntouchedBacking == ASSUME BackingInv, BackingUntouched PROVE BackingInv'
<1>1. Mapped' = Mapped
  BY DEF BackingUntouched, Mapped
<1>2. ASSUME NEW i \in InHand', CanLookUp(i)' PROVE BackedBy(i)' # NULL
  BY <1>1, <1>2 DEF BackingUntouched, BackingInv, CanLookUp, BackedBy
<1>3. QED BY <1>1, <1>2 DEF BackingUntouched, BackingInv

\* onFrameReturn of a frame: its slot alone is emptied, and no other leads there.
LEMMA ReturnKeepsBacking ==
  ASSUME CustodyInv, BackingInv, NEW i \in Mapped, onFrameReturn(i), bpc' # "publish",
         fd' = fd, i \notin InHand', InHand' \subseteq InHand, ~aborted'
  PROVE  BackingInv'
<1>1. CASE mDecreasenum > 0 /\ isOpen
  <2>1. /\ CanLookUp(i)
        /\ mCamBuffers' = [mCamBuffers EXCEPT ![mBufferMap[i] + 1] = NULL]
        /\ mBufferMap' = [mBufferMap EXCEPT ![i] = -1]
    <3>1. onDecreaseMemoryBuffer(i)
      BY <1>1 DEF onFrameReturn, DropFrame, RequeueFrame
    <3>2. CanLookUp(i)
      BY <3>1, Zenon DEF onDecreaseMemoryBuffer
    <3>3. QED BY <3>1, <3>2, Zenon DEF onDecreaseMemoryBuffer
  <2>2. Mapped' = Mapped \ {i} /\ \A j \in Mapped' : mBufferMap'[j] = mBufferMap[j]
    BY <2>1 DEF Mapped
  <2>3. DOMAIN mCamBuffers' = DOMAIN mCamBuffers
    BY <2>1
  <2>4. ASSUME NEW j \in InHand', CanLookUp(j)' PROVE BackedBy(j)' # NULL
    <3>1. j \in InHand /\ j \in Mapped /\ j # i /\ mBufferMap'[j] = mBufferMap[j]
      BY <2>2, <2>4 DEF CanLookUp
    <3>2. CanLookUp(j) /\ mBufferMap[j] # mBufferMap[i]
      BY <2>3, <2>4, <3>1 DEF CanLookUp, BackingInv
    <3>3. mBufferMap[j] \in Int /\ mBufferMap[i] \in Int
      BY <3>1 DEF CustodyInv, TypeOK, DataOK, Mapped, Count
    <3>4. mCamBuffers'[mBufferMap[j] + 1] = mCamBuffers[mBufferMap[j] + 1]
      BY <2>1, <3>2, <3>3 DEF CanLookUp
    <3>5. QED BY <3>1, <3>2, <3>4 DEF BackedBy, BackingInv
  <2>5. QED BY <2>2, <2>4 DEF BackingInv
<1>2. CASE ~(mDecreasenum > 0 /\ isOpen)
  <2>1. UNCHANGED <<mBufferMap, mCamBuffers>>
    BY <1>2 DEF onFrameReturn, DropFrame, RequeueFrame, bufVars
  <2>2. QED BY <2>1, UntouchedBacking DEF BackingUntouched
<1>3. QED BY <1>1, <1>2

\* onIncreaseMemoryBuffer: an index and a slot that nothing else uses, and a copy
\* of the vector with one more buffer, or none.
LEMMA IncreaseKeepsBacking ==
  ASSUME CustodyInv, BackingInv, IncreaseMap, ~aborted' PROVE BackingInv'
<1>1. PICK v \in FirstOf(Unmapped), s \in SlotFor, m \in Memory \ live :
        /\ bVec' = IF \E k \in DOMAIN mCamBuffers : mCamBuffers[k] = NULL
                     THEN mCamBuffers ELSE Append(mCamBuffers, m)
        /\ mBufferMap' = [mBufferMap EXCEPT ![v] = s]
  BY Zenon DEF IncreaseMap
<1>2. /\ bpc = "increase" /\ UNCHANGED <<fd, mCamBuffers, held, cpc, cIdx, cMem, bIdx>>
      /\ bpc' = "publish"
  BY DEF IncreaseMap, camVars, capVars, cliVars
<1>3. /\ v \in Index \ Mapped /\ v \in DOMAIN mBufferMap /\ mBufferMap \in [Index -> Count \union {-1}]
      /\ mCamBuffers \in Seq(Memory \union {NULL})
  BY <1>1 DEF FirstOf, Unmapped, Mapped, CustodyInv, TypeOK, DataOK
<1>4. \A i \in Mapped : mBufferMap[i] # s
  <2>1. CASE mFramesAllowed = 0
    <3>1. IsFiniteSet(Mapped) /\ Cardinality(Mapped) = 0
      BY <1>2, <2>1, MappedCount
    <3>2. QED BY <3>1, FS_EmptySet
  <2>2. CASE mFramesAllowed # 0
    <3>1. FreeSlots # {}
      BY <1>2, SlotExists
    <3>2. QED BY <1>1, <2>2, <3>1 DEF SlotFor, FreeSlots, FirstOf
  <2>3. QED BY <2>1, <2>2
<1>5. /\ Mapped' \subseteq Mapped \union {v} /\ mBufferMap'[v] = s
      /\ \A i \in Mapped : mBufferMap'[i] = mBufferMap[i]
  BY <1>1, <1>3 DEF Mapped
<1>6. \A i, j \in Mapped' : mBufferMap'[i] = mBufferMap'[j] => i = j
  BY <1>3, <1>4, <1>5 DEF BackingInv
<1>7. InHand' = InHand /\ InHand \subseteq Mapped
  <2>1. InHand' = InHand
    BY <1>2 DEF InHand, Returning
  <2>2. InHand \subseteq Circulating
    BY DEF InHand, Circulating, Capturing
  <2>3. QED BY <2>1, <2>2 DEF CustodyInv
<1>8. ASSUME NEW i \in InHand', CanLookUp(i)' PROVE BackedBy(i)' # NULL
  <2>1. i \in Mapped /\ mBufferMap'[i] = mBufferMap[i] /\ i \in InHand
    BY <1>5, <1>7, <1>8
  <2>2. CanLookUp(i) /\ BackedBy(i)' = BackedBy(i)
    BY <1>2, <1>8, <2>1 DEF CanLookUp, BackedBy
  <2>3. QED BY <2>1, <2>2 DEF BackingInv
<1>9. /\ DOMAIN mCamBuffers' \subseteq DOMAIN bVec'
      /\ \A k \in DOMAIN mCamBuffers' : bVec'[k] = mCamBuffers'[k]
      /\ \A k \in DOMAIN bVec' \ DOMAIN mCamBuffers' : bVec'[k] # NULL
  <2>1. CASE \E k \in DOMAIN mCamBuffers : mCamBuffers[k] = NULL
    BY <1>1, <1>2, <2>1
  <2>2. CASE ~\E k \in DOMAIN mCamBuffers : mCamBuffers[k] = NULL
    <3>1. bVec' = Append(mCamBuffers, m) /\ m # NULL
      BY <1>1, <2>2, NullAssumption
    <3>2. /\ DOMAIN mCamBuffers = 1 .. Len(mCamBuffers) /\ Len(mCamBuffers) \in Nat
          /\ DOMAIN bVec' = 1 .. Len(mCamBuffers) + 1
          /\ \A k \in 1 .. Len(mCamBuffers) : bVec'[k] = mCamBuffers[k]
          /\ bVec'[Len(mCamBuffers) + 1] = m
      BY <1>3, <3>1, AppendProperties, LenProperties
    <3>3. QED BY <1>2, <3>1, <3>2
  <2>3. QED BY <2>1, <2>2
<1>10. QED BY <1>6, <1>8, <1>9 DEF BackingInv

\* The copy is published: what was there stays, what is new is memory.
LEMMA PublishKeepsBacking == ASSUME BackingInv, IncreasePublish PROVE BackingInv'
<1>1. /\ bpc = "publish" /\ bpc' = "increase" /\ mCamBuffers' = bVec
      /\ UNCHANGED <<fd, mBufferMap, held, cpc, cIdx, cMem, bIdx>>
  BY DEF IncreasePublish, camVars, capVars, cliVars
<1>2. Mapped' = Mapped /\ InHand' = InHand
  BY <1>1 DEF Mapped, InHand, Returning
<1>3. ASSUME NEW i \in InHand', CanLookUp(i)' PROVE BackedBy(i)' # NULL
  <2>1. i \in InHand /\ BackedBy(i)' = bVec[mBufferMap[i] + 1] /\ mBufferMap[i] + 1 \in DOMAIN bVec
    BY <1>1, <1>2, <1>3 DEF BackedBy, CanLookUp
  <2>2. CASE mBufferMap[i] + 1 \in DOMAIN mCamBuffers
    <3>1. CanLookUp(i) /\ bVec[mBufferMap[i] + 1] = BackedBy(i)
      BY <1>1, <1>2, <1>3, <2>2 DEF CanLookUp, BackedBy, BackingInv
    <3>2. QED BY <2>1, <3>1 DEF BackingInv
  <2>3. CASE mBufferMap[i] + 1 \notin DOMAIN mCamBuffers
    BY <1>1, <2>1, <2>3 DEF BackingInv
  <2>4. QED BY <2>2, <2>3
<1>4. QED BY <1>1, <1>2, <1>3 DEF BackingInv

LEMMA NextBacking ==
  ASSUME CustodyInv, OpenInv, BackingInv, [Next]_vars, clientAlive', ~aborted'
  PROVE  BackingInv'
<1> USE DEF camVars, bufVars, drvVars, capVars, binVars, cliVars, useVars
<1>a. InHand \subseteq Mapped /\ held \subseteq Index /\ bIdx \in Index /\ cIdx \in Index
  <2>1. InHand \subseteq Circulating
    BY DEF InHand, Circulating, Capturing
  <2>2. QED BY <2>1 DEF CustodyInv, TypeOK, DataOK
<1>1. CASE \E i \in Index : doneWithFrame(i)
  <2>1. /\ UNCHANGED <<fd, mBufferMap, mCamBuffers>> /\ InHand' \subseteq InHand
        /\ bpc' # "publish"
    BY <1>1 DEF doneWithFrame, Call, InHand, Returning
  <2>2. QED BY <2>1, UntouchedBacking DEF BackingUntouched
<1>2. CASE ReturnFrame
  <2>1. /\ bpc = "return" /\ bpc' = "idle" /\ onFrameReturn(bIdx)
        /\ UNCHANGED <<fd, held, cpc, cIdx, cMem, bIdx>>
    BY <1>2 DEF ReturnFrame, Return
  <2>2. bIdx \in Returning /\ bIdx \notin held \union Capturing /\ bIdx \in Mapped
    BY <1>a, <2>1 DEF Returning, CustodyInv, ExclusiveCustody, Circulating
  <2>3. InHand' \subseteq InHand /\ bIdx \notin InHand'
    BY <2>1, <2>2 DEF InHand, Returning, Capturing
  <2>4. QED BY <2>1, <2>2, <2>3, ReturnKeepsBacking
<1>3. CASE IncreaseMap
  BY <1>3, IncreaseKeepsBacking
<1>4. CASE IncreasePublish
  BY <1>4, PublishKeepsBacking
<1>5. CASE /\ \/ Calls /\ ~\E i \in Index : doneWithFrame(i)
              \/ BinderSteps /\ ~ReturnFrame /\ ~IncreaseMap /\ ~IncreasePublish
              \/ SpuriousWakeup
  <2>1. /\ UNCHANGED <<mBufferMap, mCamBuffers, held, cIdx, cMem, bIdx>>
        /\ fd' = fd \/ fd' # "open"
        /\ bpc' \notin {"publish", "return"}
        /\ cpc' = cpc \/ cpc' \in {"readRunMode", "none"}
    <3>1. CASE Calls /\ ~\E i \in Index : doneWithFrame(i)
      BY <3>1 DEF Calls, setMaxFramesInFlight, startVideoStream, stopVideoStream, shutdown,
                  StopStream, Call
    <3>2. CASE AwaitDecrease \/ DecreaseNotified \/ SpuriousWakeup
      BY <3>2 DEF AwaitDecrease, DecreaseNotified, SpuriousWakeup, LeaveWait, Return
    <3>3. CASE IncreaseDone \/ StreamOn \/ StreamOnFails \/ SpawnCapture
      BY <3>3 DEF IncreaseDone, StreamOn, StreamOnFails, SpawnCapture, Return
    <3>4. CASE onStop \/ JoinCapture \/ EndStream \/ onClose
      BY <3>4 DEF onStop, JoinCapture, EndStream, onClose, Return
    <3>5. QED BY <1>5, <3>1, <3>2, <3>3, <3>4 DEF BinderSteps
  <2>2. InHand' \subseteq InHand
    BY <2>1 DEF InHand, Returning
  <2>3. QED BY <2>1, <2>2, UntouchedBacking DEF BackingUntouched
<1>6. CASE LookUpFrame
  <2>1. /\ UNCHANGED <<fd, mBufferMap, mCamBuffers, held, cIdx, bpc, bIdx, bVec>>
        /\ cMem' = BackedBy(cIdx)
    BY <1>6 DEF LookUpFrame
  <2>2. InHand' \subseteq InHand \union {cIdx} /\ (cIdx \in InHand' => cIdx \in InHand \/ cMem' # NULL)
    BY <1>6, <2>1 DEF LookUpFrame, InHand, Returning
  <2>3. Mapped' = Mapped
    BY <2>1 DEF Mapped
  <2>4. ASSUME NEW i \in InHand', CanLookUp(i)' PROVE BackedBy(i)' # NULL
    <3>1. CanLookUp(i) /\ BackedBy(i)' = BackedBy(i)
      BY <2>1, <2>3, <2>4 DEF CanLookUp, BackedBy
    <3>2. QED BY <2>1, <2>2, <2>4, <3>1 DEF BackingInv
  <2>5. QED BY <2>1, <2>3, <2>4 DEF BackingInv
<1>7. CASE \/ ReadRunMode \/ DequeueFrame \/ DequeueFails \/ SkipFrame \/ ForwardFrame
           \/ DeliverFrame \/ UNCHANGED vars
  <2>1. UNCHANGED <<fd, mBufferMap, mCamBuffers, cMem, bpc, bIdx, bVec>>
    BY <1>7 DEF ReadRunMode, DequeueFrame, DequeueFails, SkipFrame, ForwardFrame, DeliverFrame, vars
  <2>2. InHand' \subseteq InHand
    BY <1>7, <2>1 DEF ReadRunMode, DequeueFrame, DequeueFails, SkipFrame, ForwardFrame, DeliverFrame,
                      vars, InHand, Returning
  <2>3. Mapped' = Mapped
    BY <2>1 DEF Mapped
  <2>4. ASSUME NEW i \in InHand', CanLookUp(i)' PROVE BackedBy(i)' # NULL
    BY <2>1, <2>2, <2>3, <2>4 DEF CanLookUp, BackedBy, BackingInv
  <2>5. QED BY <2>1, <2>3, <2>4 DEF BackingInv
<1>8. CASE DeliveryFails \/ ReturnUndelivered \/ ClientDies
  BY <1>8 DEF DeliveryFails, ReturnUndelivered, ClientDies, OpenInv
<1>9. QED
  BY <1>1, <1>2, <1>3, <1>4, <1>5, <1>6, <1>7, <1>8 DEF Next, Calls, BinderSteps, CaptureSteps

\* A dead client, a lost update and a device without buffers are for good.
LEMMA ForGood ==
  [Next]_vars => (clientAlive' => clientAlive) /\ (raced => raced') /\ (requested' => requested)
<1> SUFFICES ASSUME [Next]_vars
             PROVE  (clientAlive' => clientAlive) /\ (raced => raced') /\ (requested' => requested)
  OBVIOUS
<1> USE DEF drvVars, cliVars, useVars
<1>1. CASE Calls \/ SpuriousWakeup
  BY <1>1 DEF Calls, setMaxFramesInFlight, startVideoStream, stopVideoStream, shutdown,
              StopStream, doneWithFrame, SpuriousWakeup, LeaveWait
<1>2. CASE AwaitDecrease \/ DecreaseNotified \/ IncreaseMap \/ IncreasePublish \/ IncreaseDone
  BY <1>2 DEF AwaitDecrease, DecreaseNotified, LeaveWait, IncreaseMap, IncreasePublish, IncreaseDone
<1>3. CASE StreamOn \/ StreamOnFails \/ SpawnCapture \/ onStop \/ JoinCapture \/ EndStream
  BY <1>3 DEF StreamOn, StreamOnFails, SpawnCapture, onStop, JoinCapture, EndStream
<1>4. CASE onClose
  BY <1>4 DEF onClose
<1>5. CASE ReturnFrame
  BY <1>5, Zenon DEF ReturnFrame, Store, onFrameReturn
<1>6. CASE DeliverFrame \/ DeliveryFails
  <2>1. CASE DeliverFrame
    BY <2>1, Zenon DEF DeliverFrame, Store
  <2>2. CASE DeliveryFails
    BY <2>2, Zenon DEF DeliveryFails, Store
  <2>3. QED BY <1>6, <2>1, <2>2
<1>7. CASE ReadRunMode \/ DequeueFrame \/ DequeueFails \/ LookUpFrame \/ SkipFrame \/ ForwardFrame
  BY <1>7 DEF ReadRunMode, DequeueFrame, DequeueFails, LookUpFrame, SkipFrame, ForwardFrame
<1>8. CASE ReturnUndelivered
  BY <1>8 DEF ReturnUndelivered, onFrameReturn
<1>9. CASE ClientDies
  BY <1>9 DEF ClientDies
<1>10. CASE UNCHANGED vars
  BY <1>10 DEF vars
<1>11. QED
  BY <1>1, <1>2, <1>3, <1>4, <1>5, <1>6, <1>7, <1>8, <1>9, <1>10 DEF Next, BinderSteps, CaptureSteps

\* No step takes a mapped buffer out of circulation.
LEMMA NextLost ==
  ASSUME CustodyInv, PhaseInv, AccountsInv, [Next]_vars, clientAlive', ~aborted', ~raced',
         requested'
  PROVE  Mapped' \subseteq WithDriver' \union Capturing' \union Returning' \union held'
<1> USE DEF camVars, bufVars, drvVars, capVars, binVars, cliVars, useVars
<1>a. /\ held \subseteq Index /\ bIdx \in Index /\ cIdx \in Index
      /\ queued \in [Index -> Memory \union {NULL}]
  BY DEF CustodyInv, TypeOK, DataOK
<1>b. clientAlive /\ requested /\ ~raced
  BY ForGood
<1>c. CASE aborted
  <2>1. UNCHANGED vars
    BY <1>c DEF Next
  <2>2. QED BY <1>c, <2>1 DEF vars
<1>d. CASE ~aborted
  <2> USE <1>d
  <2>a. Mapped \subseteq WithDriver \union Capturing \union Returning \union held
    BY <1>b DEF AccountsInv, NothingLost
  <2>b. BackingInv
    BY <1>b DEF AccountsInv
  <2>1. CASE \E i \in Index : doneWithFrame(i)
    <3>1. PICK i \in Index : doneWithFrame(i)
      BY <2>1
    <3>2. /\ i \in held /\ held' = held \ {i} /\ bIdx' = i /\ bpc = "idle" /\ bpc' = "return"
          /\ UNCHANGED <<mBufferMap, queued, cIdx, cpc>>
      BY <3>1 DEF doneWithFrame, Call
    <3>3. UNCHANGED <<Mapped, WithDriver, Capturing>> /\ Returning = {} /\ Returning' = {i}
      BY <3>2 DEF Mapped, WithDriver, Capturing, Returning
    <3>4. QED BY <2>a, <3>2, <3>3
  <2>2. CASE ReturnFrame
    <3>1. /\ bpc = "return" /\ bpc' = "idle" /\ onFrameReturn(bIdx)
          /\ UNCHANGED <<held, bIdx, cIdx, cpc>>
      BY <2>2 DEF ReturnFrame, Return
    <3>2. Returning = {bIdx} /\ Returning' = {} /\ Capturing' = Capturing
      BY <1>a, <3>1 DEF Returning, Capturing
    <3>3. bIdx \in Mapped /\ bIdx \in InHand
      BY <1>a, <3>2 DEF CustodyInv, Circulating, InHand
    <3>4. isOpen
      BY <1>b DEF AccountsInv, OpenInv, isOpen
    <3>5. CASE DropFrame(bIdx)
      <4>1. mBufferMap' = [mBufferMap EXCEPT ![bIdx] = -1] /\ queued' = queued
        BY <3>4, <3>5 DEF DropFrame, onDecreaseMemoryBuffer
      <4>2. Mapped' \subseteq Mapped \ {bIdx} /\ WithDriver' = WithDriver
        BY <4>1 DEF Mapped, WithDriver
      <4>3. QED BY <2>a, <3>1, <3>2, <4>2
    <3>6. CASE RequeueFrame(bIdx)
      <4>1. CanLookUp(bIdx) /\ queued' = [queued EXCEPT ![bIdx] = BackedBy(bIdx)]
            /\ mBufferMap' = mBufferMap
        BY <1>b, <3>6 DEF RequeueFrame
      <4>2. BackedBy(bIdx) # NULL
        BY <2>b, <3>3, <4>1 DEF BackingInv
      <4>3. Mapped' = Mapped /\ WithDriver' = WithDriver \union {bIdx}
        BY <1>a, <4>1, <4>2 DEF Mapped, WithDriver
      <4>4. QED BY <2>a, <3>1, <3>2, <4>3
    <3>7. QED BY <3>1, <3>5, <3>6 DEF onFrameReturn
  <2>3. CASE IncreaseMap
    <3>1. PICK v \in FirstOf(Unmapped), s \in SlotFor, m \in Memory \ live :
            /\ mBufferMap' = [mBufferMap EXCEPT ![v] = s]
            /\ queued' = IF requested THEN [queued EXCEPT ![v] = m] ELSE queued
            /\ bpc' = "publish"
      BY <2>3, Zenon DEF IncreaseMap
    <3>2. bpc = "increase" /\ UNCHANGED <<held, cpc, cIdx, bIdx>>
      BY <2>3 DEF IncreaseMap
    <3>3. v \in Index /\ Mapped' \subseteq Mapped \union {v}
      BY <3>1 DEF FirstOf, Unmapped, Mapped, CustodyInv, TypeOK, DataOK
    <3>4. WithDriver' = WithDriver \union {v}
      BY <1>a, <1>b, <3>1, <3>3, NullAssumption DEF WithDriver
    <3>5. Returning' = Returning /\ Capturing' = Capturing
      BY <3>1, <3>2 DEF Returning, Capturing
    <3>6. QED BY <2>a, <3>2, <3>3, <3>4, <3>5
  <2>4. CASE DequeueFrame
    <3>1. PICK i \in Index : cIdx' = i /\ queued' = [queued EXCEPT ![i] = NULL]
      BY <2>4 DEF DequeueFrame
    <3>2. cpc = "dequeue" /\ cpc' = "lookUp" /\ UNCHANGED <<held, mBufferMap, bpc, bIdx>>
      BY <2>4 DEF DequeueFrame
    <3>3. UNCHANGED <<Mapped, Returning>> /\ Capturing' = {i} /\ Capturing = {}
      BY <3>1, <3>2 DEF Mapped, Returning, Capturing
    <3>4. WithDriver' = WithDriver \ {i}
      BY <1>a, <3>1 DEF WithDriver
    <3>5. QED BY <2>a, <3>2, <3>3, <3>4
  <2>5. CASE SkipFrame
    <3>1. mFramesInUse > mFramesAllowed /\ cpc = "forward"
      BY <2>5 DEF SkipFrame
    <3>2. mFramesInUse \in Nat /\ mFramesAllowed \in Nat /\ mFramesInUse <= mFramesAllowed
      BY <1>b, <3>1, OneIsCaptured, MappedCount DEF AccountsInv
    <3>3. QED BY <3>1, <3>2
  <2>6. CASE DeliverFrame
    <3>1. /\ cpc = "deliver" /\ held' = held \union {cIdx}
          /\ UNCHANGED <<mBufferMap, queued, bpc, bIdx>>
      BY <2>6 DEF DeliverFrame
    <3>2. UNCHANGED <<Mapped, WithDriver, Returning>> /\ Capturing = {cIdx}
      BY <1>a, <3>1 DEF Mapped, WithDriver, Returning, Capturing
    <3>3. QED BY <2>a, <3>1, <3>2
  <2>7. CASE \/ Calls /\ ~\E i \in Index : doneWithFrame(i)
             \/ BinderSteps /\ ~ReturnFrame /\ ~IncreaseMap
             \/ SpuriousWakeup
    <3>1. /\ bpc # "return" /\ UNCHANGED <<mBufferMap, queued, held, cIdx>>
          /\ cpc' = cpc \/ cpc \in {"none", "exited"}
      <4>1. CASE Calls /\ ~\E i \in Index : doneWithFrame(i)
        BY <4>1 DEF Calls, setMaxFramesInFlight, startVideoStream, stopVideoStream, shutdown,
                    StopStream, Call
      <4>2. CASE AwaitDecrease \/ DecreaseNotified \/ SpuriousWakeup \/ IncreasePublish
        BY <4>2 DEF AwaitDecrease, DecreaseNotified, SpuriousWakeup, LeaveWait, IncreasePublish
      <4>3. CASE IncreaseDone \/ StreamOn \/ StreamOnFails
        BY <4>3 DEF IncreaseDone, StreamOn, StreamOnFails
      <4>4. CASE SpawnCapture
        BY <4>4 DEF SpawnCapture, AccountsInv, PhaseInv, ThreadInv, CallInv
      <4>5. CASE onStop \/ onClose
        BY <1>b, <4>5 DEF onStop, onClose, AccountsInv, OpenInv
      <4>6. CASE JoinCapture \/ EndStream
        BY <4>6 DEF JoinCapture, EndStream
      <4>7. QED BY <2>7, <4>1, <4>2, <4>3, <4>4, <4>5, <4>6 DEF BinderSteps
    <3>2. UNCHANGED <<Mapped, WithDriver>> /\ Returning = {} /\ Capturing \subseteq Capturing'
      BY <3>1 DEF Mapped, WithDriver, Returning, Capturing
    <3>3. QED BY <2>a, <3>1, <3>2
  <2>8. CASE ReadRunMode \/ DequeueFails \/ LookUpFrame \/ ForwardFrame \/ UNCHANGED vars
    <3>1. /\ UNCHANGED <<mBufferMap, queued, held, cIdx, bpc, bIdx>>
          /\ cpc \in {"lookUp", "forward", "deliver", "returnUndelivered"} =>
               cpc' \in {"lookUp", "forward", "deliver", "returnUndelivered"}
      BY <2>8 DEF ReadRunMode, DequeueFails, LookUpFrame, ForwardFrame, vars
    <3>2. UNCHANGED <<Mapped, WithDriver, Returning>> /\ Capturing \subseteq Capturing'
      BY <3>1 DEF Mapped, WithDriver, Returning, Capturing
    <3>3. QED BY <2>a, <3>1, <3>2
  <2>9. CASE DeliveryFails \/ ReturnUndelivered \/ ClientDies
    BY <1>b, <2>9 DEF DeliveryFails, ReturnUndelivered, ClientDies, AccountsInv, OpenInv
  <2>10. QED
    BY <2>1, <2>2, <2>3, <2>4, <2>5, <2>6, <2>7, <2>8, <2>9 DEF Next, Calls, BinderSteps, CaptureSteps
<1>e. QED BY <1>c, <1>d

LEMMA NextAccounts == ASSUME CustodyInv, PhaseInv, AccountsInv, [Next]_vars PROVE AccountsInv'
<1>1. OpenInv' /\ FramesInUseIsExact'
  BY NextOpen, NextExact DEF AccountsInv
<1>2. clientAlive' => clientAlive
  BY ForGood
<1>3. aborted => UNCHANGED vars
  BY DEF Next
<1>4. clientAlive' /\ ~aborted' => BackingInv'
  <2>1. SUFFICES ASSUME clientAlive', ~aborted' PROVE BackingInv'
    OBVIOUS
  <2>2. clientAlive /\ ~aborted
    BY <1>2, <1>3, <2>1 DEF vars
  <2>3. QED BY <2>1, <2>2, NextBacking DEF AccountsInv
<1>5. NothingLost'
  BY <1>4, NextLost DEF NothingLost
<1>6. QED BY <1>1, <1>4, <1>5 DEF AccountsInv

\* No buffer of a client that lives drops out of circulation while the stream
\* runs, until an update of the count is lost: whatever the number of buffers, and
\* whether they are resized, the camera is stolen, or frames come back late.
THEOREM NothingIsLost == Spec => []NothingLost
<1>1. AccountsInv => NothingLost
  BY DEF AccountsInv
<1>2. CustodyInv /\ PhaseInv /\ AccountsInv /\ [Next]_vars => AccountsInv'
  BY NextAccounts
<1>3. QED BY <1>1, <1>2, InitAccounts, PhaseCorrect, PTL DEF Spec

-----------------------------------------------------------------------------
(* How long a call takes.  That calls return is checked on an instance; what is *)
(* proved is that each has a bounded number of steps of its own, and that the   *)
(* capture thread is at most five steps from its end when a call waits for it.  *)

\* the steps from which a call of the binder thread counts down
CallRank ==
  CASE bpc = "idle" -> 0
    [] bpc \in {"waiting", "return", "spawn", "close"} -> 1
    [] bpc \in {"toWait", "endStream"} -> 2
    [] bpc = "join" -> 3
    [] bpc = "onStop" -> 4
    [] bpc = "streamOn" -> 5
    [] bpc = "increase" -> 6 + 2 * bNeeded
    [] bpc = "publish" -> 5 + 2 * bNeeded

\* Every call of the client or the enumerator has a bounded number of steps, at
\* most 6 + 2 * MAX_BUFFERS_IN_FLIGHT, a start that fails and shuts the camera down
\* included: nothing the two threads do makes it start over.
THEOREM CallsCountDown ==
  Spec => [][bpc # "idle" => UNCHANGED <<bpc, bNeeded>> \/ CallRank' < CallRank]_vars
<1> USE DEF camVars, bufVars, drvVars, capVars, binVars, cliVars, useVars
<1>1. ASSUME CustodyInv, [Next]_vars, bpc # "idle"
      PROVE  UNCHANGED <<bpc, bNeeded>> \/ CallRank' < CallRank
  <2> DEFINE Goal == UNCHANGED <<bpc, bNeeded>> \/ CallRank' < CallRank
  <2>1. bNeeded \in Nat
    <3>1. bNeeded \in 0 .. MAX_BUFFERS_IN_FLIGHT
      BY <1>1 DEF CustodyInv, TypeOK, DataOK
    <3>2. QED BY <3>1, CountsAssumption
  <2>2. CASE Calls
    BY <1>1, <2>2 DEF Calls, setMaxFramesInFlight, startVideoStream, stopVideoStream, shutdown,
                      StopStream, doneWithFrame, Call
  <2>3. CASE AwaitDecrease \/ DecreaseNotified \/ SpuriousWakeup
    BY <2>3 DEF AwaitDecrease, DecreaseNotified, SpuriousWakeup, LeaveWait, Return, CallRank
  <2>4. CASE IncreaseMap
    BY <2>1, <2>4 DEF IncreaseMap, CallRank
  <2>5. CASE IncreasePublish
    <3>1. bNeeded > 0 /\ bpc = "publish" /\ bpc' = "increase" /\ bNeeded' = bNeeded - 1
      BY <1>1, <2>5 DEF IncreasePublish, CustodyInv, CountsAgree
    <3>2. QED BY <2>1, <3>1 DEF CallRank
  <2>6. CASE IncreaseDone
    BY <2>1, <2>6 DEF IncreaseDone, Return, CallRank
  <2>7. CASE StreamOn \/ StreamOnFails \/ SpawnCapture
    BY <2>7 DEF StreamOn, StreamOnFails, SpawnCapture, Return, CallRank
  <2>8. CASE onStop \/ JoinCapture
    BY <2>8 DEF onStop, JoinCapture, CallRank
  <2>9. CASE EndStream \/ onClose \/ ReturnFrame
    BY <2>9 DEF EndStream, onClose, ReturnFrame, Return, CallRank
  <2>10. CASE CaptureSteps \/ ClientDies \/ UNCHANGED vars
    BY <2>10 DEF CaptureSteps, ReadRunMode, DequeueFrame, DequeueFails, LookUpFrame, SkipFrame,
                 ForwardFrame, DeliverFrame, DeliveryFails, ReturnUndelivered, ClientDies, vars
  <2>11. QED
    BY <1>1, <2>2, <2>3, <2>4, <2>5, <2>6, <2>7, <2>8, <2>9, <2>10 DEF Next, BinderSteps
<1>2. QED BY <1>1, CustodyCorrect, PTL DEF Spec

\* the steps the capture thread is from its end, once the stream is off
StepsToExit ==
  CASE cpc \in {"none", "exited"} -> 0
    [] cpc = "readRunMode" -> 1
    [] cpc \in {"dequeue", "returnUndelivered"} -> 2
    [] cpc = "deliver" -> 3
    [] cpc = "forward" -> 4
    [] cpc = "lookUp" -> 5

\* Only a device that was opened has a capture thread, and it is closed without one.
CaptureInv == cpc # "none" => fd = "open"

LEMMA NextCapture == PhaseInv /\ CaptureInv /\ [Next]_vars => CaptureInv'
<1> SUFFICES ASSUME PhaseInv, CaptureInv, [Next]_vars PROVE CaptureInv'
  OBVIOUS
<1> USE DEF CaptureInv, camVars, capVars
<1>1. CASE Calls
  BY <1>1 DEF Calls, setMaxFramesInFlight, startVideoStream, stopVideoStream, shutdown,
              StopStream, doneWithFrame
<1>2. CASE SpawnCapture
  BY <1>2 DEF SpawnCapture, PhaseInv, CallInv
<1>3. CASE JoinCapture
  BY <1>3 DEF JoinCapture
<1>4. CASE onClose
  BY <1>4 DEF onClose, PhaseInv, ThreadInv
<1>5. CASE AwaitDecrease \/ DecreaseNotified \/ SpuriousWakeup \/ IncreaseMap \/ IncreasePublish
  BY <1>5 DEF AwaitDecrease, DecreaseNotified, SpuriousWakeup, LeaveWait, IncreaseMap, IncreasePublish
<1>6. CASE IncreaseDone \/ StreamOn \/ StreamOnFails \/ onStop \/ EndStream \/ ReturnFrame
  BY <1>6 DEF IncreaseDone, StreamOn, StreamOnFails, onStop, EndStream, ReturnFrame
<1>7. CASE CaptureSteps \/ ClientDies \/ UNCHANGED vars
  BY <1>7 DEF CaptureSteps, ReadRunMode, DequeueFrame, DequeueFails, LookUpFrame, SkipFrame,
              ForwardFrame, DeliverFrame, DeliveryFails, ReturnUndelivered, ClientDies, vars
<1>8. QED
  BY <1>1, <1>2, <1>3, <1>4, <1>5, <1>6, <1>7 DEF Next, BinderSteps

\* stopVideoStream() waits for a thread that is on its way out: whatever it was
\* doing when the stream went off, each of its steps takes it closer to its end,
\* and it neither waits for a frame nor fetches another.
THEOREM CaptureWindsDown ==
  Spec => /\ [](bpc = "join" => ~(cpc # "none" /\ streaming))
          /\ [][bpc = "join" => UNCHANGED cpc \/ StepsToExit' < StepsToExit \/ bpc' # "join"]_vars
<1> USE DEF camVars, bufVars, drvVars, capVars, binVars, cliVars, useVars
<1>1. Init => CaptureInv
  BY DEF Init, CaptureInv
<1>2. PhaseInv /\ CaptureInv => (bpc = "join" => ~(cpc # "none" /\ streaming))
  BY DEF PhaseInv, CaptureInv, RunModeInv, Stopping
<1>3. ASSUME PhaseInv, CaptureInv, [Next]_vars, bpc = "join"
      PROVE  UNCHANGED cpc \/ StepsToExit' < StepsToExit \/ bpc' # "join"
  <2>1. cpc # "none" => mRunMode = {} /\ ~streaming
    BY <1>3 DEF PhaseInv, CaptureInv, RunModeInv, Stopping
  <2>2. CASE CaptureSteps
    <3>1. CASE ReadRunMode
      BY <2>1, <3>1 DEF ReadRunMode, StepsToExit
    <3>2. CASE DequeueFrame \/ DequeueFails
      BY <2>1, <3>2 DEF DequeueFrame, DequeueFails, StepsToExit
    <3>3. CASE LookUpFrame \/ SkipFrame \/ ForwardFrame
      BY <3>3 DEF LookUpFrame, SkipFrame, ForwardFrame, StepsToExit
    <3>4. CASE DeliverFrame \/ DeliveryFails \/ ReturnUndelivered
      BY <3>4 DEF DeliverFrame, DeliveryFails, ReturnUndelivered, StepsToExit
    <3>5. QED BY <2>2, <3>1, <3>2, <3>3, <3>4 DEF CaptureSteps
  <2>3. CASE JoinCapture
    BY <2>3 DEF JoinCapture
  <2>4. CASE (BinderSteps /\ ~JoinCapture) \/ SpuriousWakeup
    BY <1>3, <2>4 DEF BinderSteps, AwaitDecrease, DecreaseNotified, SpuriousWakeup, LeaveWait,
                      IncreaseMap, IncreasePublish, IncreaseDone, StreamOn, StreamOnFails,
                      SpawnCapture, onStop, EndStream, onClose, ReturnFrame
  <2>5. CASE Calls
    BY <1>3, <2>5 DEF Calls, setMaxFramesInFlight, startVideoStream, stopVideoStream, shutdown,
                      StopStream, doneWithFrame, Call
  <2>6. CASE ClientDies \/ UNCHANGED vars
    BY <2>6 DEF ClientDies, vars
  <2>7. QED BY <1>3, <2>2, <2>3, <2>4, <2>5, <2>6 DEF Next
<1>4. Spec => []PhaseInv
  BY PhaseCorrect
<1>5. QED BY <1>1, <1>2, <1>3, <1>4, NextCapture, PTL DEF Spec
=============================================================================
