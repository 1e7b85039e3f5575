--------------------------- MODULE EvsStreamProofs ---------------------------
(***************************************************************************)
(* What the application's StreamHandler and its renderers promise for any  *)
(* number of camera buffers: they return a frame only while it is theirs,  *)
(* which makes them a client of FrameCustody, they draw from the frame     *)
(* they hold, and they lose and reorder none.                              *)
(***************************************************************************)
EXTENDS EvsStream, SequenceTheorems, TLAPS

(* A frame of the application is in one place: held, ready, or on its way. *)

HandlerOK ==
  /\ Camera!CustodyTypeOK
  /\ inbox \in Seq(Message)
  /\ mBuffers \in [Slot -> Frame \union {NULL}]
  /\ mHeldBuffer \in Slot \union {-1} /\ mReadyBuffer \in Slot \union {-1}
  /\ image \in Frame \union {NULL}

InSlot(s) == mBuffers[s] \in Frame /\ owner[mBuffers[s]] = "client"

SlotsApart ==
  /\ mHeldBuffer # -1 => InSlot(mHeldBuffer)
  /\ mReadyBuffer # -1 => InSlot(mReadyBuffer)
  /\ mHeldBuffer # -1 /\ mReadyBuffer # -1 =>
       mHeldBuffer # mReadyBuffer /\ mBuffers[mHeldBuffer] # mBuffers[mReadyBuffer]

InboxApart ==
  \A i \in 1..Len(inbox) : inbox[i] \in Frame =>
    /\ owner[inbox[i]] = "client"
    /\ mHeldBuffer # -1 => inbox[i] # mBuffers[mHeldBuffer]
    /\ mReadyBuffer # -1 => inbox[i] # mBuffers[mReadyBuffer]
    /\ \A j \in 1..Len(inbox) : inbox[i] = inbox[j] => i = j

(* getNewFrame() is called only with a frame ready and none held: its lie  *)
(* is never told.                                                          *)
RendererOK ==
  /\ IF image = NULL THEN mHeldBuffer = -1
     ELSE mHeldBuffer # -1 /\ mBuffers[mHeldBuffer] = image
  /\ rpc \in {"take", "return"} => mReadyBuffer # -1
  /\ rpc = "take" => image = NULL
  /\ rpc = "return" => image # NULL

HandlerInv == HandlerOK /\ SlotsApart /\ InboxApart /\ RendererOK

USE DEF Slot, Message

LEMMA InitHandler == Init => HandlerInv
<1> SUFFICES ASSUME Init PROVE HandlerInv
  OBVIOUS
<1>1. HandlerOK
  BY DEF Init, HandlerOK, Camera!CustodyInit, Camera!CustodyTypeOK, Camera!Owners
<1>2. SlotsApart /\ RendererOK
  BY DEF Init, SlotsApart, RendererOK
<1>3. InboxApart
  BY DEF Init, InboxApart
<1>4. QED BY <1>1, <1>2, <1>3 DEF HandlerInv

\* The camera moves buffers that the application does not have.
LEMMA CameraLeavesFrames ==
  ASSUME HandlerInv,
         UNCHANGED <<inbox, mBuffers, mHeldBuffer, mReadyBuffer, image>>, UNCHANGED rpc,
         Camera!CustodyTypeOK',
         \A g \in Frame : owner[g] = "client" => owner'[g] = "client"
  PROVE  HandlerInv'
<1>1. HandlerOK' /\ RendererOK'
  BY DEF HandlerInv, HandlerOK, RendererOK
<1>2. SlotsApart'
  BY DEF HandlerInv, SlotsApart, InSlot
<1>3. InboxApart'
  BY DEF HandlerInv, InboxApart
<1>4. QED BY <1>1, <1>2, <1>3 DEF HandlerInv

\* Serving the oldest message leaves the others as they were.
LEMMA ServeInbox ==
  ASSUME HandlerInv, NEW m, Serve(m)
  PROVE  /\ m \in Message /\ inbox' \in Seq(Message)
         /\ \A i \in 1..Len(inbox') : i + 1 \in 1..Len(inbox) /\ inbox'[i] = inbox[i + 1]
         /\ 1 \in 1..Len(inbox) /\ inbox[1] = m
BY DEF Serve, HandlerInv, HandlerOK

LEMMA DeliverKeeps ==
  ASSUME HandlerInv, NEW f \in Frame, deliverFrame(f)
  PROVE  HandlerInv'
<1> USE DEF HandlerInv, HandlerOK
<1>1. /\ inbox' \in Seq(Message)
      /\ \A i \in 1..Len(inbox') : i + 1 \in 1..Len(inbox) /\ inbox'[i] = inbox[i + 1]
      /\ 1 \in 1..Len(inbox) /\ inbox[1] = f
  BY ServeInbox DEF deliverFrame
<1>2. /\ owner[f] = "client"
      /\ mHeldBuffer # -1 => f # mBuffers[mHeldBuffer]
      /\ mReadyBuffer # -1 => f # mBuffers[mReadyBuffer]
      /\ \A j \in 1..Len(inbox) : f = inbox[j] => 1 = j
  BY <1>1 DEF InboxApart
<1>3. /\ FreeSlot \in Slot /\ FreeSlot # mHeldBuffer
      /\ mReadyBuffer' = FreeSlot /\ mBuffers' = [mBuffers EXCEPT ![FreeSlot] = f]
      /\ UNCHANGED <<mHeldBuffer, image, rpc, phase>>
  BY DEF deliverFrame, Store, FreeSlot, SlotsApart
<1>4. /\ mBuffers' \in [Slot -> Frame \union {NULL}] /\ mBuffers'[mReadyBuffer'] = f
      /\ mHeldBuffer # -1 => mBuffers'[mHeldBuffer] = mBuffers[mHeldBuffer]
  BY <1>3
<1>5. /\ owner' \in [Frame -> Camera!Owners]
      /\ \A g \in Frame : owner[g] = "client" /\ (mReadyBuffer = -1 \/ g # mBuffers[mReadyBuffer])
                          => owner'[g] = "client"
  BY DEF deliverFrame, GiveBack, Camera!CustodyTypeOK, Camera!Owners
<1>6. HandlerOK'
  BY <1>1, <1>3, <1>4, <1>5 DEF Camera!CustodyTypeOK
<1>7. SlotsApart'
  <2>1. InSlot(mReadyBuffer)' /\ mReadyBuffer' # -1
    BY <1>2, <1>3, <1>4, <1>5 DEF InSlot
  <2>2. mHeldBuffer' # -1 => InSlot(mHeldBuffer)'
    BY <1>3, <1>4, <1>5 DEF SlotsApart, InSlot
  <2>3. QED BY <1>2, <1>3, <1>4, <2>1, <2>2 DEF SlotsApart
<1>8. InboxApart'
  <2> SUFFICES ASSUME NEW i \in 1..Len(inbox'), inbox'[i] \in Frame
               PROVE  /\ owner'[inbox'[i]] = "client"
                      /\ mHeldBuffer' # -1 => inbox'[i] # mBuffers'[mHeldBuffer']
                      /\ mReadyBuffer' # -1 => inbox'[i] # mBuffers'[mReadyBuffer']
                      /\ \A j \in 1..Len(inbox') : inbox'[i] = inbox'[j] => i = j
    BY DEF InboxApart
  <2>1. /\ i + 1 \in 1..Len(inbox) /\ inbox'[i] = inbox[i + 1] /\ i + 1 # 1
    BY <1>1
  <2>2. /\ owner[inbox'[i]] = "client" /\ inbox'[i] # f
        /\ mHeldBuffer # -1 => inbox'[i] # mBuffers[mHeldBuffer]
        /\ mReadyBuffer # -1 => inbox'[i] # mBuffers[mReadyBuffer]
    BY <1>2, <2>1 DEF InboxApart
  <2>3. ASSUME NEW j \in 1..Len(inbox'), inbox'[i] = inbox'[j] PROVE i = j
    <3>1. j + 1 \in 1..Len(inbox) /\ inbox[i + 1] = inbox[j + 1] /\ inbox[i + 1] \in Frame
      BY <1>1, <2>1, <2>3
    <3>2. i + 1 = j + 1
      BY <2>1, <3>1 DEF InboxApart
    <3>3. QED BY <3>2
  <2>4. QED BY <1>3, <1>4, <1>5, <2>2, <2>3
<1>9. RendererOK'
  BY <1>3, <1>4 DEF RendererOK
<1>10. QED BY <1>6, <1>7, <1>8, <1>9

LEMMA DoneKeeps ==
  ASSUME HandlerInv, NEW next, doneWithFrame(next), image # NULL,
         next = "draw" \/ (next = "take" /\ rpc = "return")
  PROVE  HandlerInv'
<1> USE DEF HandlerInv, HandlerOK
<1>1. /\ mHeldBuffer \in Slot /\ mBuffers[mHeldBuffer] \in Frame
  BY DEF RendererOK, SlotsApart, InSlot
<1>2. /\ rpc' = next /\ image' = NULL /\ mHeldBuffer' = -1
      /\ UNCHANGED <<phase, inbox, mBuffers, mReadyBuffer>>
      /\ owner' = [owner EXCEPT ![mBuffers[mHeldBuffer]] = "hal"]
  BY DEF doneWithFrame, GiveBack
<1>3. /\ owner' \in [Frame -> Camera!Owners]
      /\ \A g \in Frame : owner[g] = "client" /\ g # mBuffers[mHeldBuffer] => owner'[g] = "client"
  BY <1>1, <1>2 DEF Camera!CustodyTypeOK, Camera!Owners
<1>4. HandlerOK' /\ RendererOK'
  BY <1>2, <1>3 DEF RendererOK, Camera!CustodyTypeOK
<1>5. SlotsApart'
  BY <1>1, <1>2, <1>3 DEF SlotsApart, InSlot
<1>6. InboxApart'
  BY <1>1, <1>2, <1>3 DEF InboxApart
<1>7. QED BY <1>4, <1>5, <1>6

LEMMA TakeKeeps == ASSUME HandlerInv, getNewFrame PROVE HandlerInv'
<1> USE DEF HandlerInv, HandlerOK
<1>1. /\ mHeldBuffer = -1 /\ mReadyBuffer \in Slot /\ InSlot(mReadyBuffer)
  BY DEF getNewFrame, RendererOK, SlotsApart
<1>2. /\ mHeldBuffer' = mReadyBuffer /\ mReadyBuffer' = -1
      /\ image' = mBuffers[mReadyBuffer] /\ rpc' = "draw"
      /\ UNCHANGED <<owner, phase, inbox, mBuffers>>
  BY <1>1 DEF getNewFrame, Ready, camera
<1>3. HandlerOK' /\ SlotsApart' /\ RendererOK'
  BY <1>1, <1>2, FrameAssumption DEF SlotsApart, InSlot, RendererOK, Camera!CustodyTypeOK
<1>4. InboxApart'
  BY <1>1, <1>2 DEF InboxApart
<1>5. QED BY <1>3, <1>4

LEMMA MessageKeeps ==
  ASSUME HandlerInv, NEW m \in Message, inbox' = Append(inbox, m),
         m \in Frame => owner[m] # "client" /\ owner'[m] = "client",
         \A g \in Frame : owner[g] = "client" => owner'[g] = "client",
         Camera!CustodyTypeOK',
         UNCHANGED <<mBuffers, mHeldBuffer, mReadyBuffer, image, rpc>>
  PROVE  HandlerInv'
<1> USE DEF HandlerInv, HandlerOK
<1>1. /\ inbox' \in Seq(Message) /\ Len(inbox') = Len(inbox) + 1
      /\ inbox'[Len(inbox) + 1] = m
      /\ \A i \in 1..Len(inbox) : inbox'[i] = inbox[i]
  OBVIOUS
<1>2. HandlerOK' /\ RendererOK' /\ SlotsApart'
  BY <1>1 DEF RendererOK, SlotsApart, InSlot
<1>3. InboxApart'
  BY <1>1 DEF InboxApart, SlotsApart, InSlot
<1>4. QED BY <1>2, <1>3

-----------------------------------------------------------------------------
(* Each step keeps the invariant and is a step of the custody protocol.    *)

Promised == [Camera!CustodyNext]_(Camera!custodyVars)

LEMMA NextHandler ==
  ASSUME HandlerInv, [Next]_vars
  PROVE  HandlerInv' /\ Promised
<1> DEFINE Goal == HandlerInv' /\ Promised
<1> USE DEF Promised, Camera!custodyVars, Camera!CustodyNext
<1>0. owner \in [Frame -> Camera!Owners] /\ phase \in {"idle", "open", "ended"}
  BY DEF HandlerInv, HandlerOK, Camera!CustodyTypeOK
<1>1. ASSUME NEW f \in Frame, Camera!Supply(f) \/ Camera!Fill(f) \/ Camera!Retire(f),
             CameraWorks
      PROVE  Goal
  <2>1. Camera!CustodyTypeOK' /\ \A g \in Frame : owner[g] = "client" => owner'[g] = "client"
    BY <1>1, <1>0 DEF Camera!Supply, Camera!Fill, Camera!Retire, Camera!Pass, Camera!CustodyTypeOK,
                      Camera!Owners
  <2>2. UNCHANGED <<inbox, mBuffers, mHeldBuffer, mReadyBuffer, image>> /\ UNCHANGED rpc
    BY <1>1 DEF CameraWorks, slots
  <2>3. QED BY <1>1, <2>1, <2>2, CameraLeavesFrames
<1>2. ASSUME Camera!Recall, CameraWorks PROVE Goal
  <2>1. Camera!CustodyTypeOK' /\ \A g \in Frame : owner[g] = "client" => owner'[g] = "client"
    BY <1>2, <1>0 DEF Camera!Recall, Camera!CustodyTypeOK, Camera!Owners
  <2>2. UNCHANGED <<inbox, mBuffers, mHeldBuffer, mReadyBuffer, image>> /\ UNCHANGED rpc
    BY <1>2 DEF CameraWorks, slots
  <2>3. QED BY <1>2, <2>1, <2>2, CameraLeavesFrames
<1>3. ASSUME NEW f \in Frame, CameraLends(f) PROVE Goal
  <2>1. /\ Camera!Lend(f) /\ owner[f] = "hal" /\ owner' = [owner EXCEPT ![f] = "client"]
        /\ UNCHANGED phase /\ inbox' = Append(inbox, f)
        /\ UNCHANGED <<mBuffers, mHeldBuffer, mReadyBuffer, image, rpc>>
    BY <1>3 DEF CameraLends, Camera!Lend, Camera!Pass, slots
  <2>2. /\ Camera!CustodyTypeOK' /\ owner'[f] = "client"
        /\ \A g \in Frame : owner[g] = "client" => owner'[g] = "client"
    BY <2>1, <1>0 DEF Camera!CustodyTypeOK, Camera!Owners
  <2>3. HandlerInv'
    BY <2>1, <2>2, MessageKeeps
  <2>4. QED BY <2>1, <2>3
<1>4. ASSUME CameraCloses PROVE Goal
  <2>1. /\ Camera!Close /\ UNCHANGED owner /\ phase' = "idle"
        /\ UNCHANGED <<inbox, mBuffers, mHeldBuffer, mReadyBuffer, image>> /\ UNCHANGED rpc
    BY <1>4 DEF CameraCloses, Camera!Close, Camera!Turn, slots
  <2>2. Camera!CustodyTypeOK'
    BY <2>1, <1>0 DEF Camera!CustodyTypeOK
  <2>3. QED BY <2>1, <2>2, CameraLeavesFrames
<1>5. ASSUME CameraEnds PROVE Goal
  <2>1. /\ Camera!End /\ UNCHANGED owner /\ phase' = "ended" /\ inbox' = Append(inbox, "ended")
        /\ UNCHANGED <<mBuffers, mHeldBuffer, mReadyBuffer, image, rpc>>
    BY <1>5 DEF CameraEnds, Camera!End, Camera!Turn, slots
  <2>2. Camera!CustodyTypeOK'
    BY <2>1, <1>0 DEF Camera!CustodyTypeOK
  <2>3. HandlerInv'
    BY <2>1, <2>2, FrameAssumption, MessageKeeps
  <2>4. QED BY <2>1, <2>3
<1>6. ASSUME streamEnded PROVE Goal
  <2>1. /\ inbox' \in Seq(Message)
        /\ \A i \in 1..Len(inbox') : i + 1 \in 1..Len(inbox) /\ inbox'[i] = inbox[i + 1]
    BY <1>6, ServeInbox DEF streamEnded
  <2>2. UNCHANGED <<owner, phase, mBuffers, mHeldBuffer, mReadyBuffer, image, rpc>>
    BY <1>6 DEF streamEnded, camera, slots
  <2>3. HandlerOK' /\ SlotsApart' /\ RendererOK'
    BY <2>1, <2>2 DEF HandlerInv, HandlerOK, SlotsApart, InSlot, RendererOK, Camera!CustodyTypeOK
  <2>4. InboxApart'
    BY <2>1, <2>2 DEF HandlerInv, InboxApart
  <2>5. QED BY <2>2, <2>3, <2>4 DEF HandlerInv
<1>7. ASSUME NEW f \in Frame, deliverFrame(f) PROVE Goal
  <2>1. CASE mReadyBuffer = -1
    <3>1. UNCHANGED <<owner, phase>>
      BY <1>7, <2>1 DEF deliverFrame
    <3>2. QED BY <1>7, <3>1, DeliverKeeps
  <2>2. CASE mReadyBuffer # -1
    <3>1. mReadyBuffer >= 0 /\ mBuffers[mReadyBuffer] \in Frame /\ owner[mBuffers[mReadyBuffer]] = "client"
      BY <2>2 DEF HandlerInv, HandlerOK, SlotsApart, InSlot
    <3>2. Camera!GiveBack(mBuffers[mReadyBuffer])
      BY <1>7, <3>1 DEF deliverFrame, GiveBack, Camera!GiveBack, Camera!Pass
    <3>3. QED BY <1>7, <3>1, <3>2, DeliverKeeps
  <2>3. QED BY <2>1, <2>2
<1>8. ASSUME startStream PROVE Goal
  <2>1. /\ UNCHANGED <<owner, inbox, mBuffers, mHeldBuffer, mReadyBuffer, image>>
        /\ rpc' \in {"draw", "closed"}
        /\ Camera!Open \/ UNCHANGED <<owner, phase>>
        /\ phase' \in {"idle", "open", "ended"}
    BY <1>8, <1>0 DEF startStream, camera, slots, Camera!Open, Camera!Turn
  <2>2. HandlerOK' /\ SlotsApart' /\ RendererOK' /\ InboxApart'
    BY <2>1 DEF HandlerInv, HandlerOK, SlotsApart, InSlot, RendererOK, InboxApart, Camera!CustodyTypeOK
  <2>3. QED BY <2>1, <2>2 DEF HandlerInv
<1>9. ASSUME newFrameAvailable PROVE Goal
  <2>1. /\ UNCHANGED <<owner, phase, inbox, mBuffers, mHeldBuffer, mReadyBuffer, image>>
        /\ mReadyBuffer # -1 /\ rpc' = IF image = NULL THEN "take" ELSE "return"
    BY <1>9 DEF newFrameAvailable, camera, slots
  <2>2. HandlerOK' /\ SlotsApart' /\ RendererOK' /\ InboxApart'
    BY <2>1 DEF HandlerInv, HandlerOK, SlotsApart, InSlot, RendererOK, InboxApart, Camera!CustodyTypeOK
  <2>3. QED BY <2>1, <2>2 DEF HandlerInv
<1>10. ASSUME getNewFrame PROVE Goal
  <2>1. UNCHANGED <<owner, phase>>
    BY <1>10 DEF getNewFrame, camera
  <2>2. QED BY <1>10, <2>1, TakeKeeps
<1>11. ASSUME NEW next, doneWithFrame(next), image # NULL,
              next = "draw" \/ (next = "take" /\ rpc = "return")
       PROVE  Goal
  <2>1. mBuffers[mHeldBuffer] \in Frame /\ owner[mBuffers[mHeldBuffer]] = "client"
    BY <1>11 DEF HandlerInv, RendererOK, SlotsApart, InSlot
  <2>2. Camera!GiveBack(mBuffers[mHeldBuffer])
    BY <1>11, <2>1 DEF doneWithFrame, GiveBack, Camera!GiveBack, Camera!Pass
  <2>3. QED BY <1>11, <2>1, <2>2, DoneKeeps
<1>12. ASSUME textureReturns PROVE Goal
  BY <1>11, <1>12 DEF textureReturns, HandlerInv, RendererOK
<1>13. ASSUME pixelCopyReturns PROVE Goal
  BY <1>11, <1>13 DEF pixelCopyReturns
<1>14. ASSUME UNCHANGED <<owner, phase, inbox, mBuffers, mHeldBuffer, mReadyBuffer, image>>,
              rpc' = rpc \/ rpc' \notin {"take", "return"}
       PROVE  Goal
  <2>1. HandlerOK' /\ SlotsApart' /\ RendererOK' /\ InboxApart'
    BY <1>14 DEF HandlerInv, HandlerOK, SlotsApart, InSlot, RendererOK, InboxApart, Camera!CustodyTypeOK
  <2>2. QED BY <1>14, <2>1 DEF HandlerInv
<1>15. ASSUME NEW why \in {"close", "shutdown"}, asyncStopStream(why) PROVE Goal
  BY <1>14, <1>15 DEF asyncStopStream, camera, slots
<1>16. ASSUME StopReturns PROVE Goal
  BY <1>14, <1>16 DEF StopReturns, camera, slots
<1>17. ASSUME blockingStopStream PROVE Goal
  BY <1>14, <1>17 DEF blockingStopStream, camera, slots
<1>18. ASSUME LeaveWait PROVE Goal
  BY <1>14, <1>18 DEF LeaveWait, camera, slots
<1>19. ASSUME UNCHANGED vars PROVE Goal
  BY <1>14, <1>19 DEF vars, camera, slots
<1>20. ASSUME CameraWorks PROVE Goal
  BY <1>1, <1>2, <1>20 DEF CameraWorks
<1>21. Goal
  BY <1>3, <1>4, <1>5, <1>6, <1>7, <1>8, <1>9, <1>10, <1>12, <1>13, <1>15, <1>16, <1>17,
     <1>18, <1>19, <1>20
  DEF Next, CameraSteps, Callbacks, Drawing, Stopping, WakeUp
<1>22. QED BY <1>21

LEMMA HandlerCorrect == Spec => []HandlerInv
BY InitHandler, NextHandler, PTL DEF Spec

\* The flags and the program counter depend on nothing else.
FlagsOK == mRunning \in BOOLEAN /\ notified \in BOOLEAN /\ rpc \in RenderPC

LEMMA NextFlags == ASSUME FlagsOK, [Next]_vars PROVE FlagsOK'
<1> USE DEF FlagsOK, RenderPC, slots, camera, NotifyAll
<1>1. ASSUME CameraWorks \/ CameraCloses \/ CameraEnds PROVE FlagsOK'
  BY <1>1 DEF CameraWorks, CameraCloses, CameraEnds
<1>2. ASSUME NEW f \in Frame, CameraLends(f) PROVE FlagsOK'
  BY <1>2 DEF CameraLends
<1>3. ASSUME NEW f \in Frame, deliverFrame(f) PROVE FlagsOK'
  BY <1>3, Zenon DEF deliverFrame
<1>4. ASSUME streamEnded PROVE FlagsOK'
  BY <1>4, Zenon DEF streamEnded
<1>5. ASSUME startStream \/ newFrameAvailable \/ getNewFrame PROVE FlagsOK'
  BY <1>5 DEF startStream, newFrameAvailable, getNewFrame
<1>6. ASSUME NEW next \in {"draw", "take"}, doneWithFrame(next) PROVE FlagsOK'
  BY <1>6 DEF doneWithFrame
<1>7. ASSUME textureReturns \/ pixelCopyReturns PROVE FlagsOK'
  BY <1>6, <1>7 DEF textureReturns, pixelCopyReturns
<1>8. ASSUME NEW why \in {"close", "shutdown"}, asyncStopStream(why) PROVE FlagsOK'
  BY <1>8 DEF asyncStopStream
<1>9. ASSUME StopReturns \/ blockingStopStream \/ LeaveWait PROVE FlagsOK'
  BY <1>9 DEF StopReturns, blockingStopStream, LeaveWait
<1>10. ASSUME UNCHANGED vars PROVE FlagsOK'
  BY <1>10 DEF vars
<1> QED
  BY <1>1, <1>2, <1>3, <1>4, <1>5, <1>7, <1>8, <1>9, <1>10
  DEF Next, CameraSteps, Callbacks, Drawing, Stopping, WakeUp

\* Every variable of the application keeps its type, for any number of buffers.
THEOREM TypeCorrect == Spec => []TypeOK
<1>1. Init => FlagsOK
  BY DEF Init, FlagsOK, RenderPC
<1>2. HandlerInv /\ FlagsOK => TypeOK
  BY DEF HandlerInv, HandlerOK, FlagsOK, TypeOK
<1> QED
  BY <1>1, <1>2, NextFlags, HandlerCorrect, PTL DEF Spec

\* StreamHandler::deliverFrame and doneWithFrame return a frame only while the
\* camera has lent it: together with the camera, every behaviour of handler and
\* renderer is one of FrameCustody.
THEOREM PromiseIsKept == Spec => KeepsPromise
<1>1. Init => Camera!CustodyInit
  BY DEF Init
<1>2. HandlerInv /\ [Next]_vars => Promised
  BY NextHandler
<1>3. QED BY <1>1, <1>2, HandlerCorrect, PTL DEF Spec, KeepsPromise, Camera!CustodySpec, Promised

\* getNewFrame() gives the renderer the frame the handler holds for it, and the
\* camera does not take it back before doneWithFrame().
THEOREM HeldIsDrawn == Spec => []DrawsWhatIsHeld
<1>1. HandlerInv => DrawsWhatIsHeld
  BY DEF HandlerInv, HandlerOK, RendererOK, SlotsApart, InSlot, DrawsWhatIsHeld
<1>2. QED BY <1>1, HandlerCorrect, PTL
-----------------------------------------------------------------------------
(* The frames lent are in order.  Beside the invariant above this needs that   *)
(* the end of the stream is the last message there is.                         *)

LEMMA RemoveFirstIsAt ==
  ASSUME NEW S, NEW s \in Seq(S), NEW e, NEW p \in 1 .. Len(s),
         s[p] = e, \A j \in 1 .. p - 1 : s[j] # e
  PROVE  RemoveFirst(s, e) = SubSeq(s, 1, p - 1) \o SubSeq(s, p + 1, Len(s))
<1> DEFINE I == {i \in 1 .. Len(s) : s[i] = e}
<1>1. Len(s) \in Nat
  BY LenProperties
<1>2. p \in I /\ \A j \in I : p <= j
  BY <1>1
<1>3. Min(I) = p
  BY <1>1, <1>2 DEF Min
<1>4. SelectInSeq(s, LAMBDA v : v = e) = p
  BY <1>2, <1>3 DEF SelectInSeq
<1>5. QED BY <1>4 DEF RemoveFirst, RemoveAt

LEMMA RemoveTheFirst ==
  ASSUME NEW S, NEW x \in S, NEW t \in Seq(S)
  PROVE  RemoveFirst(<<x>> \o t, x) = t
<1> DEFINE s == <<x>> \o t
<1>1. /\ s \in Seq(S) /\ Len(s) = Len(t) + 1 /\ Len(t) \in Nat
      /\ s[1] = x /\ \A i \in 1 .. Len(t) : s[i + 1] = t[i]
  BY ConcatProperties, LenProperties
<1> HIDE DEF s
<1>2. RemoveFirst(s, x) = SubSeq(s, 1, 0) \o SubSeq(s, 2, Len(s))
  <2>1. 1 \in 1 .. Len(s) /\ \A j \in 1 .. 1 - 1 : s[j] # x
    BY <1>1
  <2>2. RemoveFirst(s, x) = SubSeq(s, 1, 1 - 1) \o SubSeq(s, 1 + 1, Len(s))
    BY <1>1, <2>1, RemoveFirstIsAt, Zenon
  <2>3. QED BY <2>2
<1>3. SubSeq(s, 1, 0) = << >>
  BY SubSeqEmpty
<1>4. /\ SubSeq(s, 2, Len(s)) \in Seq(S) /\ Len(SubSeq(s, 2, Len(s))) = Len(t)
      /\ \A i \in 1 .. Len(t) : SubSeq(s, 2, Len(s))[i] = t[i]
  BY <1>1
<1>5. SubSeq(s, 2, Len(s)) = t
  BY <1>4, SeqEqual
<1>6. QED BY <1>2, <1>3, <1>5, ConcatEmptySeq DEF s

LEMMA RemoveTheSecond ==
  ASSUME NEW S, NEW h \in S, NEW x \in S, h # x, NEW t \in Seq(S)
  PROVE  RemoveFirst((<<h>> \o <<x>>) \o t, x) = <<h>> \o t
<1> DEFINE s == (<<h>> \o <<x>>) \o t
<1>1. /\ s \in Seq(S) /\ Len(s) = Len(t) + 2 /\ Len(t) \in Nat
      /\ s[1] = h /\ s[2] = x /\ \A i \in 1 .. Len(t) : s[i + 2] = t[i]
  BY ConcatProperties, LenProperties
<1> HIDE DEF s
<1>2. RemoveFirst(s, x) = SubSeq(s, 1, 1) \o SubSeq(s, 3, Len(s))
  <2>1. 2 \in 1 .. Len(s) /\ \A j \in 1 .. 2 - 1 : s[j] # x
    BY <1>1
  <2>2. RemoveFirst(s, x) = SubSeq(s, 1, 2 - 1) \o SubSeq(s, 2 + 1, Len(s))
    BY <1>1, <2>1, RemoveFirstIsAt, Zenon
  <2>3. QED BY <2>2
<1>3. SubSeq(s, 1, 1) = <<h>>
  <2>1. SubSeq(s, 1, 1) \in Seq(S) /\ Len(SubSeq(s, 1, 1)) = 1 /\ SubSeq(s, 1, 1)[1] = h
    BY <1>1
  <2>2. <<h>> \in Seq(S) /\ Len(<<h>>) = 1 /\ <<h>>[1] = h
    OBVIOUS
  <2>3. \A i \in 1 .. 1 : SubSeq(s, 1, 1)[i] = <<h>>[i]
    BY <2>1, <2>2
  <2>4. QED BY <2>1, <2>2, <2>3, SeqEqual
<1>4. /\ SubSeq(s, 3, Len(s)) \in Seq(S) /\ Len(SubSeq(s, 3, Len(s))) = Len(t)
      /\ \A i \in 1 .. Len(t) : SubSeq(s, 3, Len(s))[i] = t[i]
  BY <1>1
<1>5. SubSeq(s, 3, Len(s)) = t
  BY <1>4, SeqEqual
<1>6. QED BY <1>2, <1>3, <1>5 DEF s

EndIsLast ==
  \A i \in 1 .. Len(inbox) : inbox[i] = "ended" => i = Len(inbox) /\ phase = "ended"

OrderInv == HandlerInv /\ EndIsLast /\ LentInOrder

LEMMA FramesInInbox ==
  ASSUME HandlerInv, EndIsLast
  PROVE  /\ inbox \in Seq(Message) /\ Len(inbox) \in Nat
         /\ InboxFrames \in Seq(Frame)
         /\ phase # "ended" => InboxFrames = inbox /\ \A i \in 1 .. Len(inbox) : inbox[i] \in Frame
<1>1. inbox \in Seq(Message) /\ Len(inbox) \in Nat
  BY DEF HandlerInv, HandlerOK
<1>2. inbox # << >> => Len(inbox) \in 1 .. Len(inbox)
  BY <1>1
<1>3. \A i \in 1 .. Len(inbox) : inbox[i] \in Frame \/ (i = Len(inbox) /\ inbox[i] = "ended")
  BY <1>1 DEF EndIsLast
<1>4. CASE inbox # << >> /\ Last(inbox) = "ended"
  <2>1. InboxFrames = SubSeq(inbox, 1, Len(inbox) - 1) /\ phase = "ended"
    BY <1>2, <1>4 DEF InboxFrames, Front, Last, EndIsLast
  <2>2. \A i \in 1 .. Len(inbox) - 1 : inbox[i] \in Frame
    BY <1>1, <1>3
  <2>3. SubSeq(inbox, 1, Len(inbox) - 1) \in Seq(Frame)
    BY <1>1, <2>2, SubSeqProperties
  <2>4. QED BY <1>1, <2>1, <2>3
<1>5. CASE ~(inbox # << >> /\ Last(inbox) = "ended")
  <2>1. InboxFrames = inbox
    BY <1>5 DEF InboxFrames
  <2>2. \A i \in 1 .. Len(inbox) : inbox[i] \in Frame
    BY <1>2, <1>3, <1>5 DEF Last
  <2>3. inbox = SubSeq(inbox, 1, Len(inbox))
    BY <1>1, SubSeqFull
  <2>4. SubSeq(inbox, 1, Len(inbox)) \in Seq(Frame)
    BY <1>1, <2>2, SubSeqProperties
  <2>5. QED BY <1>1, <2>1, <2>2, <2>3, <2>4
<1>6. QED BY <1>4, <1>5

LEMMA MessageSent ==
  ASSUME HandlerInv, EndIsLast, NEW m \in Message, phase # "ended",
         inbox' = Append(inbox, m), m = "ended" => phase' = "ended"
  PROVE  EndIsLast' /\ InboxFrames' = IF m = "ended" THEN InboxFrames ELSE Append(InboxFrames, m)
<1>1. /\ inbox \in Seq(Message) /\ Len(inbox) \in Nat /\ InboxFrames = inbox
      /\ \A i \in 1 .. Len(inbox) : inbox[i] \in Frame
  BY FramesInInbox
<1>2. /\ inbox' \in Seq(Message) /\ Len(inbox') = Len(inbox) + 1 /\ inbox' # << >>
      /\ inbox'[Len(inbox) + 1] = m /\ Last(inbox') = m
      /\ \A i \in 1 .. Len(inbox) : inbox'[i] = inbox[i]
  BY <1>1 DEF Last
<1>3. EndIsLast'
  BY <1>1, <1>2, FrameAssumption DEF EndIsLast
<1>4. CASE m = "ended"
  <2>1. InboxFrames' = SubSeq(inbox', 1, Len(inbox') - 1)
    BY <1>2, <1>4 DEF InboxFrames, Front
  <2>2. Len(inbox') - 1 = Len(inbox)
    BY <1>1, <1>2
  <2>3. SubSeq(Append(inbox, m), 1, Len(inbox)) = inbox
    <3>1. /\ SubSeq(inbox', 1, Len(inbox)) \in Seq(Message)
          /\ Len(SubSeq(inbox', 1, Len(inbox))) = Len(inbox)
          /\ \A i \in 1 .. Len(inbox) : SubSeq(inbox', 1, Len(inbox))[i] = inbox[i]
      BY <1>1, <1>2
    <3>2. SubSeq(inbox', 1, Len(inbox)) = inbox
      BY <1>1, <3>1, SeqEqual
    <3>3. QED BY <3>2
  <2>4. QED BY <1>1, <1>3, <1>4, <2>1, <2>2, <2>3
<1>5. CASE m # "ended"
  BY <1>1, <1>2, <1>3, <1>5 DEF InboxFrames
<1>6. QED BY <1>4, <1>5

LEMMA MessageServed ==
  ASSUME HandlerInv, EndIsLast, NEW m, Serve(m), UNCHANGED phase
  PROVE  /\ EndIsLast' /\ InboxFrames' \in Seq(Frame)
         /\ InboxFrames = IF m = "ended" THEN InboxFrames' ELSE <<m>> \o InboxFrames'
<1>1. /\ m \in Message /\ inbox' \in Seq(Message)
      /\ \A i \in 1..Len(inbox') : i + 1 \in 1..Len(inbox) /\ inbox'[i] = inbox[i + 1]
      /\ 1 \in 1..Len(inbox) /\ inbox[1] = m
  BY ServeInbox
<1>2. /\ inbox \in Seq(Message) /\ Len(inbox) \in Nat /\ Len(inbox') \in Nat
      /\ Len(inbox) = Len(inbox') + 1
      /\ inbox # << >> /\ (inbox' = << >> <=> Len(inbox') = 0)
  <2>1. /\ inbox \in Seq(Message) /\ Len(inbox) \in Nat /\ inbox # << >>
        /\ inbox' = Tail(inbox)
    BY FramesInInbox DEF Serve
  <2>2. Len(inbox') = Len(inbox) - 1
    BY <2>1
  <2>3. Len(inbox') \in Nat /\ (inbox' = << >> <=> Len(inbox') = 0)
    BY <1>1
  <2>4. QED BY <2>1, <2>2, <2>3
<1>3. EndIsLast'
  BY <1>1, <1>2 DEF EndIsLast
<1>4. CASE m = "ended"
  <2>1. Len(inbox) = 1 /\ inbox' = << >>
    BY <1>1, <1>2, <1>4 DEF EndIsLast
  <2>2. InboxFrames' = << >>
    BY <2>1 DEF InboxFrames
  <2>3. InboxFrames = << >>
    <3>1. InboxFrames = SubSeq(inbox, 1, 1 - 1)
      BY <1>1, <1>2, <1>4, <2>1 DEF InboxFrames, Front, Last
    <3>2. QED BY <3>1, SubSeqEmpty
  <2>4. QED BY <1>3, <1>4, <2>2, <2>3, EmptySeq
<1>5. CASE m # "ended"
  <2>1. m \in Frame
    BY <1>1, <1>5
  <2>2. CASE Last(inbox) = "ended"
    <3>1. Len(inbox) > 1 /\ inbox' # << >> /\ Last(inbox') = "ended"
      BY <1>1, <1>2, <1>5, <2>2 DEF Last
    <3>2. InboxFrames = SubSeq(inbox, 1, Len(inbox) - 1)
      BY <1>2, <2>2 DEF InboxFrames, Front
    <3>3. InboxFrames' = SubSeq(inbox', 1, Len(inbox') - 1)
      BY <3>1 DEF InboxFrames, Front
    <3>4. /\ Len(InboxFrames) = Len(inbox') /\ Len(InboxFrames') = Len(inbox') - 1
          /\ \A i \in 1 .. Len(inbox') : InboxFrames[i] = inbox[i]
          /\ \A i \in 1 .. Len(inbox') - 1 : InboxFrames'[i] = inbox'[i]
      <4>1. /\ Len(SubSeq(inbox, 1, Len(inbox'))) = Len(inbox')
            /\ \A i \in 1 .. Len(inbox') : SubSeq(inbox, 1, Len(inbox'))[i] = inbox[i]
        BY <1>2
      <4>2. /\ Len(SubSeq(inbox', 1, Len(inbox') - 1)) = Len(inbox') - 1
            /\ \A i \in 1 .. Len(inbox') - 1 : SubSeq(inbox', 1, Len(inbox') - 1)[i] = inbox'[i]
        <5>1. /\ Len(inbox') - 1 \in Nat /\ inbox' \in Seq(Message)
              /\ Len(inbox') - 1 < Len(inbox')
          BY <1>1, <1>2, <3>1
        <5>2. ASSUME NEW k \in Nat, k < Len(inbox')
              PROVE  /\ Len(SubSeq(inbox', 1, k)) = k
                     /\ \A i \in 1 .. k : SubSeq(inbox', 1, k)[i] = inbox'[i]
          BY <5>1, <5>2
        <5>3. QED BY <5>1, <5>2
      <4>3. Len(inbox) - 1 = Len(inbox')
        BY <1>2
      <4>4. QED BY <3>2, <3>3, <4>1, <4>2, <4>3
    <3>5. InboxFrames \in Seq(Frame)
      BY FramesInInbox
    <3>6. InboxFrames' \in Seq(Frame)
      <4>1. \A i \in 1 .. Len(inbox') - 1 : inbox'[i] \in Frame
        BY <1>1, <1>2, <1>3 DEF EndIsLast
      <4>2. QED BY <1>2, <3>3, <4>1, SubSeqProperties
    <3>7. /\ <<m>> \o InboxFrames' \in Seq(Frame) /\ Len(<<m>> \o InboxFrames') = Len(inbox')
          /\ \A i \in 1 .. Len(inbox') : (<<m>> \o InboxFrames')[i] = inbox[i]
      BY <1>1, <1>2, <2>1, <3>1, <3>4, <3>6
    <3>8. InboxFrames = <<m>> \o InboxFrames'
      BY <3>4, <3>5, <3>7, SeqEqual
    <3>9. QED BY <1>3, <1>5, <3>6, <3>8
  <2>3. CASE Last(inbox) # "ended"
    <3>1. InboxFrames = inbox
      BY <2>3 DEF InboxFrames
    <3>2. inbox' # << >> => Last(inbox') # "ended"
      BY <1>1, <1>2, <2>3 DEF Last
    <3>3. InboxFrames' = inbox'
      BY <3>2 DEF InboxFrames
    <3>4. inbox \in Seq(Frame)
      BY <3>1, FramesInInbox
    <3>5. inbox' \in Seq(Frame)
      BY <1>2, <3>4 DEF Serve
    <3>6. /\ <<m>> \o inbox' \in Seq(Frame) /\ Len(<<m>> \o inbox') = Len(inbox)
          /\ \A i \in 1 .. Len(inbox) : (<<m>> \o inbox')[i] = inbox[i]
      BY <1>1, <1>2, <2>1, <3>5
    <3>7. inbox = <<m>> \o inbox'
      BY <3>4, <3>6, SeqEqual
    <3>8. QED BY <1>3, <1>5, <3>1, <3>3, <3>5, <3>7
  <2>4. QED BY <2>2, <2>3
<1>6. QED BY <1>4, <1>5

LEMMA SlotFrames ==
  ASSUME HandlerInv
  PROVE  /\ In(mHeldBuffer) = (IF mHeldBuffer = -1 THEN << >> ELSE <<mBuffers[mHeldBuffer]>>)
         /\ In(mReadyBuffer) = (IF mReadyBuffer = -1 THEN << >> ELSE <<mBuffers[mReadyBuffer]>>)
         /\ mHeldBuffer # -1 => mHeldBuffer \in Slot /\ mBuffers[mHeldBuffer] \in Frame
         /\ mReadyBuffer # -1 => mReadyBuffer \in Slot /\ mBuffers[mReadyBuffer] \in Frame
         /\ In(mHeldBuffer) \in Seq(Frame) /\ In(mReadyBuffer) \in Seq(Frame)
<1>1. mHeldBuffer \in {-1, 0, 1} /\ mReadyBuffer \in {-1, 0, 1}
  BY DEF HandlerInv, HandlerOK
<1>2. /\ mHeldBuffer # -1 => mBuffers[mHeldBuffer] \in Frame
      /\ mReadyBuffer # -1 => mBuffers[mReadyBuffer] \in Frame
  BY DEF HandlerInv, SlotsApart, InSlot
<1>3. QED BY <1>1, <1>2 DEF In

\* A frame is lent: it is the newest.
LEMMA LendKeepsOrder ==
  ASSUME OrderInv, NEW f \in Frame, CameraLends(f) PROVE EndIsLast' /\ LentInOrder'
<1> USE DEF OrderInv
<1> DEFINE H == In(mHeldBuffer) \o In(mReadyBuffer)
<1>1. /\ phase = "open" /\ phase' = phase /\ lent' = Append(lent, f) /\ inbox' = Append(inbox, f)
      /\ UNCHANGED <<mBuffers, mHeldBuffer, mReadyBuffer>>
  BY DEF CameraLends, Camera!Lend, slots
<1>2. EndIsLast' /\ InboxFrames' = Append(InboxFrames, f)
  BY <1>1, MessageSent, FrameAssumption
<1>3. H \in Seq(Frame) /\ InboxFrames \in Seq(Frame)
  BY SlotFrames, FramesInInbox, ConcatProperties
<1>4. H' = H
  BY <1>1 DEF In
<1>5. lent = H \o InboxFrames
  BY DEF LentInOrder
<1> HIDE DEF H
<1>6. Append(H \o InboxFrames, f) = H \o Append(InboxFrames, f)
  <2>1. /\ Append(H \o InboxFrames, f) \in Seq(Frame) /\ H \o Append(InboxFrames, f) \in Seq(Frame)
        /\ Len(Append(H \o InboxFrames, f)) = Len(H \o Append(InboxFrames, f))
    BY <1>3
  <2>2. \A i \in 1 .. Len(H) + Len(InboxFrames) + 1 :
          Append(H \o InboxFrames, f)[i] = (H \o Append(InboxFrames, f))[i]
    BY <1>3
  <2>3. Len(Append(H \o InboxFrames, f)) = Len(H) + Len(InboxFrames) + 1
    BY <1>3
  <2>4. QED BY <2>1, <2>2, <2>3, SeqEqual
<1>7. LentInOrder'
  BY <1>1, <1>2, <1>4, <1>5, <1>6 DEF LentInOrder, H
<1>8. QED BY <1>2, <1>7

\* A frame is delivered: it takes the place of the ready one, which goes back.
LEMMA DeliverKeepsOrder ==
  ASSUME OrderInv, NEW f \in Frame, deliverFrame(f) PROVE EndIsLast' /\ LentInOrder'
<1> USE DEF OrderInv
<1> DEFINE H == In(mHeldBuffer)
           I == InboxFrames'
<1>1. EndIsLast' /\ I \in Seq(Frame) /\ InboxFrames = <<f>> \o I
  BY MessageServed, FrameAssumption DEF deliverFrame
<1>2. H \in Seq(Frame) /\ <<f>> \o I \in Seq(Frame) /\ H \o <<f>> \in Seq(Frame)
  BY <1>1, SlotFrames, ConcatProperties
<1>3. HandlerInv'
  BY DeliverKeeps
<1>4. H' = H /\ In(mReadyBuffer)' = <<f>>
  <2>1. /\ FreeSlot \in Slot /\ FreeSlot # mHeldBuffer
        /\ mReadyBuffer' = FreeSlot /\ mBuffers' = [mBuffers EXCEPT ![FreeSlot] = f]
        /\ UNCHANGED mHeldBuffer
    BY DEF deliverFrame, Store, FreeSlot, HandlerInv, HandlerOK, SlotsApart
  <2>2. mBuffers' \in [Slot -> Frame \union {NULL}] /\ mBuffers \in [Slot -> Frame \union {NULL}]
    BY <1>3 DEF HandlerInv, HandlerOK
  <2>3. mBuffers'[FreeSlot] = f /\ \A s \in Slot : s # FreeSlot => mBuffers'[s] = mBuffers[s]
    BY <2>1, <2>2
  <2>4. mHeldBuffer # -1 => mHeldBuffer \in Slot
    BY SlotFrames
  <2>5. H' = H
    BY <2>1, <2>3, <2>4 DEF In
  <2>6. In(mReadyBuffer)' = <<f>>
    BY <2>1, <2>3 DEF In
  <2>7. QED BY <2>5, <2>6
<1>5. lent' = H \o (<<f>> \o I)
  <2>1. CASE mReadyBuffer = -1
    <3>1. lent = (H \o << >>) \o (<<f>> \o I)
      BY <1>1, <2>1, SlotFrames DEF LentInOrder
    <3>2. lent' = lent
      BY <2>1 DEF deliverFrame
    <3>3. H \o << >> = H
      BY <1>2, ConcatEmptySeq
    <3>4. QED BY <3>1, <3>2, <3>3
  <2>2. CASE mReadyBuffer # -1
    <3> DEFINE r == mBuffers[mReadyBuffer]
    <3>1. r \in Frame /\ mReadyBuffer >= 0
      BY <2>2, SlotFrames
    <3>2. lent = (H \o <<r>>) \o (<<f>> \o I) /\ lent' = RemoveFirst(lent, r)
      BY <1>1, <2>2, <3>1, SlotFrames DEF LentInOrder, deliverFrame, GiveBack
    <3>3. CASE mHeldBuffer = -1
      <4>1. H = << >> /\ << >> \o <<r>> = <<r>>
        BY <3>1, <3>3, SlotFrames
      <4>2. RemoveFirst(<<r>> \o (<<f>> \o I), r) = <<f>> \o I
        BY <1>2, <3>1, RemoveTheFirst
      <4>3. << >> \o (<<f>> \o I) = <<f>> \o I
        BY <1>2, ConcatEmptySeq
      <4>4. QED BY <3>2, <4>1, <4>2, <4>3
    <3>4. CASE mHeldBuffer # -1
      <4>1. H = <<mBuffers[mHeldBuffer]>> /\ mBuffers[mHeldBuffer] \in Frame
            /\ mBuffers[mHeldBuffer] # r
        BY <2>2, <3>4, SlotFrames DEF HandlerInv, SlotsApart
      <4>2. \A g \in Frame : g # r =>
              RemoveFirst((<<g>> \o <<r>>) \o (<<f>> \o I), r) = <<g>> \o (<<f>> \o I)
        <5> HIDE DEF r, I
        <5>1. QED BY <1>2, <3>1, RemoveTheSecond
      <4>3. QED BY <3>2, <4>1, <4>2
    <3>5. QED BY <3>3, <3>4
  <2>3. QED BY <2>1, <2>2
<1>6. H \o (<<f>> \o I) = (H \o <<f>>) \o I
  BY <1>1, <1>2, ConcatAssociative
<1>7. QED BY <1>1, <1>4, <1>5, <1>6 DEF LentInOrder

\* The frame held, which goes back, is the oldest.
LEMMA DoneKeepsOrder ==
  ASSUME OrderInv, NEW next, doneWithFrame(next), image # NULL
  PROVE  EndIsLast' /\ LentInOrder'
<1> USE DEF OrderInv
<1> DEFINE h == mBuffers[mHeldBuffer]
           R == In(mReadyBuffer)
<1>1. /\ mHeldBuffer # -1 /\ h \in Frame /\ In(mHeldBuffer) = <<h>>
      /\ R \in Seq(Frame) /\ InboxFrames \in Seq(Frame)
  BY SlotFrames, FramesInInbox DEF HandlerInv, RendererOK
<1>2. /\ mHeldBuffer' = -1 /\ UNCHANGED <<phase, inbox, mBuffers, mReadyBuffer>>
      /\ lent' = RemoveFirst(lent, h)
  BY DEF doneWithFrame, GiveBack
<1>3. EndIsLast' /\ InboxFrames' = InboxFrames /\ R' = R
  BY <1>2 DEF EndIsLast, InboxFrames, In
<1>4. In(mHeldBuffer)' = << >> /\ << >> \o R = R
  BY <1>1, <1>2, ConcatEmptySeq DEF In
<1>5. lent = (<<h>> \o R) \o InboxFrames
  BY <1>1 DEF LentInOrder
<1>6. (<<h>> \o R) \o InboxFrames = <<h>> \o (R \o InboxFrames) /\ R \o InboxFrames \in Seq(Frame)
  BY <1>1, ConcatAssociative, ConcatProperties
<1>7. lent' = R \o InboxFrames
  BY <1>1, <1>2, <1>5, <1>6, RemoveTheFirst
<1>8. QED BY <1>3, <1>4, <1>7 DEF LentInOrder

\* The ready frame becomes the held one.
LEMMA TakeKeepsOrder == ASSUME OrderInv, getNewFrame PROVE EndIsLast' /\ LentInOrder'
<1> USE DEF OrderInv
<1>1. mHeldBuffer = -1 /\ mReadyBuffer \in Slot /\ mBuffers[mReadyBuffer] \in Frame
  BY SlotFrames DEF getNewFrame, HandlerInv, RendererOK
<1>2. /\ mHeldBuffer' = mReadyBuffer /\ mReadyBuffer' = -1
      /\ UNCHANGED <<phase, inbox, mBuffers, lent>>
  BY <1>1 DEF getNewFrame, Ready, camera
<1>3. EndIsLast' /\ InboxFrames' = InboxFrames
  BY <1>2 DEF EndIsLast, InboxFrames
<1>4. In(mHeldBuffer) \o In(mReadyBuffer) = In(mHeldBuffer') \o In(mReadyBuffer')
  BY <1>1, <1>2 DEF In
<1>5. In(mHeldBuffer)' = In(mHeldBuffer') /\ In(mReadyBuffer)' = In(mReadyBuffer')
  BY <1>2 DEF In
<1>6. QED BY <1>2, <1>3, <1>4, <1>5 DEF LentInOrder

LEMMA NextOrder ==
  ASSUME OrderInv, [Next]_vars PROVE EndIsLast' /\ LentInOrder'
<1> USE DEF OrderInv, slots, camera
<1> DEFINE Goal == EndIsLast' /\ LentInOrder'
<1>1. ASSUME UNCHANGED <<lent, inbox, mBuffers, mHeldBuffer, mReadyBuffer>>,
             phase = "ended" => phase' = "ended"
      PROVE  Goal
  BY <1>1 DEF EndIsLast, LentInOrder, InboxFrames, In
<1>2. ASSUME CameraWorks PROVE Goal
  <2>1. UNCHANGED phase
    BY <1>2 DEF CameraWorks, Camera!Supply, Camera!Fill, Camera!Retire, Camera!Recall
  <2>2. QED BY <1>1, <1>2, <2>1 DEF CameraWorks
<1>3. ASSUME NEW f \in Frame, CameraLends(f) PROVE Goal
  BY <1>3, LendKeepsOrder
<1>4. ASSUME CameraCloses PROVE Goal
  BY <1>1, <1>4 DEF CameraCloses, Camera!Close, Camera!Turn
<1>5. ASSUME CameraEnds PROVE Goal
  <2>1. /\ phase = "idle" /\ phase' = "ended" /\ inbox' = Append(inbox, "ended")
        /\ UNCHANGED <<lent, mBuffers, mHeldBuffer, mReadyBuffer>>
    BY <1>5 DEF CameraEnds, Camera!End, Camera!Turn
  <2>2. EndIsLast' /\ InboxFrames' = InboxFrames
    BY <2>1, MessageSent
  <2>3. QED BY <2>1, <2>2 DEF LentInOrder, In
<1>6. ASSUME streamEnded PROVE Goal
  <2>1. Serve("ended") /\ UNCHANGED <<phase, lent, mBuffers, mHeldBuffer, mReadyBuffer>>
    BY <1>6 DEF streamEnded
  <2>2. EndIsLast' /\ InboxFrames' = InboxFrames
    BY <2>1, MessageServed
  <2>3. QED BY <2>1, <2>2 DEF LentInOrder, In
<1>7. ASSUME NEW f \in Frame, deliverFrame(f) PROVE Goal
  BY <1>7, DeliverKeepsOrder
<1>8. ASSUME startStream PROVE Goal
  BY <1>1, <1>8 DEF startStream, Camera!Open, Camera!Turn
<1>9. ASSUME newFrameAvailable PROVE Goal
  BY <1>1, <1>9 DEF newFrameAvailable
<1>10. ASSUME getNewFrame PROVE Goal
  BY <1>10, TakeKeepsOrder
<1>11. ASSUME textureReturns \/ pixelCopyReturns PROVE Goal
  <2>1. image # NULL
    BY <1>11 DEF textureReturns, pixelCopyReturns, HandlerInv, RendererOK
  <2>2. QED BY <1>11, <2>1, DoneKeepsOrder DEF textureReturns, pixelCopyReturns
<1>12. ASSUME NEW why \in {"close", "shutdown"}, asyncStopStream(why) PROVE Goal
  BY <1>1, <1>12 DEF asyncStopStream
<1>13. ASSUME StopReturns \/ blockingStopStream \/ LeaveWait PROVE Goal
  BY <1>1, <1>13 DEF StopReturns, blockingStopStream, LeaveWait
<1>14. ASSUME UNCHANGED vars PROVE Goal
  BY <1>1, <1>14 DEF vars
<1>15. Goal
  BY <1>2, <1>3, <1>4, <1>5, <1>6, <1>7, <1>8, <1>9, <1>10, <1>11, <1>12, <1>13, <1>14
  DEF Next, CameraSteps, Callbacks, Drawing, Stopping, WakeUp
<1>16. QED BY <1>15

\* The frames the camera has lent are the held one, the ready one and those on
\* their way, oldest first, for any number of buffers: StreamHandler loses no
\* frame, shows none out of order and overwrites none that is drawn from.
THEOREM FramesInOrder == Spec => []LentInOrder
<1>1. Init => EndIsLast /\ LentInOrder
  <2> SUFFICES ASSUME Init PROVE EndIsLast /\ LentInOrder
    OBVIOUS
  <2>1. inbox = << >> /\ Len(<< >>) = 0 /\ EndIsLast
    BY DEF Init, EndIsLast
  <2>2. In(mHeldBuffer) = << >> /\ In(mReadyBuffer) = << >> /\ InboxFrames = << >> /\ lent = << >>
    BY <2>1 DEF Init, In, InboxFrames
  <2>3. << >> = << >> \o << >> \o << >>
    OBVIOUS
  <2>4. QED BY <2>1, <2>2, <2>3 DEF LentInOrder
<1>2. OrderInv /\ [Next]_vars => EndIsLast' /\ LentInOrder'
  BY NextOrder
<1>3. QED BY <1>1, <1>2, HandlerCorrect, PTL DEF Spec, OrderInv

-----------------------------------------------------------------------------
(* What liveness rests on.  That the camera is not starved and that shutdown()  *)
(* returns is checked on an instance; proved is that what they wait for is there. *)

\* where the application has a frame
HasFrame(f) ==
  \/ mHeldBuffer # -1 /\ f = mBuffers[mHeldBuffer]
  \/ mReadyBuffer # -1 /\ f = mBuffers[mReadyBuffer]
  \/ \E i \in 1 .. Len(inbox) : inbox[i] = f

NoneForgotten == \A f \in Frame : owner[f] = "client" => HasFrame(f)
LentIsHad == \A f \in Frame : owner[f] = "client" <=> HasFrame(f)

LEMMA NextForgotten == ASSUME HandlerInv, NoneForgotten, [Next]_vars PROVE NoneForgotten'
<1> USE DEF slots, camera, NoneForgotten, HandlerInv, HandlerOK
<1>0. owner \in [Frame -> Camera!Owners] /\ inbox \in Seq(Message)
  BY DEF Camera!CustodyTypeOK
<1>1. ASSUME UNCHANGED <<inbox, mBuffers, mHeldBuffer, mReadyBuffer>>,
             \A f \in Frame : owner'[f] = "client" => owner[f] = "client"
      PROVE  NoneForgotten'
  BY <1>1 DEF HasFrame
<1>2. ASSUME CameraWorks PROVE NoneForgotten'
  <2>1. \A f \in Frame : owner'[f] = "client" => owner[f] = "client"
    BY <1>0, <1>2 DEF CameraWorks, Camera!Supply, Camera!Fill, Camera!Retire, Camera!Recall, Camera!Pass
  <2>2. QED BY <1>1, <1>2, <2>1 DEF CameraWorks
<1>3. ASSUME NEW m \in Message, inbox' = Append(inbox, m), UNCHANGED <<mBuffers, mHeldBuffer, mReadyBuffer>>,
             \A f \in Frame : owner'[f] = "client" => owner[f] = "client" \/ f = m
      PROVE  NoneForgotten'
  <2>1. /\ Len(inbox) \in Nat /\ Len(inbox') = Len(inbox) + 1 /\ inbox'[Len(inbox) + 1] = m
        /\ \A i \in 1 .. Len(inbox) : inbox'[i] = inbox[i]
    BY <1>0, <1>3
  <2>2. \A f \in Frame : (\E i \in 1 .. Len(inbox) : inbox[i] = f) \/ f = m =>
                           \E i \in 1 .. Len(inbox') : inbox'[i] = f
    BY <2>1
  <2>3. QED BY <1>3, <2>2 DEF HasFrame
<1>4. ASSUME NEW f \in Frame, CameraLends(f) PROVE NoneForgotten'
  <2>1. \A g \in Frame : owner'[g] = "client" => owner[g] = "client" \/ g = f
    BY <1>0, <1>4 DEF CameraLends, Camera!Lend, Camera!Pass
  <2>2. QED BY <1>3, <1>4, <2>1 DEF CameraLends
<1>5. ASSUME CameraCloses PROVE NoneForgotten'
  BY <1>1, <1>5 DEF CameraCloses, Camera!Close, Camera!Turn
<1>6. ASSUME CameraEnds PROVE NoneForgotten'
  BY <1>3, <1>6 DEF CameraEnds, Camera!End, Camera!Turn
<1>7. ASSUME NEW m, Serve(m)
      PROVE  \A f \in Frame : (\E i \in 1 .. Len(inbox) : inbox[i] = f) =>
                                f = m \/ \E i \in 1 .. Len(inbox') : inbox'[i] = f
  <2> SUFFICES ASSUME NEW f \in Frame, f # m, NEW i \in 1 .. Len(inbox), inbox[i] = f
               PROVE  \E j \in 1 .. Len(inbox') : inbox'[j] = f
    OBVIOUS
  <2>1. i # 1
    BY <1>7, ServeInbox
  <2>2. i - 1 \in 1 .. Len(inbox') /\ inbox'[i - 1] = inbox[i]
    <3>1. inbox' = Tail(inbox) /\ inbox # << >>
      BY <1>7 DEF Serve
    <3>2. Len(inbox') = Len(inbox) - 1 /\ \A j \in 1 .. Len(inbox) - 1 : inbox'[j] = inbox[j + 1]
      BY <1>0, <3>1
    <3>3. Len(inbox) \in Nat
      BY <1>0
    <3>4. QED BY <2>1, <3>2, <3>3
  <2>3. QED BY <2>2
<1>8. ASSUME streamEnded PROVE NoneForgotten'
  BY <1>7, <1>8, FrameAssumption DEF streamEnded, HasFrame
<1>9. ASSUME NEW f \in Frame, deliverFrame(f) PROVE NoneForgotten'
  <2> SUFFICES ASSUME NEW g \in Frame, owner'[g] = "client" PROVE HasFrame(g)'
    OBVIOUS
  <2>1. /\ FreeSlot \in Slot /\ FreeSlot # mHeldBuffer
        /\ mReadyBuffer' = FreeSlot /\ mBuffers' = [mBuffers EXCEPT ![FreeSlot] = f]
        /\ UNCHANGED mHeldBuffer /\ mReadyBuffer' # -1 /\ mBuffers'[mReadyBuffer'] = f
        /\ mHeldBuffer # -1 => mBuffers'[mHeldBuffer'] = mBuffers[mHeldBuffer]
    BY <1>9 DEF deliverFrame, Store, FreeSlot, SlotsApart
  <2>2. owner[g] = "client" /\ (mReadyBuffer # -1 => g # mBuffers[mReadyBuffer])
    <3>1. CASE mReadyBuffer = -1
      BY <1>9, <3>1 DEF deliverFrame
    <3>2. CASE mReadyBuffer # -1
      <4>1. owner' = [owner EXCEPT ![mBuffers[mReadyBuffer]] = "hal"] /\ mBuffers[mReadyBuffer] \in Frame
        BY <1>9, <3>2 DEF deliverFrame, GiveBack, SlotsApart, InSlot
      <4>2. QED BY <1>0, <4>1
    <3>3. QED BY <3>1, <3>2
  <2>3. \/ mHeldBuffer # -1 /\ g = mBuffers[mHeldBuffer]
        \/ \E i \in 1 .. Len(inbox) : inbox[i] = g
    BY <2>2 DEF HasFrame
  <2>4. CASE mHeldBuffer # -1 /\ g = mBuffers[mHeldBuffer]
    BY <2>1, <2>4 DEF HasFrame
  <2>5. CASE \E i \in 1 .. Len(inbox) : inbox[i] = g
    <3>1. Serve(f)
      BY <1>9 DEF deliverFrame
    <3>2. g = f \/ \E i \in 1 .. Len(inbox') : inbox'[i] = g
      BY <1>7, <2>5, <3>1
    <3>3. QED BY <2>1, <3>2 DEF HasFrame
  <2>6. QED BY <2>3, <2>4, <2>5
<1>10. ASSUME startStream PROVE NoneForgotten'
  BY <1>1, <1>10 DEF startStream, Camera!Open, Camera!Turn
<1>11. ASSUME newFrameAvailable PROVE NoneForgotten'
  BY <1>1, <1>11 DEF newFrameAvailable
<1>12. ASSUME getNewFrame PROVE NoneForgotten'
  <2>1. mHeldBuffer = -1 /\ mReadyBuffer # -1 /\ mReadyBuffer \in Slot
    BY <1>12 DEF getNewFrame, RendererOK
  <2>2. mHeldBuffer' = mReadyBuffer /\ UNCHANGED <<owner, inbox, mBuffers>>
    BY <1>12, <2>1 DEF getNewFrame, Ready
  <2>3. QED BY <2>1, <2>2 DEF HasFrame
<1>13. ASSUME textureReturns \/ pixelCopyReturns PROVE NoneForgotten'
  <2>1. mHeldBuffer # -1 /\ mBuffers[mHeldBuffer] \in Frame
    BY <1>13 DEF textureReturns, pixelCopyReturns, RendererOK, SlotsApart, InSlot
  <2>2. /\ owner' = [owner EXCEPT ![mBuffers[mHeldBuffer]] = "hal"]
        /\ UNCHANGED <<inbox, mBuffers, mReadyBuffer>>
    BY <1>13 DEF textureReturns, pixelCopyReturns, doneWithFrame, GiveBack
  <2>3. \A f \in Frame : owner'[f] = "client" => owner[f] = "client" /\ f # mBuffers[mHeldBuffer]
    BY <1>0, <2>1, <2>2
  <2>4. QED BY <2>2, <2>3 DEF HasFrame
<1>14. ASSUME NEW why \in {"close", "shutdown"}, asyncStopStream(why) PROVE NoneForgotten'
  BY <1>1, <1>14 DEF asyncStopStream
<1>15. ASSUME StopReturns \/ blockingStopStream \/ LeaveWait \/ UNCHANGED vars PROVE NoneForgotten'
  BY <1>1, <1>15 DEF StopReturns, blockingStopStream, LeaveWait, vars
<1>16. QED
  BY <1>2, <1>4, <1>5, <1>6, <1>8, <1>9, <1>10, <1>11, <1>12, <1>13, <1>14, <1>15
  DEF Next, CameraSteps, Callbacks, Drawing, Stopping, WakeUp

\* No frame leaks in the application: the camera has lent it exactly those that are
\* held, ready, or in a call that has not been served.
THEOREM NothingLeaks == Spec => []LentIsHad
<1>1. Init => NoneForgotten
  BY DEF Init, NoneForgotten, Camera!CustodyInit
<1>2. HandlerInv /\ NoneForgotten => LentIsHad
  BY DEF LentIsHad, HandlerInv, SlotsApart, InSlot, InboxApart, HasFrame, NoneForgotten
<1>3. QED BY <1>1, <1>2, NextForgotten, HandlerCorrect, PTL DEF Spec

\* The renderer cannot starve the camera of its buffers: when a camera of three or
\* more has lent them all, a call that delivers one is waiting to be served, and
\* deliverFrame() returns a frame as soon as it finds one ready.
THEOREM DeliveryIsPending ==
  ASSUME NEW f \in Frame, NEW g \in Frame, NEW h \in Frame, f # g, g # h, f # h
  PROVE  Spec => []((\A k \in Frame : owner[k] = "client") =>
                      \E i \in 1 .. Len(inbox) : inbox[i] \in Frame)
<1>1. LentIsHad => ((\A k \in Frame : owner[k] = "client") =>
                      \E i \in 1 .. Len(inbox) : inbox[i] \in Frame)
  BY DEF LentIsHad, HasFrame
<1>2. QED BY <1>1, NothingLeaks, PTL

\* When every call is served the handler and the renderer have two frames at most,
\* the one drawn and the newest, however many the camera has.
THEOREM AtMostTwoAreKept == Spec => [](inbox = << >> => Len(lent) <= 2)
<1>1. HandlerInv /\ LentInOrder => (inbox = << >> => Len(lent) <= 2)
  <2> SUFFICES ASSUME HandlerInv, LentInOrder, inbox = << >> PROVE Len(lent) <= 2
    OBVIOUS
  <2> DEFINE H == In(mHeldBuffer)
             R == In(mReadyBuffer)
  <2>1. H \in Seq(Frame) /\ R \in Seq(Frame) /\ Len(H) \in 0 .. 1 /\ Len(R) \in 0 .. 1
    BY SlotFrames
  <2>2. InboxFrames = << >>
    BY DEF InboxFrames
  <2>3. lent = (H \o R) \o << >>
    BY <2>2 DEF LentInOrder
  <2> HIDE DEF H, R
  <2>4. H \o R \in Seq(Frame) /\ Len(H \o R) = Len(H) + Len(R)
    BY <2>1, ConcatProperties
  <2>5. lent = H \o R
    BY <2>3, <2>4, ConcatEmptySeq
  <2>6. QED BY <2>1, <2>4, <2>5
<1>2. QED BY <1>1, HandlerCorrect, FramesInOrder, PTL

\* the stream has ended for whom StopReturns, and tells so
StopInv ==
  /\ rpc \in {"stopped", "waiting"} => phase = "ended"
  /\ phase = "ended" /\ mRunning => \E i \in 1 .. Len(inbox) : inbox[i] = "ended"
  /\ Stream = "1.0" /\ rpc = "waiting" /\ ~mRunning => notified

LEMMA NextStop == ASSUME HandlerInv, StopInv, [Next]_vars PROVE StopInv'
<1> USE DEF StopInv, slots, camera
<1>0. inbox \in Seq(Message) /\ Len(inbox) \in Nat
  BY DEF HandlerInv, HandlerOK
<1>1. ASSUME CameraWorks PROVE StopInv'
  <2>1. UNCHANGED phase
    BY <1>1 DEF CameraWorks, Camera!Supply, Camera!Fill, Camera!Retire, Camera!Recall
  <2>2. QED BY <1>1, <2>1 DEF CameraWorks
<1>2. ASSUME NEW f \in Frame, CameraLends(f) PROVE StopInv'
  BY <1>2 DEF CameraLends, Camera!Lend
<1>3. ASSUME CameraCloses PROVE StopInv'
  BY <1>3 DEF CameraCloses, Camera!Close, Camera!Turn
<1>4. ASSUME CameraEnds PROVE StopInv'
  <2>1. inbox' = Append(inbox, "ended") /\ UNCHANGED <<rpc, mRunning, notified>> /\ phase' = "ended"
    BY <1>4 DEF CameraEnds, Camera!End, Camera!Turn
  <2>2. Len(inbox') = Len(inbox) + 1 /\ inbox'[Len(inbox) + 1] = "ended"
    BY <1>0, <2>1
  <2>3. \E i \in 1 .. Len(inbox') : inbox'[i] = "ended"
    BY <1>0, <2>2
  <2>4. QED BY <2>1, <2>3
<1>5. ASSUME NEW f \in Frame, deliverFrame(f) PROVE StopInv'
  <2>1. /\ UNCHANGED <<rpc, mRunning, phase>> /\ Serve(f) /\ notified' = (notified \/ rpc = "waiting")
    BY <1>5 DEF deliverFrame, NotifyAll
  <2>2. ASSUME NEW i \in 1 .. Len(inbox), inbox[i] = "ended"
        PROVE  \E j \in 1 .. Len(inbox') : inbox'[j] = "ended"
    <3>1. i # 1
      BY <2>1, <2>2, ServeInbox, FrameAssumption
    <3>2. inbox' = Tail(inbox) /\ inbox # << >>
      BY <2>1 DEF Serve
    <3>3. Len(inbox') = Len(inbox) - 1 /\ \A j \in 1 .. Len(inbox) - 1 : inbox'[j] = inbox[j + 1]
      BY <1>0, <3>2
    <3>4. i - 1 \in 1 .. Len(inbox') /\ inbox'[i - 1] = "ended"
      BY <1>0, <2>2, <3>1, <3>3
    <3>5. QED BY <3>4
  <2>3. QED BY <2>1, <2>2
<1>6. ASSUME streamEnded PROVE StopInv'
  BY <1>6 DEF streamEnded, NotifyAll
<1>7. ASSUME startStream PROVE StopInv'
  BY <1>7 DEF startStream, Camera!Open, Camera!Turn
<1>8. ASSUME newFrameAvailable \/ getNewFrame PROVE StopInv'
  BY <1>8 DEF newFrameAvailable, getNewFrame
<1>9. ASSUME textureReturns \/ pixelCopyReturns PROVE StopInv'
  BY <1>9 DEF textureReturns, pixelCopyReturns, doneWithFrame
<1>10. ASSUME NEW why \in {"close", "shutdown"}, asyncStopStream(why) PROVE StopInv'
  BY <1>10 DEF asyncStopStream
<1>11. ASSUME StopReturns \/ LeaveWait \/ UNCHANGED vars PROVE StopInv'
  BY <1>11 DEF StopReturns, LeaveWait, vars
<1>12. ASSUME blockingStopStream PROVE StopInv'
  BY <1>12 DEF blockingStopStream
<1>13. QED
  BY <1>1, <1>2, <1>3, <1>4, <1>5, <1>6, <1>7, <1>8, <1>9, <1>10, <1>11, <1>12
  DEF Next, CameraSteps, Callbacks, Drawing, Stopping, WakeUp

\* While shutdown() waits for a 1.0 stream, its wakeup has come or will: the end of
\* the stream is in a call that is still to be served, or was served and notified.
\* (A 1.1 stream ends without a notification: that is the finding of stream_stop.)
THEOREM ShutdownIsHeard ==
  ASSUME Stream = "1.0"
  PROVE  Spec => [](rpc = "waiting" => notified \/ \E i \in 1 .. Len(inbox) : inbox[i] = "ended")
<1>1. Init => StopInv
  BY DEF Init, StopInv
<1>2. StopInv => (rpc = "waiting" => notified \/ \E i \in 1 .. Len(inbox) : inbox[i] = "ended")
  BY DEF StopInv
<1>3. QED BY <1>1, <1>2, NextStop, HandlerCorrect, PTL DEF Spec
=============================================================================
