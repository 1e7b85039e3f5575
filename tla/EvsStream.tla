------------------------------ MODULE EvsStream ------------------------------
(***************************************************************************)
(* The EVS application's end of a video stream: StreamHandler.cpp, the     *)
(* receiver that keeps the newest frame and gives older ones back, and the *)
(* renderers that draw from it (VideoTex.cpp, RenderPixelCopy.cpp), all of *)
(* src/evs/evs_app.                                                        *)
(*                                                                         *)
(* The camera is FrameCustody, which EvsCamera implements: this module     *)
(* composes the two through the oneway calls the camera makes, a queue     *)
(* served in order by the application's only binder thread, and the        *)
(* synchronous calls the application makes.  The render thread is rpc.     *)
(* Every method of the handler runs under mLock and is one step.           *)
(***************************************************************************)
EXTENDS Integers, Sequences, SequencesExt

CONSTANTS
  Frame,    \* the frame buffers of the camera
  NULL,     \* no frame
  Stream    \* the version of the callback the camera holds: "1.0" or "1.1"

ASSUME FrameAssumption == NULL \notin Frame /\ "ended" \notin Frame
ASSUME StreamAssumption == Stream \in {"1.0", "1.1"}

VARIABLES
  owner, phase,  \* the camera, as in FrameCustody
  lent,          \* history: the frames the application has, in the order lent
  inbox,         \* oneway calls not served yet: a frame each, or "ended"
  mRunning,
  mBuffers,      \* the two frame slots, 0 and 1
  mHeldBuffer,   \* index of the slot the renderer holds, or -1
  mReadyBuffer,  \* index of the slot with the newest frame, or -1
  rpc,           \* the render thread
  image,         \* the frame the renderer draws from, or NULL
  notified       \* mSignal was notified while the render thread waited on it

camera == <<owner, phase>>
slots == <<mBuffers, mHeldBuffer, mReadyBuffer>>
vars == <<camera, lent, inbox, mRunning, slots, rpc, image, notified>>

Camera == INSTANCE FrameCustody

Slot == {0, 1}
Message == Frame \union {"ended"}

Init ==
  /\ Camera!CustodyInit
  /\ lent = << >> /\ inbox = << >>
  /\ mRunning = FALSE
  /\ mBuffers = [s \in Slot |-> NULL]
  /\ mHeldBuffer = -1 /\ mReadyBuffer = -1
  /\ rpc = "new" /\ image = NULL /\ notified = FALSE

\* A frame goes back to the camera.  That it was the application's to return is
\* not assumed here: KeepsPromise checks it.
GiveBack(f) ==
  /\ owner' = [owner EXCEPT ![f] = "hal"]
  /\ lent' = RemoveFirst(lent, f)

-----------------------------------------------------------------------------
(* The camera: it fills and recalls buffers, lends frames, and ends its    *)
(* stream when it is asked to or when another client takes it away.        *)

CameraWorks ==
  /\ \/ \E f \in Frame : Camera!Supply(f) \/ Camera!Fill(f) \/ Camera!Retire(f)
     \/ Camera!Recall
  /\ UNCHANGED <<lent, inbox, mRunning, slots, rpc, image, notified>>

CameraLends(f) ==
  /\ Camera!Lend(f)
  /\ lent' = Append(lent, f) /\ inbox' = Append(inbox, f)
  /\ UNCHANGED <<mRunning, slots, rpc, image, notified>>

CameraCloses ==
  /\ Camera!Close
  /\ UNCHANGED <<lent, inbox, mRunning, slots, rpc, image, notified>>

CameraEnds ==
  /\ Camera!End /\ rpc # "new"
  /\ inbox' = Append(inbox, "ended")
  /\ UNCHANGED <<lent, mRunning, slots, rpc, image, notified>>

-----------------------------------------------------------------------------
(* The binder thread: deliverFrame(), deliverFrame_1_1() and notify() *)

\* where a frame goes: over the ready one, or beside the held one
\* Mutant: the slot of the held frame is not avoided.
SlotZero == IF mReadyBuffer >= 0 THEN mReadyBuffer ELSE 0
FreeSlot == IF mReadyBuffer >= 0 THEN mReadyBuffer
            ELSE IF mHeldBuffer >= 0 THEN 1 - mHeldBuffer ELSE 0

Store(f, s) ==
  /\ mBuffers' = [mBuffers EXCEPT ![s] = f]
  /\ mReadyBuffer' = s

Serve(message) == inbox # << >> /\ Head(inbox) = message /\ inbox' = Tail(inbox)
NotifyAll == notified' = (notified \/ rpc = "waiting")

\* Mutant: the older frame is overwritten, not returned.
deliverFrameKeepsOlder(f) ==
  /\ Serve(f)
  /\ Store(f, FreeSlot)
  /\ NotifyAll
  /\ UNCHANGED <<camera, lent, mRunning, mHeldBuffer, rpc, image>>

deliverFrame(f) ==
  /\ Serve(f)
  /\ IF mReadyBuffer >= 0 THEN GiveBack(mBuffers[mReadyBuffer])
     ELSE UNCHANGED <<owner, lent>>
  /\ Store(f, FreeSlot)
  /\ NotifyAll
  /\ UNCHANGED <<phase, mRunning, mHeldBuffer, rpc, image>>

\* Mutant: nobody is told that the stream has ended.
streamEndedQuietly ==
  /\ Serve("ended")
  /\ mRunning' = FALSE
  /\ UNCHANGED <<camera, lent, slots, rpc, image, notified>>

\* The end of a 1.0 stream is a null frame, delivered by deliverFrame(), which
\* notifies mSignal; that of a 1.1 stream an event, for notify(), which does not.
streamEnded ==
  /\ Serve("ended")
  /\ mRunning' = FALSE
  /\ IF Stream = "1.0" THEN NotifyAll ELSE UNCHANGED notified
  /\ UNCHANGED <<camera, lent, slots, rpc, image>>

-----------------------------------------------------------------------------
(* The render thread *)

\* startVideoStream() may be refused; then no renderer is made.
startStream ==
  /\ rpc = "new"
  /\ \/ Camera!Open /\ mRunning' = TRUE /\ rpc' = "draw"
     \/ UNCHANGED <<camera, mRunning>> /\ rpc' = "closed"
  /\ UNCHANGED <<lent, inbox, slots, image, notified>>

\* Mutant: the renderer does not ask whether there is a new frame.
newFrameAssumed ==
  /\ rpc = "draw" /\ rpc' = IF image = NULL THEN "take" ELSE "return"
  /\ UNCHANGED <<camera, lent, inbox, mRunning, slots, image, notified>>

\* A texture first returns the frame it has; a pixel copy returns at once.
newFrameAvailable ==
  /\ rpc = "draw" /\ mReadyBuffer >= 0
  /\ rpc' = IF image = NULL THEN "take" ELSE "return"
  /\ UNCHANGED <<camera, lent, inbox, mRunning, slots, image, notified>>

\* With nothing ready, slot 0 is taken for ready ("This is a lie!").
Ready == IF mReadyBuffer < 0 THEN 0 ELSE mReadyBuffer

getNewFrame ==
  /\ rpc = "take" /\ rpc' = "draw"
  /\ mHeldBuffer' = IF mHeldBuffer >= 0 THEN mHeldBuffer ELSE Ready
  /\ mReadyBuffer' = IF mHeldBuffer >= 0 THEN mReadyBuffer ELSE -1
  /\ image' = mBuffers[mHeldBuffer']
  /\ UNCHANGED <<camera, lent, inbox, mRunning, mBuffers, notified>>

\* Mutant: the held position is not cleared.
doneWithFrameStillHeld(next) ==
  /\ rpc' = next /\ image' = NULL
  /\ GiveBack(mBuffers[mHeldBuffer])
  /\ UNCHANGED <<phase, inbox, mRunning, slots, notified>>

doneWithFrame(next) ==
  /\ rpc' = next /\ image' = NULL
  /\ GiveBack(mBuffers[mHeldBuffer])
  /\ mHeldBuffer' = -1
  /\ UNCHANGED <<phase, inbox, mRunning, mBuffers, mReadyBuffer, notified>>

\* VideoTex::refresh()
textureReturns == rpc = "return" /\ doneWithFrame("take")
\* RenderPixelCopy::drawFrame()
pixelCopyReturns == rpc = "draw" /\ image # NULL /\ doneWithFrame("draw")

\* ~VideoTex() stops the stream and closes the camera, shutdown() stops it and
\* waits; stopVideoStream() returns when the camera has ended the stream.
asyncStopStream(why) ==
  /\ rpc = "draw" /\ rpc' = why
  /\ UNCHANGED <<camera, lent, inbox, mRunning, slots, image, notified>>

StopReturns ==
  /\ phase = "ended"
  /\ rpc \in {"close", "shutdown"}
  /\ rpc' = IF rpc = "close" THEN "closed" ELSE "stopped"
  /\ UNCHANGED <<camera, lent, inbox, mRunning, slots, image, notified>>

blockingStopStream ==
  /\ rpc = "stopped"
  /\ rpc' = IF mRunning THEN "waiting" ELSE "down"
  /\ notified' = FALSE
  /\ UNCHANGED <<camera, lent, inbox, mRunning, slots, image>>

\* The wait ends when its predicate holds and the thread wakes up, which only a
\* notification is sure to bring about.
LeaveWait ==
  /\ rpc = "waiting" /\ ~mRunning /\ rpc' = "down"
  /\ UNCHANGED <<camera, lent, inbox, mRunning, slots, image, notified>>
WakeUp == notified /\ LeaveWait

-----------------------------------------------------------------------------
CameraSteps == CameraWorks \/ CameraCloses \/ CameraEnds
               \/ \E f \in Frame : CameraLends(f)
Callbacks == streamEnded \/ \E f \in Frame : deliverFrame(f)
Drawing == \/ startStream \/ newFrameAvailable \/ getNewFrame
           \/ textureReturns \/ pixelCopyReturns
           \/ \E why \in {"close", "shutdown"} : asyncStopStream(why)
Stopping == StopReturns \/ blockingStopStream \/ WakeUp

Next == CameraSteps \/ Callbacks \/ Drawing \/ Stopping \/ LeaveWait

Spec == Init /\ [][Next]_vars

\* Both threads of the application are scheduled, and the camera ends a stream
\* it is asked to stop (CallsReturn of EvsCamera).  Nothing makes it draw.
Fairness ==
  /\ WF_vars(Callbacks)
  /\ WF_vars(Stopping)
  /\ WF_vars(rpc \in {"close", "shutdown"} /\ (CameraCloses \/ CameraEnds))
FairSpec == Spec /\ Fairness

-----------------------------------------------------------------------------
RenderPC == {"new", "draw", "take", "return", "close", "closed", "shutdown",
             "stopped", "waiting", "down"}

\* The values every variable may take; LentInOrder says those of lent.
TypeOK ==
  /\ Camera!CustodyTypeOK
  /\ inbox \in Seq(Message)
  /\ mRunning \in BOOLEAN /\ notified \in BOOLEAN
  /\ mBuffers \in [Slot -> Frame \union {NULL}]
  /\ mHeldBuffer \in Slot \union {-1} /\ mReadyBuffer \in Slot \union {-1}
  /\ rpc \in RenderPC /\ image \in Frame \union {NULL}

In(slot) == IF slot >= 0 THEN <<mBuffers[slot]>> ELSE << >>
\* the frames on their way: nothing is sent after the end of the stream
InboxFrames ==
  IF inbox # << >> /\ Last(inbox) = "ended" THEN Front(inbox) ELSE inbox

\* The frames the camera has lent are, oldest first, the one the renderer holds,
\* the one ready for it, and those not delivered yet: none is lost or shown out
\* of order, and no slot is overwritten while it is drawn from.  StreamHandler.h:
\* it holds "onto the most recent image buffer, returning older ones".
LentInOrder == lent = In(mHeldBuffer) \o In(mReadyBuffer) \o InboxFrames

\* The application does its part of FrameCustody: it returns only frames it was
\* lent, each once (StreamHandler::doneWithFrame, deliverFrame).
KeepsPromise == Camera!CustodySpec

\* What the renderer draws from is the frame the handler holds for it: "We better
\* be getting back the buffer we original delivered!" (StreamHandler.cpp:112).
DrawsWhatIsHeld ==
  image # NULL => mHeldBuffer >= 0 /\ mBuffers[mHeldBuffer] = image /\ owner[image] = "client"

\* The camera never waits for the renderer: as long as the callbacks are served,
\* a frame comes back to it whether or not anything is drawn.
CameraNotStarved ==
  (\A f \in Frame : owner[f] = "client") ~> (\E f \in Frame : owner[f] # "client")

\* shutdown() returns (StreamHandler.cpp:72 "Wait until the stream has actually
\* stopped").
ShutdownReturns == (rpc = "shutdown") ~> (rpc = "down")
=============================================================================
