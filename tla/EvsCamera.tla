------------------------------ MODULE EvsCamera ------------------------------
(***************************************************************************)
(* The EVS hardware camera of src/evs/evs_hal: EvsCamera.cpp (the binder   *)
(* interface and the capture loop) together with V4l2Capture.cpp (the      *)
(* video device and its buffers), for a camera made of one physical        *)
(* device.                                                                 *)
(*                                                                         *)
(* Two threads run this code.  The binder thread (service.cpp configures   *)
(* exactly one) executes one call at a time: its program counter is bpc.   *)
(* The capture thread, spawned by startVideoStream, runs collectFrames():  *)
(* its program counter is cpc.  A step is what a thread does between two   *)
(* points where the other thread may observe it.  The V4L2 driver and the  *)
(* client are the environment; Env names what this environment may do.     *)
(***************************************************************************)
EXTENDS Integers, Sequences, FiniteSets

CONSTANTS
  V4L2_BUFFER_NUM,        \* number of buffers requested from the driver
  MAX_BUFFERS_IN_FLIGHT,  \* largest bufferCount a client may ask for
  DefaultFrames,          \* buffers onStart() asks for when the client did not
  UINT_MOD,               \* 2^w for the w-bit unsigned counters of frames
  Memory,                 \* the gralloc memory that can be allocated
  NULL,                   \* the null pointer
  Env                     \* what the environment may do, a subset of EnvKinds

\* "resize":   the client changes the number of buffers after its first choice
\* "late":     the client returns a frame after the camera was closed
\* "steal":    the enumerator shuts the camera down at any time
\* "death":    the client process may die
\* "openfail": onOpen() may fail
EnvKinds == {"resize", "late", "steal", "death", "openfail"}

ASSUME CountsAssumption ==
  /\ V4L2_BUFFER_NUM \in Nat \ {0}
  /\ MAX_BUFFERS_IN_FLIGHT \in 1 .. V4L2_BUFFER_NUM
  /\ DefaultFrames \in 1 .. MAX_BUFFERS_IN_FLIGHT
  /\ UINT_MOD \in Nat /\ UINT_MOD > MAX_BUFFERS_IN_FLIGHT + 1
ASSUME NullAssumption == NULL \notin Memory \union {"1.0", "1.1"}
ASSUME EnvAssumption == Env \subseteq EnvKinds

Index == 0 .. V4L2_BUFFER_NUM - 1

VARIABLES
  fd,               \* mDeviceFd: "open", "closed" (-1), or "none" (never set)
  mRunMode,         \* the bits set in mRunMode: STOPPED is {}
  mStream,          \* the client's callback: NULL, "1.0" or "1.1"
  mStream_1_1,      \* mStream_1_1 # nullptr
  mEvsAppRecipient, \* mEvsAppRecipient # nullptr
  mFramesAllowed, mFramesInUse, mDecreasenum,
  mBufferMap,       \* v4l2 index -> gralloc slot, or -1
  mCamBuffers,      \* gralloc slot (from 1 here) -> memory or NULL
  live,             \* the memory allocated and not released
  queued,           \* driver: index -> memory queued to be filled, or NULL
  requested,        \* driver: buffers requested (VIDIOC_REQBUFS) and not freed
  streaming,        \* driver: between STREAMON and STREAMOFF
  cpc, cIdx, cMem, cLoad,                         \* the capture thread
  bpc, bCall, bNeeded, bVec, bIdx, bLoad,         \* the binder thread
  signalled,        \* a waiter on mFramesSignal has been notified
  held,             \* indices of the frames delivered and not returned
  ended,            \* the client has been told that its stream ended
  clientAlive,
  aborted,          \* the process died (uncaught exception, null dereference)
  raced             \* history: an update of mFramesInUse has been lost

camVars == <<fd, mRunMode, mStream, mStream_1_1, mEvsAppRecipient>>
bufVars == <<mFramesAllowed, mDecreasenum, mBufferMap, mCamBuffers, live>>
drvVars == <<queued, requested, streaming>>
capVars == <<cpc, cIdx, cMem, cLoad>>
binVars == <<bpc, bCall, bNeeded, bVec, bIdx, bLoad>>
cliVars == <<held, ended, clientAlive>>
useVars == <<mFramesInUse, raced>>
vars == <<camVars, bufVars, useVars, drvVars, capVars, binVars,
          signalled, cliVars, aborted>>

-----------------------------------------------------------------------------
(* Helpers *)

isOpen == fd # "closed"

\* unsigned arithmetic of mFramesInUse and mFramesAllowed
\* Mutant: the frame lent is not counted.
IncrForgotten(n) == n
Incr(n) == IF n = UINT_MOD - 1 THEN 0 ELSE n + 1
Decr(n) == IF n = 0 THEN UINT_MOD - 1 ELSE n - 1

\* mFramesInUse is a plain integer, counted up by one thread and down by the
\* other under no common lock: a load, and later the store of the new value.
\* Whatever was stored in between is lost.
Store(load, new) == mFramesInUse' = new /\ raced' = (raced \/ load # mFramesInUse)

Mapped == {i \in DOMAIN mBufferMap : mBufferMap[i] # -1}
\* Mutant: a buffer that is not queued is taken for one that is not mapped.
UnmappedByQueue == {i \in DOMAIN mBufferMap : queued[i] = NULL}
Unmapped == DOMAIN mBufferMap \ Mapped
\* what a search from 0 upwards finds in S: nothing, or the least element
FirstOf(S) == {x \in S : \A y \in S : x <= y}

\* mCamBuffers[fd].at(mBufferMap[cam].at(i)) throws unless this holds:
\* mCamBuffers[-1] is an empty vector, and so is the map of a failed open.
CanLookUp(i) ==
  /\ fd = "open"
  /\ i \in Mapped
  /\ mBufferMap[i] + 1 \in DOMAIN mCamBuffers
BackedBy(i) == mCamBuffers[mBufferMap[i] + 1]

\* the first unused gralloc slot in 0 .. mFramesAllowed; -1 if there is none
FreeSlots == (0 .. mFramesAllowed) \ {mBufferMap[i] : i \in Mapped}
\* Mutant: every index is mapped to the first slot.
SlotForFirst == {0}
SlotFor == IF mFramesAllowed = 0 THEN {0}
           ELSE IF FreeSlots = {} THEN {-1} ELSE FirstOf(FreeSlots)

-----------------------------------------------------------------------------
(* The camera object as openup() leaves it.  A failed onOpen() leaves      *)
(* mDeviceFd and mBufferMap empty and mRunMode uninitialised; the object   *)
(* is handed to the client all the same.                                   *)

Init ==
  /\ \/ /\ fd = "open"
        /\ mRunMode = {}
        /\ mBufferMap = [i \in Index |-> -1]
     \/ /\ "openfail" \in Env
        /\ fd = "none"
        /\ mRunMode \in SUBSET {"RUN", "STOPPING"}
        /\ mBufferMap = [i \in {} |-> -1]
  /\ mStream = NULL /\ mStream_1_1 = FALSE /\ mEvsAppRecipient = FALSE
  /\ mFramesAllowed = 0 /\ mFramesInUse = 0 /\ mDecreasenum = 0
  /\ mCamBuffers = << >> /\ live = {}
  /\ queued = [i \in Index |-> NULL]
  /\ requested = (fd = "open") /\ streaming = FALSE
  /\ cpc = "none" /\ cIdx = 0 /\ cMem = NULL /\ cLoad = 0
  /\ bpc = "idle" /\ bCall = "none" /\ bNeeded = 0 /\ bVec = << >>
  /\ bIdx = 0 /\ bLoad = 0
  /\ signalled = FALSE
  /\ held = {} /\ ended = FALSE /\ clientAlive = TRUE
  /\ aborted = FALSE /\ raced = FALSE

-----------------------------------------------------------------------------
(* onFrameReturn(i), run by either thread: a pending decrease takes the     *)
(* buffer, otherwise it goes back to the driver.                            *)

onDecreaseMemoryBuffer(i) ==
  /\ aborted' = ~CanLookUp(i)
  /\ IF CanLookUp(i)
       THEN /\ live' = live \ {BackedBy(i)}
            /\ mCamBuffers' = [mCamBuffers EXCEPT ![mBufferMap[i] + 1] = NULL]
            /\ mBufferMap' = [mBufferMap EXCEPT ![i] = -1]
            /\ mFramesAllowed' = Decr(mFramesAllowed)
       ELSE UNCHANGED <<live, mCamBuffers, mBufferMap, mFramesAllowed>>

DropFrame(i) ==
  /\ mDecreasenum > 0
  /\ IF isOpen THEN onDecreaseMemoryBuffer(i)
     ELSE UNCHANGED <<mFramesAllowed, mBufferMap, mCamBuffers, live, aborted>>
  /\ mDecreasenum' = mDecreasenum - 1
  /\ signalled' = (signalled \/ (bpc = "waiting" /\ mDecreasenum = 1))
  /\ UNCHANGED queued

RequeueFrame(i) ==
  /\ mDecreasenum = 0
  /\ aborted' = ~CanLookUp(i)
  /\ queued' = IF CanLookUp(i) /\ requested
                 THEN [queued EXCEPT ![i] = BackedBy(i)] ELSE queued
  /\ UNCHANGED <<bufVars, signalled>>

onFrameReturn(i) ==
  /\ DropFrame(i) \/ RequeueFrame(i)
  /\ UNCHANGED <<requested, streaming>>

-----------------------------------------------------------------------------
(* setMaxFramesInFlight() and onIncreaseMemoryBuffer() *)

\* Without "resize" the client chooses the number of buffers once, before it
\* starts its stream, as evs_app/StreamHandler.cpp and the tests do.
MayResize(n) == "resize" \in Env \/ (mStream = NULL /\ mFramesAllowed = 0)

Call(c, next) == bpc = "idle" /\ bCall' = c /\ bpc' = next
Return == bpc' = "idle" /\ bCall' = "none"

setMaxFramesInFlight(n) ==
  /\ clientAlive /\ MayResize(n)
  /\ isOpen /\ n \in 1 .. MAX_BUFFERS_IN_FLIGHT /\ n # mFramesAllowed
  /\ IF mFramesAllowed < n
       THEN /\ Call("setMax", "increase")
            /\ bNeeded' = n - mFramesAllowed
            /\ UNCHANGED mDecreasenum
       ELSE /\ Call("setMax", "toWait")
            /\ mDecreasenum' = mFramesAllowed - n
            /\ UNCHANGED bNeeded
  /\ UNCHANGED <<camVars, mFramesAllowed, mBufferMap, mCamBuffers, live,
                 useVars, drvVars, capVars, bVec, bIdx, bLoad, signalled,
                 cliVars, aborted>>

\* The condition variable is waited on without a predicate.
AwaitDecrease ==
  /\ bpc = "toWait" /\ bpc' = "waiting"
  /\ signalled' = FALSE
  /\ UNCHANGED <<camVars, bufVars, useVars, drvVars, capVars, bCall,
                 bNeeded, bVec, bIdx, bLoad, cliVars, aborted>>

LeaveWait ==
  /\ bpc = "waiting" /\ Return
  /\ UNCHANGED <<camVars, bufVars, useVars, drvVars, capVars, bNeeded,
                 bVec, bIdx, bLoad, signalled, cliVars, aborted>>

DecreaseNotified == signalled /\ LeaveWait
SpuriousWakeup == ~signalled /\ LeaveWait

\* Allocates memory, copies the vector of buffers and finds it a place (in the
\* copy a null slot is overwritten through a loop variable, which leaves the
\* copy as it was), maps the first unmapped v4l2 index and queues it.
IncreaseMap ==
  /\ bpc = "increase" /\ bNeeded > 0
  /\ IF fd = "open" /\ Unmapped # {} /\ live # Memory
       THEN \E v \in FirstOf(Unmapped), s \in SlotFor, m \in Memory \ live :
              /\ live' = live \union {m}
              /\ bVec' = IF \E k \in DOMAIN mCamBuffers : mCamBuffers[k] = NULL
                           THEN mCamBuffers ELSE Append(mCamBuffers, m)
              /\ mBufferMap' = [mBufferMap EXCEPT ![v] = s]
              /\ queued' = IF requested THEN [queued EXCEPT ![v] = m] ELSE queued
              /\ bpc' = "publish"
              /\ UNCHANGED aborted
       ELSE /\ aborted' = TRUE
            /\ UNCHANGED <<live, bVec, mBufferMap, queued, bpc>>
  /\ UNCHANGED <<camVars, mFramesAllowed, mDecreasenum, mCamBuffers,
                 useVars, requested, streaming, capVars, bCall, bNeeded,
                 bIdx, bLoad, signalled, cliVars>>

\* Mutant: the copy of the vector is never stored.
IncreaseUnpublished ==
  /\ bpc = "publish" /\ bpc' = "increase"
  /\ mFramesAllowed' = Incr(mFramesAllowed)
  /\ bNeeded' = bNeeded - 1
  /\ UNCHANGED <<camVars, mDecreasenum, mBufferMap, mCamBuffers, live,
                 useVars, drvVars, capVars, bCall, bVec, bIdx, bLoad,
                 signalled, cliVars, aborted>>

\* Only then is the copy stored in mCamBuffers.
IncreasePublish ==
  /\ bpc = "publish" /\ bpc' = "increase"
  /\ mCamBuffers' = bVec
  /\ mFramesAllowed' = Incr(mFramesAllowed)
  /\ bNeeded' = bNeeded - 1
  /\ UNCHANGED <<camVars, mDecreasenum, mBufferMap, live, useVars,
                 drvVars, capVars, bCall, bVec, bIdx, bLoad, signalled,
                 cliVars, aborted>>

IncreaseDone ==
  /\ bpc = "increase" /\ bNeeded = 0
  /\ IF bCall = "start" THEN bpc' = "streamOn" /\ UNCHANGED bCall ELSE Return
  /\ UNCHANGED <<camVars, bufVars, useVars, drvVars, capVars, bNeeded,
                 bVec, bIdx, bLoad, signalled, cliVars, aborted>>

-----------------------------------------------------------------------------
(* startVideoStream() and onStart() *)

\* Mutant: the check that no stream was recorded is dropped.
startWithoutCheck(stream) ==
  /\ clientAlive /\ isOpen
  /\ "RUN" \notin mRunMode /\ mRunMode' = mRunMode \union {"RUN"}
  /\ mStream' = stream /\ mStream_1_1' = (stream = "1.1")
  /\ mEvsAppRecipient' = TRUE
  /\ Call("start", "increase")
  /\ bNeeded' = IF mFramesAllowed = 0 THEN DefaultFrames ELSE 0
  /\ UNCHANGED <<fd, bufVars, useVars, drvVars, capVars, bVec, bIdx,
                 bLoad, signalled, cliVars, aborted>>

\* A second stream is refused, but only after the RUN bit has been set.
startVideoStream(stream) ==
  /\ clientAlive /\ isOpen
  /\ mRunMode' = mRunMode \union {"RUN"}
  /\ IF "RUN" \notin mRunMode /\ mStream = NULL
       THEN /\ mStream' = stream
            /\ mStream_1_1' = (stream = "1.1")
            /\ mEvsAppRecipient' = TRUE
            /\ Call("start", "increase")
            /\ bNeeded' = IF mFramesAllowed = 0 THEN DefaultFrames ELSE 0
       ELSE /\ bpc = "idle"
            /\ UNCHANGED <<mStream, mStream_1_1, mEvsAppRecipient, bpc, bCall,
                           bNeeded>>
  /\ UNCHANGED <<fd, bufVars, useVars, drvVars, capVars, bVec, bIdx,
                 bLoad, signalled, cliVars, aborted>>

StreamOn ==
  /\ bpc = "streamOn" /\ bpc' = "spawn"
  /\ fd = "open" /\ streaming' = TRUE
  /\ UNCHANGED <<camVars, bufVars, useVars, queued, requested, capVars,
                 bCall, bNeeded, bVec, bIdx, bLoad, signalled, cliVars, aborted>>

\* The ioctl fails: the stream is forgotten (not its 1.1 interface) and the
\* camera is shut down, beginning with stopVideoStream().
StreamOnFails ==
  /\ bpc = "streamOn" /\ bpc' = "onStop"
  /\ bCall' = "shutdown"
  /\ mRunMode' = {} /\ mStream' = NULL /\ mEvsAppRecipient' = FALSE
  /\ UNCHANGED <<fd, mStream_1_1, bufVars, useVars, drvVars, capVars,
                 bNeeded, bVec, bIdx, bLoad, signalled, cliVars, aborted>>

SpawnCapture ==
  /\ bpc = "spawn" /\ Return
  /\ cpc' = "readRunMode"
  /\ UNCHANGED <<camVars, bufVars, useVars, drvVars, cIdx, cMem, cLoad,
                 bNeeded, bVec, bIdx, bLoad, signalled, cliVars, aborted>>

-----------------------------------------------------------------------------
(* stopVideoStream(), onStop() and shutdown() *)

\* fetch_or(STOPPING) and the assignment that follows it are one step: every
\* value mRunMode takes in between stops the capture loop, as the last does.
StopStream(call) ==
  /\ IF mRunMode = {} THEN Call(call, "endStream") /\ UNCHANGED mRunMode
     ELSE IF "STOPPING" \in mRunMode
       THEN Call(call, "endStream") /\ UNCHANGED mRunMode
       ELSE Call(call, "onStop") /\ mRunMode' = {}
  /\ UNCHANGED <<fd, mStream, mStream_1_1, mEvsAppRecipient, bufVars,
                 useVars, drvVars, capVars, bNeeded, bVec, bIdx, bLoad,
                 signalled, cliVars, aborted>>

stopVideoStream == clientAlive /\ StopStream("stop")

\* Called when another client steals the camera and when the client has died.
shutdown ==
  /\ "steal" \in Env \/ (mEvsAppRecipient /\ ~clientAlive)
  /\ StopStream("shutdown")

\* Mutant: the driver is not told to stop.
onStopForgotten ==
  /\ bpc = "onStop" /\ bpc' = "join"
  /\ UNCHANGED <<camVars, bufVars, useVars, drvVars, capVars, bCall,
                 bNeeded, bVec, bIdx, bLoad, signalled, cliVars, aborted>>

\* STREAMOFF takes every buffer back from the driver, REQBUFS 0 frees them.
onStop ==
  /\ bpc = "onStop" /\ bpc' = "join"
  /\ IF fd = "open"
       THEN /\ streaming' = FALSE /\ requested' = FALSE
            /\ queued' = [i \in Index |-> NULL]
       ELSE UNCHANGED drvVars
  /\ UNCHANGED <<camVars, bufVars, useVars, capVars, bCall, bNeeded,
                 bVec, bIdx, bLoad, signalled, cliVars, aborted>>

JoinCapture ==
  /\ bpc = "join" /\ bpc' = "endStream"
  /\ cpc \in {"none", "exited"} /\ cpc' = "none"
  /\ UNCHANGED <<camVars, bufVars, useVars, drvVars, cIdx, cMem, cLoad,
                 bCall, bNeeded, bVec, bIdx, bLoad, signalled, cliVars, aborted>>

\* The death recipient is dropped and the client told; mStream is kept.
EndStream ==
  /\ bpc = "endStream"
  /\ mEvsAppRecipient' = FALSE
  /\ ended' = (ended \/ mStream_1_1 \/ mStream # NULL)
  /\ IF bCall = "shutdown" THEN bpc' = "close" /\ UNCHANGED bCall ELSE Return
  /\ UNCHANGED <<fd, mRunMode, mStream, mStream_1_1, bufVars, useVars,
                 drvVars, capVars, bNeeded, bVec, bIdx, bLoad, signalled, held,
                 clientAlive, aborted>>

\* onMemoryDestroy() skips a device that is already closed.
onMemoryDestroy == live' = IF fd' = "closed" THEN live ELSE {}

onClose ==
  /\ bpc = "close" /\ Return
  /\ fd' = "closed"
  /\ streaming' = FALSE /\ requested' = FALSE
  /\ queued' = [i \in Index |-> NULL]
  /\ onMemoryDestroy
  /\ UNCHANGED <<mRunMode, mStream, mStream_1_1, mEvsAppRecipient,
                 mFramesAllowed, mDecreasenum, mBufferMap, mCamBuffers,
                 useVars, capVars, bNeeded, bVec, bIdx, bLoad, signalled,
                 cliVars, aborted>>

-----------------------------------------------------------------------------
(* doneWithFrame(), doneWithFrame_1_1() and doneWithFrame_impl().  A camera *)
(* that is no longer open is logged and the frame is returned all the same. *)

doneWithFrame(i) ==
  /\ i \in held /\ ("late" \in Env \/ isOpen)
  /\ held' = held \ {i}
  /\ Call("done", "return")
  /\ bIdx' = i /\ bLoad' = mFramesInUse
  /\ UNCHANGED <<camVars, bufVars, useVars, drvVars, capVars, bNeeded,
                 bVec, signalled, ended, clientAlive, aborted>>

\* Mutant: a returned frame stays counted as in use.
ReturnUncounted ==
  /\ bpc = "return" /\ Return
  /\ onFrameReturn(bIdx)
  /\ UNCHANGED <<camVars, useVars, capVars, bNeeded, bVec, bIdx, bLoad,
                 cliVars>>

ReturnFrame ==
  /\ bpc = "return" /\ Return
  /\ Store(bLoad, Decr(bLoad))
  /\ onFrameReturn(bIdx)
  /\ UNCHANGED <<camVars, capVars, bNeeded, bVec, bIdx, bLoad, cliVars>>

-----------------------------------------------------------------------------
(* The capture thread: collectFrames(), onFrameCollect(), forwardFrame() *)

ReadRunMode ==
  /\ cpc = "readRunMode"
  /\ cpc' = IF mRunMode = {"RUN"} THEN "dequeue" ELSE "exited"
  /\ UNCHANGED <<camVars, bufVars, useVars, drvVars, cIdx, cMem, cLoad,
                 binVars, signalled, cliVars, aborted>>

\* VIDIOC_DQBUF blocks until the driver has filled one of its buffers ...
DequeueFrame ==
  /\ cpc = "dequeue" /\ cpc' = "lookUp"
  /\ streaming
  /\ \E i \in Index : /\ queued[i] # NULL
                      /\ cIdx' = i
                      /\ queued' = [queued EXCEPT ![i] = NULL]
  /\ UNCHANGED <<camVars, bufVars, useVars, requested, streaming, cMem,
                 cLoad, binVars, signalled, cliVars, aborted>>

\* ... and fails once the stream is off.
DequeueFails ==
  /\ cpc = "dequeue" /\ cpc' = "readRunMode"
  /\ ~streaming
  /\ UNCHANGED <<camVars, bufVars, useVars, drvVars, cIdx, cMem, cLoad,
                 binVars, signalled, cliVars, aborted>>

LookUpFrame ==
  /\ cpc = "lookUp" /\ cpc' = "forward"
  /\ aborted' = ~CanLookUp(cIdx)
  /\ cMem' = IF CanLookUp(cIdx) THEN BackedBy(cIdx) ELSE NULL
  /\ UNCHANGED <<camVars, bufVars, useVars, drvVars, cIdx, cLoad, binVars,
                 signalled, cliVars>>

\* A skipped frame is not given back to the driver.
SkipFrame ==
  /\ cpc = "forward" /\ cpc' = "readRunMode"
  /\ mFramesInUse > mFramesAllowed
  /\ UNCHANGED <<camVars, bufVars, useVars, drvVars, cIdx, cMem, cLoad,
                 binVars, signalled, cliVars, aborted>>

ForwardFrame ==
  /\ cpc = "forward" /\ cpc' = "deliver"
  /\ mFramesInUse <= mFramesAllowed
  /\ aborted' = (cMem = NULL)
  /\ cLoad' = mFramesInUse
  /\ UNCHANGED <<camVars, bufVars, useVars, drvVars, cIdx, cMem, binVars,
                 signalled, cliVars>>

DeliverFrame ==
  /\ cpc = "deliver" /\ cpc' = "readRunMode"
  /\ clientAlive
  /\ Store(cLoad, Incr(cLoad))
  /\ held' = held \union {cIdx}
  /\ UNCHANGED <<camVars, bufVars, drvVars, cIdx, cMem, cLoad, binVars,
                 signalled, ended, clientAlive, aborted>>

\* A call to a dead client fails; the frame stays counted as in use.
DeliveryFails ==
  /\ cpc = "deliver" /\ cpc' = "returnUndelivered"
  /\ ~clientAlive
  /\ Store(cLoad, Incr(cLoad))
  /\ UNCHANGED <<camVars, bufVars, drvVars, cIdx, cMem, cLoad, binVars,
                 signalled, cliVars, aborted>>

ReturnUndelivered ==
  /\ cpc = "returnUndelivered" /\ cpc' = "readRunMode"
  /\ onFrameReturn(cIdx)
  /\ UNCHANGED <<camVars, useVars, cIdx, cMem, cLoad, binVars, cliVars>>

ClientDies ==
  /\ "death" \in Env /\ clientAlive
  /\ clientAlive' = FALSE
  /\ UNCHANGED <<camVars, bufVars, useVars, drvVars, capVars, binVars,
                 signalled, held, ended, aborted>>

-----------------------------------------------------------------------------
Calls ==
  \/ \E n \in 1 .. MAX_BUFFERS_IN_FLIGHT : setMaxFramesInFlight(n)
  \/ \E stream \in {"1.0", "1.1"} : startVideoStream(stream)
  \/ stopVideoStream
  \/ shutdown
  \/ \E i \in Index : doneWithFrame(i)

BinderSteps ==
  \/ AwaitDecrease \/ DecreaseNotified
  \/ IncreaseMap \/ IncreasePublish \/ IncreaseDone
  \/ StreamOn \/ StreamOnFails \/ SpawnCapture
  \/ onStop \/ JoinCapture \/ EndStream \/ onClose
  \/ ReturnFrame

CaptureSteps ==
  \/ ReadRunMode \/ DequeueFrame \/ DequeueFails \/ LookUpFrame
  \/ SkipFrame \/ ForwardFrame \/ DeliverFrame \/ DeliveryFails
  \/ ReturnUndelivered

Next == ~aborted /\ (Calls \/ BinderSteps \/ CaptureSteps
                           \/ SpuriousWakeup \/ ClientDies)

Spec == Init /\ [][Next]_vars

\* Both threads are scheduled; the driver fills the buffers it has (a part of
\* DequeueFrame).  The client owes nothing.
Fairness == /\ WF_vars(~aborted /\ BinderSteps)
            /\ WF_vars(~aborted /\ CaptureSteps)
FairSpec == Spec /\ Fairness

-----------------------------------------------------------------------------
Streams == {"1.0", "1.1"}
BinderPC == {"idle", "increase", "publish", "toWait", "waiting", "streamOn",
             "spawn", "onStop", "join", "endStream", "close", "return"}
CapturePC == {"none", "readRunMode", "dequeue", "lookUp", "forward",
              "deliver", "returnUndelivered", "exited"}
Count == 0 .. UINT_MOD - 1

FlagsOK ==
  /\ mStream_1_1 \in BOOLEAN /\ mEvsAppRecipient \in BOOLEAN
  /\ requested \in BOOLEAN /\ streaming \in BOOLEAN
  /\ signalled \in BOOLEAN /\ ended \in BOOLEAN
  /\ clientAlive \in BOOLEAN /\ aborted \in BOOLEAN /\ raced \in BOOLEAN

DataOK ==
  /\ fd \in {"open", "closed", "none"}
  /\ mRunMode \in SUBSET {"RUN", "STOPPING"}
  /\ mStream \in Streams \union {NULL}
  /\ mFramesAllowed \in Count /\ mFramesInUse \in Count
  /\ mDecreasenum \in Count
  /\ mBufferMap \in [Index -> Count \union {-1}] \union [{} -> {-1}]
  /\ mCamBuffers \in Seq(Memory \union {NULL})
  /\ live \subseteq Memory
  /\ queued \in [Index -> Memory \union {NULL}]
  /\ cpc \in CapturePC /\ cIdx \in Index
  /\ cMem \in Memory \union {NULL} /\ cLoad \in Count
  /\ bpc \in BinderPC
  /\ bCall \in {"none", "setMax", "start", "stop", "shutdown", "done"}
  /\ bNeeded \in 0 .. MAX_BUFFERS_IN_FLIGHT
  /\ bVec \in Seq(Memory \union {NULL})
  /\ bIdx \in Index /\ bLoad \in Count
  /\ held \subseteq Index

\* The values every variable may take.
TypeOK == FlagsOK /\ DataOK

-----------------------------------------------------------------------------
(* Where every buffer is *)

WithDriver == {i \in Index : queued[i] # NULL}
Capturing == {i \in Index : i = cIdx /\ cpc \in {"lookUp", "forward", "deliver",
                                                 "returnUndelivered"}}
Returning == {i \in Index : i = bIdx /\ bpc = "return"}

\* Whatever the client, the enumerator and the driver do, no buffer is in two
\* places at once: in particular the driver never fills a frame that the client
\* still reads (V4l2Capture::onIncreaseMemoryBuffer, onFrameReturn, onFrameCollect).
ExclusiveCustody ==
  /\ held \intersect (WithDriver \union Capturing \union Returning) = {}
  /\ Capturing \intersect (WithDriver \union Returning) = {}
  /\ Returning \intersect WithDriver = {}

\* While the stream runs no buffer drops out of circulation: each one that was
\* mapped is with the driver, a thread of the camera or the client, because
\* EvsCamera::forwardFrame, which never gives a skipped frame back, finds none to
\* skip.  A lost update of mFramesInUse is the one thing that makes it skip a
\* frame of a client that lives; nothing repairs the count after that.
NothingLost ==
  requested /\ clientAlive /\ ~aborted /\ ~raced =>
    Mapped \subseteq WithDriver \union Capturing \union Returning \union held

\* The frame the driver fills is the memory that onFrameCollect will look up for
\* it: the two maps lead each queued index to the memory it was queued with, and
\* no two indices lead to the same (V4l2Capture::onIncreaseMemoryBuffer).
QueuedIsLookedUp ==
  streaming => \A i \in WithDriver :
    /\ CanLookUp(i) /\ BackedBy(i) = queued[i] /\ queued[i] \in live
    /\ \A j \in Mapped : BackedBy(j) = BackedBy(i) => j = i

\* mFramesInUse counts the frames that the client has and those being returned,
\* until an update is lost between a load and a store of the two threads
\* (EvsCamera::forwardFrame, doneWithFrame) or the client dies.
FramesInUseIsExact ==
  clientAlive /\ ~raced => mFramesInUse = Cardinality(held) + Cardinality(Returning)

\* No thread ends the process by an out-of-range lookup or a null frame.
NoAbort == ~aborted

\* When the stream has ended the capture thread is gone, so that no frame can
\* follow the end-of-stream marker (EvsCamera::stopVideoStream joins first).
EndedIsQuiet == ended => cpc = "none"

\* The assertion of V4l2Capture::onClose: "Stream should be stopped first!".
\* It is stated for a device that was opened.
StoppedBeforeClose ==
  bpc = "close" /\ fd = "open" => mRunMode = {} /\ cpc = "none" /\ ~streaming

-----------------------------------------------------------------------------
(* What makes ExclusiveCustody inductive: a buffer in circulation is mapped, *)
(* so the index that onIncreaseMemoryBuffer picks is nowhere, and it gets a  *)
(* slot because one more slot is searched than there are buffers mapped.     *)

Circulating == WithDriver \union Capturing \union Returning \union held

CountsAgree ==
  /\ mFramesAllowed <= MAX_BUFFERS_IN_FLIGHT
  /\ bpc \in {"increase", "publish"} =>
       mFramesAllowed + bNeeded <= MAX_BUFFERS_IN_FLIGHT
  /\ bpc = "publish" => bNeeded > 0
  /\ Cardinality(Mapped) = mFramesAllowed + (IF bpc = "publish" THEN 1 ELSE 0)
  /\ mDecreasenum > 0 => mDecreasenum < mFramesAllowed

CustodyInv ==
  /\ TypeOK
  /\ CountsAgree
  /\ ExclusiveCustody
  /\ Circulating \subseteq Mapped

-----------------------------------------------------------------------------
(* Refinement: the camera keeps the promises of FrameCustody *)

Owner(i) == IF i \in held THEN "client"
            ELSE IF i \in Capturing \union Returning THEN "hal"
            ELSE IF i \in WithDriver THEN "driver" ELSE "none"
Phase == IF cpc # "none" THEN "open" ELSE IF ended THEN "ended" ELSE "idle"

Custody == INSTANCE FrameCustody WITH
             Frame <- Index, owner <- [i \in Index |-> Owner(i)], phase <- Phase

\* Every behaviour of the camera is one of FrameCustody: one owner per frame,
\* lending only between the start and the end of the stream, a final end.
KeepsCustody == Custody!CustodySpec

-----------------------------------------------------------------------------
(* Liveness *)

\* Every call the client or the enumerator makes returns, the stop in particular,
\* which waits for the capture thread (EvsCamera::stopVideoStream).
CallsReturn == (bpc # "idle") ~> (bpc = "idle" \/ aborted)

\* A buffer that the driver has while it streams leads to a delivery: the stream
\* resumes as soon as the client gives a frame back (CameraStreamBuffering in
\* gtest/evs/VtsHalEvsV1_1TargetTest.cpp).  A count left too high by a lost update
\* or by frames that a dead client keeps may end deliveries for good.
StreamResumes ==
  (streaming /\ WithDriver # {}) ~>
    (cpc = "deliver" \/ ~streaming \/ raced \/ ~clientAlive)

=============================================================================
