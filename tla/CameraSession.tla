--------------------------- MODULE CameraSession ---------------------------
(***************************************************************************)
(* The session of the camera HAL: CameraDeviceSessionHWLImpl.cpp and the   *)
(* capture streams under it, VideoStream.cpp and MMAPStream.cpp, all of    *)
(* src/camera.                                                             *)
(*                                                                         *)
(* The framework configures pipelines, submits requests, and destroys the  *)
(* pipelines, one call at a time.  WorkThread takes the requests, restarts *)
(* the streams when a request asks for another configuration, captures     *)
(* buffers and feeds images to ImgProcThread, which answers the framework  *)
(* and gives the buffers back to the driver.  mLock guards the requests,   *)
(* mImageListLock the images (one step each), mV4l2Lock the streams.       *)
(***************************************************************************)
EXTENDS Integers, Sequences, FiniteSets

CONSTANTS
  Stream, Main,    \* pVideoStreams, and the first of them
  Buffer,          \* the buffers of one stream
  Config,          \* format, size, rate and scene mode a stream is started with
  OmitFrames,      \* mOmitFrmCount of each configuration
  Request,         \* what may be submitted, a sequence of elements each
  MAX_RECOVER_COUNT,
  MAX_FRAMES, MAX_PIPELINES,  \* bounds: requests submitted, pipelines configured
  MAX_STALLS, MAX_FAULTS,     \* bounds: times a driver stalls, or fails a call
  NULL

Frame == 1 .. MAX_FRAMES
Pipeline == 1 .. MAX_PIPELINES
Element == [pipeline : Pipeline, config : Config \union {NULL},
            streams : SUBSET Stream \ {{}}]

ASSUME BoundsAssumption ==
  {MAX_RECOVER_COUNT, MAX_FRAMES, MAX_PIPELINES, MAX_STALLS, MAX_FAULTS} \subseteq Nat
ASSUME StreamAssumption == Main \in Stream /\ OmitFrames \in [Config \union {NULL} -> Nat]
ASSUME RequestAssumption == Request \subseteq Seq(Element) \ {<<>>}
ASSUME NullAssumption == NULL \notin Config \union Stream

VARIABLES
  pipelines, made,     \* map_pipeline_info; pipelines ever configured
  pipelines_built_, is_logical_request_,
  dpc,                 \* DestroyPipelines: "idle", "wait", or "drain" with mLock held
  life,                \* the destructor: "open", "exitImg", "exitWork", "stop", "closed"
  vector, submitted,   \* the vector of FrameRequest of each frame; frames so far
  map_frame_request,   \* the frames not taken yet
  mInQueRequestIdx, mDeQueRequestIdx,
  reclaimed,           \* frames whose vector was deleted
  wpc,                 \* WorkThread, with
  frame, index,        \*   the request and the element it handles,
  todo,                \*   the streams still to configure, or to capture from,
  target, recover,     \*   the one it restarts, and whether to recover,
  captured,            \*   and the buffers of the image it makes
  mImageList, mLatestImageIdx, mProcdImageIdx,
  ipc, image,          \* ImgProcThread, and its image
  driver,              \* of each stream: the buffers the driver has
  mbStart, mapped,     \*   streaming; mBuffers filled in
  mDev,                \*   the device it has open, by the stream it was made for
  config,              \*   mFormat, mWidth, mHeight, mFps, mSceneMode
  fresh, mOmitFrames,  \*   mFrames is 0; frames still to omit
  mRecoverCount,
  stalls, faults,      \* counts against the bounds
  outcome,             \* history: what became of each element
  lost                 \* history: buffers dropped, or that the driver did not take back

pipes == <<pipelines, made, pipelines_built_, is_logical_request_>>
client == <<dpc, life>>
requests == <<vector, submitted, map_frame_request, mInQueRequestIdx>>
element == <<frame, index>>
work == <<wpc, element, todo, target, recover, captured>>
feeds == <<mImageList, mLatestImageIdx>>
img == <<mProcdImageIdx, ipc, image>>
flow == <<fresh, mOmitFrames, mRecoverCount>>
device == <<driver, mbStart, mapped, mDev, config, flow>>
stream == <<device, lost>>
budget == <<stalls, faults>>
vars == <<pipes, client, requests, mDeQueRequestIdx, reclaimed, work, feeds, img,
          stream, budget, outcome>>

NoImage == [frame |-> 0, index |-> 0, buffers |-> {}]

Init ==
  /\ pipelines = {} /\ made = 0 /\ pipelines_built_ = FALSE /\ is_logical_request_ = FALSE
  /\ dpc = "idle" /\ life = "open"
  /\ vector = [f \in Frame |-> <<>>] /\ submitted = 0 /\ map_frame_request = {}
  /\ mInQueRequestIdx = 0 /\ mDeQueRequestIdx = 0 /\ reclaimed = {}
  /\ wpc = "idle" /\ frame = 0 /\ index = 0
  /\ todo = {} /\ target = NULL /\ recover = FALSE /\ captured = {}
  /\ mImageList = <<>> /\ mLatestImageIdx = 0 /\ mProcdImageIdx = 0
  /\ ipc = "idle" /\ image = NoImage
  /\ driver = [s \in Stream |-> {}] /\ mbStart = [s \in Stream |-> FALSE]
  /\ mapped = [s \in Stream |-> FALSE] /\ mDev = [s \in Stream |-> s]
  /\ config = [s \in Stream |-> NULL] /\ fresh = [s \in Stream |-> TRUE]
  /\ mOmitFrames = [s \in Stream |-> 0] /\ mRecoverCount = [s \in Stream |-> 0]
  /\ stalls = 0 /\ faults = 0
  /\ outcome = [f \in Frame |-> <<>>] /\ lost = {}

-----------------------------------------------------------------------------
(* Calls of the framework *)

\* The framework makes one call at a time.
Free == dpc = "idle" /\ life = "open"

\* The last pipeline configured says whether requests are logical.
ConfigurePipeline ==
  /\ Free /\ ~pipelines_built_ /\ made < MAX_PIPELINES
  /\ made' = made + 1 /\ pipelines' = pipelines \union {made + 1}
  /\ is_logical_request_' \in BOOLEAN
  /\ UNCHANGED <<pipelines_built_, client, requests, mDeQueRequestIdx, reclaimed, work,
                 feeds, img, stream, budget, outcome>>

BuildPipelines ==
  /\ Free /\ ~pipelines_built_ /\ pipelines # {}
  /\ pipelines_built_' = TRUE
  /\ UNCHANGED <<pipelines, made, is_logical_request_, client, requests, mDeQueRequestIdx,
                 reclaimed, work, feeds, img, stream, budget, outcome>>

\* Frame numbers grow; the framework names pipelines that are built.
SubmitRequests(r) ==
  LET f == submitted + 1
  IN /\ Free /\ pipelines_built_ /\ f \in Frame
     /\ \A i \in DOMAIN r : r[i].pipeline \in pipelines
     /\ vector' = [vector EXCEPT ![f] = r] /\ submitted' = f
     /\ map_frame_request' = map_frame_request \union {f}
     /\ mInQueRequestIdx' = mInQueRequestIdx + 1
     /\ outcome' = [outcome EXCEPT ![f] = [i \in DOMAIN r |-> "submitted"]]
     /\ UNCHANGED <<pipes, client, mDeQueRequestIdx, reclaimed, work, feeds, img, stream, budget>>

DestroyPipelines ==
  /\ Free /\ pipelines_built_
  /\ dpc' = "wait"
  /\ UNCHANGED <<pipes, life, requests, mDeQueRequestIdx, reclaimed, work, feeds, img,
                 stream, budget, outcome>>

\* Mutant: looks for requests in the map, not for those being handled.
RequestsTaken ==
  /\ dpc = "wait" /\ map_frame_request = {}
  /\ dpc' = "drain"
  /\ UNCHANGED <<pipes, life, requests, mDeQueRequestIdx, reclaimed, work, feeds, img,
                 stream, budget, outcome>>

\* mLock is kept from here until the pipelines are gone.
RequestsHandled ==
  /\ dpc = "wait" /\ mDeQueRequestIdx = mInQueRequestIdx
  /\ dpc' = "drain"
  /\ UNCHANGED <<pipes, life, requests, mDeQueRequestIdx, reclaimed, work, feeds, img,
                 stream, budget, outcome>>

\* Mutant: looks at the list, and misses the image being processed.
ListDrained == mImageList = <<>>

ImagesDrained == mLatestImageIdx = mProcdImageIdx

\* Mutant: does not drain the images.
PipelinesFreedEarly ==
  /\ dpc = "drain"
  /\ dpc' = "idle" /\ pipelines' = {} /\ pipelines_built_' = FALSE
  /\ map_frame_request' = {} /\ reclaimed' = reclaimed \union map_frame_request
  /\ UNCHANGED <<made, is_logical_request_, life, vector, submitted, mInQueRequestIdx,
                 mDeQueRequestIdx, work, feeds, img, stream, budget, outcome>>

PipelinesFreed ==
  /\ dpc = "drain" /\ ImagesDrained
  /\ dpc' = "idle" /\ pipelines' = {} /\ pipelines_built_' = FALSE
  /\ map_frame_request' = {} /\ reclaimed' = reclaimed \union map_frame_request
  /\ UNCHANGED <<made, is_logical_request_, life, vector, submitted, mInQueRequestIdx,
                 mDeQueRequestIdx, work, feeds, img, stream, budget, outcome>>

\* The framework deletes a session whose pipelines it has destroyed.
DeleteSession ==
  /\ Free /\ ~pipelines_built_
  /\ life' = "exitImg"
  /\ UNCHANGED <<pipes, dpc, requests, mDeQueRequestIdx, reclaimed, work, feeds, img,
                 stream, budget, outcome>>

ImgProcThreadExits ==
  /\ life = "exitImg" /\ ipc = "idle"
  /\ life' = "exitWork" /\ ipc' = "exited"
  /\ UNCHANGED <<pipes, dpc, requests, mDeQueRequestIdx, reclaimed, work, feeds,
                 mProcdImageIdx, image, stream, budget, outcome>>

WorkThreadExits ==
  /\ life = "exitWork" /\ wpc = "idle"
  /\ life' = "stop" /\ wpc' = "exited"
  /\ UNCHANGED <<pipes, dpc, requests, mDeQueRequestIdx, reclaimed, element, todo, target,
                 recover, captured, feeds, img, stream, budget, outcome>>

StopStreams ==
  /\ life = "stop" /\ life' = "closed"
  /\ driver' = [s \in Stream |-> {}] /\ mbStart' = [s \in Stream |-> FALSE]
  /\ mapped' = [s \in Stream |-> FALSE] /\ mDev' = [s \in Stream |-> NULL]
  /\ config' = [s \in Stream |-> NULL]
  /\ UNCHANGED <<pipes, dpc, requests, mDeQueRequestIdx, reclaimed, work, feeds, img,
                 flow, lost, budget, outcome>>

-----------------------------------------------------------------------------
(* WorkThread: HandleRequest and HandleIntent *)

\* DestroyPipelines has mLock while it drains the images.
LockFree == dpc # "drain"

\* Mutant: the map is read from its end.
Newest == CHOOSE f \in map_frame_request : \A g \in map_frame_request : f >= g

Oldest == CHOOSE f \in map_frame_request : \A g \in map_frame_request : f <= g

TakeRequest ==
  /\ wpc = "idle" /\ LockFree /\ map_frame_request # {}
  /\ frame' = Oldest /\ index' = 1 /\ wpc' = "element"
  /\ map_frame_request' = map_frame_request \ {Oldest}
  /\ UNCHANGED <<pipes, client, vector, submitted, mInQueRequestIdx, mDeQueRequestIdx, reclaimed,
                 todo, target, recover, captured, feeds, img, stream, budget, outcome>>

Current == vector[frame][index]
Configured == IF is_logical_request_ THEN Stream ELSE {Main}
Captured == IF is_logical_request_ THEN Current.streams ELSE {Main}

\* An element of a pipeline that is gone is passed over.
HandleElement ==
  /\ wpc = "element" /\ index \in DOMAIN vector[frame]
  /\ IF Current.pipeline \notin pipelines
     THEN index' = index + 1 /\ UNCHANGED <<wpc, todo>>
     ELSE /\ UNCHANGED index
          /\ IF Current.config = NULL
             THEN wpc' = "capture" /\ todo' = Captured
             ELSE wpc' = "config" /\ todo' = Configured
  /\ UNCHANGED <<pipes, client, requests, mDeQueRequestIdx, reclaimed, frame, target, recover,
                 captured, feeds, img, stream, budget, outcome>>

\* Mutant: a request whose last capture failed is not counted.
RequestDoneIfFed ==
  /\ wpc = "element" /\ index \notin DOMAIN vector[frame] /\ LockFree
  /\ mDeQueRequestIdx' = IF outcome[frame][index - 1] = "dropped" THEN mDeQueRequestIdx
                         ELSE mDeQueRequestIdx + 1
  /\ wpc' = "idle"
  /\ UNCHANGED <<pipes, client, requests, reclaimed, element, todo, target, recover, captured,
                 feeds, img, stream, budget, outcome>>

RequestDone ==
  /\ wpc = "element" /\ index \notin DOMAIN vector[frame] /\ LockFree
  /\ mDeQueRequestIdx' = mDeQueRequestIdx + 1
  /\ wpc' = "idle"
  /\ UNCHANGED <<pipes, client, requests, reclaimed, element, todo, target, recover, captured,
                 feeds, img, stream, budget, outcome>>

\* A stream already so configured is not restarted.
ConfigAndStart(s) ==
  /\ wpc = "config" /\ s \in todo
  /\ IF config[s] = Current.config
     THEN todo' = todo \ {s} /\ UNCHANGED <<wpc, target, recover>>
     ELSE wpc' = "drain" /\ target' = s /\ recover' = FALSE /\ UNCHANGED todo
  /\ UNCHANGED <<pipes, client, requests, mDeQueRequestIdx, reclaimed, element, captured,
                 feeds, img, stream, budget, outcome>>

IntentHandled ==
  /\ wpc = "config" /\ todo = {}
  /\ wpc' = "capture" /\ todo' = Captured
  /\ UNCHANGED <<pipes, client, requests, mDeQueRequestIdx, reclaimed, element, target, recover,
                 captured, feeds, img, stream, budget, outcome>>

\* mV4l2Lock is taken when the images are drained, and kept for the restart.
drainImages ==
  /\ wpc = "drain" /\ ImagesDrained
  /\ wpc' = "restart"
  /\ UNCHANGED <<pipes, client, requests, mDeQueRequestIdx, reclaimed, element, todo, target,
                 recover, captured, feeds, img, stream, budget, outcome>>

\* Mutant: mV4l2Lock is taken before the images are drained.
V4l2LockFreeLate == wpc \notin {"drain", "restart"}

V4l2LockFree == wpc # "restart"

Asked == IF recover THEN config[target] ELSE Current.config

\* An element without a buffer is fed all the same; that of a logical request is
\* dropped.  The buffers captured for it are forgotten, and bs with them.
NoFrame(bs) ==
  /\ captured' = {} /\ todo' = {} /\ target' = NULL
  /\ lost' = lost \union captured \union bs
  /\ IF is_logical_request_
     THEN /\ wpc' = "element" /\ index' = index + 1
          /\ outcome' = [outcome EXCEPT ![frame][index] = "dropped"]
     ELSE wpc' = "feed" /\ UNCHANGED <<index, outcome>>

\* HandleIntent goes on to the next stream, onFrameAcquire captures again or gives
\* up.  A stream that has started has all of its buffers anew.
Restarted(ok) ==
  LET renewed == IF ok THEN lost \ ({target} \X Buffer) ELSE lost
  IN /\ recover' = FALSE
     /\ \/ /\ ~recover
           /\ wpc' = "config" /\ todo' = todo \ {target} /\ target' = NULL
           /\ lost' = renewed
           /\ UNCHANGED <<index, captured, outcome>>
        \/ /\ recover /\ ok
           /\ wpc' = "capture"
           /\ lost' = renewed
           /\ UNCHANGED <<index, todo, target, captured, outcome>>
        \/ recover /\ ~ok /\ NoFrame({})

SetStream(var, value) == [var EXCEPT ![target] = value]

\* A stream that recovers is closed once it has stopped, and whatever stream it is
\* the first device is opened for it.
Reopens == recover /\ mbStart[target]
Device == IF Reopens THEN Main ELSE mDev[target]

\* The driver configures no device whose buffers another descriptor owns.
DeviceBusy == \E s \in Stream \ {target} : mbStart[s] /\ mDev[s] = Device

Restart ==
  /\ wpc = "restart" /\ Device # NULL /\ ~DeviceBusy
  /\ driver' = SetStream(driver, Buffer) /\ mbStart' = SetStream(mbStart, TRUE)
  /\ mapped' = SetStream(mapped, TRUE) /\ config' = SetStream(config, Asked)
  /\ mDev' = SetStream(mDev, Device)
  /\ fresh' = SetStream(fresh, TRUE) /\ mOmitFrames' = SetStream(mOmitFrames, OmitFrames[Asked])
  /\ Restarted(TRUE)
  /\ UNCHANGED <<pipes, client, requests, mDeQueRequestIdx, reclaimed, frame, feeds, img,
                 mRecoverCount, budget>>

\* A call that fails leaves the stream as the steps before it made it: a
\* device is reopened only after a stop, mSceneMode saved only after a start.
StopFails ==
  /\ mbStart[target] /\ driver' \in {driver, SetStream(driver, {})}
  /\ mapped' = SetStream(mapped, FALSE)
  /\ UNCHANGED <<mbStart, mDev, config, flow>>
Stopped ==
  /\ driver' = SetStream(driver, {}) /\ mbStart' = SetStream(mbStart, FALSE)
  /\ mapped' = SetStream(mapped, FALSE)
OpenFails ==
  /\ Reopens /\ Stopped
  /\ mDev' = SetStream(mDev, NULL)
  /\ UNCHANGED <<config, flow>>
ConfigureFails ==
  /\ Stopped /\ mDev' = SetStream(mDev, Device)
  /\ UNCHANGED <<config, flow>>
StartFails ==
  /\ Stopped /\ mDev' = SetStream(mDev, Device)
  /\ config' \in {SetStream(config, Asked), SetStream(config, NULL)}
  /\ fresh' = SetStream(fresh, TRUE)
  /\ UNCHANGED <<mOmitFrames, mRecoverCount>>

Fault == faults < MAX_FAULTS /\ faults' = faults + 1

RestartFails ==
  /\ wpc = "restart"
  /\ \/ Device # NULL /\ Fault /\ (StopFails \/ OpenFails \/ ConfigureFails \/ StartFails)
     \/ Device # NULL /\ DeviceBusy /\ UNCHANGED faults /\ (ConfigureFails \/ StartFails)
     \/ Device = NULL /\ UNCHANGED <<faults, device>>
  /\ Restarted(FALSE)
  /\ UNCHANGED <<pipes, client, requests, mDeQueRequestIdx, reclaimed, frame, feeds, img,
                 stalls>>

-----------------------------------------------------------------------------
(* WorkThread: onFrameAcquire and CapAndFeed *)

\* After a recovery the same stream is tried again.
Tried == IF target = NULL THEN todo ELSE {target}

Omits(s) == mOmitFrames[s] > 0

\* An omitted frame goes back to the driver, which may refuse it; one without a
\* mapping is lost.
FrameAcquired(s, b) ==
  /\ wpc = "capture" /\ s \in Tried /\ mDev[s] # NULL /\ b \in driver[s]
  /\ fresh' = [fresh EXCEPT ![s] = FALSE]
  /\ mRecoverCount' = IF fresh[s] THEN [mRecoverCount EXCEPT ![s] = 0] ELSE mRecoverCount
  /\ \/ /\ Omits(s)
        /\ mOmitFrames' = [mOmitFrames EXCEPT ![s] = @ - 1]
        /\ target' = s
        /\ UNCHANGED <<driver, wpc, index, todo, captured, outcome, lost, faults>>
     \/ /\ Omits(s) /\ Fault
        /\ driver' = [driver EXCEPT ![s] = @ \ {b}]
        /\ NoFrame({<<s, b>>})
        /\ UNCHANGED mOmitFrames
     \/ /\ ~Omits(s)
        /\ driver' = [driver EXCEPT ![s] = @ \ {b}]
        /\ IF mapped[s]
           THEN /\ captured' = captured \union {<<s, b>>}
                /\ todo' = todo \ {s} /\ target' = NULL
                /\ wpc' = IF todo = {s} THEN "feed" ELSE "capture"
                /\ UNCHANGED <<index, outcome, lost>>
           ELSE NoFrame({<<s, b>>})
        /\ UNCHANGED <<mOmitFrames, faults>>
  /\ UNCHANGED <<pipes, client, requests, mDeQueRequestIdx, reclaimed, frame, recover, feeds, img,
                 mbStart, mapped, mDev, config, stalls>>

\* select() times out: the driver stalls, or has no buffer to fill.
FrameTimesOut(s) ==
  /\ wpc = "capture" /\ s \in Tried /\ mDev[s] # NULL
  /\ IF driver[s] = {} THEN UNCHANGED stalls ELSE stalls < MAX_STALLS /\ stalls' = stalls + 1
  /\ mRecoverCount' = [mRecoverCount EXCEPT ![s] = @ + 1]
  /\ IF mRecoverCount[s] >= MAX_RECOVER_COUNT
     THEN NoFrame({}) /\ UNCHANGED recover
     ELSE /\ wpc' = "drain" /\ target' = s /\ recover' = TRUE
          /\ UNCHANGED <<index, todo, captured, outcome, lost>>
  /\ UNCHANGED <<pipes, client, requests, mDeQueRequestIdx, reclaimed, frame, feeds, img, driver,
                 mbStart, mapped, mDev, config, fresh, mOmitFrames, faults>>

\* The device is closed, is not streaming, or fails VIDIOC_DQBUF.
AcquireFails(s) ==
  /\ wpc = "capture" /\ s \in Tried
  /\ IF mDev[s] # NULL /\ mbStart[s] THEN Fault ELSE UNCHANGED faults
  /\ NoFrame({})
  /\ UNCHANGED <<pipes, client, requests, mDeQueRequestIdx, reclaimed, frame, recover, feeds, img,
                 device, stalls>>

feed ==
  /\ wpc = "feed"
  /\ mImageList' = Append(mImageList, [frame |-> frame, index |-> index, buffers |-> captured])
  /\ mLatestImageIdx' = mLatestImageIdx + 1
  /\ outcome' = [outcome EXCEPT ![frame][index] = IF captured = {} THEN "fedNull" ELSE "fed"]
  /\ wpc' = "element" /\ index' = index + 1 /\ captured' = {}
  /\ UNCHANGED <<pipes, client, requests, mDeQueRequestIdx, reclaimed, frame, todo, target,
                 recover, img, stream, budget>>

-----------------------------------------------------------------------------
(* ImgProcThread: HandleImage *)

PipelineOf(i) == vector[i.frame][i.index].pipeline

TakeImage ==
  /\ ipc = "idle" /\ mImageList # <<>>
  /\ mImageList' = Tail(mImageList)
  /\ LET i == Head(mImageList)
     IN IF PipelineOf(i) \notin pipelines
        THEN UNCHANGED <<ipc, image>>
        ELSE /\ image' = i
             /\ ipc' = IF i.buffers = {} /\ ~is_logical_request_ THEN "countError" ELSE "process"
  /\ UNCHANGED <<pipes, client, requests, mDeQueRequestIdx, reclaimed, work, mLatestImageIdx,
                 mProcdImageIdx, stream, budget, outcome>>

Count(from, to) ==
  /\ ipc = from /\ ipc' = to
  /\ mProcdImageIdx' = mProcdImageIdx + 1
  /\ UNCHANGED <<pipes, client, requests, mDeQueRequestIdx, reclaimed, work, feeds, image,
                 stream, budget, outcome>>

\* The image of an error is counted before the framework is told.
CountError == Count("countError", "notifyError")
CountResult == Count("count", "release")

Answer(o) == [outcome EXCEPT ![image.frame][image.index] = o]

\* The callback is read from the pipeline, which may have been freed.
NotifyError ==
  /\ ipc = "notifyError" /\ ipc' = "release"
  /\ outcome' \in IF PipelineOf(image) \in pipelines THEN {Answer("error")}
                  ELSE {Answer("error"), Answer("lost")}
  /\ UNCHANGED <<pipes, client, requests, mDeQueRequestIdx, reclaimed, work, feeds,
                 mProcdImageIdx, image, stream, budget>>

\* The driver takes the buffer, or fails the call, and nobody keeps the buffer then.
Requeue(s, b) ==
  \/ /\ mbStart[s] /\ driver' = [driver EXCEPT ![s] = @ \union {b}]
     /\ UNCHANGED <<lost, faults>>
  \/ /\ IF mbStart[s] THEN Fault ELSE UNCHANGED faults
     /\ lost' = lost \union {<<s, b>>} /\ UNCHANGED driver

\* The image is processed to the output buffers before its buffers are queued.
onFrameReturn(s, b) ==
  /\ ipc = "process" /\ <<s, b>> \in image.buffers /\ V4l2LockFree
  /\ image' = [image EXCEPT !.buffers = @ \ {<<s, b>>}]
  /\ Requeue(s, b)
  /\ UNCHANGED <<pipes, client, requests, mDeQueRequestIdx, reclaimed, work, feeds,
                 mProcdImageIdx, ipc, mbStart, mapped, mDev, config, flow, stalls, outcome>>

SendResult ==
  /\ ipc = "process" /\ image.buffers = {} /\ ipc' = "count"
  /\ outcome' = Answer("result")
  /\ UNCHANGED <<pipes, client, requests, mDeQueRequestIdx, reclaimed, work, feeds,
                 mProcdImageIdx, image, stream, budget>>

\* Mutant: the vector goes with its first element.
releaseWithFirst ==
  /\ ipc = "release" /\ ipc' = "idle" /\ image' = NoImage
  /\ reclaimed' = IF image.index = 1 THEN reclaimed \union {image.frame} ELSE reclaimed
  /\ UNCHANGED <<pipes, client, requests, mDeQueRequestIdx, work, feeds, mProcdImageIdx,
                 stream, budget, outcome>>

\* The vector goes with its last element.
releaseImgFeed ==
  /\ ipc = "release" /\ ipc' = "idle" /\ image' = NoImage
  /\ reclaimed' = IF image.index = Len(vector[image.frame])
                  THEN reclaimed \union {image.frame} ELSE reclaimed
  /\ UNCHANGED <<pipes, client, requests, mDeQueRequestIdx, work, feeds, mProcdImageIdx,
                 stream, budget, outcome>>

-----------------------------------------------------------------------------
Call == ConfigurePipeline \/ BuildPipelines \/ (\E r \in Request : SubmitRequests(r))
        \/ DestroyPipelines \/ DeleteSession

Destroy == RequestsHandled \/ PipelinesFreed
Delete == ImgProcThreadExits \/ WorkThreadExits \/ StopStreams

Capture(s) == (\E b \in Buffer : FrameAcquired(s, b)) \/ FrameTimesOut(s) \/ AcquireFails(s)

WorkThread ==
  \/ TakeRequest \/ HandleElement \/ RequestDone \/ IntentHandled \/ drainImages
  \/ Restart \/ RestartFails \/ feed
  \/ \E s \in Stream : ConfigAndStart(s) \/ Capture(s)

ImgProcThread ==
  \/ TakeImage \/ CountError \/ NotifyError \/ SendResult \/ CountResult \/ releaseImgFeed
  \/ \E s \in Stream, b \in Buffer : onFrameReturn(s, b)

Next == Call \/ Destroy \/ Delete \/ WorkThread \/ ImgProcThread

\* Both threads run; the calls that wait are woken by usleep() or by the end of a thread.
Fairness ==
  /\ WF_vars(WorkThread) /\ WF_vars(ImgProcThread)
  /\ WF_vars(Destroy) /\ WF_vars(Delete)

Spec == Init /\ [][Next]_vars /\ Fairness

-----------------------------------------------------------------------------
(* Properties *)

Handling == wpc \notin {"idle", "exited"} /\ index \in DOMAIN vector[frame]
Images == {mImageList[i] : i \in DOMAIN mImageList}
Outcome == {"submitted", "fed", "fedNull", "result", "error", "lost", "dropped"}
Closed == {"result", "error", "lost", "dropped"}

BufferId == Stream \X Buffer
Image == [frame : Frame, index : Nat, buffers : SUBSET BufferId]

TypeOK ==
  /\ pipelines \subseteq 1 .. made /\ made \in 0 .. MAX_PIPELINES
  /\ pipelines_built_ \in BOOLEAN /\ is_logical_request_ \in BOOLEAN
  /\ dpc \in {"idle", "wait", "drain"}
  /\ life \in {"open", "exitImg", "exitWork", "stop", "closed"}
  /\ vector \in [Frame -> Request \union {<<>>}] /\ submitted \in 0 .. MAX_FRAMES
  /\ map_frame_request \subseteq 1 .. submitted /\ reclaimed \subseteq Frame
  /\ mInQueRequestIdx \in Nat /\ mDeQueRequestIdx \in Nat
  /\ wpc \in {"idle", "element", "config", "drain", "restart", "capture", "feed", "exited"}
  /\ frame \in 0 .. submitted /\ index \in Nat
  /\ todo \subseteq Stream /\ target \in Stream \union {NULL} /\ recover \in BOOLEAN
  /\ captured \subseteq BufferId
  /\ mImageList \in Seq(Image) /\ mLatestImageIdx \in Nat /\ mProcdImageIdx \in Nat
  /\ ipc \in {"idle", "countError", "notifyError", "process", "count", "release", "exited"}
  /\ image \in Image \union {NoImage}
  /\ driver \in [Stream -> SUBSET Buffer]
  /\ {mbStart, mapped, fresh} \subseteq [Stream -> BOOLEAN]
  /\ mDev \in [Stream -> Stream \union {NULL}]
  /\ config \in [Stream -> Config \union {NULL}]
  /\ {mOmitFrames, mRecoverCount} \subseteq [Stream -> Nat]
  /\ stalls \in 0 .. MAX_STALLS /\ faults \in 0 .. MAX_FAULTS
  /\ outcome \in [Frame -> Seq(Outcome)]
  /\ lost \subseteq BufferId

\* GetPipelineInfo never finds a pipeline gone (HandleRequest and HandleImage
\* call that "Unexpected"), and none is freed while an image is processed.
PipelineOutlivesUse ==
  /\ Handling => Current.pipeline \in pipelines
  /\ \A i \in Images : PipelineOf(i) \in pipelines
  /\ ipc \in {"countError", "process"} => PipelineOf(image) \in pipelines

Listed == UNION {i.buffers : i \in Images}

\* A V4L2 buffer is with the driver, with the capturing thread, in one image
\* of the list, or being processed: never in two places, as it would be if a
\* restart did not wait for the images of the configuration before.
BufferHasOnePlace ==
  /\ \A s \in Stream, b \in Buffer :
       b \in driver[s] => <<s, b>> \notin captured \union image.buffers \union Listed
  /\ captured \intersect (image.buffers \union Listed) = {}
  /\ image.buffers \intersect Listed = {}
  /\ \A i, j \in DOMAIN mImageList :
       i # j => mImageList[i].buffers \intersect mImageList[j].buffers = {}

\* A buffer of a stream that runs is in one of these places or was lost for a
\* reason: its element was dropped (CapAndFeed), or the driver refused it when it
\* was given back (VideoStream::onFrameAcquire, MMAPStream::onFrameReturn).
BuffersComeBack ==
  \A s \in Stream : mapped[s] => \A b \in Buffer :
    b \in driver[s] \/ <<s, b>> \in captured \union image.buffers \union Listed \union lost

\* A lost buffer is nowhere: no restart and no image brings it back by mistake.
LostIsGone ==
  \A s \in Stream, b \in Buffer :
    <<s, b>> \in lost =>
      b \notin driver[s] /\ <<s, b>> \notin captured \union image.buffers \union Listed

\* The buffers of a stream are accounted for across restarts of it, on whatever
\* device: none is in two places, none disappears but those known to be lost.
BuffersAreKept == BufferHasOnePlace /\ BuffersComeBack /\ LostIsGone

\* The vector of a request is deleted with its last element, when neither
\* thread needs it, and is not forgotten unless that element was dropped.
RequestsAreFreedOnce ==
  /\ map_frame_request \intersect reclaimed = {}
  /\ Handling => frame \notin reclaimed
  /\ \A i \in Images : i.frame \notin reclaimed
  /\ image # NoImage => image.frame \notin reclaimed
  /\ \A f \in 1 .. submitted \ reclaimed :
       \/ f \in map_frame_request
       \/ Handling /\ frame = f
       \/ \E i \in Images \union {image} : i.frame = f /\ i.index = Len(vector[f])
       \/ outcome[f][Len(outcome[f])] = "dropped"

\* When DestroyPipelines has returned nothing is left to answer, but for an
\* error that ImgProcThread has counted and not yet told.
DestroyWaitsForAnswers ==
  ~pipelines_built_ =>
    \A f \in Frame : \A i \in DOMAIN outcome[f] :
      \/ outcome[f][i] \in Closed
      \/ ipc = "notifyError" /\ image.frame = f /\ image.index = i

\* The framework is answered once for each element, in the order submitted.
AnsweredInOrder ==
  [][\A f \in Frame : \A i \in DOMAIN outcome[f] :
       outcome[f][i] # outcome'[f][i] /\ outcome'[f][i] \in {"result", "error"} =>
         /\ outcome[f][i] \notin Closed
         /\ \A g \in 1 .. f : \A j \in DOMAIN outcome[g] :
              g < f \/ j < i => outcome[g][j] \in Closed]_vars

\* Every element submitted comes to its answer, whatever the drivers do.
EveryRequestIsAnswered ==
  \A f \in Frame :
    submitted = f ~> \A i \in DOMAIN outcome[f] : outcome[f][i] \in Closed

\* DestroyPipelines, and the destructor, return.
CallsReturn ==
  /\ dpc = "wait" ~> dpc = "idle"
  /\ life = "exitImg" ~> life = "closed"
=============================================================================
