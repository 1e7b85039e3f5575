------------------------ MODULE CameraSessionProofs ------------------------
(***************************************************************************)
(* Proofs about the camera session, for any streams, buffers, requests and *)
(* bounds: the counters tell DestroyPipelines and drainImages the truth,   *)
(* so no pipeline and no request is freed under a thread that uses it.     *)
(***************************************************************************)
EXTENDS CameraSession, SequenceTheorems, TLAPS

Busy == wpc \notin {"idle", "exited"}
Inside == {"config", "drain", "restart", "capture", "feed"}
Uncounted == ipc \in {"countError", "process", "count"}
One(b) == IF b THEN 1 ELSE 0

ThreadsTyped ==
  /\ pipelines \subseteq 1 .. made /\ made \in 0 .. MAX_PIPELINES
  /\ pipelines_built_ \in BOOLEAN /\ is_logical_request_ \in BOOLEAN
  /\ dpc \in {"idle", "wait", "drain"}
  /\ life \in {"open", "exitImg", "exitWork", "stop", "closed"}
  /\ submitted \in 0 .. MAX_FRAMES /\ map_frame_request \subseteq 1 .. submitted
  /\ mInQueRequestIdx \in Nat /\ mDeQueRequestIdx \in Nat
  /\ wpc \in Inside \union {"idle", "element", "exited"}
  /\ frame \in 0 .. submitted /\ index \in Nat
  /\ mLatestImageIdx \in Nat /\ mProcdImageIdx \in Nat
  /\ ipc \in {"idle", "countError", "notifyError", "process", "count", "release", "exited"}

DataTyped ==
  /\ vector \in [Frame -> Request \union {<<>>}] /\ reclaimed \subseteq Frame
  /\ mImageList \in Seq(Image) /\ image \in Image \union {NoImage}
  /\ outcome \in [Frame -> Seq(Outcome)]
  /\ \A f \in Frame : DOMAIN outcome[f] = DOMAIN vector[f]

StreamsTyped ==
  /\ todo \subseteq Stream /\ target \in Stream \union {NULL} /\ recover \in BOOLEAN
  /\ wpc \in {"drain", "restart"} => target \in Stream
  /\ captured \subseteq BufferId
  /\ driver \in [Stream -> SUBSET Buffer]
  /\ mbStart \in [Stream -> BOOLEAN] /\ mapped \in [Stream -> BOOLEAN]
  /\ mDev \in [Stream -> Stream \union {NULL}] /\ fresh \in [Stream -> BOOLEAN]
  /\ config \in [Stream -> Config \union {NULL}]
  /\ mOmitFrames \in [Stream -> Nat] /\ mRecoverCount \in [Stream -> Nat]
  /\ stalls \in 0 .. MAX_STALLS /\ faults \in 0 .. MAX_FAULTS
  /\ lost \subseteq BufferId

\* The requests not taken are the last ones; an image is in the list, or it
\* is the one ImgProcThread has not counted yet, or it is counted.
CountsAgree ==
  /\ mInQueRequestIdx = submitted
  /\ map_frame_request = mDeQueRequestIdx + One(Busy) + 1 .. submitted
  /\ mDeQueRequestIdx + One(Busy) <= submitted
  /\ Busy => frame = mDeQueRequestIdx + 1
  /\ mLatestImageIdx = mProcdImageIdx + Len(mImageList) + One(Uncounted)

\* What the framework's calls find: no work without pipelines.
CallsOK ==
  /\ dpc # "idle" => life = "open" /\ pipelines_built_
  /\ wpc = "exited" <=> life \in {"stop", "closed"}
  /\ ipc = "exited" <=> life \in {"exitWork", "stop", "closed"}
  /\ dpc = "drain" => mDeQueRequestIdx = mInQueRequestIdx
  /\ life # "open" => ~pipelines_built_
  /\ ~pipelines_built_ => map_frame_request = {} /\ ~Busy /\ mImageList = <<>> /\ ~Uncounted

HasPipelines(f) == \A i \in DOMAIN vector[f] : vector[f][i].pipeline \in pipelines
OfRequest(i) == i.frame \in 1 .. submitted /\ i.index \in DOMAIN vector[i.frame]

\* Each thread holds elements of requests, and their pipelines are there.
WorkOK ==
  /\ \A f \in Frame : vector[f] \in IF f <= submitted THEN Request ELSE {<<>>}
  /\ \A f \in map_frame_request : HasPipelines(f)
  /\ Busy => HasPipelines(frame) /\ index \in 1 .. Len(vector[frame]) + 1
  /\ wpc \in Inside => index \in DOMAIN vector[frame]
  /\ \A k \in DOMAIN mImageList :
       OfRequest(mImageList[k]) /\ PipelineOf(mImageList[k]) \in pipelines
  /\ IF ipc \in {"idle", "exited"} THEN image = NoImage ELSE OfRequest(image)
  /\ Uncounted => PipelineOf(image) \in pipelines

Core == ThreadsTyped /\ DataTyped /\ StreamsTyped /\ CountsAgree /\ CallsOK /\ WorkOK

-----------------------------------------------------------------------------
(* The steps of WorkThread inside a request *)

WorkMoves ==
  /\ wpc \in Inside \/ (wpc = "element" /\ index \in DOMAIN vector[frame])
  /\ wpc' \in Inside
  /\ UNCHANGED <<pipes, client, requests, mDeQueRequestIdx, reclaimed, element, feeds, img,
                 outcome>>

WorkDrops ==
  /\ wpc \in Inside /\ wpc' = "element" /\ index' = index + 1
  /\ outcome' = [outcome EXCEPT ![frame][index] = "dropped"]
  /\ UNCHANGED <<pipes, client, requests, mDeQueRequestIdx, reclaimed, frame, feeds, img>>

\* The element of a request being handled, its pipeline there.
LEMMA CurrentIsThere ==
  ASSUME Core, Busy, index \in DOMAIN vector[frame]
  PROVE  frame \in Frame /\ Current \in Element /\ Current.pipeline \in pipelines
<1>1. frame \in Frame /\ frame <= submitted
  BY BoundsAssumption DEF Core, ThreadsTyped, CountsAgree, Frame, One
<1>2. vector[frame] \in Seq(Element)
  BY <1>1, RequestAssumption DEF Core, WorkOK
<1>3. Current \in Element
  BY <1>2, ElementOfSeq DEF Current
<1>. QED  BY <1>1, <1>3 DEF Core, WorkOK, HasPipelines, Current

LEMMA CapturedIsTyped ==
  ASSUME Core, wpc \in Inside \/ (wpc = "element" /\ index \in DOMAIN vector[frame])
  PROVE  Captured \subseteq Stream /\ Current.config \in Config \union {NULL}
<1>1. Busy /\ index \in DOMAIN vector[frame]
  BY DEF Core, WorkOK, Busy, Inside
<1>. QED  BY <1>1, CurrentIsThere, StreamAssumption DEF Captured, Element

LEMMA WorkSteps ==
  ASSUME Core, WorkThread
  PROVE  TakeRequest \/ WorkMoves \/ WorkDrops \/ RequestDone \/ feed
<1> USE DEF Inside, WorkMoves, WorkDrops, pipes, client, requests, element, feeds, img,
            Restarted, NoFrame
<1>1. HandleElement => WorkMoves
  BY CurrentIsThere DEF HandleElement, Busy
<1>2. IntentHandled \/ drainImages => WorkMoves
  BY DEF IntentHandled, drainImages
<1>3. Restart \/ RestartFails => WorkMoves \/ WorkDrops
  BY DEF Restart, RestartFails
<1>4. ASSUME NEW s \in Stream, ConfigAndStart(s)
      PROVE  WorkMoves
  BY <1>4 DEF ConfigAndStart
<1>5. ASSUME NEW s \in Stream, Capture(s)
      PROVE  WorkMoves \/ WorkDrops
  BY <1>5 DEF Capture, FrameAcquired, FrameTimesOut, AcquireFails
<1>. QED  BY <1>1, <1>2, <1>3, <1>4, <1>5 DEF WorkThread


-----------------------------------------------------------------------------
(* The counters, the calls and the threads' work *)

LEMMA OldestIsNext ==
  ASSUME Core, wpc = "idle", map_frame_request # {}
  PROVE  Oldest \in map_frame_request /\ Oldest = mDeQueRequestIdx + 1
<1>1. map_frame_request = mDeQueRequestIdx + 1 .. submitted
  BY DEF Core, ThreadsTyped, CountsAgree, One, Busy
<1>2. /\ mDeQueRequestIdx + 1 \in map_frame_request
      /\ \A g \in map_frame_request : mDeQueRequestIdx + 1 <= g
  BY <1>1 DEF Core, ThreadsTyped
<1>3. \A f \in map_frame_request :
        (\A g \in map_frame_request : f <= g) => f = mDeQueRequestIdx + 1
  BY <1>1, <1>2 DEF Core, ThreadsTyped
<1>. QED  BY <1>2, <1>3 DEF Oldest

LEMMA VectorsAreSeqs ==
  ASSUME Core, NEW f \in Frame
  PROVE  /\ vector[f] \in Seq(Element) /\ Len(vector[f]) \in Nat
         /\ DOMAIN vector[f] = 1 .. Len(vector[f])
         /\ f <= submitted => Len(vector[f]) >= 1
<1>1. vector[f] \in Seq(Element) /\ (f <= submitted => vector[f] # <<>>)
  BY RequestAssumption, EmptySeq DEF Core, WorkOK
<1>. QED  BY <1>1, EmptySeq, LenProperties

LEMMA BusyIsInRange ==
  ASSUME Core, Busy
  PROVE  frame \in Frame /\ frame <= submitted
  BY BoundsAssumption DEF Core, ThreadsTyped, CountsAgree, Frame, One

LEMMA FedImage ==
  ASSUME Core, feed
  PROVE  /\ mImageList' \in Seq(Image) /\ Len(mImageList') = Len(mImageList) + 1
         /\ \A k \in 1 .. Len(mImageList) : mImageList'[k] = mImageList[k]
         /\ mImageList'[Len(mImageList) + 1] =
              [frame |-> frame, index |-> index, buffers |-> captured]
         /\ \A k \in DOMAIN mImageList' :
              \/ k \in DOMAIN mImageList /\ mImageList'[k] = mImageList[k]
              \/ k = Len(mImageList) + 1
<1>1. PICK i : i = [frame |-> frame, index |-> index, buffers |-> captured]
  OBVIOUS
<1>2. i \in Image
  BY <1>1, BusyIsInRange DEF feed, Busy, Image, Core, ThreadsTyped, StreamsTyped
<1>3. mImageList \in Seq(Image) /\ mImageList' = Append(mImageList, i)
  BY <1>1 DEF feed, Core, DataTyped
<1>4. DOMAIN mImageList = 1 .. Len(mImageList) /\ Len(mImageList) \in Nat
  BY <1>3, LenProperties
<1>5. /\ mImageList' \in Seq(Image) /\ Len(mImageList') = Len(mImageList) + 1
      /\ DOMAIN mImageList' = 1 .. Len(mImageList) + 1
      /\ \A k \in 1 .. Len(mImageList) : mImageList'[k] = mImageList[k]
      /\ mImageList'[Len(mImageList) + 1] = i
  BY <1>2, <1>3, <1>4, AppendProperties, LenProperties
<1>. QED  BY <1>1, <1>4, <1>5

LEMMA OutcomeSet ==
  ASSUME NEW h, h \in [Frame -> Seq(Outcome)], NEW f \in Frame, NEW j, NEW o \in Outcome
  PROVE  /\ [h EXCEPT ![f][j] = o] \in [Frame -> Seq(Outcome)]
         /\ \A g \in Frame : /\ DOMAIN [h EXCEPT ![f][j] = o][g] = DOMAIN h[g]
                            /\ \A k \in DOMAIN h[g] :
                                 [h EXCEPT ![f][j] = o][g][k] =
                                   IF g = f /\ k = j THEN o ELSE h[g][k]
<1>1. PICK t : t = [h[f] EXCEPT ![j] = o]
  OBVIOUS
<1>2. h[f] \in Seq(Outcome) /\ DOMAIN h[f] = 1 .. Len(h[f])
  BY LenProperties
<1>3. t \in Seq(Outcome) /\ DOMAIN t = DOMAIN h[f]
  <2>1. CASE j \in 1 .. Len(h[f])
    BY <2>1, <1>1, <1>2, ExceptSeq
  <2>2. CASE j \notin 1 .. Len(h[f])
    <3>1. t = h[f]
      BY <2>2, <1>1, <1>2, LenProperties
    <3>. QED  BY <3>1, <1>2
  <2>. QED  BY <2>1, <2>2
<1>4. \A k \in DOMAIN h[f] : t[k] = IF k = j THEN o ELSE h[f][k]
  BY <1>1
<1>5. [h EXCEPT ![f][j] = o] = [h EXCEPT ![f] = t]
  BY <1>1
<1>. QED  BY <1>3, <1>4, <1>5

LEMMA WaitingIsInRange ==
  ASSUME Core, ipc \notin {"idle", "exited"}
  PROVE  /\ image \in Image /\ image.frame \in Frame /\ image.frame <= submitted
         /\ image.index \in DOMAIN vector[image.frame]
<1>1. image.frame \in 1 .. submitted /\ image.index \in DOMAIN vector[image.frame]
  BY DEF Core, WorkOK, OfRequest
<1>2. submitted \in Nat /\ submitted <= MAX_FRAMES
  BY BoundsAssumption DEF Core, ThreadsTyped
<1>. QED  BY <1>1, <1>2, BoundsAssumption DEF Core, DataTyped, NoImage, Frame

LEMMA ReturnedImage ==
  ASSUME Core, NEW s \in Stream, NEW b \in Buffer, onFrameReturn(s, b)
  PROVE  /\ image' \in Image /\ image'.frame = image.frame /\ image'.index = image.index
         /\ image'.buffers = image.buffers \ {<<s, b>>}
<1>1. image \in Image /\ image' = [image EXCEPT !.buffers = @ \ {<<s, b>>}]
  BY WaitingIsInRange DEF onFrameReturn
<1>. QED  BY <1>1 DEF Image

LEMMA TakenImage ==
  ASSUME Core, TakeImage
  PROVE  /\ mImageList # <<>> /\ image' = mImageList[1] /\ image' \in Image
         /\ Len(mImageList) >= 1 /\ Len(mImageList') = Len(mImageList) - 1
         /\ mImageList' \in Seq(Image)
         /\ \A k \in 1 .. Len(mImageList') : mImageList'[k] = mImageList[k + 1]
         /\ OfRequest(image') /\ PipelineOf(image') \in pipelines
         /\ ipc = "idle" /\ ipc' \in {"countError", "process"}
         /\ UNCHANGED <<pipes, client, requests, mDeQueRequestIdx, reclaimed, work,
                        mLatestImageIdx, mProcdImageIdx, stream, outcome>>
<1>1. mImageList \in Seq(Image) /\ mImageList # <<>> /\ Len(mImageList) \in Nat \ {0}
  BY EmptySeq DEF TakeImage, Core, DataTyped
<1>2. /\ Head(mImageList) = mImageList[1]
      /\ Tail(mImageList) \in Seq(Image) /\ Len(Tail(mImageList)) = Len(mImageList) - 1
      /\ \A k \in 1 .. Len(Tail(mImageList)) : Tail(mImageList)[k] = mImageList[k + 1]
  BY <1>1, HeadTailProperties
<1>3. 1 \in DOMAIN mImageList /\ mImageList[1] \in Image
  BY <1>1, ElementOfSeq, LenProperties
<1>4. OfRequest(mImageList[1]) /\ PipelineOf(mImageList[1]) \in pipelines
  BY <1>3 DEF Core, WorkOK
<1>. QED  BY <1>1, <1>2, <1>3, <1>4 DEF TakeImage, OfRequest, PipelineOf, pipes, client, requests,
                                       work, element, stream, device, flow

LEMMA ThreadsKept ==
  ASSUME Core, Next
  PROVE  ThreadsTyped'
<1> USE DEF ThreadsTyped, Inside, pipes, client, requests, work, element, feeds, img
<1>a1. ThreadsTyped
  BY DEF Core
<1>1. CASE ConfigurePipeline
  BY <1>1, <1>a1, BoundsAssumption DEF ConfigurePipeline, Free
<1>2. CASE BuildPipelines
  BY <1>2, <1>a1 DEF BuildPipelines
<1>3. ASSUME NEW r \in Request, SubmitRequests(r) PROVE ThreadsTyped'
  BY <1>3, <1>a1, BoundsAssumption DEF SubmitRequests, Frame
<1>4. CASE DestroyPipelines
  BY <1>4, <1>a1 DEF DestroyPipelines
<1>5. CASE DeleteSession
  BY <1>5, <1>a1 DEF DeleteSession
<1>6. CASE RequestsHandled
  BY <1>6, <1>a1 DEF RequestsHandled
<1>7. CASE PipelinesFreed
  BY <1>7, <1>a1 DEF PipelinesFreed
<1>8. CASE ImgProcThreadExits
  BY <1>8, <1>a1 DEF ImgProcThreadExits
<1>9. CASE WorkThreadExits
  BY <1>9, <1>a1 DEF WorkThreadExits
<1>10. CASE StopStreams
  BY <1>10, <1>a1 DEF StopStreams
<1>11. CASE TakeRequest
  <2>1. Oldest \in 1 .. submitted
    BY <1>11, <1>a1, OldestIsNext DEF TakeRequest
  <2>. QED  BY <1>11, <1>a1, <2>1 DEF TakeRequest
<1>12. CASE WorkMoves
  BY <1>12, <1>a1 DEF WorkMoves
<1>13. CASE WorkDrops
  BY <1>13, <1>a1 DEF WorkDrops
<1>14. CASE RequestDone
  BY <1>14, <1>a1 DEF RequestDone
<1>15. CASE feed
  BY <1>15, <1>a1 DEF feed
<1>16. CASE TakeImage
  BY <1>16, <1>a1 DEF TakeImage
<1>17. CASE CountError
  BY <1>17, <1>a1 DEF CountError, Count
<1>18. CASE CountResult
  BY <1>18, <1>a1 DEF CountResult, Count
<1>19. CASE NotifyError
  BY <1>19, <1>a1 DEF NotifyError
<1>20. CASE SendResult
  BY <1>20, <1>a1 DEF SendResult
<1>21. CASE releaseImgFeed
  BY <1>21, <1>a1 DEF releaseImgFeed
<1>22. ASSUME NEW s \in Stream, NEW b \in Buffer, onFrameReturn(s, b)
      PROVE  ThreadsTyped'
  BY <1>22, <1>a1 DEF onFrameReturn
<1>. QED  BY <1>1, <1>2, <1>3, <1>4, <1>5, <1>6, <1>7, <1>8, <1>9, <1>10, <1>11, <1>12,
             <1>13, <1>14, <1>15, <1>16, <1>17, <1>18, <1>19, <1>20, <1>21, <1>22,
             WorkSteps DEF Next, Call, Destroy, Delete, ImgProcThread

LEMMA CountsKept ==
  ASSUME Core, Next
  PROVE  CountsAgree'
<1> USE DEF ThreadsTyped, CountsAgree, Busy, Uncounted, One, Inside, pipes, client, requests, work, element, feeds, img
<1>a1. ThreadsTyped /\ CountsAgree
  BY DEF Core
<1>a2. mImageList \in Seq(Image)
  BY DEF Core, DataTyped
<1>1. CASE ConfigurePipeline
  BY <1>1, <1>a1, <1>a2 DEF ConfigurePipeline
<1>2. CASE BuildPipelines
  BY <1>2, <1>a1, <1>a2 DEF BuildPipelines
<1>3. ASSUME NEW r \in Request, SubmitRequests(r) PROVE CountsAgree'
  BY <1>3, <1>a1, <1>a2 DEF SubmitRequests, Free, Frame
<1>4. CASE DestroyPipelines
  BY <1>4, <1>a1, <1>a2 DEF DestroyPipelines
<1>5. CASE DeleteSession
  BY <1>5, <1>a1, <1>a2 DEF DeleteSession
<1>6. CASE RequestsHandled
  BY <1>6, <1>a1, <1>a2 DEF RequestsHandled
<1>7. CASE PipelinesFreed
  <2>1. mDeQueRequestIdx = submitted
    BY <1>7, <1>a1 DEF PipelinesFreed, CallsOK, Core
  <2>. QED  BY <1>7, <1>a1, <2>1 DEF PipelinesFreed
<1>8. CASE ImgProcThreadExits
  BY <1>8, <1>a1, <1>a2 DEF ImgProcThreadExits
<1>9. CASE WorkThreadExits
  BY <1>9, <1>a1, <1>a2 DEF WorkThreadExits
<1>10. CASE StopStreams
  BY <1>10, <1>a1, <1>a2 DEF StopStreams
<1>11. CASE TakeRequest
  BY <1>11, <1>a1, <1>a2, OldestIsNext DEF TakeRequest
<1>12. CASE WorkMoves
  BY <1>12, <1>a1, <1>a2 DEF WorkMoves
<1>13. CASE WorkDrops
  BY <1>13, <1>a1, <1>a2 DEF WorkDrops
<1>14. CASE RequestDone
  BY <1>14, <1>a1, <1>a2 DEF RequestDone
<1>15. CASE feed
  BY <1>15, <1>a1, <1>a2, AppendProperties, LenProperties DEF feed
<1>16. CASE TakeImage
  BY <1>16, <1>a1, <1>a2, TakenImage DEF TakeImage
<1>17. CASE CountError
  BY <1>17, <1>a1, <1>a2, LenProperties DEF CountError, Count
<1>18. CASE CountResult
  BY <1>18, <1>a1, <1>a2, LenProperties DEF CountResult, Count
<1>19. CASE NotifyError
  BY <1>19, <1>a1, <1>a2 DEF NotifyError
<1>20. CASE SendResult
  BY <1>20, <1>a1, <1>a2 DEF SendResult
<1>21. CASE releaseImgFeed
  BY <1>21, <1>a1, <1>a2 DEF releaseImgFeed
<1>22. ASSUME NEW s \in Stream, NEW b \in Buffer, onFrameReturn(s, b)
      PROVE  CountsAgree'
  BY <1>22, <1>a1, <1>a2 DEF onFrameReturn
<1>. QED  BY <1>1, <1>2, <1>3, <1>4, <1>5, <1>6, <1>7, <1>8, <1>9, <1>10, <1>11, <1>12,
             <1>13, <1>14, <1>15, <1>16, <1>17, <1>18, <1>19, <1>20, <1>21, <1>22,
             WorkSteps DEF Next, Call, Destroy, Delete, ImgProcThread

LEMMA CallsKept ==
  ASSUME Core, Next
  PROVE  CallsOK'
<1> USE DEF ThreadsTyped, CallsOK, Busy, Uncounted, Inside, pipes, client, requests, work, element, feeds, img
<1>a1. ThreadsTyped /\ CallsOK
  BY DEF Core
<1>a2. CountsAgree
  BY DEF Core
<1>1. CASE ConfigurePipeline
  BY <1>1, <1>a1, <1>a2 DEF ConfigurePipeline, Free
<1>2. CASE BuildPipelines
  BY <1>2, <1>a1, <1>a2 DEF BuildPipelines, Free
<1>3. ASSUME NEW r \in Request, SubmitRequests(r) PROVE CallsOK'
  BY <1>3, <1>a1, <1>a2 DEF SubmitRequests, Free
<1>4. CASE DestroyPipelines
  BY <1>4, <1>a1, <1>a2 DEF DestroyPipelines, Free
<1>5. CASE DeleteSession
  BY <1>5, <1>a1, <1>a2 DEF DeleteSession, Free
<1>6. CASE RequestsHandled
  BY <1>6, <1>a1, <1>a2 DEF RequestsHandled
<1>7. CASE PipelinesFreed
  <2>1. mDeQueRequestIdx = submitted /\ mLatestImageIdx = mProcdImageIdx
    BY <1>7, <1>a1, <1>a2 DEF PipelinesFreed, CountsAgree, ImagesDrained
  <2>2. ~Busy
    BY <2>1, <1>a1, <1>a2 DEF CountsAgree, One
  <2>3. Len(mImageList) = 0 /\ ~Uncounted
    BY <2>1, <1>a1, <1>a2, LenProperties DEF CountsAgree, One, Core, DataTyped
  <2>4. mImageList = <<>>
    BY <2>3, EmptySeq DEF Core, DataTyped
  <2>. QED  BY <1>7, <1>a1, <2>2, <2>3, <2>4 DEF PipelinesFreed
<1>8. CASE ImgProcThreadExits
  BY <1>8, <1>a1, <1>a2 DEF ImgProcThreadExits
<1>9. CASE WorkThreadExits
  BY <1>9, <1>a1, <1>a2 DEF WorkThreadExits
<1>10. CASE StopStreams
  BY <1>10, <1>a1, <1>a2 DEF StopStreams
<1>11. CASE TakeRequest
  BY <1>11, <1>a1, <1>a2 DEF TakeRequest
<1>12. CASE WorkMoves
  BY <1>12, <1>a1, <1>a2 DEF WorkMoves
<1>13. CASE WorkDrops
  BY <1>13, <1>a1, <1>a2 DEF WorkDrops
<1>14. CASE RequestDone
  BY <1>14, <1>a1, <1>a2 DEF RequestDone, LockFree, CountsAgree
<1>15. CASE feed
  BY <1>15, <1>a1, <1>a2 DEF feed
<1>16. CASE TakeImage
  BY <1>16, <1>a1, <1>a2 DEF TakeImage
<1>17. CASE CountError
  BY <1>17, <1>a1, <1>a2 DEF CountError, Count
<1>18. CASE CountResult
  BY <1>18, <1>a1, <1>a2 DEF CountResult, Count
<1>19. CASE NotifyError
  BY <1>19, <1>a1, <1>a2 DEF NotifyError
<1>20. CASE SendResult
  BY <1>20, <1>a1, <1>a2 DEF SendResult
<1>21. CASE releaseImgFeed
  BY <1>21, <1>a1, <1>a2 DEF releaseImgFeed
<1>22. ASSUME NEW s \in Stream, NEW b \in Buffer, onFrameReturn(s, b)
      PROVE  CallsOK'
  BY <1>22, <1>a1, <1>a2 DEF onFrameReturn
<1>. QED  BY <1>1, <1>2, <1>3, <1>4, <1>5, <1>6, <1>7, <1>8, <1>9, <1>10, <1>11, <1>12,
             <1>13, <1>14, <1>15, <1>16, <1>17, <1>18, <1>19, <1>20, <1>21, <1>22,
             WorkSteps DEF Next, Call, Destroy, Delete, ImgProcThread

LEMMA WorkKept ==
  ASSUME Core, Next
  PROVE  WorkOK'
<1> USE DEF ThreadsTyped, CountsAgree, WorkOK, HasPipelines, OfRequest, PipelineOf, Busy,
            Uncounted, One, Inside, pipes, client, requests, work, element, feeds, img
<1>a1. ThreadsTyped /\ CountsAgree
  BY DEF Core
<1>a2. WorkOK
  BY DEF Core
<1>1. CASE ConfigurePipeline
  BY <1>1, <1>a1, <1>a2 DEF ConfigurePipeline, Free
<1>2. CASE BuildPipelines
  BY <1>2, <1>a1, <1>a2 DEF BuildPipelines
<1>3. ASSUME NEW r \in Request, SubmitRequests(r) PROVE WorkOK'
  <2>1. PICK n : n = submitted + 1
    OBVIOUS
  <2>2. /\ n \in Frame /\ submitted' = n /\ vector' = [vector EXCEPT ![n] = r]
        /\ map_frame_request' = map_frame_request \union {n}
        /\ \A i \in DOMAIN r : r[i].pipeline \in pipelines
        /\ UNCHANGED <<pipelines, frame, index, wpc, mImageList, ipc, image>>
    BY <1>3, <2>1 DEF SubmitRequests
  <2>3. \A g \in Frame : vector'[g] = IF g = n THEN r ELSE vector[g]
    BY <2>2 DEF Core, DataTyped
  <2>4. \A g \in 1 .. submitted : g \in Frame /\ g # n /\ vector'[g] = vector[g]
    BY <2>1, <2>2, <2>3, <1>a1, BoundsAssumption DEF Frame
  <2>5. \A f \in Frame : vector'[f] \in IF f <= submitted' THEN Request ELSE {<<>>}
    BY <2>1, <2>2, <2>3, <1>a1, <1>a2 DEF Frame
  <2>6. \A f \in map_frame_request' : HasPipelines(f)'
    BY <2>2, <2>3, <2>4, <1>a1, <1>a2
  <2>7. Busy => frame \in 1 .. submitted
    BY BusyIsInRange DEF Frame
  <2>. QED  BY <2>1, <2>2, <2>4, <2>5, <2>6, <2>7, <1>a1, <1>a2
<1>4. CASE DestroyPipelines
  BY <1>4, <1>a1, <1>a2 DEF DestroyPipelines
<1>5. CASE DeleteSession
  BY <1>5, <1>a1, <1>a2 DEF DeleteSession
<1>6. CASE RequestsHandled
  BY <1>6, <1>a1, <1>a2 DEF RequestsHandled
<1>7. CASE PipelinesFreed
  <2>1. map_frame_request' = {} /\ ~Busy' /\ mImageList' = <<>> /\ ~Uncounted'
    BY <1>7, CallsKept DEF PipelinesFreed, CallsOK
  <2>. QED  BY <1>7, <2>1, <1>a1, <1>a2 DEF PipelinesFreed
<1>8. CASE ImgProcThreadExits
  BY <1>8, <1>a1, <1>a2 DEF ImgProcThreadExits
<1>9. CASE WorkThreadExits
  BY <1>9, <1>a1, <1>a2 DEF WorkThreadExits
<1>10. CASE StopStreams
  BY <1>10, <1>a1, <1>a2 DEF StopStreams
<1>11. CASE TakeRequest
  <2>1. frame' \in map_frame_request /\ HasPipelines(frame') /\ index' = 1
    BY <1>11, <1>a2, OldestIsNext DEF TakeRequest
  <2>2. frame' \in Frame /\ frame' <= submitted
    BY <2>1, <1>a1, BoundsAssumption DEF Frame
  <2>3. index' \in 1 .. Len(vector[frame']) + 1
    BY <2>1, <2>2, VectorsAreSeqs
  <2>. QED  BY <1>11, <2>1, <2>2, <2>3, <1>a1, <1>a2 DEF TakeRequest
<1>12. CASE WorkMoves
  BY <1>12, <1>a1, <1>a2 DEF WorkMoves
<1>13. CASE WorkDrops
  <2>1. index + 1 \in 1 .. Len(vector[frame]) + 1
    BY <1>13, <1>a2, BusyIsInRange, VectorsAreSeqs DEF WorkDrops
  <2>. QED  BY <1>13, <2>1, <1>a1, <1>a2 DEF WorkDrops
<1>14. CASE RequestDone
  BY <1>14, <1>a1, <1>a2 DEF RequestDone
<1>15. CASE feed
  <2>1. index + 1 \in 1 .. Len(vector[frame]) + 1
    BY <1>15, <1>a2, BusyIsInRange, VectorsAreSeqs DEF feed
  <2>2. \A k \in DOMAIN mImageList' :
          \/ k \in DOMAIN mImageList /\ mImageList'[k] = mImageList[k]
          \/ mImageList'[k].frame = frame /\ mImageList'[k].index = index
    BY <1>15, FedImage
  <2>3. frame \in 1 .. submitted /\ index \in DOMAIN vector[frame]
        /\ vector[frame][index].pipeline \in pipelines
    BY <1>15, <1>a2, BusyIsInRange DEF feed, Frame
  <2>4. \A k \in DOMAIN mImageList' :
          OfRequest(mImageList'[k]) /\ PipelineOf(mImageList'[k]) \in pipelines
    BY <2>2, <2>3, <1>a2
  <2>5. /\ wpc' = "element" /\ index' = index + 1
        /\ UNCHANGED <<submitted, vector, map_frame_request, pipelines, frame, ipc, image>>
    BY <1>15 DEF feed
  <2>6. Busy' => HasPipelines(frame)' /\ index' \in 1 .. Len(vector'[frame']) + 1
    BY <2>1, <2>5, <1>15, <1>a2 DEF feed
  <2>. QED  BY <2>4, <2>5, <2>6, <1>a1, <1>a2
<1>16. CASE TakeImage
  <2>1. /\ OfRequest(image') /\ PipelineOf(image') \in pipelines /\ ipc' \notin {"idle", "exited"}
        /\ Len(mImageList) >= 1 /\ Len(mImageList') = Len(mImageList) - 1
        /\ DOMAIN mImageList' = 1 .. Len(mImageList') /\ Len(mImageList) \in Nat
        /\ DOMAIN mImageList = 1 .. Len(mImageList)
        /\ \A k \in 1 .. Len(mImageList') : mImageList'[k] = mImageList[k + 1]
        /\ UNCHANGED <<pipelines, submitted, vector, map_frame_request, wpc, frame, index>>
    BY <1>16, TakenImage, LenProperties DEF Core, DataTyped
  <2>2. \A k \in DOMAIN mImageList' :
          k + 1 \in DOMAIN mImageList /\ mImageList'[k] = mImageList[k + 1]
    BY <2>1
  <2>3. (\A k \in DOMAIN mImageList :
           OfRequest(mImageList[k]) /\ PipelineOf(mImageList[k]) \in pipelines)'
    BY <2>1, <2>2, <1>a2
  <2>4. (OfRequest(image) /\ PipelineOf(image) \in pipelines)'
    BY <2>1
  <2>. QED  BY <2>1, <2>3, <2>4, <1>a2
<1>17. CASE CountError
  BY <1>17, <1>a1, <1>a2 DEF CountError, Count
<1>18. CASE CountResult
  BY <1>18, <1>a1, <1>a2 DEF CountResult, Count
<1>19. CASE NotifyError
  BY <1>19, <1>a1, <1>a2 DEF NotifyError
<1>20. CASE SendResult
  BY <1>20, <1>a1, <1>a2 DEF SendResult
<1>21. CASE releaseImgFeed
  BY <1>21, <1>a1, <1>a2 DEF releaseImgFeed
<1>22. ASSUME NEW s \in Stream, NEW b \in Buffer, onFrameReturn(s, b)
      PROVE  WorkOK'
  BY <1>22, <1>a1, <1>a2 DEF onFrameReturn
<1>. QED  BY <1>1, <1>2, <1>3, <1>4, <1>5, <1>6, <1>7, <1>8, <1>9, <1>10, <1>11, <1>12,
             <1>13, <1>14, <1>15, <1>16, <1>17, <1>18, <1>19, <1>20, <1>21, <1>22,
             WorkSteps DEF Next, Call, Destroy, Delete, ImgProcThread

LEMMA DataKept ==
  ASSUME Core, Next
  PROVE  DataTyped'
<1> USE DEF DataTyped, pipes, client, requests, work, element, feeds, img
<1>a1. ThreadsTyped /\ CountsAgree /\ WorkOK /\ DataTyped
  BY DEF Core
<1>1. CASE ConfigurePipeline
  BY <1>1, <1>a1 DEF ConfigurePipeline, Free
<1>2. CASE BuildPipelines
  BY <1>2, <1>a1 DEF BuildPipelines
<1>3. ASSUME NEW r \in Request, SubmitRequests(r) PROVE DataTyped'
  <2>1. PICK n : n = submitted + 1
    OBVIOUS
  <2>2. PICK h : h = [i \in DOMAIN r |-> "submitted"]
    OBVIOUS
  <2>3. /\ n \in Frame /\ vector' = [vector EXCEPT ![n] = r]
        /\ outcome' = [outcome EXCEPT ![n] = h]
        /\ UNCHANGED <<reclaimed, mImageList, image>>
    BY <1>3, <2>1, <2>2 DEF SubmitRequests
  <2>4. r \in Seq(Element) /\ DOMAIN r = 1 .. Len(r) /\ Len(r) \in Nat
    BY RequestAssumption, LenProperties
  <2>5. h \in Seq(Outcome) /\ DOMAIN h = DOMAIN r
    BY <2>2, <2>4, IsASeq, SeqDef DEF Outcome
  <2>. QED  BY <2>3, <2>5, <1>a1
<1>4. CASE DestroyPipelines
  BY <1>4, <1>a1 DEF DestroyPipelines
<1>5. CASE DeleteSession
  BY <1>5, <1>a1 DEF DeleteSession
<1>6. CASE RequestsHandled
  BY <1>6, <1>a1 DEF RequestsHandled
<1>7. CASE PipelinesFreed
  <2>1. map_frame_request \subseteq Frame
    BY <1>a1, BoundsAssumption DEF ThreadsTyped, Frame
  <2>. QED  BY <1>7, <2>1, <1>a1 DEF PipelinesFreed
<1>8. CASE ImgProcThreadExits
  BY <1>8, <1>a1 DEF ImgProcThreadExits
<1>9. CASE WorkThreadExits
  BY <1>9, <1>a1 DEF WorkThreadExits
<1>10. CASE StopStreams
  BY <1>10, <1>a1 DEF StopStreams
<1>11. CASE TakeRequest
  BY <1>11, <1>a1 DEF TakeRequest
<1>12. CASE WorkMoves
  BY <1>12, <1>a1 DEF WorkMoves
<1>13. CASE WorkDrops
  <2>1. frame \in Frame /\ "dropped" \in Outcome
    BY <1>13, BusyIsInRange DEF WorkDrops, Busy, Inside, Outcome
  <2>. QED  BY <1>13, <2>1, <1>a1, OutcomeSet DEF WorkDrops
<1>14. CASE RequestDone
  BY <1>14, <1>a1 DEF RequestDone
<1>15. CASE feed
  <2>1. PICK o \in Outcome : outcome' = [outcome EXCEPT ![frame][index] = o]
    BY <1>15 DEF feed, Outcome
  <2>2. frame \in Frame
    BY <1>15, BusyIsInRange DEF feed, Busy
  <2>3. /\ outcome' \in [Frame -> Seq(Outcome)]
        /\ \A f \in Frame : DOMAIN outcome'[f] = DOMAIN outcome[f]
    BY <2>1, <2>2, <1>a1, OutcomeSet
  <2>. QED  BY <1>15, <2>3, <1>a1, FedImage DEF feed
<1>16. CASE TakeImage
  BY <1>16, <1>a1, TakenImage DEF TakeImage
<1>17. CASE CountError
  BY <1>17, <1>a1 DEF CountError, Count
<1>18. CASE CountResult
  BY <1>18, <1>a1 DEF CountResult, Count
<1>19. CASE NotifyError
  <2>1. PICK o \in Outcome :
          outcome' = [outcome EXCEPT ![image.frame][image.index] = o]
    BY <1>19 DEF NotifyError, Answer, Outcome
  <2>2. image.frame \in Frame
    BY <1>19, WaitingIsInRange DEF NotifyError
  <2>3. /\ outcome' \in [Frame -> Seq(Outcome)]
        /\ \A f \in Frame : DOMAIN outcome'[f] = DOMAIN outcome[f]
    BY <2>1, <2>2, <1>a1, OutcomeSet
  <2>. QED  BY <1>19, <2>3, <1>a1 DEF NotifyError
<1>20. CASE SendResult
  <2>1. PICK o \in Outcome :
          outcome' = [outcome EXCEPT ![image.frame][image.index] = o]
    BY <1>20 DEF SendResult, Answer, Outcome
  <2>2. image.frame \in Frame
    BY <1>20, WaitingIsInRange DEF SendResult
  <2>3. /\ outcome' \in [Frame -> Seq(Outcome)]
        /\ \A f \in Frame : DOMAIN outcome'[f] = DOMAIN outcome[f]
    BY <2>1, <2>2, <1>a1, OutcomeSet
  <2>. QED  BY <1>20, <2>3, <1>a1 DEF SendResult
<1>21. CASE releaseImgFeed
  BY <1>21, <1>a1, WaitingIsInRange DEF releaseImgFeed
<1>22. ASSUME NEW s \in Stream, NEW b \in Buffer, onFrameReturn(s, b)
      PROVE  DataTyped'
  BY <1>22, <1>a1, WaitingIsInRange, ReturnedImage DEF onFrameReturn
<1>. QED  BY <1>1, <1>2, <1>3, <1>4, <1>5, <1>6, <1>7, <1>8, <1>9, <1>10, <1>11, <1>12,
             <1>13, <1>14, <1>15, <1>16, <1>17, <1>18, <1>19, <1>20, <1>21, <1>22,
             WorkSteps DEF Next, Call, Destroy, Delete, ImgProcThread

LEMMA StreamsKept ==
  ASSUME Core, Next
  PROVE  StreamsTyped'
<1> USE DEF StreamsTyped, BufferId, pipes, client, requests, work, element, feeds, img, flow,
            device, stream, budget, NoFrame
<1>a. StreamsTyped
  BY DEF Core
<1>1. CASE Call
  BY <1>1, <1>a DEF Call, ConfigurePipeline, BuildPipelines, SubmitRequests, DestroyPipelines,
                    DeleteSession
<1>2. CASE Destroy
  BY <1>2, <1>a DEF Destroy, RequestsHandled, PipelinesFreed
<1>3. CASE ImgProcThreadExits
  BY <1>3, <1>a DEF ImgProcThreadExits
<1>4. CASE WorkThreadExits
  BY <1>4, <1>a DEF WorkThreadExits
<1>5. CASE StopStreams
  BY <1>5, <1>a DEF StopStreams
<1>6. CASE TakeRequest \/ RequestDone \/ drainImages \/ feed
  BY <1>6, <1>a DEF TakeRequest, RequestDone, drainImages, feed
<1>7. CASE HandleElement
  <2>1. wpc' \in {"capture", "config", "element"} /\ todo' \subseteq Stream
    BY <1>7, <1>a, CapturedIsTyped, StreamAssumption DEF HandleElement, Configured
  <2>. QED  BY <1>7, <2>1, <1>a DEF HandleElement
<1>8. CASE IntentHandled
  BY <1>8, <1>a, CapturedIsTyped DEF IntentHandled, Inside
<1>9. CASE Restart
  <2>1. target \in Stream /\ Asked \in Config \union {NULL} /\ Device \in Stream \union {NULL}
    BY <1>9, <1>a, CapturedIsTyped, StreamAssumption DEF Restart, Asked, Inside, Device
  <2>2. /\ todo' \subseteq Stream /\ target' \in Stream \union {NULL} /\ recover' = FALSE
        /\ captured' \subseteq BufferId /\ wpc' \notin {"drain", "restart"}
        /\ lost' \subseteq BufferId
    BY <1>9, <1>a DEF Restart, Restarted
  <2>. QED  BY <1>9, <2>1, <2>2, <1>a, StreamAssumption DEF Restart, SetStream
<1>10. CASE RestartFails
  <2>1. target \in Stream /\ Asked \in Config \union {NULL} /\ Device \in Stream \union {NULL}
    BY <1>10, <1>a, CapturedIsTyped, StreamAssumption DEF RestartFails, Asked, Inside, Device
  <2>2. /\ todo' \subseteq Stream /\ target' \in Stream \union {NULL} /\ recover' = FALSE
        /\ captured' \subseteq BufferId /\ wpc' \notin {"drain", "restart"}
        /\ lost' \subseteq BufferId
    BY <1>10, <1>a DEF RestartFails, Restarted
  <2>8. stalls' = stalls /\ faults' \in 0 .. MAX_FAULTS
    BY <1>10, <1>a, BoundsAssumption DEF RestartFails, Fault
  <2>3. CASE StopFails
    BY <2>2, <2>3, <2>8, <1>a DEF StopFails, SetStream
  <2>4. CASE OpenFails
    BY <2>2, <2>4, <2>8, <1>a DEF OpenFails, Stopped, SetStream
  <2>5. CASE ConfigureFails
    BY <2>1, <2>2, <2>5, <2>8, <1>a DEF ConfigureFails, Stopped, SetStream
  <2>6. CASE StartFails
    BY <2>1, <2>2, <2>6, <2>8, <1>a DEF StartFails, Stopped, SetStream
  <2>7. CASE UNCHANGED device
    BY <2>2, <2>7, <2>8, <1>a DEF device
  <2>. QED  BY <1>10, <2>3, <2>4, <2>5, <2>6, <2>7 DEF RestartFails
<1>11. ASSUME NEW s \in Stream, ConfigAndStart(s)
       PROVE  StreamsTyped'
  BY <1>11, <1>a DEF ConfigAndStart
<1>12. ASSUME NEW s \in Stream, NEW b \in Buffer, FrameAcquired(s, b)
       PROVE  StreamsTyped'
  BY <1>12, <1>a, BoundsAssumption DEF FrameAcquired, Omits, Fault
<1>13. ASSUME NEW s \in Stream, FrameTimesOut(s)
       PROVE  StreamsTyped'
  <2>1. /\ mRecoverCount' = [mRecoverCount EXCEPT ![s] = @ + 1]
        /\ stalls' \in 0 .. MAX_STALLS
        /\ UNCHANGED <<driver, mbStart, mapped, mDev, config, fresh, mOmitFrames, faults>>
    BY <1>13, <1>a, BoundsAssumption DEF FrameTimesOut
  <2>2. /\ todo' \subseteq Stream /\ target' \in Stream \union {NULL} /\ recover' \in BOOLEAN
        /\ captured' \subseteq BufferId /\ lost' \subseteq BufferId
        /\ wpc' \in {"drain", "restart"} => target' \in Stream
    BY <1>13, <1>a DEF FrameTimesOut
  <2>. QED  BY <2>1, <2>2, <1>a
<1>14. ASSUME NEW s \in Stream, AcquireFails(s)
       PROVE  StreamsTyped'
  BY <1>14, <1>a, BoundsAssumption DEF AcquireFails, Fault, device
<1>15. CASE TakeImage
  BY <1>15, <1>a DEF TakeImage
<1>16. CASE CountError \/ CountResult \/ NotifyError \/ SendResult \/ releaseImgFeed
  BY <1>16, <1>a DEF CountError, CountResult, Count, NotifyError, SendResult, releaseImgFeed
<1>17. ASSUME NEW s \in Stream, NEW b \in Buffer, onFrameReturn(s, b)
       PROVE  StreamsTyped'
  BY <1>17, <1>a, ReturnedImage, BoundsAssumption DEF onFrameReturn, Requeue, Fault
<1>. QED  BY <1>1, <1>2, <1>3, <1>4, <1>5, <1>6, <1>7, <1>8, <1>9, <1>10, <1>11, <1>12,
             <1>13, <1>14, <1>15, <1>16, <1>17 DEF Next, Delete, WorkThread, Capture, ImgProcThread

LEMMA CoreKept ==
  ASSUME Core, [Next]_vars
  PROVE  Core'
<1>1. CASE Next
  BY <1>1, ThreadsKept, DataKept, StreamsKept, CountsKept, CallsKept, WorkKept DEF Core
<1>2. CASE UNCHANGED vars
  <2> USE DEF vars, pipes, client, requests, work, element, feeds, img, flow, device, stream, budget
  <2>1. ThreadsTyped' /\ DataTyped'
    BY <1>2 DEF Core, ThreadsTyped, DataTyped
  <2>2. StreamsTyped'
    BY <1>2 DEF Core, StreamsTyped
  <2>3. CountsAgree' /\ CallsOK'
    BY <1>2 DEF Core, CountsAgree, CallsOK, Busy, Uncounted, One
  <2>4. WorkOK'
    BY <1>2 DEF Core, WorkOK, Busy, Uncounted, HasPipelines, OfRequest, PipelineOf
  <2>. QED  BY <2>1, <2>2, <2>3, <2>4 DEF Core
<1>. QED  BY <1>1, <1>2

LEMMA CoreInit ==
  ASSUME Init
  PROVE  Core
<1> USE DEF Init
<1>0. ThreadsTyped
  <2>1. 0 \in 0 .. MAX_FRAMES /\ 0 \in 0 .. MAX_PIPELINES
    BY BoundsAssumption
  <2>2. pipelines_built_ \in BOOLEAN /\ is_logical_request_ \in BOOLEAN
    OBVIOUS
  <2>3. pipelines \subseteq 1 .. made /\ map_frame_request \subseteq 1 .. submitted
    OBVIOUS
  <2>4. made \in 0 .. MAX_PIPELINES /\ submitted \in 0 .. MAX_FRAMES
    BY <2>1
  <2>5. frame \in 0 .. submitted
    OBVIOUS
  <2>. QED  BY <2>2, <2>3, <2>4, <2>5 DEF ThreadsTyped
<1>1. StreamsTyped
  <2>1. 0 \in 0 .. MAX_STALLS /\ 0 \in 0 .. MAX_FAULTS
    BY BoundsAssumption
  <2>2. recover \in BOOLEAN /\ mbStart \in [Stream -> BOOLEAN] /\ mapped \in [Stream -> BOOLEAN]
        /\ mDev \in [Stream -> Stream \union {NULL}] /\ fresh \in [Stream -> BOOLEAN]
    OBVIOUS
  <2>. QED  BY <2>1, <2>2 DEF StreamsTyped
<1>2. DataTyped
  BY EmptySeq DEF DataTyped, NoImage
<1>3. CountsAgree
  BY EmptySeq DEF CountsAgree, Busy, Uncounted, One
<1>4. CallsOK
  BY DEF CallsOK, Busy, Uncounted
<1>5. WorkOK
  BY DEF WorkOK, Busy, Uncounted, Inside, Frame, NoImage, HasPipelines, OfRequest
<1>. QED  BY <1>0, <1>1, <1>2, <1>3, <1>4, <1>5 DEF Core

\* The inductive invariant on which all other facts of this module rest: types,
\* agreement of the counters with the work queued, and where each call waits.
THEOREM Invariant == Spec => []Core
BY CoreInit, CoreKept, PTL DEF Spec

\* Every variable has its type: the threads' states, the counters, the
\* requests, the images and the streams (TypeOK).
THEOREM TypeCorrect == Spec => []TypeOK
<1>1. Core => TypeOK
  BY BoundsAssumption
  DEF Core, ThreadsTyped, DataTyped, StreamsTyped, TypeOK, Inside
<1>. QED  BY <1>1, Invariant, PTL

\* A pipeline is there for as long as a thread may look it up: what
\* HandleRequest and HandleImage report as "Unexpected" cannot happen
\* (DestroyPipelines, PipelineOutlivesUse).
THEOREM PipelinesOutliveUse == Spec => []PipelineOutlivesUse
<1>1. ASSUME Core
      PROVE  PipelineOutlivesUse
  <2>1. Handling => Current.pipeline \in pipelines
    BY <1>1, CurrentIsThere DEF Handling, Busy
  <2>2. \A i \in Images : PipelineOf(i) \in pipelines
    BY <1>1 DEF Images, Core, WorkOK
  <2>3. ipc \in {"countError", "process"} => PipelineOf(image) \in pipelines
    BY <1>1 DEF Core, WorkOK, Uncounted
  <2>. QED  BY <2>1, <2>2, <2>3 DEF PipelineOutlivesUse
<1>. QED  BY <1>1, Invariant, PTL
-----------------------------------------------------------------------------
(* Where a request is *)

Waiting == ipc \notin {"idle", "exited"}
Unanswered == ipc \in {"countError", "notifyError", "process"}
Position == mDeQueRequestIdx + One(Busy)

\* No request and no image changes hands.
Quiet ==
  /\ UNCHANGED <<vector, submitted, map_frame_request, mDeQueRequestIdx, reclaimed, element,
                 mImageList, outcome>>
  /\ Busy' = Busy /\ Waiting' = Waiting /\ Unanswered' = Unanswered
  /\ image'.frame = image.frame /\ image'.index = image.index

\* ImgProcThread answers the framework, or finds nobody to answer.
Answers ==
  /\ Unanswered /\ Waiting' /\ ~Unanswered'
  /\ outcome' \in {Answer("result"), Answer("error"), Answer("lost")}
  /\ UNCHANGED <<vector, submitted, map_frame_request, mDeQueRequestIdx, reclaimed, element, wpc,
                 mImageList, image>>

LEMMA Steps ==
  ASSUME Core, [Next]_vars
  PROVE  Quiet \/ (\E r \in Request : SubmitRequests(r)) \/ TakeRequest \/ WorkDrops
         \/ RequestDone \/ feed \/ TakeImage \/ Answers \/ releaseImgFeed
<1> USE DEF Quiet, Busy, Waiting, Unanswered, pipes, client, requests, work, element, feeds, img
<1>1. ConfigurePipeline \/ BuildPipelines \/ DestroyPipelines \/ DeleteSession => Quiet
  BY DEF ConfigurePipeline, BuildPipelines, DestroyPipelines, DeleteSession
<1>2. RequestsHandled => Quiet
  BY DEF RequestsHandled
<1>3. ASSUME PipelinesFreed
      PROVE  Quiet
  <2>1. mDeQueRequestIdx = submitted
    BY <1>3 DEF PipelinesFreed, CallsOK, CountsAgree, Core
  <2>2. map_frame_request = {}
    BY <2>1 DEF Core, CountsAgree, ThreadsTyped, One
  <2>. QED  BY <1>3, <2>2 DEF PipelinesFreed
<1>4. ImgProcThreadExits \/ WorkThreadExits \/ StopStreams => Quiet
  BY DEF ImgProcThreadExits, WorkThreadExits, StopStreams
<1>5. WorkMoves => Quiet
  BY DEF WorkMoves, Inside
<1>6. CountError \/ CountResult => Quiet
  BY DEF CountError, CountResult, Count
<1>7. NotifyError \/ SendResult => Answers
  BY DEF NotifyError, SendResult, Answers
<1>8. ASSUME NEW s \in Stream, NEW b \in Buffer, onFrameReturn(s, b)
      PROVE  Quiet
  BY <1>8, ReturnedImage DEF onFrameReturn
<1>9. UNCHANGED vars => Quiet
  BY DEF vars
<1>. QED  BY <1>1, <1>2, <1>3, <1>4, <1>5, <1>6, <1>7, <1>8, <1>9, WorkSteps
          DEF Next, Call, Destroy, Delete, ImgProcThread

Before(i, f, j) == i.frame < f \/ (i.frame = f /\ i.index < j)

\* Images are in the order of their requests' elements: the one being
\* answered, the list, and the element WorkThread is at.
OrderOK ==
  /\ \A k, l \in DOMAIN mImageList :
       k < l => Before(mImageList[k], mImageList[l].frame, mImageList[l].index)
  /\ \A k \in DOMAIN mImageList :
       /\ Waiting => Before(image, mImageList[k].frame, mImageList[k].index)
       /\ mImageList[k].frame <= Position
       /\ Busy => Before(mImageList[k], frame, index)
  /\ Waiting => image.frame <= Position /\ (Busy => Before(image, frame, index))

LEMMA OrderKept ==
  ASSUME Core, OrderOK, [Next]_vars
  PROVE  OrderOK'
<1> USE DEF OrderOK, Before, Position, One, pipes, client, requests, work, element, feeds, img
<1>0. ThreadsTyped /\ CountsAgree /\ mImageList \in Seq(Image)
  BY DEF Core, DataTyped
<1>1. DOMAIN mImageList = 1 .. Len(mImageList) /\ Len(mImageList) \in Nat
      /\ \A k \in DOMAIN mImageList : mImageList[k].frame \in Int /\ mImageList[k].index \in Int
  <2>1. DOMAIN mImageList = 1 .. Len(mImageList) /\ Len(mImageList) \in Nat
    BY <1>0, LenProperties
  <2>2. \A k \in DOMAIN mImageList : mImageList[k] \in Image
    BY <1>0, <2>1, ElementOfSeq
  <2>. QED  BY <2>1, <2>2 DEF Image, Frame
<1>2. Waiting => image.frame \in Int /\ image.index \in Int
  BY WaitingIsInRange DEF Waiting, Image, Frame
<1>3. mDeQueRequestIdx \in Int /\ frame \in Int /\ index \in Int
  BY <1>0 DEF ThreadsTyped
<1>4. CASE Quiet
  BY <1>4 DEF Quiet
<1>5. ASSUME NEW r \in Request, SubmitRequests(r)
      PROVE  OrderOK'
  BY <1>5 DEF SubmitRequests, Busy, Waiting
<1>6. CASE TakeRequest
  BY <1>1, <1>2, <1>3, <1>6, OldestIsNext DEF TakeRequest, Busy, Waiting
<1>7. CASE WorkDrops
  BY <1>1, <1>2, <1>3, <1>7 DEF WorkDrops, Busy, Waiting, Inside
<1>8. CASE RequestDone
  BY <1>1, <1>2, <1>3, <1>8 DEF RequestDone, Busy, Waiting
<1>9. CASE feed
  <2>1. PICK n : n = Len(mImageList) + 1
    OBVIOUS
  <2>2. /\ DOMAIN mImageList' = 1 .. n
        /\ \A k \in 1 .. n - 1 : mImageList'[k] = mImageList[k]
        /\ mImageList'[n].frame = frame /\ mImageList'[n].index = index
    BY <1>1, <1>9, <2>1, FedImage, LenProperties
  <2>3. \A k \in 1 .. n : k \in 1 .. n - 1 \/ k = n
    BY <1>1, <2>1
  <2>4. Busy /\ Busy' /\ Waiting' = Waiting /\ index' = index + 1 /\ frame = Position
        /\ UNCHANGED <<image, frame, mDeQueRequestIdx>>
    BY <1>0, <1>9 DEF feed, Busy, Waiting, CountsAgree
  <2>5. DOMAIN mImageList = 1 .. n - 1 /\ n \in Nat
    BY <1>1, <2>1
  <2>6. \A k, l \in DOMAIN mImageList' :
          k < l => Before(mImageList'[k], mImageList'[l].frame, mImageList'[l].index)
    BY <2>2, <2>3, <2>4, <2>5
  <2>7. \A k \in DOMAIN mImageList' :
          /\ Waiting' => Before(image', mImageList'[k].frame, mImageList'[k].index)
          /\ mImageList'[k].frame <= Position'
          /\ Before(mImageList'[k], frame', index')
    BY <1>1, <1>3, <2>2, <2>3, <2>4, <2>5
  <2>. QED  BY <1>2, <1>3, <2>4, <2>6, <2>7
<1>10. CASE TakeImage
  <2>1. PICK n : n = Len(mImageList)
    OBVIOUS
  <2>2. /\ DOMAIN mImageList' = 1 .. n - 1 /\ DOMAIN mImageList = 1 .. n /\ n \in Nat \ {0}
        /\ \A k \in 1 .. n - 1 : mImageList'[k] = mImageList[k + 1]
        /\ image' = mImageList[1]
    BY <1>1, <1>10, <2>1, TakenImage, LenProperties
  <2>3. Busy' = Busy /\ Waiting' /\ UNCHANGED <<frame, index, mDeQueRequestIdx>>
    BY <1>10, TakenImage DEF Busy, Waiting
  <2>4. \A k \in 1 .. n - 1 : k + 1 \in 1 .. n /\ 1 < k + 1
    BY <2>2
  <2>5. 1 \in 1 .. n
    BY <2>2
  <2>6. \A k, l \in DOMAIN mImageList' :
          k < l => Before(mImageList'[k], mImageList'[l].frame, mImageList'[l].index)
    <3>1. SUFFICES ASSUME NEW k \in 1 .. n - 1, NEW l \in 1 .. n - 1, k < l
                   PROVE  Before(mImageList'[k], mImageList'[l].frame, mImageList'[l].index)
      BY <2>2
    <3>2. k + 1 \in DOMAIN mImageList /\ l + 1 \in DOMAIN mImageList /\ k + 1 < l + 1
      BY <2>2, <2>4, <3>1
    <3>3. Before(mImageList[k + 1], mImageList[l + 1].frame, mImageList[l + 1].index)
      BY ONLY <3>2, OrderOK DEF OrderOK
    <3>. QED  BY <2>2, <3>1, <3>3
  <2>7. \A k \in DOMAIN mImageList' :
          /\ Before(image', mImageList'[k].frame, mImageList'[k].index)
          /\ mImageList'[k].frame <= Position'
          /\ Busy' => Before(mImageList'[k], frame', index')
    BY <2>2, <2>3, <2>4, <2>5
  <2>8. image'.frame <= Position' /\ (Busy' => Before(image', frame', index'))
    BY <2>2, <2>3, <2>5
  <2>. QED  BY <2>6, <2>7, <2>8
<1>11. CASE Answers
  BY <1>11 DEF Answers, Busy, Waiting, Unanswered
<1>12. CASE releaseImgFeed
  BY <1>12 DEF releaseImgFeed, Busy, Waiting
<1>. QED  BY <1>4, <1>5, <1>6, <1>7, <1>8, <1>9, <1>10, <1>11, <1>12, Steps

Is(i, f, j) == i.frame = f /\ i.index = j
Ahead(f, j) == f \in map_frame_request \/ (Busy /\ frame = f /\ j >= index)
Held(f, j) ==
  \/ \E k \in DOMAIN mImageList : Is(mImageList[k], f, j)
  \/ Unanswered /\ Is(image, f, j)

\* The history of an element tells who has it.
OutcomeOK(f, j) ==
  /\ outcome[f][j] = "submitted" <=> Ahead(f, j)
  /\ outcome[f][j] \in {"fed", "fedNull"} <=> Held(f, j)
OutcomesOK == \A f \in Frame : \A j \in DOMAIN vector[f] : OutcomeOK(f, j)

Records(f, j, o) == outcome' = [outcome EXCEPT ![f][j] = o]

LEMMA HistorySet ==
  ASSUME Core, NEW f \in Frame, NEW j \in DOMAIN vector[f], NEW o \in Outcome,
         Records(f, j, o)
  PROVE  \A g \in Frame : \A k \in DOMAIN vector[g] :
           outcome'[g][k] = IF g = f /\ k = j THEN o ELSE outcome[g][k]
<1>1. outcome \in [Frame -> Seq(Outcome)] /\ \A g \in Frame : DOMAIN outcome[g] = DOMAIN vector[g]
  BY DEF Core, DataTyped
<1>. QED  BY <1>1, OutcomeSet DEF Records

LEMMA HeldBefore ==
  ASSUME Core, OrderOK, NEW f, NEW j, Held(f, j)
  PROVE  /\ f <= Position /\ f \in Int /\ j \in Int
         /\ Busy => f < frame \/ (f = frame /\ j < index)
<1>1. \A k \in DOMAIN mImageList : mImageList[k].frame \in Int /\ mImageList[k].index \in Int
  <2>1. \A k \in DOMAIN mImageList : mImageList[k] \in Image
    BY ElementOfSeq, LenProperties DEF Core, DataTyped
  <2>. QED  BY <2>1 DEF Image, Frame
<1>2. Unanswered => Waiting /\ image.frame \in Int /\ image.index \in Int
  BY WaitingIsInRange DEF Unanswered, Waiting, Image, Frame
<1>. QED  BY <1>1, <1>2 DEF Held, OrderOK, Before, Is

LEMMA PastTheMap ==
  ASSUME Core, Busy
  PROVE  frame \notin map_frame_request /\ frame \in Int /\ index \in Int
BY DEF Core, ThreadsTyped, CountsAgree, One

LEMMA OutcomesKept ==
  ASSUME Core, OrderOK, OutcomesOK, [Next]_vars
  PROVE  OutcomesOK'
<1> USE DEF pipes, client, requests, work, element, feeds, img
<1>0. /\ ThreadsTyped /\ CountsAgree
      /\ \A f \in Frame : \A j \in DOMAIN vector[f] : OutcomeOK(f, j)
      /\ \A f \in Frame : \A j \in DOMAIN vector[f] : f \in Int /\ j \in Int
      /\ \A f \in Frame : f > submitted => vector[f] = <<>>
  <2>1. \A f \in Frame : \A j \in DOMAIN vector[f] : f \in Int /\ j \in Int
    BY VectorsAreSeqs DEF Frame
  <2>. QED  BY <2>1 DEF Core, OutcomesOK, WorkOK, ThreadsTyped, Frame
<1>1. CASE Quiet
  BY <1>0, <1>1 DEF Quiet, OutcomesOK, OutcomeOK, Ahead, Held, Is
<1>2. ASSUME NEW r \in Request, SubmitRequests(r)
      PROVE  OutcomesOK'
  <2>1. PICK n : n = submitted + 1
    OBVIOUS
  <2>2. /\ n \in Frame /\ map_frame_request' = map_frame_request \union {n}
        /\ vector' = [vector EXCEPT ![n] = r]
        /\ outcome' = [outcome EXCEPT ![n] = [i \in DOMAIN r |-> "submitted"]]
        /\ UNCHANGED <<frame, index, wpc, mImageList, ipc, image>>
    BY <1>2, <2>1 DEF SubmitRequests
  <2>3. \A f \in Frame : /\ f # n => vector'[f] = vector[f] /\ outcome'[f] = outcome[f]
                         /\ f = n => vector'[f] = r /\ outcome'[f] = [i \in DOMAIN r |-> "submitted"]
    BY <2>2 DEF Core, DataTyped
  <2>4. \A j : ~Held(n, j)
    <3>1. Position < n
      BY <1>0, <2>1 DEF CountsAgree, Position, ThreadsTyped, One
    <3>2. Position \in Int /\ n \in Int
      BY <1>0, <2>1 DEF ThreadsTyped, Position, One
    <3>. QED  BY <3>1, <3>2, HeldBefore
  <2>5. \A f, j : Held(f, j)' <=> Held(f, j)
    BY <2>2 DEF Held, Unanswered, Is
  <2>6. \A f \in Frame : \A j \in DOMAIN vector[f] : f # n => (Ahead(f, j)' <=> Ahead(f, j))
    BY <2>2 DEF Ahead, Busy
  <2>7. \A j : Ahead(n, j)'
    BY <2>2 DEF Ahead
  <2>. QED  BY <1>0, <2>3, <2>4, <2>5, <2>6, <2>7 DEF OutcomesOK, OutcomeOK
<1>3. CASE TakeRequest
  <2>1. PICK m : m = mDeQueRequestIdx + 1
    OBVIOUS
  <2>2. /\ m \in map_frame_request /\ frame' = m /\ index' = 1 /\ ~Busy /\ Busy'
        /\ map_frame_request' = map_frame_request \ {m}
        /\ UNCHANGED <<vector, outcome, mImageList, ipc, image>>
    BY <1>3, <2>1, OldestIsNext DEF TakeRequest, Busy
  <2>3. \A f \in Frame : \A j \in DOMAIN vector[f] : j >= 1
    BY VectorsAreSeqs
  <2>4. \A f \in Frame : \A j \in DOMAIN vector[f] : Ahead(f, j)' <=> Ahead(f, j)
    BY <2>2, <2>3 DEF Ahead
  <2>5. \A f, j : Held(f, j)' <=> Held(f, j)
    BY <2>2 DEF Held, Unanswered, Is
  <2>. QED  BY <1>0, <2>2, <2>4, <2>5 DEF OutcomesOK, OutcomeOK
<1>4. CASE RequestDone
  <2>1. /\ ~Busy' /\ Busy /\ index \notin DOMAIN vector[frame]
        /\ UNCHANGED <<map_frame_request, vector, outcome, mImageList, ipc, image>>
    BY <1>4 DEF RequestDone, Busy
  <2>2. \A f \in Frame : \A j \in DOMAIN vector[f] : f = frame => ~(j >= index)
    BY <1>0, <2>1, VectorsAreSeqs DEF Core, WorkOK, ThreadsTyped
  <2>3. \A f \in Frame : \A j \in DOMAIN vector[f] : Ahead(f, j)' <=> Ahead(f, j)
    BY <2>1, <2>2 DEF Ahead
  <2>4. \A f, j : Held(f, j)' <=> Held(f, j)
    BY <2>1 DEF Held, Unanswered, Is
  <2>. QED  BY <1>0, <2>1, <2>3, <2>4 DEF OutcomesOK, OutcomeOK
<1>5. CASE releaseImgFeed
  <2>1. /\ ~Unanswered /\ ~Unanswered'
        /\ UNCHANGED <<map_frame_request, wpc, frame, index, vector, outcome, mImageList>>
    BY <1>5 DEF releaseImgFeed, Unanswered
  <2>2. \A f, j : (Held(f, j)' <=> Held(f, j)) /\ (Ahead(f, j)' <=> Ahead(f, j))
    BY <2>1 DEF Held, Ahead, Is, Busy
  <2>. QED  BY <1>0, <2>1, <2>2 DEF OutcomesOK, OutcomeOK
<1>6. CASE TakeImage
  <2>1. /\ ~Unanswered /\ Unanswered' /\ image' = mImageList[1]
        /\ UNCHANGED <<map_frame_request, wpc, frame, index, vector, outcome>>
    BY <1>6, TakenImage DEF Unanswered
  <2>2. PICK n : n = Len(mImageList)
    OBVIOUS
  <2>3. /\ n \in Nat \ {0} /\ DOMAIN mImageList = 1 .. n /\ DOMAIN mImageList' = 1 .. n - 1
        /\ \A k \in 1 .. n - 1 : mImageList'[k] = mImageList[k + 1]
    BY <1>6, <2>2, TakenImage, LenProperties DEF Core, DataTyped
  <2>4. \A k \in 1 .. n : k = 1 \/ (k - 1 \in 1 .. n - 1 /\ mImageList'[k - 1] = mImageList[k])
    BY <2>3
  <2>5. \A k \in 1 .. n - 1 : k + 1 \in 1 .. n /\ mImageList'[k] = mImageList[k + 1]
    BY <2>3
  <2>6. 1 \in 1 .. n
    BY <2>3
  <2>7. \A f, j : Held(f, j)' <=> Held(f, j)
    <3> TAKE f, j
    <3>1. ASSUME Held(f, j)
          PROVE  Held(f, j)'
      BY <3>1, <2>1, <2>3, <2>4 DEF Held, Is
    <3>2. ASSUME Held(f, j)'
          PROVE  Held(f, j)
      BY <3>2, <2>1, <2>3, <2>5, <2>6 DEF Held, Is
    <3>. QED  BY <3>1, <3>2
  <2>8. \A f, j : Ahead(f, j)' <=> Ahead(f, j)
    BY <2>1 DEF Ahead, Busy
  <2>. QED  BY <1>0, <2>1, <2>7, <2>8 DEF OutcomesOK, OutcomeOK
<1>7. CASE WorkDrops
  <2>1. /\ Busy /\ Busy' /\ frame \in Frame /\ index \in DOMAIN vector[frame]
        /\ index' = index + 1 /\ outcome' = [outcome EXCEPT ![frame][index] = "dropped"]
        /\ UNCHANGED <<map_frame_request, frame, vector, mImageList, ipc, image>>
    BY <1>7, BusyIsInRange DEF WorkDrops, Core, WorkOK, Busy, Inside
  <2>2. \A g \in Frame : \A k \in DOMAIN vector[g] :
          outcome'[g][k] = IF g = frame /\ k = index THEN "dropped" ELSE outcome[g][k]
    <3>1. "dropped" \in Outcome /\ Records(frame, index, "dropped")
      BY <2>1 DEF Outcome, Records
    <3>. QED  BY <2>1, <3>1, HistorySet
  <2>3. \A f, j : Held(f, j)' <=> Held(f, j)
    BY <2>1 DEF Held, Unanswered, Is
  <2>4. \A f \in Frame : \A j \in DOMAIN vector[f] :
          Ahead(f, j)' <=> Ahead(f, j) /\ ~(f = frame /\ j = index)
    BY <1>0, <2>1, PastTheMap DEF Ahead
  <2>5. ~Held(frame, index)
    BY <1>0, <2>1, HeldBefore
  <2>. QED  BY <1>0, <2>1, <2>2, <2>3, <2>4, <2>5 DEF OutcomesOK, OutcomeOK
<1>8. CASE feed
  <2>1. PICK o \in {"fed", "fedNull"} : outcome' = [outcome EXCEPT ![frame][index] = o]
    BY <1>8 DEF feed
  <2>2. /\ Busy /\ Busy' /\ frame \in Frame /\ index \in DOMAIN vector[frame]
        /\ index' = index + 1
        /\ UNCHANGED <<map_frame_request, frame, vector, ipc, image>>
    BY <1>8, BusyIsInRange DEF feed, Core, WorkOK, Busy, Inside
  <2>3. \A g \in Frame : \A k \in DOMAIN vector[g] :
          outcome'[g][k] = IF g = frame /\ k = index THEN o ELSE outcome[g][k]
    <3>1. o \in Outcome /\ Records(frame, index, o)
      BY <2>1 DEF Outcome, Records
    <3>. QED  BY <2>2, <3>1, HistorySet
  <2>4. \A f \in Frame : \A j \in DOMAIN vector[f] :
          Ahead(f, j)' <=> Ahead(f, j) /\ ~(f = frame /\ j = index)
    BY <1>0, <2>2, PastTheMap DEF Ahead
  <2>5. PICK n : n = Len(mImageList) + 1
    OBVIOUS
  <2>6. /\ n \in DOMAIN mImageList' /\ Is(mImageList'[n], frame, index)
        /\ \A k \in DOMAIN mImageList : k \in DOMAIN mImageList' /\ mImageList'[k] = mImageList[k]
        /\ \A k \in DOMAIN mImageList' :
             \/ k \in DOMAIN mImageList /\ mImageList'[k] = mImageList[k]
             \/ k = n
    BY <1>8, <2>5, FedImage, LenProperties DEF Core, DataTyped, Is
  <2>7. \A f, j : Held(f, j)' <=> Held(f, j) \/ (f = frame /\ j = index)
    BY <2>2, <2>6 DEF Held, Is, Unanswered
  <2>. QED  BY <1>0, <2>2, <2>3, <2>4, <2>7 DEF OutcomesOK, OutcomeOK
<1>9. CASE Answers
  <2>1. PICK o \in {"result", "error", "lost"} :
          outcome' = [outcome EXCEPT ![image.frame][image.index] = o]
    BY <1>9 DEF Answers, Answer
  <2>2. /\ Unanswered /\ ~Unanswered'
        /\ UNCHANGED <<map_frame_request, wpc, frame, index, vector, mImageList>>
    BY <1>9 DEF Answers
  <2>3. image.frame \in Frame /\ image.index \in DOMAIN vector[image.frame]
    BY <2>2, WaitingIsInRange DEF Unanswered
  <2>4. \A g \in Frame : \A k \in DOMAIN vector[g] :
          outcome'[g][k] = IF Is(image, g, k) THEN o ELSE outcome[g][k]
    <3>1. o \in Outcome /\ Records(image.frame, image.index, o)
      BY <2>1 DEF Outcome, Records
    <3>2. \A g \in Frame : \A k \in DOMAIN vector[g] :
            outcome'[g][k] =
              IF g = image.frame /\ k = image.index THEN o ELSE outcome[g][k]
      BY <2>3, <3>1, HistorySet
    <3>. QED  BY <3>2, Zenon DEF Is
  <2>5. \A f, j : Held(f, j)' <=> Held(f, j) /\ ~Is(image, f, j)
    <3>1. \A k \in DOMAIN mImageList :
            ~(mImageList[k].frame = image.frame /\ mImageList[k].index = image.index)
      BY <1>0, <2>2, <2>3 DEF OrderOK, Before, Waiting, Unanswered
    <3>. QED  BY <2>2, <3>1 DEF Held, Is
  <2>6. \A f, j : Ahead(f, j)' <=> Ahead(f, j)
    BY <2>2 DEF Ahead, Busy
  <2>7. Held(image.frame, image.index)
    BY <2>2 DEF Held, Is
  <2>8. \A f \in Frame : \A j \in DOMAIN vector[f] : Is(image, f, j) => ~Ahead(f, j)
    BY <1>0, <2>7 DEF OutcomeOK, Is
  <2>. QED  BY <1>0, <2>2, <2>4, <2>5, <2>6, <2>8 DEF OutcomesOK, OutcomeOK
<1>. QED  BY <1>1, <1>2, <1>3, <1>4, <1>5, <1>6, <1>7, <1>8, <1>9, Steps

HistoryInv == Core /\ OrderOK /\ OutcomesOK

LEMMA HistoryInit ==
  ASSUME Init
  PROVE  HistoryInv
<1>1. Core
  BY CoreInit
<1>2. OrderOK /\ OutcomesOK
  BY EmptySeq DEF Init, OrderOK, OutcomesOK, Waiting, Busy
<1>. QED  BY <1>1, <1>2 DEF HistoryInv

\* Elements leave the queue in order, and what became of each agrees with where
\* it is now (OrderOK, OutcomesOK).
THEOREM HistoryInvariant == Spec => []HistoryInv
<1>1. HistoryInv /\ [Next]_vars => HistoryInv'
  BY CoreKept, OrderKept, OutcomesKept DEF HistoryInv
<1>. QED  BY <1>1, HistoryInit, PTL DEF Spec

\* When DestroyPipelines has returned, every element submitted is answered,
\* dropped, or an error counted and about to be told (DestroyWaitsForAnswers).
THEOREM DestroyWaits == Spec => []DestroyWaitsForAnswers
<1>1. ASSUME HistoryInv
      PROVE  DestroyWaitsForAnswers
  <2> SUFFICES ASSUME ~pipelines_built_, NEW f \in Frame, NEW j \in DOMAIN outcome[f]
               PROVE  \/ outcome[f][j] \in Closed
                      \/ ipc = "notifyError" /\ image.frame = f /\ image.index = j
    BY DEF DestroyWaitsForAnswers
  <2>1. map_frame_request = {} /\ ~Busy /\ mImageList = <<>> /\ ~Uncounted
    BY <1>1 DEF HistoryInv, Core, CallsOK
  <2>2. OutcomeOK(f, j)
    BY <1>1 DEF HistoryInv, OutcomesOK, Core, DataTyped
  <2>3. outcome[f][j] \in Outcome
    <3>1. outcome[f] \in Seq(Outcome)
      BY <1>1 DEF HistoryInv, Core, DataTyped
    <3>. QED  BY <3>1, ElementOfSeq, LenProperties
  <2>4. outcome[f][j] # "submitted"
    BY <2>1, <2>2 DEF OutcomeOK, Ahead
  <2>5. Held(f, j) => ipc = "notifyError" /\ Is(image, f, j)
    BY <2>1, EmptySeq DEF Held, Unanswered, Uncounted
  <2>. QED  BY <2>2, <2>3, <2>4, <2>5 DEF OutcomeOK, Is, Outcome, Closed
<1>. QED  BY <1>1, HistoryInvariant, PTL

LEMMA AnswersInOrder ==
  ASSUME HistoryInv, Answers
  PROVE  /\ outcome[image.frame][image.index] \notin Closed
         /\ \A g \in Frame : \A j \in DOMAIN vector[g] :
              g < image.frame \/ (g = image.frame /\ j < image.index) =>
                outcome[g][j] \in Closed
<1> USE DEF HistoryInv
<1>1. Waiting /\ Unanswered /\ image.frame \in Frame /\ image.index \in DOMAIN vector[image.frame]
      /\ image.frame \in Int /\ image.index \in Int
  BY WaitingIsInRange DEF Answers, Unanswered, Waiting, Image, Frame
<1>2. Held(image.frame, image.index)
  BY <1>1 DEF Held, Is
<1>3. outcome[image.frame][image.index] \in {"fed", "fedNull"}
  BY <1>1, <1>2 DEF OutcomesOK, OutcomeOK
<1>4. ASSUME NEW g \in Frame, NEW j \in DOMAIN vector[g],
             g < image.frame \/ (g = image.frame /\ j < image.index)
      PROVE  outcome[g][j] \in Closed
  <2>1. g \in Int /\ j \in Int
    BY VectorsAreSeqs DEF Frame
  <2>2. ~Ahead(g, j)
    BY <1>1, <1>4, <2>1 DEF Ahead, OrderOK, Before, Position, One, Core, CountsAgree, ThreadsTyped
  <2>3. ~Held(g, j)
    <3>1. \A k \in DOMAIN mImageList : ~Is(mImageList[k], g, j)
      BY <1>1, <1>4, <2>1 DEF OrderOK, Before, Is
    <3>. QED  BY <1>4, <2>1, <3>1 DEF Held, Is
  <2>4. outcome[g][j] \in Outcome
    <3>1. outcome[g] \in Seq(Outcome) /\ DOMAIN outcome[g] = DOMAIN vector[g]
      BY DEF Core, DataTyped
    <3>. QED  BY <3>1, ElementOfSeq, LenProperties
  <2>. QED  BY <2>2, <2>3, <2>4 DEF OutcomesOK, OutcomeOK, Outcome, Closed
<1>. QED  BY <1>3, <1>4 DEF Closed

\* The framework is answered once for each element, and in the order the
\* elements were submitted (AnsweredInOrder).
THEOREM AnswersAreInOrder == Spec => AnsweredInOrder
<1>1. ASSUME HistoryInv, [Next]_vars, NEW f \in Frame, NEW i \in DOMAIN outcome[f],
             outcome[f][i] # outcome'[f][i], outcome'[f][i] \in {"result", "error"}
      PROVE  /\ outcome[f][i] \notin Closed
             /\ \A g \in 1 .. f : \A j \in DOMAIN outcome[g] :
                  g < f \/ j < i => outcome[g][j] \in Closed
  <2> USE DEF requests
  <2>0. Core /\ \A g \in Frame : DOMAIN outcome[g] = DOMAIN vector[g]
    BY <1>1 DEF HistoryInv, Core, DataTyped
  <2>1. ~Quiet
    BY <1>1 DEF Quiet
  <2>2. ~\E r \in Request : SubmitRequests(r)
    <3> SUFFICES ASSUME NEW r \in Request, SubmitRequests(r)
                 PROVE  FALSE
      OBVIOUS
    <3>1. vector[submitted + 1] = <<>>
      BY <2>0 DEF SubmitRequests, Core, WorkOK, ThreadsTyped
    <3>2. f # submitted + 1
      BY <1>1, <2>0, <3>1
    <3>. QED  BY <1>1, <3>2 DEF SubmitRequests
  <2>3. ~WorkDrops
    <3> SUFFICES ASSUME WorkDrops
                 PROVE  FALSE
      OBVIOUS
    <3>1. frame \in Frame /\ index \in DOMAIN vector[frame]
      BY <2>0, BusyIsInRange DEF WorkDrops, Busy, Inside, Core, WorkOK
    <3>. "dropped" \in Outcome /\ Records(frame, index, "dropped")
      BY DEF WorkDrops, Outcome, Records
    <3>2. outcome'[f][i] = IF f = frame /\ i = index THEN "dropped" ELSE outcome[f][i]
      BY <1>1, <2>0, <3>1, HistorySet
    <3>. QED  BY <1>1, <3>2
  <2>4. ~feed
    <3> SUFFICES ASSUME feed
                 PROVE  FALSE
      OBVIOUS
    <3>1. frame \in Frame /\ index \in DOMAIN vector[frame]
      BY <2>0, BusyIsInRange DEF feed, Busy, Inside, Core, WorkOK
    <3>2. PICK o \in {"fed", "fedNull"} : outcome' = [outcome EXCEPT ![frame][index] = o]
      BY DEF feed
    <3>. o \in Outcome /\ Records(frame, index, o)
      BY <3>2 DEF Outcome, Records
    <3>3. outcome'[f][i] = IF f = frame /\ i = index THEN o ELSE outcome[f][i]
      BY <1>1, <2>0, <3>1, HistorySet
    <3>. QED  BY <1>1, <3>3
  <2>5. ~(TakeRequest \/ RequestDone \/ releaseImgFeed)
    BY <1>1 DEF TakeRequest, RequestDone, releaseImgFeed
  <2>6. ~TakeImage
    BY <1>1, <2>0, TakenImage
  <2>7. Answers
    BY <1>1, <2>0, <2>1, <2>2, <2>3, <2>4, <2>5, <2>6, Steps
  <2>8. f = image.frame /\ i = image.index
    <3>1. PICK o : outcome' = [outcome EXCEPT ![image.frame][image.index] = o]
      BY <2>7 DEF Answers, Answer
    <3>2. image.frame \in Frame
      BY <2>0, <2>7, WaitingIsInRange DEF Answers, Unanswered
    <3>. QED  BY <1>1, <2>0, <3>1, <3>2 DEF Core, DataTyped
  <2>9. \A g \in 1 .. f : g \in Frame /\ g \in Int /\ f \in Int
    BY BoundsAssumption DEF Frame
  <2>10. \A g \in 1 .. f : \A j : g < f \/ j < i => g < f \/ (g = f /\ j < i)
    BY <2>9
  <2>. QED  BY <1>1, <2>0, <2>7, <2>8, <2>9, <2>10, AnswersInOrder
<1>2. HistoryInv /\ [Next]_vars =>
        [\A f \in Frame : \A i \in DOMAIN outcome[f] :
           outcome[f][i] # outcome'[f][i] /\ outcome'[f][i] \in {"result", "error"} =>
             /\ outcome[f][i] \notin Closed
             /\ \A g \in 1 .. f : \A j \in DOMAIN outcome[g] :
                  g < f \/ j < i => outcome[g][j] \in Closed]_vars
  BY <1>1
<1>. QED  BY <1>2, HistoryInvariant, PTL DEF Spec, AnsweredInOrder

-----------------------------------------------------------------------------
(* When the vector of a request is deleted *)

Last(f) == Len(vector[f])
Kept(f) ==
  \/ Handling /\ frame = f
  \/ \E k \in DOMAIN mImageList : Is(mImageList[k], f, Last(f))
  \/ Waiting /\ Is(image, f, Last(f))
  \/ outcome[f][Last(f)] = "dropped"

\* No thread holds an element of a vector deleted, and the vector of a
\* request taken stays for the sake of an element, unless the last is dropped.
FreedOK ==
  /\ reclaimed \subseteq 1 .. Position
  /\ Handling => frame \notin reclaimed
  /\ \A k \in DOMAIN mImageList : mImageList[k].frame \notin reclaimed
  /\ Waiting => image.frame \notin reclaimed
  /\ \A f \in 1 .. Position : f \in reclaimed \/ Kept(f)

LEMMA FreedKept ==
  ASSUME HistoryInv, FreedOK, [Next]_vars
  PROVE  FreedOK'
<1> USE DEF HistoryInv, FreedOK, pipes, client, requests, work, element, feeds, img
<1>0. /\ Core /\ ThreadsTyped /\ CountsAgree /\ Position \in Nat /\ Position <= submitted
      /\ \A f \in 1 .. Position : f \in Frame /\ f \in Int /\ f <= submitted
  BY BoundsAssumption DEF Core, ThreadsTyped, CountsAgree, Position, One, Frame
<1>1. CASE Quiet
  <2>1. Position' = Position /\ Handling' = Handling
    BY <1>1 DEF Quiet, Position, Handling, One, Busy
  <2>2. \A f : Kept(f)' <=> Kept(f)
    BY <1>1, <2>1 DEF Quiet, Kept, Last, Is
  <2>. QED  BY <1>1, <2>1, <2>2 DEF Quiet
<1>2. ASSUME NEW r \in Request, SubmitRequests(r)
      PROVE  FreedOK'
  <2>1. PICK n : n = submitted + 1
    OBVIOUS
  <2>2. /\ n \in Frame
        /\ vector' = [vector EXCEPT ![n] = r]
        /\ outcome' = [outcome EXCEPT ![n] = [i \in DOMAIN r |-> "submitted"]]
        /\ UNCHANGED <<mDeQueRequestIdx, reclaimed, frame, index, wpc, mImageList, ipc, image>>
    BY <1>2, <2>1 DEF SubmitRequests
  <2>3. \A f \in Frame : f # n => vector'[f] = vector[f] /\ outcome'[f] = outcome[f]
    BY <2>2, <1>0 DEF Core, DataTyped
  <2>4. Position' = Position /\ Busy' = Busy /\ Waiting' = Waiting
    BY <2>2 DEF Position, Busy, One, Waiting
  <2>5. Busy => frame \in Frame /\ frame # n
    BY <1>0, <2>1, BusyIsInRange DEF ThreadsTyped
  <2>6. Handling' = Handling
    BY <2>2, <2>3, <2>4, <2>5 DEF Handling, Busy
  <2>7. \A f \in 1 .. Position : Kept(f)' <=> Kept(f)
    <3>1. \A f \in 1 .. Position : vector'[f] = vector[f] /\ outcome'[f] = outcome[f]
      BY <1>0, <2>1, <2>3 DEF ThreadsTyped
    <3>. QED  BY <2>2, <2>4, <2>6, <3>1 DEF Kept, Last, Is
  <2>. QED  BY <2>2, <2>4, <2>6, <2>7
<1>3. CASE TakeRequest
  <2>1. PICK m : m = mDeQueRequestIdx + 1
    OBVIOUS
  <2>2. /\ m \in map_frame_request /\ frame' = m /\ index' = 1 /\ ~Busy /\ Busy'
        /\ UNCHANGED <<mDeQueRequestIdx, reclaimed, vector, outcome, mImageList, ipc, image>>
    BY <1>3, <2>1, <1>0, OldestIsNext DEF TakeRequest, Busy
  <2>3. m \in Frame /\ m <= submitted /\ m = Position + 1 /\ Position' = m
    BY <1>0, <2>1, <2>2, BoundsAssumption DEF ThreadsTyped, CountsAgree, Position, One, Frame
  <2>4. Handling' /\ ~Handling
    BY <1>0, <2>2, <2>3, VectorsAreSeqs DEF Handling, Busy
  <2>5. m \notin reclaimed /\ \A f \in 1 .. m : f = m \/ f \in 1 .. Position
    BY <1>0, <2>3
  <2>6. \A f : Kept(f) => Kept(f)'
    BY <2>2, <2>4 DEF Kept, Last, Is, Waiting
  <2>7. Kept(m)'
    BY <2>2, <2>4 DEF Kept
  <2>. QED  BY <1>0, <2>2, <2>3, <2>4, <2>5, <2>6, <2>7 DEF Waiting
<1>4. CASE WorkDrops
  <2>1. /\ Handling /\ Busy' /\ Busy /\ frame \in Frame /\ index \in DOMAIN vector[frame]
        /\ index' = index + 1 /\ outcome' = [outcome EXCEPT ![frame][index] = "dropped"]
        /\ UNCHANGED <<mDeQueRequestIdx, reclaimed, frame, vector, mImageList, ipc, image>>
    BY <1>0, <1>4, BusyIsInRange DEF WorkDrops, Core, WorkOK, Busy, Inside, Handling
  <2>2. \A g \in Frame : \A k \in DOMAIN vector[g] :
          outcome'[g][k] = IF g = frame /\ k = index THEN "dropped" ELSE outcome[g][k]
    <3>1. "dropped" \in Outcome /\ Records(frame, index, "dropped")
      BY <2>1 DEF Outcome, Records
    <3>. QED  BY <1>0, <2>1, <3>1, HistorySet
  <2>3. Position' = Position /\ Waiting' = Waiting
    BY <2>1 DEF Position, One, Waiting
  <2>4. Handling' \/ index = Last(frame)
    BY <1>0, <2>1, VectorsAreSeqs DEF Handling, Busy, Last
  <2>5. Kept(frame)'
    BY <2>1, <2>2, <2>4 DEF Kept, Last
  <2>6. \A f \in 1 .. Position : Last(f) \in DOMAIN vector[f]
    BY <1>0, VectorsAreSeqs DEF Last
  <2>7. \A f \in 1 .. Position : f # frame /\ Kept(f) => Kept(f)'
    BY <1>0, <2>1, <2>2, <2>3, <2>6 DEF Kept, Last, Is
  <2>. QED  BY <2>1, <2>3, <2>5, <2>7 DEF Handling
<1>5. CASE RequestDone
  <2>1. /\ ~Handling /\ ~Handling' /\ Busy /\ ~Busy' /\ mDeQueRequestIdx' = mDeQueRequestIdx + 1
        /\ UNCHANGED <<reclaimed, frame, vector, outcome, mImageList, ipc, image>>
    BY <1>5 DEF RequestDone, Handling, Busy
  <2>2. Position' = Position /\ Waiting' = Waiting
    BY <1>0, <2>1 DEF Position, One, Waiting, ThreadsTyped
  <2>3. \A f : Kept(f)' <=> Kept(f)
    BY <2>1, <2>2 DEF Kept, Last, Is
  <2>. QED  BY <2>1, <2>2, <2>3
<1>6. CASE feed
  <2>1. PICK o \in {"fed", "fedNull"} : outcome' = [outcome EXCEPT ![frame][index] = o]
    BY <1>6 DEF feed
  <2>2. /\ Handling /\ Busy' /\ Busy /\ frame \in Frame /\ index \in DOMAIN vector[frame]
        /\ index' = index + 1
        /\ UNCHANGED <<mDeQueRequestIdx, reclaimed, frame, vector, ipc, image>>
    BY <1>0, <1>6, BusyIsInRange DEF feed, Core, WorkOK, Busy, Inside, Handling
  <2>3. \A g \in Frame : \A k \in DOMAIN vector[g] : g # frame => outcome'[g][k] = outcome[g][k]
    BY <1>0, <2>1 DEF Core, DataTyped
  <2>4. Position' = Position /\ Waiting' = Waiting
    BY <2>2 DEF Position, One, Waiting
  <2>5. PICK n : n = Len(mImageList) + 1
    OBVIOUS
  <2>6. /\ n \in DOMAIN mImageList' /\ Is(mImageList'[n], frame, index)
        /\ \A k \in DOMAIN mImageList : k \in DOMAIN mImageList' /\ mImageList'[k] = mImageList[k]
        /\ \A k \in DOMAIN mImageList' :
             \/ k \in DOMAIN mImageList /\ mImageList'[k] = mImageList[k]
             \/ k = n
    BY <1>0, <1>6, <2>5, FedImage, LenProperties DEF Core, DataTyped, Is
  <2>7. Handling' \/ index = Last(frame)
    BY <1>0, <2>2, VectorsAreSeqs DEF Handling, Busy, Last
  <2>8. Kept(frame)'
    BY <2>2, <2>6, <2>7 DEF Kept, Last
  <2>9. \A f \in 1 .. Position : Last(f) \in DOMAIN vector[f]
    BY <1>0, VectorsAreSeqs DEF Last
  <2>10. \A f \in 1 .. Position : f # frame /\ Kept(f) => Kept(f)'
    BY <1>0, <2>2, <2>3, <2>4, <2>6, <2>9 DEF Kept, Last, Is
  <2>. QED  BY <2>2, <2>4, <2>6, <2>8, <2>10 DEF Is
<1>7. CASE TakeImage
  <2>1. /\ ~Waiting /\ Waiting' /\ image' = mImageList[1]
        /\ UNCHANGED <<mDeQueRequestIdx, reclaimed, wpc, frame, index, vector, outcome>>
    BY <1>0, <1>7, TakenImage DEF Waiting
  <2>2. PICK n : n = Len(mImageList)
    OBVIOUS
  <2>3. /\ n \in Nat \ {0} /\ DOMAIN mImageList = 1 .. n /\ DOMAIN mImageList' = 1 .. n - 1
        /\ \A k \in 1 .. n - 1 : mImageList'[k] = mImageList[k + 1]
    BY <1>0, <1>7, <2>2, TakenImage, LenProperties DEF Core, DataTyped
  <2>4. \A k \in 1 .. n : k = 1 \/ (k - 1 \in 1 .. n - 1 /\ mImageList'[k - 1] = mImageList[k])
    BY <2>3
  <2>5. \A k \in 1 .. n - 1 : k + 1 \in 1 .. n /\ mImageList'[k] = mImageList[k + 1]
    BY <2>3
  <2>6. 1 \in 1 .. n
    BY <2>3
  <2>7. Position' = Position /\ Handling' = Handling
    BY <2>1 DEF Position, One, Busy, Handling
  <2>8. \A f : Kept(f) => Kept(f)'
    <3> TAKE f
    <3>1. ASSUME NEW k \in DOMAIN mImageList, Is(mImageList[k], f, Last(f))
          PROVE  Kept(f)'
      <4>1. CASE k = 1
        BY <2>1, <3>1, <4>1 DEF Kept, Last, Is
      <4>2. CASE k # 1
        <5>1. k - 1 \in DOMAIN mImageList' /\ Is(mImageList'[k - 1], f, Last(f))
          BY <2>3, <2>4, <3>1, <4>2
        <5>2. Last(f)' = Last(f)
          BY <2>1 DEF Last
        <5>. QED  BY <5>1, <5>2 DEF Kept, Is
      <4>. QED  BY <4>1, <4>2
    <3>. QED  BY <2>1, <2>7, <3>1 DEF Kept, Last
  <2>. QED  BY <2>1, <2>3, <2>5, <2>6, <2>7, <2>8
<1>8. CASE Answers
  <2>1. PICK o : outcome' = [outcome EXCEPT ![image.frame][image.index] = o]
    BY <1>8 DEF Answers, Answer
  <2>2. /\ Waiting /\ Waiting' /\ image.frame \in Frame
        /\ UNCHANGED <<mDeQueRequestIdx, reclaimed, wpc, frame, index, vector, mImageList, image>>
    BY <1>0, <1>8, WaitingIsInRange DEF Answers, Unanswered, Waiting
  <2>3. Position' = Position /\ Handling' = Handling
    BY <2>2 DEF Position, One, Busy, Handling
  <2>4. \A f \in 1 .. Position : Is(image, f, Last(f)) \/ outcome'[f][Last(f)] = outcome[f][Last(f)]
    <3>1. \A f \in 1 .. Position : Last(f) \in DOMAIN outcome[f]
      BY <1>0, VectorsAreSeqs DEF Last, Core, DataTyped
    <3>. QED  BY <1>0, <2>1, <2>2, <3>1 DEF Core, DataTyped, Is
  <2>5. \A f \in 1 .. Position : Kept(f) => Kept(f)'
    BY <2>2, <2>3, <2>4 DEF Kept, Last, Is
  <2>. QED  BY <2>2, <2>3, <2>5
<1>9. CASE releaseImgFeed
  <2>1. /\ Waiting /\ ~Waiting'
        /\ UNCHANGED <<mDeQueRequestIdx, wpc, frame, index, vector, outcome, mImageList>>
        /\ reclaimed' = IF image.index = Last(image.frame) THEN reclaimed \union {image.frame}
                        ELSE reclaimed
    BY <1>9 DEF releaseImgFeed, Waiting, Last
  <2>2. /\ image.frame \in Frame /\ image.index \in DOMAIN vector[image.frame]
        /\ image.frame \in 1 .. Position
    BY <1>0, <2>1, WaitingIsInRange DEF Waiting, OrderOK, Frame
  <2>3. Position' = Position /\ Handling' = Handling
    BY <2>1 DEF Position, One, Busy, Handling
  <2>4. \A j \in DOMAIN vector[image.frame] : j \in Int /\ j <= Last(image.frame)
    BY <1>0, <2>2, VectorsAreSeqs DEF Last
  <2>5. image.index = Last(image.frame) => ~(Handling /\ frame = image.frame)
    BY <2>1, <2>2, <2>4 DEF OrderOK, Before, Handling, Busy
  <2>6. image.index = Last(image.frame) =>
          \A k \in DOMAIN mImageList : mImageList[k].frame # image.frame
    BY <1>0, <2>1, <2>2, <2>4 DEF OrderOK, Before, Core, WorkOK, OfRequest
  <2>7. \A f : Kept(f) => Kept(f)' \/ (f = image.frame /\ image.index = Last(image.frame))
    BY <2>1, <2>3 DEF Kept, Last, Is
  <2>. QED  BY <2>1, <2>2, <2>3, <2>5, <2>6, <2>7
<1>. QED  BY <1>0, <1>1, <1>2, <1>3, <1>4, <1>5, <1>6, <1>7, <1>8, <1>9, Steps

FreedInv == HistoryInv /\ FreedOK

\* A vector is kept until its last element is done with (FreedOK).
THEOREM FreedInvariant == Spec => []FreedInv
<1>1. ASSUME Init
      PROVE  FreedInv
  <2>1. Core /\ HistoryInv
    BY <1>1, CoreInit, HistoryInit
  <2>2. Position = 0 /\ ~Handling /\ ~Waiting
    BY <1>1 DEF Init, Position, One, Busy, Handling, Waiting
  <2>3. FreedOK
    BY <1>1, <2>2, EmptySeq DEF Init, FreedOK
  <2>. QED  BY <2>1, <2>3 DEF FreedInv
<1>2. FreedInv /\ [Next]_vars => FreedInv'
  BY CoreKept, OrderKept, OutcomesKept, FreedKept DEF FreedInv, HistoryInv
<1>. QED  BY <1>1, <1>2, PTL DEF Spec

\* The vector of a request is deleted once, after both threads are done with
\* it, and is leaked only when its last element was dropped (releaseImgFeed,
\* RequestsAreFreedOnce).
THEOREM RequestsAreFreed == Spec => []RequestsAreFreedOnce
<1>1. ASSUME FreedInv
      PROVE  RequestsAreFreedOnce
  <2>0. Core /\ FreedOK /\ ThreadsTyped /\ CountsAgree /\ Position \in Nat
    BY <1>1 DEF FreedInv, HistoryInv, Core, ThreadsTyped, Position, One
  <2>1. map_frame_request \intersect reclaimed = {}
    BY <2>0 DEF FreedOK, CountsAgree, Position, ThreadsTyped
  <2>2. \A i \in Images : i.frame \notin reclaimed
    BY <2>0 DEF FreedOK, Images
  <2>3. image # NoImage => image.frame \notin reclaimed
    BY <2>0 DEF FreedOK, Waiting, Core, WorkOK
  <2>4. ASSUME NEW f \in 1 .. submitted, f \notin reclaimed, f \notin map_frame_request
        PROVE  \/ Handling /\ frame = f
               \/ \E i \in Images \union {image} : i.frame = f /\ i.index = Len(vector[f])
               \/ outcome[f][Len(outcome[f])] = "dropped"
    <3>1. f \in Frame /\ f \in 1 .. Position
      BY <2>0, <2>4, BoundsAssumption DEF CountsAgree, ThreadsTyped, Position, Frame
    <3>2. Kept(f)
      BY <2>0, <2>4, <3>1 DEF FreedOK
    <3>3. Len(outcome[f]) = Len(vector[f])
      <4>1. /\ DOMAIN outcome[f] = 1 .. Len(outcome[f]) /\ Len(outcome[f]) \in Nat
            /\ DOMAIN outcome[f] = DOMAIN vector[f]
        BY <2>0, <3>1, LenProperties DEF Core, DataTyped
      <4>2. DOMAIN vector[f] = 1 .. Len(vector[f]) /\ Len(vector[f]) \in Nat
        BY <2>0, <3>1, VectorsAreSeqs
      <4>. QED  BY <4>1, <4>2
    <3>. QED  BY <3>2, <3>3 DEF Kept, Last, Is, Images
  <2>. QED  BY <2>0, <2>1, <2>2, <2>3, <2>4 DEF RequestsAreFreedOnce, FreedOK
<1>. QED  BY <1>1, FreedInvariant, PTL

-----------------------------------------------------------------------------
(* Where a buffer is *)

Draining == wpc \in {"drain", "restart"}

\* WorkThread's dealings with the streams: what is captured is not of a
\* stream still to configure or to capture from, a restart finds no image in
\* use, and only a logical request captures more than one buffer.
StreamsOK ==
  /\ wpc \in {"idle", "exited", "element", "config"} \/ (Draining /\ ~recover) => captured = {}
  /\ wpc \in {"idle", "exited", "element", "feed"} => todo = {}
  /\ wpc \notin {"drain", "restart", "capture"} => target = NULL
  /\ Draining => target \in todo
  /\ wpc = "capture" /\ target # NULL => target \in todo
  /\ \A s \in todo : \A b \in Buffer : <<s, b>> \notin captured
  /\ wpc = "restart" => mLatestImageIdx = mProcdImageIdx
  /\ ipc # "process" => image.buffers = {}
  /\ \A s \in Stream : mapped[s] => mbStart[s]
  /\ ~is_logical_request_ => todo \subseteq {Main} /\ (wpc # "feed" => captured = {})

LEMMA StreamsOKKept ==
  ASSUME Core, StreamsOK, [Next]_vars
  PROVE  StreamsOK'
<1> USE DEF StreamsOK, Draining, pipes, client, requests, work, element, feeds, img, flow,
            device, stream, budget
<1>0. StreamsTyped
  BY DEF Core
<1>1. CASE ConfigurePipeline
  <2>1. ~Busy
    BY <1>1 DEF ConfigurePipeline, Core, CallsOK
  <2>. QED  BY <1>1, <2>1 DEF ConfigurePipeline, Busy
<1>2. CASE BuildPipelines \/ DestroyPipelines \/ DeleteSession
  BY <1>2 DEF BuildPipelines, DestroyPipelines, DeleteSession
<1>3. ASSUME NEW r \in Request, SubmitRequests(r)
      PROVE  StreamsOK'
  BY <1>3 DEF SubmitRequests
<1>4. CASE RequestsHandled \/ PipelinesFreed
  BY <1>4 DEF RequestsHandled, PipelinesFreed
<1>5. CASE ImgProcThreadExits \/ WorkThreadExits
  BY <1>5 DEF ImgProcThreadExits, WorkThreadExits
<1>6. CASE StopStreams
  BY <1>6 DEF StopStreams
<1>7. CASE TakeRequest \/ RequestDone
  BY <1>7 DEF TakeRequest, RequestDone
<1>8. CASE HandleElement
  BY <1>8 DEF HandleElement, Captured, Configured
<1>9. CASE IntentHandled
  BY <1>9 DEF IntentHandled, Captured
<1>10. CASE drainImages
  BY <1>10 DEF drainImages, ImagesDrained
<1>11. CASE Restart
  BY <1>0, <1>11, NullAssumption DEF Restart, Restarted, SetStream, StreamsTyped
<1>12. CASE RestartFails
  BY <1>0, <1>12 DEF RestartFails, Restarted, NoFrame, StopFails, OpenFails, ConfigureFails,
                     StartFails, Stopped, SetStream, StreamsTyped
<1>13. CASE feed
  BY <1>13 DEF feed
<1>14. ASSUME NEW s \in Stream, ConfigAndStart(s)
       PROVE  StreamsOK'
  BY <1>14 DEF ConfigAndStart
<1>15. ASSUME NEW s \in Stream, NEW b \in Buffer, FrameAcquired(s, b)
       PROVE  StreamsOK'
  BY <1>0, <1>15 DEF FrameAcquired, Tried, NoFrame, StreamsTyped
<1>16. ASSUME NEW s \in Stream, FrameTimesOut(s)
       PROVE  StreamsOK'
  BY <1>16 DEF FrameTimesOut, Tried, NoFrame
<1>17. ASSUME NEW s \in Stream, AcquireFails(s)
       PROVE  StreamsOK'
  BY <1>17 DEF AcquireFails, Tried, NoFrame
<1>18. CASE TakeImage
  BY <1>18 DEF TakeImage
<1>19. CASE CountError \/ CountResult
  <2>1. Uncounted /\ Len(mImageList) \in Nat
    BY <1>19, LenProperties DEF CountError, CountResult, Count, Uncounted, Core, DataTyped
  <2>2. wpc # "restart"
    BY <2>1 DEF Core, CountsAgree, ThreadsTyped, One
  <2>. QED  BY <1>19, <2>2 DEF CountError, CountResult, Count
<1>20. CASE NotifyError \/ SendResult \/ releaseImgFeed
  BY <1>20 DEF NotifyError, SendResult, releaseImgFeed, NoImage
<1>21. ASSUME NEW s \in Stream, NEW b \in Buffer, onFrameReturn(s, b)
       PROVE  StreamsOK'
  BY <1>21 DEF onFrameReturn
<1>22. CASE UNCHANGED vars
  BY <1>22 DEF vars
<1>. QED  BY <1>1, <1>2, <1>3, <1>4, <1>5, <1>6, <1>7, <1>8, <1>9, <1>10, <1>11, <1>12, <1>13,
             <1>14, <1>15, <1>16, <1>17, <1>18, <1>19, <1>20, <1>21, <1>22
          DEF Next, Call, Destroy, Delete, WorkThread, ImgProcThread, Capture

InList(p) == \E k \in DOMAIN mImageList : p \in mImageList[k].buffers

\* A buffer is in at most one place; the buffers of a stream that has them mapped
\* are somewhere or lost, and a lost one is nowhere.
Placed(s, b) ==
  LET p == <<s, b>>
  IN /\ b \in driver[s] => p \notin captured /\ p \notin image.buffers /\ ~InList(p)
     /\ p \in captured => p \notin image.buffers /\ ~InList(p)
     /\ p \in image.buffers => ~InList(p)
     /\ \A k, l \in DOMAIN mImageList :
          p \in mImageList[k].buffers /\ p \in mImageList[l].buffers => k = l
     /\ mapped[s] => \/ b \in driver[s] \/ p \in captured
                     \/ p \in image.buffers \/ InList(p) \/ p \in lost
     /\ p \in lost => /\ b \notin driver[s] /\ p \notin captured
                      /\ p \notin image.buffers /\ ~InList(p)
PlacesOK == \A s \in Stream : \A b \in Buffer : Placed(s, b)

\* A step that moves no buffer, but may lose some.
Loses(s, b) ==
  LET p == <<s, b>>
      gone == \/ p \in captured /\ p \notin captured'
              \/ b \in driver[s] /\ b \notin driver'[s]
  IN /\ p \in captured' => p \in captured
     /\ b \in driver'[s] => b \in driver[s]
     /\ p \in lost => p \in lost'
     /\ p \in lost' => p \in lost \/ gone
     /\ mapped'[s] => mapped[s] /\ (gone => p \in lost')
Shrinks ==
  /\ mImageList' = mImageList /\ image'.buffers = image.buffers
  /\ \A s \in Stream : \A b \in Buffer : Loses(s, b)

LEMMA ShrinksKeepsPlaces ==
  ASSUME PlacesOK, Shrinks
  PROVE  PlacesOK'
<1>1. ASSUME NEW s \in Stream, NEW b \in Buffer
      PROVE  Placed(s, b)'
  <2>1. InList(<<s, b>>)' <=> InList(<<s, b>>)
    BY DEF Shrinks, InList
  <2>2. Placed(s, b) /\ Loses(s, b)
    BY DEF PlacesOK, Shrinks
  <2>3. UNCHANGED <<mImageList>> /\ image'.buffers = image.buffers
    BY DEF Shrinks
  <2>. QED  BY <2>1, <2>2, <2>3 DEF Placed, Loses
<1>. QED  BY <1>1 DEF PlacesOK

LEMMA PlacesKept ==
  ASSUME Core, StreamsOK, PlacesOK, [Next]_vars
  PROVE  PlacesOK'
<1> USE DEF pipes, client, requests, work, element, feeds, img, flow, device, stream, budget
<1>0. Core /\ StreamsTyped /\ mImageList \in Seq(Image)
  BY DEF Core, DataTyped
<1>1. ASSUME Shrinks
      PROVE  PlacesOK'
  BY <1>1, ShrinksKeepsPlaces
<1>2. CASE Call
  <2>1. Shrinks
    BY <1>2 DEF Call, ConfigurePipeline, BuildPipelines, SubmitRequests, DestroyPipelines,
                DeleteSession, Shrinks, Loses
  <2>. QED  BY <1>1, <2>1
<1>3. CASE Destroy \/ ImgProcThreadExits \/ WorkThreadExits \/ UNCHANGED vars
  <2>1. Shrinks
    BY <1>3 DEF Destroy, RequestsHandled, PipelinesFreed, ImgProcThreadExits, WorkThreadExits,
                vars, Shrinks, Loses
  <2>. QED  BY <1>1, <2>1
<1>4. CASE StopStreams
  <2>1. Shrinks
    BY <1>4 DEF StopStreams, Shrinks, Loses
  <2>. QED  BY <1>1, <2>1
<1>5. CASE TakeRequest \/ HandleElement \/ RequestDone \/ IntentHandled \/ drainImages
  <2>1. Shrinks
    BY <1>5 DEF TakeRequest, HandleElement, RequestDone, IntentHandled, drainImages, Shrinks, Loses
  <2>. QED  BY <1>1, <2>1
<1>6. ASSUME NEW s \in Stream, ConfigAndStart(s)
      PROVE  PlacesOK'
  <2>1. Shrinks
    BY <1>6 DEF ConfigAndStart, Shrinks, Loses
  <2>. QED  BY <1>1, <2>1
<1>7. CASE CountError \/ CountResult \/ NotifyError \/ SendResult
  <2>1. Shrinks
    BY <1>7 DEF CountError, CountResult, Count, NotifyError, SendResult, Shrinks, Loses
  <2>. QED  BY <1>1, <2>1
<1>8. CASE releaseImgFeed
  <2>1. Shrinks
    BY <1>8 DEF releaseImgFeed, Shrinks, Loses, StreamsOK, NoImage
  <2>. QED  BY <1>1, <2>1
<1>9. CASE RestartFails
  <2>1. \/ captured' = captured /\ lost' = lost
        \/ captured' = {} /\ lost' = lost \union captured
    BY <1>9 DEF RestartFails, Restarted, NoFrame
  <2>2. \A s \in Stream : /\ driver'[s] \subseteq driver[s] /\ (mapped'[s] => mapped[s])
                          /\ mapped'[s] => driver'[s] = driver[s]
    BY <1>0, <1>9 DEF RestartFails, StopFails, OpenFails, ConfigureFails, StartFails, Stopped,
                      SetStream, StreamsTyped
  <2>3. mImageList' = mImageList /\ image' = image
    BY <1>9 DEF RestartFails
  <2>4. ASSUME NEW s \in Stream, NEW b \in Buffer
        PROVE  Loses(s, b)
    BY <2>1, <2>2 DEF Loses
  <2>5. Shrinks
    BY <2>3, <2>4 DEF Shrinks
  <2>. QED  BY <1>1, <2>5
<1>10. ASSUME NEW s \in Stream, FrameTimesOut(s) \/ AcquireFails(s)
       PROVE  PlacesOK'
  <2>1. \/ captured' = captured /\ lost' = lost
        \/ captured' = {} /\ lost' = lost \union captured
    BY <1>10 DEF FrameTimesOut, AcquireFails, NoFrame
  <2>2. UNCHANGED <<driver, mapped, mImageList, image>>
    BY <1>10 DEF FrameTimesOut, AcquireFails
  <2>3. Shrinks
    BY <2>1, <2>2 DEF Shrinks, Loses
  <2>. QED  BY <1>1, <2>3
<1>11. ASSUME NEW s \in Stream, NEW b \in Buffer, FrameAcquired(s, b), Omits(s) \/ ~mapped[s]
       PROVE  PlacesOK'
  <2>1. \/ UNCHANGED <<driver, captured, lost>>
        \/ /\ driver' = [driver EXCEPT ![s] = @ \ {b}]
           /\ captured' = {} /\ lost' = lost \union captured \union {<<s, b>>}
    BY <1>11 DEF FrameAcquired, NoFrame
  <2>2. b \in driver[s] /\ UNCHANGED <<mapped, mImageList, image>>
    BY <1>11 DEF FrameAcquired
  <2>3. ASSUME NEW t \in Stream, NEW c \in Buffer
        PROVE  Loses(t, c)
    BY <1>0, <2>1, <2>2 DEF Loses, StreamsTyped
  <2>4. Shrinks
    BY <2>2, <2>3 DEF Shrinks
  <2>. QED  BY <1>1, <2>4
<1>12. ASSUME NEW s \in Stream, NEW b \in Buffer, FrameAcquired(s, b), ~Omits(s), mapped[s]
       PROVE  PlacesOK'
  <2>1. /\ driver' = [driver EXCEPT ![s] = @ \ {b}] /\ captured' = captured \union {<<s, b>>}
        /\ b \in driver[s] /\ UNCHANGED <<image, mImageList, mapped, lost>>
    BY <1>12 DEF FrameAcquired
  <2>2. ASSUME NEW t \in Stream, NEW c \in Buffer
        PROVE  Placed(t, c)'
    <3>1. Placed(t, c) /\ Placed(s, b)
      BY DEF PlacesOK
    <3>2. InList(<<t, c>>)' <=> InList(<<t, c>>)
      BY <2>1 DEF InList
    <3>3. CASE t = s /\ c = b
      BY <1>0, <2>1, <3>1, <3>2, <3>3 DEF Placed, StreamsTyped
    <3>4. CASE ~(t = s /\ c = b)
      <4>1. (c \in driver'[t] <=> c \in driver[t]) /\ (<<t, c>> \in captured' <=> <<t, c>> \in captured)
        BY <1>0, <2>1, <3>4 DEF StreamsTyped
      <4>. QED  BY <2>1, <3>1, <3>2, <4>1 DEF Placed
    <3>. QED  BY <3>3, <3>4
  <2>. QED  BY <2>2 DEF PlacesOK
<1>13. CASE Restart
  <2>1. /\ target \in Stream /\ driver' = [driver EXCEPT ![target] = Buffer]
        /\ captured' = captured /\ UNCHANGED <<image, mImageList>>
        /\ lost' = lost \ ({target} \X Buffer)
        /\ \A s \in Stream : s # target => mapped'[s] = mapped[s]
    BY <1>0, <1>13 DEF Restart, Restarted, SetStream, StreamsTyped
  <2>2. mImageList = <<>> /\ image.buffers = {}
    <3>1. mLatestImageIdx = mProcdImageIdx /\ Len(mImageList) \in Nat
      BY <1>0, <1>13, LenProperties DEF Restart, StreamsOK
    <3>2. Len(mImageList) = 0 /\ ~Uncounted
      BY <1>0, <3>1 DEF Core, CountsAgree, ThreadsTyped, One
    <3>3. mImageList = <<>>
      BY <1>0, <3>2, EmptySeq
    <3>. QED  BY <3>2, <3>3 DEF StreamsOK, Uncounted
  <2>3. \A b \in Buffer : <<target, b>> \notin captured
    BY <1>13 DEF Restart, StreamsOK, Draining
  <2>4. ASSUME NEW t \in Stream, NEW c \in Buffer
        PROVE  Placed(t, c)'
    <3>1. Placed(t, c)
      BY DEF PlacesOK
    <3>2. ~InList(<<t, c>>) /\ ~InList(<<t, c>>)'
      BY <2>1, <2>2, EmptySeq DEF InList
    <3>3. CASE t = target
      BY <1>0, <2>1, <2>2, <2>3, <3>2, <3>3 DEF Placed, StreamsTyped
    <3>4. CASE t # target
      BY <1>0, <2>1, <2>2, <3>1, <3>2, <3>4 DEF Placed, StreamsTyped
    <3>. QED  BY <3>3, <3>4
  <2>. QED  BY <2>4 DEF PlacesOK
<1>14. CASE feed
  <2>1. PICK n : n = Len(mImageList) + 1
    OBVIOUS
  <2>2. /\ n \in DOMAIN mImageList' /\ n \notin DOMAIN mImageList
        /\ mImageList'[n].buffers = captured
        /\ \A k \in DOMAIN mImageList : k \in DOMAIN mImageList' /\ mImageList'[k] = mImageList[k]
        /\ \A k \in DOMAIN mImageList' :
             \/ k \in DOMAIN mImageList /\ mImageList'[k] = mImageList[k]
             \/ k = n
    BY <1>0, <1>14, <2>1, FedImage, LenProperties
  <2>3. captured' = {} /\ UNCHANGED <<driver, image, mapped, lost>>
    BY <1>14 DEF feed
  <2>4. \A p : InList(p)' <=> InList(p) \/ p \in captured
    BY <2>2 DEF InList
  <2>5. ASSUME NEW t \in Stream, NEW c \in Buffer
        PROVE  Placed(t, c)'
    <3>1. Placed(t, c)
      BY DEF PlacesOK
    <3>2. PICK p : p = <<t, c>>
      OBVIOUS
    <3>3. \A k, l \in DOMAIN mImageList' :
            p \in mImageList'[k].buffers /\ p \in mImageList'[l].buffers => k = l
      BY <2>2, <3>1, <3>2 DEF Placed, InList
    <3>. QED  BY <1>0, <2>3, <2>4, <3>1, <3>2, <3>3 DEF Placed
  <2>. QED  BY <2>5 DEF PlacesOK
<1>15. CASE TakeImage
  <2>1. image' = mImageList[1] /\ UNCHANGED <<driver, captured, mapped, lost>>
    BY <1>0, <1>15, TakenImage
  <2>2. image.buffers = {}
    BY <1>15 DEF TakeImage, StreamsOK
  <2>3. PICK n : n = Len(mImageList)
    OBVIOUS
  <2>4. /\ n \in Nat \ {0} /\ DOMAIN mImageList = 1 .. n /\ DOMAIN mImageList' = 1 .. n - 1
        /\ \A k \in 1 .. n - 1 : mImageList'[k] = mImageList[k + 1]
    BY <1>0, <1>15, <2>3, TakenImage, LenProperties
  <2>5. \A k \in 1 .. n : k = 1 \/ (k - 1 \in 1 .. n - 1 /\ mImageList'[k - 1] = mImageList[k])
    BY <2>4
  <2>6. \A k \in 1 .. n - 1 : k + 1 \in 1 .. n /\ k + 1 # 1 /\ mImageList'[k] = mImageList[k + 1]
    BY <2>4
  <2>7. 1 \in 1 .. n
    BY <2>4
  <2>8. ASSUME NEW t \in Stream, NEW c \in Buffer
        PROVE  Placed(t, c)'
    <3>1. Placed(t, c)
      BY DEF PlacesOK
    <3>2. PICK p : p = <<t, c>>
      OBVIOUS
    <3>3. InList(p) <=> InList(p)' \/ p \in image'.buffers
      <4>1. InList(p) => InList(p)' \/ p \in image'.buffers
        BY <2>1, <2>4, <2>5 DEF InList
      <4>2. InList(p)' \/ p \in image'.buffers => InList(p)
        BY <2>1, <2>4, <2>6, <2>7 DEF InList
      <4>. QED  BY <4>1, <4>2
    <3>4. \A k, l \in DOMAIN mImageList :
            p \in mImageList[k].buffers /\ p \in mImageList[l].buffers => k = l
      BY <3>1, <3>2 DEF Placed
    <3>5. p \in image'.buffers => ~InList(p)'
      BY <2>1, <2>4, <2>6, <2>7, <3>4 DEF InList
    <3>6. \A k, l \in DOMAIN mImageList' :
            p \in mImageList'[k].buffers /\ p \in mImageList'[l].buffers => k = l
      <4>1. \A k, l \in 1 .. n - 1 : k + 1 = l + 1 => k = l
        BY <2>4
      <4>. QED  BY <2>4, <2>6, <3>4, <4>1
    <3>. QED  BY <2>1, <2>2, <3>1, <3>2, <3>3, <3>5, <3>6 DEF Placed
  <2>. QED  BY <2>8 DEF PlacesOK
<1>16. ASSUME NEW s \in Stream, NEW b \in Buffer, onFrameReturn(s, b)
       PROVE  PlacesOK'
  <2>1. /\ <<s, b>> \in image.buffers /\ image'.buffers = image.buffers \ {<<s, b>>}
        /\ UNCHANGED <<captured, mImageList, mapped>>
        /\ \/ mbStart[s] /\ driver' = [driver EXCEPT ![s] = @ \union {b}] /\ lost' = lost
           \/ driver' = driver /\ lost' = lost \union {<<s, b>>}
    BY <1>0, <1>16, ReturnedImage DEF onFrameReturn, Requeue
  <2>2. ASSUME NEW t \in Stream, NEW c \in Buffer
        PROVE  Placed(t, c)'
    <3>1. Placed(t, c) /\ Placed(s, b)
      BY DEF PlacesOK
    <3>2. InList(<<t, c>>)' <=> InList(<<t, c>>)
      BY <2>1 DEF InList
    <3>3. CASE t = s /\ c = b
      <4>1. /\ <<s, b>> \notin captured' /\ <<s, b>> \notin image'.buffers
            /\ ~InList(<<s, b>>)' /\ <<s, b>> \notin lost /\ b \notin driver[s]
        BY <2>1, <3>1, <3>2, <3>3 DEF Placed
      <4>2. \/ b \in driver'[s] /\ <<s, b>> \notin lost'
            \/ b \notin driver'[s] /\ <<s, b>> \in lost'
        BY <1>0, <2>1, <4>1 DEF StreamsTyped
      <4>. QED  BY <2>1, <3>1, <3>3, <4>1, <4>2 DEF Placed
    <3>4. CASE ~(t = s /\ c = b)
      <4>1. /\ c \in driver'[t] <=> c \in driver[t]
            /\ <<t, c>> \in image'.buffers <=> <<t, c>> \in image.buffers
            /\ <<t, c>> \in lost' <=> <<t, c>> \in lost
        BY <1>0, <2>1, <3>4 DEF StreamsTyped
      <4>. QED  BY <2>1, <3>1, <3>2, <4>1 DEF Placed
    <3>. QED  BY <3>3, <3>4
  <2>. QED  BY <2>2 DEF PlacesOK
<1>. QED  BY <1>2, <1>3, <1>4, <1>5, <1>6, <1>7, <1>8, <1>9, <1>10, <1>11, <1>12, <1>13, <1>14,
             <1>15, <1>16 DEF Next, Delete, WorkThread, ImgProcThread, Capture

PlacesInv == HistoryInv /\ StreamsOK /\ PlacesOK

\* A buffer is in at most one place, those of a stream with mapped buffers are
\* somewhere or lost (PlacesOK); what WorkThread holds and has still to do agrees
\* with its step (StreamsOK).
THEOREM PlacesInvariant == Spec => []PlacesInv
<1>1. ASSUME Init
      PROVE  PlacesInv
  <2>1. StreamsOK
    BY <1>1 DEF Init, StreamsOK, Draining, NoImage
  <2>2. PlacesOK
    BY <1>1 DEF Init, PlacesOK, Placed, InList, NoImage
  <2>. QED  BY <1>1, <2>1, <2>2, HistoryInit DEF PlacesInv
<1>2. PlacesInv /\ [Next]_vars => PlacesInv'
  BY CoreKept, OrderKept, OutcomesKept, StreamsOKKept, PlacesKept DEF PlacesInv, HistoryInv
<1>. QED  BY <1>1, <1>2, PTL DEF Spec

\* A V4L2 buffer is in one place at a time, also across a restart of its stream on
\* whatever device, and comes back to the driver unless its element was dropped or
\* the driver refused it (ConfigAndStart, onFrameAcquire, onFrameReturn, BuffersAreKept).
THEOREM BuffersKept == Spec => []BuffersAreKept
<1>1. ASSUME PlacesInv
      PROVE  BuffersAreKept
  <2>1. /\ \A s \in Stream : \A b \in Buffer : Placed(s, b)
        /\ captured \subseteq BufferId /\ image.buffers \subseteq BufferId
        /\ mImageList \in Seq(Image)
    BY <1>1 DEF PlacesInv, PlacesOK, HistoryInv, Core, StreamsTyped, DataTyped, Image, NoImage
  <2>2. \A k \in DOMAIN mImageList : mImageList[k].buffers \subseteq BufferId
    <3>1. \A k \in DOMAIN mImageList : mImageList[k] \in Image
      BY <2>1, ElementOfSeq, LenProperties
    <3>. QED  BY <3>1 DEF Image
  <2>3. \A p : p \in Listed <=> InList(p)
    BY DEF Listed, Images, InList
  <2>4. BufferHasOnePlace
    <3>1. \A s \in Stream, b \in Buffer :
            b \in driver[s] => <<s, b>> \notin captured \union image.buffers \union Listed
      BY <2>1, <2>3 DEF Placed
    <3>2. captured \intersect (image.buffers \union Listed) = {}
      BY <2>1, <2>3 DEF Placed, BufferId
    <3>3. image.buffers \intersect Listed = {}
      BY <2>1, <2>3 DEF Placed, BufferId
    <3>4. \A i, j \in DOMAIN mImageList :
            i # j => mImageList[i].buffers \intersect mImageList[j].buffers = {}
      BY <2>1, <2>2 DEF Placed, BufferId
    <3>. QED  BY <3>1, <3>2, <3>3, <3>4 DEF BufferHasOnePlace
  <2>5. BuffersComeBack
    BY <2>1, <2>3 DEF BuffersComeBack, Placed
  <2>6. LostIsGone
    BY <2>1, <2>3 DEF LostIsGone, Placed
  <2>. QED  BY <2>4, <2>5, <2>6 DEF BuffersAreKept
<1>. QED  BY <1>1, PlacesInvariant, PTL

-----------------------------------------------------------------------------
(* What CallsReturn rests on.  That DestroyPipelines and the requests come to  *)
(* their end is checked on an instance; proved is that nobody waits in vain or *)
(* in a circle, and that what is drained is not filled meanwhile.              *)

SomeoneDrains == dpc = "drain" \/ wpc = "drain"
SomeImageLeft == mImageList # <<>> \/ Uncounted

\* While DestroyPipelines waits for requests WorkThread has one, or one to take;
\* while DestroyPipelines or WorkThread waits for images ImgProcThread has one, or
\* one to take.  Neither thread has ended, and none waits for a lock that the one
\* who waits for it keeps.
WaitsAreServed ==
  /\ dpc = "wait" /\ mDeQueRequestIdx # mInQueRequestIdx =>
       wpc # "exited" /\ LockFree /\ (Busy \/ map_frame_request # {})
  /\ SomeoneDrains /\ ~ImagesDrained => ipc # "exited" /\ V4l2LockFree /\ SomeImageLeft
  /\ dpc = "drain" => ~Busy

THEOREM NobodyWaitsInACircle == Spec => []WaitsAreServed
<1>1. ASSUME Core
      PROVE  WaitsAreServed
  <2>. USE <1>1 DEF Core, ThreadsTyped, CountsAgree, CallsOK
  <2>1. dpc = "wait" /\ mDeQueRequestIdx # mInQueRequestIdx =>
          wpc # "exited" /\ LockFree /\ (Busy \/ map_frame_request # {})
    <3>. SUFFICES ASSUME dpc = "wait", mDeQueRequestIdx # mInQueRequestIdx, ~Busy
                  PROVE  wpc # "exited" /\ LockFree /\ map_frame_request # {}
      BY DEF LockFree, Busy
    <3>1. mDeQueRequestIdx + 1 <= submitted /\ mDeQueRequestIdx \in Nat /\ submitted \in Nat
      BY BoundsAssumption DEF One
    <3>2. submitted \in map_frame_request
      BY <3>1 DEF One
    <3>. QED  BY <3>2 DEF LockFree
  <2>2. dpc = "drain" => ~Busy
    <3>1. submitted \in Nat
      BY BoundsAssumption
    <3>. QED  BY <3>1 DEF One
  <2>3. SomeoneDrains /\ ~ImagesDrained => ipc # "exited" /\ V4l2LockFree /\ SomeImageLeft
    <3>. SUFFICES ASSUME SomeoneDrains, ~ImagesDrained
                  PROVE  ipc # "exited" /\ V4l2LockFree /\ SomeImageLeft
      OBVIOUS
    <3>1. wpc \in {"drain", "idle", "exited"} /\ pipelines_built_
      BY <2>2 DEF SomeoneDrains, Busy
    <3>2. ipc # "exited"
      BY <3>1
    <3>3. SomeImageLeft
      <4>. SUFFICES ASSUME mImageList = <<>>, ~Uncounted PROVE FALSE
        BY DEF SomeImageLeft
      <4>1. Len(mImageList) = 0
        OBVIOUS
      <4>. QED  BY <4>1 DEF One, ImagesDrained
    <3>. QED  BY <3>1, <3>2, <3>3 DEF V4l2LockFree
  <2>. QED  BY <2>1, <2>2, <2>3 DEF WaitsAreServed
<1>. QED  BY <1>1, Invariant, PTL

\* While images are drained WorkThread adds none, and ImgProcThread counts them off
\* one at a time: the wait ends after as many as there were when it began.
THEOREM DrainingIsNotRefilled ==
  Spec => [][SomeoneDrains => UNCHANGED mLatestImageIdx /\ mProcdImageIdx' \in {mProcdImageIdx, mProcdImageIdx + 1}]_vars
<1>1. ASSUME Core, [Next]_vars, SomeoneDrains
      PROVE  UNCHANGED mLatestImageIdx /\ mProcdImageIdx' \in {mProcdImageIdx, mProcdImageIdx + 1}
  <2>. USE DEF feeds, img
  <2>1. CASE Call
    BY <2>1 DEF Call, ConfigurePipeline, BuildPipelines, SubmitRequests, DestroyPipelines, DeleteSession
  <2>2. CASE Destroy \/ Delete
    BY <2>2 DEF Destroy, Delete, RequestsHandled, PipelinesFreed, ImgProcThreadExits,
                WorkThreadExits, StopStreams
  <2>3. ASSUME feed
        PROVE  FALSE
    <3>1. dpc = "drain" => ~Busy
      <4>1. submitted \in Nat
        BY <1>1, BoundsAssumption DEF Core, ThreadsTyped
      <4>. QED  BY <1>1, <4>1 DEF Core, ThreadsTyped, CountsAgree, CallsOK, One
    <3>. QED  BY <1>1, <2>3, <3>1 DEF SomeoneDrains, Busy, feed
  <2>4. CASE TakeRequest \/ HandleElement \/ RequestDone \/ IntentHandled \/ drainImages
    BY <2>4 DEF TakeRequest, HandleElement, RequestDone, IntentHandled, drainImages
  <2>5. CASE Restart \/ RestartFails
    BY <2>5 DEF Restart, RestartFails
  <2>6. ASSUME NEW s \in Stream, ConfigAndStart(s) \/ Capture(s)
        PROVE  UNCHANGED <<mLatestImageIdx, mProcdImageIdx>>
    BY <2>6 DEF ConfigAndStart, Capture, FrameAcquired, FrameTimesOut, AcquireFails
  <2>7. CASE ImgProcThread
    BY <2>7 DEF ImgProcThread, TakeImage, CountError, CountResult, Count, NotifyError, SendResult,
                releaseImgFeed, onFrameReturn
  <2>8. CASE UNCHANGED vars
    BY <2>8 DEF vars
  <2>. QED
    BY <1>1, <2>1, <2>2, <2>3, <2>4, <2>5, <2>6, <2>7, <2>8 DEF Next, WorkThread
<1>. QED  BY <1>1, Invariant, PTL DEF Spec
=============================================================================
