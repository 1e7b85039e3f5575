------------------------------- MODULE EvsOwner -------------------------------
(***************************************************************************)
(* Who owns the EVS cameras and the EVS display: EvsEnumerator.cpp, the    *)
(* state of EvsDisplay.cpp, and the life of the camera objects of          *)
(* EvsCamera.cpp and V4l2Capture.cpp, all of src/evs/evs_hal.              *)
(*                                                                         *)
(* One binder thread serves the calls of all clients, one at a time; the   *)
(* polling thread fills the list of cameras.  A call is one step, but for  *)
(* those that search the list, which begin (bpc) and end.  An object lives *)
(* as long as a client has a proxy for it, or the HAL holds it strongly:   *)
(* the enumerator's own references are weak.  The streams themselves are   *)
(* EvsCamera's, the slots of the layer DisplaySlots'.                      *)
(***************************************************************************)
EXTENDS Integers

CONSTANTS
  Client,
  Record, Group,   \* the cameras that may be listed; the logical ones
  Device, Devices, \* the video devices of each
  MAX_LAYERS,      \* hardware layers of the composer
  MAX_CAMERAS, MAX_DISPLAYS,  \* bounds: objects made
  NULL

Camera == 1 .. MAX_CAMERAS
Display == 1 .. MAX_DISPLAYS
Layer == 0 .. MAX_LAYERS - 1

ASSUME CountsAssumption ==
  MAX_CAMERAS \in Nat /\ MAX_DISPLAYS \in Nat /\ MAX_LAYERS \in Nat \ {0}
ASSUME RecordAssumption == Group \subseteq Record /\ Devices \in [Record -> SUBSET Device]
ASSUME NullAssumption == NULL \notin Camera \union Display \union Client

VARIABLES
  dead,            \* the clients whose process has died
  known, ppc,      \* sCameraList, and the polling thread
  bpc,             \* the call that searches sCameraList, or {}
  activeInstance,  \* weak, of each record
  cameras,         \* camera objects made; of each:
  camRecord, camState,
  camHolder,       \* the client that has a proxy for it
  streamer,        \* the client whose death the camera is to be told of
  bufOwner,        \* the camera whose descriptor has the buffers of a device
  sActiveDisplay,  \* weak
  displays,        \* display objects made; of each:
  mLayer, mBuffers, mRequestedState, displayHolder,
  mLayers,         \* composer: the display each layer was given to
  crashed

listing == <<known, ppc, bpc>>
cams == <<activeInstance, cameras, camRecord, camState, camHolder, streamer, bufOwner>>
disps == <<sActiveDisplay, displays, mLayer, mBuffers, mRequestedState, displayHolder, mLayers>>
vars == <<dead, listing, cams, disps, crashed>>

\* The cameras are found when the service starts, or waited for.
Init ==
  /\ dead = {} /\ crashed = FALSE /\ bpc = {}
  /\ \/ ppc = "done" /\ known \in SUBSET (Record \ Group) \ {{}}
     \/ ppc = "polling" /\ known = {}
  /\ activeInstance = [r \in Record |-> NULL]
  /\ cameras = 0 /\ camRecord = [i \in Camera |-> NULL]
  /\ camState = [i \in Camera |-> "closed"]
  /\ camHolder = [i \in Camera |-> NULL] /\ streamer = [i \in Camera |-> NULL]
  /\ bufOwner = [d \in Device |-> NULL]
  /\ sActiveDisplay = NULL /\ displays = 0
  /\ mLayer = [d \in Display |-> -1] /\ mBuffers = [d \in Display |-> FALSE]
  /\ mRequestedState = [d \in Display |-> "NOT_VISIBLE"]
  /\ displayHolder = [d \in Display |-> NULL]
  /\ mLayers = [l \in Layer |-> NULL]

Calls(c) == c \in Client \ dead /\ bpc = {}

-----------------------------------------------------------------------------
(* The list of cameras: PollVideoFileThread and the calls that search it *)

mediaCreated ==
  /\ ppc = "polling" /\ ppc' = "adding"
  /\ UNCHANGED <<dead, known, bpc, cams, disps, crashed>>

\* The thread ends with the first device it finds.
EnumAvailableVideo ==
  /\ ppc = "adding"
  /\ \E found \in SUBSET (Record \ Group) :
       /\ known' = known \union found
       /\ ppc' = IF found = {} THEN "polling" ELSE "done"
  /\ UNCHANGED <<dead, bpc, cams, disps, crashed>>

Search(call) ==
  /\ bpc' = {call}
  /\ UNCHANGED <<dead, known, ppc, cams, disps, crashed>>

callList(c) == Calls(c) /\ Search([op |-> "list"])
callOpenCamera(c) ==
  /\ Calls(c) /\ cameras < MAX_CAMERAS
  /\ \E r \in Record : Search([op |-> "open", client |-> c, record |-> r])
callCloseCamera(c) ==
  /\ Calls(c)
  /\ \E i \in Camera : camHolder[i] = c /\ Search([op |-> "close", camera |-> i])

\* The list has no lock: a search may find it half linked.
SearchFails ==
  /\ bpc # {} /\ ppc = "adding" /\ crashed' = TRUE
  /\ UNCHANGED <<dead, listing, cams, disps>>

\* The logical cameras are added by the first call that lists them.
getCameraList ==
  /\ \E call \in bpc : call.op = "list"
  /\ bpc' = {} /\ known' = known \union Group
  /\ UNCHANGED <<dead, ppc, cams, disps, crashed>>

-----------------------------------------------------------------------------
(* Cameras *)

\* The recipient of the client's death, registered with a stream, keeps its camera.
CameraLives(i) == camHolder[i] # NULL \/ streamer[i] # NULL
Promote(r) == IF activeInstance[r] # NULL /\ CameraLives(activeInstance[r])
              THEN activeInstance[r] ELSE NULL

Without(i) == [d \in Device |-> IF bufOwner[d] = i THEN NULL ELSE bufOwner[d]]

\* shutdown() stops the stream and closes the devices.
shutdown(i) ==
  /\ camState' = [camState EXCEPT ![i] = "closed"]
  /\ streamer' = [streamer EXCEPT ![i] = NULL]
  /\ bufOwner' = Without(i)

findFails ==
  /\ \E call \in bpc : call.op = "open" /\ call.record \notin known
  /\ bpc' = {}
  /\ UNCHANGED <<dead, known, ppc, cams, disps, crashed>>

\* Buffers are asked for as a device is opened; that another descriptor has
\* them is logged.
Requested(i, r, owners) ==
  [d \in Device |-> IF d \in Devices[r] /\ owners[d] = NULL THEN i ELSE owners[d]]

openCamera ==
  \E call \in bpc :
    LET r == call.record
        i == cameras + 1
        old == Promote(r)
    IN /\ call.op = "open" /\ r \in known
       /\ bpc' = {} /\ cameras' = i
       /\ camRecord' = [camRecord EXCEPT ![i] = r]
       /\ camState' = [j \in Camera |-> IF j = i THEN "fresh"
                                        ELSE IF j = old THEN "closed" ELSE camState[j]]
       /\ streamer' = [j \in Camera |-> IF j = old THEN NULL ELSE streamer[j]]
       /\ camHolder' = [camHolder EXCEPT ![i] = call.client]
       /\ bufOwner' = Requested(i, r, IF old = NULL THEN bufOwner ELSE Without(old))
       /\ activeInstance' = [activeInstance EXCEPT ![r] = i]
       /\ UNCHANGED <<dead, known, ppc, disps, crashed>>

\* Mutant: whichever camera is closed, the record forgets the one it has.
closeCameraAny ==
  \E call \in bpc :
    /\ call.op = "close" /\ bpc' = {}
    /\ shutdown(call.camera)
    /\ activeInstance' = [activeInstance EXCEPT ![camRecord[call.camera]] = NULL]
    /\ UNCHANGED <<dead, known, ppc, cameras, camRecord, camHolder, disps, crashed>>

\* A camera that was taken away is not the record's any more: it stays as it is.
closeCamera ==
  \E call \in bpc :
    LET r == camRecord[call.camera]
    IN /\ call.op = "close" /\ bpc' = {}
       /\ IF Promote(r) = call.camera
          THEN /\ shutdown(call.camera)
               /\ activeInstance' = [activeInstance EXCEPT ![r] = NULL]
          ELSE UNCHANGED <<camState, streamer, bufOwner, activeInstance>>
       /\ UNCHANGED <<dead, known, ppc, cameras, camRecord, camHolder, disps, crashed>>

OwnsDevices(i) == \A d \in Devices[camRecord[i]] : bufOwner[d] = i

\* Mutant: the error of a device that another camera has is ignored.
startUnchecked(c, i) ==
  /\ Calls(c) /\ camHolder[i] = c /\ camState[i] = "fresh"
  /\ camState' = [camState EXCEPT ![i] = "streaming"]
  /\ streamer' = [streamer EXCEPT ![i] = c]
  /\ UNCHANGED <<dead, listing, activeInstance, cameras, camRecord, camHolder, bufOwner, disps,
                 crashed>>

\* A start that fails shuts the camera down.
startVideoStream(c, i) ==
  /\ Calls(c) /\ camHolder[i] = c /\ camState[i] = "fresh"
  /\ IF OwnsDevices(i)
     THEN /\ camState' = [camState EXCEPT ![i] = "streaming"]
          /\ streamer' = [streamer EXCEPT ![i] = c]
          /\ UNCHANGED bufOwner
     ELSE shutdown(i)
  /\ UNCHANGED <<dead, listing, activeInstance, cameras, camRecord, camHolder, disps, crashed>>

\* The buffers are given back, the devices stay open.
stopVideoStream(c, i) ==
  /\ Calls(c) /\ camHolder[i] = c /\ camState[i] = "streaming"
  /\ camState' = [camState EXCEPT ![i] = "stopped"]
  /\ streamer' = [streamer EXCEPT ![i] = NULL]
  /\ bufOwner' = Without(i)
  /\ UNCHANGED <<dead, listing, activeInstance, cameras, camRecord, camHolder, disps, crashed>>

\* The destructor closes nothing: what the camera has open stays open.
dropCamera(c, i) ==
  /\ bpc = {} /\ camHolder[i] = c
  /\ camHolder' = [camHolder EXCEPT ![i] = NULL]
  /\ UNCHANGED <<dead, listing, activeInstance, cameras, camRecord, camState, streamer, bufOwner,
                 disps, crashed>>

serviceDied(i) ==
  /\ bpc = {} /\ streamer[i] \in dead
  /\ shutdown(i)
  /\ UNCHANGED <<dead, listing, activeInstance, cameras, camRecord, camHolder, disps, crashed>>

-----------------------------------------------------------------------------
(* The display *)

Owner == IF sActiveDisplay # NULL /\ displayHolder[sActiveDisplay] # NULL THEN sActiveDisplay ELSE NULL

\* Mutant: a display keeps the number of the layer it gave back.
LayerKept(d) == mLayer[d]
LayerAfter(d) == -1

\* mLayers after putLayer(), which ignores -1
Put(d) == IF d # NULL /\ mLayer[d] # -1 THEN [mLayers EXCEPT ![mLayer[d]] = NULL] ELSE mLayers
FirstFree(layers) ==
  LET free == {l \in Layer : layers[l] = NULL}
  IN IF free = {} THEN -1 ELSE CHOOSE l \in free : \A k \in free : l <= k

forceShutdown(d) ==
  /\ mLayers' = Put(d)
  /\ mLayer' = [mLayer EXCEPT ![d] = LayerAfter(d)]
  /\ mBuffers' = [mBuffers EXCEPT ![d] = FALSE]
  /\ mRequestedState' = [mRequestedState EXCEPT ![d] = "DEAD"]

\* The old display is shut down before the new one asks for a layer.
openDisplay(c) ==
  /\ Calls(c) /\ displays < MAX_DISPLAYS
  /\ LET d == displays + 1
         old == Owner
         layer == FirstFree(Put(old))
     IN /\ displays' = d /\ sActiveDisplay' = d
        /\ displayHolder' = [displayHolder EXCEPT ![d] = c]
        /\ mLayers' = [l \in Layer |-> IF l = layer THEN d ELSE Put(old)[l]]
        /\ mLayer' = [x \in Display |-> IF x = d THEN layer
                                        ELSE IF x = old THEN LayerAfter(old) ELSE mLayer[x]]
        /\ mBuffers' = [x \in Display |-> IF x = d THEN layer # -1
                                          ELSE x # old /\ mBuffers[x]]
        /\ mRequestedState' = [x \in Display |-> IF x = old THEN "DEAD" ELSE mRequestedState[x]]
  /\ UNCHANGED <<dead, listing, cams, crashed>>

closeDisplay(c, d) ==
  /\ Calls(c) /\ displayHolder[d] = c
  /\ IF Owner = d THEN forceShutdown(d) /\ sActiveDisplay' = NULL
     ELSE UNCHANGED <<mLayers, mLayer, mBuffers, mRequestedState, sActiveDisplay>>
  /\ UNCHANGED <<dead, listing, cams, displays, displayHolder, crashed>>

setDisplayState(c, d, state) ==
  /\ Calls(c) /\ displayHolder[d] = c /\ mRequestedState[d] # "DEAD"
  /\ mRequestedState' = [mRequestedState EXCEPT ![d] = state]
  /\ UNCHANGED <<dead, listing, cams, sActiveDisplay, displays, mLayer, mBuffers, displayHolder,
                 mLayers, crashed>>

returnTargetBufferForDisplay(c, d) ==
  /\ Calls(c) /\ displayHolder[d] = c
  /\ mBuffers[d] /\ mRequestedState[d] = "VISIBLE_ON_NEXT_FRAME"
  /\ mRequestedState' = [mRequestedState EXCEPT ![d] = "VISIBLE"]
  /\ UNCHANGED <<dead, listing, cams, sActiveDisplay, displays, mLayer, mBuffers, displayHolder,
                 mLayers, crashed>>

\* The destructor shuts the display down once more.
dropDisplay(c, d) ==
  /\ bpc = {} /\ displayHolder[d] = c
  /\ displayHolder' = [displayHolder EXCEPT ![d] = NULL]
  /\ forceShutdown(d)
  /\ UNCHANGED <<dead, listing, cams, sActiveDisplay, displays, crashed>>

-----------------------------------------------------------------------------
\* Its proxies are dropped, and its death told, later.
clientDies(c) ==
  /\ c \in Client \ dead /\ dead' = dead \union {c}
  /\ UNCHANGED <<listing, cams, disps, crashed>>

CameraCall(c, i) == startVideoStream(c, i) \/ stopVideoStream(c, i) \/ dropCamera(c, i)
DisplayState == {"NOT_OPEN", "NOT_VISIBLE", "VISIBLE_ON_NEXT_FRAME", "VISIBLE", "DEAD"}
DisplayCall(c, d) ==
  \/ closeDisplay(c, d) \/ returnTargetBufferForDisplay(c, d) \/ dropDisplay(c, d)
  \/ \E state \in DisplayState : setDisplayState(c, d, state)

Next ==
  /\ ~crashed
  /\ \/ mediaCreated \/ EnumAvailableVideo \/ SearchFails
     \/ getCameraList \/ findFails \/ openCamera \/ closeCamera
     \/ \E i \in Camera : serviceDied(i)
     \/ \E c \in Client : \/ clientDies(c) \/ openDisplay(c)
                          \/ callList(c) \/ callOpenCamera(c) \/ callCloseCamera(c)
                          \/ \E i \in Camera : CameraCall(c, i)
                          \/ \E d \in Display : DisplayCall(c, d)

Spec == Init /\ [][Next]_vars

-----------------------------------------------------------------------------
Call == [op : {"list"}] \union [op : {"open"}, client : Client, record : Record]
          \union [op : {"close"}, camera : Camera]

\* The values every variable may take.
TypeOK ==
  /\ dead \subseteq Client /\ known \subseteq Record
  /\ ppc \in {"polling", "adding", "done"}
  /\ bpc = {} \/ \E call \in Call : bpc = {call}
  /\ activeInstance \in [Record -> Camera \union {NULL}] /\ cameras \in 0 .. MAX_CAMERAS
  /\ camRecord \in [Camera -> Record \union {NULL}]
  /\ camState \in [Camera -> {"fresh", "streaming", "stopped", "closed"}]
  /\ camHolder \in [Camera -> Client \union {NULL}]
  /\ streamer \in [Camera -> Client \union {NULL}]
  /\ bufOwner \in [Device -> Camera \union {NULL}]
  /\ sActiveDisplay \in Display \union {NULL} /\ displays \in 0 .. MAX_DISPLAYS
  /\ mLayer \in [Display -> Layer \union {-1}] /\ mBuffers \in [Display -> BOOLEAN]
  /\ mRequestedState \in [Display -> DisplayState]
  /\ displayHolder \in [Display -> Client \union {NULL}]
  /\ mLayers \in [Layer -> Display \union {NULL}]
  /\ crashed \in BOOLEAN

\* "we need to shut it down so we can give exclusive access to the new caller"
\* (EvsEnumerator.cpp:581): the composer has one layer at most, that of the display
\* opened last; a display that was taken away or dropped has no layer, keeps no
\* layer busy and gives back no layer that has a new owner.
OneDisplayOwner ==
  /\ \A l \in Layer : mLayers[l] # NULL => mLayers[l] = Owner /\ mLayer[Owner] = l
  /\ Owner # NULL => mLayer[Owner] # -1 /\ mLayers[mLayer[Owner]] = Owner
  /\ \A d \in 1 .. displays : d # Owner =>
       mRequestedState[d] = "DEAD" /\ mLayer[d] = -1 /\ ~mBuffers[d]

\* "Put this object into an unrecoverable error state" (EvsDisplay.cpp:158): no
\* sequence of calls brings a display back.
DeadIsFinal ==
  [][\A d \in Display : mRequestedState[d] = "DEAD" => mRequestedState'[d] = "DEAD"]_vars

\* Of the cameras that clients or streams keep alive, only the one that was opened
\* last for a record is open, and the enumerator knows it, so that it can be taken
\* away (EvsEnumerator::openCamera, closeCamera).
OneCameraOwner ==
  \A i \in Camera : CameraLives(i) /\ camState[i] # "closed" => activeInstance[camRecord[i]] = i

\* A camera streams only while it has the buffers of all its devices, also when a
\* logical camera and one of its members are open at once; so no device streams
\* for two cameras (V4l2Capture::onStart).
StreamsOwnDevices == \A i \in Camera : camState[i] = "streaming" => OwnsDevices(i)
=============================================================================
