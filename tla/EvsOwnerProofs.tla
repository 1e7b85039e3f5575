--------------------------- MODULE EvsOwnerProofs ---------------------------
(***************************************************************************)
(* Theorems about EvsOwner, for every set of clients, cameras and devices, *)
(* and every number of layers and of objects made.                         *)
(***************************************************************************)
EXTENDS EvsOwner, TLAPS

\* Objects are numbered in the order they are made; what is not made has nothing.
CamerasMade ==
  /\ \A i \in Camera : i > cameras => camState[i] = "closed" /\ camHolder[i] = NULL /\ streamer[i] = NULL
  /\ \A i \in Camera : i <= cameras => camRecord[i] \in Record
DisplaysMade ==
  /\ \A d \in Display : d > displays => ~mBuffers[d] /\ mLayer[d] = -1 /\ displayHolder[d] = NULL
  /\ sActiveDisplay # NULL => sActiveDisplay <= displays

\* A call that searches has the camera it closes, or room for the one it opens.
CallsMeant == \A call \in bpc : call.op = "open" => cameras < MAX_CAMERAS

ListingOK ==
  /\ dead \subseteq Client /\ known \subseteq Record
  /\ ppc \in {"polling", "adding", "done"}
  /\ bpc = {} \/ \E call \in Call : bpc = {call}
  /\ crashed \in BOOLEAN

CamerasOK ==
  /\ activeInstance \in [Record -> Camera \union {NULL}] /\ cameras \in 0 .. MAX_CAMERAS
  /\ camRecord \in [Camera -> Record \union {NULL}]
  /\ camState \in [Camera -> {"fresh", "streaming", "stopped", "closed"}]
  /\ camHolder \in [Camera -> Client \union {NULL}]
  /\ streamer \in [Camera -> Client \union {NULL}]
  /\ bufOwner \in [Device -> Camera \union {NULL}]

DisplaysOK ==
  /\ sActiveDisplay \in Display \union {NULL} /\ displays \in 0 .. MAX_DISPLAYS
  /\ mLayer \in [Display -> Layer \union {-1}] /\ mBuffers \in [Display -> BOOLEAN]
  /\ mRequestedState \in [Display -> DisplayState]
  /\ displayHolder \in [Display -> Client \union {NULL}]
  /\ mLayers \in [Layer -> Display \union {NULL}]

DisplayInv == DisplaysOK /\ DisplaysMade /\ OneDisplayOwner
CameraInv == CamerasOK /\ CamerasMade /\ OneCameraOwner /\ StreamsOwnDevices
OwnerInv == ListingOK /\ CallsMeant /\ CameraInv /\ DisplayInv

-----------------------------------------------------------------------------
(* The display *)

LEMMA LayersAreNumbers == Layer \subseteq Nat /\ 0 \in Layer /\ -1 \notin Layer
  BY CountsAssumption DEF Layer

\* A composer all of whose layers are free gives its first.
LEMMA FirstOfFree ==
  ASSUME NEW layers, \A l \in Layer : layers[l] = NULL
  PROVE  FirstFree(layers) = 0
<1>1. {l \in Layer : layers[l] = NULL} = Layer /\ Layer # {}
  BY LayersAreNumbers
<1>2. FirstFree(layers) = CHOOSE l \in Layer : \A k \in Layer : l <= k
  BY <1>1 DEF FirstFree
<1>3. \A k \in Layer : 0 <= k
  BY LayersAreNumbers
<1>4. \A l \in Layer : (\A k \in Layer : l <= k) => l = 0
  BY LayersAreNumbers
<1>5. QED BY <1>2, <1>3, <1>4, LayersAreNumbers

\* Once the owner has given its layer back, no layer is busy.
LEMMA OwnerGivesBack ==
  ASSUME DisplaysOK, OneDisplayOwner
  PROVE  \A l \in Layer : Put(Owner)[l] = NULL
<1>1. CASE Owner = NULL
  BY <1>1 DEF OneDisplayOwner, Put
<1>2. CASE Owner # NULL
  <2>1. mLayer[Owner] # -1 /\ mLayers[mLayer[Owner]] = Owner
    BY <1>2 DEF OneDisplayOwner
  <2>2. Put(Owner) = [mLayers EXCEPT ![mLayer[Owner]] = NULL]
    BY <1>2, <2>1 DEF Put
  <2>3. \A l \in Layer : l # mLayer[Owner] => mLayers[l] = NULL
    BY DEF OneDisplayOwner
  <2>4. QED BY <2>2, <2>3 DEF DisplaysOK
<1>3. QED BY <1>1, <1>2

LEMMA OwnerIsADisplay ==
  ASSUME DisplaysOK, Owner # NULL
  PROVE  /\ Owner \in Display /\ Owner = sActiveDisplay
         /\ displayHolder[Owner] # NULL
  BY DEF DisplaysOK, Owner

LEMMA OpenDisplayKeeps ==
  ASSUME DisplayInv, NEW c \in Client, openDisplay(c)
  PROVE  DisplayInv'
<1> DEFINE d == displays + 1
<1>1. d \in Display /\ displays \in Nat /\ displays' = d /\ sActiveDisplay' = d
      /\ displayHolder' = [displayHolder EXCEPT ![d] = c] /\ mRequestedState' \in [Display -> DisplayState]
  BY CountsAssumption DEF openDisplay, DisplayInv, DisplaysOK, Display, DisplayState
<1>2. FirstFree(Put(Owner)) = 0
  BY OwnerGivesBack, FirstOfFree DEF DisplayInv
<1>3. mLayers' = [l \in Layer |-> IF l = 0 THEN d ELSE Put(Owner)[l]]
  BY <1>2 DEF openDisplay
<1>4. mLayers' = [l \in Layer |-> IF l = 0 THEN d ELSE NULL]
  BY <1>3, OwnerGivesBack DEF DisplayInv
<1>5. /\ mLayer' = [x \in Display |-> IF x = d THEN 0 ELSE IF x = Owner THEN -1 ELSE mLayer[x]]
      /\ mBuffers' = [x \in Display |-> IF x = d THEN TRUE ELSE x # Owner /\ mBuffers[x]]
      /\ mRequestedState' = [x \in Display |-> IF x = Owner THEN "DEAD" ELSE mRequestedState[x]]
  <2>1. 0 # -1
    OBVIOUS
  <2>2. (0 # -1) = TRUE
    BY <2>1
  <2>3. QED BY <1>2, <2>2, Zenon DEF openDisplay, LayerAfter
<1>6. c # NULL /\ d # NULL
  BY <1>1, NullAssumption
<1>7. Owner' = d
  BY <1>1, <1>6 DEF Owner, DisplayInv, DisplaysOK
<1>8. DisplaysOK'
  <2>1. /\ sActiveDisplay' \in Display \union {NULL} /\ displays' \in 0 .. MAX_DISPLAYS
        /\ mLayer' \in [Display -> Layer \union {-1}]
        /\ displayHolder' \in [Display -> Client \union {NULL}]
        /\ mLayers' \in [Layer -> Display \union {NULL}]
    BY <1>1, <1>4, <1>5, CountsAssumption, LayersAreNumbers DEF DisplayInv, DisplaysOK, Display
  <2>2. mBuffers' \in [Display -> BOOLEAN]
    BY <1>5, Zenon DEF DisplayInv, DisplaysOK
  <2>3. QED BY <1>1, <2>1, <2>2 DEF DisplaysOK
<1>9. DisplaysMade'
  <2>1. \A x \in Display : x > displays' => x > displays /\ x # d
    BY <1>1 DEF Display
  <2>2. QED BY <1>1, <1>5, <2>1 DEF DisplayInv, DisplaysMade, DisplaysOK
<1>10. OneDisplayOwner'
  <2>1. \A x \in 1 .. displays' : x # d => x \in 1 .. displays /\ x \in Display
    BY <1>1, CountsAssumption DEF Display, DisplayInv, DisplaysOK
  <2>2. \A x \in 1 .. displays' : x # d => mRequestedState'[x] = "DEAD" /\ mLayer'[x] = -1 /\ ~mBuffers'[x]
    BY <1>5, <2>1 DEF DisplayInv, OneDisplayOwner
  <2>3. mLayer'[d] = 0 /\ mLayers'[0] = d /\ \A l \in Layer : mLayers'[l] # NULL => l = 0
    BY <1>1, <1>4, <1>5, LayersAreNumbers
  <2>4. QED BY <1>6, <1>7, <2>2, <2>3, LayersAreNumbers DEF OneDisplayOwner
<1>11. QED BY <1>8, <1>9, <1>10 DEF DisplayInv

\* What shutting a display down does, whoever asks for it.
LEMMA ShutdownKeeps ==
  ASSUME DisplayInv, NEW d \in Display, displayHolder[d] # NULL, forceShutdown(d),
         displays' = displays, sActiveDisplay' \in {sActiveDisplay, NULL},
         displayHolder' \in [Display -> Client \union {NULL}],
         \A x \in Display : displayHolder'[x] \in {displayHolder[x], NULL},
         d = Owner => Owner' = NULL, d # Owner => Owner' = Owner
  PROVE  DisplayInv'
<1>1. /\ mLayer' = [mLayer EXCEPT ![d] = -1]
      /\ mBuffers' = [mBuffers EXCEPT ![d] = FALSE]
      /\ mRequestedState' = [mRequestedState EXCEPT ![d] = "DEAD"]
      /\ mLayers' = Put(d)
  BY DEF forceShutdown, LayerAfter
<1>2. d # NULL /\ d \in 1 .. displays /\ displays \in Nat
  BY NullAssumption DEF DisplayInv, DisplaysMade, DisplaysOK, Display
<1>3. DisplaysOK'
  BY <1>1, LayersAreNumbers DEF DisplayInv, DisplaysOK, DisplayState, Put
<1>4. DisplaysMade'
  BY <1>1, <1>2 DEF DisplayInv, DisplaysMade, DisplaysOK
<1>5. \A x \in 1 .. displays : x # d => mRequestedState'[x] = mRequestedState[x]
        /\ mLayer'[x] = mLayer[x] /\ mBuffers'[x] = mBuffers[x]
  BY <1>1, CountsAssumption DEF DisplayInv, DisplaysOK, Display
<1>6. mRequestedState'[d] = "DEAD" /\ mLayer'[d] = -1 /\ ~mBuffers'[d]
  BY <1>1 DEF DisplayInv, DisplaysOK
<1>7. CASE d = Owner
  <2>1. \A l \in Layer : mLayers'[l] = NULL
    BY <1>1, <1>7, OwnerGivesBack DEF DisplayInv
  <2>2. Owner' = NULL
    BY <1>7
  <2>3. \A x \in 1 .. displays' : mRequestedState'[x] = "DEAD" /\ mLayer'[x] = -1 /\ ~mBuffers'[x]
    BY <1>5, <1>6, <1>7 DEF DisplayInv, OneDisplayOwner
  <2>4. OneDisplayOwner'
    BY <2>1, <2>2, <2>3 DEF OneDisplayOwner
  <2>5. QED BY <1>3, <1>4, <2>4 DEF DisplayInv
<1>8. CASE d # Owner
  <2>1. mLayer[d] = -1
    BY <1>2, <1>8 DEF DisplayInv, OneDisplayOwner
  <2>2. mLayers' = mLayers /\ Owner' = Owner
    BY <1>1, <1>8, <2>1 DEF Put
  <2>3. Owner # NULL => Owner \in Display /\ mLayer'[Owner] = mLayer[Owner]
    BY <1>1, <1>8, OwnerIsADisplay DEF DisplayInv, DisplaysOK
  <2>4. \A l \in Layer : mLayers'[l] # NULL => mLayers'[l] = Owner' /\ mLayer'[Owner'] = l
    <3>1. SUFFICES ASSUME NEW l \in Layer, mLayers[l] # NULL
                   PROVE  mLayers[l] = Owner /\ mLayer'[Owner] = l
      BY <2>2
    <3>2. mLayers[l] = Owner /\ mLayer[Owner] = l
      BY <3>1 DEF DisplayInv, OneDisplayOwner
    <3>3. QED BY <2>3, <3>1, <3>2
  <2>5. Owner' # NULL => mLayer'[Owner'] # -1 /\ mLayers'[mLayer'[Owner']] = Owner'
    BY <2>2, <2>3 DEF DisplayInv, OneDisplayOwner
  <2>6. \A x \in 1 .. displays' : x # Owner' => mRequestedState'[x] = "DEAD" /\ mLayer'[x] = -1 /\ ~mBuffers'[x]
    BY <1>5, <1>6, <2>2 DEF DisplayInv, OneDisplayOwner
  <2>7. OneDisplayOwner'
    BY <2>4, <2>5, <2>6 DEF OneDisplayOwner
  <2>8. QED BY <1>3, <1>4, <2>7 DEF DisplayInv
<1>9. QED BY <1>7, <1>8

LEMMA DisplayUnchanged ==
  ASSUME DisplayInv, UNCHANGED disps
  PROVE  DisplayInv'
  BY DEF DisplayInv, disps, DisplaysOK, DisplaysMade, OneDisplayOwner, Owner

LEMMA CloseDisplayKeeps ==
  ASSUME DisplayInv, NEW c \in Client, NEW d \in Display, closeDisplay(c, d)
  PROVE  DisplayInv'
<1>1. CASE Owner = d
  <2>1. Owner' = NULL
    BY <1>1 DEF closeDisplay, Owner
  <2>2. displayHolder[d] # NULL /\ forceShutdown(d) /\ sActiveDisplay' = NULL
        /\ displays' = displays /\ displayHolder' = displayHolder
    BY <1>1, NullAssumption DEF closeDisplay
  <2>3. QED BY <1>1, <2>1, <2>2, ShutdownKeeps DEF DisplayInv, DisplaysOK
<1>2. CASE Owner # d
  BY <1>2, DisplayUnchanged DEF closeDisplay, disps
<1>3. QED BY <1>1, <1>2

LEMMA DropDisplayKeeps ==
  ASSUME DisplayInv, NEW c \in Client, NEW d \in Display, dropDisplay(c, d)
  PROVE  DisplayInv'
<1>1. /\ displayHolder[d] # NULL /\ forceShutdown(d) /\ UNCHANGED <<sActiveDisplay, displays>>
      /\ displayHolder' = [displayHolder EXCEPT ![d] = NULL]
  BY NullAssumption DEF dropDisplay
<1>2. d = Owner => Owner' = NULL
  BY <1>1 DEF Owner, DisplayInv, DisplaysOK
<1>3. d # Owner => Owner' = Owner
  BY <1>1, OwnerIsADisplay DEF Owner, DisplayInv, DisplaysOK
<1>4. /\ displayHolder' \in [Display -> Client \union {NULL}]
      /\ \A x \in Display : displayHolder'[x] \in {displayHolder[x], NULL}
  BY <1>1 DEF DisplayInv, DisplaysOK
<1>5. QED BY <1>1, <1>2, <1>3, <1>4, ShutdownKeeps

\* A client changes the state of the owner's display only.
LEMMA StateKeeps ==
  ASSUME DisplayInv, NEW d \in Display, NEW state \in DisplayState, d = Owner,
         mRequestedState' = [mRequestedState EXCEPT ![d] = state],
         UNCHANGED <<sActiveDisplay, displays, mLayer, mBuffers, displayHolder, mLayers>>
  PROVE  DisplayInv'
<1>1. Owner' = Owner
  BY DEF Owner
<1>2. DisplaysOK' /\ DisplaysMade'
  BY DEF DisplayInv, DisplaysOK, DisplaysMade
<1>3. \A x \in 1 .. displays : x # d => mRequestedState'[x] = mRequestedState[x]
  BY CountsAssumption DEF DisplayInv, DisplaysOK, Display
<1>4. OneDisplayOwner'
  BY <1>1, <1>3 DEF DisplayInv, OneDisplayOwner
<1>5. QED BY <1>2, <1>4 DEF DisplayInv

LEMMA HeldIsMade ==
  ASSUME DisplayInv, NEW d \in Display, displayHolder[d] # NULL
  PROVE  d \in 1 .. displays
  BY CountsAssumption DEF DisplayInv, DisplaysMade, DisplaysOK, Display

LEMMA SetDisplayStateKeeps ==
  ASSUME DisplayInv, NEW c \in Client, NEW d \in Display, NEW state \in DisplayState,
         setDisplayState(c, d, state)
  PROVE  DisplayInv'
<1>1. displayHolder[d] # NULL /\ mRequestedState[d] # "DEAD"
  BY NullAssumption DEF setDisplayState
<1>2. d = Owner
  BY <1>1, HeldIsMade DEF DisplayInv, OneDisplayOwner
<1>3. QED BY <1>2, StateKeeps DEF setDisplayState

LEMMA ReturnTargetBufferKeeps ==
  ASSUME DisplayInv, NEW c \in Client, NEW d \in Display, returnTargetBufferForDisplay(c, d)
  PROVE  DisplayInv'
<1>1. displayHolder[d] # NULL /\ mBuffers[d]
  BY NullAssumption DEF returnTargetBufferForDisplay
<1>2. d = Owner
  BY <1>1, HeldIsMade DEF DisplayInv, OneDisplayOwner
<1>3. "VISIBLE" \in DisplayState
  BY DEF DisplayState
<1>4. QED BY <1>2, <1>3, StateKeeps DEF returnTargetBufferForDisplay

LEMMA DisplayCallKeeps ==
  ASSUME DisplayInv, NEW c \in Client, NEW d \in Display, DisplayCall(c, d)
  PROVE  DisplayInv'
  BY CloseDisplayKeeps, DropDisplayKeeps, SetDisplayStateKeeps, ReturnTargetBufferKeeps
     DEF DisplayCall

-----------------------------------------------------------------------------
(* The cameras *)

LEMMA CamerasUnchanged ==
  ASSUME CameraInv, UNCHANGED cams
  PROVE  CameraInv'
  BY DEF CameraInv, cams, CamerasOK, CamerasMade, OneCameraOwner, CameraLives,
         StreamsOwnDevices, OwnsDevices

LEMMA PromotedCamera ==
  ASSUME CamerasOK, NEW r \in Record
  PROVE  /\ Promote(r) \in Camera \union {NULL}
         /\ Promote(r) # NULL => Promote(r) = activeInstance[r]
  BY DEF CamerasOK, Promote

LEMMA CamerasAreNumbers ==
  ASSUME CamerasOK
  PROVE  /\ cameras \in Nat /\ Camera \subseteq Nat
         /\ cameras < MAX_CAMERAS => cameras + 1 \in Camera
  BY CountsAssumption DEF CamerasOK, Camera

LEMMA OpenCameraKeeps ==
  ASSUME CallsMeant, ListingOK, CameraInv, openCamera
  PROVE  CameraInv'
<1>1. PICK call \in bpc :
        /\ call.op = "open" /\ call.record \in known
        /\ cameras' = cameras + 1
        /\ camRecord' = [camRecord EXCEPT ![cameras + 1] = call.record]
        /\ camState' = [j \in Camera |-> IF j = cameras + 1 THEN "fresh"
                          ELSE IF j = Promote(call.record) THEN "closed" ELSE camState[j]]
        /\ streamer' = [j \in Camera |-> IF j = Promote(call.record) THEN NULL ELSE streamer[j]]
        /\ camHolder' = [camHolder EXCEPT ![cameras + 1] = call.client]
        /\ bufOwner' = Requested(cameras + 1, call.record,
                         IF Promote(call.record) = NULL THEN bufOwner ELSE Without(Promote(call.record)))
        /\ activeInstance' = [activeInstance EXCEPT ![call.record] = cameras + 1]
  BY DEF openCamera
<1> DEFINE r == call.record
           i == cameras + 1
           old == Promote(r)
<1>2. r \in Record /\ i \in Camera /\ cameras \in Nat /\ call.client \in Client /\ i # NULL
  <2>1. call \in Call
    BY <1>1 DEF ListingOK
  <2>2. call.client \in Client
    BY <1>1, <2>1 DEF Call
  <2>3. cameras < MAX_CAMERAS
    BY <1>1 DEF CallsMeant
  <2>4. i \in Camera /\ cameras \in Nat
    BY <2>3, CamerasAreNumbers DEF CameraInv
  <2>5. r \in Record
    BY <1>1 DEF ListingOK
  <2>6. QED BY <2>2, <2>4, <2>5, NullAssumption
<1>3. old \in Camera \union {NULL} /\ (old # NULL => old = activeInstance[r])
  BY <1>2, PromotedCamera DEF CameraInv
<1>4. CamerasOK'
  <2>1. cameras' \in 0 .. MAX_CAMERAS
    BY <1>1, <1>2 DEF Camera
  <2>2. bufOwner' \in [Device -> Camera \union {NULL}]
    BY <1>1, <1>2, <1>3 DEF Requested, Without, CameraInv, CamerasOK
  <2>3. QED BY <1>1, <1>2, <1>3, <2>1, <2>2 DEF CameraInv, CamerasOK
<1>5. CamerasMade'
  <2>1. ASSUME NEW j \in Camera, j > cameras'
        PROVE  camState'[j] = "closed" /\ camHolder'[j] = NULL /\ streamer'[j] = NULL
    <3>1. j > cameras /\ j # i
      BY <1>1, <1>2, <2>1, CamerasAreNumbers DEF CameraInv
    <3>2. QED BY <1>1, <3>1 DEF CameraInv, CamerasMade, CamerasOK
  <2>2. ASSUME NEW j \in Camera, j <= cameras'
        PROVE  camRecord'[j] \in Record
    <3>1. j # i => j <= cameras
      BY <1>1, <1>2, <2>2, CamerasAreNumbers DEF CameraInv
    <3>2. QED BY <1>1, <1>2, <3>1 DEF CameraInv, CamerasMade, CamerasOK
  <2>3. QED BY <2>1, <2>2 DEF CamerasMade
<1>6. OneCameraOwner'
  <2>1. SUFFICES ASSUME NEW j \in Camera, CameraLives(j)', camState'[j] # "closed"
                 PROVE  activeInstance'[camRecord'[j]] = j
    BY DEF OneCameraOwner
  <2>2. CASE j = i
    BY <1>1, <1>2, <2>2 DEF CameraInv, CamerasOK
  <2>3. CASE j # i
    <3>1. j # old /\ camState[j] # "closed" /\ camRecord'[j] = camRecord[j]
      BY <1>1, <2>1, <2>3 DEF CameraInv, CamerasOK
    <3>2. CameraLives(j)
      BY <1>1, <2>1, <2>3, <3>1 DEF CameraLives, CameraInv, CamerasOK
    <3>3. activeInstance[camRecord[j]] = j
      BY <3>1, <3>2 DEF CameraInv, OneCameraOwner
    <3>4. j # NULL
      BY NullAssumption
    <3>5. camRecord[j] # r
      BY <3>1, <3>2, <3>3, <3>4 DEF Promote
    <3>6. camRecord[j] \in Record
      BY <3>1, CamerasAreNumbers DEF CameraInv, CamerasMade, CamerasOK
    <3>7. QED BY <1>1, <3>1, <3>3, <3>5, <3>6 DEF CameraInv, CamerasOK
  <2>4. QED BY <2>2, <2>3
<1>7. StreamsOwnDevices'
  <2>1. SUFFICES ASSUME NEW j \in Camera, camState'[j] = "streaming",
                        NEW v \in Devices[camRecord'[j]]
                 PROVE  bufOwner'[v] = j
    BY DEF StreamsOwnDevices, OwnsDevices
  <2>2. j # i /\ j # old /\ camState[j] = "streaming" /\ camRecord'[j] = camRecord[j]
    BY <1>1, <2>1 DEF CameraInv, CamerasOK
  <2>3. camRecord[j] \in Record
    BY <2>2, CamerasAreNumbers DEF CameraInv, CamerasMade, CamerasOK
  <2>4. v \in Device /\ bufOwner[v] = j
    BY <2>2, <2>3, RecordAssumption DEF CameraInv, StreamsOwnDevices, OwnsDevices
  <2>5. j # NULL
    BY NullAssumption
  <2>6. QED BY <1>1, <2>2, <2>4, <2>5 DEF Requested, Without
<1>8. QED BY <1>4, <1>5, <1>6, <1>7 DEF CameraInv

\* What shutting a camera down does, whoever asks for it.
LEMMA CameraShutdownKeeps ==
  ASSUME CameraInv, NEW i \in Camera, shutdown(i), i <= cameras,
         UNCHANGED <<cameras, camRecord, camHolder>>,
         activeInstance' = activeInstance
           \/ /\ activeInstance' = [activeInstance EXCEPT ![camRecord[i]] = NULL]
              /\ activeInstance[camRecord[i]] = i
  PROVE  CameraInv'
<1>1. /\ camState' = [camState EXCEPT ![i] = "closed"]
      /\ streamer' = [streamer EXCEPT ![i] = NULL]
      /\ bufOwner' = Without(i)
  BY DEF shutdown
<1>2. CamerasOK'
  BY <1>1 DEF CameraInv, CamerasOK, Without
<1>3. CamerasMade'
  BY <1>1 DEF CameraInv, CamerasMade, CamerasOK
<1>4. OneCameraOwner'
  <2>1. SUFFICES ASSUME NEW j \in Camera, CameraLives(j)', camState'[j] # "closed"
                 PROVE  activeInstance'[camRecord[j]] = j
    BY DEF OneCameraOwner
  <2>2. j # i /\ camState[j] # "closed" /\ CameraLives(j)
    BY <1>1, <2>1 DEF CameraInv, CamerasOK, CameraLives
  <2>3. activeInstance[camRecord[j]] = j
    BY <2>2 DEF CameraInv, OneCameraOwner
  <2>4. camRecord[j] \in Record
    BY <2>2, CamerasAreNumbers DEF CameraInv, CamerasMade, CamerasOK
  <2>5. QED BY <2>2, <2>3, <2>4 DEF CameraInv, CamerasOK
<1>5. StreamsOwnDevices'
  <2>1. SUFFICES ASSUME NEW j \in Camera, camState'[j] = "streaming",
                        NEW v \in Devices[camRecord[j]]
                 PROVE  bufOwner'[v] = j
    BY DEF StreamsOwnDevices, OwnsDevices
  <2>2. j # i /\ camState[j] = "streaming"
    BY <1>1, <2>1 DEF CameraInv, CamerasOK
  <2>3. camRecord[j] \in Record
    BY <2>2, CamerasAreNumbers DEF CameraInv, CamerasMade, CamerasOK
  <2>4. v \in Device /\ bufOwner[v] = j
    BY <2>2, <2>3, RecordAssumption DEF CameraInv, StreamsOwnDevices, OwnsDevices
  <2>5. QED BY <1>1, <2>2, <2>4 DEF Without
<1>6. QED BY <1>2, <1>3, <1>4, <1>5 DEF CameraInv

LEMMA LivingIsMade ==
  ASSUME CameraInv, NEW i \in Camera, CameraLives(i)
  PROVE  i <= cameras
  BY CamerasAreNumbers DEF CameraLives, CameraInv, CamerasMade

LEMMA CloseCameraKeeps ==
  ASSUME ListingOK, CameraInv, closeCamera
  PROVE  CameraInv'
<1>1. PICK call \in bpc :
        /\ call.op = "close"
        /\ IF Promote(camRecord[call.camera]) = call.camera
           THEN /\ shutdown(call.camera)
                /\ activeInstance' = [activeInstance EXCEPT ![camRecord[call.camera]] = NULL]
           ELSE UNCHANGED <<camState, streamer, bufOwner, activeInstance>>
        /\ UNCHANGED <<cameras, camRecord, camHolder>>
  BY DEF closeCamera
<1>2. call.camera \in Camera
  BY <1>1 DEF ListingOK, Call
<1>3. CASE Promote(camRecord[call.camera]) = call.camera
  <2>1. call.camera # NULL
    BY <1>2, NullAssumption
  <2>2. CameraLives(call.camera) /\ activeInstance[camRecord[call.camera]] = call.camera
    BY <1>3, <2>1 DEF Promote
  <2>3. QED BY <1>1, <1>2, <1>3, <2>2, LivingIsMade, CameraShutdownKeeps
<1>4. CASE Promote(camRecord[call.camera]) # call.camera
  BY <1>1, <1>4, CamerasUnchanged DEF cams
<1>5. QED BY <1>3, <1>4

LEMMA ServiceDiedKeeps ==
  ASSUME CameraInv, dead \subseteq Client, NEW i \in Camera, serviceDied(i)
  PROVE  CameraInv'
<1>1. CameraLives(i) /\ shutdown(i) /\ UNCHANGED <<activeInstance, cameras, camRecord, camHolder>>
  BY NullAssumption DEF serviceDied, CameraLives
<1>2. QED BY <1>1, LivingIsMade, CameraShutdownKeeps

LEMMA StartKeeps ==
  ASSUME CameraInv, NEW c \in Client, NEW i \in Camera, startVideoStream(c, i)
  PROVE  CameraInv'
<1>1. /\ CameraLives(i) /\ camState[i] = "fresh" /\ camHolder[i] = c /\ c # NULL
      /\ UNCHANGED <<activeInstance, cameras, camRecord, camHolder>>
  BY NullAssumption DEF startVideoStream, CameraLives
<1>2. i <= cameras
  BY <1>1, LivingIsMade
<1>3. CASE OwnsDevices(i)
  <2>1. /\ camState' = [camState EXCEPT ![i] = "streaming"]
        /\ streamer' = [streamer EXCEPT ![i] = c] /\ bufOwner' = bufOwner
    BY <1>3 DEF startVideoStream
  <2>2. CamerasOK'
    BY <1>1, <2>1 DEF CameraInv, CamerasOK
  <2>3. CamerasMade'
    BY <1>1, <1>2, <2>1, CamerasAreNumbers DEF CameraInv, CamerasMade, CamerasOK
  <2>4. OneCameraOwner'
    BY <1>1, <2>1 DEF CameraInv, CamerasOK, OneCameraOwner, CameraLives
  <2>5. StreamsOwnDevices'
    BY <1>1, <1>3, <2>1 DEF CameraInv, CamerasOK, StreamsOwnDevices, OwnsDevices
  <2>6. QED BY <2>2, <2>3, <2>4, <2>5 DEF CameraInv
<1>4. CASE ~OwnsDevices(i)
  <2>1. shutdown(i)
    BY <1>4 DEF startVideoStream
  <2>2. QED BY <1>1, <1>2, <2>1, CameraShutdownKeeps
<1>5. QED BY <1>3, <1>4

LEMMA StopKeeps ==
  ASSUME CameraInv, NEW c \in Client, NEW i \in Camera, stopVideoStream(c, i)
  PROVE  CameraInv'
<1>1. /\ CameraLives(i) /\ camState[i] = "streaming"
      /\ camState' = [camState EXCEPT ![i] = "stopped"]
      /\ streamer' = [streamer EXCEPT ![i] = NULL]
      /\ bufOwner' = Without(i)
      /\ UNCHANGED <<activeInstance, cameras, camRecord, camHolder>>
  BY NullAssumption DEF stopVideoStream, CameraLives
<1>2. i <= cameras
  BY <1>1, LivingIsMade
<1>3. CamerasOK'
  BY <1>1 DEF CameraInv, CamerasOK, Without
<1>4. CamerasMade'
  BY <1>1, <1>2, CamerasAreNumbers DEF CameraInv, CamerasMade, CamerasOK
<1>5. OneCameraOwner'
  BY <1>1 DEF CameraInv, CamerasOK, OneCameraOwner, CameraLives
<1>6. StreamsOwnDevices'
  <2>1. SUFFICES ASSUME NEW j \in Camera, camState'[j] = "streaming",
                        NEW v \in Devices[camRecord[j]]
                 PROVE  bufOwner'[v] = j
    BY <1>1 DEF StreamsOwnDevices, OwnsDevices
  <2>2. j # i /\ camState[j] = "streaming"
    BY <1>1, <2>1 DEF CameraInv, CamerasOK
  <2>3. camRecord[j] \in Record
    BY <2>2, CamerasAreNumbers DEF CameraInv, CamerasMade, CamerasOK
  <2>4. v \in Device /\ bufOwner[v] = j
    BY <2>2, <2>3, RecordAssumption DEF CameraInv, StreamsOwnDevices, OwnsDevices
  <2>5. QED BY <1>1, <2>2, <2>4 DEF Without
<1>7. QED BY <1>3, <1>4, <1>5, <1>6 DEF CameraInv

LEMMA DropCameraKeeps ==
  ASSUME CameraInv, NEW c \in Client, NEW i \in Camera, dropCamera(c, i)
  PROVE  CameraInv'
<1>1. /\ camHolder' = [camHolder EXCEPT ![i] = NULL]
      /\ UNCHANGED <<activeInstance, cameras, camRecord, camState, streamer, bufOwner>>
  BY DEF dropCamera
<1>2. CamerasOK' /\ CamerasMade'
  BY <1>1 DEF CameraInv, CamerasOK, CamerasMade
<1>3. OneCameraOwner'
  BY <1>1 DEF CameraInv, CamerasOK, OneCameraOwner, CameraLives
<1>4. StreamsOwnDevices'
  BY <1>1 DEF CameraInv, StreamsOwnDevices, OwnsDevices
<1>5. QED BY <1>2, <1>3, <1>4 DEF CameraInv

-----------------------------------------------------------------------------
(* The list of cameras, and every step *)

\* A call that searches the list is one the client may make.
LEMMA SearchKeeps ==
  ASSUME ListingOK, NEW call \in Call, Search(call), call.op = "open" => cameras < MAX_CAMERAS
  PROVE  ListingOK' /\ CallsMeant' /\ UNCHANGED <<cams, disps>>
<1>1. /\ bpc' = {call} /\ UNCHANGED <<dead, known, ppc, crashed>>
      /\ UNCHANGED cams /\ UNCHANGED disps
  BY DEF Search
<1>2. ListingOK'
  BY <1>1 DEF ListingOK, Call
<1>3. CallsMeant'
  BY <1>1 DEF CallsMeant, cams
<1>4. QED BY <1>1, <1>2, <1>3

LEMMA CallKeeps ==
  ASSUME ListingOK, NEW c \in Client, callList(c) \/ callOpenCamera(c) \/ callCloseCamera(c)
  PROVE  ListingOK' /\ CallsMeant' /\ UNCHANGED <<cams, disps>>
<1>1. CASE callList(c)
  <2>1. [op |-> "list"] \in Call
    BY DEF Call
  <2>2. Search([op |-> "list"])
    BY <1>1 DEF callList
  <2>3. QED BY <2>1, <2>2, SearchKeeps
<1>2. CASE callOpenCamera(c)
  <2>1. PICK r \in Record : Search([op |-> "open", client |-> c, record |-> r])
    BY <1>2 DEF callOpenCamera
  <2>2. [op |-> "open", client |-> c, record |-> r] \in Call
    BY DEF Call
  <2>3. cameras < MAX_CAMERAS
    BY <1>2 DEF callOpenCamera
  <2>4. QED BY <2>1, <2>2, <2>3, SearchKeeps
<1>3. CASE callCloseCamera(c)
  <2>1. PICK i \in Camera : Search([op |-> "close", camera |-> i])
    BY <1>3 DEF callCloseCamera
  <2>2. [op |-> "close", camera |-> i] \in Call
    BY DEF Call
  <2>3. QED BY <2>1, <2>2, SearchKeeps
<1>4. QED BY <1>1, <1>2, <1>3

\* Steps that touch neither a camera nor a display.
LEMMA ListingKeeps ==
  ASSUME ListingOK, CallsMeant,
         \/ mediaCreated \/ EnumAvailableVideo \/ SearchFails \/ getCameraList \/ findFails
         \/ \E c \in Client : clientDies(c)
  PROVE  ListingOK' /\ CallsMeant' /\ UNCHANGED <<cams, disps>>
<1>1. CASE mediaCreated
  BY <1>1 DEF mediaCreated, ListingOK, CallsMeant, cams
<1>2. CASE EnumAvailableVideo
  <2>1. PICK found \in SUBSET (Record \ Group) :
          /\ known' = known \union found
          /\ ppc' = IF found = {} THEN "polling" ELSE "done"
    BY <1>2 DEF EnumAvailableVideo
  <2>2. UNCHANGED <<dead, bpc, crashed>> /\ UNCHANGED cams /\ UNCHANGED disps
    BY <1>2 DEF EnumAvailableVideo
  <2>3. QED BY <2>1, <2>2 DEF ListingOK, CallsMeant, cams
<1>3. CASE SearchFails
  BY <1>3 DEF SearchFails, listing, ListingOK, CallsMeant, cams
<1>4. CASE getCameraList
  BY <1>4, RecordAssumption DEF getCameraList, ListingOK, CallsMeant, cams
<1>5. CASE findFails
  BY <1>5 DEF findFails, ListingOK, CallsMeant, cams
<1>6. CASE \E c \in Client : clientDies(c)
  <2>1. PICK c \in Client : clientDies(c)
    BY <1>6
  <2>2. /\ dead' = dead \union {c} /\ UNCHANGED <<known, ppc, bpc, crashed>>
        /\ UNCHANGED cams /\ UNCHANGED disps
    BY <2>1 DEF clientDies, listing
  <2>3. QED BY <2>2 DEF ListingOK, CallsMeant, cams
<1>7. QED BY <1>1, <1>2, <1>3, <1>4, <1>5, <1>6

\* A call on an object is made while no search is under way.
LEMMA ObjectKeepsListing ==
  ASSUME ListingOK, bpc = {}, UNCHANGED <<dead, listing, crashed>>
  PROVE  ListingOK' /\ CallsMeant'
  BY DEF ListingOK, CallsMeant, listing

LEMMA NextKeeps ==
  ASSUME OwnerInv, [Next]_vars
  PROVE  OwnerInv'
<1>0. ListingOK /\ CallsMeant /\ CameraInv /\ DisplayInv
  BY DEF OwnerInv
<1>1. CASE UNCHANGED vars
  <2>1. UNCHANGED <<dead, listing, cams, disps, crashed>>
    BY <1>1 DEF vars
  <2>2. ListingOK' /\ CallsMeant'
    BY <1>0, <2>1 DEF ListingOK, CallsMeant, listing, cams
  <2>3. QED BY <1>0, <2>1, <2>2, CamerasUnchanged, DisplayUnchanged DEF OwnerInv
<1>2. CASE \/ mediaCreated \/ EnumAvailableVideo \/ SearchFails \/ getCameraList \/ findFails
           \/ \E c \in Client : clientDies(c)
  BY <1>0, <1>2, ListingKeeps, CamerasUnchanged, DisplayUnchanged DEF OwnerInv
<1>3. CASE \E c \in Client : callList(c) \/ callOpenCamera(c) \/ callCloseCamera(c)
  BY <1>0, <1>3, CallKeeps, CamerasUnchanged, DisplayUnchanged DEF OwnerInv
<1>4. CASE openCamera
  <2>1. bpc' = {} /\ UNCHANGED <<dead, known, ppc, crashed>> /\ UNCHANGED disps
    BY <1>4 DEF openCamera
  <2>2. ListingOK' /\ CallsMeant'
    BY <1>0, <2>1 DEF ListingOK, CallsMeant
  <2>3. QED BY <1>0, <1>4, <2>1, <2>2, OpenCameraKeeps, DisplayUnchanged DEF OwnerInv
<1>5. CASE closeCamera
  <2>1. bpc' = {} /\ UNCHANGED <<dead, known, ppc, crashed>> /\ UNCHANGED disps
    BY <1>5 DEF closeCamera
  <2>2. ListingOK' /\ CallsMeant'
    BY <1>0, <2>1 DEF ListingOK, CallsMeant
  <2>3. QED BY <1>0, <1>5, <2>1, <2>2, CloseCameraKeeps, DisplayUnchanged DEF OwnerInv
<1>6. CASE \E i \in Camera : serviceDied(i)
  <2>1. PICK i \in Camera : serviceDied(i)
    BY <1>6
  <2>2. bpc = {} /\ UNCHANGED <<dead, listing, crashed>> /\ UNCHANGED disps
    BY <2>1 DEF serviceDied
  <2>3. CameraInv'
    BY <1>0, <2>1, ServiceDiedKeeps DEF ListingOK
  <2>4. QED BY <1>0, <2>2, <2>3, ObjectKeepsListing, DisplayUnchanged DEF OwnerInv
<1>7. ASSUME NEW c \in Client, NEW i \in Camera, CameraCall(c, i)
      PROVE  OwnerInv'
  <2>1. bpc = {} /\ UNCHANGED <<dead, listing, crashed>> /\ UNCHANGED disps
    BY <1>7 DEF CameraCall, startVideoStream, stopVideoStream, dropCamera, Calls
  <2>2. CameraInv'
    BY <1>0, <1>7, StartKeeps, StopKeeps, DropCameraKeeps DEF CameraCall
  <2>3. QED BY <1>0, <2>1, <2>2, ObjectKeepsListing, DisplayUnchanged DEF OwnerInv
<1>8. ASSUME NEW c \in Client, openDisplay(c)
      PROVE  OwnerInv'
  <2>1. bpc = {} /\ UNCHANGED <<dead, listing, crashed>> /\ UNCHANGED cams
    BY <1>8 DEF openDisplay, Calls
  <2>2. QED BY <1>0, <1>8, <2>1, OpenDisplayKeeps, ObjectKeepsListing, CamerasUnchanged DEF OwnerInv
<1>9. ASSUME NEW c \in Client, NEW d \in Display, DisplayCall(c, d)
      PROVE  OwnerInv'
  <2>1. bpc = {} /\ UNCHANGED <<dead, listing, crashed>> /\ UNCHANGED cams
    BY <1>9 DEF DisplayCall, closeDisplay, setDisplayState, returnTargetBufferForDisplay,
                dropDisplay, Calls
  <2>2. QED BY <1>0, <1>9, <2>1, DisplayCallKeeps, ObjectKeepsListing, CamerasUnchanged DEF OwnerInv
<1>10. QED BY <1>1, <1>2, <1>3, <1>4, <1>5, <1>6, <1>7, <1>8, <1>9 DEF Next

LEMMA InitHolds == Init => OwnerInv
<1> SUFFICES ASSUME Init PROVE OwnerInv
  OBVIOUS
<1>1. ListingOK /\ CallsMeant
  BY DEF Init, ListingOK, CallsMeant
<1>2. CamerasOK /\ CamerasMade /\ OneCameraOwner /\ StreamsOwnDevices
  BY CamerasAreNumbers, CountsAssumption
     DEF Init, CamerasOK, CamerasMade, OneCameraOwner, StreamsOwnDevices, Camera
<1>3. DisplaysOK /\ DisplaysMade
  BY CountsAssumption DEF Init, DisplaysOK, DisplaysMade, DisplayState, Display
<1>4. OneDisplayOwner
  BY CountsAssumption DEF Init, OneDisplayOwner, Owner
<1>5. QED BY <1>1, <1>2, <1>3, <1>4 DEF OwnerInv, CameraInv, DisplayInv

\* The inductive invariant: the list of cameras, the cameras and the displays are
\* as the calls made so far left them, and each has at most one owner.
THEOREM OwnerInvariant == Spec => []OwnerInv
<1>1. Init => OwnerInv
  BY InitHolds
<1>2. OwnerInv /\ [Next]_vars => OwnerInv'
  BY NextKeeps
<1>3. QED BY <1>1, <1>2, PTL DEF Spec

-----------------------------------------------------------------------------
\* Every variable keeps its type.
THEOREM TypeCorrect == Spec => []TypeOK
<1>1. OwnerInv => TypeOK
  BY DEF OwnerInv, CameraInv, DisplayInv, ListingOK, CamerasOK, DisplaysOK, TypeOK
<1>2. QED BY <1>1, OwnerInvariant, PTL

\* The composer has one layer at most, that of the display opened last; displaced
\* and dropped displays have none and give none back.
THEOREM DisplayHasOneOwner == Spec => []OneDisplayOwner
<1>1. OwnerInv => OneDisplayOwner
  BY DEF OwnerInv, DisplayInv
<1>2. QED BY <1>1, OwnerInvariant, PTL

\* Of the cameras that are kept alive only the last opened of its record is open.
THEOREM CameraHasOneOwner == Spec => []OneCameraOwner
<1>1. OwnerInv => OneCameraOwner
  BY DEF OwnerInv, CameraInv
<1>2. QED BY <1>1, OwnerInvariant, PTL

\* A camera streams only with the buffers of all its devices.
THEOREM StreamsAreExclusive == Spec => []StreamsOwnDevices
<1>1. OwnerInv => StreamsOwnDevices
  BY DEF OwnerInv, CameraInv
<1>2. QED BY <1>1, OwnerInvariant, PTL

\* A step that may change the requested state of a display leaves a dead one dead.
LEMMA DeadStays ==
  ASSUME TypeOK, [Next]_vars, NEW d \in Display, mRequestedState[d] = "DEAD"
  PROVE  mRequestedState'[d] = "DEAD"
<1>1. CASE UNCHANGED disps
  BY <1>1 DEF disps
<1>2. ASSUME NEW c \in Client, openDisplay(c)
      PROVE  mRequestedState'[d] = "DEAD"
  BY <1>2 DEF openDisplay
<1>3. ASSUME NEW c \in Client, NEW x \in Display, DisplayCall(c, x)
      PROVE  mRequestedState'[d] = "DEAD"
  <2>1. CASE closeDisplay(c, x)
    BY <2>1 DEF closeDisplay, forceShutdown, TypeOK
  <2>2. CASE returnTargetBufferForDisplay(c, x)
    BY <2>2 DEF returnTargetBufferForDisplay, TypeOK
  <2>3. CASE dropDisplay(c, x)
    BY <2>3 DEF dropDisplay, forceShutdown, TypeOK
  <2>4. CASE \E state \in DisplayState : setDisplayState(c, x, state)
    BY <2>4 DEF setDisplayState, TypeOK
  <2>5. QED BY <1>3, <2>1, <2>2, <2>3, <2>4 DEF DisplayCall
<1>4. CASE UNCHANGED vars
  BY <1>1, <1>4 DEF vars
<1>5. CASE \/ mediaCreated \/ EnumAvailableVideo \/ SearchFails
           \/ getCameraList \/ findFails \/ openCamera \/ closeCamera
           \/ \E i \in Camera : serviceDied(i)
           \/ \E c \in Client : \/ clientDies(c)
                                \/ callList(c) \/ callOpenCamera(c) \/ callCloseCamera(c)
                                \/ \E i \in Camera : CameraCall(c, i)
  <2>1. UNCHANGED disps
    BY <1>5 DEF mediaCreated, EnumAvailableVideo, SearchFails, getCameraList, findFails, openCamera,
                closeCamera, serviceDied, clientDies, callList, callOpenCamera, callCloseCamera,
                Search, CameraCall, startVideoStream, stopVideoStream, dropCamera
  <2>2. QED BY <1>1, <2>1
<1>6. QED BY <1>2, <1>3, <1>4, <1>5 DEF Next

\* A display that is dead, because it was taken away, closed or asked to be, stays so.
THEOREM DeadStaysDead == Spec => DeadIsFinal
<1>1. TypeOK /\ [Next]_vars
        => [\A d \in Display : mRequestedState[d] = "DEAD" => mRequestedState'[d] = "DEAD"]_vars
  BY DeadStays
<1>2. QED BY <1>1, TypeCorrect, PTL DEF Spec, DeadIsFinal
-----------------------------------------------------------------------------
(* EvsOwner implements LastOwner, for the display and for each camera.  That *)
(* an owner is the only one is an invariant; that who lost a resource never  *)
(* gets it back, is what its steps show.                                     *)

HaveLayer == {d \in Display : mLayer[d] # -1}
DisplayOwner ==
  INSTANCE LastOwner WITH Object <- Display, access <- HaveLayer, opened <- 1 .. displays

CamerasOf(r) == {i \in 1 .. cameras : camRecord[i] = r}
OpenCameras(r) == {i \in CamerasOf(r) : CameraLives(i) /\ camState[i] # "closed"}
CameraOwner(r) ==
  INSTANCE LastOwner WITH Object <- Camera, access <- OpenCameras(r), opened <- CamerasOf(r)

\* A display that was opened has a layer if and only if it is the owner.
LEMMA LayerOfOwner ==
  ASSUME OwnerInv
  PROVE  HaveLayer = {Owner} \ {NULL} /\ displays \in Nat
<1>1. DisplaysOK /\ DisplaysMade /\ OneDisplayOwner /\ displays \in 0 .. MAX_DISPLAYS
  BY DEF OwnerInv, DisplayInv, DisplaysOK
<1>2. MAX_DISPLAYS \in Nat /\ Display = 1 .. MAX_DISPLAYS /\ NULL \notin Display
  BY CountsAssumption, NullAssumption DEF Display
<1>3. \A d \in Display : d # Owner => mLayer[d] = -1
  BY <1>1, <1>2 DEF DisplaysMade, OneDisplayOwner
<1>4. Owner # NULL => Owner \in Display /\ mLayer[Owner] # -1
  BY <1>1 DEF OneDisplayOwner, Owner, DisplaysOK
<1>5. QED BY <1>1, <1>2, <1>3, <1>4 DEF HaveLayer

LEMMA DisplayStep ==
  ASSUME OwnerInv, OwnerInv', [Next]_vars
  PROVE  [DisplayOwner!OwnerNext]_<<HaveLayer, 1 .. displays>>
<1>1. CASE UNCHANGED disps
  BY <1>1 DEF disps, HaveLayer
<1>2. ASSUME NEW c \in Client, openDisplay(c)
      PROVE  DisplayOwner!OwnerNext
  <2>1. displays + 1 \in Display /\ displays' = displays + 1 /\ displays \in Nat
    BY <1>2, LayerOfOwner, CountsAssumption DEF openDisplay, Display
  <2>2. Owner' = displays + 1
    <3>1. sActiveDisplay' = displays + 1 /\ displayHolder'[displays + 1] = c
      BY <1>2, <2>1 DEF openDisplay, OwnerInv, DisplayInv, DisplaysOK
    <3>2. QED BY <2>1, <3>1, NullAssumption DEF Owner
  <2>3. HaveLayer' = {displays + 1}
    <3>1. /\ \A d \in 1 .. displays' : d # Owner' => mLayer'[d] = -1
          /\ \A d \in Display : d > displays' => mLayer'[d] = -1
          /\ Owner' # NULL => mLayer'[Owner'] # -1
      BY DEF OwnerInv, DisplayInv, OneDisplayOwner, DisplaysMade
    <3>2. \A d \in Display : d \in 1 .. displays' \/ d > displays'
      BY <2>1, CountsAssumption DEF Display
    <3>3. displays + 1 # NULL
      BY <2>1, NullAssumption
    <3>4. QED BY <2>1, <2>2, <3>1, <3>2, <3>3 DEF HaveLayer
  <2>4. displays + 1 \notin 1 .. displays /\ (1 .. displays)' = 1 .. displays \union {displays + 1}
    BY <2>1
  <2>5. DisplayOwner!Acquire(displays + 1)
    BY <2>3, <2>4 DEF DisplayOwner!Acquire
  <2>6. QED BY <2>1, <2>5 DEF DisplayOwner!OwnerNext
<1>3. ASSUME NEW c \in Client, NEW d \in Display, DisplayCall(c, d)
      PROVE  [DisplayOwner!OwnerNext]_<<HaveLayer, 1 .. displays>>
  <2>1. UNCHANGED displays
    BY <1>3 DEF DisplayCall, closeDisplay, setDisplayState, returnTargetBufferForDisplay, dropDisplay
  <2>2. HaveLayer' \subseteq HaveLayer
    <3>1. mLayer' = mLayer \/ mLayer' = [mLayer EXCEPT ![d] = -1]
      BY <1>3 DEF DisplayCall, closeDisplay, setDisplayState, returnTargetBufferForDisplay,
                  dropDisplay, forceShutdown, LayerAfter
    <3>2. mLayer \in [Display -> Layer \union {-1}]
      BY DEF OwnerInv, DisplayInv, DisplaysOK
    <3>3. QED BY <3>1, <3>2 DEF HaveLayer
  <2>3. HaveLayer' = HaveLayer \/ HaveLayer' = {}
    BY <2>2, LayerOfOwner
  <2>4. QED BY <2>1, <2>3 DEF DisplayOwner!OwnerNext, DisplayOwner!Lose
<1>4. CASE UNCHANGED vars
  BY <1>1, <1>4 DEF vars
<1>5. CASE \/ mediaCreated \/ EnumAvailableVideo \/ SearchFails
           \/ getCameraList \/ findFails \/ openCamera \/ closeCamera
           \/ \E i \in Camera : serviceDied(i)
           \/ \E c \in Client : \/ clientDies(c)
                                \/ callList(c) \/ callOpenCamera(c) \/ callCloseCamera(c)
                                \/ \E i \in Camera : CameraCall(c, i)
  <2>1. UNCHANGED disps
    BY <1>5 DEF mediaCreated, EnumAvailableVideo, SearchFails, getCameraList, findFails, openCamera,
                closeCamera, serviceDied, clientDies, callList, callOpenCamera, callCloseCamera,
                Search, CameraCall, startVideoStream, stopVideoStream, dropCamera
  <2>2. QED BY <1>1, <2>1
<1>6. QED BY <1>2, <1>3, <1>4, <1>5 DEF Next

\* Whoever opens the display has the layer of the composer, alone; a display that
\* gave it back or had it taken away never has one again (openDisplay, closeDisplay,
\* forceShutdown).
THEOREM DisplayIsLastOwner == Spec => DisplayOwner!OwnerSpec
<1>1. Init => DisplayOwner!OwnerInit
  <2> SUFFICES ASSUME Init PROVE DisplayOwner!OwnerInit
    OBVIOUS
  <2>1. HaveLayer = {} /\ 1 .. displays = {}
    BY DEF Init, HaveLayer
  <2>2. QED BY <2>1 DEF DisplayOwner!OwnerInit
<1>2. OwnerInv /\ OwnerInv' /\ [Next]_vars => [DisplayOwner!OwnerNext]_DisplayOwner!ownerVars
  BY DisplayStep DEF DisplayOwner!ownerVars
<1>3. QED BY <1>1, <1>2, OwnerInvariant, PTL DEF Spec, DisplayOwner!OwnerSpec

\* Of the cameras of a record one at most is open and alive.
LEMMA OneIsOpen ==
  ASSUME OwnerInv, NEW r \in Record, NEW i \in OpenCameras(r), NEW j \in OpenCameras(r)
  PROVE  i = j
<1>1. i \in Camera /\ j \in Camera
  BY CountsAssumption DEF OwnerInv, CameraInv, CamerasOK, OpenCameras, CamerasOf, Camera
<1>2. QED BY <1>1 DEF OwnerInv, CameraInv, OneCameraOwner, OpenCameras, CamerasOf

\* A step that opens no camera of the record leaves the open one, or none.
LEMMA NobodyReopens ==
  ASSUME OwnerInv, NEW r \in Record,
         CamerasOf(r)' = CamerasOf(r),
         \A i \in CamerasOf(r) : CameraLives(i)' /\ camState'[i] # "closed" =>
                                   CameraLives(i) /\ camState[i] # "closed"
  PROVE  [CameraOwner(r)!OwnerNext]_<<OpenCameras(r), CamerasOf(r)>>
<1>1. OpenCameras(r)' \subseteq OpenCameras(r)
  BY DEF OpenCameras
<1>2. OpenCameras(r)' = OpenCameras(r) \/ OpenCameras(r)' = {}
  BY <1>1, OneIsOpen
<1>3. QED BY <1>2 DEF CameraOwner!OwnerNext, CameraOwner!Lose

\* A step that makes no camera object reopens none: a camera is opened as it is made.
LEMMA ClosedStaysClosed ==
  ASSUME OwnerInv, [Next]_vars, UNCHANGED <<cameras, camRecord>>, NEW i \in Camera,
         CameraLives(i)', camState'[i] # "closed"
  PROVE  CameraLives(i) /\ camState[i] # "closed"
<1>1. /\ camState \in [Camera -> {"fresh", "streaming", "stopped", "closed"}]
      /\ camHolder \in [Camera -> Client \union {NULL}]
      /\ streamer \in [Camera -> Client \union {NULL}] /\ cameras \in Nat
  BY CountsAssumption DEF OwnerInv, CameraInv, CamerasOK
<1>2. CASE UNCHANGED cams
  BY <1>2 DEF cams, CameraLives
<1>3. ASSUME NEW c \in Client, NEW j \in Camera, startVideoStream(c, j) \/ stopVideoStream(c, j)
      PROVE  CameraLives(i) /\ camState[i] # "closed"
  <2>1. camHolder[j] # NULL /\ camState[j] # "closed" /\ camHolder' = camHolder
    BY <1>3, NullAssumption DEF startVideoStream, stopVideoStream
  <2>2. i # j => camState'[i] = camState[i] /\ streamer'[i] = streamer[i]
    BY <1>1, <1>3 DEF startVideoStream, stopVideoStream, shutdown
  <2>3. QED BY <2>1, <2>2 DEF CameraLives
<1>4. ASSUME NEW c \in Client, NEW j \in Camera, dropCamera(c, j)
      PROVE  CameraLives(i) /\ camState[i] # "closed"
  BY <1>1, <1>4 DEF dropCamera, CameraLives
<1>5. CASE closeCamera \/ \E j \in Camera : serviceDied(j)
  <2>1. /\ camHolder' = camHolder
        /\ \/ UNCHANGED <<camState, streamer>>
           \/ \E j \in Camera \union {0} :
                /\ camState' = [camState EXCEPT ![j] = "closed"]
                /\ streamer' = [streamer EXCEPT ![j] = NULL]
    BY <1>5 DEF closeCamera, serviceDied, shutdown, OwnerInv, ListingOK, Call
  <2>2. QED BY <1>1, <2>1 DEF CameraLives
<1>6. CASE openCamera
  BY <1>1, <1>6 DEF openCamera
<1>7. CASE \/ mediaCreated \/ EnumAvailableVideo \/ SearchFails \/ getCameraList \/ findFails
           \/ \E c \in Client : \/ clientDies(c) \/ openDisplay(c)
                                \/ callList(c) \/ callOpenCamera(c) \/ callCloseCamera(c)
                                \/ \E d \in Display : DisplayCall(c, d)
  <2>1. UNCHANGED cams
    BY <1>7 DEF mediaCreated, EnumAvailableVideo, SearchFails, getCameraList, findFails,
                clientDies, openDisplay, callList, callOpenCamera, callCloseCamera, Search,
                DisplayCall, closeDisplay, setDisplayState, returnTargetBufferForDisplay, dropDisplay
  <2>2. QED BY <1>2, <2>1
<1>8. CASE UNCHANGED vars
  BY <1>2, <1>8 DEF vars
<1>9. QED BY <1>3, <1>4, <1>5, <1>6, <1>7, <1>8 DEF Next, CameraCall

\* Only openCamera makes a camera object.
LEMMA OthersMakeNoCamera ==
  ASSUME [Next]_vars, ~openCamera
  PROVE  UNCHANGED <<cameras, camRecord>>
  BY DEF Next, vars, cams, mediaCreated, EnumAvailableVideo, SearchFails, getCameraList, findFails,
         closeCamera, serviceDied, clientDies, openDisplay, callList, callOpenCamera,
         callCloseCamera, Search, CameraCall, startVideoStream, stopVideoStream, dropCamera,
         DisplayCall, closeDisplay, setDisplayState, returnTargetBufferForDisplay, dropDisplay

LEMMA CameraStep ==
  ASSUME OwnerInv, OwnerInv', [Next]_vars, NEW r \in Record
  PROVE  [CameraOwner(r)!OwnerNext]_<<OpenCameras(r), CamerasOf(r)>>
<1>1. cameras \in 0 .. MAX_CAMERAS /\ MAX_CAMERAS \in Nat /\ Camera = 1 .. MAX_CAMERAS
  BY CountsAssumption DEF OwnerInv, CameraInv, CamerasOK, Camera
<1>2. CASE UNCHANGED <<cameras, camRecord>>
  <2>1. CamerasOf(r)' = CamerasOf(r)
    BY <1>2 DEF CamerasOf
  <2>2. CamerasOf(r) \subseteq Camera
    BY <1>1 DEF CamerasOf
  <2>3. QED BY <1>2, <2>1, <2>2, ClosedStaysClosed, NobodyReopens
<1>3. CASE openCamera
  <2>1. PICK call \in bpc :
          /\ call.op = "open" /\ cameras' = cameras + 1
          /\ camRecord' = [camRecord EXCEPT ![cameras + 1] = call.record]
          /\ camState' = [j \in Camera |-> IF j = cameras + 1 THEN "fresh"
                                           ELSE IF j = Promote(call.record) THEN "closed"
                                           ELSE camState[j]]
          /\ streamer' = [j \in Camera |-> IF j = Promote(call.record) THEN NULL ELSE streamer[j]]
          /\ camHolder' = [camHolder EXCEPT ![cameras + 1] = call.client]
    BY <1>3 DEF openCamera
  <2>2. cameras + 1 \in Camera /\ call.client \in Client
    BY <1>1, <2>1 DEF OwnerInv, ListingOK, CallsMeant, Call
  <2>3. /\ camRecord \in [Camera -> Record \union {NULL}]
        /\ camHolder \in [Camera -> Client \union {NULL}]
    BY DEF OwnerInv, CameraInv, CamerasOK
  <2>4. CASE call.record = r
    <3>1. CamerasOf(r)' = CamerasOf(r) \union {cameras + 1}
      BY <1>1, <2>1, <2>2, <2>3, <2>4 DEF CamerasOf
    <3>2. cameras + 1 \in OpenCameras(r)'
      <4>1. camState'[cameras + 1] # "closed"
        BY <2>1, <2>2
      <4>2. camHolder'[cameras + 1] # NULL
        BY <2>1, <2>2, <2>3, NullAssumption
      <4>3. QED BY <3>1, <4>1, <4>2 DEF OpenCameras, CameraLives
    <3>3. OpenCameras(r)' = {cameras + 1}
      <4>1. OpenCameras(r)' \subseteq Camera
        BY <1>1, <2>1, <2>2 DEF OpenCameras, CamerasOf
      <4>2. \A i, j \in OpenCameras(r)' : i = j
        BY <4>1 DEF OwnerInv, CameraInv, OneCameraOwner, OpenCameras, CamerasOf
      <4>3. QED BY <3>2, <4>2
    <3>4. cameras + 1 \notin CamerasOf(r)
      BY <1>1 DEF CamerasOf
    <3>5. CameraOwner(r)!Acquire(cameras + 1)
      BY <3>1, <3>3, <3>4 DEF CameraOwner!Acquire
    <3>6. QED BY <2>2, <3>5 DEF CameraOwner!OwnerNext
  <2>5. CASE call.record # r
    <3>1. CamerasOf(r)' = CamerasOf(r) /\ CamerasOf(r) \subseteq 1 .. cameras
      BY <1>1, <2>1, <2>2, <2>3, <2>5 DEF CamerasOf
    <3>2. ASSUME NEW i \in CamerasOf(r), CameraLives(i)', camState'[i] # "closed"
          PROVE  CameraLives(i) /\ camState[i] # "closed"
      <4>1. i \in Camera /\ i # cameras + 1
        BY <1>1, <3>1
      <4>2. camHolder'[i] = camHolder[i]
        BY <2>1, <2>3, <4>1
      <4>3. camState[i] # "closed"
        BY <2>1, <3>2, <4>1
      <4>4. streamer'[i] # NULL => streamer[i] # NULL
        BY <2>1, <4>1
      <4>5. QED BY <3>2, <4>2, <4>3, <4>4 DEF CameraLives
    <3>3. QED BY <3>1, <3>2, NobodyReopens
  <2>6. QED BY <2>4, <2>5
<1>4. QED BY <1>2, <1>3, OthersMakeNoCamera

\* Of every record, whoever opens its camera has it, alone; a camera object that was
\* closed or taken away never opens or streams again (openCamera, closeCamera,
\* startVideoStream, which only a camera never started gets past).
THEOREM CameraIsLastOwner ==
  ASSUME NEW r \in Record
  PROVE  Spec => CameraOwner(r)!OwnerSpec
<1>1. Init => CameraOwner(r)!OwnerInit
  <2> SUFFICES ASSUME Init PROVE CameraOwner(r)!OwnerInit
    OBVIOUS
  <2>1. CamerasOf(r) = {} /\ OpenCameras(r) = {}
    BY DEF Init, CamerasOf, OpenCameras
  <2>2. QED BY <2>1 DEF CameraOwner!OwnerInit
<1>2. OwnerInv /\ OwnerInv' /\ [Next]_vars => [CameraOwner(r)!OwnerNext]_(CameraOwner(r)!ownerVars)
  BY CameraStep DEF CameraOwner!ownerVars
<1>3. QED BY <1>1, <1>2, OwnerInvariant, PTL DEF Spec, CameraOwner!OwnerSpec
=============================================================================
