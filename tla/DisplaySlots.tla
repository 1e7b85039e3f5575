----------------------------- MODULE DisplaySlots -----------------------------
(***************************************************************************)
(* The hardware layer through which the EVS HAL shows its frames, and the  *)
(* buffer slots of that layer: DisplayHal.cpp, BufferSlot and the hardware *)
(* layers of Display.cpp, and the vsync thread of KmsDisplay.cpp, all of   *)
(* src/display/display, with the calls EvsDisplay.cpp makes.               *)
(*                                                                         *)
(* Three threads of the composer process: cpc serves the EVS HAL, whose    *)
(* only thread makes one call at a time; spc serves SurfaceFlinger; vpc is *)
(* the vsync thread, which looks at the layers without their lock.  A step *)
(* is what a thread does under one lock.                                   *)
(***************************************************************************)
EXTENDS Integers, Sequences, FiniteSets, SequencesExt

CONSTANTS
  DISPLAY_BUFFER_NUM,  \* slots of a layer
  MAX_TAKEN,           \* buffers the EVS application draws on at once
  MAX_OPENS,           \* bound: layers made
  NULL,
  Env                  \* what the environment may do, a subset of EnvKinds

\* "unplug":   the main display may have no active configuration
\* "skip":     SurfaceFlinger may have a layer that it draws itself: skipped, of
\*             the client type or of one the display does not know
\* "overlay":  its only layer may be one that a plane of the display shows
\* "spurious": a wait may end without a signal
EnvKinds == {"unplug", "skip", "overlay", "spurious"}

ASSUME CountsAssumption ==
  /\ DISPLAY_BUFFER_NUM \in Nat /\ MAX_TAKEN \in Nat /\ MAX_OPENS \in Nat
  /\ MAX_TAKEN > 0 /\ MAX_TAKEN < DISPLAY_BUFFER_NUM
ASSUME EnvAssumption == Env \subseteq EnvKinds
LayerId == 1 .. MAX_OPENS
SF == 0  \* stands for SurfaceFlinger's layers
ASSUME NullAssumption == NULL \notin LayerId
Slot == 0 .. DISPLAY_BUFFER_NUM - 1

VARIABLES
  mLayers,       \* the layer that exists, or NULL; layers are never the same twice
  opens,         \* layers made so far
  busy,          \* the layer was set up by presentLayer()
  mHwLayer,      \* mHwLayers[index] of the display: a layer or NULL
  mLayerVector,  \* what the next composition draws: hardware layers, and SF
  mFreeSlot, mPresentSlot, mLastPresent,
  mPresentTotal, \* counted up to 2
  signalled,     \* mCondition was signalled while a caller waited on it
  taken, lost,   \* slots the EVS application has, and those nobody has any more
  cpc, cslot,    \* the thread serving the EVS HAL
  sfUp, layersBusy, hides, \* SurfaceFlinger: started, has layers, of the kind "skip" or "overlay"
  refresh,       \* onRefresh() asked SurfaceFlinger for a new frame
  spc,           \* the thread serving SurfaceFlinger
  vpc, vptr,     \* the vsync thread and the pointer it read
  crashed        \* "freed" or "empty": undefined behaviour, after which nothing is followed

layer == <<mLayers, opens, busy>>
drawn == <<mHwLayer, mLayerVector>>
slots == <<mFreeSlot, mPresentSlot, mLastPresent, mPresentTotal, signalled>>
app == <<taken, lost>>
call == <<cpc, cslot>>
sf == <<sfUp, layersBusy, hides, spc>>
vsync == <<vpc, vptr>>
vars == <<layer, drawn, slots, app, call, sf, refresh, vsync, crashed>>

Init ==
  /\ mLayers = NULL /\ opens = 0 /\ busy = FALSE
  /\ mHwLayer = NULL /\ mLayerVector = {}
  /\ mFreeSlot = << >> /\ mPresentSlot = << >> /\ mLastPresent = -1
  /\ mPresentTotal = 0 /\ signalled = FALSE
  /\ taken = {} /\ lost = {}
  /\ cpc = "idle" /\ cslot = -1
  /\ sfUp = FALSE /\ layersBusy = FALSE /\ hides = "none" /\ spc = "idle"
  /\ refresh = FALSE
  /\ vpc = "idle" /\ vptr = NULL
  /\ crashed = "no"

\* onRefresh(), when SurfaceFlinger has set its callback
Refresh == refresh' = (refresh \/ sfUp)

-----------------------------------------------------------------------------
(* The EVS HAL opens and closes its layer *)

\* EvsDisplay::initialize()
getLayer ==
  /\ cpc = "idle" /\ mLayers = NULL /\ opens < MAX_OPENS
  /\ opens' = opens + 1 /\ mLayers' = opens' /\ busy' = FALSE
  /\ mFreeSlot' = [i \in 1 .. DISPLAY_BUFFER_NUM |-> i - 1]
  /\ mPresentSlot' = << >> /\ mLastPresent' = -1 /\ mPresentTotal' = 0
  /\ UNCHANGED <<drawn, signalled, app, call, sf, refresh, vsync, crashed>>

\* Mutant: the composition keeps the layer it was going to draw.
removeHwLayerOnly ==
  /\ cpc = "idle" /\ mLayers # NULL /\ cpc' = "delete"
  /\ mHwLayer' = NULL /\ taken' = {} /\ lost' = {}
  /\ UNCHANGED <<layer, mLayerVector, slots, cslot, sf, refresh, vsync, crashed>>

\* EvsDisplay::forceShutdown(): the display's client loses its buffers.
removeHwLayer ==
  /\ cpc = "idle" /\ mLayers # NULL /\ cpc' = "delete"
  /\ mHwLayer' = NULL
  /\ mLayerVector' = mLayerVector \ {mHwLayer}
  /\ taken' = {} /\ lost' = {}
  /\ UNCHANGED <<layer, slots, cslot, sf, refresh, vsync, crashed>>

deleteLayer ==
  /\ cpc = "delete" /\ cpc' = "idle"
  /\ mLayers' = NULL /\ busy' = FALSE
  /\ mFreeSlot' = << >> /\ mPresentSlot' = << >> /\ mLastPresent' = -1 /\ mPresentTotal' = 0
  /\ Refresh
  /\ UNCHANGED <<opens, drawn, signalled, app, cslot, sf, vsync, crashed>>

-----------------------------------------------------------------------------
(* getSlot(): EvsDisplay::getTargetBuffer() *)

TakeSlot ==
  /\ mFreeSlot # << >>
  /\ taken' = taken \union {Head(mFreeSlot)} /\ mFreeSlot' = Tail(mFreeSlot)
  /\ cpc' = "idle"
  /\ UNCHANGED <<layer, drawn, mPresentSlot, mLastPresent, mPresentTotal, lost, cslot, sf,
                 refresh, vsync>>

getFreeSlot ==
  /\ cpc = "idle" /\ mLayers # NULL /\ Cardinality(taken) < MAX_TAKEN
  /\ \/ TakeSlot /\ UNCHANGED <<signalled, crashed>>
     \/ /\ mFreeSlot = << >> /\ cpc' = "waiting" /\ signalled' = FALSE
        /\ UNCHANGED <<layer, drawn, mFreeSlot, mPresentSlot, mLastPresent, mPresentTotal, app,
                       cslot, sf, refresh, vsync, crashed>>

WakeUp ==
  /\ cpc = "waiting" /\ signalled /\ TakeSlot
  /\ UNCHANGED <<signalled, crashed>>

\* The wait is not repeated: the first slot of an empty list is taken.
SpuriousWakeup ==
  /\ "spurious" \in Env /\ cpc = "waiting" /\ ~signalled /\ crashed' = "empty"
  /\ UNCHANGED <<layer, drawn, slots, app, call, sf, refresh, vsync>>

-----------------------------------------------------------------------------
(* presentLayer(): EvsDisplay::returnTargetBufferForDisplay() *)

\* EvsDisplay ignores the error: the slot is neither free nor presented.
presentRefused(slot) ==
  /\ "unplug" \in Env
  /\ cpc = "idle" /\ mLayers # NULL /\ slot \in taken
  /\ taken' = taken \ {slot} /\ lost' = lost \union {slot}
  /\ UNCHANGED <<layer, drawn, slots, call, sf, refresh, vsync, crashed>>

addHwLayer(slot) ==
  /\ cpc = "idle" /\ mLayers # NULL /\ slot \in taken
  /\ taken' = taken \ {slot}
  /\ cpc' = "present" /\ cslot' = slot
  /\ busy' = TRUE
  /\ mHwLayer' = IF busy THEN mHwLayer ELSE mLayers
  /\ UNCHANGED <<mLayers, opens, mLayerVector, slots, lost, sf, refresh, vsync, crashed>>

addPresentSlot ==
  /\ cpc = "present" /\ cpc' = "trigger" /\ cslot' = -1
  /\ mPresentSlot' = Append(mPresentSlot, cslot)
  /\ mPresentTotal' = IF mPresentTotal < 2 THEN mPresentTotal + 1 ELSE 2
  /\ UNCHANGED <<layer, drawn, mFreeSlot, mLastPresent, signalled, app, sf, refresh, vsync, crashed>>

\* With no layer of SurfaceFlinger the hardware layers are composed at once.
directCompositionLocked == ~layersBusy /\ mHwLayer # NULL

triggerComposition ==
  /\ cpc = "trigger"
  /\ cpc' = IF directCompositionLocked THEN "compose" ELSE "idle"
  /\ IF ~directCompositionLocked /\ mPresentTotal = 1 THEN Refresh ELSE UNCHANGED refresh
  /\ UNCHANGED <<layer, drawn, slots, app, cslot, sf, vsync, crashed>>

-----------------------------------------------------------------------------
(* Composition, by either thread *)

\* Mutant: the slot now shown is freed, not the one shown before.
FreedSlotNow == Head(mPresentSlot)
FreedSlot == mLastPresent

\* Mutant: nobody is told of the free slot.
getPresentSlotQuietly ==
  /\ mPresentSlot' = Tail(mPresentSlot)
  /\ mLastPresent' = Head(mPresentSlot)
  /\ mFreeSlot' = IF mLastPresent = -1 THEN mFreeSlot ELSE Append(mFreeSlot, FreedSlot)
  /\ UNCHANGED signalled

getPresentSlot ==
  /\ mPresentSlot' = Tail(mPresentSlot)
  /\ mLastPresent' = Head(mPresentSlot)
  /\ IF mLastPresent = -1 THEN UNCHANGED <<mFreeSlot, signalled>>
     ELSE /\ mFreeSlot' = Append(mFreeSlot, FreedSlot)
          /\ signalled' = (signalled \/ cpc = "waiting")

composeLayersLocked ==
  /\ IF mHwLayer # NULL /\ (mLayerVector # {} \/ directCompositionLocked)
     THEN /\ IF mPresentSlot = << >> THEN UNCHANGED <<mFreeSlot, mPresentSlot, mLastPresent, signalled>>
             ELSE getPresentSlot
          /\ mLayerVector' = IF mLastPresent' = -1 THEN mLayerVector
                             ELSE mLayerVector \union {mHwLayer}
     ELSE UNCHANGED <<mLayerVector, mFreeSlot, mPresentSlot, mLastPresent, signalled>>
  /\ UNCHANGED <<layer, mHwLayer, mPresentTotal, app, cslot, sfUp, layersBusy, hides, vsync, crashed>>

presentComposes ==
  /\ cpc = "compose" /\ cpc' = "idle"
  /\ composeLayersLocked
  /\ UNCHANGED <<spc, refresh>>

\* SurfaceFlinger starts, and gets, drops or changes layers between frames.
SurfaceFlinger ==
  /\ spc = "idle" /\ sfUp' = TRUE
  /\ layersBusy' \in BOOLEAN
  /\ hides' \in ({"skip", "overlay"} \intersect Env) \union {"none"}
  /\ UNCHANGED <<layer, drawn, slots, app, call, spc, refresh, vsync, crashed>>

\* A hardware layer asks for device composition; a layer that SurfaceFlinger draws
\* itself, looked at later, forbids it all the same.
DeviceCompose(d) == IF hides = "skip" THEN ~d ELSE mHwLayer # NULL => d

verifyLayers ==
  /\ spc = "idle" /\ sfUp /\ spc' = "verified"
  /\ refresh' = FALSE
  /\ \E d \in BOOLEAN :
       /\ DeviceCompose(d)
       /\ mLayerVector' = IF d /\ layersBusy /\ hides # "overlay" THEN {SF} ELSE {}
  /\ UNCHANGED <<layer, mHwLayer, slots, app, call, sfUp, layersBusy, hides, vsync, crashed>>

composeLayers ==
  /\ spc = "verified" /\ spc' = "idle"
  /\ composeLayersLocked
  /\ UNCHANGED <<cpc, refresh>>

-----------------------------------------------------------------------------
(* The vsync thread: forceVync() and triggerRefresh() read mHwLayers without *)
(* mLock, and then the layer and its slots                                   *)

readHwLayer ==
  /\ vpc = "idle" /\ vptr' = mHwLayer
  /\ vpc' = IF mHwLayer = NULL THEN "idle" ELSE "use"
  /\ UNCHANGED <<layer, drawn, slots, app, call, sf, refresh, crashed>>

\* Mutant: slots waiting to be shown ask for nothing.
triggerNothing ==
  /\ vpc = "use" /\ vpc' = "idle" /\ vptr' = NULL
  /\ vptr = mLayers
  /\ UNCHANGED <<layer, drawn, slots, app, call, sf, refresh, crashed>>

triggerRefresh ==
  /\ vpc = "use" /\ vpc' = "idle" /\ vptr' = NULL
  /\ vptr = mLayers
  /\ IF mPresentSlot # << >> THEN Refresh ELSE UNCHANGED refresh
  /\ UNCHANGED <<layer, drawn, slots, app, call, sf, crashed>>

\* The layer was deleted meanwhile: what is read may pass for slots, or crash.
useFreed ==
  /\ vpc = "use" /\ vpc' = "idle" /\ vptr' = NULL
  /\ vptr # mLayers
  /\ \/ Refresh /\ UNCHANGED crashed
     \/ UNCHANGED <<refresh, crashed>>
     \/ crashed' = "freed" /\ UNCHANGED refresh
  /\ UNCHANGED <<layer, drawn, slots, app, call, sf>>

-----------------------------------------------------------------------------
Present == addPresentSlot \/ triggerComposition \/ presentComposes
HalCalls == \/ getLayer \/ removeHwLayer \/ getFreeSlot
            \/ \E slot \in Slot : presentRefused(slot) \/ addHwLayer(slot)
Continue == deleteLayer \/ WakeUp \/ Present
Vsync == readHwLayer \/ triggerRefresh \/ useFreed

Next ==
  /\ crashed = "no"
  /\ \/ HalCalls \/ Continue \/ SpuriousWakeup
     \/ SurfaceFlinger \/ verifyLayers \/ composeLayers
     \/ Vsync

Spec == Init /\ [][Next]_vars

\* A call that began goes on, vsync ticks, and SurfaceFlinger, once up, answers a
\* refresh.  The EVS HAL owes no call, and SurfaceFlinger no other frame.
FairSpec ==
  /\ Spec
  /\ WF_vars(crashed = "no" /\ Continue)
  /\ WF_vars(crashed = "no" /\ Vsync)
  /\ WF_vars(crashed = "no" /\ refresh /\ verifyLayers)
  /\ WF_vars(crashed = "no" /\ composeLayers)

-----------------------------------------------------------------------------
FlagsOK ==
  /\ busy \in BOOLEAN /\ signalled \in BOOLEAN /\ sfUp \in BOOLEAN
  /\ layersBusy \in BOOLEAN /\ refresh \in BOOLEAN

DataOK ==
  /\ mLayers \in LayerId \union {NULL} /\ opens \in 0 .. MAX_OPENS
  /\ mHwLayer \in LayerId \union {NULL} /\ mLayerVector \subseteq LayerId \union {SF}
  /\ mFreeSlot \in Seq(Slot) /\ mPresentSlot \in Seq(Slot) /\ mLastPresent \in Slot \union {-1}
  /\ mPresentTotal \in 0 .. 2
  /\ taken \subseteq Slot /\ lost \subseteq Slot
  /\ cpc \in {"idle", "delete", "waiting", "present", "trigger", "compose"}
  /\ cslot \in Slot \union {-1}
  /\ hides \in {"none", "skip", "overlay"} /\ spc \in {"idle", "verified"}
  /\ vpc \in {"idle", "use"} /\ vptr \in LayerId \union {NULL}
  /\ crashed \in {"no", "freed", "empty"}

\* The values every variable may take.
TypeOK == FlagsOK /\ DataOK

OrNone(slot) == IF slot = -1 THEN << >> ELSE <<slot>>
InService == mFreeSlot \o mPresentSlot \o OrNone(mLastPresent) \o OrNone(cslot)

\* Every slot of an open layer is in one place: free, waiting to be shown, shown,
\* being presented, drawn on by the application, or lost by a refused
\* presentation.  No buffer is drawn on while the display may read it.
SlotsInOnePlace ==
  mLayers # NULL /\ cpc # "delete" =>
    /\ IsInjective(InService)
    /\ taken \intersect lost = {}
    /\ Range(InService) \union taken \union lost = Slot
    /\ Range(InService) \intersect (taken \union lost) = {}

\* The display never keeps a layer that was deleted (DisplayHal.cpp:86 "remove hw
\* layer from display.").
DisplayForgetsLayer ==
  /\ mHwLayer \in {NULL, mLayers}
  /\ mLayerVector \subseteq {SF, mLayers}

\* While SurfaceFlinger has layers and none of them is composed by the device,
\* composeLayersLocked() returns before it comes to the hardware layers.
HwLayersLeftOut == layersBusy /\ hides # "none"

\* getSlot() returns ("it may be block when no free slot", Display.h:66), however
\* SurfaceFlinger's layers come and go, as long as two slots are neither lost nor
\* with the application, unless the hardware layers are left out again and again.
GetSlotReturns ==
  \/ []<>HwLayersLeftOut
  \/ (cpc = "waiting") ~>
       (cpc # "waiting" \/ crashed # "no" \/ Cardinality(taken \union lost) + 2 > DISPLAY_BUFFER_NUM)

\* A frame that was presented is shown, or the display is closed: no frame waits
\* for the next one to be presented, unless the hardware layers are left out again
\* and again.
PresentedIsShown ==
  \/ []<>HwLayersLeftOut
  \/ \A slot \in Slot : (slot \in Range(mPresentSlot)) ~> (slot \notin Range(mPresentSlot) \/ crashed # "no")
=============================================================================
