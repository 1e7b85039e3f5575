------------------------------- MODULE EvsState -------------------------------
(***************************************************************************)
(* The EVS application's control: it shows the camera view that the gear   *)
(* and the turn signal call for (src/evs/evs_app: EvsStateControl.cpp,     *)
(* EvsVehicleListener.h, evs_app.cpp and the renderers' activate() and     *)
(* deactivate()).                                                          *)
(*                                                                         *)
(* Three threads: the binder thread gets the vehicle's events, the main    *)
(* thread (lpc) turns them into commands, the update loop (upc) reads the  *)
(* vehicle, switches renderers and draws.  The display is EvsDisplay.cpp,  *)
(* reduced to its state, which another client may steal.                   *)
(***************************************************************************)
EXTENDS Integers, FiniteSets

CONSTANTS
  NULL,
  Gear, Signal,     \* the values of the two properties the loop reads
  Cameras,          \* how many configured cameras serve each state, up to 2
  Notified,         \* the properties whose changes are notified
  Faults,           \* what may go wrong
  SfAtBoot,         \* SurfaceFlinger runs before the application does
  MAX_EVENTS        \* bound: events under way to the application

State == {"OFF", "REVERSE", "LEFT", "RIGHT", "PARKING"}
Property == {"gear", "signal"}
FaultKinds == {"gear", "signal", "camera", "draw", "display"}

ASSUME NullAssumption == NULL \notin [view : State, kind : {"copy", "direct", "top"}]
ASSUME GearAssumption == {"REVERSE", "PARK", "DRIVE"} \subseteq Gear
ASSUME SignalAssumption == {"NONE", "LEFT", "RIGHT"} \subseteq Signal
ASSUME CameraAssumption == Cameras \in [State -> 0..2] /\ Cameras["OFF"] = 0
ASSUME EnvAssumption == /\ Notified \subseteq Property /\ Faults \subseteq FaultKinds
                        /\ SfAtBoot \in BOOLEAN /\ MAX_EVENTS \in Nat

VARIABLES
  gear, signal,      \* the vehicle
  events,            \* onPropertyEvent() calls not served yet
  lpc, eventCond,    \* the main thread; mEventCond was notified while it waited
  mCommandQueue,     \* the operations in the queue, which is emptied at once
  wakeSignal,        \* mWakeSignal was notified while the loop waited
  upc,               \* the update loop
  mGearValue, mTurnSignalValue, signalKnown,
  mCurrentState, mCurrentRenderer,
  isGlReady, sfReady,
  streaming,         \* the renderers whose cameras stream
  mRequestedState    \* of the display

vehicle == <<gear, signal>>
listener == <<lpc, eventCond>>
readings == <<mGearValue, mTurnSignalValue, signalKnown>>
pipeline == <<mCurrentState, mCurrentRenderer, isGlReady, streaming, mRequestedState>>
vars == <<vehicle, events, listener, mCommandQueue, wakeSignal, upc, readings,
          pipeline, sfReady>>

Init ==
  /\ gear \in Gear /\ signal \in Signal /\ events = 0
  /\ lpc = "waiting" /\ eventCond = FALSE
  /\ mCommandQueue = {} /\ wakeSignal = FALSE
  /\ upc = "drain"
  /\ mGearValue = NULL /\ mTurnSignalValue = NULL /\ signalKnown = TRUE
  /\ mCurrentState = "OFF" /\ mCurrentRenderer = NULL
  /\ isGlReady = FALSE /\ sfReady = SfAtBoot
  /\ streaming = {} /\ mRequestedState = "NOT_VISIBLE"

Alive == upc # "exited"   \* exit(1) ends every thread

-----------------------------------------------------------------------------
(* The environment *)

Changes(p) ==
  /\ Alive
  /\ IF p \in Notified THEN events < MAX_EVENTS /\ events' = events + 1
     ELSE UNCHANGED events
  /\ UNCHANGED <<listener, mCommandQueue, wakeSignal, upc, readings, pipeline, sfReady>>

GearChanges == Changes("gear") /\ gear' \in Gear \ {gear} /\ UNCHANGED signal
SignalChanges == Changes("signal") /\ signal' \in Signal \ {signal} /\ UNCHANGED gear

\* SurfaceFlinger registers its service and stays.
SurfaceFlingerStarts ==
  /\ Alive /\ ~sfReady /\ sfReady' = TRUE
  /\ UNCHANGED <<vehicle, events, listener, mCommandQueue, wakeSignal, upc, readings, pipeline>>

\* Another client opens the display: EvsDisplay::forceShutdown().
DisplayIsStolen ==
  /\ Alive /\ "display" \in Faults /\ mRequestedState # "DEAD"
  /\ mRequestedState' = "DEAD"
  /\ UNCHANGED <<vehicle, events, listener, mCommandQueue, wakeSignal, upc, readings,
                 mCurrentState, mCurrentRenderer, isGlReady, streaming, sfReady>>

-----------------------------------------------------------------------------
(* The binder thread and the main thread, EvsVehicleListener *)

onPropertyEvent ==
  /\ Alive /\ events > 0 /\ events' = events - 1
  /\ eventCond' = (eventCond \/ lpc = "waiting")
  /\ UNCHANGED <<vehicle, lpc, mCommandQueue, wakeSignal, upc, readings, pipeline, sfReady>>

\* Mutant: the wait has no timeout.
waitForEventsForever ==
  /\ Alive /\ lpc = "waiting" /\ eventCond
  /\ lpc' = "push" /\ eventCond' = FALSE
  /\ UNCHANGED <<vehicle, events, mCommandQueue, wakeSignal, upc, readings, pipeline, sfReady>>

\* wait_for() returns when it is notified, and after five seconds.
waitForEvents ==
  /\ Alive /\ lpc = "waiting"
  /\ lpc' = "push" /\ eventCond' = FALSE
  /\ UNCHANGED <<vehicle, events, mCommandQueue, wakeSignal, upc, readings, pipeline, sfReady>>

\* postCommand() pushes the command under mLock, and then signals
pushCommand ==
  /\ Alive /\ lpc = "push" /\ lpc' = "notify"
  /\ mCommandQueue' = mCommandQueue \union {"CHECK_VEHICLE_STATE"}
  /\ UNCHANGED <<vehicle, events, eventCond, wakeSignal, upc, readings, pipeline, sfReady>>
signalCommand ==
  /\ Alive /\ lpc = "notify" /\ lpc' = "waiting"
  /\ wakeSignal' = (wakeSignal \/ upc = "asleep")
  /\ UNCHANGED <<vehicle, events, eventCond, mCommandQueue, upc, readings, pipeline, sfReady>>

-----------------------------------------------------------------------------
(* The update loop: drain the commands, read the vehicle, switch, draw or  *)
(* sleep                                                                   *)

others == <<vehicle, events, listener, sfReady>>

drainCommands ==
  /\ upc = "drain" /\ upc' = "gear"
  /\ mCommandQueue' = {}
  /\ UNCHANGED <<others, wakeSignal, readings, pipeline>>

readGear ==
  /\ upc = "gear"
  /\ \/ mGearValue' = gear /\ upc' = "signal"
     \/ "gear" \in Faults /\ upc' = "exited" /\ UNCHANGED mGearValue
  /\ UNCHANGED <<others, mCommandQueue, wakeSignal, mTurnSignalValue, signalKnown, pipeline>>

\* A turn signal that cannot be read once is not asked for again.
readTurnSignal ==
  /\ upc = "signal" /\ upc' = "configure"
  /\ \/ signalKnown /\ mTurnSignalValue' = signal /\ UNCHANGED signalKnown
     \/ /\ ~signalKnown \/ "signal" \in Faults
        /\ mTurnSignalValue' = "NONE" /\ signalKnown' = FALSE
  /\ UNCHANGED <<others, mCommandQueue, wakeSignal, mGearValue, pipeline>>

Desired(g, s) ==
  CASE g = "REVERSE" -> "REVERSE"
    [] g # "REVERSE" /\ s = "RIGHT" -> "RIGHT"
    [] g # "REVERSE" /\ s = "LEFT" -> "LEFT"
    [] g = "PARK" /\ s \notin {"LEFT", "RIGHT"} -> "PARKING"
    [] OTHER -> "OFF"
desiredState == Desired(mGearValue, mTurnSignalValue)

UseGl == isGlReady \/ sfReady
\* which renderer is made for a state: the top view for parking needs no camera
Kind(s) ==
  CASE ~UseGl /\ Cameras[s] > 0 -> "copy"
    [] UseGl /\ Cameras[s] = 1 -> "direct"
    [] UseGl /\ (Cameras[s] > 1 \/ (s = "PARKING" /\ Cameras[s] = 0)) -> "top"
    [] OTHER -> "none"
NewRenderer(s) == IF Kind(s) = "none" THEN NULL ELSE [view |-> s, kind |-> Kind(s)]

\* Mutant: the old renderer is not deactivated.
AfterReplacing == streaming

\* Deactivating a GL renderer destroys its textures, which stops and closes the
\* cameras.  RenderPixelCopy only drops its StreamHandler, which the camera's
\* reference keeps alive: the stream goes on.
AfterDeactivate ==
  IF mCurrentRenderer # NULL /\ mCurrentRenderer.kind # "copy"
  THEN streaming \ {mCurrentRenderer} ELSE streaming

Rest(renderer) == IF renderer = NULL THEN "sleep" ELSE "target"

stateIsCurrent ==
  /\ upc = "configure" /\ mCurrentState = desiredState
  /\ upc' = Rest(mCurrentRenderer)
  /\ UNCHANGED <<others, mCommandQueue, wakeSignal, readings, pipeline>>

\* Mutant: the display is left as it is.
turnOffLater ==
  /\ upc = "configure" /\ mCurrentState # desiredState /\ NewRenderer(desiredState) = NULL
  /\ upc' = "sleep"
  /\ mCurrentState' = desiredState /\ mCurrentRenderer' = NULL
  /\ isGlReady' = UseGl /\ streaming' = AfterDeactivate
  /\ UNCHANGED <<others, mCommandQueue, wakeSignal, readings, mRequestedState>>

turnOff ==
  /\ upc = "configure" /\ mCurrentState # desiredState /\ NewRenderer(desiredState) = NULL
  /\ upc' = "sleep"
  /\ mCurrentState' = desiredState /\ mCurrentRenderer' = NULL
  /\ isGlReady' = UseGl /\ streaming' = AfterDeactivate
  /\ mRequestedState' = IF mRequestedState = "DEAD" THEN "DEAD" ELSE "NOT_VISIBLE"
  /\ UNCHANGED <<others, mCommandQueue, wakeSignal, readings>>

switchRenderer ==
  /\ upc = "configure" /\ mCurrentState # desiredState /\ NewRenderer(desiredState) # NULL
  /\ upc' = "activate"
  /\ mCurrentRenderer' = NewRenderer(desiredState)
  /\ isGlReady' = UseGl /\ streaming' = AfterDeactivate
  /\ UNCHANGED <<others, mCommandQueue, wakeSignal, readings, mCurrentState, mRequestedState>>

ActivateOpens ==
  /\ upc' = "show"
  /\ streaming' = IF Cameras[mCurrentRenderer.view] = 0 THEN streaming
                  ELSE streaming \union {mCurrentRenderer}

\* A camera that does not open ends the application, but not in the top view.
ActivateFails ==
  /\ "camera" \in Faults /\ UNCHANGED streaming
  /\ upc' = IF mCurrentRenderer.kind = "top" THEN "show" ELSE "exited"

activate ==
  /\ upc = "activate" /\ (ActivateOpens \/ ActivateFails)
  /\ UNCHANGED <<others, mCommandQueue, wakeSignal, readings, mCurrentState, mCurrentRenderer,
                 isGlReady, mRequestedState>>

\* Mutant: the new state is not recorded.
showUnrecorded ==
  /\ upc = "show"
  /\ IF mRequestedState = "DEAD"
     THEN upc' = "exited" /\ UNCHANGED mRequestedState
     ELSE upc' = "target" /\ mRequestedState' = "VISIBLE_ON_NEXT_FRAME"
  /\ UNCHANGED <<others, mCommandQueue, wakeSignal, readings, mCurrentState, mCurrentRenderer,
                 isGlReady, streaming>>

showRenderer ==
  /\ upc = "show"
  /\ IF mRequestedState = "DEAD"
     THEN upc' = "exited" /\ UNCHANGED <<mCurrentState, mRequestedState>>
     ELSE /\ upc' = "target" /\ mCurrentState' = desiredState
          /\ mRequestedState' = "VISIBLE_ON_NEXT_FRAME"
  /\ UNCHANGED <<others, mCommandQueue, wakeSignal, readings, mCurrentRenderer, isGlReady, streaming>>

\* A display that was lost gives no buffer: the frame is skipped.
getTargetBuffer ==
  /\ upc = "target" /\ upc' = IF mRequestedState = "DEAD" THEN "drain" ELSE "draw"
  /\ UNCHANGED <<others, mCommandQueue, wakeSignal, readings, pipeline>>

drawFrame ==
  /\ upc = "draw"
  /\ \/ upc' = "drain"
     \/ "draw" \in Faults /\ upc' = "exited"
  /\ mRequestedState' = IF mRequestedState = "VISIBLE_ON_NEXT_FRAME" THEN "VISIBLE" ELSE mRequestedState
  /\ UNCHANGED <<others, mCommandQueue, wakeSignal, readings, mCurrentState, mCurrentRenderer,
                 isGlReady, streaming>>

sleep ==
  /\ upc = "sleep" /\ upc' = "asleep" /\ wakeSignal' = FALSE
  /\ UNCHANGED <<others, mCommandQueue, readings, pipeline>>

LeaveWait ==
  /\ upc = "asleep" /\ upc' = "drain"
  /\ UNCHANGED <<others, mCommandQueue, wakeSignal, readings, pipeline>>
wakeUp == wakeSignal /\ LeaveWait
SpuriousWakeup == ~wakeSignal /\ LeaveWait

-----------------------------------------------------------------------------
Environment == GearChanges \/ SignalChanges \/ SurfaceFlingerStarts \/ DisplayIsStolen
Listening == waitForEvents \/ pushCommand \/ signalCommand
updateLoop == \/ drainCommands \/ readGear \/ readTurnSignal
              \/ stateIsCurrent \/ turnOff \/ switchRenderer \/ activate \/ showRenderer
              \/ getTargetBuffer \/ drawFrame \/ sleep \/ wakeUp

Next == Environment \/ onPropertyEvent \/ Listening \/ updateLoop \/ SpuriousWakeup

Spec == Init /\ [][Next]_vars

\* The three threads are scheduled, and the five seconds pass.  Neither the
\* vehicle nor spurious wakeups are owed.
FairSpec == Spec /\ WF_vars(onPropertyEvent) /\ WF_vars(Listening) /\ WF_vars(updateLoop)

-----------------------------------------------------------------------------
UpdatePC == {"drain", "gear", "signal", "configure", "activate", "show", "target", "draw",
             "sleep", "asleep", "exited"}
Renderer == [view : State, kind : {"copy", "direct", "top"}]
DisplayState == {"NOT_VISIBLE", "VISIBLE_ON_NEXT_FRAME", "VISIBLE", "DEAD"}

\* The values every variable may take.
TypeOK ==
  /\ gear \in Gear /\ signal \in Signal /\ events \in 0..MAX_EVENTS
  /\ lpc \in {"waiting", "push", "notify"} /\ eventCond \in BOOLEAN
  /\ mCommandQueue \subseteq {"CHECK_VEHICLE_STATE"} /\ wakeSignal \in BOOLEAN
  /\ upc \in UpdatePC
  /\ mGearValue \in Gear \union {NULL} /\ mTurnSignalValue \in Signal \union {NULL}
  /\ signalKnown \in BOOLEAN
  /\ mCurrentState \in State
  /\ mCurrentRenderer \in Renderer \union {NULL}
  /\ isGlReady \in BOOLEAN /\ sfReady \in BOOLEAN
  /\ streaming \subseteq Renderer
  /\ mRequestedState \in DisplayState

Switching == upc \in {"activate", "show", "exited"}

\* Outside a switch the display, unless it was lost, is visible exactly when
\* there is a renderer ("set the display state based on whether we have a video
\* feed to show", EvsStateControl.cpp:378).
RendererMatchesDisplay ==
  Switching \/ mRequestedState = "DEAD"
    \/ (mCurrentRenderer # NULL <=> mRequestedState \in {"VISIBLE", "VISIBLE_ON_NEXT_FRAME"})

\* A frame is drawn only by the renderer of the state that the vehicle, as it
\* was read in this very round of the loop, calls for.
DrawsDesiredView ==
  upc \in {"target", "draw"} =>
    mCurrentState = desiredState /\ mCurrentRenderer # NULL /\ mCurrentRenderer.view = desiredState

\* Of the cameras drawn with GL only those of the current renderer stream ("We
\* can't hold onto it because some other Render object might need the same
\* camera", RenderDirectView.cpp:79).  A RenderPixelCopy leaves its camera on.
OnlyViewedStreams ==
  \A r \in streaming : r.kind # "copy" => r = mCurrentRenderer

\* Once the vehicle stays as it is, so does the state, at the one it calls for:
\* no event that arrives at a bad moment is lost for good ("validate our current
\* state just in case every so often", EvsVehicleListener.h:61).  Only the end of
\* the application prevents it, or a turn signal that could once not be read.
ViewFollowsVehicle ==
  <>[][UNCHANGED vehicle]_vehicle =>
    <>(upc = "exited")
      \/ <>[](mCurrentState = Desired(gear, IF signalKnown THEN signal ELSE "NONE"))
=============================================================================
