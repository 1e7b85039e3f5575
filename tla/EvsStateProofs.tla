---------------------------- MODULE EvsStateProofs ----------------------------
(***************************************************************************)
(* What EvsState promises for every vehicle, every assignment of cameras   *)
(* to views and every set of faults: its variables keep their types, the   *)
(* display is visible exactly when there is a renderer, frames are drawn   *)
(* for the state the vehicle calls for, and deactivated views do not       *)
(* stream.                                                                 *)
(***************************************************************************)
EXTENDS EvsState, TLAPS

(* Flags are Boolean-valued and take no part in arithmetic or in sets.     *)
FlagsOK ==
  /\ eventCond \in BOOLEAN /\ wakeSignal \in BOOLEAN
  /\ signalKnown \in BOOLEAN /\ isGlReady \in BOOLEAN /\ sfReady \in BOOLEAN

ThreadsOK ==
  /\ events \in 0..MAX_EVENTS
  /\ lpc \in {"waiting", "push", "notify"} /\ upc \in UpdatePC
  /\ mCommandQueue \subseteq {"CHECK_VEHICLE_STATE"}

ReadingsOK ==
  /\ gear \in Gear /\ signal \in Signal
  /\ mGearValue \in Gear \union {NULL} /\ mTurnSignalValue \in Signal \union {NULL}

PipelineOK ==
  /\ mCurrentState \in State /\ mCurrentRenderer \in Renderer \union {NULL}
  /\ streaming \subseteq Renderer /\ mRequestedState \in DisplayState

LEMMA TypeParts == TypeOK <=> FlagsOK /\ ThreadsOK /\ ReadingsOK /\ PipelineOK
BY DEF TypeOK, FlagsOK, ThreadsOK, ReadingsOK, PipelineOK

USE DEF vars, vehicle, listener, readings, pipeline, others

LEMMA NextFlags == FlagsOK /\ [Next]_vars => FlagsOK'
<1> SUFFICES ASSUME FlagsOK, [Next]_vars PROVE FlagsOK'
  OBVIOUS
<1> USE DEF FlagsOK
<1>1. CASE GearChanges      BY Zenon, <1>1 DEF GearChanges, Changes
<1>2. CASE SignalChanges    BY Zenon, <1>2 DEF SignalChanges, Changes
<1>3. CASE SurfaceFlingerStarts BY Zenon, <1>3 DEF SurfaceFlingerStarts
<1>4. CASE DisplayIsStolen  BY Zenon, <1>4 DEF DisplayIsStolen
<1>5. CASE onPropertyEvent  BY Zenon, <1>5 DEF onPropertyEvent
<1>6. CASE waitForEvents    BY Zenon, <1>6 DEF waitForEvents
<1>7. CASE pushCommand      BY Zenon, <1>7 DEF pushCommand
<1>8. CASE signalCommand    BY Zenon, <1>8 DEF signalCommand
<1>9. CASE drainCommands    BY Zenon, <1>9 DEF drainCommands
<1>10. CASE readGear        BY Zenon, <1>10 DEF readGear
<1>11. CASE readTurnSignal  BY Zenon, <1>11 DEF readTurnSignal
<1>12. CASE stateIsCurrent  BY Zenon, <1>12 DEF stateIsCurrent
<1>13. CASE turnOff         BY Zenon, <1>13 DEF turnOff, UseGl
<1>14. CASE switchRenderer  BY Zenon, <1>14 DEF switchRenderer, UseGl
<1>15. CASE activate        BY Zenon, <1>15 DEF activate
<1>16. CASE showRenderer    BY Zenon, <1>16 DEF showRenderer
<1>17. CASE getTargetBuffer BY Zenon, <1>17 DEF getTargetBuffer
<1>18. CASE drawFrame       BY Zenon, <1>18 DEF drawFrame
<1>19. CASE sleep           BY Zenon, <1>19 DEF sleep
<1>20. CASE LeaveWait       BY Zenon, <1>20 DEF LeaveWait
<1>21. CASE UNCHANGED vars  BY Zenon, <1>21
<1>22. QED
  BY <1>1, <1>2, <1>3, <1>4, <1>5, <1>6, <1>7, <1>8, <1>9, <1>10, <1>11, <1>12, <1>13, <1>14,
     <1>15, <1>16, <1>17, <1>18, <1>19, <1>20, <1>21
  DEF Next, Environment, Listening, updateLoop, wakeUp, SpuriousWakeup

LEMMA NextThreads == ThreadsOK /\ [Next]_vars => ThreadsOK'
<1> SUFFICES ASSUME ThreadsOK, [Next]_vars PROVE ThreadsOK'
  OBVIOUS
<1> USE EnvAssumption DEF ThreadsOK, UpdatePC
<1>1. CASE GearChanges      BY <1>1 DEF GearChanges, Changes
<1>2. CASE SignalChanges    BY <1>2 DEF SignalChanges, Changes
<1>3. CASE SurfaceFlingerStarts BY <1>3 DEF SurfaceFlingerStarts
<1>4. CASE DisplayIsStolen  BY <1>4 DEF DisplayIsStolen
<1>5. CASE onPropertyEvent  BY <1>5 DEF onPropertyEvent
<1>6. CASE waitForEvents    BY <1>6 DEF waitForEvents
<1>7. CASE pushCommand      BY <1>7 DEF pushCommand
<1>8. CASE signalCommand    BY <1>8 DEF signalCommand
<1>9. CASE drainCommands    BY <1>9 DEF drainCommands
<1>10. CASE readGear        BY <1>10 DEF readGear
<1>11. CASE readTurnSignal  BY <1>11 DEF readTurnSignal
<1>12. CASE stateIsCurrent  BY <1>12 DEF stateIsCurrent, Rest
<1>13. CASE turnOff         BY <1>13 DEF turnOff
<1>14. CASE switchRenderer  BY <1>14 DEF switchRenderer
<1>15. CASE activate        BY <1>15 DEF activate, ActivateOpens, ActivateFails
<1>16. CASE showRenderer    BY <1>16 DEF showRenderer
<1>17. CASE getTargetBuffer BY <1>17 DEF getTargetBuffer
<1>18. CASE drawFrame       BY <1>18 DEF drawFrame
<1>19. CASE sleep           BY <1>19 DEF sleep
<1>20. CASE LeaveWait       BY <1>20 DEF LeaveWait
<1>21. CASE UNCHANGED vars  BY <1>21
<1>22. QED
  BY <1>1, <1>2, <1>3, <1>4, <1>5, <1>6, <1>7, <1>8, <1>9, <1>10, <1>11, <1>12, <1>13, <1>14,
     <1>15, <1>16, <1>17, <1>18, <1>19, <1>20, <1>21
  DEF Next, Environment, Listening, updateLoop, wakeUp, SpuriousWakeup

LEMMA NextReadings == ReadingsOK /\ [Next]_vars => ReadingsOK'
<1> SUFFICES ASSUME ReadingsOK, [Next]_vars PROVE ReadingsOK'
  OBVIOUS
<1> USE SignalAssumption DEF ReadingsOK
<1>1. CASE GearChanges      BY <1>1 DEF GearChanges, Changes
<1>2. CASE SignalChanges    BY <1>2 DEF SignalChanges, Changes
<1>3. CASE SurfaceFlingerStarts BY <1>3 DEF SurfaceFlingerStarts
<1>4. CASE DisplayIsStolen  BY <1>4 DEF DisplayIsStolen
<1>5. CASE onPropertyEvent  BY <1>5 DEF onPropertyEvent
<1>6. CASE Listening
  BY <1>6 DEF Listening, waitForEvents, pushCommand, signalCommand
<1>7. CASE drainCommands    BY <1>7 DEF drainCommands
<1>8. CASE readGear         BY <1>8 DEF readGear
<1>9. CASE readTurnSignal   BY <1>9 DEF readTurnSignal
<1>10. CASE stateIsCurrent \/ turnOff \/ switchRenderer
  BY <1>10 DEF stateIsCurrent, turnOff, switchRenderer
<1>11. CASE activate \/ showRenderer \/ getTargetBuffer \/ drawFrame
  BY <1>11 DEF activate, showRenderer, getTargetBuffer, drawFrame
<1>12. CASE sleep \/ LeaveWait
  BY <1>12 DEF sleep, LeaveWait
<1>13. CASE UNCHANGED vars  BY <1>13
<1>14. QED
  BY <1>1, <1>2, <1>3, <1>4, <1>5, <1>6, <1>7, <1>8, <1>9, <1>10, <1>11, <1>12, <1>13
  DEF Next, Environment, updateLoop, wakeUp, SpuriousWakeup

-----------------------------------------------------------------------------
(* Renderer, state and display.  While a renderer is being switched to,    *)
(* mCurrentState is still that of the old one: the induction needs what    *)
(* the new renderer shows then, and that outside a switch a renderer is    *)
(* always the one made for mCurrentState.                                  *)

LEMMA DesiredIsState == desiredState \in State
BY DEF desiredState, Desired, State

LEMMA NewRendererShows ==
  ASSUME NEW s \in State
  PROVE  /\ NewRenderer(s) \in Renderer \union {NULL}
         /\ NewRenderer(s) # NULL => NewRenderer(s) \in Renderer /\ NewRenderer(s).view = s
<1>1. Kind(s) \in {"copy", "direct", "top", "none"}
  BY DEF Kind
<1>2. QED BY <1>1 DEF NewRenderer, Renderer

RendererFollows ==
  /\ upc \in {"activate", "show"} =>
       mCurrentRenderer # NULL /\ mCurrentRenderer.view = desiredState
  /\ ~Switching /\ mCurrentRenderer # NULL => mCurrentRenderer.view = mCurrentState
  /\ upc \in {"target", "draw"} => mCurrentRenderer # NULL /\ mCurrentState = desiredState

PipelineInv == PipelineOK /\ RendererFollows /\ RendererMatchesDisplay /\ OnlyViewedStreams

LEMMA InitPipeline == Init => PipelineInv
BY DEF Init, PipelineInv, PipelineOK, RendererFollows, RendererMatchesDisplay, OnlyViewedStreams,
       State, DisplayState, Switching

\* What a deactivated renderer leaves streaming is copies.
LEMMA AfterDeactivateCopies ==
  ASSUME PipelineInv
  PROVE  AfterDeactivate \subseteq Renderer /\ \A r \in AfterDeactivate : r.kind = "copy"
<1>1. NULL \notin Renderer
  BY NullAssumption DEF Renderer
<1>2. QED BY <1>1 DEF PipelineInv, PipelineOK, OnlyViewedStreams, AfterDeactivate

LEMMA NextPipeline == PipelineInv /\ [Next]_vars => PipelineInv'
<1> SUFFICES ASSUME PipelineInv, [Next]_vars PROVE PipelineInv'
  OBVIOUS
<1> USE DEF PipelineInv, PipelineOK, RendererFollows, RendererMatchesDisplay, OnlyViewedStreams,
            Switching, DisplayState
<1>1. CASE GearChanges \/ SignalChanges
  BY <1>1 DEF GearChanges, SignalChanges, Changes, desiredState
<1>2. CASE SurfaceFlingerStarts  BY <1>2 DEF SurfaceFlingerStarts, desiredState
<1>3. CASE DisplayIsStolen  BY <1>3 DEF DisplayIsStolen, desiredState
<1>4. CASE onPropertyEvent  BY <1>4 DEF onPropertyEvent, desiredState
<1>5. CASE Listening
  BY <1>5 DEF Listening, waitForEvents, pushCommand, signalCommand, desiredState
<1>6. CASE drainCommands    BY <1>6 DEF drainCommands
<1>7. CASE readGear         BY <1>7 DEF readGear
<1>8. CASE readTurnSignal   BY <1>8 DEF readTurnSignal
<1>9. CASE stateIsCurrent   BY <1>9 DEF stateIsCurrent, Rest, desiredState
<1>10. CASE turnOff
  <2>1. /\ upc' = "sleep" /\ mCurrentState' = desiredState /\ mCurrentRenderer' = NULL
        /\ streaming' = AfterDeactivate
        /\ mRequestedState' \in {"DEAD", "NOT_VISIBLE"}
    BY <1>10 DEF turnOff
  <2>2. QED BY <2>1, DesiredIsState, AfterDeactivateCopies
<1>11. CASE switchRenderer
  <2>1. /\ upc' = "activate" /\ mCurrentRenderer' = NewRenderer(desiredState)
        /\ NewRenderer(desiredState) # NULL /\ streaming' = AfterDeactivate
        /\ UNCHANGED <<mCurrentState, mRequestedState>> /\ desiredState' = desiredState
    BY <1>11 DEF switchRenderer, desiredState
  <2>2. /\ mCurrentRenderer' \in Renderer /\ mCurrentRenderer'.view = desiredState
    BY <2>1, DesiredIsState, NewRendererShows
  <2>3. QED BY <2>1, <2>2, AfterDeactivateCopies
<1>12. CASE activate
  <2>1. /\ upc = "activate" /\ upc' \in {"show", "exited"}
        /\ UNCHANGED <<mCurrentState, mCurrentRenderer, mRequestedState>>
        /\ desiredState' = desiredState
    BY <1>12 DEF activate, ActivateOpens, ActivateFails, desiredState
  <2>2. streaming' \subseteq streaming \union {mCurrentRenderer}
    BY <1>12 DEF activate, ActivateOpens, ActivateFails
  <2>3. QED BY <2>1, <2>2
<1>13. CASE showRenderer
  <2>1. desiredState' = desiredState
    BY <1>13 DEF showRenderer, desiredState
  <2>2. QED BY <1>13, <2>1, DesiredIsState DEF showRenderer
<1>14. CASE getTargetBuffer BY <1>14 DEF getTargetBuffer, desiredState
<1>15. CASE drawFrame       BY <1>15 DEF drawFrame, desiredState
<1>16. CASE sleep           BY <1>16 DEF sleep
<1>17. CASE LeaveWait       BY <1>17 DEF LeaveWait
<1>18. CASE UNCHANGED vars  BY <1>18 DEF desiredState
<1>19. QED
  BY <1>1, <1>2, <1>3, <1>4, <1>5, <1>6, <1>7, <1>8, <1>9, <1>10, <1>11, <1>12, <1>13, <1>14,
     <1>15, <1>16, <1>17, <1>18
  DEF Next, Environment, updateLoop, wakeUp, SpuriousWakeup

LEMMA PipelineCorrect == Spec => []PipelineInv
BY InitPipeline, NextPipeline, PTL DEF Spec

\* The threads, the commands, the readings, the renderer and the display keep
\* their types, for every Gear and Signal.
THEOREM TypeCorrect == Spec => []TypeOK
<1>1. Init => FlagsOK
  BY EnvAssumption, Zenon DEF Init, FlagsOK
<1>2. Init => ThreadsOK /\ ReadingsOK
  BY EnvAssumption DEF Init, ThreadsOK, ReadingsOK, UpdatePC
<1>3. PipelineInv => PipelineOK
  BY DEF PipelineInv
<1>4. QED
  BY <1>1, <1>2, <1>3, NextFlags, NextThreads, NextReadings, PipelineCorrect, TypeParts, PTL DEF Spec

\* Whatever the vehicle does and whichever view fails to start, the display is
\* visible exactly when configureEvsPipeline() left a renderer to draw on it.
THEOREM DisplayShowsRenderer == Spec => []RendererMatchesDisplay
BY PipelineCorrect, PTL DEF PipelineInv

\* A frame is drawn by the renderer of the state read in this round of the loop,
\* never by that of the state before the switch.
THEOREM DesiredViewIsDrawn == Spec => []DrawsDesiredView
<1>1. PipelineInv => DrawsDesiredView
  BY DEF PipelineInv, RendererFollows, Switching, DrawsDesiredView
<1>2. QED BY <1>1, PipelineCorrect, PTL

\* The cameras of a view drawn with GL stop with it.
THEOREM ViewsAreExclusive == Spec => []OnlyViewedStreams
BY PipelineCorrect, PTL DEF PipelineInv

-----------------------------------------------------------------------------
(* What ViewFollowsVehicle rests on.  That the loop comes to the state that the *)
(* vehicle calls for is checked on an instance; proved is that it sleeps in no  *)
(* other than it read, and that the state it came to stays.                     *)

SleepInv == upc \in {"sleep", "asleep"} => mCurrentState = desiredState /\ mCurrentRenderer = NULL

LEMMA NextSleep == SleepInv /\ [Next]_vars => SleepInv'
<1> SUFFICES ASSUME SleepInv, [Next]_vars PROVE SleepInv'
  OBVIOUS
<1> USE DEF SleepInv, vehicle, listener, readings, pipeline, others, vars
<1>1. CASE Environment
  BY <1>1 DEF Environment, GearChanges, SignalChanges, Changes, SurfaceFlingerStarts,
              DisplayIsStolen, desiredState
<1>2. CASE onPropertyEvent \/ Listening
  BY <1>2 DEF onPropertyEvent, Listening, waitForEvents, pushCommand, signalCommand, desiredState
<1>3. CASE drainCommands \/ readGear \/ readTurnSignal
  BY <1>3 DEF drainCommands, readGear, readTurnSignal
<1>4. CASE stateIsCurrent
  BY <1>4 DEF stateIsCurrent, Rest, desiredState
<1>5. CASE turnOff
  BY <1>5 DEF turnOff, desiredState
<1>6. CASE switchRenderer \/ activate \/ showRenderer \/ getTargetBuffer \/ drawFrame
  BY <1>6 DEF switchRenderer, activate, ActivateOpens, ActivateFails, showRenderer,
              getTargetBuffer, drawFrame
<1>7. CASE sleep \/ LeaveWait \/ UNCHANGED vars
  BY <1>7 DEF sleep, LeaveWait, desiredState
<1>8. QED
  BY <1>1, <1>2, <1>3, <1>4, <1>5, <1>6, <1>7 DEF Next, updateLoop, wakeUp, SpuriousWakeup

\* The loop sleeps only when what it read last calls for no view and it shows none:
\* a vehicle that calls for a view is never slept through but by an old reading.
THEOREM NoViewIsSleptOver ==
  Spec => [](upc = "asleep" =>
               /\ mCurrentState = Desired(mGearValue, mTurnSignalValue)
               /\ mCurrentRenderer = NULL
               /\ mRequestedState \in {"NOT_VISIBLE", "DEAD"})
<1>1. Init => SleepInv
  BY DEF Init, SleepInv
<1>2. SleepInv /\ PipelineInv => (upc = "asleep" =>
                                    /\ mCurrentState = Desired(mGearValue, mTurnSignalValue)
                                    /\ mCurrentRenderer = NULL
                                    /\ mRequestedState \in {"NOT_VISIBLE", "DEAD"})
  BY DEF SleepInv, desiredState, PipelineInv, PipelineOK, RendererMatchesDisplay, Switching, DisplayState
<1>3. QED BY <1>1, <1>2, NextSleep, PipelineCorrect, PTL DEF Spec

\* the loop has read the vehicle as it is and is in the state this calls for
Asked == IF signalKnown THEN signal ELSE "NONE"
Settled == mGearValue = gear /\ mTurnSignalValue = Asked /\ mCurrentState = Desired(gear, Asked)

\* A state once reached stays while the vehicle stays and its signal is read as
\* before: commands that come late, a view that fails or a stolen display do not
\* take the loop back.
THEOREM SettledStays ==
  Spec => [][Settled /\ UNCHANGED <<vehicle, signalKnown>> => Settled']_vars
<1>1. ASSUME Settled, UNCHANGED <<vehicle, signalKnown>>, [Next]_vars PROVE Settled'
  <2> USE <1>1 DEF Settled, Asked, vehicle, others
  <2>1. desiredState = mCurrentState
    BY DEF desiredState
  <2>2. CASE Environment \/ onPropertyEvent
    BY <2>2 DEF Environment, GearChanges, SignalChanges, Changes, SurfaceFlingerStarts,
                DisplayIsStolen, onPropertyEvent, readings, pipeline
  <2>3. CASE Listening \/ drainCommands
    BY <2>3 DEF Listening, waitForEvents, pushCommand, signalCommand, drainCommands, readings, pipeline
  <2>4. CASE readGear
    BY <2>4 DEF readGear, pipeline
  <2>5. CASE readTurnSignal
    BY <2>5 DEF readTurnSignal, pipeline
  <2>6. CASE stateIsCurrent \/ turnOff \/ switchRenderer
    BY <2>1, <2>6 DEF stateIsCurrent, turnOff, switchRenderer, readings, pipeline
  <2>7. CASE activate \/ showRenderer \/ getTargetBuffer \/ drawFrame
    BY <2>1, <2>7 DEF activate, showRenderer, getTargetBuffer, drawFrame, readings, pipeline
  <2>8. CASE sleep \/ LeaveWait \/ UNCHANGED vars
    BY <2>8 DEF sleep, LeaveWait, vars, readings, pipeline
  <2>9. QED
    BY <2>2, <2>3, <2>4, <2>5, <2>6, <2>7, <2>8 DEF Next, updateLoop, wakeUp, SpuriousWakeup
<1>2. QED BY <1>1, PTL DEF Spec
=============================================================================
