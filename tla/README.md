# A verification project for the i.MX Android HALs

This directory holds TLA+ models of the hardware abstraction layers in `../src`,
TLC configurations that check them, and TLAPS proofs about them. The models are
written from the code; where a comment, a test or an assertion of the code says
something that the code does not do, section 6 says so, in two cases with a run.

The repository is a collection of HALs for NXP i.MX boards: separate processes
that share little but the kernel. The path a rear-view camera takes through four
of them is the core of this project, because it is where most of the
repository's own concurrent logic is and because a driver looks at the result:

    video device -> EVS HAL camera -> EVS application -> EVS HAL display
                 -> hardware layer of the display composer -> screen

Beside it stand the two other HALs of the repository with threads of their own that
hand work to each other: the camera HAL's session, which feeds the ordinary camera
applications, and the vehicle HAL, whose events make the EVS application switch views.

`PROJECT.json` lists every component, run, mutant, mapped definition, finding,
hazard and main theorem. Each property has a mutant, a small bug written into
the module beside the definition it replaces ("Mutant: ..."), which the property
catches: it shows that the property depends on that code.

- [1 Inventory](#1-inventory)
- [2 Plan](#2-plan)
- [3 Modules and code](#3-modules-and-code)
- [4 Runs](#4-runs)
- [5 Fairness](#5-fairness)
- [6 What the code does not do as it says](#6-what-the-code-does-not-do-as-it-says)
- [7 Proofs](#7-proofs)
- [8 Limits](#8-limits)

## 1 Inventory

### The EVS path

**EVS HAL camera** (`evs/evs_hal/EvsCamera.cpp`, `V4l2Capture.cpp`). One object per
opened camera. State: the device descriptor, the run mode, the client's stream
callbacks, the two maps from a V4L2 index to a gralloc slot and from a slot to
memory, and the counters of frames allowed, in use and to be dropped. Operations:
open, choose the number of buffers, start, stop, return a frame, shut down, and the
capture loop. The binder thread and the capture thread share nearly all of it
under a lock that is dropped between steps. Hard: buffers go round between four
parties (driver, capture thread, client, binder thread); the stop joins the capture
thread; a client may die, or lose the camera to another, with frames in its hands.
Correct means: no buffer has two owners, none drops out, each frame is found in the
memory it was filled in, the end of a stream is final, every call returns.

**EVS HAL enumerator** (`EvsEnumerator.cpp`, `service.cpp`). Static lists of cameras
and the one active display, all used by the single binder thread and also, until a
camera is found, by `PollVideoFileThread`. A second open takes the camera or the
display away from the first client. Correct means: one owner, orphans do no harm.

**EVS HAL display** (`EvsDisplay.cpp`). A state the client asks for (not visible,
visible on the next frame, visible, dead) and three buffers of a hardware layer that
belongs to the composer process. It takes a slot, lends it, presents it.

**EVS application** (`evs/evs_app`). `StreamHandler` receives frames on a binder
thread and keeps the newest for the render thread in two slots. `EvsStateControl`
runs the update loop: it reads gear and turn signal from the vehicle HAL, chooses a
view, replaces the renderer, sets the display's state and draws.
`EvsVehicleListener` wakes the loop. Hard: a delivery may fall between any two steps
of the renderer; events may be missed; each step of a switch may fail. Correct
means: frames are neither lost nor overwritten while drawn from, the camera always
gets frames back, the view follows the vehicle, the display is on exactly when
there is something to show.

**Hardware layer and composition** (`display/display`: `DisplayHal.cpp`,
`Display.cpp`, `KmsDisplay.cpp`; `display/hwcomposer_v20`). The composer gives the EVS
HAL a layer with a queue of slots (`BufferSlot`) and draws it over SurfaceFlinger's
layers. Three threads: the one that serves the EVS HAL, the one that serves
SurfaceFlinger, and the vsync thread. Hard: two threads compose; a layer is removed
while another thread is about to draw it; the HAL's only thread waits for a slot that
only a composition frees. Correct means: a slot is in one place, a removed layer is
forgotten, the wait ends, a presented frame is shown.

They interact by synchronous binder calls (application to HAL, HAL to composer),
oneway callbacks served in order (HAL to application), condition variables inside a
process, and death notifications.

### The camera HAL

**Session** (`camera/CameraDeviceSessionHWLImpl.cpp`). State: the pipelines, the requests
submitted by frame number, each a vector with an element per pipeline, two counters of
requests taken in and handled, the list of images, two counters of images. Operations:
configure and build pipelines, submit requests, destroy the pipelines, delete the
session. `WorkThread` takes a request, starts or restarts the streams it needs, captures
a buffer of each and feeds an image to `ImgProcThread`, which processes it, gives the
buffers back, answers the framework, counts and, with the last element, deletes the
vector. Hard: `DestroyPipelines` waits for counters that the threads advance on some of
their paths only; a restart must wait for the images of the configuration before;
captures fail, time out and recover, and each of these paths must still count. Correct
means: a pipeline is there while a thread looks it up, no buffer is lost or in two places,
elements are answered once, in order, and all; vectors are deleted once; calls return.

**Streams** (`VideoStream.cpp`, `MMAPStream.cpp`, `DMAStream.cpp`, `UvcStream.cpp`). The
device, its format, its buffers, and the count of timeouts after which it is restarted.

### The vehicle HAL

**Manager** (`vehicle/common`: `VehicleHalManager.cpp`, `SubscriptionManager.cpp`,
`ConcurrentQueue.h`). State: clients with their options by property, clients of each
property, the options merged for the HAL, a queue of events, the batching thread.
Operations: subscribe, unsubscribe, a client's death, an event, the destructor. Hard: the
HAL is told of a subscription after the lock is released; a death is worked off property
by property; the batching thread may not have started when it is stopped. Correct means:
whoever subscribed is served, the dead are forgotten, events come in order, the destructor
returns.

**Store, timer and emulation** (`VehiclePropertyStore.cpp`, `RecurrentTimer.h`,
`vehicle/impl`). The value of each property with its time, the timer that samples
continuous properties, and the emulated vehicle, which stores a value and pushes an event
in two steps. Correct means: the newest event agrees with the store, timers fire.

### The other subsystems

| Part | State and operations | What is hard |
|---|---|---|
| Camera provider, metadata, encoders | tables, JPEG encoding | sequential |
| Display memory (`MemoryManager.cpp`, `DisplayManager.cpp`) | reference counts of shared buffers, hotplug | counts across processes and threads |
| `hwcomposer3` | displays, layers and pending configurations of the AIDL composer | vsync thread, hotplug |
| gralloc (v1 to v4, AIDL) | allocation, mapping | sequential |
| External camera (`external_camera`, `libextcam`) | request and output threads | flush and buffer requests |
| Audio (`alsa`), sensors, USB, power, thermal, CEC, health, vibrator, key services, neural networks, tools | mostly one lock or one loop each | listed in `PROJECT.json` with the reason each is left out |

### Hazards

`PROJECT.json` lists what tests of this code would hardly reach, at the line where it
bites, with the properties that cover it. The largest groups: interleavings of two
threads over buffers, slots and images (`V4l2Capture.cpp:600`, `StreamHandler.cpp:186`,
`Display.cpp:1243`, `VideoStream.cpp:149`), lookups made before a check
(`V4l2Capture.cpp:636`), waits on a condition without a predicate
(`EvsStateControl.cpp:194`, `Display.cpp:1221`, `V4l2Capture.cpp:434`,
`RecurrentTimer.h:122`) or on a counter (`CameraDeviceSessionHWLImpl.cpp:1876`), calls made
after a lock was released (`VehicleHalManager.cpp:159`), and state read without its lock
(`Display.cpp:916`).

## 2 Plan

In order of importance to the system. Done:

1. `EvsCamera` with its abstract specification `FrameCustody`.
2. `EvsStream`, which composes the application's handler with `FrameCustody`.
3. `EvsState`, the application's control.
4. `DisplaySlots`, the hardware layer from all three threads.
5. `EvsOwner`: who owns the cameras and the display.
6. `CameraSession`: the life of a request in the camera HAL, with restarts, drain,
   `DestroyPipelines` and the destructor, and the buffers of the streams under it.
7. `VehicleSubscriptions`: the subscription manager under concurrent calls and deaths.
8. `VehicleEvents`: store, timer, queue, batching thread and the destructor.

9. `LastOwner`, which `EvsOwner` implements for the display and for each camera.

Left, should the project grow: `MemoryRefs`, the counts of shared buffers; `hwcomposer3`;
the external camera's output thread; the USB role switch and the power interaction
thread. Theorems left: that the waits of `CameraSession` end in a bounded number of steps
of its other threads, as is proved of `EvsCamera`'s calls and of the queue of
`VehicleEvents`.

## 3 Modules and code

All modules use variables and actions named after the members and methods they
stand for. A thread is a program counter whose name ends in `pc`; a step is what
the thread does between two points where another thread can see its state, so code
under one lock is one action. `UNCHANGED` lists what the code leaves alone. Oneway
callbacks are queues; synchronous calls wait in a program counter.

### FrameCustody

The promise a camera makes about frames. Each has one owner (`none`, `driver`, `hal`,
`client`), the stream has a phase (`idle`, `open`, `ended`), frames are lent only while
it is open, and the end is final. It is used from both sides: `EvsCamera` refines it
(`KeepsCustody`, by the owner of a V4L2 index and the phase read off the capture
thread), and `EvsStream` is built on its actions (`KeepsPromise`: the application,
composed with such a camera, returns only what it was lent, each frame once).

### EvsCamera

`bpc` is the binder thread (`service.cpp` configures one), `cpc` the capture thread.

| Model | Code |
|---|---|
| `fd`, `mRunMode`, `mStream`, `mStream_1_1`, `mEvsAppRecipient` | the members of those names; `fd` is `mDeviceFd`: open, closed (-1), or never set after a failed `onOpen` |
| `mBufferMap`, `mCamBuffers`, `live` | the two maps and the memory that is allocated |
| `queued`, `requested`, `streaming` | the driver: QBUF and DQBUF, REQBUFS, STREAMON and STREAMOFF |
| `setMaxFramesInFlight`, `AwaitDecrease`, `LeaveWait` | `V4l2Capture::setMaxFramesInFlight` with its wait without a predicate |
| `IncreaseMap`, `IncreasePublish`, `IncreaseDone` | `onIncreaseMemoryBuffer`; a buffer is queued before its memory is published |
| `startVideoStream`, `StreamOn`, `StreamOnFails`, `SpawnCapture` | start, `onStart`, and the error path through `shutdown` |
| `stopVideoStream`, `onStop`, `JoinCapture`, `EndStream`, `shutdown`, `onClose` | stop, join, the end of stream event, and the teardown |
| `ReadRunMode`, `DequeueFrame`, `LookUpFrame`, `ForwardFrame`, `SkipFrame`, `DeliverFrame` | `collectFrames`, `onFrameCollect`, `forwardFrame` |
| `doneWithFrame`, `ReturnFrame`, `onFrameReturn` | a frame comes back: queued again, or dropped by a pending decrease |

`Env` says what surroundings are allowed: `resize` (buffers chosen more than once),
`late` (frames returned after the camera was closed), `steal` (the enumerator shuts it
down at any time), `death` and `openfail`. That `mFramesInUse` is incremented and
decremented by two threads without a common lock is not among them: a load and its store are
two steps of each thread in every environment (`cLoad`, `bLoad`, `Store`), and the history
`raced` says that an update has been lost. `aborted` is an uncaught exception or a null dereference; nothing is followed after it.
Counters wrap at `UINT_MOD`. A dead client returns nothing any more; frames it held
stay with it.

Abstracted: pixels, formats, metadata, camera parameters and mastership, which have no
bearing on buffers; `importExternalBuffers`; logical cameras made of several devices.

### EvsStream

`inbox` is the queue of oneway calls; `rpc` is the render thread. `mBuffers`,
`mHeldBuffer` and `mReadyBuffer` are the handler's. `image` is the frame the renderer
draws from. `lent` is a history variable: the frames the application has, in the order
they were lent. `deliverFrame` covers 1.0 and 1.1 deliveries, `streamEnded` the null
frame of a 1.0 stream and the event of a 1.1 stream, of which only the former notifies
the waiter. `textureReturns` is `VideoTex::refresh`, `pixelCopyReturns` is
`RenderPixelCopy::drawFrame`, `asyncStopStream` and `blockingStopStream` are the two
ways to stop.

### EvsState

`lpc` is the main thread in `EvsVehicleListener::run`, `upc` the update loop. Events,
the wake signal and the command queue are booleans, a count and a set: commands are
emptied at once and all alike. A renderer is the view it is for and its kind
(`copy`, `direct`, `top`); what it paints is left out, that its cameras stream is not.
`Faults` lists what may fail: reading the gear (the application exits), reading the turn
signal (it is never asked for again), opening a camera, drawing, and losing the
display to another client.

### DisplaySlots

`cpc` serves the EVS HAL, `spc` SurfaceFlinger, `vpc` is the vsync thread. `mFreeSlot`,
`mPresentSlot`, `mLastPresent` and `mPresentTotal` are `BufferSlot`'s; `mHwLayer` is the
display's entry for the layer and `mLayerVector` what the next composition draws.
`taken` are the slots lent to the application, `lost` those a refused presentation
left nowhere. Layers are numbered by `opens`, so that a deleted layer differs from a
new one at the same index. `crashed` marks the use of a deleted layer or of an empty
list, after which nothing is followed. `Env` allows: `unplug` (no active configuration),
`skip` (SurfaceFlinger has a layer it draws itself, for which `verifyLayers` clears
`deviceCompose`, or sets a colour transform) and `overlay` (its only layer is one that a plane
shows), both of which keep the hardware layer out of a composition (`HwLayersLeftOut`), and
`spurious` (a wakeup without a signal). `slots_hal` has all four.
The G2D composer is taken to be valid and enabled; with `hwcomposer3` this code does not
serve the EVS HAL.

### EvsOwner

`bpc` is the call of the enumerator's only binder thread that searches the list of
cameras, `ppc` is `PollVideoFileThread`, `known` is `sCameraList`. Each camera and each
display opened is an object with a number of its own. It lives while a client holds a
proxy (`camHolder`, `displayHolder`) or, a camera, while the recipient registered for its
client's death refers to it (`streamer`); `activeInstance` and `sActiveDisplay` are weak
(`Promote`, `Owner`). A client that dies keeps its proxies until binder drops them
(`dropCamera`, `dropDisplay`) and tells of its death (`serviceDied`), in any order with
other calls. `bufOwner` says which camera has the buffers of a video device: they are
asked for at open, given back at stop, and refused to a second descriptor, which
`onOpenSingleCamera` only logs and `onStart` turns into a failed start. `mLayers` is the
composer's table, where a layer that was given back is given out again under the same
index: what keeps a displaced display, whose destructor shuts it down once more, from
giving back its successor's layer is that `forceShutdown` forgets the index.

Abstracted: ids of cameras are taken to match one record (`findCameraById` looks for a part
of the name), fake cameras, formats, `onOpen` that fails (it is in `EvsCamera`), the steps
within a stop (likewise), slots (in `DisplaySlots`), and the layers SurfaceFlinger has.
A search that meets the list half linked ends the behaviour (`crashed`).

### LastOwner

What the enumerator promises of a resource: whoever opens it last has it, alone
(`Acquire`), it may be given back, taken or lost (`Lose`), and who lost it never has it
again. `EvsOwner` implements it once for the display, where having it means having a layer
(`DisplayIsLastOwner`), and once for each record of the list, where it means being alive
and open (`CameraIsLastOwner`). The instances stand with their proofs in
`EvsOwnerProofs`; no run checks them.

### CameraSession

`wpc` is `WorkThread`, `ipc` is `ImgProcThread`, `dpc` a call of `DestroyPipelines` and `life`
the destructor. The framework makes one call at a time (`Free`).

| Model | Code |
|---|---|
| `pipelines`, `pipelines_built_`, `is_logical_request_` | `map_pipeline_info` and the members of those names |
| `vector`, `map_frame_request`, `mInQueRequestIdx`, `mDeQueRequestIdx`, `reclaimed` | the vectors of `FrameRequest`, the map of those not taken, the counters, the vectors deleted |
| `TakeRequest`, `HandleElement`, `RequestDone` | `HandleRequest`: the first frame of the map, its elements in turn, the count at the end |
| `ConfigAndStart`, `drainImages`, `Restart`, `RestartFails`, `IntentHandled` | `HandleIntent` and `VideoStream::ConfigAndStart`: a stream whose configuration changes is stopped, and started once the images fed before are processed; after a recovery it is also reopened, on the first device of the camera whichever was its own (`Reopens`, `Device`), which the driver refuses while another stream has that device's buffers (`DeviceBusy`) |
| `FrameAcquired`, `FrameTimesOut`, `AcquireFails` | `CapAndFeed` and `onFrameAcquire`: frames omitted after a start, a timeout, a recovery by restart and its limit, a logical capture that gives up half way |
| `feed`, `TakeImage`, `CountError`, `NotifyError`, `onFrameReturn`, `Requeue`, `SendResult`, `CountResult`, `releaseImgFeed` | `ImgProcThread` and `HandleImage`: with a buffer it is returned (the driver may refuse it), answered, counted and released in that order; without one it is counted before the error is told |
| `RequestsHandled`, `ImagesDrained`, `PipelinesFreed` | the three parts of `DestroyPipelines` |
| `driver`, `mbStart`, `mapped`, `mDev`, `config`, `fresh`, `mOmitFrames`, `mRecoverCount` | a stream: the buffers queued to the driver, and `VideoStream`'s members |

`outcome` is a history of what became of each element, `lost` one of the buffers that the code
forgets: those of an element that was dropped, and those whose `VIDIOC_QBUF` failed. `mV4l2Lock` is taken
after the images are drained and kept for the restart (`V4l2LockFree`): while the capture
thread waits for the images, the image thread can give their buffers back. `MAX_STALLS` bounds
how often a driver gives no frame in time, `MAX_FAULTS` how often one of its calls fails.

### VehicleSubscriptions

Each binder thread `t` has a program counter, its caller, the properties it has to forget
(`todo`) and the rates it has to tell the HAL (`updated`). `addOrUpdateSubscription` is one
step under the manager's lock; `halSubscribe` follows for each option that changed, without
it. `unsubscribeLocked` is `SubscriptionManager::unsubscribe` for one property and calls the HAL
under the lock. `onCallbackDead` copies the dead client's properties and forgets them one by
one. `mCookieToEventsMap` is the HAL's timer, with its rate. Three histories: `asked`, what each
client subscribed and did not unsubscribe since, by flag and with the highest rate; `overlap`,
the clients that died while a call of theirs was running; and `teller`, for each property the
thread that took the newest rate out of the lock to tell it to the HAL, `NONE` once another thread
has told an older one after it.

### VehicleEvents

`wpc` are threads that report values: `writeValue` puts one into the store unless it is
outdated, `doHalEvent` pushes its event, as `EmulatedVehicleHal::onPropertyValue` does.
`cpc` is `BatchingConsumer`'s thread with `mState`; `mpc` the manager's destructor. `tpc` is
`RecurrentTimer::loop`: `collect` under one lock, then for each event due a read of the store
(`readValueOrNull`) and, under another lock, the push of what was read
(`onContinuousPropertyTimer`), and `waits` under the lock taken anew, which loses a notification
made in between.
`hpc` is `RecurrentTimer::stop`. Times of timer events are abstracted to off, later and due; an
event is known by its number in the queue, and by its property and time until it is pushed.

## 4 Runs

| Run | Instance | Result | What it shows |
|---|---|---|---|
| `camera_any` | 2 buffers, at most 2 in flight, 3 memories, 2-bit counters, all of `Env` | passes, 1.4 million states | `ExclusiveCustody`, `KeepsCustody` in any environment; `NothingLost`, `FramesInUseIsExact` there until an update of the counter is lost |
| `camera_app` | 3 buffers, at most 3 in flight, counters modulo 5, a camera that may be stolen and a client that may die; fair | passes, 2.2 million states | `QueuedIsLookedUp`, `NoAbort`, `CallsReturn`; `StreamResumes` until an update of the counter is lost or the client dies |
| `camera_late` | as `camera_any`, late returns and a stolen camera | `NoAbort` violated | a frame returned to a lost camera ends the process |
| `stream_app` | 3 frames, 1.0 stream; fair | passes, 29 thousand states | `LentInOrder`, `DrawsWhatIsHeld`, `KeepsPromise`, `CameraNotStarved`, `ShutdownReturns` |
| `stream_stop` | 3 frames, 1.1 stream; fair | `ShutdownReturns` violated | the blocking stop of a 1.1 stream may wait for ever |
| `state_app` | a camera for reverse, two for left, none for parking; all faults; the gear notified, the signal not; fair | passes, 1.5 million states | `RendererMatchesDisplay`, `DrawsDesiredView`, `OnlyViewedStreams`, `ViewFollowsVehicle` |
| `slots_hal` | 3 slots (the code's number), 1 taken at a time, 2 layers after each other, all of `Env`; fair | passes, 0.1 million states | `SlotsInOnePlace`, `DisplayForgetsLayer`, `GetSlotReturns`, `PresentedIsShown` |
| `owner_any` | 2 clients, 2 devices, a camera of each and a logical one of both, 2 cameras and 2 displays made, 2 layers; clients symmetric | passes, 1.4 million states | `OneDisplayOwner`, `OneCameraOwner`, `StreamsOwnDevices` |
| `session_any` | 2 cameras, 2 buffers each, 2 requests of 1 or 2 elements, 2 pipelines, 2 configurations, 2 stalls, 1 failing call; buffers symmetric | passes, 1.7 million states | `PipelineOutlivesUse`, `BuffersAreKept`, `RequestsAreFreedOnce`, `DestroyWaitsForAnswers`, `AnsweredInOrder` |
| `session_live` | the same with 1 pipeline, no symmetry; fair | passes, 0.28 million states | `EveryRequestIsAnswered`, `CallsReturn` |
| `vehicle_subs` | 2 clients, 2 properties, 2 rates, 2 threads, 3 calls; fair | passes, 0.49 million states | `EventsReachAskers`, `HalServesAskers`, `ClientsAreForgotten`, `DeathIsHandled` |
| `vehicle_events` | 1 continuous property, 2 writers, 2 times, 2 timer intervals, 2 registrations; fair | passes, 0.76 million states | `EventsInOrder`, `NewestIsStored`, `EventsAreDelivered`, `DestructorReturns`, `SeenEventsFire` |

The types of all variables (`TypeOK` of each module) are proved, not model-checked; so are
`EndedIsQuiet`, `StoppedBeforeClose` and `DeadIsFinal`.

Why the bounds are enough. Two buffers already let one be with the client while
another is being resized away or returned; three memories are one more than can be
mapped, so that memory is reused and confused if it can be; the 2-bit counter wraps
within a stream. `camera_app` has a third buffer so that a stalled stream and a moving
one differ, and counters modulo 5 so that none wraps before the limit of three is passed. Three frames exceed the two slots of the handler. In `state_app` the cameras
make each kind of renderer occur (a copy before SurfaceFlinger is there, a direct view,
a top view with and without cameras) and a state without any; one event under way is
enough to be early, late or lost, as its arrival sets a flag only. The slots are as many
as in `EvsDisplay.h`; a second layer meets what the first left behind. In `owner_any` two
objects are a thief and its victim, each of which may be closed, dropped or outlived
in any order; the logical camera shares a device with each of the others.

In `session_any` two requests are one being processed and one being captured; the second
element of a request may be captured, fail or be dropped while the first is in process; a
second pipeline can be destroyed and configured while images of the first are under way,
if it can at all; two stalls exhaust the recovery of one stream, or let the second stream recover
on the first device; the failing call falls on any of stop, open, configure, start and the return
of a buffer. After a recovery the refusals of a busy device come on top of it. One frame is omitted after a start at the large
size. In `vehicle_subs` two threads may serve the same client, two clients, or a client and
its death; a third call meets what two overlapping ones left. In `vehicle_events` two writers
with two times can store in one order and push in the other. The theorems of section 7 drop
these bounds for the safety properties named there.

Deadlock is checked where the model cannot stop of itself. It is not where it may:
after an abort, a crash or the exit of the application, when the client dies, when
the bounded number of layers, cameras, displays, requests, calls or events is used up, and
when a stream, a session or a manager has been shut down. The clients of `owner_any` and the
buffers of `session_any` are interchangeable, and neither run has a liveness property, so
that symmetry is sound.

What passing properties say, in the terms of the code:

- `ExclusiveCustody`, `NothingLost`: a buffer is with the driver, a thread of the camera
  or the client, never with two; and until the stream stops, an update of `mFramesInUse` is lost
  or the client dies, it is with one of them.
- `FramesInUseIsExact`, `StreamResumes`: whatever the client and the enumerator do, the count is
  that of the frames the client has, and a stream at its limit resumes with the next frame given
  back: until an update of the count is lost (section 6). What the properties exclude is any
  other way to lose count, such as the failed delivery or the release of the last receiver.
- `QueuedIsLookedUp`: the two maps lead a dequeued index to the memory it was filled in.
- `LentInOrder`: frames lent are exactly the held one, the ready one and those on
  their way, in this order. It implies that none is leaked or shown out of order.
- `CameraNotStarved`: if the application has every frame, it gives one back although
  nothing is drawn.
- `ViewFollowsVehicle`: once the vehicle stays as it is, the application's state comes to
  be what it calls for and stays so, in spite of lost wakeups; the five second
  timeout is what makes it true, as its mutant (a wait without timeout) shows.
- `OnlyViewedStreams` leaves out pixel copies, whose `deactivate` keeps the stream on.
- `OneDisplayOwner`, `OneCameraOwner`: a second open takes the display or the camera over
  completely, and nothing the first client does afterwards (close, start, stop, set a
  state, drop its proxy, die) undoes it.
- `StreamsOwnDevices`: two cameras that share a device, a logical one and its member,
  never stream at once, although both may be open.
- `GetSlotReturns` is stated for two slots that are neither lost nor lent: `presentLayer`
  loses a slot when it fails, and the second loss stops the HAL. It and `PresentedIsShown`
  excuse a SurfaceFlinger whose layers keep the hardware layers out of compositions again and
  again (`HwLayersLeftOut`); one such composition, or any number followed by others, they do not.
- `PipelineOutlivesUse`: the branches that `HandleRequest` and `HandleImage` call
  "Unexpected", a pipeline that is gone, are never taken. This matters beyond them: the
  branch in `HandleImage` returns without counting, and the next drain would not end.
- `BuffersAreKept`: a V4L2 buffer is with the driver, the capturing thread, an image of the
  list or the image thread, in one of them only, also across the restart of its stream on whatever device; or it is one
  of those known to be lost, and then it is in none of them. It does not say that a stream gets
  its own device back after a recovery, which is false (section 6).
- `RequestsAreFreedOnce`: a vector is deleted with its last image, not under a thread that
  reads it; the exception is a vector whose last element was dropped, which is never deleted.
- `DestroyWaitsForAnswers`: when `DestroyPipelines` returns everything was answered or dropped,
  but for the error of section 6. `AnsweredInOrder`: answers come once and in order.
- `EveryRequestIsAnswered`, `CallsReturn`: timeouts, recoveries and failing drivers included.
- `EventsReachAskers`: nothing that other clients or other threads do takes from a client
  what it asked for and did not give up.
- `HalServesAskers`: a property that a client wants of the car has options for the HAL of at
  least its rate, and a timer of exactly the rate of those options, or a thread about to set it.
  The exception is a thread that was told older options and sets the timer after the one with
  the newest: then a timer, of whatever rate, is all that is left (section 6).
- `ClientsAreForgotten`, `DeathIsHandled`: a client that dies is forgotten in spite of everything
  other clients and threads do meanwhile; one that dies with a call of its own running may not be.
- `EventsInOrder` is about the queue alone, `NewestIsStored` about the store and the queue: the two
  steps of a report and of a sample interleave with those of others, yet the newest value pushed
  for a property is the one stored, or its writer is about to push it. It says nothing of the
  order of the events: the last may carry an older value (section 6).
- `SeenEventsFire`: a timer event fires when due, for events that the loop has looked at; one
  registered between its two critical sections is found by the next wakeup only.

## 5 Fairness

Threads are scheduled, as pthreads are; a thread that waits on a condition continues
only when notified. The clients and the vehicle owe nothing.

- `EvsCamera`: the binder thread's current call and the capture thread. That the driver
  fills a buffer it has is part of the capture thread's dequeue: a video device that is
  on delivers frames. No new call is owed.
- `EvsStream`: served callbacks, the stopping thread, and a camera that ends a stream it
  was asked to stop, which is `CallsReturn` of `camera_app`. Drawing is not owed.
- `EvsState`: the binder thread, the main thread, whose wait ends after five seconds
  (`EvsVehicleListener.h`), and the update loop. Each thread takes one step at a time,
  and every one of its steps is enabled in turn, so that weak fairness is enough.
- `DisplaySlots`: a call of the HAL that has begun, the vsync thread (`KmsDisplay.cpp` lets
  it tick whenever there is a hardware layer), SurfaceFlinger's answer to `onRefresh`, and
  a frame it has begun.
- `CameraSession`: both threads, and the calls that wait: `DestroyPipelines` polls with
  `usleep`, the destructor joins. A driver owes nothing: `onFrameAcquire` gives up after
  three seconds, which is what makes the properties true; no new call is owed.
- `VehicleSubscriptions`: each binder thread's current call, and the driver's notice of each
  death. Clients owe nothing.
- `VehicleEvents`: a report that has begun, the batching thread, the timer's thread, both
  destructors once begun. That the time of an event comes is not owed, nor a spurious wakeup.

`EvsOwner` has no fairness: it states no liveness.

Spurious wakeups are allowed everywhere a condition variable is waited on, and owed
nowhere.

## 6 What the code does not do as it says

Two are runs that TLC refutes; the sentence quoted is in `PROJECT.json` with its line.

1. `camera_late`: `doneWithFrame_impl` announces to ignore the call when the camera was
   lost, but goes on and indexes an empty vector with a checked access.
2. `stream_stop`: the blocking stop waits until the stream has stopped, but `notify` clears
   the flag without signalling. (The application runs 1.1 streams only; `~VideoTex` uses
   the other stop. Code that calls `shutdown()` meets it.)

The most far-reaching of what the models contain beside them:

- `mFramesInUse` is a plain integer that the capture thread increments (`EvsCamera.cpp:471`, 494)
  and the binder thread decrements (421, 427) under no common lock. An update may be lost. A
  count left too high makes `forwardFrame` skip frames earlier (446), and a skipped frame is never given
  back to the driver, so that its buffer is out of use until the stream restarts; with few buffers
  the stream stops delivering for good. A count left too low lets more frames out than allowed.
  No line of the code says otherwise, so that there is no run that refutes one; but
  `NothingLost`, `FramesInUseIsExact` and `StreamResumes` are claimed up to the first lost
  update only (`raced`), and each of them is violated after it.

The models contain the following too, and the properties make an exception of it or speak of
something else; none has a run of its own.

- `EvsCamera::shutdown` closes the descriptors before the step that releases the memory
  ("Destroy memory.", `EvsCamera.cpp:205`), which skips closed devices.
- `stopVideoStream` keeps the client's receiver that it is to drop (`EvsCamera.cpp:377`), so
  that a stopped camera cannot be started again; `~V4l2Capture` closes nothing, so that a
  camera dropped without `closeCamera` keeps its devices' buffers; the list of cameras is
  searched while the polling thread fills it, which `EvsEnumerator.h:137` rules out.
- `postCommand` is said to wake the update loop safely (`EvsStateControl.h:42`); a command
  pushed between the loop's drain and its wait is found up to five seconds later.
- `check2DComposition` says a hardware layer must be handled by the device
  (`Display.cpp:501`); `verifyLayers` overrides it for any layer that SurfaceFlinger draws itself
  or skips (600, 626). The composition then leaves the hardware layers out: the frame of the camera
  is not shown, no slot is freed, and `getSlot` blocks for as long as SurfaceFlinger has one.
- `putLayer` removes the layer from the display before it deletes it (`DisplayHal.cpp:86`),
  but the vsync thread reads the layers without the lock of that removal (`Display.cpp:916`).
- `drainImages` waits for images under processing
  (`CameraDeviceSessionHWLImpl.cpp:1847`); an image without a buffer is counted before its
  error is told (748), so that the pipeline whose callback is used may be gone.
- A capture of a logical camera that fails after its first device (570) forgets the buffers it
  has, and the vector of the request is never deleted if that was its last element; the
  framework gets no answer (outcome `dropped`). The last pipeline configured decides for all
  of them whether requests are logical (1639).
- A stream that recovers from timeouts opens `getDevPath(0)` again (`VideoStream.cpp:180`), the
  device of the first stream, although stream `i` was opened on the device `i` of the camera
  (`CameraDeviceSessionHWLImpl.cpp:155`). The second stream of a logical camera is then refused while
  the first streams, or shows the picture of the first camera.
- A `VIDIOC_QBUF` that fails takes a buffer out of use until the stream restarts: when an image
  gives it back (`MMAPStream.cpp:396`) it is logged, when a frame is omitted
  (`VideoStream.cpp:365`) the capture fails too.
- Two overlapping `subscribe` calls may tell the HAL their rates in the other order, so that the
  timer keeps the lower one for good, and one that overlaps with the last `unsubscribe` leaves a timer that nobody uses
  (`VehicleHalManager.cpp:159`). A client that unsubscribes keeps its options, which its next
  subscription merges with (`SubscriptionManager.cpp:234`). A call that runs while its client dies may subscribe it anew
  after `onCallbackDead` has copied its properties (266).
- A notification between the two critical sections of `RecurrentTimer::loop` is lost
  (`RecurrentTimer.h:122`): an event registered then waits for the next wakeup, and `stop()`,
  if no event is left, joins a thread that nobody wakes. No property says that it returns.
- The timer reads the store under one lock, stamps the sample with the current time and pushes it
  under another (`EmulatedVehicleHal.cpp:363`, 372, 373). A value stored or pushed in between has an
  older time than the older sample: neither the time nor the order of the events tells which value
  is newer, and a client that keeps the last one may keep a stale value until the next sample.

## 7 Proofs

Checked by TLAPS for every value of the constants that satisfies the assumptions in the
modules; nothing else is assumed. The assumptions: counts are positive naturals within
each other's range, `UINT_MOD` exceeds the frames in flight by two, the null value is no
memory, frame, layer, renderer, camera, display, client, stream, configuration, option or
event, a logical camera is a camera, a request is a sequence of elements that is not empty,
or options for at least one property, and `Env`, `Faults` are subsets of their kinds.

**EvsCameraProofs.** `TypeCorrect`, `CustodyCorrect`, `CustodyIsExclusive`. Exclusive
custody is not inductive: `onIncreaseMemoryBuffer` queues the first index that is
unmapped, so one must know that a buffer that is anywhere is mapped, and that a slot is
found whenever an index is free. `CustodyInv` adds both: `Circulating \subseteq Mapped`, and
`CountsAgree`, which counts the mapped buffers. The search runs over one more slot than
there are buffers mapped, so by the pigeonhole principle it finds one. Each action has a
step; those that move a buffer share lemmas on returning, dropping and queueing.

Then `EndIsQuiet`, `ClosedAfterStop` and `CameraKeepsCustody`, the refinement of
`FrameCustody`. Besides `CustodyInv` it needs `PhaseInv`, which relates the two
threads: the capture thread exists only between `SpawnCapture` and `JoinCapture`
(`ThreadInv`), which call the binder thread is in (`CallInv`), what `mRunMode` may be
(`RunModeInv`), and when the driver streams (`StreamInv`). Every action maps to one
of `FrameCustody` or to a stutter.

`FramesAreCounted` (`FramesInUseIsExact`) and `NothingIsLost` (`NothingLost`) hold for every client
and every environment, until a thread stores a count that it computed from an outdated load (`raced`).
`AccountsInv` adds to them that a frame in hand can be given back: the slot it was found in is not
emptied under it, because indices have slots of their own and what `IncreasePublish` publishes
only adds to the vector it was copied from (`BackingInv`).

Two properties need a client that does not do everything the interface allows. A *steady*
client (`Steady`) chooses the number of buffers once, before its stream starts, and returns
frames only while the camera is open; the enumerator may take its camera at any time, its
process may die, updates of the counter may be lost, and there is memory for the buffers it may
ask for. `evs_app` sets the number once, as a `StreamHandler` is made. That it returns nothing to a
camera that was taken from it is a hypothesis: a client cannot know in time, and `camera_late`
shows what follows when it does not hold. For a steady client, `MapsAgree` (`QueuedIsLookedUp`) and
`NothingAborts` (`NoAbort`). `CalmInv` says what such a client never brings about (a
pending decrease, a device that was never opened, an unlocked lookup beside a resize) and what
the threads do while the buffers are mapped; `MapsInv`, that the two maps are one to one: the
mapped indices lead to the first slots, which hold different pieces of memory, all that is
allocated. Between the mapping of an index and the publication of its memory the copy is one
longer than the member; `Buffers` is the longer of the two.

`CallsCountDown` and `CaptureWindsDown` give every call of the binder thread and the end
of the capture thread a rank (`CallRank`, `StepsToExit`) that each of their own steps
lowers and no other step raises. A call takes at most `6 + 2 * MAX_BUFFERS_IN_FLIGHT` steps.

**EvsStreamProofs.** `TypeCorrect`, `PromiseIsKept` (the composition with a camera keeps
`FrameCustody`) and `HeldIsDrawn`. `HandlerInv` says that the held and the ready slot differ
and hold different frames, both the client's (`HandlerOK`, `SlotsApart`); that a frame on its
way is the client's, on its way once, and in no slot (`InboxApart`); and at which points of
the render thread a frame is held (`RendererOK`).

`FramesInOrder` (`LentInOrder`) says in which order: the frames lent are the held one, the
ready one and those on their way. It is inductive together with `EndIsLast`, that nothing
follows the end of the stream in the queue. A frame that goes back is always the first or the
second of the history, so that lemmas about `RemoveFirst` at those two places suffice. From it:
`NothingLeaks`, `DeliveryIsPending` and `AtMostTwoAreKept`. `ShutdownIsHeard` is about 1.0
streams; of 1.1 streams it is false (`stream_stop`).

**EvsStateProofs.** `TypeCorrect`, `DisplayShowsRenderer`, `DesiredViewIsDrawn` and
`ViewsAreExclusive`. `PipelineInv` says where in the loop the recorded state, the renderer
and the display may disagree (`RendererFollows`): only in a switch, and until it ends the
renderer is the one of the desired state. `NoViewIsSleptOver`: the loop waits for a wakeup
only when its last readings call for no view and none is shown (`SleepInv`). `SettledStays`:
once the state is the one that the vehicle calls for, no step changes it but one of the vehicle
or one that loses the turn signal: late commands, a view that fails or a stolen display do not.

**DisplaySlotsProofs.** `TypeCorrect`, `SlotsAreInOnePlace`, `LayerIsForgotten`. `SlotsInv` splits
the invariant into places that do not overlap (`SlotsApart`), that cover all slots
(`SlotsComplete`), that are empty without a layer (`SlotsClosed`), and the layers that are
drawn (`DrawnApart`); a lemma per kind of move says that passing a slot on keeps them.
`NoSignalIsLost`: `getSlot` waits without a predicate, yet has been signalled exactly when a
slot is free (`SignalInv`), because every place that frees one signals. `WaitingFrameIsWatched`:
a presented frame is on a layer that the display composes and that keeps the vsync thread
awake. `WaiterCanBeServed` counts: with no slot free, and all but two taken or lost at the most,
a frame waits to be shown behind another, so that showing it frees one.

**EvsOwnerProofs.** `TypeCorrect`, `DisplayHasOneOwner`, `CameraHasOneOwner`,
`StreamsAreExclusive`, `DeadStaysDead`. The invariants checked are inductive once objects that
are not made yet are known to have nothing (`CamerasMade`, `DisplaysMade`) and a call that
opens has room for its object (`CallsMeant`). The two lemmas on shutting down, of a display
and of a camera, serve every way it happens; `OwnerGivesBack` says that after the owner's
`putLayer` every layer is free, so that the next `getLayer` succeeds. `DisplayIsLastOwner`
and `CameraIsLastOwner` map each step to `Acquire`, `Lose` or a stutter: only `openDisplay` and
`openCamera` give anything, to an object they have just made (`ClosedStaysClosed`), and
that it is then alone is the invariant in the state after.

**CameraSessionProofs.** All five safety properties of `session_any`, and the types, for any
number of cameras, buffers, requests, pipelines and faults. The argument goes up in layers,
each proved to be kept on top of the ones before.
`Core` has the types (`ThreadsTyped`, `DataTyped`, `StreamsTyped`), says that the counters of
requests and images agree with the map, the list and what the threads hold (`CountsAgree`), and
where the waiting calls stand (`CallsOK`, `WorkOK`): while a request or an image is under way
`DestroyPipelines` cannot have passed its wait, so the pipeline is there
(`PipelinesOutliveUse`). `OrderOK` says that elements are in the queue, with a thread, in the
list and answered in the order of submission, and `OutcomesOK` that the history agrees: hence
`DestroyWaits` and `AnswersAreInOrder`. `FreedOK`: a vector not deleted is needed or was
dropped (`RequestsAreFreed`). `StreamsOK` and `PlacesOK`: where each buffer is while a stream
is stopped, restarted and captured from (`BuffersKept`). Steps are grouped by what they do to
the queues (`WorkMoves`, `WorkDrops`, `Answers`, `Shrinks`, `Quiet`), so that a layer has to look at
few kinds of step instead of all. `NobodyWaitsInACircle` looks at every wait: whoever
`DestroyPipelines` or `WorkThread` waits for has something to take, has not ended, and needs no
lock the waiter holds. `DrainingIsNotRefilled`: while images are drained none is added, and
they are counted off one at a time.

**VehicleSubscriptionsProofs.** `TypeCorrect`, `AskersAreServed`, `AskersHaveTimers`,
`OnlySubscribersAreKnown`. The safety properties are inductive together, once the tables of the
manager are tied to each other and to what each thread is about to do (`Inv`). `Served` has the rate
of each timer in it, which is that of the newest options unless older ones were told last.
`RestIsConsistent` says what is left of it when no thread does anything: what the manager and
the HAL disagree about between their locks passes.

**VehicleEventsProofs.** `TypeCorrect`, `DeliveredInOrder` (the batch and the queue hold the
numbers between delivered and pushed, in order) and `StoreIsTold`, which needs that times are
handed out once and that a writer past the store has the newest time or is outdated.
`StopIsNotForgotten` and `QueueIsWorkedOff` follow the consumer thread (`ConsumerInv`): the
exchange of the queue's state, of which the destructor makes one and the thread another, forgets
no stop, and each step of the thread brings it closer to a delivery (`StepsToDelivery`).
`SampleInv`, that what the timer holds is no newer than the store, keeps `StoreIsTold` across the two
steps of a sample. `SeenEventsAreAwaited`: the timer's thread does not sleep without end over an event that was
registered when it last looked.

**What the waits rest on.** Liveness under fairness, and enabledness, are outside the proof
system. What a termination argument needs besides fairness is not, and is proved: that who
waits is waiting for something that is there, that what would end the wait cannot be lost,
and that a rank goes down.

| Checked by TLC | Proved for every value of the constants |
|---|---|
| `CallsReturn` of `EvsCamera` | `CallsCountDown`: every step of a call under way takes it nearer to its return; `CaptureWindsDown`: once `mRunMode` is `STOPPING` every step of the capture thread takes it nearer to its exit |
| `StreamResumes` | `FramesAreCounted`, `NothingIsLost`: until an update is lost, the count is exact and no frame leaves the circulation |
| `DeathIsHandled` | `RestIsConsistent`: when no call and no notice of a death is being served, a client whose death was noticed while none of its calls ran has no property |
| `CameraNotStarved` | `NothingLeaks`, `AtMostTwoAreKept`: the application keeps two frames at most, and what it keeps is in a slot it will return from |
| `ShutdownReturns` | `ShutdownIsHeard`: while `blockingStopStream` waits on a 1.0 stream, the null frame is still to come |
| `GetSlotReturns`, `PresentedIsShown` | `NoSignalIsLost`, `WaiterCanBeServed`, `WaitingFrameIsWatched` |
| `ViewFollowsVehicle` | `NoViewIsSleptOver`, `SettledStays`: the loop does not sleep on a view that is due, and once it shows it stays |
| `EveryRequestIsAnswered`, `CallsReturn` of `CameraSession` | `NobodyWaitsInACircle`: the thread waited for has work, has not ended and is not kept out by a lock of the waiter; `DrainingIsNotRefilled` |
| `EventsAreDelivered`, `DestructorReturns` | `QueueIsWorkedOff`, `StopIsNotForgotten` |
| `SeenEventsFire` | `SeenEventsAreAwaited` |

Every other property the runs check is stated by a theorem. For two of the camera's,
`QueuedIsLookedUp` and `NoAbort`, the theorem has a client like that of `camera_app` as its
hypothesis (`Steady`, above), as the property needs it: another client does break them, one with
`NoAbort` in `camera_late`.

## 8 Limits

- The models cover a small share of the repository's lines. Most of it is vendored or
  derived from the Android samples (`alsa`, `libextcam`, `external_camera`, gralloc,
  `hwcomposer*`), converts data, or calls the kernel one request at a time; the project takes
  the parts whose own threads hand work to each other and models those whole.
- The EVS HAL's logical cameras collect frames of several devices; the model has one.
- Each model assumes sequentially consistent memory, with the exceptions named: the
  racing frame counter, whose loads and stores are steps of their own, and the vsync thread's unlocked reads.
- The drivers, binder, SurfaceFlinger and the vehicle are environments: they do what the
  code's use of them requires, and fail where the code looks for a failure.
- Reducing the number of buffers in flight (`setMaxFramesInFlight`) waits on a condition
  that only the waiting thread's own process loop could notify. `camera_any` has it as
  an environment; no liveness is claimed for it.
- In `EvsState` a display that was lost keeps the loop spinning without drawing
  ("skipping this frame"); the properties exclude it.
- A view that fails to deactivate its camera (`RenderPixelCopy`) is modelled as it is.
- `CameraSession` leaves out memory that cannot be allocated, the `DMAStream` and ISP variants, how the configuration of a
  stream is chosen from the request's settings, two requests with the same frame number, and a
  session deleted with its pipelines built, none of which the framework or a healthy driver
  causes. What the image thread computes for the output buffers is one step.
- `VehicleSubscriptions` treats every property as continuous and no list of options as empty,
  and takes a list to name a property once. `VehicleEvents` takes the HAL to outlive the
  manager, as the service declares them; what reports do after the manager is gone has no
  effect in the model. Generators of the emulator (`GeneratorHub.cpp`), the socket and the MCU
  are left out: the writers stand for them.
- Not modelled: the subsystems of the table in section 1, for the reasons in `PROJECT.json`.
