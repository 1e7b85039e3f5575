--------------------------- MODULE VehicleEvents ---------------------------
(***************************************************************************)
(* How a value of the vehicle comes to the clients: the property store     *)
(* (VehiclePropertyStore.cpp), the timer that samples it (RecurrentTimer.h,*)
(* EmulatedVehicleHal.cpp), the queue of events and the thread that        *)
(* delivers them in batches (ConcurrentQueue.h, VehicleHalManager.cpp).    *)
(*                                                                         *)
(* Threads of the vehicle write values and push events, the timer's thread *)
(* pushes samples, BatchingConsumer's thread delivers.  The store, the     *)
(* queue and the timer have a lock each; what runs under one is a step.    *)
(***************************************************************************)
EXTENDS Integers, Sequences, FiniteSets

CONSTANTS
  Prop, Continuous,  \* properties; those that the timer may sample
  Writer,            \* threads that report values
  MAX_TIME,          \* bound: times given to values and samples
  MAX_ELAPSED,       \* bound: times that the time of an event comes
  MAX_CALLS,         \* bound: events registered and unregistered
  NULL

ASSUME PropAssumption == Continuous \subseteq Prop
ASSUME BoundsAssumption == {MAX_TIME, MAX_ELAPSED, MAX_CALLS} \subseteq Nat

\* A value is known by the time it was made at, an event in the queue by its number.
Time == 0 .. MAX_TIME
Event == [prop : Prop, time : Time]
ASSUME NullAssumption == NULL \notin Event

VARIABLES
  clock,
  mPropertyValues,     \* the time of the value of each property, 0 at first
  wpc, event,          \* of each writer: what it is about to do, with which event
  mQueue, mIsActive,   \* ConcurrentQueue
  mState, cpc, batch,  \* BatchingConsumer
  mpc,                 \* the manager: "up", then the steps of its destructor
  timers,              \* the timer's events: "off", "later", or "due"
  mStopRequested,
  tpc, cookies,        \* the timer's thread, and the events it has to act on
  sample,              \* what it has read from the store and not pushed yet
  next, notified,      \* how long it waits; whether it was notified meanwhile
  hpc,                 \* the HAL: "up", then the steps of RecurrentTimer::stop
  elapsed, calls,      \* counts against the bounds
  pushed, delivered,   \* history: how many events there were
  told,                \* history: the newest value pushed for each property, by its time
  late                 \* history: registered since the thread looked at its events

store == <<clock, mPropertyValues>>
writers == <<wpc, event>>
queue == <<mQueue, mIsActive, pushed, told>>
consumer == <<mState, cpc, batch, delivered>>
timer == <<timers, mStopRequested, late>>
thread == <<tpc, cookies, sample, next, notified>>
counts == <<elapsed, calls>>
vars == <<store, writers, queue, consumer, mpc, timer, thread, hpc, counts>>

Init ==
  /\ clock = 0 /\ mPropertyValues = [p \in Prop |-> 0]
  /\ wpc = [w \in Writer |-> "idle"] /\ event = [w \in Writer |-> NULL]
  /\ mQueue = <<>> /\ mIsActive = TRUE
  /\ mState = "INIT" /\ cpc = "start" /\ batch = <<>>
  /\ mpc = "up"
  /\ timers = [p \in Continuous |-> "off"] /\ mStopRequested = FALSE
  /\ tpc = "collect" /\ cookies = {} /\ sample = NULL
  /\ next = "never" /\ notified = FALSE
  /\ hpc = "up"
  /\ elapsed = 0 /\ calls = 0
  /\ pushed = 0 /\ delivered = 0 /\ told = [p \in Prop |-> 0] /\ late = {}

-----------------------------------------------------------------------------
(* The vehicle *)

\* elapsedRealtimeNano(): no two values are made at the same time.
Ticks == clock < MAX_TIME /\ clock' = clock + 1

\* A value the vehicle reports, or that a client has set.
onPropertyValue(w, p) ==
  /\ wpc[w] = "idle" /\ mpc = "up" /\ Ticks
  /\ wpc' = [wpc EXCEPT ![w] = "write"]
  /\ event' = [event EXCEPT ![w] = [prop |-> p, time |-> clock']]
  /\ UNCHANGED <<mPropertyValues, queue, consumer, mpc, timer, thread, hpc, counts>>

\* Mutant: an outdated value is written too.
NeverOutdated(e) == FALSE

Outdated(e) == mPropertyValues[e.prop] > e.time

writeValue(w) ==
  /\ wpc[w] = "write"
  /\ IF Outdated(event[w])
     THEN /\ wpc' = [wpc EXCEPT ![w] = "idle"] /\ event' = [event EXCEPT ![w] = NULL]
          /\ UNCHANGED mPropertyValues
     ELSE /\ mPropertyValues' = [mPropertyValues EXCEPT ![event[w].prop] = event[w].time]
          /\ wpc' = [wpc EXCEPT ![w] = "push"] /\ UNCHANGED event
  /\ UNCHANGED <<clock, queue, consumer, mpc, timer, thread, hpc, counts>>

\* ConcurrentQueue::push
Push ==
  IF mIsActive
  THEN mQueue' = Append(mQueue, pushed + 1) /\ pushed' = pushed + 1
  ELSE UNCHANGED <<mQueue, pushed>>

Tell(e) ==
  told' = IF e.time > told[e.prop] THEN [told EXCEPT ![e.prop] = e.time] ELSE told

doHalEvent(w) ==
  /\ wpc[w] = "push" /\ Push /\ Tell(event[w])
  /\ wpc' = [wpc EXCEPT ![w] = "idle"] /\ event' = [event EXCEPT ![w] = NULL]
  /\ UNCHANGED <<store, mIsActive, consumer, mpc, timer, thread, hpc, counts>>

-----------------------------------------------------------------------------
(* BatchingConsumer::runInternal *)

\* Mutant: the state is set without looking at what it was.
startsAnyway ==
  /\ cpc = "start" /\ cpc' = "wait" /\ mState' = "RUNNING"
  /\ UNCHANGED <<store, writers, queue, batch, delivered, mpc, timer, thread, hpc, counts>>

\* A stop that was requested before the thread starts is not lost.
starts ==
  /\ cpc = "start"
  /\ IF mState = "INIT" THEN cpc' = "wait" /\ mState' = "RUNNING"
                        ELSE cpc' = "done" /\ mState' = "STOPPED"
  /\ UNCHANGED <<store, writers, queue, batch, delivered, mpc, timer, thread, hpc, counts>>

\* Each turn, and after each wait, the thread looks for a stop.
GoesOn(to) ==
  IF mState = "STOP_REQUESTED" THEN cpc' = "done" /\ mState' = "STOPPED"
                               ELSE cpc' = to /\ UNCHANGED mState

\* Mutant: a single event does not wake the thread.
waitForSeveral ==
  /\ cpc = "wait" /\ (Len(mQueue) > 1 \/ ~mIsActive) /\ GoesOn("sleep")
  /\ UNCHANGED <<store, writers, queue, batch, delivered, mpc, timer, thread, hpc, counts>>

waitForItems ==
  /\ cpc = "wait" /\ (mQueue # <<>> \/ ~mIsActive) /\ GoesOn("sleep")
  /\ UNCHANGED <<store, writers, queue, batch, delivered, mpc, timer, thread, hpc, counts>>

sleeps ==
  /\ cpc = "sleep" /\ GoesOn("flush")
  /\ UNCHANGED <<store, writers, queue, batch, delivered, mpc, timer, thread, hpc, counts>>

\* Mutant: the events are taken from the wrong end.
TakenInReverse == [i \in DOMAIN mQueue |-> mQueue[Len(mQueue) + 1 - i]]

Taken == mQueue

\* A queue that was deactivated yields nothing.
flush ==
  /\ cpc = "flush"
  /\ IF mIsActive /\ mQueue # <<>>
     THEN batch' = Taken /\ mQueue' = <<>> /\ cpc' = "deliver" /\ UNCHANGED mState
     ELSE GoesOn("wait") /\ UNCHANGED <<batch, mQueue>>
  /\ UNCHANGED <<store, writers, mIsActive, pushed, told, delivered, mpc, timer, thread, hpc,
                 counts>>

onBatchHalEvent ==
  /\ cpc = "deliver" /\ GoesOn("wait")
  /\ delivered' = delivered + Len(batch) /\ batch' = <<>>
  /\ UNCHANGED <<store, writers, queue, mpc, timer, thread, hpc, counts>>

-----------------------------------------------------------------------------
(* The destructor of the manager *)

requestStop ==
  /\ mpc = "up" /\ mpc' = "deactivate"
  /\ mState' = "STOP_REQUESTED"
  /\ UNCHANGED <<store, writers, queue, cpc, batch, delivered, timer, thread, hpc, counts>>

deactivate ==
  /\ mpc = "deactivate" /\ mpc' = "join"
  /\ mIsActive' = FALSE
  /\ UNCHANGED <<store, writers, mQueue, pushed, told, consumer, timer, thread, hpc, counts>>

waitStopped ==
  /\ mpc = "join" /\ cpc = "done" /\ mpc' = "gone"
  /\ UNCHANGED <<store, writers, queue, consumer, timer, thread, hpc, counts>>

-----------------------------------------------------------------------------
(* RecurrentTimer *)

\* An event is aligned with the past: it is due at once.
registerRecurrentEvent(p) ==
  /\ hpc = "up" /\ calls < MAX_CALLS /\ calls' = calls + 1
  /\ timers' = [timers EXCEPT ![p] = "due"]
  /\ late' = IF timers[p] = "off" THEN late \union {p} ELSE late
  /\ notified' = (notified \/ tpc = "asleep")
  /\ UNCHANGED <<store, writers, queue, consumer, mpc, mStopRequested, tpc, cookies, sample,
                 next, hpc, elapsed>>

unregisterRecurrentEvent(p) ==
  /\ hpc = "up" /\ calls < MAX_CALLS /\ calls' = calls + 1
  /\ timers' = [timers EXCEPT ![p] = "off"] /\ late' = late \ {p}
  /\ notified' = (notified \/ tpc = "asleep")
  /\ UNCHANGED <<store, writers, queue, consumer, mpc, mStopRequested, tpc, cookies, sample,
                 next, hpc, elapsed>>

Elapses(p) ==
  /\ timers[p] = "later" /\ elapsed < MAX_ELAPSED /\ elapsed' = elapsed + 1
  /\ timers' = [timers EXCEPT ![p] = "due"]
  /\ UNCHANGED <<store, writers, queue, consumer, mpc, mStopRequested, late, thread, hpc, calls>>

Due == {p \in Continuous : timers[p] = "due"}

\* An event whose thread was late by intervals moves on by all of them but the
\* last part: it may be due again.
Behind == IF elapsed < MAX_ELAPSED THEN SUBSET Due ELSE {{}}

\* Mutant: the events that fire now are not waited for.
WaitForOthers(events) ==
  LET others == [p \in Continuous |-> IF timers[p] = "due" THEN "off" ELSE events[p]]
  IN IF \A p \in Continuous : others[p] = "off" THEN "never"
     ELSE IF \E p \in Continuous : others[p] = "due" THEN "past" ELSE "later"

\* nextEventTime: the least of the times of the events.
nextEventTime(events) ==
  IF \A p \in Continuous : events[p] = "off" THEN "never"
  ELSE IF \E p \in Continuous : events[p] = "due" THEN "past" ELSE "later"

collect(behind) ==
  /\ tpc = "collect" /\ behind \in Behind
  /\ cookies' = Due /\ tpc' = IF Due = {} THEN "wait" ELSE "act"
  /\ timers' = [p \in Continuous |-> IF p \in Due \ behind THEN "later" ELSE timers[p]]
  /\ elapsed' = IF behind = {} THEN elapsed ELSE elapsed + 1
  /\ next' = nextEventTime(timers') /\ late' = {}
  /\ UNCHANGED <<store, writers, queue, consumer, mpc, mStopRequested, sample, notified,
                 hpc, calls>>

\* The value is read from the store under its lock ...
readValueOrNull(p) ==
  /\ tpc = "act" /\ p \in cookies
  /\ cookies' = cookies \ {p} /\ tpc' = "push"
  /\ sample' = [prop |-> p, time |-> mPropertyValues[p]]
  /\ UNCHANGED <<store, writers, queue, consumer, mpc, timer, next, notified, hpc, counts>>

\* ... and pushed later under that of the queue, when the store may hold a newer
\* one.  The new time the sample is stamped with tells nothing of its value.
onContinuousPropertyTimer ==
  /\ tpc = "push" /\ Push /\ Tell(sample)
  /\ tpc' = "act" /\ sample' = NULL
  /\ UNCHANGED <<store, writers, mIsActive, consumer, mpc, timer, cookies, next, notified, hpc,
                 counts>>

acted ==
  /\ tpc = "act" /\ cookies = {} /\ tpc' = "wait"
  /\ UNCHANGED <<store, writers, queue, consumer, mpc, timer, cookies, sample, next, notified,
                 hpc, counts>>

\* The lock is taken anew: what was notified since the events were looked at is lost.
waits ==
  /\ tpc = "wait" /\ tpc' = "asleep" /\ notified' = FALSE
  /\ UNCHANGED <<store, writers, queue, consumer, mpc, timer, cookies, sample, next, hpc,
                 counts>>

\* The thread looks for a stop before it looks at its events again.
Wakes ==
  /\ tpc = "asleep" /\ tpc' = IF mStopRequested THEN "done" ELSE "collect"
  /\ UNCHANGED <<store, writers, queue, consumer, mpc, timer, cookies, sample, next, notified,
                 hpc, counts>>
wait_until == (notified \/ next # "never") /\ Wakes
SpuriousWakeup == ~notified /\ next = "never" /\ Wakes

\* RecurrentTimer::stop, when the HAL is deleted: not before the manager, which calls it.
stop ==
  /\ hpc = "up" /\ mpc = "gone" /\ hpc' = "clear" /\ mStopRequested' = TRUE
  /\ UNCHANGED <<store, writers, queue, consumer, mpc, timers, late, thread, counts>>

clear ==
  /\ hpc = "clear" /\ hpc' = "join"
  /\ timers' = [p \in Continuous |-> "off"] /\ late' = {}
  /\ notified' = (notified \/ tpc = "asleep")
  /\ UNCHANGED <<store, writers, queue, consumer, mpc, mStopRequested, tpc, cookies, sample,
                 next, counts>>

join ==
  /\ hpc = "join" /\ tpc = "done" /\ hpc' = "gone"
  /\ UNCHANGED <<store, writers, queue, consumer, mpc, timer, thread, counts>>

-----------------------------------------------------------------------------
Report(w) == writeValue(w) \/ doHalEvent(w)
Consume == starts \/ waitForItems \/ sleeps \/ flush \/ onBatchHalEvent
Destroy == deactivate \/ waitStopped
RunTimer ==
  \/ onContinuousPropertyTimer \/ acted \/ waits \/ wait_until
  \/ \E behind \in SUBSET Continuous : collect(behind)
  \/ \E p \in Continuous : readValueOrNull(p)
Stop == clear \/ join

Next ==
  \/ \E w \in Writer : Report(w) \/ \E p \in Prop : onPropertyValue(w, p)
  \/ Consume \/ requestStop \/ Destroy
  \/ \E p \in Continuous :
       registerRecurrentEvent(p) \/ unregisterRecurrentEvent(p) \/ Elapses(p)
  \/ RunTimer \/ SpuriousWakeup \/ stop \/ Stop

\* The threads run.  Spurious wakeups, reports and calls are not owed.
Fairness ==
  /\ \A w \in Writer : WF_vars(Report(w))
  /\ WF_vars(Consume) /\ WF_vars(Destroy) /\ WF_vars(RunTimer) /\ WF_vars(Stop)

Spec == Init /\ [][Next]_vars /\ Fairness

-----------------------------------------------------------------------------
(* Properties *)

EventOrNull == Event \union {NULL}

TypeOK ==
  /\ clock \in Time /\ mPropertyValues \in [Prop -> Time]
  /\ wpc \in [Writer -> {"idle", "write", "push"}] /\ event \in [Writer -> EventOrNull]
  /\ mQueue \in Seq(Nat) /\ batch \in Seq(Nat)
  /\ pushed \in Nat /\ delivered \in Nat /\ told \in [Prop -> Time]
  /\ mIsActive \in BOOLEAN /\ mStopRequested \in BOOLEAN /\ notified \in BOOLEAN
  /\ mState \in {"INIT", "RUNNING", "STOP_REQUESTED", "STOPPED"}
  /\ cpc \in {"start", "wait", "sleep", "flush", "deliver", "done"}
  /\ mpc \in {"up", "deactivate", "join", "gone"} /\ hpc \in {"up", "clear", "join", "gone"}
  /\ timers \in [Continuous -> {"off", "later", "due"}]
  /\ tpc \in {"collect", "act", "push", "wait", "asleep", "done"} /\ sample \in EventOrNull
  /\ cookies \subseteq Continuous /\ late \subseteq Continuous
  /\ next \in {"never", "later", "past"}
  /\ elapsed \in 0 .. MAX_ELAPSED /\ calls \in 0 .. MAX_CALLS

\* No event is lost, doubled or moved between the queue and the clients, as
\* long as the manager lives.
EventsInOrder == batch \o mQueue = [i \in 1 .. pushed - delivered |-> delivered + i]

\* Writers store and push in two steps, and the timer reads and pushes in two, in
\* any order; still the newest value pushed for a property is the one in the store,
\* or a writer is about to push that.  It says nothing of the order of the events:
\* the last one may be a sample with an older value under a newer time.
NewestIsStored ==
  mIsActive => \A p \in Prop :
    \/ told[p] = mPropertyValues[p]
    \/ /\ told[p] < mPropertyValues[p]
       /\ \E w \in Writer : wpc[w] = "push" /\ event[w] = [prop |-> p, time |-> mPropertyValues[p]]

\* What is in the queue is delivered, unless the manager is destroyed first.
EventsAreDelivered == mQueue # <<>> ~> (cpc = "deliver" \/ mpc # "up")

\* The destructor returns, also one that comes before the thread has started.
DestructorReturns == mpc = "deactivate" ~> mpc = "gone"

\* An event that the thread has seen fires whenever it is due.
SeenEventsFire ==
  \A p \in Continuous :
    (timers[p] = "due" /\ p \notin late) ~> (p \in cookies \/ timers[p] = "off" \/ mStopRequested)
=============================================================================
