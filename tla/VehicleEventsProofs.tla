------------------------- MODULE VehicleEventsProofs -------------------------
(***************************************************************************)
(* What VehicleEvents promises for any properties, any number of writers   *)
(* and every length of its queue: events are delivered once and in order,  *)
(* and the newest value pushed for a property is what the store holds.     *)
(***************************************************************************)
EXTENDS VehicleEvents, SequenceTheorems, TLAPS

USE BoundsAssumption DEF Time, Event, EventOrNull

-----------------------------------------------------------------------------
(* The queue: EventsInOrder, event by event.  A batch is only left while it *)
(* is delivered.                                                           *)

QueueInv ==
  /\ mQueue \in Seq(Nat) /\ batch \in Seq(Nat) /\ pushed \in Nat /\ delivered \in Nat
  /\ cpc # "deliver" => batch = <<>>
  /\ pushed = delivered + Len(batch) + Len(mQueue)
  /\ \A i \in 1 .. Len(batch) : batch[i] = delivered + i
  /\ \A i \in 1 .. Len(mQueue) : mQueue[i] = delivered + Len(batch) + i

LEMMA PushKeepsOrder ==
  ASSUME QueueInv, Push, UNCHANGED <<consumer>> PROVE QueueInv'
<1> USE DEF QueueInv, consumer
<1>1. CASE mIsActive
  <2>1. mQueue' = Append(mQueue, pushed + 1) /\ pushed' = pushed + 1
    BY <1>1 DEF Push
  <2>2. pushed + 1 \in Nat /\ Len(mQueue) \in Nat
    BY LenProperties
  <2>3. mQueue' \in Seq(Nat) /\ Len(mQueue') = Len(mQueue) + 1
    BY <2>1, <2>2, AppendProperties
  <2>4. mQueue'[Len(mQueue) + 1] = pushed + 1 /\ \A i \in 1 .. Len(mQueue) : mQueue'[i] = mQueue[i]
    BY <2>1, <2>2, AppendProperties
  <2>5. ASSUME NEW i \in 1 .. Len(mQueue') PROVE mQueue'[i] = delivered + Len(batch) + i
    <3>1. CASE i = Len(mQueue) + 1
      BY <2>2, <2>4, <3>1, LenProperties
    <3>2. CASE i # Len(mQueue) + 1
      <4>1. i \in 1 .. Len(mQueue)
        BY <2>2, <2>3, <3>2
      <4> QED
        BY <2>4, <4>1
    <3> QED
      BY <3>1, <3>2
  <2> QED
    BY <2>1, <2>2, <2>3, <2>5
<1>2. CASE ~mIsActive
  BY <1>2 DEF Push
<1> QED
  BY <1>1, <1>2

LEMMA FlushKeepsOrder == ASSUME QueueInv, flush PROVE QueueInv'
<1> USE DEF QueueInv, flush, Taken, GoesOn
<1>1. CASE mIsActive /\ mQueue # <<>>
  <2>1. batch' = mQueue /\ mQueue' = <<>> /\ cpc' = "deliver" /\ batch = <<>>
        /\ UNCHANGED <<pushed, delivered>>
    BY <1>1
  <2>2. Len(mQueue') = 0 /\ Len(batch) = 0
    BY <2>1
  <2> QED
    BY <2>1, <2>2
<1>2. CASE ~(mIsActive /\ mQueue # <<>>)
  BY <1>2
<1> QED
  BY <1>1, <1>2

LEMMA DeliveryKeepsOrder == ASSUME QueueInv, onBatchHalEvent PROVE QueueInv'
<1>1. /\ delivered' = delivered + Len(batch) /\ batch' = <<>> /\ cpc' # "deliver"
      /\ UNCHANGED <<mQueue, pushed>>
  BY DEF onBatchHalEvent, GoesOn, queue
<1>2. Len(batch) \in Nat /\ Len(batch') = 0
  BY <1>1 DEF QueueInv
<1> QED
  BY <1>1, <1>2 DEF QueueInv

LEMMA OrderKept == ASSUME QueueInv, [Next]_vars PROVE QueueInv'
<1> USE DEF QueueInv, queue, consumer
<1>1. ASSUME NEW w \in Writer, doHalEvent(w) PROVE QueueInv'
  BY <1>1, PushKeepsOrder DEF doHalEvent
<1>2. ASSUME onContinuousPropertyTimer PROVE QueueInv'
  BY <1>2, PushKeepsOrder DEF onContinuousPropertyTimer
<1>13. ASSUME NEW p \in Continuous, readValueOrNull(p) PROVE QueueInv'
  BY <1>13 DEF readValueOrNull
<1>3. ASSUME UNCHANGED <<mQueue, pushed, consumer>> PROVE QueueInv'
  BY <1>3
<1>4. ASSUME NEW w \in Writer, writeValue(w) PROVE QueueInv'
  BY <1>3, <1>4 DEF writeValue
<1>5. ASSUME NEW w \in Writer, NEW p \in Prop, onPropertyValue(w, p) PROVE QueueInv'
  BY <1>3, <1>5 DEF onPropertyValue
<1>6. ASSUME starts \/ waitForItems \/ sleeps PROVE QueueInv'
  BY <1>6 DEF starts, waitForItems, sleeps, GoesOn
<1>7. ASSUME requestStop \/ deactivate \/ waitStopped PROVE QueueInv'
  BY <1>3, <1>7 DEF requestStop, deactivate, waitStopped
<1>8. ASSUME NEW p \in Continuous,
             registerRecurrentEvent(p) \/ unregisterRecurrentEvent(p) \/ Elapses(p)
      PROVE  QueueInv'
  BY <1>3, <1>8 DEF registerRecurrentEvent, unregisterRecurrentEvent, Elapses
<1>9. ASSUME NEW behind \in SUBSET Continuous, collect(behind) PROVE QueueInv'
  BY <1>3, <1>9 DEF collect
<1>10. ASSUME acted \/ waits \/ wait_until \/ SpuriousWakeup PROVE QueueInv'
  BY <1>3, <1>10 DEF acted, waits, wait_until, SpuriousWakeup, Wakes
<1>11. ASSUME stop \/ clear \/ join PROVE QueueInv'
  BY <1>3, <1>11 DEF stop, clear, join
<1>12. ASSUME UNCHANGED vars PROVE QueueInv'
  BY <1>3, <1>12 DEF vars
<1> QED
  BY <1>1, <1>2, <1>4, <1>5, <1>6, <1>7, <1>8, <1>9, <1>10, <1>11, <1>12, <1>13,
     FlushKeepsOrder, DeliveryKeepsOrder
  DEF Next, Report, Consume, Destroy, RunTimer, Stop

LEMMA InitOrder == Init => QueueInv
BY DEF Init, QueueInv

\* No event is lost, doubled or moved between the queue and the clients.
THEOREM DeliveredInOrder == Spec => []EventsInOrder
<1>1. QueueInv => EventsInOrder
  <2> SUFFICES ASSUME QueueInv PROVE EventsInOrder
    OBVIOUS
  <2>1. /\ batch \o mQueue \in Seq(Nat) /\ Len(batch \o mQueue) = Len(batch) + Len(mQueue)
        /\ \A i \in 1 .. Len(batch) + Len(mQueue) :
             (batch \o mQueue)[i] = IF i <= Len(batch) THEN batch[i] ELSE mQueue[i - Len(batch)]
    BY ConcatProperties DEF QueueInv
  <2>2. pushed - delivered = Len(batch) + Len(mQueue) /\ Len(batch) \in Nat /\ Len(mQueue) \in Nat
    BY LenProperties DEF QueueInv
  <2>3. \A i \in 1 .. Len(batch) + Len(mQueue) : (batch \o mQueue)[i] = delivered + i
    BY <2>1, <2>2 DEF QueueInv
  <2>4. batch \o mQueue = [i \in 1 .. Len(batch) + Len(mQueue) |-> (batch \o mQueue)[i]]
    BY <2>1, LenProperties
  <2> QED
    BY <2>2, <2>3, <2>4 DEF EventsInOrder
<1> QED
  BY <1>1, InitOrder, OrderKept, PTL DEF Spec

-----------------------------------------------------------------------------
(* The store: NewestIsStored also without the manager, with the types of   *)
(* what it talks of.  A writer that is about to push has stored its value, *)
(* so that what the store holds is no older.                               *)

ValuesOK ==
  /\ clock \in Time /\ mPropertyValues \in [Prop -> Time] /\ told \in [Prop -> Time]
  /\ wpc \in [Writer -> {"idle", "write", "push"}] /\ event \in [Writer -> EventOrNull]
  /\ \A w \in Writer : wpc[w] # "idle" => event[w] \in Event

StoredFirst ==
  \A w \in Writer : wpc[w] = "push" => event[w].time <= mPropertyValues[event[w].prop]

Tells(w, p) == wpc[w] = "push" /\ event[w] = [prop |-> p, time |-> mPropertyValues[p]]

NewestIsTold ==
  \A p \in Prop : \/ told[p] = mPropertyValues[p]
                  \/ told[p] < mPropertyValues[p] /\ \E w \in Writer : Tells(w, p)

StoreInv == ValuesOK /\ StoredFirst /\ NewestIsTold

LEMMA InitStore == Init => StoreInv
BY DEF Init, StoreInv, ValuesOK, StoredFirst, NewestIsTold

LEMMA ReportKeepsStore ==
  ASSUME StoreInv, NEW w \in Writer, NEW p \in Prop, onPropertyValue(w, p) PROVE StoreInv'
<1> USE DEF StoreInv, ValuesOK
<1>1. /\ clock + 1 \in Time /\ wpc[w] = "idle"
      /\ clock' = clock + 1 /\ wpc' = [wpc EXCEPT ![w] = "write"]
      /\ event' = [event EXCEPT ![w] = [prop |-> p, time |-> clock + 1]]
      /\ UNCHANGED <<mPropertyValues, told>>
  BY DEF onPropertyValue, Ticks, queue
<1>2. [prop |-> p, time |-> clock + 1] \in Event
  BY <1>1
<1>3. ValuesOK'
  BY <1>1, <1>2
<1>4. \A v \in Writer : v # w => wpc'[v] = wpc[v] /\ event'[v] = event[v]
  BY <1>1
<1>5. StoredFirst'
  BY <1>1, <1>4 DEF StoredFirst
<1>6. NewestIsTold'
  BY <1>1, <1>4 DEF NewestIsTold, Tells
<1> QED
  BY <1>3, <1>5, <1>6

LEMMA WriteKeepsStore == ASSUME StoreInv, NEW w \in Writer, writeValue(w) PROVE StoreInv'
<1> USE DEF StoreInv, ValuesOK
<1>1. /\ wpc[w] = "write" /\ event[w] \in Event /\ UNCHANGED <<clock, told>>
      /\ wpc' = [wpc EXCEPT ![w] = IF Outdated(event[w]) THEN "idle" ELSE "push"]
      /\ \A v \in Writer : v # w => event'[v] = event[v]
      /\ event' \in [Writer -> EventOrNull]
      /\ \A v \in Writer : v # w => wpc'[v] = wpc[v]
  BY DEF writeValue, queue
<1>2. CASE Outdated(event[w])
  <2>1. mPropertyValues' = mPropertyValues /\ wpc'[w] = "idle"
    BY <1>1, <1>2 DEF writeValue
  <2> QED
    BY <1>1, <2>1 DEF StoredFirst, NewestIsTold, Tells
<1>3. CASE ~Outdated(event[w])
  <2>0. PICK q \in Prop, t \in Time : q = event[w].prop /\ t = event[w].time
    BY <1>1
  <2>1. /\ mPropertyValues' = [mPropertyValues EXCEPT ![q] = t] /\ event' = event
        /\ wpc'[w] = "push"
    BY <1>1, <1>3, <2>0 DEF writeValue
  <2>2. mPropertyValues[q] <= t
    BY <1>1, <1>3, <2>0 DEF Outdated
  <2>3. mPropertyValues'[q] = t /\ \A p \in Prop : p # q => mPropertyValues'[p] = mPropertyValues[p]
    BY <2>1
  <2>4. ValuesOK'
    BY <1>1, <2>1
  <2>5. StoredFirst'
    BY <1>1, <2>0, <2>1, <2>2, <2>3 DEF StoredFirst
  <2>6. event[w] = [prop |-> q, time |-> t]
    BY <1>1, <2>0
  <2>7. Tells(w, q)'
    BY <2>1, <2>3, <2>6 DEF Tells
  <2>8. told[q] <= mPropertyValues[q]
    BY <2>1 DEF NewestIsTold
  <2>9. ASSUME NEW p \in Prop, p # q
        PROVE  \/ told'[p] = mPropertyValues'[p]
               \/ told'[p] < mPropertyValues'[p] /\ \E v \in Writer : Tells(v, p)'
    BY <1>1, <2>1, <2>3, <2>9 DEF NewestIsTold, Tells
  <2>10. told'[q] = mPropertyValues'[q] \/ told'[q] < mPropertyValues'[q]
    BY <1>1, <2>0, <2>1, <2>2, <2>3, <2>8
  <2>11. NewestIsTold'
    <3> SUFFICES ASSUME NEW p \in Prop
                 PROVE  \/ told'[p] = mPropertyValues'[p]
                        \/ told'[p] < mPropertyValues'[p] /\ \E v \in Writer : Tells(v, p)'
      BY DEF NewestIsTold
    <3>1. CASE p = q
      BY <2>7, <2>10, <3>1
    <3> QED
      BY <2>9, <3>1
  <2> QED
    BY <2>4, <2>5, <2>11
<1> QED
  BY <1>2, <1>3

LEMMA TellingKeepsStore == ASSUME StoreInv, NEW w \in Writer, doHalEvent(w) PROVE StoreInv'
<1> USE DEF StoreInv, ValuesOK
<1>0. event[w] \in Event /\ event[w].time <= mPropertyValues[event[w].prop]
  BY DEF doHalEvent, StoredFirst
<1>a. PICK q \in Prop, t \in Time : q = event[w].prop /\ t = event[w].time
  BY <1>0
<1>1. /\ event[w] = [prop |-> q, time |-> t] /\ t <= mPropertyValues[q]
      /\ wpc' = [wpc EXCEPT ![w] = "idle"] /\ event' = [event EXCEPT ![w] = NULL]
      /\ UNCHANGED <<clock, mPropertyValues>>
      /\ told' = IF t > told[q] THEN [told EXCEPT ![q] = t] ELSE told
  BY <1>0, <1>a DEF doHalEvent, Tell, store
<1>2. ValuesOK'
  BY <1>1
<1>3. \A v \in Writer : v # w => wpc'[v] = wpc[v] /\ event'[v] = event[v]
  BY <1>1
<1>4. StoredFirst'
  BY <1>1, <1>3 DEF StoredFirst
<1>5. \A v \in Writer, p \in Prop : v # w /\ Tells(v, p) => Tells(v, p)'
  BY <1>1, <1>3 DEF Tells
<1>6. \A p \in Prop : p # q => ~Tells(w, p) /\ told'[p] = told[p]
  BY <1>1 DEF Tells
<1>7. ASSUME NEW p \in Prop, p # q
      PROVE  \/ told'[p] = mPropertyValues'[p]
             \/ told'[p] < mPropertyValues'[p] /\ \E v \in Writer : Tells(v, p)'
  BY <1>1, <1>5, <1>6, <1>7 DEF NewestIsTold
<1>8. \/ told'[q] = mPropertyValues'[q]
      \/ told'[q] < mPropertyValues'[q] /\ \E v \in Writer : Tells(v, q)'
  <2>1. CASE t = mPropertyValues[q]
    <3>1. told[q] <= t
      BY <1>1, <2>1 DEF NewestIsTold
    <3> QED
      BY <1>1, <2>1, <3>1
  <2>2. CASE t # mPropertyValues[q]
    <3>1. ~Tells(w, q)
      BY <1>1, <2>2 DEF Tells
    <3>2. told'[q] \in {t, told[q]}
      BY <1>1
    <3>3. CASE told[q] = mPropertyValues[q]
      <4>1. ~(t > told[q])
        BY <1>1, <2>2, <3>3
      <4> QED
        BY <1>1, <3>3, <4>1
    <3>4. CASE told[q] < mPropertyValues[q] /\ \E v \in Writer : Tells(v, q)
      <4>1. told'[q] < mPropertyValues'[q]
        BY <1>1, <2>2, <3>2, <3>4
      <4>2. PICK v \in Writer : Tells(v, q)
        BY <3>4
      <4>3. Tells(v, q)'
        BY <1>1, <1>5, <3>1, <4>2
      <4> QED
        BY <4>1, <4>3
    <3> QED
      BY <1>1, <3>3, <3>4 DEF NewestIsTold
  <2> QED
    BY <2>1, <2>2
<1>9. NewestIsTold'
  <2> SUFFICES ASSUME NEW p \in Prop
               PROVE  \/ told'[p] = mPropertyValues'[p]
                      \/ told'[p] < mPropertyValues'[p] /\ \E v \in Writer : Tells(v, p)'
    BY DEF NewestIsTold
  <2>1. CASE p = q
    BY <1>8, <2>1
  <2> QED
    BY <1>7, <2>1
<1> QED
  BY <1>2, <1>4, <1>9

\* What the timer holds was in the store, which is no older since.
SampleInv ==
  /\ sample \in EventOrNull
  /\ tpc = "push" => sample \in Event /\ sample.time <= mPropertyValues[sample.prop]

LEMMA SamplingKeepsStore ==
  ASSUME StoreInv, SampleInv, onContinuousPropertyTimer PROVE StoreInv'
<1> USE DEF StoreInv, ValuesOK
<1>0. PICK q \in Prop, t \in Time :
        q = sample.prop /\ t = sample.time /\ t <= mPropertyValues[q]
  BY DEF onContinuousPropertyTimer, SampleInv
<1>1. /\ UNCHANGED <<clock, mPropertyValues, wpc, event>>
      /\ told' = IF t > told[q] THEN [told EXCEPT ![q] = t] ELSE told
  BY <1>0 DEF onContinuousPropertyTimer, Tell, store, writers
<1>2. ValuesOK' /\ StoredFirst'
  BY <1>1 DEF StoredFirst
<1>3. ASSUME NEW p \in Prop
      PROVE  \/ told'[p] = mPropertyValues'[p]
             \/ told'[p] < mPropertyValues'[p] /\ \E w \in Writer : Tells(w, p)'
  <2>1. \A w \in Writer : Tells(w, p) => Tells(w, p)'
    BY <1>1 DEF Tells
  <2>2. CASE told[p] = mPropertyValues[p]
    <3>1. told'[p] = told[p]
      BY <1>0, <1>1, <2>2
    <3> QED
      BY <1>1, <2>2, <3>1
  <2>3. CASE told[p] < mPropertyValues[p] /\ \E w \in Writer : Tells(w, p)
    <3>1. told'[p] <= mPropertyValues[p] /\ told'[p] \in Time
      BY <1>0, <1>1, <2>3
    <3> QED
      BY <1>1, <2>1, <2>3, <3>1
  <2> QED
    BY <2>2, <2>3 DEF NewestIsTold
<1> QED
  BY <1>2, <1>3 DEF NewestIsTold

LEMMA SampleKept == ASSUME StoreInv, SampleInv, [Next]_vars PROVE SampleInv'
<1> USE DEF SampleInv, store, thread
<1>1. ASSUME NEW w \in Writer, NEW p \in Prop, onPropertyValue(w, p) PROVE SampleInv'
  BY <1>1 DEF onPropertyValue
<1>2. ASSUME NEW w \in Writer, writeValue(w) PROVE SampleInv'
  <2>1. ASSUME NEW p \in Prop PROVE mPropertyValues[p] <= mPropertyValues'[p]
    BY <1>2, <2>1 DEF writeValue, Outdated, StoreInv, ValuesOK
  <2>2. /\ UNCHANGED <<sample, tpc>>
        /\ \A p \in Prop : mPropertyValues[p] \in Time /\ mPropertyValues'[p] \in Time
    BY <1>2 DEF writeValue, StoreInv, ValuesOK
  <2> QED
    BY <2>1, <2>2
<1>3. ASSUME NEW w \in Writer, doHalEvent(w) PROVE SampleInv'
  BY <1>3 DEF doHalEvent
<1>4. ASSUME Consume PROVE SampleInv'
  BY <1>4 DEF Consume, starts, waitForItems, sleeps, flush, onBatchHalEvent
<1>5. ASSUME requestStop \/ deactivate \/ waitStopped PROVE SampleInv'
  BY <1>5 DEF requestStop, deactivate, waitStopped
<1>6. ASSUME NEW p \in Continuous,
             registerRecurrentEvent(p) \/ unregisterRecurrentEvent(p) \/ Elapses(p)
      PROVE  SampleInv'
  BY <1>6 DEF registerRecurrentEvent, unregisterRecurrentEvent, Elapses
<1>7. ASSUME NEW behind \in SUBSET Continuous, collect(behind) PROVE SampleInv'
  BY <1>7 DEF collect
<1>8. ASSUME onContinuousPropertyTimer PROVE SampleInv'
  BY <1>8 DEF onContinuousPropertyTimer
<1>9. ASSUME NEW p \in Continuous, readValueOrNull(p) PROVE SampleInv'
  BY <1>9, PropAssumption DEF readValueOrNull, StoreInv, ValuesOK
<1>10. ASSUME acted \/ waits \/ wait_until \/ SpuriousWakeup PROVE SampleInv'
  BY <1>10 DEF acted, waits, wait_until, SpuriousWakeup, Wakes
<1>11. ASSUME stop \/ clear \/ join PROVE SampleInv'
  BY <1>11 DEF stop, clear, join
<1>12. ASSUME UNCHANGED vars PROVE SampleInv'
  BY <1>12 DEF vars
<1> QED
  BY <1>1, <1>2, <1>3, <1>4, <1>5, <1>6, <1>7, <1>8, <1>9, <1>10, <1>11, <1>12
  DEF Next, Report, Destroy, RunTimer, Stop

LEMMA StoreKept == ASSUME StoreInv, SampleInv, [Next]_vars PROVE StoreInv'
<1>1. ASSUME UNCHANGED <<store, writers, told>> PROVE StoreInv'
  BY <1>1 DEF StoreInv, ValuesOK, StoredFirst, NewestIsTold, Tells, store, writers
<1>2. ASSUME Consume PROVE StoreInv'
  BY <1>1, <1>2 DEF Consume, starts, waitForItems, sleeps, flush, onBatchHalEvent, queue
<1>3. ASSUME requestStop \/ deactivate \/ waitStopped PROVE StoreInv'
  BY <1>1, <1>3 DEF requestStop, deactivate, waitStopped, queue
<1>4. ASSUME NEW p \in Continuous,
             registerRecurrentEvent(p) \/ unregisterRecurrentEvent(p) \/ Elapses(p)
      PROVE  StoreInv'
  BY <1>1, <1>4 DEF registerRecurrentEvent, unregisterRecurrentEvent, Elapses, queue
<1>5. ASSUME NEW behind \in SUBSET Continuous, collect(behind) PROVE StoreInv'
  BY <1>1, <1>5 DEF collect, queue
<1>6. ASSUME NEW p \in Continuous, readValueOrNull(p) PROVE StoreInv'
  BY <1>1, <1>6 DEF readValueOrNull, queue
<1>7. ASSUME acted \/ waits \/ wait_until \/ SpuriousWakeup PROVE StoreInv'
  BY <1>1, <1>7 DEF acted, waits, wait_until, SpuriousWakeup, Wakes, queue
<1>8. ASSUME stop \/ clear \/ join PROVE StoreInv'
  BY <1>1, <1>8 DEF stop, clear, join, queue
<1>9. ASSUME UNCHANGED vars PROVE StoreInv'
  BY <1>1, <1>9 DEF vars, queue
<1> QED
  BY <1>2, <1>3, <1>4, <1>5, <1>6, <1>7, <1>8, <1>9, ReportKeepsStore, WriteKeepsStore,
     TellingKeepsStore, SamplingKeepsStore
  DEF Next, Report, Destroy, RunTimer, Stop

LEMMA StoreCorrect == Spec => [](StoreInv /\ SampleInv)
<1>1. Init => SampleInv
  BY DEF Init, SampleInv
<1>2. (StoreInv /\ SampleInv) /\ [Next]_vars => (StoreInv /\ SampleInv)'
  BY StoreKept, SampleKept
<1> QED
  BY <1>1, <1>2, InitStore, PTL DEF Spec

\* Whatever the order in which writers store and push and the timer reads and
\* pushes, the newest value pushed for a property is the one in the store, or a
\* writer is about to push that.  The last event may be a sample with an older one.
THEOREM StoreIsTold == Spec => []NewestIsStored
<1>1. StoreInv => NewestIsStored
  BY DEF StoreInv, NewestIsTold, Tells, NewestIsStored
<1> QED
  BY <1>1, StoreCorrect, PTL DEF Spec

-----------------------------------------------------------------------------
(* Types: what the queue and the store leave out *)

CountersOK ==
  /\ mState \in {"INIT", "RUNNING", "STOP_REQUESTED", "STOPPED"}
  /\ cpc \in {"start", "wait", "sleep", "flush", "deliver", "done"}
  /\ mpc \in {"up", "deactivate", "join", "gone"} /\ hpc \in {"up", "clear", "join", "gone"}
  /\ timers \in [Continuous -> {"off", "later", "due"}]
  /\ tpc \in {"collect", "act", "push", "wait", "asleep", "done"}
  /\ cookies \subseteq Continuous /\ late \subseteq Continuous
  /\ next \in {"never", "later", "past"}
  /\ elapsed \in 0 .. MAX_ELAPSED /\ calls \in 0 .. MAX_CALLS

BooleansOK == mIsActive \in BOOLEAN /\ mStopRequested \in BOOLEAN /\ notified \in BOOLEAN

LEMMA CountersKept == ASSUME CountersOK, [Next]_vars PROVE CountersOK'
<1> USE DEF CountersOK, consumer, timer, thread, counts
<1>1. ASSUME NEW w \in Writer, NEW p \in Prop, onPropertyValue(w, p) PROVE CountersOK'
  BY <1>1 DEF onPropertyValue
<1>2. ASSUME NEW w \in Writer, writeValue(w) \/ doHalEvent(w) PROVE CountersOK'
  BY <1>2 DEF writeValue, doHalEvent
<1>3. ASSUME Consume PROVE CountersOK'
  BY <1>3 DEF Consume, starts, waitForItems, sleeps, flush, onBatchHalEvent, GoesOn
<1>4. ASSUME requestStop \/ deactivate \/ waitStopped PROVE CountersOK'
  BY <1>4 DEF requestStop, deactivate, waitStopped
<1>5. ASSUME NEW p \in Continuous,
             registerRecurrentEvent(p) \/ unregisterRecurrentEvent(p) \/ Elapses(p)
      PROVE  CountersOK'
  BY <1>5 DEF registerRecurrentEvent, unregisterRecurrentEvent, Elapses
<1>6. ASSUME NEW behind \in SUBSET Continuous, collect(behind) PROVE CountersOK'
  <2>1. timers' \in [Continuous -> {"off", "later", "due"}] /\ cookies' \subseteq Continuous
    BY <1>6 DEF collect, Due
  <2>2. elapsed' \in 0 .. MAX_ELAPSED
    BY <1>6 DEF collect, Behind
  <2>3. tpc' \in {"act", "wait"} /\ next' \in {"never", "later", "past"} /\ late' = {}
    BY <1>6 DEF collect, nextEventTime
  <2> QED
    BY <1>6, <2>1, <2>2, <2>3 DEF collect
<1>7. ASSUME onContinuousPropertyTimer \/ \E p \in Continuous : readValueOrNull(p)
      PROVE  CountersOK'
  BY <1>7 DEF onContinuousPropertyTimer, readValueOrNull
<1>8. ASSUME acted \/ waits \/ wait_until \/ SpuriousWakeup PROVE CountersOK'
  BY <1>8 DEF acted, waits, wait_until, SpuriousWakeup, Wakes
<1>9. ASSUME stop \/ clear \/ join PROVE CountersOK'
  BY <1>9 DEF stop, clear, join
<1>10. ASSUME UNCHANGED vars PROVE CountersOK'
  BY <1>10 DEF vars
<1> QED
  BY <1>1, <1>2, <1>3, <1>4, <1>5, <1>6, <1>7, <1>8, <1>9, <1>10
  DEF Next, Report, Destroy, RunTimer, Stop

\* Booleans are for Zenon.
LEMMA BooleansKept == ASSUME BooleansOK, [Next]_vars PROVE BooleansOK'
<1> USE DEF BooleansOK, queue, timer, thread
<1>1. ASSUME NEW w \in Writer, NEW p \in Prop, onPropertyValue(w, p) PROVE BooleansOK'
  BY <1>1, Zenon DEF onPropertyValue
<1>2. ASSUME NEW w \in Writer, writeValue(w) \/ doHalEvent(w) PROVE BooleansOK'
  BY <1>2, Zenon DEF writeValue, doHalEvent
<1>3. ASSUME Consume PROVE BooleansOK'
  BY <1>3, Zenon DEF Consume, starts, waitForItems, sleeps, flush, onBatchHalEvent
<1>4. ASSUME requestStop \/ deactivate \/ waitStopped PROVE BooleansOK'
  BY <1>4, Zenon DEF requestStop, deactivate, waitStopped
<1>5. ASSUME NEW p \in Continuous,
             registerRecurrentEvent(p) \/ unregisterRecurrentEvent(p) \/ Elapses(p)
      PROVE  BooleansOK'
  BY <1>5, Zenon DEF registerRecurrentEvent, unregisterRecurrentEvent, Elapses
<1>6. ASSUME NEW behind \in SUBSET Continuous, collect(behind) PROVE BooleansOK'
  BY <1>6, Zenon DEF collect
<1>7. ASSUME onContinuousPropertyTimer \/ \E p \in Continuous : readValueOrNull(p)
      PROVE  BooleansOK'
  BY <1>7, Zenon DEF onContinuousPropertyTimer, readValueOrNull
<1>8. ASSUME acted \/ waits \/ wait_until \/ SpuriousWakeup PROVE BooleansOK'
  BY <1>8, Zenon DEF acted, waits, wait_until, SpuriousWakeup, Wakes
<1>9. ASSUME stop \/ clear \/ join PROVE BooleansOK'
  BY <1>9, Zenon DEF stop, clear, join
<1>10. ASSUME UNCHANGED vars PROVE BooleansOK'
  BY <1>10 DEF vars
<1> QED
  BY <1>1, <1>2, <1>3, <1>4, <1>5, <1>6, <1>7, <1>8, <1>9, <1>10
  DEF Next, Report, Destroy, RunTimer, Stop

\* Every variable keeps its type, for any properties, writers and bounds.
THEOREM TypeCorrect == Spec => []TypeOK
<1>1. Init => CountersOK
  BY DEF Init, CountersOK
<1>0. Init => BooleansOK
  BY Zenon DEF Init, BooleansOK
<1>2. QueueInv /\ StoreInv /\ SampleInv /\ CountersOK /\ BooleansOK => TypeOK
  BY DEF QueueInv, StoreInv, ValuesOK, SampleInv, CountersOK, BooleansOK, TypeOK
<1> QED
  BY <1>0, <1>1, <1>2, InitOrder, OrderKept, StoreCorrect, CountersKept, BooleansKept, PTL
  DEF Spec

-----------------------------------------------------------------------------
(* What liveness rests on.  That events are delivered, that the destructor     *)
(* returns and that seen events fire is checked on an instance; proved is that *)
(* no stop is forgotten, that the consumer does not turn back from a queue     *)
(* with events in it, and that the timer's thread does not sleep over one.     *)

ConsumerInv ==
  /\ cpc = "deliver" => batch # <<>>
  /\ cpc = "start" => mState # "RUNNING"
  /\ mpc = "up" => mState \in {"INIT", "RUNNING"} /\ mIsActive
  /\ mpc # "up" => mState \in {"STOP_REQUESTED", "STOPPED"}
  /\ mState = "STOPPED" <=> cpc = "done"
  /\ mpc = "deactivate" => mIsActive
  /\ mpc \in {"join", "gone"} => ~mIsActive

LEMMA ConsumerKept == ASSUME CountersOK, ConsumerInv, [Next]_vars PROVE ConsumerInv'
<1> USE DEF ConsumerInv, queue, consumer
<1>1. ASSUME NEW w \in Writer, NEW p \in Prop, onPropertyValue(w, p) PROVE ConsumerInv'
  BY <1>1 DEF onPropertyValue
<1>2. ASSUME NEW w \in Writer, writeValue(w) \/ doHalEvent(w) PROVE ConsumerInv'
  BY <1>2 DEF writeValue, doHalEvent
<1>3. CASE starts
  BY <1>3 DEF starts, CountersOK
<1>4. CASE waitForItems \/ sleeps
  BY <1>4 DEF waitForItems, sleeps, GoesOn
<1>5. CASE flush \/ onBatchHalEvent
  BY <1>5 DEF flush, Taken, onBatchHalEvent, GoesOn
<1>6. CASE requestStop
  BY <1>6 DEF requestStop
<1>7. CASE deactivate \/ waitStopped
  BY <1>7 DEF deactivate, waitStopped, CountersOK
<1>8. ASSUME NEW p \in Continuous,
             registerRecurrentEvent(p) \/ unregisterRecurrentEvent(p) \/ Elapses(p)
      PROVE  ConsumerInv'
  BY <1>8 DEF registerRecurrentEvent, unregisterRecurrentEvent, Elapses
<1>9. ASSUME NEW behind \in SUBSET Continuous, collect(behind) PROVE ConsumerInv'
  BY <1>9 DEF collect
<1>10. ASSUME onContinuousPropertyTimer \/ \E p \in Continuous : readValueOrNull(p)
      PROVE  ConsumerInv'
  BY <1>10 DEF onContinuousPropertyTimer, readValueOrNull
<1>11. CASE acted \/ waits \/ wait_until \/ SpuriousWakeup
  BY <1>11 DEF acted, waits, wait_until, SpuriousWakeup, Wakes
<1>12. CASE stop \/ clear \/ join
  BY <1>12 DEF stop, clear, join
<1>13. CASE UNCHANGED vars
  BY <1>13 DEF vars
<1> QED
  BY <1>1, <1>2, <1>3, <1>4, <1>5, <1>6, <1>7, <1>8, <1>9, <1>10, <1>11, <1>12, <1>13
  DEF Next, Report, Consume, Destroy, RunTimer, Stop

LEMMA ConsumerCorrect == Spec => [](CountersOK /\ ConsumerInv)
<1>0. Init => CountersOK
  BY DEF Init, CountersOK
<1>1. Init => ConsumerInv
  BY DEF Init, ConsumerInv
<1>2. (CountersOK /\ ConsumerInv) /\ [Next]_vars => (CountersOK /\ ConsumerInv)'
  BY CountersKept, ConsumerKept
<1> QED
  BY <1>0, <1>1, <1>2, PTL DEF Spec

\* Only the consumer moves the consumer.
LEMMA OnlyConsume ==
  ASSUME [Next]_vars, ~UNCHANGED cpc PROVE Consume
<1> USE DEF consumer
<1>1. ASSUME NEW w \in Writer, NEW p \in Prop, onPropertyValue(w, p) PROVE UNCHANGED cpc
  BY <1>1 DEF onPropertyValue
<1>2. ASSUME NEW w \in Writer, writeValue(w) \/ doHalEvent(w) PROVE UNCHANGED cpc
  BY <1>2 DEF writeValue, doHalEvent
<1>3. ASSUME requestStop \/ deactivate \/ waitStopped PROVE UNCHANGED cpc
  BY <1>3 DEF requestStop, deactivate, waitStopped
<1>4. ASSUME NEW p \in Continuous,
             registerRecurrentEvent(p) \/ unregisterRecurrentEvent(p) \/ Elapses(p)
      PROVE  UNCHANGED cpc
  BY <1>4 DEF registerRecurrentEvent, unregisterRecurrentEvent, Elapses
<1>5. ASSUME NEW behind \in SUBSET Continuous, collect(behind) PROVE UNCHANGED cpc
  BY <1>5 DEF collect
<1>6. ASSUME onContinuousPropertyTimer \/ \E p \in Continuous : readValueOrNull(p)
      PROVE  UNCHANGED cpc
  BY <1>6 DEF onContinuousPropertyTimer, readValueOrNull
<1>7. ASSUME acted \/ waits \/ wait_until \/ SpuriousWakeup PROVE UNCHANGED cpc
  BY <1>7 DEF acted, waits, wait_until, SpuriousWakeup, Wakes
<1>8. ASSUME stop \/ clear \/ join PROVE UNCHANGED cpc
  BY <1>8 DEF stop, clear, join
<1>9. ASSUME UNCHANGED vars PROVE UNCHANGED cpc
  BY <1>9 DEF vars
<1> QED
  BY <1>1, <1>2, <1>3, <1>4, <1>5, <1>6, <1>7, <1>8, <1>9 DEF Next, Report, Destroy, RunTimer, Stop

\* The destructor does not wait in vain, also when it comes before the thread has
\* started: while it waits the stop is still requested or was obeyed, the queue no
\* longer holds the thread up, and the next step of the thread is its last.
THEOREM StopIsNotForgotten ==
  Spec => /\ [](mpc = "join" => (mState = "STOP_REQUESTED" \/ cpc = "done") /\ ~mIsActive)
          /\ [][mpc = "join" => UNCHANGED cpc \/ cpc' = "done"]_vars
<1>1. ConsumerInv => (mpc = "join" => (mState = "STOP_REQUESTED" \/ cpc = "done") /\ ~mIsActive)
  BY DEF ConsumerInv
<1>2. ASSUME ConsumerInv, [Next]_vars, mpc = "join", ~UNCHANGED cpc PROVE cpc' = "done"
  <2>1. Consume /\ ~mIsActive /\ (mState = "STOP_REQUESTED" \/ cpc = "done")
    BY <1>2, OnlyConsume DEF ConsumerInv
  <2>2. CASE starts
    BY <1>2, <2>1, <2>2 DEF starts, ConsumerInv
  <2>3. CASE waitForItems \/ sleeps
    BY <1>2, <2>1, <2>3 DEF waitForItems, sleeps, GoesOn
  <2>4. CASE flush \/ onBatchHalEvent
    BY <1>2, <2>1, <2>4 DEF flush, onBatchHalEvent, GoesOn
  <2> QED
    BY <2>1, <2>2, <2>3, <2>4 DEF Consume
<1>3. ConsumerInv /\ [Next]_vars => (mpc = "join" => UNCHANGED cpc \/ cpc' = "done")
  BY <1>2
<1> QED
  BY <1>1, <1>3, ConsumerCorrect, PTL DEF Spec

\* the steps the consumer is from delivering what is in the queue
StepsToDelivery ==
  CASE cpc = "start" -> 4 [] cpc = "wait" -> 3 [] cpc = "sleep" -> 2 [] cpc = "flush" -> 1
    [] cpc \in {"deliver", "done"} -> 0

\* While the manager lives its consumer does, and with events in the queue each
\* step takes the consumer closer to their delivery: it waits for no event more.
THEOREM QueueIsWorkedOff ==
  Spec => /\ [](mpc = "up" => cpc # "done" /\ mIsActive)
          /\ [][mpc = "up" /\ mQueue # <<>> =>
                  \/ UNCHANGED cpc
                  \/ StepsToDelivery' < StepsToDelivery
                  \/ cpc = "deliver" /\ batch # <<>>]_vars
<1> DEFINE Closer == mpc = "up" /\ mQueue # <<>> =>
                       \/ UNCHANGED cpc
                       \/ StepsToDelivery' < StepsToDelivery
                       \/ cpc = "deliver" /\ batch # <<>>
<1>1. ConsumerInv => (mpc = "up" => cpc # "done" /\ mIsActive)
  BY DEF ConsumerInv
<1>2. ASSUME ConsumerInv, [Next]_vars PROVE Closer
  <2> SUFFICES ASSUME mpc = "up", mQueue # <<>>, ~UNCHANGED cpc, cpc # "deliver"
               PROVE  StepsToDelivery' < StepsToDelivery
    BY <1>2 DEF ConsumerInv
  <2>1. Consume /\ mState \in {"INIT", "RUNNING"} /\ mIsActive
    BY <1>2, OnlyConsume DEF ConsumerInv
  <2>2. CASE starts
    BY <1>2, <2>1, <2>2 DEF starts, StepsToDelivery
  <2>3. CASE waitForItems \/ sleeps
    BY <2>1, <2>3 DEF waitForItems, sleeps, GoesOn, StepsToDelivery
  <2>4. CASE flush
    BY <2>1, <2>4 DEF flush, StepsToDelivery
  <2>5. CASE onBatchHalEvent
    BY <2>5 DEF onBatchHalEvent
  <2> QED
    BY <2>1, <2>2, <2>3, <2>4, <2>5 DEF Consume
<1> QED
  BY <1>1, <1>2, ConsumerCorrect, PTL DEF Spec

SeenInv == \A p \in Continuous : timers[p] # "off" /\ p \notin late => next # "never"

LEMMA SeenKept == ASSUME CountersOK, SeenInv, [Next]_vars PROVE SeenInv'
<1> USE DEF SeenInv, timer, thread
<1>1. ASSUME NEW w \in Writer, NEW p \in Prop, onPropertyValue(w, p) PROVE SeenInv'
  BY <1>1 DEF onPropertyValue
<1>2. ASSUME NEW w \in Writer, writeValue(w) \/ doHalEvent(w) PROVE SeenInv'
  BY <1>2 DEF writeValue, doHalEvent
<1>3. CASE Consume
  BY <1>3 DEF Consume, starts, waitForItems, sleeps, flush, onBatchHalEvent
<1>4. CASE requestStop \/ deactivate \/ waitStopped
  BY <1>4 DEF requestStop, deactivate, waitStopped
<1>5. ASSUME NEW p \in Continuous, registerRecurrentEvent(p) PROVE SeenInv'
  BY <1>5 DEF registerRecurrentEvent, CountersOK
<1>6. ASSUME NEW p \in Continuous, unregisterRecurrentEvent(p) PROVE SeenInv'
  BY <1>6 DEF unregisterRecurrentEvent, CountersOK
<1>7. ASSUME NEW p \in Continuous, Elapses(p) PROVE SeenInv'
  BY <1>7 DEF Elapses, CountersOK
<1>8. ASSUME NEW behind \in SUBSET Continuous, collect(behind) PROVE SeenInv'
  BY <1>8 DEF collect, nextEventTime
<1>9. ASSUME onContinuousPropertyTimer \/ \E p \in Continuous : readValueOrNull(p)
      PROVE  SeenInv'
  BY <1>9 DEF onContinuousPropertyTimer, readValueOrNull
<1>10. CASE acted \/ waits \/ wait_until \/ SpuriousWakeup
  BY <1>10 DEF acted, waits, wait_until, SpuriousWakeup, Wakes
<1>11. CASE stop \/ clear \/ join
  BY <1>11 DEF stop, clear, join
<1>12. CASE UNCHANGED vars
  BY <1>12 DEF vars
<1> QED
  BY <1>1, <1>2, <1>3, <1>4, <1>5, <1>6, <1>7, <1>8, <1>9, <1>10, <1>11, <1>12
  DEF Next, Report, Destroy, RunTimer, Stop

\* The timer's thread never sleeps without end over an event it has seen: only one
\* that was registered since it looked can be missed.
THEOREM SeenEventsAreAwaited == Spec => []SeenInv
<1>0. Init => CountersOK
  BY DEF Init, CountersOK
<1>1. Init => SeenInv
  BY DEF Init, SeenInv
<1>2. (CountersOK /\ SeenInv) /\ [Next]_vars => (CountersOK /\ SeenInv)'
  BY CountersKept, SeenKept
<1> QED
  BY <1>0, <1>1, <1>2, PTL DEF Spec
=============================================================================
