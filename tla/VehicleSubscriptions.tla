------------------------ MODULE VehicleSubscriptions ------------------------
(***************************************************************************)
(* Subscriptions to the vehicle's properties: SubscriptionManager.cpp and  *)
(* the calls of VehicleHalManager.cpp that use it (src/vehicle/common/src),*)
(* with the HAL below them, EmulatedVehicleHal.cpp, which keeps a timer    *)
(* for each property it was asked to report.                               *)
(*                                                                         *)
(* Binder threads serve the calls of the clients and the notices of their  *)
(* deaths.  mLock guards the manager: what runs under it is one step.      *)
(* mHal->subscribe() is called after the lock is released,                 *)
(* mHal->unsubscribe() before.                                             *)
(***************************************************************************)
EXTENDS Integers, FiniteSets

CONSTANTS
  Client,      \* callbacks of the clients
  Prop,        \* properties, sampled continuously
  Rate,        \* sample rates
  Request,     \* what subscribe() may be called with: options by property
  Thread,      \* binder threads
  MAX_CALLS,   \* bound: calls of clients
  NONE

Flag == {"car", "android"}
Options == [flags : SUBSET Flag \ {{}}, rate : Rate]
OptionsOrNone == Options \union {NONE}

\* NONE is no options, no client, no thread, and the rate of a property without a timer.
ASSUME RateAssumption == Rate \subseteq Nat \ {0} /\ MAX_CALLS \in Nat
ASSUME NoneAssumption == NONE \notin Options \union Client \union Rate \union Thread
ASSUME RequestAssumption ==
  \A o \in Request : o \in [Prop -> OptionsOrNone] /\ \E p \in Prop : o[p] # NONE

VARIABLES
  process,          \* of each client: "alive", "dead", or "noticed" dead
  mClients,         \* clients known, linked to death
  mSubscriptions,   \* HalClient::mSubscriptions of each
  mPropToClients, mHalEventSubscribeOptions,
  mCookieToEventsMap,   \* the HAL's timers: the rate of each property, or NONE
  pc, caller,       \* of each thread: what it is about to do, for whom,
  request,          \*   the options it was called with,
  todo,             \*   the properties left to unsubscribe,
  updated,          \*   and the rates left to tell the HAL
  calls,            \* calls made so far
  asked,            \* history: the rates each client asked for and did not unsubscribe
  overlap,          \* history: clients a call of whom was running when they died
  teller            \* history: the thread with the newest rate of each property, or
                    \*   NONE once the HAL was told an older one after it

manager == <<mClients, mSubscriptions, mPropToClients, mHalEventSubscribeOptions>>
threads == <<pc, caller, request, todo, updated>>
history == <<asked, overlap, teller>>
vars == <<process, manager, mCookieToEventsMap, threads, calls, history>>

Nothing == [p \in Prop |-> NONE]
NoFlag == [flag \in Flag |-> NONE]

Init ==
  /\ process = [c \in Client |-> "alive"]
  /\ mClients = {} /\ mSubscriptions = [c \in Client |-> Nothing]
  /\ mPropToClients = [p \in Prop |-> {}] /\ mHalEventSubscribeOptions = Nothing
  /\ mCookieToEventsMap = Nothing
  /\ pc = [t \in Thread |-> "idle"] /\ caller = [t \in Thread |-> NONE]
  /\ request = [t \in Thread |-> Nothing] /\ todo = [t \in Thread |-> {}]
  /\ updated = [t \in Thread |-> Nothing]
  /\ calls = 0
  /\ asked = [c \in Client |-> [p \in Prop |-> NoFlag]] /\ overlap = {} /\ teller = Nothing

\* A thread whose call is over.
Returns(t) ==
  /\ pc' = [pc EXCEPT ![t] = "idle"] /\ caller' = [caller EXCEPT ![t] = NONE]
  /\ request' = [request EXCEPT ![t] = Nothing]

-----------------------------------------------------------------------------
(* The clients *)

Dies(c) ==
  /\ process[c] = "alive"
  /\ process' = [process EXCEPT ![c] = "dead"]
  /\ UNCHANGED <<manager, mCookieToEventsMap, threads, calls, history>>

\* The options are verified before the lock is taken.
subscribe(t, c, options) ==
  /\ pc[t] = "idle" /\ process[c] = "alive" /\ calls < MAX_CALLS
  /\ calls' = calls + 1
  /\ pc' = [pc EXCEPT ![t] = "subscribe"] /\ caller' = [caller EXCEPT ![t] = c]
  /\ request' = [request EXCEPT ![t] = options]
  /\ UNCHANGED <<process, manager, mCookieToEventsMap, todo, updated, history>>

unsubscribe(t, c, p) ==
  /\ pc[t] = "idle" /\ process[c] = "alive" /\ calls < MAX_CALLS
  /\ calls' = calls + 1
  /\ pc' = [pc EXCEPT ![t] = "unsubscribe"] /\ caller' = [caller EXCEPT ![t] = c]
  /\ todo' = [todo EXCEPT ![t] = {p}]
  /\ UNCHANGED <<process, manager, mCookieToEventsMap, request, updated, history>>

-----------------------------------------------------------------------------
(* SubscriptionManager::addOrUpdateSubscription, and mHal->subscribe *)

\* Mutant: the rate of the last subscription wins.
mergeLatest(old, new) ==
  IF old = NONE THEN new ELSE [flags |-> old.flags \union new.flags, rate |-> new.rate]

\* Mutant: the flags of the last subscription win.
mergeReplacing(old, new) ==
  IF old = NONE THEN new
  ELSE [flags |-> new.flags, rate |-> IF old.rate > new.rate THEN old.rate ELSE new.rate]

mergeSubscribeOptions(old, new) ==
  IF old = NONE THEN new
  ELSE [flags |-> old.flags \union new.flags,
        rate |-> IF old.rate > new.rate THEN old.rate ELSE new.rate]

\* The options of a client, or of the HAL, after a request.
Merged(old, options) ==
  [p \in Prop |-> IF options[p] = NONE THEN old[p] ELSE mergeSubscribeOptions(old[p], options[p])]

\* The rates a client has a right to, once it also asked for the options.
AsksAlso(old, options) ==
  [p \in Prop |-> [flag \in Flag |->
    IF options[p] = NONE \/ flag \notin options[p].flags THEN old[p][flag]
    ELSE IF old[p][flag] = NONE \/ old[p][flag] < options[p].rate THEN options[p].rate
    ELSE old[p][flag]]]

\* The HAL is only asked for what the car reports.
FromCar(options) ==
  [p \in Prop |-> IF options[p] # NONE /\ "car" \in options[p].flags THEN options[p] ELSE NONE]

\* A callback known to be dead cannot be linked to its death.
CannotLink(c) == c \notin mClients /\ process[c] = "noticed"

subscribeFails(t) ==
  /\ pc[t] = "subscribe" /\ CannotLink(caller[t])
  /\ Returns(t)
  /\ UNCHANGED <<process, manager, mCookieToEventsMap, todo, updated, calls, history>>

\* What updateHalEventSubscriptionLocked finds changed.
Updated(old, new) ==
  [p \in Prop |-> IF new[p] # NONE /\ new[p] # old[p] THEN new[p].rate ELSE NONE]

addOrUpdateSubscription(t) ==
  LET c == caller[t]
      hal == Merged(mHalEventSubscribeOptions, FromCar(request[t]))
  IN /\ pc[t] = "subscribe" /\ ~CannotLink(c)
     /\ mClients' = mClients \union {c}
     /\ mSubscriptions' = [mSubscriptions EXCEPT ![c] = Merged(mSubscriptions[c], request[t])]
     /\ mPropToClients' = [p \in Prop |-> IF request[t][p] # NONE THEN mPropToClients[p] \union {c}
                                          ELSE mPropToClients[p]]
     /\ mHalEventSubscribeOptions' = hal
     /\ updated' = [updated EXCEPT ![t] = Updated(mHalEventSubscribeOptions, hal)]
     /\ pc' = [pc EXCEPT ![t] = "hal"]
     /\ asked' = [asked EXCEPT ![c] = AsksAlso(asked[c], request[t])]
     /\ teller' = [p \in Prop |-> IF updated'[t][p] # NONE THEN t ELSE teller[p]]
     /\ UNCHANGED <<process, mCookieToEventsMap, caller, request, todo, calls, overlap>>

\* The HAL was told the newest rate of the property, by another thread.
Told(t, p) == teller[p] # t /\ teller[p] # NONE /\ updated[teller[p]][p] = NONE

\* Without the lock: threads may tell the HAL in the other order.
halSubscribe(t, p) ==
  /\ pc[t] = "hal" /\ updated[t][p] # NONE
  /\ mCookieToEventsMap' = [mCookieToEventsMap EXCEPT ![p] = updated[t][p]]
  /\ updated' = [updated EXCEPT ![t] = [updated[t] EXCEPT ![p] = NONE]]
  /\ teller' = IF Told(t, p) THEN [teller EXCEPT ![p] = NONE] ELSE teller
  /\ UNCHANGED <<process, manager, pc, caller, request, todo, calls, asked, overlap>>

subscribeReturns(t) ==
  /\ pc[t] = "hal" /\ updated[t] = Nothing
  /\ Returns(t)
  /\ UNCHANGED <<process, manager, mCookieToEventsMap, todo, updated, calls, history>>

-----------------------------------------------------------------------------
(* SubscriptionManager::unsubscribe and onCallbackDead *)

ClientsWithout(c, p) == [mPropToClients EXCEPT ![p] = mPropToClients[p] \ {c}]

\* Mutant: a client is forgotten when nobody has any property.
ForgottenLast(c, clients) == \A p \in Prop : clients[p] = {}

\* A client without any property is unlinked and forgotten.
Forgotten(c, clients) == \A p \in Prop : c \notin clients[p]

\* Nobody is subscribed to the property any more.
Unused(p, clients) == clients[p] = {}

\* A client that is not known has no properties; the HAL is told in any case.
unsubscribeLocked(t, p) ==
  LET c == caller[t]
      clients == IF c \in mClients THEN ClientsWithout(c, p) ELSE mPropToClients
  IN /\ pc[t] \in {"unsubscribe", "forget"} /\ p \in todo[t]
     /\ mPropToClients' = clients
     /\ IF c \in mClients /\ Forgotten(c, clients)
        THEN /\ mClients' = mClients \ {c}
             /\ mSubscriptions' = [mSubscriptions EXCEPT ![c] = Nothing]
        ELSE UNCHANGED <<mClients, mSubscriptions>>
     /\ IF Unused(p, clients)
        THEN /\ mHalEventSubscribeOptions' = [mHalEventSubscribeOptions EXCEPT ![p] = NONE]
             /\ mCookieToEventsMap' = [mCookieToEventsMap EXCEPT ![p] = NONE]
        ELSE UNCHANGED <<mHalEventSubscribeOptions, mCookieToEventsMap>>
     /\ todo' = [todo EXCEPT ![t] = todo[t] \ {p}]
     /\ asked' = [asked EXCEPT ![c] = [asked[c] EXCEPT ![p] = NoFlag]]
     /\ UNCHANGED <<process, pc, caller, request, updated, calls, overlap, teller>>

unsubscribeReturns(t) ==
  /\ pc[t] \in {"unsubscribe", "forget"} /\ todo[t] = {}
  /\ Returns(t)
  /\ UNCHANGED <<process, manager, mCookieToEventsMap, todo, updated, calls, history>>

\* The binder driver's notice reaches the recipient only of a linked callback.
serviceDied(t, c) ==
  /\ pc[t] = "idle" /\ process[c] = "dead"
  /\ process' = [process EXCEPT ![c] = "noticed"]
  /\ IF c \in mClients
     THEN caller' = [caller EXCEPT ![t] = c] /\ pc' = [pc EXCEPT ![t] = "died"]
     ELSE UNCHANGED <<caller, pc>>
  /\ overlap' = IF \E u \in Thread \ {t} : pc[u] # "idle" /\ caller[u] = c
                THEN overlap \union {c} ELSE overlap
  /\ UNCHANGED <<manager, mCookieToEventsMap, request, todo, updated, calls, asked, teller>>

\* Mutant: only what the car reports is unsubscribed.
PropertiesOfCar(c) ==
  {p \in Prop : mSubscriptions[c][p] # NONE /\ "car" \in mSubscriptions[c][p].flags}

SubscribedProperties(c) == {p \in Prop : mSubscriptions[c][p] # NONE}

\* The properties are copied here and unsubscribed one by one, the lock released in between.
onCallbackDead(t) ==
  /\ pc[t] = "died"
  /\ pc' = [pc EXCEPT ![t] = "forget"]
  /\ todo' = [todo EXCEPT ![t] = SubscribedProperties(caller[t])]
  /\ UNCHANGED <<process, manager, mCookieToEventsMap, caller, request, updated, calls,
                 history>>

-----------------------------------------------------------------------------
Serve(t) ==
  \/ addOrUpdateSubscription(t) \/ subscribeFails(t) \/ subscribeReturns(t)
  \/ unsubscribeReturns(t) \/ onCallbackDead(t)
  \/ \E p \in Prop : halSubscribe(t, p) \/ unsubscribeLocked(t, p)

Next ==
  \/ \E c \in Client : Dies(c)
  \/ \E t \in Thread, c \in Client :
       \/ serviceDied(t, c)
       \/ \E o \in Request : subscribe(t, c, o)
       \/ \E p \in Prop : unsubscribe(t, c, p)
  \/ \E t \in Thread : Serve(t)

\* Threads run; the driver notices every death.
Fairness ==
  /\ \A t \in Thread : WF_vars(Serve(t))
  /\ \A c \in Client : WF_vars(\E t \in Thread : serviceDied(t, c))

Spec == Init /\ [][Next]_vars /\ Fairness

-----------------------------------------------------------------------------
(* Properties *)

TypeOK ==
  /\ process \in [Client -> {"alive", "dead", "noticed"}]
  /\ mClients \subseteq Client /\ overlap \subseteq Client
  /\ mSubscriptions \in [Client -> [Prop -> OptionsOrNone]]
  /\ asked \in [Client -> [Prop -> [Flag -> Rate \union {NONE}]]]
  /\ mPropToClients \in [Prop -> SUBSET Client]
  /\ mHalEventSubscribeOptions \in [Prop -> OptionsOrNone]
  /\ mCookieToEventsMap \in [Prop -> Rate \union {NONE}]
  /\ pc \in [Thread -> {"idle", "subscribe", "hal", "unsubscribe", "died", "forget"}]
  /\ caller \in [Thread -> Client \union {NONE}]
  /\ request \in [Thread -> [Prop -> OptionsOrNone]]
  /\ todo \in [Thread -> SUBSET Prop]
  /\ updated \in [Thread -> [Prop -> Rate \union {NONE}]]
  /\ teller \in [Prop -> Thread \union {NONE}]
  /\ calls \in 0 .. MAX_CALLS

\* getSubscribedClientsLocked
Receives(c, p, flag) ==
  c \in mPropToClients[p] /\ mSubscriptions[c][p] # NONE /\ flag \in mSubscriptions[c][p].flags
Asks(c, p, flag) == asked[c][p][flag] # NONE

\* Whoever subscribed and did not unsubscribe since is sent the events it
\* asked for, whatever other clients, or other calls of its own, do meanwhile.
EventsReachAskers ==
  \A c \in Client, p \in Prop, flag \in Flag : Asks(c, p, flag) => Receives(c, p, flag)

\* A client is known, and linked to its death, as long as it has a property,
\* and no longer: unsubscribe() of its last one releases the callback.
ClientsAreSubscribers == mClients = UNION {mPropToClients[p] : p \in Prop}

\* The options kept for the HAL are at least what every client asked of the car.
OptionsCoverAskers ==
  \A c \in Client, p \in Prop : Asks(c, p, "car") =>
    /\ mHalEventSubscribeOptions[p] # NONE
    /\ mHalEventSubscribeOptions[p].rate >= asked[c][p]["car"]

\* What the HAL's timer comes to once the newest rate was told.
RateToCome(p) ==
  IF updated[teller[p]][p] = NONE THEN mCookieToEventsMap[p] ELSE updated[teller[p]][p]

\* A property with options has a timer of their rate in the HAL, or a thread is
\* about to start one, although subscribe() calls the HAL without the lock; when an
\* older rate was told after it the timer keeps that one.
HalServesOptions ==
  \A p \in Prop : mHalEventSubscribeOptions[p] # NONE =>
    IF teller[p] = NONE THEN mCookieToEventsMap[p] # NONE
    ELSE RateToCome(p) = mHalEventSubscribeOptions[p].rate

\* Whoever asked for events of the car is served by the HAL, at the rate asked or
\* more, as soon as the threads that are about to tell it have done so, unless two
\* of them told it in the other order than the manager's lock was taken: then it is
\* served at some rate.
HalServesAskers == OptionsCoverAskers /\ HalServesOptions

WorksFor(t, c) == pc[t] # "idle" /\ caller[t] = c

\* A client that dies, no call of its own running, leaves nothing behind.
DeadAreForgotten ==
  \A c \in Client : process[c] = "noticed" /\ c \notin overlap =>
    \/ c \notin mClients
    \/ \E t \in Thread : WorksFor(t, c)

\* The manager knows, and keeps linked to death, exactly its subscribers; the
\* dead are no longer among them.
ClientsAreForgotten == ClientsAreSubscribers /\ DeadAreForgotten

\* The death of a client is handled to its end.
DeathIsHandled ==
  \A c \in Client : process[c] = "dead" ~> (c \notin mClients \/ c \in overlap)
=============================================================================
