--------------------- MODULE VehicleSubscriptionsProofs ---------------------
(***************************************************************************)
(* The safety properties of VehicleSubscriptions, for any number of        *)
(* clients, properties, threads and calls.                                 *)
(***************************************************************************)
EXTENDS VehicleSubscriptions, TLAPS

(* What merging options yields. *)

\* The options merged are options, and not less than either.
LEMMA Merging ==
  ASSUME NEW old \in OptionsOrNone, NEW new \in Options
  PROVE  LET m == mergeSubscribeOptions(old, new)
         IN /\ m \in Options /\ m # NONE
            /\ new.flags \subseteq m.flags /\ new.rate <= m.rate
            /\ old # NONE => old.flags \subseteq m.flags /\ old.rate <= m.rate
<1>0. new # NONE /\ new.rate \in Nat
  BY RateAssumption, NoneAssumption DEF Options
<1>1. CASE old = NONE
  BY <1>0, <1>1 DEF mergeSubscribeOptions
<1>2. CASE old # NONE
  <2>1. old \in Options /\ old.rate \in Nat /\ new.rate \in Nat
    BY <1>2, RateAssumption DEF OptionsOrNone, Options
  <2>2. mergeSubscribeOptions(old, new) \in Options
    BY <1>2, <2>1 DEF mergeSubscribeOptions, Options
  <2>3. mergeSubscribeOptions(old, new) # NONE
    BY <2>2, NoneAssumption
  <2> DEFINE m == mergeSubscribeOptions(old, new)
  <2>4. /\ m.flags = old.flags \union new.flags
        /\ m.rate = IF old.rate > new.rate THEN old.rate ELSE new.rate
    BY <1>2 DEF mergeSubscribeOptions
  <2>5. new.rate <= m.rate /\ old.rate <= m.rate
    BY <2>1, <2>4
  <2> QED
    BY <2>2, <2>3, <2>4, <2>5
<1> QED
  BY <1>1, <1>2

\* Merging by property.
LEMMA MergedOptions ==
  ASSUME NEW old \in [Prop -> OptionsOrNone], NEW options \in [Prop -> OptionsOrNone]
  PROVE  LET m == Merged(old, options)
         IN /\ m \in [Prop -> OptionsOrNone]
            /\ \A p \in Prop :
                 /\ options[p] = NONE => m[p] = old[p]
                 /\ options[p] # NONE =>
                      /\ m[p] # NONE /\ m[p] \in Options
                      /\ options[p].flags \subseteq m[p].flags /\ options[p].rate <= m[p].rate
                 /\ old[p] # NONE =>
                      /\ m[p] # NONE /\ m[p] \in Options
                      /\ old[p].flags \subseteq m[p].flags /\ old[p].rate <= m[p].rate
<1> DEFINE m == Merged(old, options)
<1>1. ASSUME NEW p \in Prop
      PROVE  /\ m[p] \in OptionsOrNone
             /\ options[p] = NONE => m[p] = old[p]
             /\ options[p] # NONE =>
                  /\ m[p] # NONE /\ m[p] \in Options
                  /\ options[p].flags \subseteq m[p].flags /\ options[p].rate <= m[p].rate
             /\ old[p] # NONE =>
                  /\ m[p] # NONE /\ m[p] \in Options
                  /\ old[p].flags \subseteq m[p].flags /\ old[p].rate <= m[p].rate
  <2>1. CASE options[p] = NONE
    <3>1. m[p] = old[p] /\ old[p] \in OptionsOrNone
      BY <2>1 DEF Merged
    <3>2. old[p] # NONE => old[p] \in Options /\ old[p].rate \in Nat
      BY <3>1, RateAssumption DEF OptionsOrNone, Options
    <3> QED
      BY <2>1, <3>1, <3>2
  <2>2. CASE options[p] # NONE
    <3>1. options[p] \in Options /\ old[p] \in OptionsOrNone
      BY <2>2 DEF OptionsOrNone
    <3>2. m[p] = mergeSubscribeOptions(old[p], options[p])
      BY <2>2 DEF Merged
    <3>3. m[p] \in OptionsOrNone
      BY <3>1, <3>2, Merging DEF OptionsOrNone
    <3> QED
      BY <2>2, <3>1, <3>2, <3>3, Merging
  <2> QED
    BY <2>1, <2>2
<1>2. m \in [Prop -> OptionsOrNone]
  BY <1>1 DEF Merged
<1> QED
  BY <1>1, <1>2

\* What is asked of the car.
LEMMA CarOptions ==
  ASSUME NEW options \in [Prop -> OptionsOrNone]
  PROVE  /\ FromCar(options) \in [Prop -> OptionsOrNone]
         /\ \A p \in Prop :
              /\ FromCar(options)[p] # NONE => FromCar(options)[p] = options[p]
              /\ options[p] # NONE /\ "car" \in options[p].flags =>
                   FromCar(options)[p] = options[p]
  BY DEF FromCar, OptionsOrNone

\* The rates to tell the HAL are rates, one for each property whose options changed.
LEMMA UpdatedRates ==
  ASSUME NEW old \in [Prop -> OptionsOrNone], NEW new \in [Prop -> OptionsOrNone]
  PROVE  /\ Updated(old, new) \in [Prop -> Rate \union {NONE}]
         /\ \A p \in Prop : new[p] # NONE /\ new[p] # old[p] => Updated(old, new)[p] # NONE
<1>1. ASSUME NEW p \in Prop, new[p] # NONE
      PROVE  new[p].rate \in Rate /\ new[p].rate # NONE
  BY <1>1, NoneAssumption DEF OptionsOrNone, Options
<1> QED
  BY <1>1 DEF Updated

\* What a client has a right to: what it had, and the options.
LEMMA Rights ==
  ASSUME NEW old \in [Prop -> [Flag -> Rate \union {NONE}]],
         NEW options \in [Prop -> OptionsOrNone]
  PROVE  LET a == AsksAlso(old, options)
         IN /\ a \in [Prop -> [Flag -> Rate \union {NONE}]]
            /\ \A p \in Prop, flag \in Flag :
                 /\ a[p][flag] = old[p][flag]
                      \/ (options[p] # NONE /\ flag \in options[p].flags
                          /\ a[p][flag] = options[p].rate)
                 /\ options[p] # NONE /\ flag \in options[p].flags => a[p][flag] # NONE
<1> DEFINE a == AsksAlso(old, options)
<1>1. ASSUME NEW p \in Prop, NEW flag \in Flag
      PROVE  /\ a[p][flag] \in Rate \union {NONE}
             /\ a[p][flag] = old[p][flag]
                  \/ (options[p] # NONE /\ flag \in options[p].flags
                      /\ a[p][flag] = options[p].rate)
             /\ options[p] # NONE /\ flag \in options[p].flags => a[p][flag] # NONE
  <2>1. old[p][flag] \in Rate \union {NONE}
    OBVIOUS
  <2>2. options[p] # NONE => options[p].rate \in Rate /\ options[p].rate # NONE
    BY NoneAssumption DEF OptionsOrNone, Options
  <2> QED
    BY <2>1, <2>2 DEF AsksAlso
<1>2. a \in [Prop -> [Flag -> Rate \union {NONE}]]
  BY <1>1 DEF AsksAlso
<1> QED
  BY <1>1, <1>2

-----------------------------------------------------------------------------
(* The inductive invariant *)

\* A thread that serves a call knows for whom; a subscription asks for
\* something; only a thread about to call the HAL has rates to tell it.
ThreadsOK ==
  \A t \in Thread :
    /\ pc[t] # "idle" => caller[t] \in Client
    /\ pc[t] = "subscribe" => \E p \in Prop : request[t][p] # NONE
    /\ pc[t] # "hal" => updated[t] = Nothing

\* A client is entered for a property with the options it has for it.
SubscribersHaveOptions ==
  \A c \in Client, p \in Prop : c \in mPropToClients[p] => mSubscriptions[c][p] # NONE

\* A client whose death was noticed, no call of its own running.
Gone(c) == process[c] = "noticed" /\ c \notin overlap

\* Whoever works for it does so on the notice of its death.
OnlyDeathServesGone ==
  \A c \in Client, t \in Thread : Gone(c) /\ WorksFor(t, c) => pc[t] \in {"died", "forget"}

\* The thread has still to unsubscribe every property the client has.
Forgets(t, c) ==
  /\ WorksFor(t, c)
  /\ \/ pc[t] = "died"
     \/ pc[t] = "forget" /\ \A p \in Prop : c \in mPropToClients[p] => p \in todo[t]

GoneAreBeingForgotten ==
  \A c \in Client : Gone(c) => c \notin mClients \/ \E t \in Thread : Forgets(t, c)

Inv ==
  /\ TypeOK /\ ThreadsOK
  /\ SubscribersHaveOptions /\ ClientsAreSubscribers /\ EventsReachAskers
  /\ OptionsCoverAskers /\ HalServesOptions
  /\ OnlyDeathServesGone /\ GoneAreBeingForgotten

-----------------------------------------------------------------------------
(* Types, and what threads know *)

LEMMA NothingIsTyped ==
  /\ Nothing \in [Prop -> OptionsOrNone] /\ Nothing \in [Prop -> Rate \union {NONE}]
  /\ \A p \in Prop : Nothing[p] = NONE
  /\ NoFlag \in [Flag -> Rate \union {NONE}] /\ \A flag \in Flag : NoFlag[flag] = NONE
  BY DEF Nothing, NoFlag, OptionsOrNone

\* The calls of clients, their deaths, and the ends of calls keep the types.
LEMMA CallsKeepTypes ==
  ASSUME TypeOK,
         \/ \E c \in Client : Dies(c)
         \/ \E t \in Thread, c \in Client :
              \/ serviceDied(t, c)
              \/ \E o \in Request : subscribe(t, c, o)
              \/ \E p \in Prop : unsubscribe(t, c, p)
         \/ \E t \in Thread : subscribeFails(t) \/ subscribeReturns(t) \/ unsubscribeReturns(t)
  PROVE  TypeOK'
<1>1. ASSUME NEW c \in Client, Dies(c) PROVE TypeOK'
  BY <1>1 DEF history, Dies, TypeOK, manager, threads
<1>2. ASSUME NEW t \in Thread, NEW c \in Client, NEW o \in Request, subscribe(t, c, o)
      PROVE  TypeOK'
  <2>1. calls + 1 \in 0 .. MAX_CALLS
    BY <1>2, RateAssumption DEF subscribe, TypeOK
  <2>2. o \in [Prop -> OptionsOrNone]
    BY RequestAssumption
  <2> QED
    BY <1>2, <2>1, <2>2 DEF history, subscribe, TypeOK, manager
<1>3. ASSUME NEW t \in Thread, NEW c \in Client, NEW p \in Prop, unsubscribe(t, c, p)
      PROVE  TypeOK'
  <2>1. calls + 1 \in 0 .. MAX_CALLS
    BY <1>3, RateAssumption DEF unsubscribe, TypeOK
  <2> QED
    BY <1>3, <2>1 DEF history, unsubscribe, TypeOK, manager
<1>4. ASSUME NEW t \in Thread, NEW c \in Client, serviceDied(t, c) PROVE TypeOK'
  <2>1. /\ pc' \in [Thread -> {"idle", "subscribe", "hal", "unsubscribe", "died", "forget"}]
        /\ caller' \in [Thread -> Client \union {NONE}]
        /\ process' \in [Client -> {"alive", "dead", "noticed"}] /\ overlap' \subseteq Client
    BY <1>4 DEF serviceDied, TypeOK
  <2> QED
    BY <1>4, <2>1 DEF serviceDied, TypeOK, manager
<1>5. ASSUME NEW t \in Thread,
             subscribeFails(t) \/ subscribeReturns(t) \/ unsubscribeReturns(t)
      PROVE  TypeOK'
  <2>1. /\ UNCHANGED <<process, manager, mCookieToEventsMap, todo, updated, calls, history>>
        /\ Returns(t)
    BY <1>5 DEF subscribeFails, subscribeReturns, unsubscribeReturns
  <2>2. /\ pc' \in [Thread -> {"idle", "subscribe", "hal", "unsubscribe", "died", "forget"}]
        /\ caller' \in [Thread -> Client \union {NONE}]
        /\ request' \in [Thread -> [Prop -> OptionsOrNone]]
    BY <2>1, NothingIsTyped DEF Returns, TypeOK
  <2> QED
    BY <2>1, <2>2 DEF history, TypeOK, manager
<1> QED
  BY <1>1, <1>2, <1>3, <1>4, <1>5

LEMMA WorkKeepsTypes ==
  ASSUME TypeOK, ThreadsOK, NEW t \in Thread,
         \/ addOrUpdateSubscription(t) \/ (\E p \in Prop : halSubscribe(t, p))
         \/ (\E p \in Prop : unsubscribeLocked(t, p)) \/ onCallbackDead(t)
  PROVE  TypeOK'
<1> DEFINE c == caller[t]
<1>1. CASE addOrUpdateSubscription(t)
  <2>1. c \in Client /\ request[t] \in [Prop -> OptionsOrNone]
    BY <1>1 DEF addOrUpdateSubscription, ThreadsOK, TypeOK
  <2>2. Merged(mSubscriptions[c], request[t]) \in [Prop -> OptionsOrNone]
    BY <2>1, MergedOptions DEF TypeOK
  <2>3. mHalEventSubscribeOptions' \in [Prop -> OptionsOrNone]
    BY <1>1, <2>1, CarOptions, MergedOptions DEF addOrUpdateSubscription, TypeOK
  <2>4. updated'[t] \in [Prop -> Rate \union {NONE}]
    BY <1>1, <2>3, UpdatedRates DEF addOrUpdateSubscription, TypeOK
  <2>5. AsksAlso(asked[c], request[t]) \in [Prop -> [Flag -> Rate \union {NONE}]]
    BY <2>1, Rights DEF TypeOK
  <2>6. mPropToClients' \in [Prop -> SUBSET Client]
    BY <1>1, <2>1 DEF addOrUpdateSubscription, TypeOK
  <2>7. /\ mSubscriptions' \in [Client -> [Prop -> OptionsOrNone]]
        /\ asked' \in [Client -> [Prop -> [Flag -> Rate \union {NONE}]]]
        /\ mClients' \subseteq Client
    BY <1>1, <2>1, <2>2, <2>5 DEF addOrUpdateSubscription, TypeOK
  <2>8. /\ updated' \in [Thread -> [Prop -> Rate \union {NONE}]]
        /\ pc' \in [Thread -> {"idle", "subscribe", "hal", "unsubscribe", "died", "forget"}]
    BY <1>1, <2>4 DEF addOrUpdateSubscription, TypeOK
  <2> QED
    BY <1>1, <2>3, <2>6, <2>7, <2>8 DEF addOrUpdateSubscription, TypeOK
<1>2. ASSUME NEW p \in Prop, halSubscribe(t, p) PROVE TypeOK'
  BY <1>2 DEF halSubscribe, TypeOK, manager
<1>3. ASSUME NEW p \in Prop, unsubscribeLocked(t, p) PROVE TypeOK'
  <2>1. c \in Client
    BY <1>3 DEF unsubscribeLocked, ThreadsOK
  <2>2. mPropToClients' \in [Prop -> SUBSET Client] /\ mClients' \subseteq Client
    BY <1>3 DEF unsubscribeLocked, ClientsWithout, TypeOK
  <2>3. mSubscriptions' \in [Client -> [Prop -> OptionsOrNone]]
    BY <1>3, NothingIsTyped DEF unsubscribeLocked, TypeOK
  <2>4. mHalEventSubscribeOptions' \in [Prop -> OptionsOrNone]
    BY <1>3 DEF unsubscribeLocked, TypeOK, OptionsOrNone
  <2>5. mCookieToEventsMap' \in [Prop -> Rate \union {NONE}]
    BY <1>3 DEF unsubscribeLocked, TypeOK
  <2>6. asked' \in [Client -> [Prop -> [Flag -> Rate \union {NONE}]]]
    BY <1>3, <2>1, NothingIsTyped DEF unsubscribeLocked, TypeOK
  <2>7. todo' \in [Thread -> SUBSET Prop]
    BY <1>3 DEF unsubscribeLocked, TypeOK
  <2> QED
    BY <1>3, <2>2, <2>3, <2>4, <2>5, <2>6, <2>7 DEF unsubscribeLocked, TypeOK
<1>4. CASE onCallbackDead(t)
  BY <1>4 DEF history, onCallbackDead, SubscribedProperties, TypeOK, manager
<1> QED
  BY <1>1, <1>2, <1>3, <1>4

LEMMA ThreadsKnow ==
  ASSUME TypeOK, ThreadsOK, Next PROVE ThreadsOK'
<1>1. ASSUME NEW c \in Client, Dies(c) PROVE ThreadsOK'
  BY <1>1 DEF Dies, ThreadsOK, threads
<1>2. ASSUME NEW t \in Thread, NEW c \in Client, serviceDied(t, c) PROVE ThreadsOK'
  BY <1>2 DEF serviceDied, ThreadsOK, TypeOK
<1>3. ASSUME NEW t \in Thread, NEW c \in Client, NEW o \in Request, subscribe(t, c, o)
      PROVE  ThreadsOK'
  BY <1>3, RequestAssumption DEF subscribe, ThreadsOK, TypeOK
<1>4. ASSUME NEW t \in Thread, NEW c \in Client, NEW p \in Prop, unsubscribe(t, c, p)
      PROVE  ThreadsOK'
  BY <1>4 DEF unsubscribe, ThreadsOK, TypeOK
<1>5. ASSUME NEW t \in Thread, addOrUpdateSubscription(t) PROVE ThreadsOK'
  BY <1>5 DEF addOrUpdateSubscription, ThreadsOK, TypeOK
<1>6. ASSUME NEW t \in Thread,
             subscribeFails(t) \/ subscribeReturns(t) \/ unsubscribeReturns(t)
      PROVE  ThreadsOK'
  BY <1>6 DEF subscribeFails, subscribeReturns, unsubscribeReturns, Returns, ThreadsOK, TypeOK
<1>7. ASSUME NEW t \in Thread, onCallbackDead(t) PROVE ThreadsOK'
  BY <1>7 DEF onCallbackDead, ThreadsOK, TypeOK
<1>8. ASSUME NEW t \in Thread, NEW p \in Prop, halSubscribe(t, p) PROVE ThreadsOK'
  BY <1>8 DEF halSubscribe, ThreadsOK, TypeOK
<1>9. ASSUME NEW t \in Thread, NEW p \in Prop, unsubscribeLocked(t, p) PROVE ThreadsOK'
  BY <1>9 DEF unsubscribeLocked, ThreadsOK, TypeOK
<1> QED
  BY <1>1, <1>2, <1>3, <1>4, <1>5, <1>6, <1>7, <1>8, <1>9 DEF Next, Serve

-----------------------------------------------------------------------------
(* The manager's tables: two operations change them *)

LEMMA Frame ==
  ASSUME Next
  PROVE  \/ UNCHANGED <<manager, asked>>
         \/ \E t \in Thread : addOrUpdateSubscription(t)
         \/ \E t \in Thread, p \in Prop : unsubscribeLocked(t, p)
  BY DEF Next, Serve, Dies, serviceDied, subscribe, unsubscribe, subscribeFails,
         subscribeReturns, unsubscribeReturns, onCallbackDead, halSubscribe, manager, history

\* The tables that say who is sent what, and who is known.
Tables == SubscribersHaveOptions /\ ClientsAreSubscribers /\ EventsReachAskers

\* ClientsAreSubscribers, client by client.
LEMMA Known ==
  /\ ClientsAreSubscribers <=> \A d : d \in mClients <=> \E p \in Prop : d \in mPropToClients[p]
  /\ ClientsAreSubscribers' <=> \A d : d \in mClients' <=> \E p \in Prop : d \in mPropToClients'[p]
  BY DEF ClientsAreSubscribers

LEMMA AddKeepsTables ==
  ASSUME TypeOK, ThreadsOK, Tables, NEW t \in Thread, addOrUpdateSubscription(t)
  PROVE  Tables'
<1> DEFINE c == caller[t]
<1> DEFINE options == request[t]
<1>1. c \in Client /\ options \in [Prop -> OptionsOrNone] /\ \E p \in Prop : options[p] # NONE
  BY DEF addOrUpdateSubscription, ThreadsOK, TypeOK
<1>2. mSubscriptions[c] \in [Prop -> OptionsOrNone]
  BY <1>1 DEF TypeOK
<1>3. /\ mSubscriptions'[c] = Merged(mSubscriptions[c], options)
      /\ \A d \in Client \ {c} : mSubscriptions'[d] = mSubscriptions[d]
  BY <1>1 DEF addOrUpdateSubscription, TypeOK
<1>4. \A p \in Prop : mPropToClients'[p] = IF options[p] # NONE THEN mPropToClients[p] \union {c}
                                           ELSE mPropToClients[p]
  BY DEF addOrUpdateSubscription
<1>m. \A p \in Prop :
        /\ options[p] # NONE => /\ mSubscriptions'[c][p] # NONE
                               /\ options[p].flags \subseteq mSubscriptions'[c][p].flags
        /\ mSubscriptions[c][p] # NONE =>
             /\ mSubscriptions'[c][p] # NONE
             /\ mSubscriptions[c][p].flags \subseteq mSubscriptions'[c][p].flags
  <2> HIDE DEF c, options
  <2> QED
    BY <1>1, <1>2, <1>3, MergedOptions
<1>5. SubscribersHaveOptions'
  <2> SUFFICES ASSUME NEW d \in Client, NEW p \in Prop, d \in mPropToClients'[p]
               PROVE  mSubscriptions'[d][p] # NONE
    BY DEF SubscribersHaveOptions
  <2>1. CASE d = c
    <3>1. options[p] # NONE \/ c \in mPropToClients[p]
      BY <1>4, <2>1
    <3> QED
      BY <1>1, <1>m, <2>1, <3>1 DEF SubscribersHaveOptions, Tables
  <2>2. CASE d # c
    BY <1>3, <1>4, <2>2 DEF SubscribersHaveOptions, Tables
  <2> QED
    BY <2>1, <2>2
<1>6. ClientsAreSubscribers'
  <2>1. mClients' = mClients \union {c}
    BY DEF addOrUpdateSubscription
  <2>2. \A d : d \in mClients <=> \E p \in Prop : d \in mPropToClients[p]
    BY Known DEF Tables
  <2>3. \E p \in Prop : c \in mPropToClients'[p]
    BY <1>1, <1>4
  <2>4. ASSUME NEW d PROVE d \in mClients' <=> \E p \in Prop : d \in mPropToClients'[p]
    <3>1. CASE d = c
      BY <2>1, <2>3, <3>1
    <3>2. CASE d # c
      <4>1. \A p \in Prop : d \in mPropToClients'[p] <=> d \in mPropToClients[p]
        BY <1>4, <3>2
      <4> QED
        BY <2>1, <2>2, <3>2, <4>1
    <3> QED
      BY <3>1, <3>2
  <2> QED
    BY <2>4, Known
<1>7. EventsReachAskers'
  <2> SUFFICES ASSUME NEW d \in Client, NEW p \in Prop, NEW flag \in Flag,
                      Asks(d, p, flag)'
               PROVE  Receives(d, p, flag)'
    BY DEF EventsReachAskers
  <2>1. CASE d # c
    <3>1. asked'[d] = asked[d]
      BY <1>1, <2>1 DEF addOrUpdateSubscription, TypeOK
    <3>2. Receives(d, p, flag)
      BY <3>1 DEF Asks, EventsReachAskers, Tables
    <3> QED
      BY <1>3, <1>4, <2>1, <3>2 DEF Receives
  <2>2. CASE d = c
    <3>1. asked'[c] = AsksAlso(asked[c], options) /\ asked[c] \in [Prop -> [Flag -> Rate \union {NONE}]]
      BY <1>1 DEF addOrUpdateSubscription, TypeOK
    <3>2. \/ asked[c][p][flag] # NONE
          \/ options[p] # NONE /\ flag \in options[p].flags
      BY <1>1, <2>2, <3>1, Rights DEF Asks
    <3>3. CASE asked[c][p][flag] # NONE
      <4>1. Receives(c, p, flag)
        BY <1>1, <3>3 DEF Asks, EventsReachAskers, Tables
      <4> QED
        BY <1>1, <1>m, <1>4, <2>2, <4>1 DEF Receives
    <3>4. CASE options[p] # NONE /\ flag \in options[p].flags
      BY <1>1, <1>m, <1>4, <2>2, <3>4 DEF Receives
    <3> QED
      BY <3>2, <3>3, <3>4
  <2> QED
    BY <2>1, <2>2
<1> QED
  BY <1>5, <1>6, <1>7 DEF Tables

LEMMA UnsubscribeKeepsTables ==
  ASSUME TypeOK, ThreadsOK, Tables, NEW t \in Thread, NEW p \in Prop, unsubscribeLocked(t, p)
  PROVE  Tables'
<1> DEFINE c == caller[t]
<1>1. c \in Client
  BY DEF unsubscribeLocked, ThreadsOK
<1>2. c \notin mClients => \A q \in Prop : c \notin mPropToClients[q]
  BY DEF Tables, ClientsAreSubscribers
<1>3. \A q \in Prop : mPropToClients'[q] = IF q = p THEN mPropToClients[q] \ {c}
                                           ELSE mPropToClients[q]
  BY <1>2 DEF unsubscribeLocked, ClientsWithout, TypeOK
<1>4. \A d \in Client : \/ mSubscriptions'[d] = mSubscriptions[d]
                        \/ d = c /\ \A q \in Prop : c \notin mPropToClients'[q]
  BY DEF unsubscribeLocked, Forgotten, TypeOK
<1>5. SubscribersHaveOptions'
  BY <1>3, <1>4 DEF SubscribersHaveOptions, Tables
<1>6. ClientsAreSubscribers'
  <2>1. \A d : d \in mClients <=> \E q \in Prop : d \in mPropToClients[q]
    BY Known DEF Tables
  <2>2. ASSUME NEW d PROVE d \in mClients' <=> \E q \in Prop : d \in mPropToClients'[q]
    <3>1. CASE d = c
      BY <1>2, <2>1, <3>1 DEF unsubscribeLocked, Forgotten
    <3>2. CASE d # c
      <4>1. \A q \in Prop : d \in mPropToClients'[q] <=> d \in mPropToClients[q]
        BY <1>3, <3>2
      <4>2. d \in mClients' <=> d \in mClients
        BY <3>2 DEF unsubscribeLocked
      <4> QED
        BY <2>1, <4>1, <4>2
    <3> QED
      BY <3>1, <3>2
  <2> QED
    BY <2>2, Known
<1>7. EventsReachAskers'
  <2> SUFFICES ASSUME NEW d \in Client, NEW q \in Prop, NEW flag \in Flag,
                      Asks(d, q, flag)'
               PROVE  Receives(d, q, flag)'
    BY DEF EventsReachAskers
  <2>1. ~(d = c /\ q = p) /\ asked'[d][q] = asked[d][q]
    BY <1>1 DEF unsubscribeLocked, Asks, TypeOK, NoFlag
  <2>2. Receives(d, q, flag)
    BY <2>1 DEF Asks, EventsReachAskers, Tables
  <2>3. d \in mPropToClients'[q]
    BY <1>3, <2>1, <2>2 DEF Receives
  <2>4. mSubscriptions'[d] = mSubscriptions[d]
    BY <1>4, <2>3
  <2> QED
    BY <2>2, <2>3, <2>4 DEF Receives
<1> QED
  BY <1>5, <1>6, <1>7 DEF Tables

LEMMA TablesKept ==
  ASSUME TypeOK, ThreadsOK, Tables, Next PROVE Tables'
<1>1. ASSUME UNCHANGED <<manager, asked>> PROVE Tables'
  BY <1>1 DEF manager, Tables, SubscribersHaveOptions, ClientsAreSubscribers,
              EventsReachAskers, Asks, Receives
<1> QED
  BY <1>1, Frame, AddKeepsTables, UnsubscribeKeepsTables

-----------------------------------------------------------------------------
(* The HAL *)

LEMMA CoverKept ==
  ASSUME TypeOK, ThreadsOK, Tables, Tables', OptionsCoverAskers, Next
  PROVE  OptionsCoverAskers'
<1>1. CASE UNCHANGED <<manager, asked>>
  BY <1>1 DEF manager, OptionsCoverAskers, Asks
<1>2. ASSUME NEW t \in Thread, addOrUpdateSubscription(t) PROVE OptionsCoverAskers'
  <2> DEFINE c == caller[t]
  <2> DEFINE options == request[t]
  <2> DEFINE hal == mHalEventSubscribeOptions
  <2>1. c \in Client /\ options \in [Prop -> OptionsOrNone]
    BY <1>2 DEF addOrUpdateSubscription, ThreadsOK, TypeOK
  <2>2. hal \in [Prop -> OptionsOrNone] /\ FromCar(options) \in [Prop -> OptionsOrNone]
    BY <2>1, CarOptions DEF TypeOK
  <2>3. hal' = Merged(hal, FromCar(options))
    BY <1>2 DEF addOrUpdateSubscription
  <2> SUFFICES ASSUME NEW d \in Client, NEW p \in Prop, Asks(d, p, "car")'
               PROVE  hal'[p] # NONE /\ hal'[p].rate >= asked'[d][p]["car"]
    BY DEF OptionsCoverAskers
  <2>4. "car" \in Flag
    BY DEF Flag
  <2>5. \/ asked'[d][p]["car"] = asked[d][p]["car"]
        \/ /\ options[p] # NONE /\ "car" \in options[p].flags
           /\ asked'[d][p]["car"] = options[p].rate
    <3>1. CASE d = c
      <4>1. asked'[c] = AsksAlso(asked[c], options) /\ asked[c] \in [Prop -> [Flag -> Rate \union {NONE}]]
        BY <1>2, <2>1 DEF addOrUpdateSubscription, TypeOK
      <4>2. \A q \in Prop, flag \in Flag :
              \/ AsksAlso(asked[c], options)[q][flag] = asked[c][q][flag]
              \/ /\ options[q] # NONE /\ flag \in options[q].flags
                 /\ AsksAlso(asked[c], options)[q][flag] = options[q].rate
        <5> HIDE DEF c, options
        <5> QED
          BY <2>1, <4>1, Rights
      <4> QED
        BY <2>4, <3>1, <4>1, <4>2
    <3>2. CASE d # c
      BY <1>2, <2>1, <3>2 DEF addOrUpdateSubscription, TypeOK
    <3> QED
      BY <3>1, <3>2
  <2>6. CASE asked'[d][p]["car"] = asked[d][p]["car"]
    <3>1. hal[p] # NONE /\ hal[p].rate >= asked[d][p]["car"]
      BY <2>6 DEF Asks, OptionsCoverAskers
    <3>2. hal'[p] # NONE /\ hal[p].rate <= hal'[p].rate /\ hal'[p] \in Options
      BY <2>2, <2>3, <3>1, MergedOptions
    <3>3. asked[d][p]["car"] \in Nat /\ hal[p].rate \in Nat /\ hal'[p].rate \in Nat
      <4>1. asked[d][p]["car"] \in Rate \union {NONE} /\ asked[d][p]["car"] # NONE
        BY <2>4, <2>6 DEF TypeOK, Asks
      <4>2. hal[p] \in Options
        BY <2>2, <3>1 DEF OptionsOrNone
      <4> QED
        BY <3>2, <4>1, <4>2, RateAssumption DEF Options
    <3> QED
      BY <2>6, <3>1, <3>2, <3>3
  <2>7. CASE /\ options[p] # NONE /\ "car" \in options[p].flags
             /\ asked'[d][p]["car"] = options[p].rate
    <3>1. FromCar(options)[p] = options[p]
      BY <2>1, <2>7, CarOptions
    <3>2. hal'[p] # NONE /\ options[p].rate <= hal'[p].rate /\ hal'[p] \in Options
      BY <2>2, <2>3, <2>7, <3>1, MergedOptions
    <3>3. options[p].rate \in Nat /\ hal'[p].rate \in Nat
      BY <2>1, <2>7, <3>2, RateAssumption DEF OptionsOrNone, Options
    <3> QED
      BY <2>7, <3>2, <3>3
  <2> QED
    BY <2>5, <2>6, <2>7
<1>3. ASSUME NEW t \in Thread, NEW p \in Prop, unsubscribeLocked(t, p)
      PROVE  OptionsCoverAskers'
  <2> DEFINE c == caller[t]
  <2> SUFFICES ASSUME NEW d \in Client, NEW q \in Prop, Asks(d, q, "car")'
               PROVE  /\ mHalEventSubscribeOptions'[q] # NONE
                      /\ mHalEventSubscribeOptions'[q].rate >= asked'[d][q]["car"]
    BY DEF OptionsCoverAskers
  <2>1. "car" \in Flag /\ c \in Client
    BY <1>3 DEF Flag, unsubscribeLocked, ThreadsOK
  <2>2. asked'[d][q] = asked[d][q]
    BY <1>3, <2>1 DEF unsubscribeLocked, Asks, TypeOK, NoFlag
  <2>3. d \in mPropToClients'[q]
    BY <2>1 DEF Tables, EventsReachAskers, Receives
  <2>4. mHalEventSubscribeOptions'[q] = mHalEventSubscribeOptions[q]
    BY <1>3, <2>3 DEF unsubscribeLocked, Unused, TypeOK
  <2> QED
    BY <2>2, <2>4 DEF OptionsCoverAskers, Asks
<1> QED
  BY <1>1, <1>2, <1>3, Frame

\* A property's timer comes to the rate of its options, or it is lost which rate
\* the HAL was told last.
Served(p) ==
  IF teller[p] = NONE THEN mCookieToEventsMap[p] # NONE
  ELSE RateToCome(p) = mHalEventSubscribeOptions[p].rate

LEMMA ServedOptions ==
  /\ HalServesOptions <=> \A p \in Prop : mHalEventSubscribeOptions[p] # NONE => Served(p)
  /\ HalServesOptions' <=> \A p \in Prop : mHalEventSubscribeOptions'[p] # NONE => Served(p)'
  BY DEF HalServesOptions, Served

LEMMA ServiceKept ==
  ASSUME TypeOK, ThreadsOK, HalServesOptions, Next PROVE HalServesOptions'
<1>1. CASE UNCHANGED <<mHalEventSubscribeOptions, mCookieToEventsMap, updated, teller>>
  BY <1>1 DEF HalServesOptions, RateToCome
<1>2. ASSUME NEW t \in Thread, addOrUpdateSubscription(t) PROVE HalServesOptions'
  <2> DEFINE hal == mHalEventSubscribeOptions
  <2> SUFFICES ASSUME NEW p \in Prop, hal'[p] # NONE
               PROVE  Served(p)'
    BY ServedOptions
  <2>1. updated[t][p] = NONE /\ teller[p] \in Thread \union {NONE}
    BY <1>2, NothingIsTyped DEF addOrUpdateSubscription, ThreadsOK, TypeOK
  <2>2. /\ updated'[t] = Updated(hal, hal')
        /\ \A u \in Thread \ {t} : updated'[u] = updated[u]
        /\ mCookieToEventsMap' = mCookieToEventsMap
        /\ teller'[p] = IF updated'[t][p] # NONE THEN t ELSE teller[p]
    BY <1>2 DEF addOrUpdateSubscription, TypeOK
  <2>3. hal \in [Prop -> OptionsOrNone] /\ hal' \in [Prop -> OptionsOrNone]
    BY <1>2, WorkKeepsTypes DEF TypeOK
  <2>4. CASE updated'[t][p] # NONE
    <3>1. updated'[t][p] = hal'[p].rate /\ teller'[p] = t
      BY <2>2, <2>4 DEF Updated
    <3> QED
      BY <2>4, <3>1, NoneAssumption DEF Served, RateToCome
  <2>5. CASE updated'[t][p] = NONE
    <3>1. hal'[p] = hal[p] /\ teller'[p] = teller[p]
      BY <2>2, <2>3, <2>5, UpdatedRates
    <3>2. teller[p] # NONE => updated'[teller[p]][p] = updated[teller[p]][p]
      BY <2>1, <2>2, <2>5
    <3> QED
      BY <2>2, <3>1, <3>2, ServedOptions DEF Served, RateToCome
  <2> QED
    BY <2>4, <2>5
<1>3. ASSUME NEW t \in Thread, NEW p \in Prop, halSubscribe(t, p) PROVE HalServesOptions'
  <2> SUFFICES ASSUME NEW q \in Prop, mHalEventSubscribeOptions'[q] # NONE
               PROVE  Served(q)'
    BY ServedOptions
  <2>0. Served(q) /\ mHalEventSubscribeOptions' = mHalEventSubscribeOptions
    BY <1>3, ServedOptions DEF halSubscribe, manager
  <2>1. CASE q = p
    <3>1. /\ mCookieToEventsMap'[p] = updated[t][p] /\ updated[t][p] # NONE
          /\ updated'[t][p] = NONE
          /\ \A u \in Thread \ {t} : updated'[u][p] = updated[u][p]
          /\ teller'[p] = IF Told(t, p) THEN NONE ELSE teller[p]
          /\ teller[p] \in Thread \union {NONE}
      BY <1>3 DEF halSubscribe, TypeOK
    <3>2. CASE teller[p] = t
      BY <2>0, <2>1, <3>1, <3>2, NoneAssumption DEF Served, RateToCome, Told
    <3>3. CASE teller[p] = NONE
      BY <2>1, <3>1, <3>3 DEF Served, Told
    <3>4. CASE teller[p] \in Thread \ {t}
      BY <2>0, <2>1, <3>1, <3>4, NoneAssumption DEF Served, RateToCome, Told
    <3> QED
      BY <3>1, <3>2, <3>3, <3>4
  <2>2. CASE q # p
    <3>1. /\ \A u \in Thread : updated'[u][q] = updated[u][q]
          /\ mCookieToEventsMap'[q] = mCookieToEventsMap[q] /\ teller'[q] = teller[q]
          /\ teller[q] \in Thread \union {NONE}
      BY <1>3, <2>2 DEF halSubscribe, TypeOK
    <3> QED
      BY <2>0, <3>1 DEF Served, RateToCome
  <2> QED
    BY <2>1, <2>2
<1>4. ASSUME NEW t \in Thread, NEW p \in Prop, unsubscribeLocked(t, p) PROVE HalServesOptions'
  BY <1>4 DEF unsubscribeLocked, TypeOK, HalServesOptions, RateToCome
<1> QED
  BY <1>1, <1>2, <1>3, <1>4
     DEF Next, Serve, Dies, serviceDied, subscribe, unsubscribe, subscribeFails,
         subscribeReturns, unsubscribeReturns, onCallbackDead, manager, threads, history

-----------------------------------------------------------------------------
(* The deaths *)

LEMMA OnlyDeathKept ==
  ASSUME TypeOK, ThreadsOK, OnlyDeathServesGone, Next PROVE OnlyDeathServesGone'
<1>1. ASSUME NEW c \in Client, Dies(c) PROVE OnlyDeathServesGone'
  BY <1>1 DEF history, Dies, OnlyDeathServesGone, Gone, WorksFor, TypeOK, threads
<1>2. ASSUME NEW t \in Thread, NEW c \in Client, serviceDied(t, c)
      PROVE  OnlyDeathServesGone'
  <2> SUFFICES ASSUME NEW d \in Client, NEW u \in Thread, Gone(d)', WorksFor(u, d)'
               PROVE  pc'[u] \in {"died", "forget"}
    BY DEF OnlyDeathServesGone
  <2>1. CASE u = t
    BY <1>2, <2>1 DEF serviceDied, WorksFor, TypeOK
  <2>2. CASE u # t
    <3>1. WorksFor(u, d) /\ pc'[u] = pc[u]
      BY <1>2, <2>2 DEF serviceDied, WorksFor, TypeOK
    <3>2. d # c
      BY <1>2, <2>2, <3>1 DEF serviceDied, Gone, WorksFor
    <3>3. Gone(d)
      BY <1>2, <3>2 DEF serviceDied, Gone, TypeOK
    <3> QED
      BY <3>1, <3>3 DEF OnlyDeathServesGone
  <2> QED
    BY <2>1, <2>2
<1>3. ASSUME NEW t \in Thread, NEW c \in Client,
             (\E o \in Request : subscribe(t, c, o)) \/ (\E p \in Prop : unsubscribe(t, c, p))
      PROVE  OnlyDeathServesGone'
  <2>1. /\ process[c] = "alive" /\ caller' = [caller EXCEPT ![t] = c]
        /\ \A u \in Thread \ {t} : pc'[u] = pc[u]
        /\ process' = process /\ overlap' = overlap
    BY <1>3 DEF history, subscribe, unsubscribe, TypeOK
  <2> QED
    BY <2>1 DEF OnlyDeathServesGone, Gone, WorksFor, TypeOK
<1>4. ASSUME NEW t \in Thread, addOrUpdateSubscription(t) PROVE OnlyDeathServesGone'
  BY <1>4 DEF addOrUpdateSubscription, OnlyDeathServesGone, Gone, WorksFor, TypeOK
<1>5. ASSUME NEW t \in Thread,
             subscribeFails(t) \/ subscribeReturns(t) \/ unsubscribeReturns(t)
      PROVE  OnlyDeathServesGone'
  BY <1>5 DEF history, subscribeFails, subscribeReturns, unsubscribeReturns, Returns,
              OnlyDeathServesGone, Gone, WorksFor, TypeOK
<1>6. ASSUME NEW t \in Thread, onCallbackDead(t) PROVE OnlyDeathServesGone'
  BY <1>6 DEF history, onCallbackDead, OnlyDeathServesGone, Gone, WorksFor, TypeOK
<1>7. ASSUME NEW t \in Thread, NEW p \in Prop, halSubscribe(t, p) \/ unsubscribeLocked(t, p)
      PROVE  OnlyDeathServesGone'
  BY <1>7 DEF halSubscribe, unsubscribeLocked, OnlyDeathServesGone, Gone, WorksFor
<1> QED
  BY <1>1, <1>2, <1>3, <1>4, <1>5, <1>6, <1>7 DEF Next, Serve

LEMMA ForgettingKept ==
  ASSUME TypeOK, ThreadsOK, Tables, OnlyDeathServesGone, GoneAreBeingForgotten, Next
  PROVE  GoneAreBeingForgotten'
<1> SUFFICES ASSUME NEW c \in Client, Gone(c)', c \in mClients'
             PROVE  \E u \in Thread : Forgets(u, c)'
  BY DEF GoneAreBeingForgotten
\* Threads other than u, and what does not concern c, leave Forgets(u, c) alone.
<1>f. ASSUME NEW u \in Thread, Forgets(u, c), pc'[u] = pc[u], caller'[u] = caller[u],
             todo'[u] = todo[u],
             \A p \in Prop : c \in mPropToClients'[p] => c \in mPropToClients[p]
      PROVE  Forgets(u, c)'
  BY <1>f DEF Forgets, WorksFor
\* A client already known to be gone.
<1>g. ASSUME Gone(c), c \in mClients PROVE \E u \in Thread : Forgets(u, c)
  BY <1>g DEF GoneAreBeingForgotten
<1>1. ASSUME NEW d \in Client, Dies(d) PROVE \E u \in Thread : Forgets(u, c)'
  <2>1. Gone(c) /\ c \in mClients
    BY <1>1 DEF history, Dies, Gone, TypeOK, manager
  <2> QED
    BY <1>1, <1>f, <1>g, <2>1 DEF Dies, manager, threads
<1>2. ASSUME NEW t \in Thread, NEW d \in Client, serviceDied(t, d)
      PROVE  \E u \in Thread : Forgets(u, c)'
  <2>1. CASE c = d
    BY <1>2, <2>1 DEF serviceDied, Forgets, WorksFor, TypeOK, manager
  <2>2. CASE c # d
    <3>1. Gone(c) /\ c \in mClients
      BY <1>2, <2>2 DEF serviceDied, Gone, TypeOK, manager
    <3>2. PICK u \in Thread : Forgets(u, c)
      BY <1>g, <3>1
    <3>3. u # t
      BY <1>2, <3>2 DEF serviceDied, Forgets, WorksFor
    <3> QED
      BY <1>2, <1>f, <3>2, <3>3 DEF serviceDied, TypeOK, manager
  <2> QED
    BY <2>1, <2>2
<1>3. ASSUME NEW t \in Thread, NEW d \in Client,
             (\E o \in Request : subscribe(t, d, o)) \/ (\E p \in Prop : unsubscribe(t, d, p))
      PROVE  \E u \in Thread : Forgets(u, c)'
  <2>1. Gone(c) /\ c \in mClients
    BY <1>3 DEF history, subscribe, unsubscribe, Gone, manager
  <2>2. PICK u \in Thread : Forgets(u, c)
    BY <1>g, <2>1
  <2>3. u # t
    BY <1>3, <2>2 DEF subscribe, unsubscribe, Forgets, WorksFor
  <2> QED
    BY <1>3, <1>f, <2>2, <2>3 DEF subscribe, unsubscribe, TypeOK, manager
<1>4. ASSUME NEW t \in Thread, addOrUpdateSubscription(t)
      PROVE  \E u \in Thread : Forgets(u, c)'
  <2>1. Gone(c)
    BY <1>4 DEF addOrUpdateSubscription, Gone
  <2>2. caller[t] # c
    BY <1>4, <2>1 DEF addOrUpdateSubscription, OnlyDeathServesGone, WorksFor
  <2>3. c \in mClients
    BY <1>4, <2>2 DEF addOrUpdateSubscription
  <2>4. PICK u \in Thread : Forgets(u, c)
    BY <1>g, <2>1, <2>3
  <2>5. u # t
    BY <2>2, <2>4 DEF Forgets, WorksFor
  <2>6. \A p \in Prop : c \in mPropToClients'[p] => c \in mPropToClients[p]
    BY <1>4, <2>2 DEF addOrUpdateSubscription
  <2> QED
    BY <1>4, <1>f, <2>4, <2>5, <2>6 DEF addOrUpdateSubscription, TypeOK
<1>5. ASSUME NEW t \in Thread, subscribeFails(t) \/ subscribeReturns(t)
      PROVE  \E u \in Thread : Forgets(u, c)'
  <2>1. Gone(c) /\ c \in mClients
    BY <1>5 DEF history, subscribeFails, subscribeReturns, Gone, manager
  <2>2. PICK u \in Thread : Forgets(u, c)
    BY <1>g, <2>1
  <2>3. u # t
    BY <1>5, <2>2 DEF subscribeFails, subscribeReturns, Forgets, WorksFor
  <2> QED
    BY <1>5, <1>f, <2>2, <2>3 DEF subscribeFails, subscribeReturns, Returns, TypeOK, manager
<1>6. ASSUME NEW t \in Thread, unsubscribeReturns(t)
      PROVE  \E u \in Thread : Forgets(u, c)'
  <2>1. Gone(c) /\ c \in mClients
    BY <1>6 DEF history, unsubscribeReturns, Gone, manager
  <2>2. PICK u \in Thread : Forgets(u, c)
    BY <1>g, <2>1
  <2>3. \E p \in Prop : c \in mPropToClients[p]
    BY <2>1, Known DEF Tables
  <2>4. u # t
    BY <1>6, <2>2, <2>3 DEF unsubscribeReturns, Forgets, WorksFor
  <2> QED
    BY <1>6, <1>f, <2>2, <2>4 DEF unsubscribeReturns, Returns, TypeOK, manager
<1>7. ASSUME NEW t \in Thread, onCallbackDead(t)
      PROVE  \E u \in Thread : Forgets(u, c)'
  <2>1. Gone(c) /\ c \in mClients
    BY <1>7 DEF history, onCallbackDead, Gone, manager
  <2>2. PICK u \in Thread : Forgets(u, c)
    BY <1>g, <2>1
  <2>3. CASE u = t
    <3>1. caller[t] = c
      BY <2>2, <2>3 DEF Forgets, WorksFor
    <3>2. \A p \in Prop : c \in mPropToClients[p] => p \in SubscribedProperties(c)
      BY DEF Tables, SubscribersHaveOptions, SubscribedProperties
    <3> QED
      BY <1>7, <3>1, <3>2 DEF onCallbackDead, Forgets, WorksFor, TypeOK, manager
  <2>4. CASE u # t
    BY <1>7, <1>f, <2>2, <2>4 DEF onCallbackDead, TypeOK, manager
  <2> QED
    BY <2>3, <2>4
<1>8. ASSUME NEW t \in Thread, NEW p \in Prop, halSubscribe(t, p)
      PROVE  \E u \in Thread : Forgets(u, c)'
  <2>1. Gone(c) /\ c \in mClients
    BY <1>8 DEF halSubscribe, Gone, manager
  <2> QED
    BY <1>8, <1>f, <1>g, <2>1 DEF halSubscribe, manager
<1>9. ASSUME NEW t \in Thread, NEW p \in Prop, unsubscribeLocked(t, p)
      PROVE  \E u \in Thread : Forgets(u, c)'
  <2>1. Gone(c) /\ c \in mClients
    BY <1>9 DEF unsubscribeLocked, Gone
  <2>2. PICK u \in Thread : Forgets(u, c)
    BY <1>g, <2>1
  <2>3. \A q \in Prop : c \in mPropToClients'[q] =>
          c \in mPropToClients[q] /\ (caller[t] = c => q # p)
    BY <1>9, <2>1 DEF unsubscribeLocked, ClientsWithout, TypeOK
  <2>4. CASE u = t
    <3>1. caller[t] = c /\ pc[t] = "forget"
      BY <1>9, <2>2, <2>4 DEF unsubscribeLocked, Forgets, WorksFor
    <3> QED
      BY <1>9, <2>2, <2>3, <2>4, <3>1 DEF unsubscribeLocked, Forgets, WorksFor, TypeOK
  <2>5. CASE u # t
    BY <1>9, <1>f, <2>2, <2>3, <2>5 DEF unsubscribeLocked, TypeOK
  <2> QED
    BY <2>4, <2>5
<1> QED
  BY <1>1, <1>2, <1>3, <1>4, <1>5, <1>6, <1>7, <1>8, <1>9 DEF Next, Serve

-----------------------------------------------------------------------------
(* The theorems *)

LEMMA InitInv == ASSUME Init PROVE Inv
<1>1. TypeOK
  BY NothingIsTyped, RateAssumption DEF Init, TypeOK
<1>2. ThreadsOK /\ OnlyDeathServesGone /\ GoneAreBeingForgotten
  BY DEF Init, ThreadsOK, OnlyDeathServesGone, GoneAreBeingForgotten, WorksFor
<1>3. SubscribersHaveOptions /\ ClientsAreSubscribers
  BY DEF Init, SubscribersHaveOptions, ClientsAreSubscribers
<1>4. EventsReachAskers /\ OptionsCoverAskers
  BY NothingIsTyped DEF Init, EventsReachAskers, OptionsCoverAskers, Asks, Flag
<1>5. HalServesOptions
  BY NothingIsTyped DEF Init, HalServesOptions
<1> QED
  BY <1>1, <1>2, <1>3, <1>4, <1>5 DEF Inv

LEMMA InvKept == ASSUME Inv, [Next]_vars PROVE Inv'
<1>1. CASE Next
  <2>1. TypeOK'
    BY <1>1, CallsKeepTypes, WorkKeepsTypes DEF Inv, Next, Serve
  <2>2. ThreadsOK' /\ Tables'
    BY <1>1, ThreadsKnow, TablesKept DEF Inv, Tables
  <2>3. OptionsCoverAskers' /\ HalServesOptions'
    BY <1>1, <2>2, CoverKept, ServiceKept DEF Inv, Tables
  <2>4. OnlyDeathServesGone' /\ GoneAreBeingForgotten'
    BY <1>1, OnlyDeathKept, ForgettingKept DEF Inv, Tables
  <2> QED
    BY <2>1, <2>2, <2>3, <2>4 DEF Inv, Tables
<1>2. CASE UNCHANGED vars
  <2>1. TypeOK' /\ ThreadsOK'
    BY <1>2 DEF vars, manager, threads, history, Inv, TypeOK, ThreadsOK
  <2>2. Tables'
    BY <1>2 DEF vars, manager, history, Inv, SubscribersHaveOptions, ClientsAreSubscribers,
                EventsReachAskers, Asks, Receives, Tables
  <2>3. OptionsCoverAskers' /\ HalServesOptions'
    BY <1>2 DEF vars, manager, threads, history, Inv, OptionsCoverAskers, Asks, HalServesOptions,
                RateToCome
  <2>4. OnlyDeathServesGone' /\ GoneAreBeingForgotten'
    BY <1>2 DEF vars, manager, threads, history, Inv, OnlyDeathServesGone, GoneAreBeingForgotten, Gone,
                Forgets, WorksFor
  <2> QED
    BY <2>1, <2>2, <2>3, <2>4 DEF Inv, Tables
<1> QED
  BY <1>1, <1>2

\* The inductive invariant: the tables of the manager agree with one another, with
\* the clients that subscribed, and with what each thread is about to do.
THEOREM Invariant == Spec => []Inv
  BY InitInv, InvKept, PTL DEF Spec

\* The variables have their types.
THEOREM TypeCorrect == Spec => []TypeOK
<1>1. Inv => TypeOK
  BY DEF Inv
<1> QED
  BY <1>1, Invariant, PTL

\* Whoever subscribed, and did not unsubscribe since, is sent what it asked for.
THEOREM AskersAreServed == Spec => []EventsReachAskers
<1>1. Inv => EventsReachAskers
  BY DEF Inv
<1> QED
  BY <1>1, Invariant, PTL

\* Whatever rates the clients ask for, the HAL is asked for no less; its timer
\* comes to that rate once the threads under way have told it, or, when one told
\* an older rate last, stays at some rate.
THEOREM AskersHaveTimers == Spec => []HalServesAskers
<1>1. Inv => HalServesAskers
  BY DEF Inv, HalServesAskers
<1> QED
  BY <1>1, Invariant, PTL

\* The manager knows exactly its subscribers; a client that dies, no call of
\* its own running, is not one of them.
THEOREM OnlySubscribersAreKnown == Spec => []ClientsAreForgotten
<1>1. Inv => ClientsAreForgotten
  BY DEF Inv, GoneAreBeingForgotten, Gone, Forgets, DeadAreForgotten, ClientsAreForgotten
<1> QED
  BY <1>1, Invariant, PTL

-----------------------------------------------------------------------------
(* When the threads rest *)

AtRest == \A t \in Thread : pc[t] = "idle"

\* When no call and no notice of a death is being served, whoever asked for events
\* of the car has a timer for them in the HAL, of the rate asked or more unless an
\* older rate was told last, and a client whose death was noticed while none of its
\* calls ran has no property: what the manager and the HAL disagree about between
\* their locks passes, but for the rate.
Resting ==
  /\ \A c \in Client, p \in Prop : Asks(c, p, "car") =>
       /\ mCookieToEventsMap[p] # NONE
       /\ teller[p] # NONE => mCookieToEventsMap[p] >= asked[c][p]["car"]
  /\ \A c \in Client : Gone(c) => \A p \in Prop : c \notin mPropToClients[p]

\* Once the threads rest, the manager's tables and the HAL's timers agree so.
THEOREM RestIsConsistent == Spec => [](AtRest => Resting)
<1>1. ASSUME Inv, AtRest
      PROVE  Resting
  <2>1. \A t \in Thread : updated[t] = Nothing
    BY <1>1 DEF Inv, ThreadsOK, AtRest
  <2>2. ASSUME NEW c \in Client, NEW p \in Prop, Asks(c, p, "car")
        PROVE  /\ mCookieToEventsMap[p] # NONE
               /\ teller[p] # NONE => mCookieToEventsMap[p] >= asked[c][p]["car"]
    <3>1. /\ mHalEventSubscribeOptions[p] # NONE
          /\ mHalEventSubscribeOptions[p].rate >= asked[c][p]["car"]
      BY <1>1, <2>2 DEF Inv, OptionsCoverAskers
    <3>2. mHalEventSubscribeOptions[p] \in Options /\ teller[p] \in Thread \union {NONE}
      BY <1>1, <3>1 DEF Inv, TypeOK, OptionsOrNone
    <3>3. mHalEventSubscribeOptions[p].rate # NONE
      BY <3>2, NoneAssumption DEF Options
    <3>4. teller[p] # NONE => mCookieToEventsMap[p] = mHalEventSubscribeOptions[p].rate
      BY <1>1, <2>1, <3>1, <3>2, NothingIsTyped DEF Inv, HalServesOptions, RateToCome
    <3>5. teller[p] = NONE => mCookieToEventsMap[p] # NONE
      BY <1>1, <3>1 DEF Inv, HalServesOptions
    <3>. QED  BY <3>1, <3>3, <3>4, <3>5
  <2>3. \A c \in Client : Gone(c) => c \notin mClients
    BY <1>1 DEF Inv, GoneAreBeingForgotten, Forgets, WorksFor, AtRest
  <2>4. QED BY <1>1, <2>2, <2>3 DEF Inv, ClientsAreSubscribers, Resting
<1>2. QED BY <1>1, Invariant, PTL
=============================================================================
