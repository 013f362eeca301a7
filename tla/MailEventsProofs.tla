--------------------------- MODULE MailEventsProofs ----------------------------
(***************************************************************************)
(* Theorems about MailEvents, for any finite sets of mails and alerts, any *)
(* workers and channels, and any sizes of the buffers and of the queue.    *)
(***************************************************************************)
EXTENDS MailEvents, FiniteSetTheorems, SequenceTheorems, WellFoundedInduction, TLAPS

------------------------------------------------------------------------------
(* Queues *)

LEMMA Appended ==
    ASSUME NEW S, NEW q \in Seq(S), NEW e \in S
    PROVE  /\ Append(q, e) \in Seq(S) /\ Len(Append(q, e)) = Len(q) + 1 /\ Len(q) \in Nat
           /\ ToSet(Append(q, e)) = ToSet(q) \cup {e}
           /\ IsInjective(q) /\ e \notin ToSet(q) => IsInjective(Append(q, e))
<1>1. /\ Append(q, e) \in Seq(S) /\ Len(Append(q, e)) = Len(q) + 1 /\ Len(q) \in Nat
      /\ \A i \in 1..Len(q) : Append(q, e)[i] = q[i]
      /\ Append(q, e)[Len(q) + 1] = e
    BY AppendProperties, LenProperties
<1>2. DOMAIN q = 1..Len(q) /\ DOMAIN Append(q, e) = 1..(Len(q) + 1)
    BY <1>1, LenProperties
<1>3. ToSet(Append(q, e)) = ToSet(q) \cup {e}
    BY <1>1, <1>2 DEF ToSet
<1>4. ASSUME IsInjective(q), e \notin ToSet(q) PROVE IsInjective(Append(q, e))
    <2>1. \A i \in 1..Len(q) : q[i] # e
        BY <1>2, <1>4 DEF ToSet
    <2>. QED  BY <1>1, <1>2, <1>4, <2>1 DEF IsInjective
<1>. QED  BY <1>1, <1>3, <1>4

LEMMA Taken ==
    ASSUME NEW S, NEW q \in Seq(S), q # <<>>
    PROVE  /\ Head(q) \in S /\ Tail(q) \in Seq(S) /\ Len(Tail(q)) = Len(q) - 1 /\ Len(q) \in Nat
           /\ ToSet(q) = {Head(q)} \cup ToSet(Tail(q))
           /\ IsInjective(q) => Head(q) \notin ToSet(Tail(q)) /\ IsInjective(Tail(q))
<1>1. /\ Head(q) \in S /\ Tail(q) \in Seq(S) /\ Len(Tail(q)) = Len(q) - 1
      /\ \A i \in 1..Len(Tail(q)) : Tail(q)[i] = q[i + 1]
      /\ Len(q) \in Nat \ {0} /\ Head(q) = q[1]
    BY HeadTailProperties, EmptySeq
<1>2. DOMAIN q = 1..Len(q) /\ DOMAIN Tail(q) = 1..(Len(q) - 1)
    BY <1>1, LenProperties
<1>3. ToSet(q) = {Head(q)} \cup ToSet(Tail(q))
    <2>1. \A i \in 1..Len(q) : i = 1 \/ (i - 1 \in 1..Len(Tail(q)) /\ q[i] = Tail(q)[i - 1])
        BY <1>1
    <2>2. ToSet(q) \subseteq {Head(q)} \cup ToSet(Tail(q))
        <3>1. ASSUME NEW i \in 1..Len(q) PROVE q[i] \in {Head(q)} \cup ToSet(Tail(q))
            <4>1. CASE i = 1
                BY <1>1, <4>1
            <4>2. CASE i - 1 \in 1..Len(Tail(q)) /\ q[i] = Tail(q)[i - 1]
                BY <1>1, <1>2, <4>2 DEF ToSet
            <4>. QED  BY <2>1, <4>1, <4>2
        <3>. QED  BY <1>2, <3>1 DEF ToSet
    <2>3. \A i \in 1..Len(Tail(q)) : i + 1 \in 1..Len(q) /\ Tail(q)[i] = q[i + 1]
        BY <1>1
    <2>4. {Head(q)} \cup ToSet(Tail(q)) \subseteq ToSet(q)
        BY <1>1, <1>2, <2>3 DEF ToSet
    <2>. QED  BY <2>2, <2>4
<1>4. ASSUME IsInjective(q) PROVE Head(q) \notin ToSet(Tail(q)) /\ IsInjective(Tail(q))
    <2>1. \A i \in 1..Len(Tail(q)) : i + 1 \in 1..Len(q) /\ i + 1 # 1 /\ Tail(q)[i] = q[i + 1]
        BY <1>1
    <2>2. Head(q) \notin ToSet(Tail(q))
        BY <1>1, <1>2, <1>4, <2>1 DEF ToSet, IsInjective
    <2>3. ASSUME NEW i \in 1..Len(Tail(q)), NEW j \in 1..Len(Tail(q)), Tail(q)[i] = Tail(q)[j] PROVE i = j
        <3>1. i + 1 = j + 1
            BY <1>2, <1>4, <2>1, <2>3 DEF IsInjective
        <3>. QED  BY <3>1
    <2>. QED  BY <1>1, <1>2, <2>2, <2>3 DEF IsInjective
<1>. QED  BY <1>1, <1>3, <1>4

LEMMA NoneAtFirst ==
    /\ \A S : <<>> \in Seq(S)
    /\ Len(<<>>) = 0 /\ ToSet(<<>>) = {} /\ IsInjective(<<>>)
<1>1. DOMAIN <<>> = {}
    OBVIOUS
<1>. QED  BY <1>1, EmptySeq DEF ToSet, IsInjective

LEMMA MembersOf == \A S : \A q \in Seq(S) : ToSet(q) \subseteq S /\ Len(q) \in Nat
BY ElementOfSeq, LenProperties DEF ToSet

------------------------------------------------------------------------------
(* Channels of notifications *)

\* The next channel is the first from i on that is not off.
LEMMA NextChannel ==
    ASSUME config \in [DOMAIN Channels -> {"on", "off", "broken"}], NEW i \in 1..(Len(Channels) + 1)
    PROVE  /\ Len(Channels) \in Nat /\ DOMAIN Channels = 1..Len(Channels)
           /\ ChannelFrom(i) \in i..(Len(Channels) + 1)
           /\ \A j \in DOMAIN Channels : i <= j /\ j < ChannelFrom(i) => config[j] = "off"
<1>. DEFINE ahead == {j \in DOMAIN Channels : j >= i /\ config[j] # "off"}
<1>1. Len(Channels) \in Nat /\ DOMAIN Channels = 1..Len(Channels)
    BY EventsAssumption, LenProperties
<1>2. CASE ahead = {}
    BY <1>1, <1>2 DEF ChannelFrom
<1>3. CASE ahead # {}
    <2>1. ahead \subseteq Nat
        BY <1>1
    <2>. HIDE DEF ahead
    <2>2. \E j \in ahead : \A k \in ahead : ~(<<k, j>> \in OpToRel(<, Nat))
        BY <1>3, <2>1, NatLessThanWellFounded, WFMin
    <2>3. \E j \in ahead : \A k \in ahead : j <= k
        <3>1. PICK j \in ahead : \A k \in ahead : ~(<<k, j>> \in OpToRel(<, Nat))
            BY <2>2
        <3>2. ASSUME NEW k \in ahead PROVE j <= k
            <4>1. k \in Nat /\ j \in Nat
                BY <2>1
            <4>2. \A m, n \in Nat : m < n => <<m, n>> \in OpToRel(<, Nat)
                BY Zenon DEF OpToRel
            <4>3. <<k, j>> \notin OpToRel(<, Nat)
                BY <3>1, Zenon
            <4>4. ~(k < j)
                BY <4>1, <4>2, <4>3, Zenon
            <4>. QED  BY <4>1, <4>4
        <3>. QED  BY <3>2
    <2>. DEFINE first == CHOOSE j \in ahead : \A k \in ahead : j <= k
    <2>4. first \in ahead /\ \A k \in ahead : first <= k
        BY <2>3
    <2>5. ChannelFrom(i) = first
        BY <1>3 DEF ChannelFrom, ahead
    <2>. HIDE DEF first
    <2>. QED  BY <1>1, <2>4, <2>5 DEF ahead
<1>. QED  BY <1>1, <1>2, <1>3

------------------------------------------------------------------------------
(* Types *)

HubTypes ==
    /\ published \subseteq stored /\ stored \subseteq Mails
    /\ subscribed \subseteq Subscribers /\ eventsDropped \in Nat
    /\ buffer \in [Subscribers -> Seq(Mails)]
    /\ \A s \in Subscribers : Len(buffer[s]) <= HubBuffer
    /\ \A c \in Connections : ToSet(buffer[c]) \subseteq InBox

Answers == [emails : SUBSET InBox, of : SUBSET InBox]

PageTypes ==
    /\ page \in {"new", "alone", "connecting", "connected", "fallback", "left"}
    /\ shown \subseteq InBox
    /\ loaded \in {Nothing} \cup Answers /\ polled \in {Nothing} \cup Answers
    /\ conn \in 0..MaxConnections
    /\ stream \in [Connections -> {"none", "asked", "subscribed", "open", "ended"}]
    /\ line \in [Connections -> {"up", "stalled", "down"}]

QueueTypes ==
    /\ queue \in Seq(Events) /\ Len(queue) <= QueueSize /\ dropped \in Nat
    /\ raised \subseteq Alerts /\ cancelled \in BOOLEAN
    /\ config \in [DOMAIN Channels -> {"on", "off", "broken"}]

Jobs == [at : {"idle", "try", "backoff", "stopped"}, event : Events \cup {Nothing},
         channel : 0..Len(Channels), attempt : 0..MaxAttempts]

\* A worker that delivers has an event, a channel and an attempt; another has no event.
WorkerTypes ==
    /\ job \in [Workers -> Jobs]
    /\ \A w \in Workers :
          IF job[w].at \in {"try", "backoff"}
          THEN /\ job[w].event \in Events /\ job[w].channel \in DOMAIN Channels
               /\ job[w].attempt \in 1..MaxAttempts
               /\ job[w].at = "backoff" => job[w].attempt < MaxAttempts
          ELSE job[w].event = Nothing
    /\ finished \subseteq Events
    /\ reported \in [Events -> [DOMAIN Channels -> Nat]]
    /\ seen \in [Events -> [DOMAIN Channels -> Nat]]

TypeInv == HubTypes /\ PageTypes /\ QueueTypes /\ WorkerTypes

LEMMA Kept ==
    /\ HubTypes /\ UNCHANGED <<mailVars, hubVars>> => HubTypes'
    /\ PageTypes /\ UNCHANGED <<page, shown, loaded, polled, conn, stream, line>> => PageTypes'
    /\ QueueTypes /\ UNCHANGED queueVars => QueueTypes'
    /\ WorkerTypes /\ UNCHANGED workerVars => WorkerTypes'
BY DEF HubTypes, PageTypes, QueueTypes, WorkerTypes, mailVars, hubVars, queueVars, workerVars

LEMMA Subscribing ==
    Dispatcher \in Subscribers /\ Connections \subseteq Subscribers /\ Dispatcher \notin Connections
BY EventsAssumption DEF Dispatcher, Subscribers, Connections

LEMMA MailTypes ==
    ASSUME TypeInv, NEW m \in Mails, InsertEmailResolved(m) \/ publishEmailEvent(m)
    PROVE  TypeInv'
<1>0. HubTypes /\ PageTypes /\ QueueTypes /\ WorkerTypes
    BY DEF TypeInv
<1>1. PageTypes' /\ QueueTypes' /\ WorkerTypes'
    BY <1>0, Kept DEF InsertEmailResolved, publishEmailEvent, pageVars
<1>2. CASE InsertEmailResolved(m)
    <2>1. HubTypes'
        BY <1>0, <1>2 DEF InsertEmailResolved, HubTypes, hubVars
    <2>. QED  BY <1>1, <2>1 DEF TypeInv
<1>3. CASE publishEmailEvent(m)
    <2>. DEFINE For == {s \in subscribed : Wants(s, m)}
    <2>1. /\ m \in stored /\ published' = published \cup {m} /\ UNCHANGED <<stored, subscribed>>
          /\ buffer' = [s \in Subscribers |-> IF s \in For /\ HasRoom(s) THEN Append(buffer[s], m) ELSE buffer[s]]
          /\ eventsDropped' = eventsDropped + Cardinality({s \in For : ~HasRoom(s)})
        BY <1>3 DEF publishEmailEvent
    <2>2. Cardinality({s \in For : ~HasRoom(s)}) \in Nat
        <3>1. IsFiniteSet(Subscribers)
            <4>1. IsFiniteSet(1..MaxConnections)
                BY FS_Interval, EventsAssumption
            <4>2. IsFiniteSet({Dispatcher})
                BY FS_Singleton
            <4>. QED  BY <4>1, <4>2, FS_Union DEF Subscribers, Connections
        <3>2. {s \in For : ~HasRoom(s)} \in SUBSET Subscribers
            BY <1>0 DEF HubTypes
        <3>. QED  BY <3>1, <3>2, FS_Subset, FS_CardinalityType
    <2>3. \A s \in For : s = Dispatcher \/ m \in InBox
        BY DEF Wants
    <2>. HIDE DEF For
    <2>4. ASSUME NEW s \in Subscribers
          PROVE  /\ buffer'[s] \in Seq(Mails) /\ Len(buffer'[s]) <= HubBuffer
                 /\ s \in Connections => ToSet(buffer'[s]) \subseteq InBox
        <3>1. buffer[s] \in Seq(Mails) /\ Len(buffer[s]) <= HubBuffer
              /\ (s \in Connections => ToSet(buffer[s]) \subseteq InBox)
            BY <1>0 DEF HubTypes
        <3>2. CASE s \in For /\ HasRoom(s)
            <4>1. buffer'[s] = Append(buffer[s], m) /\ Len(buffer[s]) < HubBuffer
                BY <2>1, <3>2 DEF HasRoom
            <4>2. /\ Append(buffer[s], m) \in Seq(Mails) /\ Len(Append(buffer[s], m)) = Len(buffer[s]) + 1
                  /\ ToSet(Append(buffer[s], m)) = ToSet(buffer[s]) \cup {m} /\ Len(buffer[s]) \in Nat
                BY <3>1, Appended
            <4>3. s \in Connections => m \in InBox
                BY <2>3, <3>2, Subscribing
            <4>. QED  BY <3>1, <4>1, <4>2, <4>3, EventsAssumption
        <3>3. CASE ~(s \in For /\ HasRoom(s))
            BY <2>1, <3>1, <3>3
        <3>. QED  BY <3>2, <3>3
    <2>5. buffer' \in [Subscribers -> Seq(Mails)]
        BY <2>1, <2>4
    <2>6. HubTypes'
        BY <1>0, <2>1, <2>2, <2>4, <2>5, Subscribing DEF HubTypes
    <2>. QED  BY <1>1, <2>6 DEF TypeInv
<1>. QED  BY <1>2, <1>3

\* What is left of the hub when a subscriber goes or takes an event.
LEMMA UnsubscribeTypes ==
    ASSUME HubTypes, NEW s \in Subscribers, Unsubscribe(s), UNCHANGED mailVars
    PROVE  HubTypes'
BY NoneAtFirst, Subscribing, EventsAssumption DEF HubTypes, Unsubscribe, Without, mailVars

LEMMA TakeTypes ==
    ASSUME HubTypes, NEW s \in Subscribers, buffer[s] # <<>>, buffer' = [buffer EXCEPT ![s] = Tail(@)],
           UNCHANGED <<mailVars, subscribed, eventsDropped>>
    PROVE  HubTypes'
<1>1. /\ buffer[s] \in Seq(Mails) /\ Len(buffer[s]) <= HubBuffer
      /\ s \in Connections => ToSet(buffer[s]) \subseteq InBox
    BY DEF HubTypes
<1>2. /\ Tail(buffer[s]) \in Seq(Mails) /\ Len(Tail(buffer[s])) = Len(buffer[s]) - 1 /\ Len(buffer[s]) \in Nat
      /\ ToSet(Tail(buffer[s])) \subseteq ToSet(buffer[s])
    BY <1>1, Taken
<1>3. Len(Tail(buffer[s])) <= HubBuffer /\ (s \in Connections => ToSet(Tail(buffer[s])) \subseteq InBox)
    BY <1>1, <1>2, EventsAssumption
<1>4. buffer'[s] = Tail(buffer[s]) /\ \A q \in Subscribers \ {s} : buffer'[q] = buffer[q]
    BY DEF HubTypes
<1>5. buffer' \in [Subscribers -> Seq(Mails)]
    BY <1>2 DEF HubTypes
<1>. QED  BY <1>3, <1>4, <1>5, Subscribing DEF HubTypes, mailVars

LEMMA HandlerTypes ==
    ASSUME TypeInv, NEW c \in Connections, HandlerStep(c) \/ LineBreaks(c)
    PROVE  TypeInv'
<1>0. HubTypes /\ PageTypes /\ QueueTypes /\ WorkerTypes /\ c \in Subscribers
    BY Subscribing DEF TypeInv
<1>1. QueueTypes' /\ WorkerTypes'
    BY <1>0, Kept DEF HandlerStep, Subscribe, WriteReady, WriteEvent, StreamEnds, LineBreaks, Handles
<1>2. SUFFICES HubTypes' /\ PageTypes'
    BY <1>1 DEF TypeInv
<1>3. CASE LineBreaks(c)
    BY <1>0, <1>3, Kept DEF LineBreaks, PageTypes
<1>4. CASE Subscribe(c)
    <2>1. HubTypes'
        BY <1>0, <1>4 DEF Subscribe, Handles, HubTypes, mailVars
    <2>2. PageTypes'
        BY <1>0, <1>4 DEF Subscribe, Handles, PageTypes
    <2>. QED  BY <2>1, <2>2
<1>5. CASE WriteReady(c)
    <2>1. HubTypes'
        BY <1>0, <1>5, UnsubscribeTypes, Kept DEF WriteReady, Handles, End
    <2>2. PageTypes'
        BY <1>0, <1>5 DEF WriteReady, Handles, End, Opened, PageTypes
    <2>. QED  BY <2>1, <2>2
<1>6. CASE WriteEvent(c) \/ StreamEnds(c)
    <2>1. UNCHANGED mailVars
        BY <1>6 DEF WriteEvent, StreamEnds, Handles
    <2>2. HubTypes'
        BY <1>0, <1>6, <2>1, UnsubscribeTypes, TakeTypes DEF WriteEvent, StreamEnds, End
    <2>3. PageTypes'
        BY <1>0, <1>6 DEF WriteEvent, StreamEnds, Handles, End, onEmailEvent, PageTypes
    <2>. QED  BY <2>2, <2>3
<1>. QED  BY <1>3, <1>4, <1>5, <1>6 DEF HandlerStep

LEMMA PageStepTypes ==
    ASSUME TypeInv, PageStep
    PROVE  TypeInv'
<1>0. HubTypes /\ PageTypes /\ QueueTypes /\ WorkerTypes
    BY DEF TypeInv
<1>1. HubTypes' /\ QueueTypes' /\ WorkerTypes'
    BY <1>0, Kept DEF PageStep, BeginLoad, load, LoadFails, BeginPoll, pollOnce, startFallbackPolling,
                      Reconnect, Leave, Acts
<1>2. InBox \subseteq Mails /\ MaxConnections \in Nat
    BY EventsAssumption
<1>3. ListEmails \in Answers
    BY DEF ListEmails, NewestOf, Answers
<1>4. SUFFICES PageTypes'
    BY <1>1 DEF TypeInv
<1>5. /\ page' \in {"new", "alone", "connecting", "connected", "fallback", "left"}
      /\ conn' \in 0..MaxConnections
      /\ stream' \in [Connections -> {"none", "asked", "subscribed", "open", "ended"}]
    <2>1. \/ UNCHANGED <<page, conn, stream>>
          \/ page' \in {"alone", "fallback", "left"} /\ UNCHANGED <<conn, stream>>
          \/ connectRealtime
        BY DEF PageStep, BeginLoad, load, LoadFails, BeginPoll, pollOnce, startFallbackPolling, Reconnect, Leave
    <2>2. ASSUME connectRealtime
          PROVE  /\ page' = "connecting" /\ conn' \in 0..MaxConnections
                 /\ stream' \in [Connections -> {"none", "asked", "subscribed", "open", "ended"}]
        <3>1. page' = "connecting" /\ conn < MaxConnections /\ conn' = conn + 1
              /\ stream' = [stream EXCEPT ![conn + 1] = "asked"]
            BY <2>2 DEF connectRealtime
        <3>2. conn + 1 \in 0..MaxConnections
            BY <1>0, <1>2, <3>1 DEF PageTypes
        <3>3. stream' \in [Connections -> {"none", "asked", "subscribed", "open", "ended"}]
            BY <1>0, <3>1 DEF PageTypes
        <3>. QED  BY <3>1, <3>2, <3>3
    <2>. QED  BY <1>0, <2>1, <2>2 DEF PageTypes
<1>6. line' \in [Connections -> {"up", "stalled", "down"}]
    <2>1. line' \in {line, [line EXCEPT ![conn] = "down"]}
        BY DEF PageStep, BeginLoad, load, LoadFails, BeginPoll, pollOnce, startFallbackPolling, Reconnect, Leave,
               connectRealtime
    <2>. QED  BY <1>0, <2>1 DEF PageTypes
<1>7. loaded' \in {Nothing} \cup Answers /\ polled' \in {Nothing} \cup Answers
    <2>1. loaded' \in {loaded, Nothing, ListEmails} /\ polled' \in {polled, Nothing, ListEmails}
        BY DEF PageStep, BeginLoad, load, LoadFails, BeginPoll, pollOnce, startFallbackPolling, Reconnect, Leave
    <2>. QED  BY <1>0, <1>3, <2>1 DEF PageTypes
<1>8. shown' \subseteq InBox
    <2>1. \/ shown' \in {shown, {}}
          \/ loaded # Nothing /\ shown' = loaded.emails
          \/ polled # Nothing /\ shown' = polled.emails
        BY DEF PageStep, BeginLoad, load, LoadFails, BeginPoll, pollOnce, startFallbackPolling, Reconnect, Leave,
               TakeOver
    <2>. QED  BY <1>0, <2>1 DEF PageTypes, Answers
<1>. QED  BY <1>5, <1>6, <1>7, <1>8 DEF PageTypes

\* An event goes into the queue, or is dropped.
LEMMA EnqueueIs ==
    ASSUME QueueTypes, NEW event \in Events, Enqueue(event)
    PROVE  /\ queue' \in Seq(Events) /\ Len(queue') <= QueueSize /\ dropped' \in Nat
           /\ \/ /\ queue' = Append(queue, event) /\ dropped' = dropped
                 /\ ToSet(queue') = ToSet(queue) \cup {event}
                 /\ IsInjective(queue) /\ event \notin ToSet(queue) => IsInjective(queue')
              \/ queue' = queue /\ dropped' = dropped + 1
<1>1. queue \in Seq(Events) /\ Len(queue) <= QueueSize /\ dropped \in Nat /\ QueueSize \in Nat
    BY EventsAssumption DEF QueueTypes
<1>2. CASE Len(queue) < QueueSize
    <2>1. queue' = Append(queue, event) /\ dropped' = dropped
        BY <1>2 DEF Enqueue
    <2>2. /\ Append(queue, event) \in Seq(Events) /\ Len(Append(queue, event)) = Len(queue) + 1
          /\ Len(queue) \in Nat /\ ToSet(Append(queue, event)) = ToSet(queue) \cup {event}
          /\ IsInjective(queue) /\ event \notin ToSet(queue) => IsInjective(Append(queue, event))
        BY <1>1, Appended
    <2>3. Len(Append(queue, event)) <= QueueSize
        BY <1>1, <1>2, <2>2
    <2>. QED  BY <1>1, <2>1, <2>2, <2>3
<1>3. CASE ~(Len(queue) < QueueSize)
    BY <1>1, <1>3 DEF Enqueue
<1>. QED  BY <1>2, <1>3

LEMMA DispatcherTypes ==
    ASSUME TypeInv, ForwarderStep \/ stopNotifications \/ \E alert \in Alerts : PublishDomain(alert)
    PROVE  TypeInv'
<1>0. HubTypes /\ PageTypes /\ QueueTypes /\ WorkerTypes /\ Dispatcher \in Subscribers
    BY Subscribing DEF TypeInv
<1>1. PageTypes' /\ WorkerTypes'
    BY <1>0, Kept DEF ForwarderStep, Forward, ForwarderStops, stopNotifications, PublishDomain, pageVars
<1>2. SUFFICES HubTypes' /\ QueueTypes'
    BY <1>1 DEF TypeInv
<1>3. CASE Forward
    <2>1. Head(buffer[Dispatcher]) \in Events
        BY <1>0, <1>3, Taken DEF Forward, HubTypes, Events
    <2>2. QueueTypes'
        <3>1. Enqueue(Head(buffer[Dispatcher])) /\ UNCHANGED <<config, cancelled, raised>>
            BY <1>3 DEF Forward
        <3>2. queue' \in Seq(Events) /\ Len(queue') <= QueueSize /\ dropped' \in Nat
            BY <1>0, <2>1, <3>1, EnqueueIs
        <3>. QED  BY <1>0, <3>1, <3>2 DEF QueueTypes
    <2>3. HubTypes'
        BY <1>0, <1>3, TakeTypes DEF Forward
    <2>. QED  BY <2>2, <2>3
<1>4. CASE ForwarderStops
    <2>1. HubTypes'
        BY <1>0, <1>4, UnsubscribeTypes DEF ForwarderStops, ForwarderLeaves
    <2>. QED  BY <1>0, <1>4, <2>1, Kept DEF ForwarderStops
<1>5. CASE stopNotifications
    BY <1>0, <1>5, Kept DEF stopNotifications, QueueTypes
<1>6. ASSUME NEW alert \in Alerts, PublishDomain(alert)
      PROVE  HubTypes' /\ QueueTypes'
    <2>1. /\ Enqueue(alert) /\ raised' = raised \cup {alert} /\ UNCHANGED <<mailVars, hubVars, config, cancelled>>
          /\ alert \in Events
        BY <1>6 DEF PublishDomain, Events
    <2>2. queue' \in Seq(Events) /\ Len(queue') <= QueueSize /\ dropped' \in Nat
        BY <1>0, <2>1, EnqueueIs
    <2>. QED  BY <1>0, <2>1, <2>2, Kept DEF QueueTypes
<1>. QED  BY <1>3, <1>4, <1>5, <1>6 DEF ForwarderStep

\* With the channels before i behind it, the worker tries the next one, or is done.
WentOn(w, event, i) ==
    \/ /\ job' = [job EXCEPT ![w] = Idle] /\ job'[w] = Idle
       /\ finished' = finished \cup {event}
       /\ \A j \in DOMAIN Channels : i <= j => config[j] = "off"
    \/ \E k \in DOMAIN Channels :
          /\ job' = [job EXCEPT ![w] = [at |-> "try", event |-> event, channel |-> k, attempt |-> 1]]
          /\ job'[w] = [at |-> "try", event |-> event, channel |-> k, attempt |-> 1]
          /\ finished' = finished
          /\ i <= k /\ \A j \in DOMAIN Channels : i <= j /\ j < k => config[j] = "off"

LEMMA GoOnIs ==
    ASSUME QueueTypes, WorkerTypes, NEW w \in Workers, NEW event, NEW i \in 1..(Len(Channels) + 1), GoOn(w, event, i)
    PROVE  /\ \A v \in Workers \ {w} : job'[v] = job[v]
           /\ WentOn(w, event, i)
<1>1. /\ Len(Channels) \in Nat /\ DOMAIN Channels = 1..Len(Channels)
      /\ ChannelFrom(i) \in i..(Len(Channels) + 1)
      /\ \A j \in DOMAIN Channels : i <= j /\ j < ChannelFrom(i) => config[j] = "off"
    BY NextChannel DEF QueueTypes
<1>2. job \in [Workers -> Jobs]
    BY DEF WorkerTypes
<1>3. CASE ChannelFrom(i) > Len(Channels)
    <2>1. job' = [job EXCEPT ![w] = Idle] /\ finished' = finished \cup {event}
        BY <1>3 DEF GoOn
    <2>2. ChannelFrom(i) = Len(Channels) + 1
        BY <1>1, <1>3
    <2>3. \A j \in DOMAIN Channels : i <= j => config[j] = "off"
        BY <1>1, <2>2
    <2>. QED  BY <1>2, <2>1, <2>3 DEF WentOn
<1>4. CASE ~(ChannelFrom(i) > Len(Channels))
    <2>. DEFINE k == ChannelFrom(i)
    <2>1. k \in DOMAIN Channels /\ i <= k
        BY <1>1, <1>4
    <2>2. /\ job' = [job EXCEPT ![w] = [at |-> "try", event |-> event, channel |-> k, attempt |-> 1]]
          /\ finished' = finished
        BY <1>4 DEF GoOn
    <2>3. \A j \in DOMAIN Channels : i <= j /\ j < k => config[j] = "off"
        BY <1>1
    <2>. HIDE DEF k
    <2>4. /\ job'[w] = [at |-> "try", event |-> event, channel |-> k, attempt |-> 1]
          /\ \A v \in Workers \ {w} : job'[v] = job[v]
        BY <1>2, <2>2
    <2>. QED  BY <2>1, <2>2, <2>3, <2>4 DEF WentOn
<1>. QED  BY <1>3, <1>4

\* What a worker may hold.
Fits(j) ==
    /\ j \in Jobs
    /\ IF j.at \in {"try", "backoff"}
       THEN /\ j.event \in Events /\ j.channel \in DOMAIN Channels /\ j.attempt \in 1..MaxAttempts
            /\ j.at = "backoff" => j.attempt < MaxAttempts
       ELSE j.event = Nothing

LEMMA IdleFits == Fits(Idle)
BY EventsAssumption, LenProperties DEF Fits, Idle, Jobs

LEMMA JobsFit == WorkerTypes => \A w \in Workers : Fits(job[w])
BY DEF WorkerTypes, Fits

LEMMA OneJob ==
    ASSUME WorkerTypes, NEW w \in Workers, NEW j, Fits(j), job' = [job EXCEPT ![w] = j],
           finished' \subseteq Events,
           reported' \in [Events -> [DOMAIN Channels -> Nat]], seen' \in [Events -> [DOMAIN Channels -> Nat]]
    PROVE  WorkerTypes'
BY DEF WorkerTypes, Fits

LEMMA GoOnTypes ==
    ASSUME QueueTypes, WorkerTypes, NEW w \in Workers, NEW event \in Events, NEW i \in 1..(Len(Channels) + 1),
           GoOn(w, event, i),
           reported' \in [Events -> [DOMAIN Channels -> Nat]], seen' \in [Events -> [DOMAIN Channels -> Nat]]
    PROVE  WorkerTypes'
<1>1. CASE job' = [job EXCEPT ![w] = Idle] /\ finished' = finished \cup {event}
    BY <1>1, IdleFits, OneJob DEF WorkerTypes
<1>2. ASSUME NEW k \in DOMAIN Channels, finished' = finished,
             job' = [job EXCEPT ![w] = [at |-> "try", event |-> event, channel |-> k, attempt |-> 1]]
      PROVE  WorkerTypes'
    <2>. DEFINE j == [at |-> "try", event |-> event, channel |-> k, attempt |-> 1]
    <2>1. Fits(j)
        BY EventsAssumption, LenProperties DEF Fits, Jobs
    <2>2. finished' \subseteq Events /\ job' = [job EXCEPT ![w] = j]
        BY <1>2 DEF WorkerTypes
    <2>. HIDE DEF j
    <2>. QED  BY <2>1, <2>2, OneJob
<1>. QED  BY <1>1, <1>2, GoOnIs DEF WentOn

LEMMA Counting ==
    ASSUME WorkerTypes, NEW w \in Workers, job[w].at \in {"try", "backoff"},
           NEW history \in [Events -> [DOMAIN Channels -> Nat]]
    PROVE  /\ Count(history, w) \in [Events -> [DOMAIN Channels -> Nat]]
           /\ \A e \in Events : \A i \in DOMAIN Channels :
                 Count(history, w)[e][i] = IF e = job[w].event /\ i = job[w].channel
                                           THEN history[e][i] + 1 ELSE history[e][i]
<1>. DEFINE event == job[w].event
            channel == job[w].channel
<1>1. event \in Events /\ channel \in DOMAIN Channels
    BY DEF WorkerTypes
<1>2. Count(history, w) = [history EXCEPT ![event][channel] = @ + 1]
    BY DEF Count
<1>. HIDE DEF event, channel
<1>3. /\ [history EXCEPT ![event][channel] = @ + 1] \in [Events -> [DOMAIN Channels -> Nat]]
      /\ \A e \in Events : \A i \in DOMAIN Channels :
            [history EXCEPT ![event][channel] = @ + 1][e][i]
               = IF e = event /\ i = channel THEN history[e][i] + 1 ELSE history[e][i]
    BY <1>1
<1>. QED  BY <1>2, <1>3 DEF event, channel

LEMMA WorkerStepTypes ==
    ASSUME TypeInv, NEW w \in Workers, WorkerStep(w)
    PROVE  TypeInv'
<1>0. HubTypes /\ PageTypes /\ QueueTypes /\ WorkerTypes /\ Fits(job[w])
    BY JobsFit DEF TypeInv
<1>1. HubTypes' /\ PageTypes'
    BY <1>0, Kept DEF WorkerStep, TakeEvent, WorkerStops, NotConfigured, Answered, AttemptFails, BackoffEnds,
                      BackoffCancelled, Works, pageVars
<1>2. QueueTypes'
    <2>1. UNCHANGED <<config, dropped, cancelled, raised>>
        BY DEF WorkerStep, TakeEvent, WorkerStops, NotConfigured, Answered, AttemptFails, BackoffEnds,
               BackoffCancelled, Works
    <2>2. queue' = queue \/ (queue # <<>> /\ queue' = Tail(queue))
        BY DEF WorkerStep, TakeEvent, WorkerStops, NotConfigured, Answered, AttemptFails, BackoffEnds,
               BackoffCancelled
    <2>3. queue # <<>> => Tail(queue) \in Seq(Events) /\ Len(Tail(queue)) = Len(queue) - 1 /\ Len(queue) \in Nat
        BY <1>0, Taken DEF QueueTypes
    <2>4. queue' \in Seq(Events) /\ Len(queue') <= QueueSize
        BY <1>0, <2>2, <2>3, EventsAssumption DEF QueueTypes
    <2>. QED  BY <1>0, <2>1, <2>4 DEF QueueTypes
<1>3. SUFFICES WorkerTypes'
    BY <1>1, <1>2 DEF TypeInv
<1>4. Len(Channels) \in Nat /\ DOMAIN Channels = 1..Len(Channels) /\ MaxAttempts \in Nat \ {0}
    BY EventsAssumption, LenProperties
<1>5. CASE TakeEvent(w)
    <2>1. queue # <<>> /\ GoOn(w, Head(queue), 1) /\ UNCHANGED <<reported, seen>>
        BY <1>5 DEF TakeEvent
    <2>2. Head(queue) \in Events /\ 1 \in 1..(Len(Channels) + 1)
        BY <1>0, <1>4, <2>1, Taken DEF QueueTypes
    <2>3. /\ reported' \in [Events -> [DOMAIN Channels -> Nat]] /\ seen' \in [Events -> [DOMAIN Channels -> Nat]]
        BY <1>0, <2>1 DEF WorkerTypes
    <2>. QED  BY <1>0, <2>1, <2>2, <2>3, GoOnTypes
<1>6. CASE WorkerStops(w)
    <2>. DEFINE j == [job[w] EXCEPT !.at = "stopped"]
    <2>1. Fits(j)
        BY <1>0, <1>6 DEF WorkerStops, Works, Fits, Jobs
    <2>2. /\ job' = [job EXCEPT ![w] = j] /\ UNCHANGED <<finished, reported, seen>>
        BY <1>6 DEF WorkerStops
    <2>. HIDE DEF j
    <2>. QED  BY <1>0, <2>1, <2>2, OneJob DEF WorkerTypes
<1>7. CASE BackoffEnds(w)
    <2>. DEFINE j == [job[w] EXCEPT !.at = "try", !.attempt = @ + 1]
    <2>1. Fits(j)
        <3>1. job[w] \in Jobs /\ job[w].at = "backoff" /\ job[w].attempt < MaxAttempts /\ job[w].attempt \in 1..MaxAttempts
              /\ job[w].event \in Events /\ job[w].channel \in DOMAIN Channels
            BY <1>0, <1>7 DEF BackoffEnds, Works, Fits
        <3>2. job[w].attempt + 1 \in 1..MaxAttempts /\ job[w].attempt + 1 \in 0..MaxAttempts
            BY <1>4, <3>1
        <3>3. j \in Jobs /\ j.at = "try" /\ j.attempt = job[w].attempt + 1 /\ j.event = job[w].event
              /\ j.channel = job[w].channel
            BY <3>1, <3>2 DEF Jobs
        <3>. HIDE DEF j
        <3>. QED  BY <3>1, <3>2, <3>3 DEF Fits
    <2>2. /\ job' = [job EXCEPT ![w] = j] /\ UNCHANGED <<finished, reported, seen>>
        BY <1>7 DEF BackoffEnds
    <2>. HIDE DEF j
    <2>. QED  BY <1>0, <2>1, <2>2, OneJob DEF WorkerTypes
<1>8. CASE NotConfigured(w) \/ Answered(w) \/ AttemptFails(w) \/ BackoffCancelled(w)
    <2>1. job[w].at \in {"try", "backoff"}
        BY <1>8 DEF NotConfigured, Answered, AttemptFails, BackoffCancelled, Works
    <2>2. job[w].event \in Events /\ job[w].channel + 1 \in 1..(Len(Channels) + 1) /\ job[w].channel \in DOMAIN Channels
        BY <1>0, <1>4, <2>1 DEF Fits
    <2>3. reported' \in {reported, Count(reported, w)} /\ seen' \in {seen, Count(seen, w)}
        BY <1>8 DEF NotConfigured, Answered, AttemptFails, BackoffCancelled, recordDelivery
    <2>4. reported' \in [Events -> [DOMAIN Channels -> Nat]] /\ seen' \in [Events -> [DOMAIN Channels -> Nat]]
        <3>1. reported \in [Events -> [DOMAIN Channels -> Nat]] /\ seen \in [Events -> [DOMAIN Channels -> Nat]]
            BY <1>0 DEF WorkerTypes
        <3>2. Count(reported, w) \in [Events -> [DOMAIN Channels -> Nat]] /\ Count(seen, w) \in [Events -> [DOMAIN Channels -> Nat]]
            BY <1>0, <2>1, <3>1, Counting
        <3>. QED  BY <2>3, <3>1, <3>2
    <2>5. CASE GoOn(w, job[w].event, job[w].channel + 1)
        BY <1>0, <2>2, <2>4, <2>5, GoOnTypes
    <2>6. CASE ~GoOn(w, job[w].event, job[w].channel + 1)
        <3>. DEFINE j == [job[w] EXCEPT !.at = "backoff"]
        <3>1. AttemptFails(w) /\ ~IsLast(w) /\ job' = [job EXCEPT ![w] = j] /\ finished' = finished
            BY <1>8, <2>6 DEF NotConfigured, Answered, AttemptFails, BackoffCancelled
        <3>2. Fits(j)
            <4>1. job[w] \in Jobs /\ job[w].attempt \in 1..MaxAttempts /\ job[w].attempt # MaxAttempts
                BY <1>0, <2>1, <3>1 DEF Fits, IsLast
            <4>2. j \in Jobs /\ j.at = "backoff" /\ j.attempt = job[w].attempt /\ j.event = job[w].event
                  /\ j.channel = job[w].channel
                BY <4>1 DEF Jobs
            <4>. HIDE DEF j
            <4>. QED  BY <1>4, <2>2, <4>1, <4>2 DEF Fits
        <3>. HIDE DEF j
        <3>. QED  BY <1>0, <2>4, <3>1, <3>2, OneJob DEF WorkerTypes
    <2>. QED  BY <2>5, <2>6
<1>. QED  BY <1>5, <1>6, <1>7, <1>8 DEF WorkerStep

LEMMA TypeStep == TypeInv /\ [Next]_vars => TypeInv'
<1>1. ASSUME TypeInv, UNCHANGED vars PROVE TypeInv'
    BY <1>1, Kept DEF TypeInv, vars, pageVars
<1>. QED  BY <1>1, MailTypes, HandlerTypes, PageStepTypes, DispatcherTypes, WorkerStepTypes DEF Next

LEMMA TypeInit == Init => TypeInv
<1>. SUFFICES ASSUME Init PROVE TypeInv
    OBVIOUS
<1>1. PICK start \in Starts :
         /\ stored = start.past \cap Mails /\ published = stored
         /\ subscribed = IF start.stopped THEN {} ELSE {Dispatcher}
         /\ buffer = [s \in Subscribers |-> <<>>] /\ eventsDropped = 0
         /\ page = start.page
         /\ shown = {} /\ loaded = Nothing /\ polled = Nothing
         /\ conn = 0
         /\ stream = [c \in Connections |-> "none"]
         /\ line = [c \in Connections |-> "up"]
         /\ config = start.config
         /\ cancelled = start.stopped
         /\ queue = <<>> /\ dropped = 0
         /\ job = [w \in Workers |-> IF start.stopped THEN [Idle EXCEPT !.at = "stopped"] ELSE Idle]
         /\ raised = start.past \cap Alerts /\ finished = start.past
         /\ reported = RecordsOf(start) /\ seen = RecordsOf(start)
    BY DEF Init
<1>2. /\ start.page \in {"new", "left"} /\ start.past \subseteq Events /\ start.stopped \in BOOLEAN
      /\ start.config \in [DOMAIN Channels -> {"on", "off", "broken"}]
    BY EventsAssumption DEF Events
<1>3. HubTypes
    BY <1>1, NoneAtFirst, Subscribing, EventsAssumption DEF HubTypes
<1>4. PageTypes
    BY <1>1, <1>2, EventsAssumption DEF PageTypes
<1>5. QueueTypes
    BY <1>1, <1>2, NoneAtFirst, EventsAssumption DEF QueueTypes
<1>6. WorkerTypes
    <2>1. Fits([Idle EXCEPT !.at = "stopped"]) /\ Fits(Idle)
        BY IdleFits DEF Fits, Idle, Jobs
    <2>2. \A w \in Workers : Fits(job[w])
        BY <1>1, <2>1
    <2>3. job \in [Workers -> Jobs]
        BY <1>1, <2>1 DEF Fits
    <2>4. RecordsOf(start) \in [Events -> [DOMAIN Channels -> Nat]]
        BY DEF RecordsOf
    <2>5. finished \subseteq Events /\ reported \in [Events -> [DOMAIN Channels -> Nat]]
          /\ seen \in [Events -> [DOMAIN Channels -> Nat]]
        BY <1>1, <1>2, <2>4
    <2>. QED  BY <2>2, <2>3, <2>5 DEF WorkerTypes, Fits
<1>. QED  BY <1>3, <1>4, <1>5, <1>6 DEF TypeInv

\* Types; no stream is given a mail of another mailbox and the page shows none
\* (events.go:40-53), whatever connections break and answers are late.
THEOREM TypeCorrect == Spec => []TypeOK
<1>1. TypeInv => TypeOK
    <2>. SUFFICES ASSUME TypeInv PROVE TypeOK
        OBVIOUS
    <2>1. \A s \in Subscribers : ToSet(buffer[s]) \subseteq Mails
        BY MembersOf DEF TypeInv, HubTypes
    <2>2. ToSet(queue) \subseteq Events
        BY MembersOf DEF TypeInv, QueueTypes
    <2>3. \A w \in Workers : job[w].at \in {"idle", "try", "backoff", "stopped"} /\ job[w].attempt \in Nat
        BY EventsAssumption DEF TypeInv, WorkerTypes, Jobs
    <2>. QED  BY <2>1, <2>2, <2>3 DEF TypeInv, HubTypes, PageTypes, QueueTypes, TypeOK
<1>. QED  BY <1>1, TypeInit, TypeStep, PTL DEF Spec

------------------------------------------------------------------------------
(* What the page shows *)

\* Only the last connection may carry anything to the page, and a handler that streams
\* is subscribed.
Connected ==
    /\ page = "connected" => conn \in Connections
    /\ \A c \in Connections :
          /\ c > conn => stream[c] = "none"
          /\ c < conn => line[c] = "down"
          /\ stream[c] \in {"subscribed", "open"} => c \in subscribed

\* What neither handlers nor the page do leaves the connections alone.
LEMMA ConnectionsKept ==
    ASSUME TypeInv, [Next]_vars
    PROVE  \/ \E c \in Connections : HandlerStep(c) \/ LineBreaks(c)
           \/ PageStep
           \/ \E m \in Mails : publishEmailEvent(m)
           \/ /\ UNCHANGED <<published, pageVars>> /\ subscribed \ {Dispatcher} \subseteq subscribed'
              /\ \A c \in Connections : buffer'[c] = buffer[c]
<1>. DEFINE Alone == /\ UNCHANGED <<published, pageVars>> /\ subscribed \ {Dispatcher} \subseteq subscribed'
                     /\ \A c \in Connections : buffer'[c] = buffer[c]
<1>1. UNCHANGED <<published, pageVars, subscribed, buffer>> => Alone
    OBVIOUS
<1>2. ASSUME \/ UNCHANGED vars \/ stopNotifications
             \/ (\E m \in Mails : InsertEmailResolved(m)) \/ (\E alert \in Alerts : PublishDomain(alert))
             \/ \E w \in Workers : WorkerStep(w)
      PROVE  UNCHANGED <<published, pageVars, subscribed, buffer>>
    BY <1>2 DEF vars, InsertEmailResolved, PublishDomain, stopNotifications, WorkerStep, TakeEvent, WorkerStops,
                NotConfigured, Answered, AttemptFails, BackoffEnds, BackoffCancelled, Works, mailVars, hubVars
<1>3. ASSUME ForwarderStep PROVE Alone
    <2>1. /\ UNCHANGED <<published, pageVars>>
          /\ \/ buffer' = [buffer EXCEPT ![Dispatcher] = Tail(@)]
             \/ buffer' = [buffer EXCEPT ![Dispatcher] = <<>>]
          /\ subscribed' \in {subscribed, subscribed \ {Dispatcher}}
        BY <1>3 DEF ForwarderStep, Forward, ForwarderStops, ForwarderLeaves, Unsubscribe, Without, mailVars
    <2>2. \A c \in Connections : buffer'[c] = buffer[c]
        BY <2>1, Subscribing DEF TypeInv, HubTypes
    <2>. QED  BY <2>1, <2>2
<1>. HIDE DEF Alone
<1>4. \/ \E c \in Connections : HandlerStep(c) \/ LineBreaks(c)
      \/ PageStep
      \/ \E m \in Mails : publishEmailEvent(m)
      \/ Alone
    BY <1>1, <1>2, <1>3 DEF Next
<1>. QED  BY <1>4 DEF Alone

\* An answer under way is the newest of what the mailbox held when it was read.
Right(answer) ==
    answer # Nothing => answer.of \subseteq stored \cap InBox /\ answer.emails = NewestOf(answer.of)

\* What the list shown left out has aged: it is not among the newest any more.
Lists ==
    /\ Right(loaded) /\ Right(polled)
    /\ listed \subseteq shown \cup Aged

InboxInv == TypeInv /\ Connected /\ Lists /\ InboxComplete

LEMMA StoredGrows == [Next]_vars => stored \subseteq stored'
BY DEF Next, vars, InsertEmailResolved, publishEmailEvent, HandlerStep, Subscribe, WriteReady, WriteEvent, StreamEnds,
       LineBreaks, Handles, PageStep, BeginLoad, load, LoadFails, BeginPoll, pollOnce, startFallbackPolling, Reconnect,
       Leave, Acts, PublishDomain, stopNotifications, ForwarderStep, Forward, ForwarderStops, WorkerStep, TakeEvent,
       WorkerStops, NotConfigured, Answered, AttemptFails, BackoffEnds, BackoffCancelled, Works, mailVars

LEMMA LaterMails ==
    ASSUME NEW few, NEW many \in SUBSET Mails, few \subseteq many, NEW m
    PROVE  /\ Cardinality({n \in few : n > m}) \in Nat /\ Cardinality({n \in many : n > m}) \in Nat
           /\ Cardinality({n \in few : n > m}) <= Cardinality({n \in many : n > m})
<1>1. IsFiniteSet({n \in many : n > m})
    <2>1. {n \in many : n > m} \in SUBSET Mails
        OBVIOUS
    <2>. QED  BY <2>1, FS_Subset, EventsAssumption
<1>2. {n \in few : n > m} \in SUBSET {n \in many : n > m}
    OBVIOUS
<1>. QED  BY <1>1, <1>2, FS_Subset, FS_CardinalityType

LEMMA AgedGrows ==
    ASSUME TypeInv, TypeInv', stored \subseteq stored'
    PROVE  Aged \subseteq Aged'
<1>1. ASSUME NEW m \in InBox, Cardinality({n \in stored \cap InBox : n > m}) >= PageSize
      PROVE  Cardinality({n \in stored' \cap InBox : n > m}) >= PageSize
    <2>1. stored' \cap InBox \in SUBSET Mails /\ stored \cap InBox \subseteq stored' \cap InBox
        BY DEF TypeInv, HubTypes
    <2>2. /\ Cardinality({n \in stored \cap InBox : n > m}) \in Nat
          /\ Cardinality({n \in stored' \cap InBox : n > m}) \in Nat
          /\ Cardinality({n \in stored \cap InBox : n > m}) <= Cardinality({n \in stored' \cap InBox : n > m})
        BY <2>1, LaterMails
    <2>. QED  BY <1>1, <2>2, EventsAssumption
<1>. QED  BY <1>1 DEF Aged

\* What a list leaves out of the mailbox has aged.
LEMMA LeftOutAged ==
    ASSUME TypeInv, NEW answer, answer # Nothing, Right(answer)
    PROVE  answer.of \subseteq answer.emails \cup Aged
<1>1. answer.of \subseteq stored \cap InBox /\ stored \cap InBox \in SUBSET Mails
    BY DEF Right, TypeInv, HubTypes
<1>2. ASSUME NEW m \in answer.of, m \notin answer.emails
      PROVE  m \in Aged
    <2>1. ~(Cardinality({n \in answer.of : n > m}) < PageSize)
        BY <1>2 DEF Right, NewestOf
    <2>2. /\ Cardinality({n \in answer.of : n > m}) \in Nat
          /\ Cardinality({n \in stored \cap InBox : n > m}) \in Nat
          /\ Cardinality({n \in answer.of : n > m}) <= Cardinality({n \in stored \cap InBox : n > m})
        BY <1>1, LaterMails
    <2>3. Cardinality({n \in stored \cap InBox : n > m}) >= PageSize
        BY <2>1, <2>2, EventsAssumption
    <2>. QED  BY <1>1, <2>3 DEF Aged
<1>. QED  BY <1>2

\* A list that is taken over, a shown set that grows, or an empty page.
LEMMA ListsStep ==
    ASSUME TypeInv, TypeInv', Lists, [Next]_vars
    PROVE  Lists'
<1>1. Aged \subseteq Aged' /\ stored \subseteq stored'
    BY StoredGrows, AgedGrows
<1>2. ASSUME NEW answer, Right(answer) PROVE Right(answer)'
    BY <1>1, <1>2 DEF Right, NewestOf
<1>3. ASSUME UNCHANGED <<loaded, listed>>, polled' \in {polled, Nothing}, shown \subseteq shown'
      PROVE  Lists'
    BY <1>1, <1>3 DEF Lists, Right, NewestOf
<1>4. ASSUME \/ UNCHANGED pageVars
             \/ \E m \in Mails : publishEmailEvent(m)
             \/ \E c \in Connections : HandlerStep(c) \/ LineBreaks(c)
      PROVE  UNCHANGED <<loaded, listed>> /\ polled' \in {polled, Nothing} /\ shown \subseteq shown'
    BY <1>4 DEF pageVars, publishEmailEvent, HandlerStep, Subscribe, WriteReady, WriteEvent, StreamEnds, LineBreaks,
                Handles, Opened, onEmailEvent
<1>5. CASE PageStep
    <2>1. UNCHANGED stored
        BY <1>5 DEF PageStep, BeginLoad, load, LoadFails, BeginPoll, pollOnce, startFallbackPolling, Reconnect, Leave,
                    Acts, mailVars
    <2>2. Right(ListEmails)'
        BY <2>1 DEF Right, ListEmails
    <2>3. Right(loaded)' /\ Right(polled)'
        <3>1. loaded' \in {loaded, Nothing, ListEmails} /\ polled' \in {polled, Nothing, ListEmails}
            BY <1>5 DEF PageStep, BeginLoad, load, LoadFails, BeginPoll, pollOnce, startFallbackPolling, Reconnect,
                        Leave
        <3>2. Right(ListEmails) /\ Right(loaded) /\ Right(polled)
            BY DEF Right, ListEmails, Lists
        <3>. QED  BY <2>1, <3>1, <3>2 DEF Right, NewestOf
    <2>4. listed' \subseteq shown' \cup Aged'
        <3>1. \/ UNCHANGED <<shown, listed>>
              \/ listed' = {}
              \/ loaded # Nothing /\ TakeOver(loaded)
              \/ polled # Nothing /\ TakeOver(polled)
            BY <1>5 DEF PageStep, BeginLoad, load, LoadFails, BeginPoll, pollOnce, startFallbackPolling, Reconnect,
                        Leave
        <3>2. ASSUME NEW answer \in {loaded, polled}, answer # Nothing, TakeOver(answer)
              PROVE  listed' \subseteq shown' \cup Aged'
            <4>1. Right(answer)
                BY DEF Lists
            <4>2. answer.of \subseteq answer.emails \cup Aged
                BY <3>2, <4>1, LeftOutAged
            <4>. QED  BY <1>1, <3>2, <4>2 DEF TakeOver
        <3>. QED  BY <1>1, <3>1, <3>2 DEF Lists
    <2>. QED  BY <2>3, <2>4 DEF Lists
<1>6. \/ UNCHANGED pageVars
      \/ \E m \in Mails : publishEmailEvent(m)
      \/ \E c \in Connections : HandlerStep(c) \/ LineBreaks(c)
      \/ PageStep
    BY ConnectionsKept
<1>. QED  BY <1>3, <1>4, <1>5, <1>6

\* Each handler ends its own subscription only.
LEMMA HandlerConnected ==
    ASSUME TypeInv, Connected, NEW c \in Connections, HandlerStep(c) \/ LineBreaks(c)
    PROVE  Connected'
<1>0. /\ conn' = conn /\ conn \in Nat /\ c \in Nat /\ Connections \subseteq Nat
      /\ stream \in [Connections -> {"none", "asked", "subscribed", "open", "ended"}]
      /\ line \in [Connections -> {"up", "stalled", "down"}]
    <2>1. conn' = conn
        BY DEF HandlerStep, Subscribe, WriteReady, WriteEvent, StreamEnds, LineBreaks, Handles
    <2>. QED  BY <2>1, EventsAssumption DEF TypeInv, PageTypes, Connections
<1>1. CASE LineBreaks(c)
    <2>1. UNCHANGED <<page, conn, stream, subscribed>>
        BY <1>1 DEF LineBreaks, hubVars
    <2>2. line[c] = "up" /\ \A q \in Connections \ {c} : line'[q] = line[q]
        BY <1>0, <1>1 DEF LineBreaks
    <2>3. ~(c < conn)
        BY <2>2 DEF Connected
    <2>. QED  BY <1>0, <2>1, <2>2, <2>3 DEF Connected
<1>2. ASSUME HandlerStep(c)
      PROVE  /\ line' = line
             /\ stream[c] \in {"asked", "subscribed", "open"}
             /\ \A q \in Connections \ {c} : stream'[q] = stream[q] /\ (q \in subscribed => q \in subscribed')
             /\ stream'[c] \in {"subscribed", "open"} => c \in subscribed'
             /\ page' = page \/ (page' = "connected" /\ stream[c] = "subscribed" /\ line[c] = "up")
    <2>1. CASE Subscribe(c)
        <3>1. /\ stream[c] = "asked" /\ UNCHANGED <<line, page>>
              /\ \/ stream' = [stream EXCEPT ![c] = "subscribed"] /\ subscribed' = subscribed \cup {c}
                 \/ stream' = [stream EXCEPT ![c] = "ended"] /\ subscribed' = subscribed
            BY <2>1 DEF Subscribe, Handles
        <3>. QED  BY <1>0, <3>1
    <2>2. ASSUME End(c)
          PROVE  /\ stream'[c] = "ended"
                 /\ \A q \in Connections \ {c} : stream'[q] = stream[q] /\ (q \in subscribed => q \in subscribed')
        BY <1>0, <2>2 DEF End, Unsubscribe, Without
    <2>3. CASE WriteReady(c)
        <3>1. /\ stream[c] = "subscribed" /\ line' = line
              /\ page' = page \/ (page' = "connected" /\ line[c] = "up")
            BY <2>3 DEF WriteReady, Handles, Opened
        <3>2. CASE End(c)
            BY <2>2, <3>1, <3>2
        <3>3. CASE ~End(c)
            <4>1. stream' = [stream EXCEPT ![c] = "open"] /\ subscribed' = subscribed
                BY <2>3, <3>3 DEF WriteReady, hubVars
            <4>2. c \in subscribed
                BY <3>1 DEF Connected
            <4>. QED  BY <1>0, <3>1, <4>1, <4>2
        <3>. QED  BY <3>2, <3>3
    <2>4. CASE WriteEvent(c) \/ StreamEnds(c)
        <3>1. stream[c] = "open" /\ UNCHANGED <<line, page>> /\ (End(c) \/ UNCHANGED <<subscribed, stream>>)
            BY <2>4 DEF WriteEvent, StreamEnds, Handles
        <3>2. c \in subscribed
            BY <3>1 DEF Connected
        <3>. QED  BY <2>2, <3>1, <3>2
    <2>. QED  BY <1>2, <2>1, <2>3, <2>4 DEF HandlerStep
<1>3. CASE HandlerStep(c)
    <2>1. c <= conn
        BY <1>0, <1>2, <1>3 DEF Connected
    <2>2. page' = "connected" => conn' \in Connections
        <3>1. CASE page' = page
            BY <1>0, <3>1 DEF Connected
        <3>2. CASE stream[c] = "subscribed" /\ line[c] = "up"
            <4>1. ~(c < conn)
                BY <3>2 DEF Connected
            <4>2. c = conn
                BY <1>0, <2>1, <4>1
            <4>. QED  BY <1>0, <4>2
        <3>. QED  BY <1>2, <1>3, <3>1, <3>2
    <2>3. ASSUME NEW q \in Connections
          PROVE  /\ q > conn => stream'[q] = "none"
                 /\ q < conn => line'[q] = "down"
                 /\ stream'[q] \in {"subscribed", "open"} => q \in subscribed'
        <3>1. CASE q = c
            BY <1>0, <1>2, <1>3, <2>1, <3>1 DEF Connected
        <3>2. CASE q # c
            <4>1. stream'[q] = stream[q] /\ line'[q] = line[q] /\ (q \in subscribed => q \in subscribed')
                BY <1>2, <1>3, <3>2
            <4>. QED  BY <4>1 DEF Connected
        <3>. QED  BY <3>1, <3>2
    <2>. QED  BY <1>0, <2>2, <2>3 DEF Connected
<1>. QED  BY <1>1, <1>3

LEMMA PageConnected ==
    ASSUME TypeInv, Connected, PageStep
    PROVE  Connected'
<1>0. /\ conn \in Nat /\ Connections \subseteq Nat /\ Connections = 1..MaxConnections /\ subscribed' = subscribed
      /\ stream \in [Connections -> {"none", "asked", "subscribed", "open", "ended"}]
      /\ line \in [Connections -> {"up", "stalled", "down"}]
    <2>1. subscribed' = subscribed
        BY DEF PageStep, BeginLoad, load, LoadFails, BeginPoll, pollOnce, startFallbackPolling, Reconnect, Leave,
               Acts, hubVars
    <2>. QED  BY <2>1, EventsAssumption DEF TypeInv, PageTypes, Connections
<1>1. CASE UNCHANGED <<page, conn, stream, line>>
    BY <1>0, <1>1 DEF Connected
<1>2. CASE /\ page' \in {"alone", "fallback", "left"} /\ UNCHANGED <<conn, stream>>
           /\ line' \in {line, [line EXCEPT ![conn] = "down"]}
    <2>1. \A q \in Connections : line'[q] = line[q] \/ line'[q] = "down"
        BY <1>0, <1>2
    <2>. QED  BY <1>0, <1>2, <2>1 DEF Connected
<1>3. CASE connectRealtime
    <2>1. /\ conn < MaxConnections /\ conn' = conn + 1 /\ page' = "connecting"
          /\ stream' = [stream EXCEPT ![conn + 1] = "asked"]
          /\ line' = IF conn = 0 THEN line ELSE [line EXCEPT ![conn] = "down"]
        BY <1>3 DEF connectRealtime
    <2>2. ASSUME NEW q \in Connections
          PROVE  /\ q > conn' => stream'[q] = "none"
                 /\ q < conn' => line'[q] = "down"
                 /\ stream'[q] \in {"subscribed", "open"} => q \in subscribed'
        <3>1. stream'[q] = IF q = conn + 1 THEN "asked" ELSE stream[q]
            BY <1>0, <2>1
        <3>2. line'[q] = IF q = conn THEN "down" ELSE line[q]
            BY <1>0, <2>1
        <3>3. q \in Nat
            BY <1>0
        <3>. QED  BY <1>0, <2>1, <3>1, <3>2, <3>3 DEF Connected
    <2>. QED  BY <2>1, <2>2 DEF Connected
<1>4. \/ UNCHANGED <<page, conn, stream, line>>
      \/ /\ page' \in {"alone", "fallback", "left"} /\ UNCHANGED <<conn, stream>>
         /\ line' \in {line, [line EXCEPT ![conn] = "down"]}
      \/ connectRealtime
    BY DEF PageStep, BeginLoad, load, LoadFails, BeginPoll, pollOnce, startFallbackPolling, Reconnect, Leave
<1>. QED  BY <1>1, <1>2, <1>3, <1>4

LEMMA ConnectedStep == TypeInv /\ Connected /\ [Next]_vars => Connected'
<1>. SUFFICES ASSUME TypeInv, Connected, [Next]_vars PROVE Connected'
    OBVIOUS
<1>1. ASSUME NEW m \in Mails, publishEmailEvent(m) PROVE Connected'
    <2>1. UNCHANGED <<page, conn, stream, line, subscribed>>
        BY <1>1 DEF publishEmailEvent
    <2>. QED  BY <2>1 DEF Connected
<1>2. CASE UNCHANGED <<published, pageVars>> /\ subscribed \ {Dispatcher} \subseteq subscribed'
    BY <1>2, Subscribing DEF Connected, pageVars
<1>. QED  BY <1>1, <1>2, ConnectionsKept, HandlerConnected, PageConnected

\* A mail that is published goes into the buffer of the page's connection, or the inbox
\* is excused.
LEMMA PublishComplete ==
    ASSUME InboxInv, NEW m \in Mails, publishEmailEvent(m)
    PROVE  InboxComplete'
<1>. SUFFICES ASSUME page' = "connected", stream'[conn'] = "open", line'[conn'] = "up"
              PROVE  (published' \cap InBox) \ Aged' \subseteq shown' \cup ToSet(buffer'[conn']) \cup excused'
    BY DEF InboxComplete
<1>. DEFINE For == {s \in subscribed : Wants(s, m)}
<1>1. /\ UNCHANGED <<page, stream, line, conn, shown, stored>> /\ published' = published \cup {m}
      /\ buffer' = [s \in Subscribers |-> IF s \in For /\ HasRoom(s) THEN Append(buffer[s], m) ELSE buffer[s]]
      /\ excused' = IF conn \in For \ {Dispatcher} /\ ~HasRoom(conn) THEN excused \cup {m} ELSE excused
    BY DEF publishEmailEvent
<1>2. /\ (published \cap InBox) \ Aged' \subseteq shown \cup ToSet(buffer[conn]) \cup excused
      /\ conn \in Connections /\ conn \in subscribed /\ conn \in Subscribers /\ conn # Dispatcher
      /\ buffer[conn] \in Seq(Mails)
    BY <1>1, Subscribing DEF InboxInv, InboxComplete, Connected, TypeInv, HubTypes, Aged
<1>3. conn \in For <=> m \in InBox
    BY <1>2 DEF Wants
<1>. HIDE DEF For
<1>4. CASE conn \in For /\ HasRoom(conn)
    <2>1. buffer'[conn] = Append(buffer[conn], m)
        BY <1>1, <1>2, <1>4
    <2>2. ToSet(Append(buffer[conn], m)) = ToSet(buffer[conn]) \cup {m}
        BY <1>2, Appended
    <2>3. excused' = excused
        BY <1>1, <1>4
    <2>. QED  BY <1>1, <1>2, <2>1, <2>2, <2>3
<1>5. CASE ~(conn \in For /\ HasRoom(conn))
    <2>1. buffer'[conn] = buffer[conn]
        BY <1>1, <1>2, <1>5
    <2>2. m \in InBox => excused' = excused \cup {m}
        BY <1>1, <1>2, <1>3, <1>5
    <2>3. excused \subseteq excused'
        BY <1>1
    <2>. QED  BY <1>1, <1>2, <2>1, <2>2, <2>3
<1>. QED  BY <1>4, <1>5

LEMMA HandlerComplete ==
    ASSUME InboxInv, NEW c \in Connections, HandlerStep(c) \/ LineBreaks(c)
    PROVE  InboxComplete'
<1>. SUFFICES ASSUME page' = "connected", stream'[conn'] = "open", line'[conn'] = "up"
              PROVE  (published' \cap InBox) \ Aged' \subseteq shown' \cup ToSet(buffer'[conn']) \cup excused'
    BY DEF InboxComplete
<1>0. /\ TypeInv /\ Connected /\ Lists /\ InboxComplete /\ Connected' /\ c \in Subscribers
      /\ stream \in [Connections -> {"none", "asked", "subscribed", "open", "ended"}]
      /\ line \in [Connections -> {"up", "stalled", "down"}] /\ buffer \in [Subscribers -> Seq(Mails)]
    BY HandlerConnected, Subscribing DEF InboxInv, TypeInv, PageTypes, HubTypes
<1>1. /\ conn' = conn /\ published' = published /\ conn \in Connections /\ conn \in Subscribers
      /\ Aged' = Aged
    <2>1. conn' = conn /\ published' = published /\ stored' = stored
        BY DEF HandlerStep, Subscribe, WriteReady, WriteEvent, StreamEnds, LineBreaks, Handles, mailVars
    <2>. QED  BY <1>0, <2>1, Subscribing DEF Connected, Aged
<1>2. CASE LineBreaks(c)
    <2>1. UNCHANGED <<page, stream, shown, buffer, excused>>
        BY <1>2 DEF LineBreaks, hubVars
    <2>2. line[conn] = "up"
        BY <1>0, <1>1, <1>2 DEF LineBreaks
    <2>. QED  BY <1>0, <1>1, <2>1, <2>2 DEF InboxComplete
<1>3. CASE Subscribe(c)
    <2>1. UNCHANGED <<page, line, shown, buffer, excused>>
        BY <1>3 DEF Subscribe, Handles
    <2>2. stream[conn] = "open"
        BY <1>0, <1>1, <1>3 DEF Subscribe
    <2>. QED  BY <1>0, <1>1, <2>1, <2>2 DEF InboxComplete
<1>4. ASSUME End(c)
      PROVE  c # conn /\ stream[conn] = "open" /\ buffer'[conn] = buffer[conn]
    BY <1>0, <1>1, <1>4 DEF End, Unsubscribe
<1>5. CASE WriteReady(c)
    <2>0. UNCHANGED <<line, shown>> /\ stream[c] = "subscribed"
        BY <1>5 DEF WriteReady, Handles
    <2>1. CASE End(c)
        <3>1. \/ line[c] # "up" /\ UNCHANGED <<page, excused>>
              \/ stream' = [stream EXCEPT ![c] = "open"]
            BY <1>5 DEF WriteReady
        <3>2. UNCHANGED <<page, excused>>
            BY <1>0, <2>1, <3>1 DEF End
        <3>. QED  BY <1>0, <1>1, <1>4, <2>0, <2>1, <3>2 DEF InboxComplete
    <2>2. CASE ~End(c)
        <3>1. /\ stream' = [stream EXCEPT ![c] = "open"] /\ buffer' = buffer
              /\ IF line[c] = "up" THEN Opened(c) ELSE UNCHANGED <<page, excused>>
            BY <1>5, <2>2 DEF WriteReady, hubVars
        <3>2. CASE c = conn
            BY <1>0, <1>1, <2>0, <3>1, <3>2 DEF Opened, Lists
        <3>3. CASE c # conn
            <4>1. stream[conn] = "open"
                BY <1>0, <1>1, <3>1, <3>3
            <4>2. line[c] # "up"
                <5>1. c < conn \/ c > conn
                    BY <1>1, <3>3, EventsAssumption DEF Connections
                <5>. QED  BY <1>0, <2>0, <5>1 DEF Connected
            <4>. QED  BY <1>0, <1>1, <2>0, <3>1, <4>1, <4>2 DEF InboxComplete
        <3>. QED  BY <3>2, <3>3
    <2>. QED  BY <2>1, <2>2
<1>6. CASE WriteEvent(c)
    <2>0. UNCHANGED <<line, page, excused>> /\ stream[c] = "open" /\ buffer[c] # <<>>
        BY <1>6 DEF WriteEvent, Handles
    <2>1. CASE End(c) /\ shown' = shown
        BY <1>0, <1>1, <1>4, <2>0, <2>1 DEF InboxComplete
    <2>2. CASE /\ buffer' = [buffer EXCEPT ![c] = Tail(@)] /\ stream' = stream
               /\ IF line[c] = "up" THEN onEmailEvent(Head(buffer[c])) ELSE shown' = shown
        <3>1. (published \cap InBox) \ Aged \subseteq shown \cup ToSet(buffer[conn]) \cup excused
            BY <1>0, <1>1, <2>0, <2>2 DEF InboxComplete
        <3>2. shown \subseteq shown'
            BY <2>2 DEF onEmailEvent
        <3>3. CASE c # conn
            BY <1>0, <1>1, <2>0, <2>2, <3>1, <3>2, <3>3
        <3>4. CASE c = conn
            <4>1. shown' = shown \cup ({Head(buffer[conn])} \cap InBox) /\ buffer'[conn] = Tail(buffer[conn])
                BY <1>0, <1>1, <2>0, <2>2, <3>4 DEF onEmailEvent
            <4>2. ToSet(buffer[conn]) = {Head(buffer[conn])} \cup ToSet(Tail(buffer[conn]))
                BY <1>0, <1>1, <2>0, <3>4, Taken
            <4>. QED  BY <1>1, <2>0, <3>1, <4>1, <4>2
        <3>. QED  BY <3>3, <3>4
    <2>. QED  BY <1>6, <2>1, <2>2 DEF WriteEvent
<1>7. CASE StreamEnds(c)
    <2>1. UNCHANGED <<line, page, shown, excused>> /\ End(c)
        BY <1>7 DEF StreamEnds, Handles
    <2>. QED  BY <1>0, <1>1, <1>4, <2>1 DEF InboxComplete
<1>. QED  BY <1>2, <1>3, <1>5, <1>6, <1>7 DEF HandlerStep

LEMMA PageComplete ==
    ASSUME InboxInv, PageStep
    PROVE  InboxComplete'
<1>0. InboxComplete /\ TypeInv /\ Right(loaded)
    BY DEF InboxInv, Lists
<1>1. UNCHANGED <<published, buffer>> /\ Aged' = Aged
    BY DEF PageStep, BeginLoad, load, LoadFails, BeginPoll, pollOnce, startFallbackPolling, Reconnect, Leave, Acts,
           mailVars, hubVars, Aged
<1>2. CASE connectRealtime \/ startFallbackPolling \/ Leave \/ pollOnce \/ BeginPoll
    <2>1. page' # "connected"
        BY <1>2 DEF connectRealtime, startFallbackPolling, Leave, pollOnce, BeginPoll, Acts
    <2>. QED  BY <2>1 DEF InboxComplete
<1>3. CASE load /\ ~connectRealtime
    <2>1. /\ loaded # Nothing /\ shown' = loaded.emails /\ excused' = excused \cup (shown \ loaded.of)
          /\ UNCHANGED <<page, conn, stream, line>>
        BY <1>3 DEF load, TakeOver
    <2>2. loaded.of \subseteq loaded.emails \cup Aged
        BY <1>0, <2>1, LeftOutAged
    <2>. QED  BY <1>0, <1>1, <2>1, <2>2 DEF InboxComplete
<1>4. CASE BeginLoad
    BY <1>0, <1>1, <1>4 DEF BeginLoad, InboxComplete
<1>5. CASE LoadFails
    <2>1. (page' = page \/ page' = "alone") /\ UNCHANGED <<shown, conn, stream, line, excused>>
        BY <1>5 DEF LoadFails
    <2>. QED  BY <1>0, <1>1, <2>1 DEF InboxComplete
<1>. QED  BY <1>2, <1>3, <1>4, <1>5 DEF PageStep, Reconnect

LEMMA InboxStep == InboxInv /\ [Next]_vars => InboxInv'
<1>. SUFFICES ASSUME InboxInv, [Next]_vars PROVE InboxComplete'
    BY TypeStep, ConnectedStep, ListsStep DEF InboxInv
<1>0. TypeInv /\ Connected /\ InboxComplete /\ Aged \subseteq Aged'
    BY TypeStep, StoredGrows, AgedGrows DEF InboxInv
<1>1. CASE UNCHANGED <<published, pageVars>> /\ \A c \in Connections : buffer'[c] = buffer[c]
    BY <1>0, <1>1 DEF InboxComplete, Connected, pageVars
<1>. QED  BY <1>0, <1>1, ConnectionsKept, HandlerComplete, PageComplete, PublishComplete

\* A connected page shows every mail of its mailbox, or will, but those that are not among
\* the newest PageSize, those published between the list and the connection, streamed while
\* it read another list, or dropped by the hub (InboxPage.vue:39-53, 111-174,
\* email.go:54-98, events.go:16-53), however often its connections break.
THEOREM InboxAlwaysComplete == Spec => []InboxComplete
<1>1. Init => Connected /\ Lists /\ InboxComplete
    <2>. SUFFICES ASSUME Init PROVE Connected /\ Lists /\ InboxComplete
        OBVIOUS
    <2>1. /\ page \in {"new", "left"} /\ conn = 0 /\ loaded = Nothing /\ polled = Nothing /\ listed = {}
          /\ stream = [c \in Connections |-> "none"]
        BY EventsAssumption DEF Init
    <2>. QED  BY <2>1, EventsAssumption DEF Connected, Lists, Right, InboxComplete, Connections
<1>2. Init => InboxInv
    BY <1>1, TypeInit DEF InboxInv
<1>3. InboxInv => InboxComplete
    BY DEF InboxInv
<1>. QED  BY <1>2, <1>3, InboxStep, PTL DEF Spec

------------------------------------------------------------------------------
(* Where an event is *)

AtHub == ToSet(buffer[Dispatcher])
InQueue == ToSet(queue)
AtWorkers == {job[w].event : w \in Workers}
Raised == published \cup raised

\* An event is in one place at a time, and is there once.
Once ==
    /\ IsInjective(buffer[Dispatcher]) /\ IsInjective(queue)
    /\ AtHub \cup InQueue \cup finished \subseteq Raised
    /\ AtWorkers \subseteq Raised \cup {Nothing}
    /\ AtHub \cap (InQueue \cup AtWorkers \cup finished) = {}
    /\ InQueue \cap (AtWorkers \cup finished) = {}
    /\ AtWorkers \cap finished = {}
    /\ \A v, w \in Workers : job[v].event = job[w].event => v = w \/ job[v].event = Nothing

PlaceInv == TypeInv /\ Once

LEMMA PlaceTypes ==
    TypeInv => /\ buffer[Dispatcher] \in Seq(Mails) /\ AtHub \subseteq Mails
               /\ queue \in Seq(Events) /\ InQueue \subseteq Events
               /\ finished \subseteq Events /\ Raised \subseteq Events /\ raised \subseteq Alerts
               /\ published \subseteq Mails /\ Nothing \notin Events
BY Subscribing, MembersOf, EventsAssumption
   DEF TypeInv, HubTypes, QueueTypes, WorkerTypes, AtHub, InQueue, Raised, Events

\* A step that moves no event.
LEMMA NothingMoves ==
    ASSUME Once, UNCHANGED <<buffer[Dispatcher], published, queueVars, job, finished>>
    PROVE  Once'
<1>1. AtHub' = AtHub /\ InQueue' = InQueue /\ AtWorkers' = AtWorkers /\ Raised' = Raised
    BY DEF AtHub, InQueue, AtWorkers, Raised, queueVars
<1>2. UNCHANGED <<buffer[Dispatcher], queue, job, finished>>
    BY DEF queueVars
<1>. QED  BY <1>1, <1>2 DEF Once

\* The page, its handlers and the store leave the events of the dispatcher alone.
LEMMA OthersMoveNothing ==
    ASSUME TypeInv,
           \/ \E m \in Mails : InsertEmailResolved(m)
           \/ \E c \in Connections : HandlerStep(c) \/ LineBreaks(c)
           \/ PageStep
           \/ UNCHANGED vars
    PROVE  /\ UNCHANGED <<buffer[Dispatcher], published, queueVars, job, finished, reported, seen, eventsDropped>>
           /\ Dispatcher \in subscribed <=> Dispatcher \in subscribed'
<1>0. Dispatcher \in Subscribers /\ Dispatcher \notin Connections /\ buffer \in [Subscribers -> Seq(Mails)]
    BY Subscribing DEF TypeInv, HubTypes
<1>1. ASSUME NEW c \in Connections, HandlerStep(c) \/ LineBreaks(c)
      PROVE  /\ UNCHANGED <<buffer[Dispatcher], published, queueVars, job, finished, reported, seen, eventsDropped>>
             /\ Dispatcher \in subscribed <=> Dispatcher \in subscribed'
    <2>1. c # Dispatcher
        BY <1>0
    <2>2. UNCHANGED <<published, queueVars, job, finished, reported, seen>>
        BY <1>1 DEF HandlerStep, Subscribe, WriteReady, WriteEvent, StreamEnds, LineBreaks, Handles, mailVars, workerVars
    <2>3. \/ subscribed' \in {subscribed, subscribed \cup {c}} /\ UNCHANGED <<buffer, eventsDropped>>
          \/ buffer' = [buffer EXCEPT ![c] = Tail(@)] /\ UNCHANGED <<subscribed, eventsDropped>>
          \/ Unsubscribe(c)
        BY <1>1 DEF HandlerStep, Subscribe, WriteReady, WriteEvent, StreamEnds, LineBreaks, End, hubVars
    <2>4. UNCHANGED <<buffer[Dispatcher], eventsDropped>>
        BY <1>0, <2>1, <2>3 DEF Unsubscribe
    <2>5. Dispatcher \in subscribed <=> Dispatcher \in subscribed'
        BY <2>1, <2>3 DEF Unsubscribe, Without
    <2>. QED  BY <2>2, <2>4, <2>5
<1>2. CASE PageStep
    BY <1>2 DEF PageStep, BeginLoad, load, LoadFails, BeginPoll, pollOnce, startFallbackPolling, Reconnect, Leave,
                Acts, mailVars, hubVars, workerVars
<1>3. CASE \E m \in Mails : InsertEmailResolved(m)
    BY <1>3 DEF InsertEmailResolved, hubVars, workerVars
<1>4. CASE UNCHANGED vars
    BY <1>4 DEF vars, mailVars, hubVars, workerVars
<1>. QED  BY <1>1, <1>2, <1>3, <1>4

\* The event goes on with the worker, or is done with.
LEMMA GoesOn ==
    ASSUME QueueTypes, WorkerTypes, NEW w \in Workers, NEW event, NEW i \in 1..(Len(Channels) + 1), GoOn(w, event, i)
    PROVE  /\ \A v \in Workers \ {w} : job'[v] = job[v]
           /\ \/ job'[w] = Idle /\ finished' = finished \cup {event}
              \/ job'[w].event = event /\ finished' = finished
<1>1. ASSUME NEW k, job'[w] = [at |-> "try", event |-> event, channel |-> k, attempt |-> 1]
      PROVE  job'[w].event = event
    BY <1>1
<1>2. CASE \E k \in DOMAIN Channels :
              /\ job' = [job EXCEPT ![w] = [at |-> "try", event |-> event, channel |-> k, attempt |-> 1]]
              /\ job'[w] = [at |-> "try", event |-> event, channel |-> k, attempt |-> 1]
              /\ finished' = finished
              /\ i <= k /\ \A j \in DOMAIN Channels : i <= j /\ j < k => config[j] = "off"
    <2>1. job'[w].event = event /\ finished' = finished
        BY <1>1, <1>2, Zenon
    <2>. QED  BY <2>1, GoOnIs
<1>. QED  BY <1>2, GoOnIs DEF WentOn

\* What a step of a worker does to the events.
LEMMA WorkerMoves ==
    ASSUME TypeInv, NEW w \in Workers, WorkerStep(w)
    PROVE  /\ UNCHANGED <<buffer, subscribed, eventsDropped, published, raised, dropped, cancelled>>
           /\ \A v \in Workers \ {w} : job'[v] = job[v]
           /\ \/ queue' = queue /\ finished' = finished /\ job'[w].event = job[w].event
              \/ /\ queue' = queue /\ finished' = finished \cup {job[w].event}
                 /\ job[w].event \in Events /\ job'[w].event = Nothing
              \/ /\ queue # <<>> /\ queue' = Tail(queue) /\ job[w].event = Nothing
                 /\ job'[w].event = Head(queue) /\ finished' = finished
              \/ /\ queue # <<>> /\ queue' = Tail(queue) /\ job[w].event = Nothing
                 /\ job'[w].event = Nothing /\ finished' = finished \cup {Head(queue)}
<1>0. QueueTypes /\ WorkerTypes /\ Fits(job[w]) /\ job \in [Workers -> Jobs]
    BY JobsFit DEF TypeInv, WorkerTypes
<1>1. UNCHANGED <<buffer, subscribed, eventsDropped, published, raised, dropped, cancelled>>
    BY DEF WorkerStep, TakeEvent, WorkerStops, NotConfigured, Answered, AttemptFails, BackoffEnds,
           BackoffCancelled, Works, mailVars, hubVars
<1>2. DOMAIN Channels = 1..Len(Channels) /\ Len(Channels) \in Nat
    BY EventsAssumption, LenProperties
<1>3. CASE TakeEvent(w)
    <2>1. queue # <<>> /\ queue' = Tail(queue) /\ GoOn(w, Head(queue), 1) /\ job[w].event = Nothing
        BY <1>0, <1>3 DEF TakeEvent, Works, Fits
    <2>2. /\ \A v \in Workers \ {w} : job'[v] = job[v]
          /\ \/ job'[w] = Idle /\ finished' = finished \cup {Head(queue)}
             \/ job'[w].event = Head(queue) /\ finished' = finished
        BY <1>0, <1>2, <2>1, GoesOn
    <2>3. Idle.event = Nothing
        BY DEF Idle
    <2>. QED  BY <1>1, <2>1, <2>2, <2>3
<1>4. CASE WorkerStops(w) \/ BackoffEnds(w) \/ (AttemptFails(w) /\ ~IsLast(w))
    <2>1. /\ UNCHANGED <<queue, finished>>
          /\ \/ job' = [job EXCEPT ![w].at = "stopped"]
             \/ job' = [job EXCEPT ![w].at = "try", ![w].attempt = @ + 1]
             \/ job' = [job EXCEPT ![w].at = "backoff"]
        BY <1>4 DEF WorkerStops, BackoffEnds, AttemptFails
    <2>2. \A v \in Workers \ {w} : job'[v] = job[v]
        BY <1>0, <2>1
    <2>3. job'[w].event = job[w].event
        BY <1>0, <2>1 DEF Jobs
    <2>. QED  BY <1>1, <2>1, <2>2, <2>3
<1>5. CASE NotConfigured(w) \/ Answered(w) \/ (AttemptFails(w) /\ IsLast(w)) \/ BackoffCancelled(w)
    <2>1. UNCHANGED queue /\ GoOn(w, job[w].event, job[w].channel + 1) /\ job[w].at \in {"try", "backoff"}
        BY <1>5 DEF NotConfigured, Answered, AttemptFails, BackoffCancelled, Works
    <2>2. job[w].event \in Events /\ job[w].channel + 1 \in 1..(Len(Channels) + 1)
        BY <1>0, <1>2, <2>1 DEF Fits
    <2>3. /\ \A v \in Workers \ {w} : job'[v] = job[v]
          /\ \/ job'[w] = Idle /\ finished' = finished \cup {job[w].event}
             \/ job'[w].event = job[w].event /\ finished' = finished
        BY <1>0, <2>1, <2>2, GoesOn
    <2>4. Idle.event = Nothing
        BY DEF Idle
    <2>. QED  BY <1>1, <2>1, <2>2, <2>3, <2>4
<1>. QED  BY <1>3, <1>4, <1>5 DEF WorkerStep


LEMMA WorkerKeepsOnce ==
    ASSUME PlaceInv, NEW w \in Workers, WorkerStep(w)
    PROVE  Once'
<1>0. TypeInv /\ Once /\ Nothing \notin Events /\ queue \in Seq(Events) /\ Raised \subseteq Events
    BY PlaceTypes DEF PlaceInv
<1>1. /\ UNCHANGED <<buffer, published, raised>>
      /\ \A v \in Workers \ {w} : job'[v] = job[v]
    BY <1>0, WorkerMoves
<1>2. AtHub' = AtHub /\ Raised' = Raised
    BY <1>1 DEF AtHub, Raised
<1>3. CASE queue' = queue /\ finished' = finished /\ job'[w].event = job[w].event
    <2>1. InQueue' = InQueue /\ AtWorkers' = AtWorkers
        BY <1>1, <1>3 DEF InQueue, AtWorkers
    <2>. QED  BY <1>0, <1>1, <1>2, <1>3, <2>1 DEF Once
<1>4. CASE /\ queue' = queue /\ finished' = finished \cup {job[w].event}
           /\ job[w].event \in Events /\ job'[w].event = Nothing
    <2>1. InQueue' = InQueue /\ AtWorkers' \subseteq (AtWorkers \ {job[w].event}) \cup {Nothing}
          /\ job[w].event \in AtWorkers
        BY <1>0, <1>1, <1>4 DEF InQueue, AtWorkers, Once
    <2>2. AtHub' \cup InQueue' \cup finished' \subseteq Raised' /\ AtWorkers' \subseteq Raised' \cup {Nothing}
        BY <1>0, <1>2, <1>4, <2>1 DEF Once
    <2>3. /\ AtHub' \cap (InQueue' \cup AtWorkers' \cup finished') = {}
          /\ InQueue' \cap (AtWorkers' \cup finished') = {}
          /\ AtWorkers' \cap finished' = {}
        BY <1>0, <1>2, <1>4, <2>1, PlaceTypes DEF Once
    <2>4. \A u, v \in Workers : job'[u].event = job'[v].event => u = v \/ job'[u].event = Nothing
        BY <1>0, <1>1, <1>4 DEF Once
    <2>. QED  BY <1>0, <1>1, <1>4, <2>2, <2>3, <2>4 DEF Once
<1>5. CASE queue # <<>> /\ queue' = Tail(queue) /\ job[w].event = Nothing
    <2>. DEFINE event == Head(queue)
    <2>1. /\ InQueue = {event} \cup InQueue' /\ event \notin InQueue' /\ IsInjective(queue')
          /\ event \in Events
        BY <1>0, <1>5, Taken DEF InQueue, Once
    <2>. HIDE DEF event
    <2>2. CASE job'[w].event = event /\ finished' = finished
        <3>1. AtWorkers' \subseteq AtWorkers \cup {event}
            BY <1>1, <2>2 DEF AtWorkers
        <3>2. AtHub' \cup InQueue' \cup finished' \subseteq Raised' /\ AtWorkers' \subseteq Raised' \cup {Nothing}
            BY <1>0, <1>2, <2>1, <2>2, <3>1 DEF Once
        <3>3. /\ AtHub' \cap (InQueue' \cup AtWorkers' \cup finished') = {}
              /\ InQueue' \cap (AtWorkers' \cup finished') = {}
              /\ AtWorkers' \cap finished' = {}
            BY <1>0, <1>2, <2>1, <2>2, <3>1 DEF Once
        <3>4. event \notin AtWorkers
            BY <1>0, <2>1 DEF Once
        <3>5. \A u, v \in Workers : job'[u].event = job'[v].event => u = v \/ job'[u].event = Nothing
            BY <1>0, <1>1, <2>2, <3>4 DEF Once, AtWorkers
        <3>. QED  BY <1>0, <1>1, <2>1, <3>2, <3>3, <3>5 DEF Once
    <2>3. CASE job'[w].event = Nothing /\ finished' = finished \cup {event}
        <3>1. AtWorkers' = AtWorkers
            BY <1>1, <1>5, <2>3 DEF AtWorkers
        <3>2. AtHub' \cup InQueue' \cup finished' \subseteq Raised' /\ AtWorkers' \subseteq Raised' \cup {Nothing}
            BY <1>0, <1>2, <2>1, <2>3, <3>1 DEF Once
        <3>3. /\ AtHub' \cap (InQueue' \cup AtWorkers' \cup finished') = {}
              /\ InQueue' \cap (AtWorkers' \cup finished') = {}
              /\ AtWorkers' \cap finished' = {}
            BY <1>0, <1>2, <2>1, <2>3, <3>1 DEF Once
        <3>4. \A u, v \in Workers : job'[u].event = job'[v].event => u = v \/ job'[u].event = Nothing
            BY <1>0, <1>1, <1>5, <2>3 DEF Once
        <3>. QED  BY <1>0, <1>1, <2>1, <3>2, <3>3, <3>4 DEF Once
    <2>. QED  BY <1>0, <1>5, <2>2, <2>3, WorkerMoves DEF event
<1>. QED  BY <1>0, <1>3, <1>4, <1>5, WorkerMoves

\* An event that is nowhere may be enqueued.
LEMMA EnqueueKeepsPlaces ==
    ASSUME QueueTypes, NEW event \in Events, Enqueue(event), IsInjective(queue), event \notin InQueue
    PROVE  IsInjective(queue') /\ InQueue' \subseteq InQueue \cup {event}
BY EnqueueIs DEF InQueue

LEMMA PublishKeepsOnce ==
    ASSUME PlaceInv, NEW m \in Mails, publishEmailEvent(m)
    PROVE  Once'
<1>0. /\ TypeInv /\ Once /\ Nothing \notin Events /\ buffer[Dispatcher] \in Seq(Mails) /\ raised \subseteq Alerts
      /\ buffer \in [Subscribers -> Seq(Mails)] /\ m \in Events
    BY PlaceTypes DEF PlaceInv, TypeInv, HubTypes, Events
<1>1. /\ m \notin published /\ published' = published \cup {m} /\ UNCHANGED <<raised, queue, job, finished>>
      /\ buffer'[Dispatcher] \in {buffer[Dispatcher], Append(buffer[Dispatcher], m)}
    BY <1>0, Subscribing DEF publishEmailEvent, queueVars, workerVars
<1>2. m \notin Raised /\ Raised' = Raised \cup {m}
    BY <1>0, <1>1, EventsAssumption DEF Raised
<1>3. m \notin AtHub \cup InQueue \cup finished \cup AtWorkers
    BY <1>0, <1>2 DEF Once
<1>4. AtHub' \subseteq AtHub \cup {m} /\ IsInjective(buffer'[Dispatcher])
    <2>1. CASE buffer'[Dispatcher] = buffer[Dispatcher]
        BY <1>0, <2>1 DEF AtHub, Once
    <2>2. CASE buffer'[Dispatcher] = Append(buffer[Dispatcher], m)
        <3>1. /\ ToSet(Append(buffer[Dispatcher], m)) = ToSet(buffer[Dispatcher]) \cup {m}
              /\ m \notin ToSet(buffer[Dispatcher]) => IsInjective(Append(buffer[Dispatcher], m))
            BY <1>0, Appended DEF Once
        <3>. QED  BY <1>3, <2>2, <3>1 DEF AtHub
    <2>. QED  BY <1>1, <2>1, <2>2
<1>5. InQueue' = InQueue /\ AtWorkers' = AtWorkers
    BY <1>1 DEF InQueue, AtWorkers
<1>. QED  BY <1>0, <1>1, <1>2, <1>3, <1>4, <1>5 DEF Once

LEMMA AlertKeepsOnce ==
    ASSUME PlaceInv, NEW alert \in Alerts, PublishDomain(alert)
    PROVE  Once'
<1>0. TypeInv /\ Once /\ QueueTypes /\ Nothing \notin Events /\ published \subseteq Mails /\ alert \in Events
    BY PlaceTypes DEF PlaceInv, TypeInv, Events
<1>1. /\ alert \notin raised /\ raised' = raised \cup {alert} /\ Enqueue(alert)
      /\ UNCHANGED <<published, buffer, job, finished>>
    BY DEF PublishDomain, mailVars, hubVars, workerVars
<1>2. alert \notin Raised /\ Raised' = Raised \cup {alert}
    BY <1>0, <1>1, EventsAssumption DEF Raised
<1>3. alert \notin AtHub \cup InQueue \cup finished \cup AtWorkers
    BY <1>0, <1>2 DEF Once
<1>4. IsInjective(queue') /\ InQueue' \subseteq InQueue \cup {alert}
    BY <1>0, <1>1, <1>3, EnqueueKeepsPlaces DEF Once
<1>5. AtHub' = AtHub /\ AtWorkers' = AtWorkers
    BY <1>1 DEF AtHub, AtWorkers
<1>. QED  BY <1>0, <1>1, <1>2, <1>3, <1>4, <1>5 DEF Once

LEMMA ForwarderKeepsOnce ==
    ASSUME PlaceInv, ForwarderStep \/ stopNotifications
    PROVE  Once'
<1>0. /\ TypeInv /\ Once /\ QueueTypes /\ buffer[Dispatcher] \in Seq(Mails)
      /\ buffer \in [Subscribers -> Seq(Mails)] /\ Dispatcher \in Subscribers
    BY PlaceTypes, Subscribing DEF PlaceInv, TypeInv, HubTypes
<1>1. CASE Forward
    <2>. DEFINE event == Head(buffer[Dispatcher])
    <2>1. /\ buffer[Dispatcher] # <<>> /\ buffer'[Dispatcher] = Tail(buffer[Dispatcher]) /\ Enqueue(event)
          /\ UNCHANGED <<published, raised, job, finished>>
        BY <1>0, <1>1 DEF Forward, mailVars, workerVars
    <2>2. /\ AtHub = {event} \cup AtHub' /\ event \notin AtHub' /\ IsInjective(buffer'[Dispatcher])
          /\ event \in Mails
        BY <1>0, <2>1, Taken DEF AtHub, Once
    <2>. HIDE DEF event
    <2>3. event \in Events /\ event \notin InQueue \cup AtWorkers \cup finished
        BY <1>0, <2>2 DEF Once, Events
    <2>4. IsInjective(queue') /\ InQueue' \subseteq InQueue \cup {event}
        BY <1>0, <2>1, <2>3, EnqueueKeepsPlaces DEF Once
    <2>5. AtWorkers' = AtWorkers /\ Raised' = Raised
        BY <2>1 DEF AtWorkers, Raised
    <2>. QED  BY <1>0, <2>1, <2>2, <2>3, <2>4, <2>5 DEF Once
<1>2. CASE ForwarderStops
    <2>1. buffer'[Dispatcher] = <<>> /\ UNCHANGED <<published, raised, queue, job, finished>>
        BY <1>0, <1>2 DEF ForwarderStops, ForwarderLeaves, Unsubscribe, mailVars, queueVars, workerVars
    <2>2. AtHub' = {} /\ IsInjective(buffer'[Dispatcher])
        BY <2>1, NoneAtFirst DEF AtHub
    <2>3. AtWorkers' = AtWorkers /\ Raised' = Raised /\ InQueue' = InQueue
        BY <2>1 DEF AtWorkers, Raised, InQueue
    <2>. QED  BY <1>0, <2>1, <2>2, <2>3 DEF Once
<1>3. CASE stopNotifications
    <2>1. UNCHANGED <<buffer, published, raised, queue, job, finished>>
        BY <1>3 DEF stopNotifications, mailVars, hubVars, workerVars
    <2>2. AtHub' = AtHub /\ AtWorkers' = AtWorkers /\ Raised' = Raised /\ InQueue' = InQueue
        BY <2>1 DEF AtHub, AtWorkers, Raised, InQueue
    <2>. QED  BY <1>0, <2>1, <2>2 DEF Once
<1>. QED  BY <1>1, <1>2, <1>3 DEF ForwarderStep

LEMMA OnceStep == PlaceInv /\ [Next]_vars => PlaceInv'
<1>. SUFFICES ASSUME PlaceInv, [Next]_vars PROVE Once'
    BY TypeStep DEF PlaceInv
<1>1. TypeInv /\ Once
    BY DEF PlaceInv
<1>. QED  BY <1>1, NothingMoves, OthersMoveNothing, WorkerKeepsOnce, PublishKeepsOnce, AlertKeepsOnce,
             ForwarderKeepsOnce DEF Next

LEMMA OnceInit == Init => PlaceInv
<1>. SUFFICES ASSUME Init PROVE Once
    BY TypeInit DEF PlaceInv
<1>1. PICK start \in Starts :
         /\ published = start.past \cap Mails
         /\ buffer = [s \in Subscribers |-> <<>>] /\ queue = <<>>
         /\ job = [w \in Workers |-> IF start.stopped THEN [Idle EXCEPT !.at = "stopped"] ELSE Idle]
         /\ raised = start.past \cap Alerts /\ finished = start.past
    BY DEF Init
<1>2. start.past \subseteq Events
    BY EventsAssumption DEF Events
<1>3. buffer[Dispatcher] = <<>> /\ AtHub = {} /\ InQueue = {} /\ IsInjective(queue)
    BY <1>1, Subscribing, NoneAtFirst DEF AtHub, InQueue
<1>4. \A w \in Workers : job[w].event = Nothing
    BY <1>1 DEF Idle
<1>5. AtWorkers \subseteq {Nothing} /\ finished \subseteq Raised /\ Nothing \notin finished
    BY <1>1, <1>2, <1>4, EventsAssumption DEF AtWorkers, Raised, Events
<1>. QED  BY <1>1, <1>3, <1>4, <1>5, NoneAtFirst DEF Once


\* An event is in one place at a time, and an event that was never published is nowhere
\* (events.go:36-53, notifications.go:56-97).
THEOREM EventsStayOnce == Spec => []Once
<1>1. PlaceInv => Once
    BY DEF PlaceInv
<1>. QED  BY <1>1, OnceInit, OnceStep, PTL DEF Spec

------------------------------------------------------------------------------
(* Drops *)

Somewhere == AtHub \cup InQueue \cup finished \cup AtWorkers
Gone == Raised \ Somewhere

\* Until the notifications are stopped the hub has the dispatcher among its subscribers.
Listens == ~cancelled => Dispatcher \in subscribed

DropInv == PlaceInv /\ Listens /\ DropsCounted

LEMMA CountedIs == DropsCounted <=> (~cancelled => Cardinality(Gone) \in dropped..(dropped + eventsDropped))
<1>1. Gone = (published \cup raised) \
                (ToSet(buffer[Dispatcher]) \cup ToSet(queue) \cup finished
                   \cup {job[w].event : w \in Workers})
    BY DEF Gone, Raised, Somewhere, AtHub, InQueue, AtWorkers
<1>. QED  BY <1>1 DEF DropsCounted

LEMMA EventsFinite == IsFiniteSet(Events)
BY EventsAssumption, FS_Union DEF Events

LEMMA SubscribersFinite == \A S : S \subseteq Subscribers => IsFiniteSet(S) /\ Cardinality(S) \in Nat
<1>1. IsFiniteSet(1..MaxConnections)
    BY FS_Interval, EventsAssumption
<1>2. IsFiniteSet({Dispatcher})
    BY FS_Singleton
<1>3. IsFiniteSet(Subscribers)
    BY <1>1, <1>2, FS_Union DEF Subscribers, Connections
<1>. QED  BY <1>3, FS_Subset, FS_CardinalityType

\* Nothing more is gone, or one event is and is counted.
LEMMA StillCounted ==
    ASSUME TypeInv, DropsCounted, ~cancelled' => ~cancelled, dropped' \in Nat, eventsDropped' \in Nat,
           \/ Gone' = Gone /\ dropped' = dropped /\ eventsDropped' >= eventsDropped
           \/ \E e : /\ e \notin Gone /\ Gone' = Gone \cup {e}
                     /\ \/ dropped' = dropped + 1 /\ eventsDropped' = eventsDropped
                        \/ dropped' = dropped /\ eventsDropped' > eventsDropped
    PROVE  DropsCounted'
<1>0. DropsCounted' <=> (~cancelled' => Cardinality(Gone') \in dropped'..(dropped' + eventsDropped'))
    <2>1. Gone' = (published' \cup raised') \
                     (ToSet(buffer'[Dispatcher]) \cup ToSet(queue') \cup finished'
                        \cup {job'[w].event : w \in Workers})
        BY DEF Gone, Raised, Somewhere, AtHub, InQueue, AtWorkers
    <2>. QED  BY <2>1 DEF DropsCounted
<1>. SUFFICES ASSUME ~cancelled' PROVE Cardinality(Gone') \in dropped'..(dropped' + eventsDropped')
    BY <1>0
<1>1. Cardinality(Gone) \in dropped..(dropped + eventsDropped)
    BY CountedIs
<1>2. dropped \in Nat /\ eventsDropped \in Nat
    BY DEF TypeInv, HubTypes, QueueTypes
<1>3. IsFiniteSet(Gone)
    BY EventsFinite, PlaceTypes, FS_Subset DEF Gone
<1>4. Cardinality(Gone) \in Nat
    BY <1>3, FS_CardinalityType
<1>5. CASE Gone' = Gone /\ dropped' = dropped /\ eventsDropped' >= eventsDropped
    <2>1. Cardinality(Gone') = Cardinality(Gone)
        BY <1>5
    <2>. QED  BY <1>1, <1>2, <1>4, <1>5, <2>1
<1>6. ASSUME NEW e, e \notin Gone, Gone' = Gone \cup {e},
             \/ dropped' = dropped + 1 /\ eventsDropped' = eventsDropped
             \/ dropped' = dropped /\ eventsDropped' > eventsDropped
      PROVE  Cardinality(Gone') \in dropped'..(dropped' + eventsDropped')
    <2>1. Cardinality(Gone \cup {e}) = Cardinality(Gone) + 1
        BY <1>3, <1>6, FS_AddElement
    <2>2. Cardinality(Gone') = Cardinality(Gone) + 1
        BY <1>6, <2>1
    <2>. QED  BY <1>1, <1>2, <1>4, <1>6, <2>2
<1>. QED  BY <1>5, <1>6

LEMMA WorkerCounts ==
    ASSUME DropInv, NEW w \in Workers, WorkerStep(w)
    PROVE  Gone' = Gone
<1>0. /\ TypeInv /\ Once /\ Nothing \notin Raised /\ queue \in Seq(Events)
    BY PlaceTypes DEF DropInv, PlaceInv
<1>1. /\ UNCHANGED <<buffer, published, raised>>
      /\ \A v \in Workers \ {w} : job'[v] = job[v]
    BY <1>0, WorkerMoves
<1>2. AtHub' = AtHub /\ Raised' = Raised
    BY <1>1 DEF AtHub, Raised
<1>3. \A e : e \in AtWorkers \/ e = job'[w].event <=> e \in AtWorkers' \/ e = job[w].event
    BY <1>1 DEF AtWorkers
<1>4. job[w].event \in AtWorkers /\ job'[w].event \in AtWorkers'
    BY DEF AtWorkers
<1>5. queue # <<>> => InQueue = {Head(queue)} \cup ToSet(Tail(queue))
    BY <1>0, Taken DEF InQueue
<1>6. Somewhere' \cup {Nothing} = Somewhere \cup {Nothing}
    <2>1. CASE queue' = queue /\ finished' = finished /\ job'[w].event = job[w].event
        BY <1>2, <1>3, <1>4, <2>1 DEF Somewhere, InQueue
    <2>2. CASE queue' = queue /\ finished' = finished \cup {job[w].event} /\ job'[w].event = Nothing
        BY <1>2, <1>3, <1>4, <2>2 DEF Somewhere, InQueue
    <2>3. CASE /\ queue # <<>> /\ queue' = Tail(queue) /\ job[w].event = Nothing
               /\ job'[w].event = Head(queue) /\ finished' = finished
        <3>1. InQueue = {Head(queue)} \cup InQueue'
            BY <1>5, <2>3 DEF InQueue
        <3>. QED  BY <1>2, <1>3, <1>4, <2>3, <3>1 DEF Somewhere
    <2>4. CASE /\ queue # <<>> /\ queue' = Tail(queue) /\ job[w].event = Nothing
               /\ job'[w].event = Nothing /\ finished' = finished \cup {Head(queue)}
        <3>1. InQueue = {Head(queue)} \cup InQueue'
            BY <1>5, <2>4 DEF InQueue
        <3>. QED  BY <1>2, <1>3, <1>4, <2>4, <3>1 DEF Somewhere
    <2>. QED  BY <1>0, <2>1, <2>2, <2>3, <2>4, WorkerMoves
<1>. QED  BY <1>0, <1>2, <1>6 DEF Gone

\* An event enters the queue, and is somewhere, or is dropped there and counted.
LEMMA EnqueueCounts ==
    ASSUME DropInv, NEW event \in Events, Enqueue(event), UNCHANGED <<job, finished, eventsDropped>>,
           event \notin InQueue \cup AtWorkers \cup finished,
           event \notin AtHub',
           \/ event \in AtHub /\ AtHub = {event} \cup AtHub' /\ Raised' = Raised
           \/ event \notin Raised /\ AtHub' = AtHub /\ Raised' = Raised \cup {event}
    PROVE  \/ Gone' = Gone /\ dropped' = dropped /\ eventsDropped' = eventsDropped
           \/ /\ event \notin Gone /\ Gone' = Gone \cup {event}
              /\ dropped' = dropped + 1 /\ eventsDropped' = eventsDropped
<1>0. TypeInv /\ Once /\ QueueTypes
    BY DEF DropInv, PlaceInv, TypeInv
<1>1. AtWorkers' = AtWorkers
    BY DEF AtWorkers
<1>2. CASE dropped' = dropped /\ InQueue' = InQueue \cup {event}
    BY <1>0, <1>1, <1>2 DEF Gone, Somewhere
<1>3. CASE dropped' = dropped + 1 /\ InQueue' = InQueue
    BY <1>0, <1>1, <1>3 DEF Gone, Somewhere, Once
<1>4. \/ dropped' = dropped /\ InQueue' = InQueue \cup {event}
      \/ dropped' = dropped + 1 /\ InQueue' = InQueue
    BY <1>0, EnqueueIs DEF InQueue
<1>. QED  BY <1>2, <1>3, <1>4

LEMMA PublishCounts ==
    ASSUME DropInv, NEW m \in Mails, publishEmailEvent(m), ~cancelled
    PROVE  \/ Gone' = Gone /\ eventsDropped' >= eventsDropped
           \/ m \notin Gone /\ Gone' = Gone \cup {m} /\ eventsDropped' > eventsDropped
<1>. DEFINE For == {s \in subscribed : Wants(s, m)}
            without == {s \in For : ~HasRoom(s)}
<1>0. /\ TypeInv /\ Once /\ buffer[Dispatcher] \in Seq(Mails) /\ raised \subseteq Alerts
      /\ subscribed \subseteq Subscribers /\ eventsDropped \in Nat /\ Dispatcher \in Subscribers
    BY PlaceTypes, Subscribing DEF DropInv, PlaceInv, TypeInv, HubTypes
<1>1. /\ m \notin published /\ published' = published \cup {m} /\ UNCHANGED <<raised, queue, job, finished>>
      /\ buffer' = [s \in Subscribers |-> IF s \in For /\ HasRoom(s) THEN Append(buffer[s], m) ELSE buffer[s]]
      /\ eventsDropped' = eventsDropped + Cardinality(without)
    BY DEF publishEmailEvent, queueVars, workerVars
<1>2. m \notin Raised /\ Raised' = Raised \cup {m}
    BY <1>0, <1>1, EventsAssumption DEF Raised
<1>3. m \notin Somewhere /\ m \notin Gone
    BY <1>0, <1>2, PlaceTypes, EventsAssumption DEF Once, Somewhere, Gone
<1>4. AtWorkers' = AtWorkers /\ InQueue' = InQueue
    BY <1>1 DEF AtWorkers, InQueue
<1>5. IsFiniteSet(without) /\ Cardinality(without) \in Nat
    BY <1>0, SubscribersFinite
<1>6. Dispatcher \in For
    BY DEF DropInv, Listens, Wants
<1>7. Dispatcher \in without <=> ~HasRoom(Dispatcher)
    BY <1>6
<1>. HIDE DEF For, without
<1>8. CASE HasRoom(Dispatcher)
    <2>1. buffer'[Dispatcher] = Append(buffer[Dispatcher], m)
        BY <1>0, <1>1, <1>6, <1>8
    <2>2. AtHub' = AtHub \cup {m}
        BY <1>0, <2>1, Appended DEF AtHub
    <2>3. Gone' = Gone
        BY <1>1, <1>2, <1>4, <2>2 DEF Gone, Somewhere
    <2>. QED  BY <1>0, <1>1, <1>5, <2>3
<1>9. CASE ~HasRoom(Dispatcher)
    <2>1. buffer'[Dispatcher] = buffer[Dispatcher]
        BY <1>0, <1>1, <1>9
    <2>2. AtHub' = AtHub
        BY <2>1 DEF AtHub
    <2>3. Gone' = Gone \cup {m}
        BY <1>1, <1>2, <1>3, <1>4, <2>2 DEF Gone, Somewhere
    <2>4. Cardinality(without) # 0
        BY <1>5, <1>7, <1>9, FS_EmptySet
    <2>5. eventsDropped' > eventsDropped
        BY <1>0, <1>1, <1>5, <2>4
    <2>. QED  BY <1>3, <2>3, <2>5
<1>. QED  BY <1>8, <1>9

LEMMA ListensStep == DropInv /\ [Next]_vars => Listens'
<1>. SUFFICES ASSUME DropInv, [Next]_vars PROVE Listens'
    OBVIOUS
<1>0. TypeInv /\ Listens
    BY DEF DropInv, PlaceInv
<1>1. CASE UNCHANGED cancelled /\ (Dispatcher \in subscribed <=> Dispatcher \in subscribed')
    BY <1>0, <1>1 DEF Listens
<1>2. CASE cancelled' = TRUE
    BY <1>2 DEF Listens
<1>3. UNCHANGED queueVars => UNCHANGED cancelled
    BY DEF queueVars
<1>4. ASSUME NEW m \in Mails, publishEmailEvent(m) PROVE UNCHANGED <<cancelled, subscribed>>
    BY <1>4 DEF publishEmailEvent, queueVars
<1>5. ASSUME NEW alert \in Alerts, PublishDomain(alert) PROVE UNCHANGED <<cancelled, subscribed>>
    BY <1>5 DEF PublishDomain, hubVars
<1>6. CASE Forward
    BY <1>1, <1>6 DEF Forward
<1>7. CASE ForwarderStops
    BY <1>0, <1>2, <1>7 DEF ForwarderStops, queueVars
<1>8. CASE stopNotifications
    BY <1>2, <1>8 DEF stopNotifications
<1>9. ASSUME NEW w \in Workers, WorkerStep(w) PROVE UNCHANGED <<cancelled, subscribed>>
    BY <1>0, <1>9, WorkerMoves
<1>. QED  BY <1>0, <1>1, <1>3, <1>4, <1>5, <1>6, <1>7, <1>8, <1>9, OthersMoveNothing DEF Next, ForwarderStep

LEMMA DropStep == DropInv /\ [Next]_vars => DropInv'
<1>. SUFFICES ASSUME DropInv, [Next]_vars PROVE DropsCounted'
    BY OnceStep, ListensStep DEF DropInv
<1>0. /\ TypeInv /\ Once /\ DropsCounted /\ Listens /\ dropped \in Nat /\ eventsDropped \in Nat
      /\ dropped' \in Nat /\ eventsDropped' \in Nat
    BY TypeStep DEF DropInv, PlaceInv, TypeInv, QueueTypes, HubTypes
<1>1. ASSUME Gone' = Gone, UNCHANGED <<dropped, eventsDropped, cancelled>>
      PROVE  DropsCounted'
    BY <1>0, <1>1, StillCounted
<1>2. ASSUME UNCHANGED <<buffer[Dispatcher], published, queueVars, job, finished, eventsDropped>>
      PROVE  DropsCounted'
    <2>1. Gone' = Gone /\ UNCHANGED <<dropped, eventsDropped, cancelled>>
        BY <1>2 DEF Gone, Raised, Somewhere, AtHub, InQueue, AtWorkers, queueVars
    <2>. QED  BY <1>1, <2>1
<1>3. ASSUME NEW m \in Mails, publishEmailEvent(m)
      PROVE  DropsCounted'
    <2>1. UNCHANGED <<dropped, cancelled>>
        BY <1>3 DEF publishEmailEvent, queueVars
    <2>2. CASE cancelled
        BY <2>1, <2>2 DEF DropsCounted
    <2>3. CASE ~cancelled
        <3>1. CASE Gone' = Gone /\ eventsDropped' >= eventsDropped
            BY <1>0, <2>1, <3>1, StillCounted
        <3>2. CASE m \notin Gone /\ Gone' = Gone \cup {m} /\ eventsDropped' > eventsDropped
            BY <1>0, <2>1, <3>2, StillCounted
        <3>. QED  BY <1>3, <2>3, <3>1, <3>2, PublishCounts
    <2>. QED  BY <2>2, <2>3
<1>4. ASSUME NEW event \in Events,
             \/ Gone' = Gone /\ dropped' = dropped /\ eventsDropped' = eventsDropped
             \/ /\ event \notin Gone /\ Gone' = Gone \cup {event}
                /\ dropped' = dropped + 1 /\ eventsDropped' = eventsDropped,
             UNCHANGED cancelled
      PROVE  DropsCounted'
    <2>1. CASE Gone' = Gone /\ dropped' = dropped /\ eventsDropped' = eventsDropped
        BY <1>1, <1>4, <2>1
    <2>2. CASE /\ event \notin Gone /\ Gone' = Gone \cup {event}
               /\ dropped' = dropped + 1 /\ eventsDropped' = eventsDropped
        BY <1>0, <1>4, <2>2, StillCounted
    <2>. QED  BY <1>4, <2>1, <2>2
<1>5. ASSUME NEW alert \in Alerts, PublishDomain(alert)
      PROVE  DropsCounted'
    <2>1. /\ alert \notin raised /\ raised' = raised \cup {alert} /\ Enqueue(alert)
          /\ UNCHANGED <<published, buffer, eventsDropped, job, finished, cancelled>>
        BY <1>5 DEF PublishDomain, mailVars, hubVars, workerVars
    <2>2. alert \in Events /\ alert \notin published /\ Nothing \notin Events
        BY <1>0, PlaceTypes, EventsAssumption DEF Events
    <2>3. alert \notin Raised /\ Raised' = Raised \cup {alert}
        BY <2>1, <2>2 DEF Raised
    <2>4. alert \notin AtHub \cup InQueue \cup finished \cup AtWorkers
        BY <1>0, <2>2, <2>3 DEF Once
    <2>5. AtHub' = AtHub
        BY <2>1 DEF AtHub
    <2>. QED  BY <1>4, <2>1, <2>2, <2>3, <2>4, <2>5, EnqueueCounts
<1>6. CASE Forward
    <2>. DEFINE event == Head(buffer[Dispatcher])
    <2>0. /\ buffer[Dispatcher] \in Seq(Mails) /\ buffer \in [Subscribers -> Seq(Mails)] /\ Dispatcher \in Subscribers
        BY <1>0, PlaceTypes, Subscribing DEF TypeInv, HubTypes
    <2>1. /\ buffer[Dispatcher] # <<>> /\ buffer'[Dispatcher] = Tail(buffer[Dispatcher]) /\ Enqueue(event)
          /\ UNCHANGED <<published, raised, job, finished, eventsDropped, cancelled>>
        BY <1>6, <2>0 DEF Forward, mailVars, workerVars
    <2>2. AtHub = {event} \cup AtHub' /\ event \notin AtHub' /\ event \in Mails
        BY <1>0, <2>0, <2>1, Taken DEF AtHub, Once
    <2>. HIDE DEF event
    <2>3. event \in Events /\ event \notin InQueue \cup AtWorkers \cup finished /\ event \in AtHub
        BY <1>0, <2>2 DEF Once, Events
    <2>4. Raised' = Raised
        BY <2>1 DEF Raised
    <2>. QED  BY <1>4, <2>1, <2>2, <2>3, <2>4, EnqueueCounts
<1>7. CASE ForwarderStops \/ stopNotifications
    <2>1. cancelled'
        BY <1>0, <1>7 DEF ForwarderStops, stopNotifications, queueVars
    <2>. QED  BY <2>1 DEF DropsCounted
<1>8. ASSUME NEW w \in Workers, WorkerStep(w)
      PROVE  DropsCounted'
    BY <1>0, <1>1, <1>8, WorkerCounts, WorkerMoves
<1>. QED  BY <1>0, <1>2, <1>3, <1>5, <1>6, <1>7, <1>8, OthersMoveNothing DEF Next, ForwarderStep

\* Every event that is published is at the hub, in the queue, with a worker or done with,
\* or was dropped and counted, until the notifications are stopped
\* (notifications.go:56-97, events.go:47-51).
THEOREM DropsAlwaysCounted == Spec => []DropsCounted
<1>1. Init => Listens
    BY DEF Init, Listens
<1>2. Init => DropsCounted
    <2>. SUFFICES ASSUME Init PROVE DropsCounted
        OBVIOUS
    <2>1. PICK start \in Starts :
             /\ published = start.past \cap Mails /\ raised = start.past \cap Alerts
             /\ finished = start.past /\ dropped = 0 /\ eventsDropped = 0
        BY DEF Init
    <2>2. start.past \subseteq Mails \cup Alerts
        BY EventsAssumption
    <2>3. Gone = {}
        BY <2>1, <2>2 DEF Gone, Raised, Somewhere
    <2>4. Cardinality(Gone) = 0
        BY <2>3, FS_EmptySet
    <2>. QED  BY <2>1, <2>4, CountedIs
<1>3. Init => DropInv
    BY <1>1, <1>2, OnceInit DEF DropInv
<1>4. DropInv => DropsCounted
    BY DEF DropInv
<1>. QED  BY <1>3, <1>4, DropStep, PTL DEF Spec


------------------------------------------------------------------------------
(* Records *)

\* A channel has its record of an event, or none after the notifications were stopped.
Done(event, i) == \/ reported[event][i] = IF config[i] = "on" THEN 1 ELSE 0
                  \/ cancelled /\ reported[event][i] = 0
Untouched(event, i) == reported[event][i] = 0 /\ seen[event][i] = 0

\* The channels before that of the worker are done with, those behind it are to come, and
\* at its own the event was seen at most once in each attempt.
UnderWay(w) ==
    job[w].at \in {"try", "backoff"} =>
       \A i \in DOMAIN Channels :
          /\ i < job[w].channel => Done(job[w].event, i)
          /\ i > job[w].channel => Untouched(job[w].event, i)
          /\ i = job[w].channel =>
                /\ reported[job[w].event][i] = 0
                /\ IF job[w].at = "try" THEN seen[job[w].event][i] < job[w].attempt
                   ELSE seen[job[w].event][i] <= job[w].attempt

Reports ==
    /\ \A event \in Events : \A i \in DOMAIN Channels :
          /\ seen[event][i] <= MaxAttempts
          /\ event \in finished => Done(event, i)
          /\ event \notin finished \cup AtWorkers => Untouched(event, i)
    /\ \A w \in Workers : UnderWay(w)

ReportInv == PlaceInv /\ Reports

LEMMA EventsWithWorkers ==
    ASSUME TypeInv
    PROVE  /\ \A event \in Events : event \in AtWorkers <=>
                 \E w \in Workers : job[w].event = event /\ job[w].at \in {"try", "backoff"}
           /\ \A w \in Workers : job[w].at \in {"try", "backoff"} =>
                 /\ job[w].event \in Events /\ job[w].channel \in DOMAIN Channels
                 /\ job[w].attempt \in 1..MaxAttempts
                 /\ job[w].at = "backoff" => job[w].attempt < MaxAttempts
BY PlaceTypes DEF TypeInv, WorkerTypes, AtWorkers

\* What is done with stays so when the notifications are stopped.
LEMMA StillDone ==
    ASSUME Reports, UNCHANGED <<config, job, finished, reported, seen>>, cancelled => cancelled'
    PROVE  Reports'
<1>1. AtWorkers' = AtWorkers
    BY DEF AtWorkers
<1>2. \A event, i : (Done(event, i) => Done(event, i)') /\ (Untouched(event, i) => Untouched(event, i)')
    BY DEF Done, Untouched
<1>3. ASSUME NEW w \in Workers PROVE UnderWay(w)'
    <2>1. UnderWay(w)
        BY DEF Reports
    <2>. QED  BY <1>2, <2>1 DEF UnderWay
<1>4. ASSUME NEW event \in Events, NEW i \in DOMAIN Channels
      PROVE  /\ seen'[event][i] <= MaxAttempts
             /\ event \in finished' => Done(event, i)'
             /\ event \notin finished' \cup AtWorkers' => Untouched(event, i)'
    BY <1>1, <1>2 DEF Reports
<1>. QED  BY <1>3, <1>4 DEF Reports

\* A worker is done with an event at its channel, and goes on to the next.
\* Nothing is changed about other events, and at other channels of this one.
LEMMA GoOnReports ==
    ASSUME ReportInv, TypeInv', Once', NEW w \in Workers, NEW event \in Events, NEW from \in 0..Len(Channels),
           GoOn(w, event, from + 1), UNCHANGED <<config, cancelled>>,
           event \notin finished, \A v \in Workers \ {w} : job[v].event # event,
           job[w].event \in {event, Nothing},
           \A e \in Events : \A i \in DOMAIN Channels : e # event \/ i # from =>
              reported'[e][i] = reported[e][i] /\ seen'[e][i] = seen[e][i],
           \A i \in DOMAIN Channels :
              /\ i < from => Done(event, i)
              /\ i > from => Untouched(event, i)
              /\ i = from => Done(event, i)' /\ seen'[event][i] <= MaxAttempts
    PROVE  Reports'
<1>0. /\ TypeInv /\ Reports /\ QueueTypes /\ WorkerTypes /\ Nothing \notin Events /\ from + 1 \in 1..(Len(Channels) + 1)
      /\ Len(Channels) \in Nat /\ DOMAIN Channels = 1..Len(Channels) /\ MaxAttempts \in Nat \ {0}
    BY PlaceTypes, EventsAssumption, LenProperties DEF ReportInv, PlaceInv, TypeInv
<1>1. \A v \in Workers \ {w} : job'[v] = job[v]
    BY <1>0, GoOnIs
<1>2. ASSUME NEW e \in Events, NEW i \in DOMAIN Channels, e # event \/ i # from
      PROVE  (Done(e, i) => Done(e, i)') /\ (Untouched(e, i) => Untouched(e, i)')
    <2>1. reported'[e][i] = reported[e][i] /\ seen'[e][i] = seen[e][i]
        BY <1>2
    <2>. QED  BY <2>1 DEF Done, Untouched
<1>3. \A i \in DOMAIN Channels : i <= from => Done(event, i)'
    BY <1>0, <1>2
<1>4. \A i \in DOMAIN Channels : i > from => Untouched(event, i)'
    BY <1>0, <1>2
<1>5. \A e \in Events : \A i \in DOMAIN Channels : seen'[e][i] <= MaxAttempts
    BY <1>0 DEF Reports
<1>6. ASSUME NEW v \in Workers \ {w} PROVE UnderWay(v)'
    <2>1. UnderWay(v) /\ job'[v] = job[v]
        BY <1>0, <1>1 DEF Reports
    <2>2. ASSUME NEW e, e = job[v].event, job[v].at \in {"try", "backoff"}
          PROVE  UnderWay(v)'
        <3>1. e \in Events /\ e # event
            BY <1>0, <2>2, EventsWithWorkers
        <3>2. \A i \in DOMAIN Channels : /\ (Done(e, i) => Done(e, i)') /\ (Untouched(e, i) => Untouched(e, i)')
                                         /\ reported'[e][i] = reported[e][i] /\ seen'[e][i] = seen[e][i]
            BY <1>2, <3>1
        <3>3. \A i \in DOMAIN Channels :
                 /\ i < job[v].channel => Done(e, i)
                 /\ i > job[v].channel => Untouched(e, i)
                 /\ i = job[v].channel =>
                       /\ reported[e][i] = 0
                       /\ IF job[v].at = "try" THEN seen[e][i] < job[v].attempt ELSE seen[e][i] <= job[v].attempt
            BY <2>1, <2>2 DEF UnderWay, Done, Untouched
        <3>4. job'[v].event = e
            BY <2>1, <2>2
        <3>5. \A i \in DOMAIN Channels :
                 /\ i < job'[v].channel => Done(e, i)'
                 /\ i > job'[v].channel => Untouched(e, i)'
                 /\ i = job'[v].channel =>
                       /\ reported'[e][i] = 0
                       /\ IF job'[v].at = "try" THEN seen'[e][i] < job'[v].attempt ELSE seen'[e][i] <= job'[v].attempt
            BY <2>1, <3>2, <3>3
        <3>. QED  BY <3>4, <3>5 DEF UnderWay, Done, Untouched
    <2>. QED  BY <2>1, <2>2 DEF UnderWay
<1>7. ASSUME NEW e \in Events, NEW i \in DOMAIN Channels, e # event
      PROVE  /\ e \in finished => Done(e, i)'
             /\ e \notin finished \cup AtWorkers => Untouched(e, i)'
             /\ e \in AtWorkers <=> e \in AtWorkers'
    <2>1. (e \in finished => Done(e, i)) /\ (e \notin finished \cup AtWorkers => Untouched(e, i))
        BY <1>0 DEF Reports
    <2>2. job[w].event # e
        BY <1>0, <1>7
    <2>3. job'[w].event # e
        BY <1>0, <1>7, GoesOn DEF Idle
    <2>. QED  BY <1>1, <1>2, <1>7, <2>1, <2>2, <2>3 DEF AtWorkers
<1>8. CASE /\ job'[w] = Idle /\ finished' = finished \cup {event}
           /\ \A j \in DOMAIN Channels : from + 1 <= j => config[j] = "off"
    <2>1. \A i \in DOMAIN Channels : Done(event, i)'
        <3>1. ASSUME NEW i \in DOMAIN Channels, i > from PROVE Done(event, i)'
            <4>1. config'[i] = "off" /\ reported'[event][i] = 0
                BY <1>0, <1>4, <1>8, <3>1 DEF Untouched
            <4>. QED  BY <4>1 DEF Done
        <3>. QED  BY <1>0, <1>3, <3>1
    <2>2. UnderWay(w)'
        BY <1>8 DEF UnderWay, Idle
    <2>. QED  BY <1>5, <1>6, <1>7, <1>8, <2>1, <2>2 DEF Reports
<1>9. ASSUME NEW k \in DOMAIN Channels,
             job'[w] = [at |-> "try", event |-> event, channel |-> k, attempt |-> 1], finished' = finished,
             from + 1 <= k, \A j \in DOMAIN Channels : from + 1 <= j /\ j < k => config[j] = "off"
      PROVE  Reports'
    <2>1. /\ job'[w].at = "try" /\ job'[w].event = event /\ job'[w].channel = k /\ job'[w].attempt = 1
        BY <1>9
    <2>2. ASSUME NEW i \in DOMAIN Channels, i < k PROVE Done(event, i)'
        <3>1. CASE i > from
            <4>1. config'[i] = "off" /\ reported'[event][i] = 0
                BY <1>0, <1>4, <1>9, <2>2, <3>1 DEF Untouched
            <4>. QED  BY <4>1 DEF Done
        <3>. QED  BY <1>0, <1>3, <3>1
    <2>3. \A i \in DOMAIN Channels : i >= k => reported'[event][i] = 0 /\ seen'[event][i] = 0
        BY <1>0, <1>4, <1>9 DEF Untouched
    <2>4. UnderWay(w)'
        BY <1>0, <2>1, <2>2, <2>3 DEF UnderWay, Untouched
    <2>5. event \in AtWorkers'
        BY <2>1 DEF AtWorkers
    <2>. QED  BY <1>5, <1>6, <1>7, <1>9, <2>4, <2>5 DEF Reports
<1>10. CASE \E k \in DOMAIN Channels :
               /\ job' = [job EXCEPT ![w] = [at |-> "try", event |-> event, channel |-> k, attempt |-> 1]]
               /\ job'[w] = [at |-> "try", event |-> event, channel |-> k, attempt |-> 1]
               /\ finished' = finished
               /\ from + 1 <= k /\ \A j \in DOMAIN Channels : from + 1 <= j /\ j < k => config[j] = "off"
    BY <1>9, <1>10, Zenon
<1>11. WentOn(w, event, from + 1)
    BY <1>0, GoOnIs
<1>. QED  BY <1>8, <1>10, <1>11, Zenon DEF WentOn


\* A worker keeps its event at its channel.
LEMMA StayReports ==
    ASSUME ReportInv, NEW w \in Workers, UNCHANGED <<config, cancelled, finished, reported>>,
           \A v \in Workers \ {w} : job'[v] = job[v],
           job[w].at \in {"try", "backoff"}, job'[w].at \in {"try", "backoff"},
           job'[w].event = job[w].event, job'[w].channel = job[w].channel,
           \A e \in Events : \A i \in DOMAIN Channels :
              \/ seen'[e][i] = seen[e][i]
              \/ e = job[w].event /\ i = job[w].channel,
           LET count == seen'[job[w].event][job[w].channel] IN
           /\ IF job'[w].at = "try" THEN count < job'[w].attempt ELSE count <= job'[w].attempt
           /\ count <= MaxAttempts
    PROVE  Reports'
<1>0. TypeInv /\ Once /\ Reports /\ Nothing \notin Events
    BY PlaceTypes DEF ReportInv, PlaceInv
<1>. DEFINE k == job[w].channel
<1>1. PICK event \in Events : event = job[w].event
    BY <1>0, EventsWithWorkers
<1>2. k \in DOMAIN Channels /\ DOMAIN Channels \subseteq Nat
    BY <1>0, EventsWithWorkers, EventsAssumption, LenProperties
<1>3. AtWorkers' = AtWorkers
    BY DEF AtWorkers
<1>4. \A e, i : Done(e, i) => Done(e, i)'
    BY DEF Done
<1>5. \A e \in Events : \A i \in DOMAIN Channels :
         e # event \/ i # k => (Untouched(e, i) => Untouched(e, i)') /\ seen'[e][i] = seen[e][i]
    BY <1>1 DEF Untouched
<1>6. event \in AtWorkers
    BY <1>1 DEF AtWorkers
<1>7. ASSUME NEW e \in Events, NEW i \in DOMAIN Channels
      PROVE  /\ seen'[e][i] <= MaxAttempts
             /\ e \in finished' => Done(e, i)'
             /\ e \notin finished' \cup AtWorkers' => Untouched(e, i)'
    <2>1. /\ seen[e][i] <= MaxAttempts
          /\ e \in finished => Done(e, i)
          /\ e \notin finished \cup AtWorkers => Untouched(e, i)
        BY <1>0 DEF Reports
    <2>2. seen'[e][i] <= MaxAttempts
        BY <1>1, <1>5, <2>1
    <2>3. e \notin finished' \cup AtWorkers' => Untouched(e, i)'
        BY <1>3, <1>5, <1>6, <2>1
    <2>. QED  BY <1>4, <2>1, <2>2, <2>3
<1>8. ASSUME NEW v \in Workers \ {w}, NEW e, e = job[v].event, job[v].at \in {"try", "backoff"}
      PROVE  UnderWay(v)'
    <2>1. UnderWay(v) /\ job'[v] = job[v]
        BY <1>0 DEF Reports
    <2>2. e \in Events /\ e # event
        BY <1>0, <1>1, <1>8, EventsWithWorkers DEF Once
    <2>3. \A i \in DOMAIN Channels :
             /\ i < job[v].channel => Done(e, i)
             /\ i > job[v].channel => Untouched(e, i)
             /\ i = job[v].channel =>
                   /\ reported[e][i] = 0
                   /\ IF job[v].at = "try" THEN seen[e][i] < job[v].attempt ELSE seen[e][i] <= job[v].attempt
        BY <1>8, <2>1 DEF UnderWay, Done, Untouched
    <2>4. \A i \in DOMAIN Channels :
             /\ i < job'[v].channel => Done(e, i)'
             /\ i > job'[v].channel => Untouched(e, i)'
             /\ i = job'[v].channel =>
                   /\ reported'[e][i] = 0
                   /\ IF job'[v].at = "try" THEN seen'[e][i] < job'[v].attempt ELSE seen'[e][i] <= job'[v].attempt
        BY <1>4, <1>5, <2>1, <2>2, <2>3
    <2>. QED  BY <1>8, <2>1, <2>4 DEF UnderWay, Done, Untouched
<1>9. UnderWay(w)'
    <2>1. \A i \in DOMAIN Channels :
             /\ i < k => Done(event, i)
             /\ i > k => Untouched(event, i)
             /\ i = k => reported[event][i] = 0
        <3>1. UnderWay(w)
            BY <1>0 DEF Reports
        <3>. QED  BY <1>1, <3>1 DEF UnderWay, Done, Untouched
    <2>2. \A i \in DOMAIN Channels :
             /\ i < k => Done(event, i)'
             /\ i > k => Untouched(event, i)'
             /\ i = k => reported'[event][i] = 0
        BY <1>2, <1>4, <1>5, <2>1
    <2>. QED  BY <1>1, <2>2 DEF UnderWay, Done, Untouched
<1>10. ASSUME NEW v \in Workers PROVE UnderWay(v)'
    <2>1. CASE v # w /\ job[v].at \in {"try", "backoff"}
        BY <1>8, <2>1
    <2>2. CASE v # w /\ job[v].at \notin {"try", "backoff"}
        BY <2>2 DEF UnderWay
    <2>. QED  BY <1>9, <2>1, <2>2
<1>. QED  BY <1>7, <1>10 DEF Reports

\* A worker without an event takes none.
LEMMA IdleReports ==
    ASSUME ReportInv, NEW w \in Workers, WorkerStops(w)
    PROVE  Reports'
<1>0. TypeInv /\ Reports /\ job \in [Workers -> Jobs]
    BY DEF ReportInv, PlaceInv, TypeInv, WorkerTypes
<1>1. /\ job' = [job EXCEPT ![w].at = "stopped"] /\ job[w].at = "idle"
      /\ UNCHANGED <<config, cancelled, finished, reported, seen>>
    BY DEF WorkerStops, Works
<1>2. (\A v \in Workers \ {w} : job'[v] = job[v]) /\ job'[w].at = "stopped" /\ job'[w].event = job[w].event
    BY <1>0, <1>1 DEF Jobs
<1>3. AtWorkers' = AtWorkers
    BY <1>2 DEF AtWorkers
<1>4. \A e, i : (Done(e, i)' <=> Done(e, i)) /\ (Untouched(e, i)' <=> Untouched(e, i))
    BY <1>1 DEF Done, Untouched
<1>5. ASSUME NEW v \in Workers PROVE UnderWay(v)'
    <2>1. CASE v = w
        BY <1>2, <2>1 DEF UnderWay
    <2>2. CASE v # w
        <3>1. UnderWay(v) /\ job'[v] = job[v]
            BY <1>0, <1>2, <2>2 DEF Reports
        <3>. QED  BY <1>1, <3>1 DEF UnderWay, Done, Untouched
    <2>. QED  BY <2>1, <2>2
<1>6. ASSUME NEW e \in Events, NEW i \in DOMAIN Channels
      PROVE  /\ seen'[e][i] <= MaxAttempts
             /\ e \in finished' => Done(e, i)'
             /\ e \notin finished' \cup AtWorkers' => Untouched(e, i)'
    BY <1>0, <1>1, <1>3, <1>4 DEF Reports
<1>. QED  BY <1>5, <1>6 DEF Reports


LEMMA TakeReports ==
    ASSUME ReportInv, TypeInv', Once', NEW w \in Workers, TakeEvent(w)
    PROVE  Reports'
<1>. DEFINE event == Head(queue)
<1>0. /\ TypeInv /\ Once /\ Reports /\ Nothing \notin Events /\ queue \in Seq(Events) /\ Fits(job[w])
      /\ Len(Channels) \in Nat /\ DOMAIN Channels = 1..Len(Channels)
    BY PlaceTypes, JobsFit, EventsAssumption, LenProperties DEF ReportInv, PlaceInv, TypeInv
<1>1. /\ queue # <<>> /\ GoOn(w, event, 0 + 1) /\ job[w].event = Nothing
      /\ UNCHANGED <<config, cancelled, reported, seen>>
    BY <1>0 DEF TakeEvent, Works, Fits
<1>2. event \in Events /\ event \in InQueue
    BY <1>0, <1>1, Taken DEF InQueue
<1>. HIDE DEF event
<1>3. event \notin finished /\ event \notin AtWorkers
    BY <1>0, <1>2 DEF Once
<1>4. \A v \in Workers \ {w} : job[v].event # event
    BY <1>3 DEF AtWorkers
<1>5. \A i \in DOMAIN Channels : i > 0 /\ Untouched(event, i)
    BY <1>0, <1>2, <1>3 DEF Reports
<1>6. 0 \in 0..Len(Channels) /\ \A i \in DOMAIN Channels : ~(i < 0) /\ i # 0
    BY <1>0
<1>. QED  BY <1>1, <1>2, <1>3, <1>4, <1>5, <1>6, GoOnReports

\* A worker is done with its channel: the record is there, or there is none because it is
\* not configured or the notifications are stopped.
LEMMA ChannelReports ==
    ASSUME ReportInv, TypeInv', Once', NEW w \in Workers,
           NotConfigured(w) \/ Answered(w) \/ (AttemptFails(w) /\ IsLast(w)) \/ BackoffCancelled(w)
    PROVE  Reports'
<1>0. /\ TypeInv /\ Once /\ Reports /\ Nothing \notin Events /\ WorkerTypes /\ MaxAttempts \in Nat
      /\ Len(Channels) \in Nat /\ DOMAIN Channels = 1..Len(Channels)
    BY PlaceTypes, EventsAssumption, LenProperties DEF ReportInv, PlaceInv, TypeInv
<1>1. /\ GoOn(w, job[w].event, job[w].channel + 1) /\ job[w].at \in {"try", "backoff"}
      /\ UNCHANGED <<config, cancelled>>
      /\ reported' \in {reported, Count(reported, w)} /\ seen' \in {seen, Count(seen, w)}
    BY DEF NotConfigured, Answered, AttemptFails, BackoffCancelled, Works, recordDelivery
<1>2. PICK event \in Events : event = job[w].event
    BY <1>0, <1>1, EventsWithWorkers
<1>3. PICK k \in DOMAIN Channels : k = job[w].channel
    BY <1>0, <1>1, EventsWithWorkers
<1>4. job[w].attempt \in 1..MaxAttempts /\ (job[w].at = "backoff" => job[w].attempt < MaxAttempts)
    BY <1>0, <1>1, EventsWithWorkers
<1>5. /\ event \notin finished /\ \A v \in Workers \ {w} : job[v].event # event
    BY <1>0, <1>2 DEF Once, AtWorkers
<1>6. /\ reported \in [Events -> [DOMAIN Channels -> Nat]] /\ seen \in [Events -> [DOMAIN Channels -> Nat]]
    BY <1>0 DEF WorkerTypes
<1>7. \A e \in Events : \A i \in DOMAIN Channels :
         /\ Count(reported, w)[e][i] = IF e = event /\ i = k THEN reported[e][i] + 1 ELSE reported[e][i]
         /\ Count(seen, w)[e][i] = IF e = event /\ i = k THEN seen[e][i] + 1 ELSE seen[e][i]
    <2>1. WorkerTypes /\ w \in Workers /\ job[w].at \in {"try", "backoff"}
        BY <1>0, <1>1
    <2>2. \A e \in Events : \A i \in DOMAIN Channels :
             Count(reported, w)[e][i] = IF e = event /\ i = k THEN reported[e][i] + 1 ELSE reported[e][i]
        BY <1>2, <1>3, <1>6, <2>1, Counting
    <2>3. \A e \in Events : \A i \in DOMAIN Channels :
             Count(seen, w)[e][i] = IF e = event /\ i = k THEN seen[e][i] + 1 ELSE seen[e][i]
        BY <1>2, <1>3, <1>6, <2>1, Counting
    <2>. QED  BY <2>2, <2>3
<1>8. \A e \in Events : \A i \in DOMAIN Channels : e # event \/ i # k =>
         reported'[e][i] = reported[e][i] /\ seen'[e][i] = seen[e][i]
    BY <1>1, <1>7
<1>9. /\ \A i \in DOMAIN Channels : (i < k => Done(event, i)) /\ (i > k => Untouched(event, i))
      /\ reported[event][k] = 0
      /\ IF job[w].at = "try" THEN seen[event][k] < job[w].attempt ELSE seen[event][k] <= job[w].attempt
    <2>1. UnderWay(w)
        BY <1>0 DEF Reports
    <2>. QED  BY <1>1, <1>2, <1>3, <2>1 DEF UnderWay, Done, Untouched
<1>10. seen'[event][k] <= MaxAttempts
    <2>1. seen[event][k] \in Nat
        BY <1>6
    <2>2. CASE job[w].at = "try"
        BY <1>0, <1>1, <1>4, <1>7, <1>9, <2>1, <2>2
    <2>3. CASE job[w].at # "try"
        <3>1. seen' = seen
            BY <2>3 DEF NotConfigured, Answered, AttemptFails, BackoffCancelled, Works
        <3>. QED  BY <1>0, <1>1, <1>4, <1>9, <2>1, <2>3, <3>1
    <2>. QED  BY <2>2, <2>3
<1>11. Done(event, k)'
    <2>1. CASE NotConfigured(w)
        <3>1. config'[k] = "broken" /\ reported' = reported
            BY <1>1, <1>3, <2>1 DEF NotConfigured
        <3>. QED  BY <1>9, <3>1 DEF Done
    <2>2. CASE Answered(w) \/ (AttemptFails(w) /\ IsLast(w))
        <3>1. config'[k] = "on" /\ reported' = Count(reported, w)
            BY <1>1, <1>3, <2>2 DEF Answered, AttemptFails, recordDelivery
        <3>2. reported'[event][k] = 1
            BY <1>7, <1>9, <3>1
        <3>. QED  BY <3>1, <3>2 DEF Done
    <2>3. CASE BackoffCancelled(w)
        <3>1. cancelled' /\ reported' = reported
            BY <1>1, <2>3 DEF BackoffCancelled
        <3>. QED  BY <1>9, <3>1 DEF Done
    <2>. QED  BY <2>1, <2>2, <2>3
<1>12. k \in 0..Len(Channels) /\ GoOn(w, event, k + 1) /\ job[w].event \in {event, Nothing}
    BY <1>0, <1>1, <1>2, <1>3
<1>. QED  BY <1>1, <1>5, <1>8, <1>9, <1>10, <1>11, <1>12, GoOnReports

LEMMA AttemptReports ==
    ASSUME ReportInv, NEW w \in Workers, (AttemptFails(w) /\ ~IsLast(w)) \/ BackoffEnds(w)
    PROVE  Reports'
<1>0. /\ TypeInv /\ Once /\ Reports /\ WorkerTypes /\ MaxAttempts \in Nat /\ job \in [Workers -> Jobs]
      /\ seen \in [Events -> [DOMAIN Channels -> Nat]]
    BY EventsAssumption DEF ReportInv, PlaceInv, TypeInv, WorkerTypes
<1>1. /\ job[w].at \in {"try", "backoff"} /\ UNCHANGED <<config, cancelled, finished, reported>>
      /\ \/ job[w].at = "try" /\ job' = [job EXCEPT ![w].at = "backoff"] /\ seen' \in {seen, Count(seen, w)}
         \/ job[w].at = "backoff" /\ job' = [job EXCEPT ![w].at = "try", ![w].attempt = @ + 1] /\ seen' = seen
    BY DEF AttemptFails, BackoffEnds, Works
<1>2. PICK event \in Events : event = job[w].event
    BY <1>0, <1>1, EventsWithWorkers
<1>3. PICK k \in DOMAIN Channels : k = job[w].channel
    BY <1>0, <1>1, EventsWithWorkers
<1>4. job[w].attempt \in 1..MaxAttempts /\ (job[w].at = "backoff" => job[w].attempt < MaxAttempts)
    BY <1>0, <1>1, EventsWithWorkers
<1>5. \A v \in Workers \ {w} : job'[v] = job[v]
    BY <1>0, <1>1
<1>6. /\ job'[w].event = event /\ job'[w].channel = k
      /\ \/ job[w].at = "try" /\ job'[w].at = "backoff" /\ job'[w].attempt = job[w].attempt
         \/ job[w].at = "backoff" /\ job'[w].at = "try" /\ job'[w].attempt = job[w].attempt + 1
    BY <1>0, <1>1, <1>2, <1>3 DEF Jobs
<1>7. \A e \in Events : \A i \in DOMAIN Channels :
         Count(seen, w)[e][i] = IF e = event /\ i = k THEN seen[e][i] + 1 ELSE seen[e][i]
    BY <1>0, <1>1, <1>2, <1>3, Counting
<1>8. \A e \in Events : \A i \in DOMAIN Channels : seen'[e][i] = seen[e][i] \/ (e = event /\ i = k)
    BY <1>1, <1>7
<1>9. IF job[w].at = "try" THEN seen[event][k] < job[w].attempt ELSE seen[event][k] <= job[w].attempt
    <2>1. UnderWay(w)
        BY <1>0 DEF Reports
    <2>. QED  BY <1>1, <1>2, <1>3, <2>1 DEF UnderWay
<1>10. /\ IF job'[w].at = "try" THEN seen'[event][k] < job'[w].attempt ELSE seen'[event][k] <= job'[w].attempt
       /\ seen'[event][k] <= MaxAttempts
    <2>1. seen[event][k] \in Nat
        BY <1>0
    <2>2. CASE job[w].at = "try"
        <3>1. seen'[event][k] \in {seen[event][k], seen[event][k] + 1}
            BY <1>1, <1>7, <2>2
        <3>. QED  BY <1>0, <1>4, <1>6, <1>9, <2>1, <2>2, <3>1
    <2>3. CASE job[w].at = "backoff"
        BY <1>0, <1>1, <1>4, <1>6, <1>9, <2>1, <2>3
    <2>. QED  BY <1>1, <2>2, <2>3
<1>. QED  BY <1>1, <1>2, <1>3, <1>5, <1>6, <1>8, <1>10, StayReports

LEMMA ReportStep == ReportInv /\ [Next]_vars => ReportInv'
<1>. SUFFICES ASSUME ReportInv, [Next]_vars PROVE Reports'
    BY OnceStep DEF ReportInv
<1>0. TypeInv /\ Once /\ Reports /\ TypeInv' /\ Once'
    BY OnceStep DEF ReportInv, PlaceInv
<1>1. ASSUME NEW w \in Workers, WorkerStep(w)
      PROVE  Reports'
    BY <1>0, <1>1, TakeReports, ChannelReports, AttemptReports, IdleReports DEF WorkerStep
<1>2. ASSUME UNCHANGED <<config, job, finished, reported, seen>>, cancelled => cancelled'
      PROVE  Reports'
    BY <1>0, <1>2, StillDone
<1>3. ASSUME NEW m \in Mails, publishEmailEvent(m)
      PROVE  UNCHANGED <<config, cancelled, job, finished, reported, seen>>
    BY <1>3 DEF publishEmailEvent, queueVars, workerVars
<1>4. ASSUME NEW alert \in Alerts, PublishDomain(alert)
      PROVE  UNCHANGED <<config, cancelled, job, finished, reported, seen>>
    BY <1>4 DEF PublishDomain, workerVars
<1>5. ASSUME ForwarderStep \/ stopNotifications
      PROVE  UNCHANGED <<config, job, finished, reported, seen>> /\ (cancelled => cancelled')
    BY <1>5 DEF ForwarderStep, Forward, ForwarderStops, stopNotifications, queueVars, workerVars
<1>6. UNCHANGED queueVars => UNCHANGED <<config, cancelled>>
    BY DEF queueVars
<1>. QED  BY <1>0, <1>1, <1>2, <1>3, <1>4, <1>5, <1>6, OthersMoveNothing DEF Next

\* A channel that is on sees an event at most MaxAttempts times; when a worker is done with
\* the event the channel has one record of it, unless the notifications were stopped
\* (notifications.go:117-208).
THEOREM DeliveriesAlwaysReported == Spec => []DeliveryReported
<1>1. Init => Reports
    <2>. SUFFICES ASSUME Init PROVE Reports
        OBVIOUS
    <2>1. PICK start \in Starts :
             /\ config = start.config /\ finished = start.past
             /\ job = [w \in Workers |-> IF start.stopped THEN [Idle EXCEPT !.at = "stopped"] ELSE Idle]
             /\ reported = RecordsOf(start) /\ seen = RecordsOf(start)
        BY DEF Init
    <2>2. MaxAttempts \in Nat \ {0}
        BY EventsAssumption
    <2>3. \A event \in Events : \A i \in DOMAIN Channels :
             /\ reported[event][i] = IF event \in start.past /\ start.config[i] = "on" THEN 1 ELSE 0
             /\ seen[event][i] = reported[event][i]
        BY <2>1 DEF RecordsOf
    <2>4. ASSUME NEW event \in Events, NEW i \in DOMAIN Channels
          PROVE  /\ seen[event][i] <= MaxAttempts
                 /\ event \in finished => Done(event, i)
                 /\ event \notin finished \cup AtWorkers => Untouched(event, i)
        BY <2>1, <2>2, <2>3 DEF Done, Untouched
    <2>5. ASSUME NEW w \in Workers PROVE UnderWay(w)
        BY <2>1 DEF UnderWay, Idle
    <2>. QED  BY <2>4, <2>5 DEF Reports
<1>2. Init => ReportInv
    BY <1>1, OnceInit DEF ReportInv
<1>3. ReportInv => DeliveryReported
    BY DEF ReportInv, Reports, DeliveryReported, Done
<1>. QED  BY <1>2, <1>3, ReportStep, PTL DEF Spec

================================================================================
