------------------------------ MODULE MailEvents -------------------------------
(***************************************************************************)
(* What happens to a mail after it is stored: the hub of the LMTP server   *)
(* (api/ingress/events.go) offers it to its subscribers, which are the     *)
(* streams that open inbox pages hold (api/handler/email.go,               *)
(* frontend/src/pages/InboxPage.vue) and the dispatcher of notifications   *)
(* (api/integrations/notifications.go).  Nothing in it may hold up the     *)
(* worker that has stored the mail.                                        *)
(*                                                                         *)
(* There is one page.  Each of its connections has a handler and a         *)
(* subscription of its own, also after the page has turned to the next.    *)
(*                                                                         *)
(* Beside some definitions stands a mistaken form.                         *)
(***************************************************************************)
EXTENDS Naturals, FiniteSets, SequencesExt

CONSTANTS
    Mails,            \* numbered by their received_at, in whatever order they are stored
    InBox,            \* those of the mailbox the page shows
    Alerts,           \* notifications about domains
    Channels,         \* of notifications, in the order they are tried
    Workers,          \* of the dispatcher
    Nothing,          \* no value
    Starts,           \* a page, a configuration, events of the past, and whether the
                      \* notifications are stopped
    HubBuffer,        \* 16 events of a subscriber
    QueueSize,        \* 128 events of the dispatcher
    MaxAttempts,      \* 3
    PageSize,         \* 100 mails of a list
    MaxConnections,   \* bound of the model: of the page
    MaxReads,         \* bound of the model: lists the page reads
    MaxBreaks         \* bound of the model: lines that break

ASSUME EventsAssumption ==
    /\ Mails \subseteq Nat /\ InBox \subseteq Mails /\ Mails \cap Alerts = {} /\ Nothing \notin Mails \cup Alerts
    /\ IsFiniteSet(Mails) /\ IsFiniteSet(Alerts) /\ Channels \in Seq(STRING)
    /\ Starts \subseteq [page : {"new", "left"}, past : SUBSET (Mails \cup Alerts),
                          config : [DOMAIN Channels -> {"on", "off", "broken"}],
                          stopped : BOOLEAN]
    /\ HubBuffer \in Nat \ {0} /\ QueueSize \in Nat \ {0} /\ MaxAttempts \in Nat \ {0}
    /\ PageSize \in Nat \ {0}
    /\ MaxConnections \in Nat /\ MaxReads \in Nat /\ MaxBreaks \in Nat

VARIABLES
    stored, published,  \* mails
    subscribed,       \* the keys of eventSubscribers
    buffer,           \* the channel of a subscriber
    eventsDropped,
    page,             \* realtimeState; "new" before, "alone" without it, "left" after
    shown,            \* emails
    loaded, polled,   \* the answers of load and pollOnce that are under way
    conn,             \* connections so far; the last is the page's own
    stream,           \* the handler of a connection
    line,             \* what a connection carries
    reads, breaks,
    listed,           \* history: what the mailbox held when the list shown was read
    excused,          \* history: mails an inbox may lack
    config,           \* of a channel: "on", "off", or "broken", without a valid URL
    forwarder,        \* the goroutine that feeds the queue
    queue, dropped,   \* of the dispatcher
    job,              \* what a worker does
    cancelled,        \* notificationCtx
    raised, finished, \* history: alerts published, events a worker is done with
    reported, seen    \* history: records of an event and a channel, arrivals there

mailVars == <<stored, published>>
hubVars == <<subscribed, buffer, eventsDropped>>
pageVars == <<page, shown, loaded, polled, conn, stream, line, reads, breaks, listed,
             excused>>
queueVars == <<config, queue, dropped, cancelled, raised>>
workerVars == <<job, finished, reported, seen>>
vars == <<mailVars, hubVars, pageVars, queueVars, forwarder, workerVars>>

Connections == 1..MaxConnections
Dispatcher == 0
Subscribers == {Dispatcher} \cup Connections
Events == Mails \cup Alerts
Idle == [at |-> "idle", event |-> Nothing, channel |-> 0, attempt |-> 0]
\* What is past was delivered.
RecordsOf(start) ==
    [event \in Events |-> [i \in DOMAIN Channels |->
        IF event \in start.past /\ start.config[i] = "on" THEN 1 ELSE 0]]

Init ==
    \E start \in Starts :
       /\ stored = start.past \cap Mails /\ published = stored
       /\ subscribed = IF start.stopped THEN {} ELSE {Dispatcher}
       /\ buffer = [s \in Subscribers |-> <<>>] /\ eventsDropped = 0
       /\ page = start.page
       /\ shown = {} /\ loaded = Nothing /\ polled = Nothing
       /\ conn = 0 /\ reads = 0 /\ breaks = 0 /\ listed = {} /\ excused = {}
       /\ stream = [c \in Connections |-> "none"]
       /\ line = [c \in Connections |-> "up"]
       /\ config = start.config
       /\ cancelled = start.stopped
       /\ forwarder = IF start.stopped THEN "stopped" ELSE "running"
       /\ queue = <<>> /\ dropped = 0
       /\ job = [w \in Workers |->
                    IF start.stopped THEN [Idle EXCEPT !.at = "stopped"] ELSE Idle]
       /\ raised = start.past \cap Alerts /\ finished = start.past
       /\ reported = RecordsOf(start) /\ seen = RecordsOf(start)

------------------------------------------------------------------------------
(* The hub *)

InsertEmailResolved(m) ==
    /\ m \notin stored
    /\ stored' = stored \cup {m}
    /\ UNCHANGED <<published, hubVars, pageVars, queueVars, forwarder, workerVars>>

WantsAll(s, m) == TRUE
Wants(s, m) == s = Dispatcher \/ m \in InBox

HasRoom(s) == Len(buffer[s]) < HubBuffer

\* Who has no room goes without: the worker does not wait.
publishEmailEvent(m) ==
    LET For == {s \in subscribed : Wants(s, m)} IN
    /\ m \in stored \ published
    /\ published' = published \cup {m}
    /\ buffer' = [s \in Subscribers |-> IF s \in For /\ HasRoom(s) THEN Append(buffer[s], m)
                                        ELSE buffer[s]]
    /\ eventsDropped' = eventsDropped + Cardinality({s \in For : ~HasRoom(s)})
    /\ excused' = IF conn \in For \ {Dispatcher} /\ ~HasRoom(conn) THEN excused \cup {m}
                  ELSE excused
    /\ UNCHANGED <<stored, subscribed, page, shown, loaded, polled, conn, stream, line, reads,
                   breaks, listed, queueVars, forwarder, workerVars>>

WithoutMailbox(s) == IF s \in Connections THEN subscribed \ Connections ELSE subscribed \ {s}
\* Subscriptions have numbers, so that an old one takes only itself away.
Without(s) == subscribed \ {s}

Unsubscribe(s) ==
    /\ subscribed' = Without(s)
    /\ buffer' = [buffer EXCEPT ![s] = <<>>]
    /\ UNCHANGED eventsDropped

------------------------------------------------------------------------------
(* The handler of a connection: GET /console/v1/mailboxes/:id/events *)

Handles(c, from) ==
    /\ stream[c] \in from
    /\ UNCHANGED <<mailVars, loaded, conn, line, reads, breaks, listed, queueVars, forwarder,
                   workerVars>>

\* The mailbox is there, or it is not (404).
Subscribe(c) ==
    /\ Handles(c, {"asked"})
    /\ \/ /\ subscribed' = subscribed \cup {c}
          /\ stream' = [stream EXCEPT ![c] = "subscribed"]
       \/ UNCHANGED subscribed /\ stream' = [stream EXCEPT ![c] = "ended"]
    /\ UNCHANGED <<buffer, eventsDropped, page, shown, polled, excused>>

End(c) == Unsubscribe(c) /\ stream' = [stream EXCEPT ![c] = "ended"]

\* Lists are read before the connection is made: what was published in between is
\* neither listed nor streamed.  A poll under way is given up.
Opened(c) ==
    /\ page' = "connected" /\ polled' = Nothing
    /\ excused' = excused \cup
                     ((published \cap InBox) \ (listed \cup shown \cup ToSet(buffer[c])))

\* "event: ready"; the page learns from it that it is connected.
WriteReady(c) ==
    /\ Handles(c, {"subscribed"})
    /\ \/ /\ stream' = [stream EXCEPT ![c] = "open"]
          /\ IF line[c] = "up" THEN Opened(c) ELSE UNCHANGED <<page, polled, excused>>
          /\ UNCHANGED hubVars
       \/ line[c] # "up" /\ End(c) /\ UNCHANGED <<page, polled, excused>>
    /\ UNCHANGED shown

\* The page shows what is of its mailbox.
onEmailEvent(m) == shown' = shown \cup ({m} \cap InBox)

\* On a line that carries nothing the event ends in a buffer of the network, or the
\* write fails after ten seconds.
WriteEvent(c) ==
    /\ Handles(c, {"open"})
    /\ buffer[c] # <<>>
    /\ \/ /\ buffer' = [buffer EXCEPT ![c] = Tail(@)]
          /\ IF line[c] = "up" THEN onEmailEvent(Head(buffer[c])) ELSE UNCHANGED shown
          /\ UNCHANGED <<subscribed, eventsDropped, stream>>
       \/ line[c] # "up" /\ End(c) /\ UNCHANGED shown
    /\ UNCHANGED <<page, polled, excused>>

FailsIfDown(c) == line[c] = "down"
Fails(c) == line[c] # "up"

\* The request is cancelled, or a heartbeat is not written in time.
StreamEnds(c) ==
    /\ Handles(c, {"open"})
    /\ Fails(c)
    /\ End(c)
    /\ UNCHANGED <<page, shown, polled, excused>>

\* Or it stalls, and nobody knows yet.
LineBreaks(c) ==
    /\ breaks < MaxBreaks
    /\ breaks' = breaks + 1
    /\ line[c] = "up" /\ stream[c] \in {"asked", "subscribed", "open"}
    /\ \E how \in {"stalled", "down"} : line' = [line EXCEPT ![c] = how]
    /\ UNCHANGED <<mailVars, hubVars, page, shown, loaded, polled, conn, stream, reads, listed,
                   excused, queueVars, forwarder, workerVars>>

------------------------------------------------------------------------------
(* The page *)

Acts(from) ==
    /\ page \in from
    /\ UNCHANGED <<mailVars, hubVars, breaks, queueVars, forwarder, workerVars>>

Read == reads < MaxReads /\ reads' = reads + 1

OldestOf(mails) == {m \in mails : Cardinality({n \in mails : n < m}) < PageSize}
\* ORDER BY received_at DESC, and a LIMIT.
NewestOf(mails) == {m \in mails : Cardinality({n \in mails : n > m}) < PageSize}

\* The first page of the mailbox, and, for the properties, what it is a page of.
ListEmails == [emails |-> NewestOf(stored \cap InBox), of |-> stored \cap InBox]

TakeOver(answer) == shown' = answer.emails /\ listed' = answer.of

\* At first, and whenever the user asks for it; an answer under way is given up.
BeginLoad ==
    /\ Acts({"new", "alone", "connecting", "connected", "fallback"})
    /\ page = "new" => loaded = Nothing
    /\ Read
    /\ loaded' = ListEmails
    /\ UNCHANGED <<page, shown, polled, conn, stream, line, listed, excused>>

connectRealtime ==
    /\ conn < MaxConnections
    /\ conn' = conn + 1
    /\ page' = "connecting"
    /\ stream' = [stream EXCEPT ![conn + 1] = "asked"]
    /\ line' = IF conn = 0 THEN line ELSE [line EXCEPT ![conn] = "down"]

\* The list replaces what is shown; a mail that was streamed since the list was read
\* is gone.
load ==
    /\ Acts({"new", "alone", "connecting", "connected", "fallback"})
    /\ loaded # Nothing
    /\ TakeOver(loaded)
    /\ excused' = excused \cup (shown \ loaded.of)
    /\ loaded' = Nothing
    /\ IF page = "new" THEN connectRealtime ELSE UNCHANGED <<page, conn, stream, line>>
    /\ UNCHANGED <<polled, reads>>

\* The first time the page asks for no stream, also when the list is read later.
LoadFails ==
    /\ Acts({"new", "alone", "connecting", "connected", "fallback"})
    /\ loaded # Nothing
    /\ loaded' = Nothing
    /\ page' = IF page = "new" THEN "alone" ELSE page
    /\ UNCHANGED <<shown, polled, conn, stream, line, reads, listed, excused>>

BeginPoll ==
    /\ Acts({"fallback"})
    /\ Read
    /\ polled = Nothing
    /\ polled' = ListEmails
    /\ UNCHANGED <<page, shown, loaded, conn, stream, line, listed, excused>>

\* The request may fail, and a list with the same length and ends is not taken over.
pollOnce ==
    /\ Acts({"connecting", "fallback"})
    /\ polled # Nothing
    /\ TakeOver(polled) \/ UNCHANGED <<shown, listed>>
    /\ polled' = Nothing
    /\ UNCHANGED <<page, loaded, conn, stream, line, reads, excused>>

\* The stream has ended, or it does not open within ten seconds.
startFallbackPolling ==
    /\ Acts({"connecting", "connected"})
    /\ page = "connected" => line[conn] = "down" \/ stream[conn] = "ended"
    /\ page' = "fallback"
    /\ line' = [line EXCEPT ![conn] = "down"]
    /\ UNCHANGED <<shown, loaded, polled, conn, stream, reads, listed, excused>>

Reconnect ==
    /\ Acts({"fallback"})
    /\ connectRealtime
    /\ UNCHANGED <<shown, loaded, polled, reads, listed, excused>>

Leave ==
    /\ Acts({"new", "alone", "connecting", "connected", "fallback"})
    /\ page' = "left"
    /\ loaded' = Nothing /\ polled' = Nothing /\ shown' = {}
    /\ listed' = {} /\ excused' = {}
    /\ line' = IF conn = 0 THEN line ELSE [line EXCEPT ![conn] = "down"]
    /\ UNCHANGED <<conn, stream, reads>>

------------------------------------------------------------------------------
(* The dispatcher of notifications *)

EnqueueUncounted(event) ==
    IF Len(queue) < QueueSize
    THEN queue' = Append(queue, event) /\ UNCHANGED dropped
    ELSE queue' = Append(Tail(queue), event) /\ UNCHANGED dropped
\* Or drop it.
Enqueue(event) ==
    IF Len(queue) < QueueSize
    THEN queue' = Append(queue, event) /\ UNCHANGED dropped
    ELSE UNCHANGED queue /\ dropped' = dropped + 1

Forward ==
    /\ forwarder = "running" /\ buffer[Dispatcher] # <<>>
    /\ Enqueue(Head(buffer[Dispatcher]))
    /\ buffer' = [buffer EXCEPT ![Dispatcher] = Tail(@)]
    /\ UNCHANGED <<mailVars, subscribed, eventsDropped, pageVars, config, cancelled,
                   raised, forwarder, workerVars>>

\* By the MX loops.
PublishDomain(alert) ==
    /\ alert \notin raised
    /\ raised' = raised \cup {alert}
    /\ Enqueue(alert)
    /\ UNCHANGED <<mailVars, hubVars, pageVars, config, cancelled, forwarder, workerVars>>

stopNotifications ==
    /\ ~cancelled
    /\ cancelled' = TRUE
    /\ UNCHANGED <<mailVars, hubVars, pageVars, config, queue, dropped, raised, forwarder,
                   workerVars>>

ForwarderGoes == UNCHANGED <<subscribed, buffer, eventsDropped>>
ForwarderLeaves == Unsubscribe(Dispatcher)

ForwarderStops ==
    /\ cancelled /\ forwarder = "running"
    /\ forwarder' = "stopped"
    /\ ForwarderLeaves
    /\ UNCHANGED <<mailVars, pageVars, queueVars, workerVars>>

\* The first channel from i on that is on or broken; past the last, the event is done.
ChannelFrom(i) ==
    LET ahead == {j \in DOMAIN Channels : j >= i /\ config[j] # "off"} IN
    IF ahead = {} THEN Len(Channels) + 1 ELSE CHOOSE j \in ahead : \A k \in ahead : j <= k

GoOn(w, event, i) ==
    IF ChannelFrom(i) > Len(Channels)
    THEN job' = [job EXCEPT ![w] = Idle] /\ finished' = finished \cup {event}
    ELSE /\ job' = [job EXCEPT ![w] = [at |-> "try", event |-> event,
                                       channel |-> ChannelFrom(i), attempt |-> 1]]
         /\ UNCHANGED finished

Works(w, at) ==
    /\ job[w].at = at
    /\ UNCHANGED <<mailVars, hubVars, pageVars, config, dropped, cancelled, raised, forwarder>>

\* Also after the cancellation: select takes either.
TakeEvent(w) ==
    /\ Works(w, "idle")
    /\ queue # <<>>
    /\ queue' = Tail(queue)
    /\ GoOn(w, Head(queue), 1)
    /\ UNCHANGED <<reported, seen>>

WorkerStops(w) ==
    /\ Works(w, "idle")
    /\ cancelled
    /\ job' = [job EXCEPT ![w].at = "stopped"]
    /\ UNCHANGED <<queue, finished, reported, seen>>

Count(history, w) == [history EXCEPT ![job[w].event][job[w].channel] = @ + 1]

recordDelivery(w) == reported' = Count(reported, w)

NotConfigured(w) ==
    /\ Works(w, "try")
    /\ config[job[w].channel] = "broken"
    /\ GoOn(w, job[w].event, job[w].channel + 1)
    /\ UNCHANGED <<queue, reported, seen>>

\* 2xx, or a refusal that is final: 3xx and 4xx but 429.
Answered(w) ==
    /\ Works(w, "try")
    /\ config[job[w].channel] = "on" /\ ~cancelled
    /\ seen' = Count(seen, w)
    /\ recordDelivery(w)
    /\ GoOn(w, job[w].event, job[w].channel + 1)
    /\ UNCHANGED queue

IsLastOnceMore(w) == job[w].attempt > MaxAttempts
IsLast(w) == job[w].attempt = MaxAttempts

\* No answer, though the event may have arrived, or 429 or 5xx.
AttemptFails(w) ==
    /\ Works(w, "try")
    /\ config[job[w].channel] = "on"
    /\ \/ UNCHANGED seen
       \/ ~cancelled /\ seen' = Count(seen, w)
    /\ IF IsLast(w)
       THEN recordDelivery(w) /\ GoOn(w, job[w].event, job[w].channel + 1)
       ELSE job' = [job EXCEPT ![w].at = "backoff"] /\ UNCHANGED <<reported, finished>>
    /\ UNCHANGED queue

BackoffEnds(w) ==
    /\ Works(w, "backoff")
    /\ job' = [job EXCEPT ![w].at = "try", ![w].attempt = @ + 1]
    /\ UNCHANGED <<queue, finished, reported, seen>>

\* deliverChannel returns without a record, and the next channel has its turn.
BackoffCancelled(w) ==
    /\ Works(w, "backoff")
    /\ cancelled
    /\ GoOn(w, job[w].event, job[w].channel + 1)
    /\ UNCHANGED <<queue, reported, seen>>

------------------------------------------------------------------------------
HandlerStep(c) == Subscribe(c) \/ WriteReady(c) \/ WriteEvent(c) \/ StreamEnds(c)

PageStep ==
    \/ BeginLoad \/ load \/ LoadFails \/ BeginPoll \/ pollOnce
    \/ startFallbackPolling \/ Reconnect \/ Leave

ForwarderStep == Forward \/ ForwarderStops

WorkerStep(w) ==
    \/ TakeEvent(w)
    \/ WorkerStops(w)
    \/ NotConfigured(w)
    \/ Answered(w)
    \/ AttemptFails(w)
    \/ BackoffEnds(w)
    \/ BackoffCancelled(w)

Next ==
    \/ \E m \in Mails : InsertEmailResolved(m) \/ publishEmailEvent(m)
    \/ \E c \in Connections : HandlerStep(c) \/ LineBreaks(c)
    \/ PageStep
    \/ \E alert \in Alerts : PublishDomain(alert)
    \/ stopNotifications
    \/ ForwarderStep
    \/ \E w \in Workers : WorkerStep(w)

Spec == Init /\ [][Next]_vars

\* Handlers, goroutines and back-offs go on: writes have a deadline and requests of the
\* dispatcher a timeout.
FairSpec ==
    /\ Spec
    /\ \A c \in Connections : WF_vars(HandlerStep(c))
    /\ WF_vars(ForwarderStep)
    /\ \A w \in Workers : WF_vars(WorkerStep(w))

------------------------------------------------------------------------------
(* Properties *)

\* Types; no stream is given a mail of another mailbox, nor does the page show one
\* (events.go:40-53, InboxPage.vue:76-78).
TypeOK ==
    /\ published \subseteq stored /\ stored \subseteq Mails
    /\ subscribed \subseteq Subscribers
    /\ \A s \in Subscribers : Len(buffer[s]) <= HubBuffer /\ ToSet(buffer[s]) \subseteq Mails
    /\ \A c \in Connections : ToSet(buffer[c]) \subseteq InBox
    /\ page \in {"new", "alone", "connecting", "connected", "fallback", "left"}
    /\ shown \subseteq InBox
    /\ stream \in [Connections -> {"none", "asked", "subscribed", "open", "ended"}]
    /\ line \in [Connections -> {"up", "stalled", "down"}]
    /\ Len(queue) <= QueueSize /\ ToSet(queue) \subseteq Events
    /\ \A w \in Workers :
          /\ job[w].at \in {"idle", "try", "backoff", "stopped"}
          /\ job[w].attempt \in Nat

\* A page of its mailbox's mails has come after them: a list leaves them out.
Aged == {m \in InBox : Cardinality({n \in stored \cap InBox : n > m}) >= PageSize}

\* A connected page shows every mail of its mailbox, or will, but those that are not among
\* the newest PageSize, those that were published after the list it shows was read and
\* before it was connected, streamed while it read another, or dropped by the hub; its
\* older connections take nothing from it (InboxPage.vue:39-53, 111-174, email.go:54-98,
\* events.go:16-53).
InboxComplete ==
    page = "connected" /\ stream[conn] = "open" /\ line[conn] = "up" =>
       (published \cap InBox) \ Aged \subseteq shown \cup ToSet(buffer[conn]) \cup excused

\* Every event is somewhere: at the hub, in the queue, with a worker or done with; what
\* is not was dropped and counted, at the hub together with the drops of the pages, until
\* the notifications are stopped (notifications.go:56-97, events.go:47-51).
DropsCounted ==
    LET gone == (published \cup raised) \
                   (ToSet(buffer[Dispatcher]) \cup ToSet(queue) \cup finished
                      \cup {job[w].event : w \in Workers}) IN
    ~cancelled => Cardinality(gone) \in dropped..(dropped + eventsDropped)

\* A channel that is on sees an event three times at most; when a worker is done with
\* the event, the channel has one record of it, unless the notifications were stopped
\* (notifications.go:117-208).
DeliveryReported ==
    \A event \in Events : \A i \in DOMAIN Channels :
       /\ seen[event][i] <= MaxAttempts
       /\ event \in finished => \/ reported[event][i] = IF config[i] = "on" THEN 1 ELSE 0
                                \/ cancelled /\ reported[event][i] = 0

\* A connection that carries nothing gives its subscription back (email.go:63-98).
BrokenStreamsEnd ==
    \A c \in Connections : line[c] # "up" /\ c \in subscribed ~> c \notin subscribed

\* The notifications end: what the queue holds is delivered or given up, and once they
\* are stopped the workers and the forwarder go (notifications.go:56-86).
NotificationsEnd ==
    /\ \A event \in Events : event \in ToSet(queue) ~> event \in finished \/ cancelled
    /\ cancelled ~> /\ Dispatcher \notin subscribed
                    /\ \A w \in Workers : job[w].at = "stopped"

\* Nothing that serves events lasts for ever (email.go:63-98, notifications.go:56-86): both
\* of the above.
ServersEnd == BrokenStreamsEnd /\ NotificationsEnd

===============================================================================
