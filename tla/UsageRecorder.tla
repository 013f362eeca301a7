---------------------------- MODULE UsageRecorder ----------------------------
(***************************************************************************)
(* The recorder of API usage (api/middleware/observability.go) and the     *)
(* transaction it writes with (api/store/observability.go).  A request     *)
(* that has been answered leaves an event in a bounded queue; one          *)
(* goroutine collects the events into a batch and writes it, keeping it    *)
(* for another attempt when the database fails.  A request that finds the  *)
(* queue full leaves no event, but counts the use of an unlimited token    *)
(* itself.  At the end of the process the recorder writes what is left.    *)
(*                                                                         *)
(* An event is identified with its request.  Rows are those younger than   *)
(* the 14 days of retention.  Beside some definitions stands a mistaken    *)
(* form.                                                                   *)
(***************************************************************************)
EXTENDS Naturals, Sequences, FiniteSets

CONSTANTS
    Requests,   \* authenticated requests, each made once
    Tokens,
    TokenOf,    \* the token of a request
    Unlimited,  \* the tokens without a total limit, whose use is counted here
    QueueCap,   \* capacity of the queue (4096)
    BatchSize,  \* events of a batch (256)
    MaxUnknown  \* bound of the model: commits whose answer is lost

ASSUME RecorderAssumption ==
    /\ IsFiniteSet(Requests)
    /\ TokenOf \in [Requests -> Tokens]
    /\ Unlimited \subseteq Tokens
    /\ QueueCap \in Nat \ {0}
    /\ BatchSize \in Nat \ {0}
    /\ MaxUnknown \in Nat

VARIABLES
    request,    \* where a request is
    queue,      \* r.queue
    pending,    \* the batch of run()
    pendingDepth, \* its length as Stats shows it
    recorder,   \* where run() is
    book,       \* which figure run() has to bring up to date before it goes on
    waiting,    \* whether retryAfter is in the future
    enqueued, flushed, failed,  \* the counters of Stats
    dropped,    \* the requests that counter Dropped counts
    rows,       \* how many rows of api_request_events tell of a request
    usage,      \* request_count_total of a token
    token,      \* the state of its row
    disturbed,  \* history: tokens that were ever disabled or deleted
    unknown,    \* commits whose answer was lost
    process     \* main()

stats == <<enqueued, flushed, failed, dropped>>
database == <<rows, usage, token, disturbed, unknown>>
batchVars == <<pending, pendingDepth, book>>
vars == <<request, queue, batchVars, recorder, waiting, stats, database, process>>

RequestStates == {"none", "active", "sent", "fallback", "finished", "uncounted"}
RecorderStates == {"select", "flush", "drain", "drainFull", "drainLast", "done"}
BookStates == {"none", "depth", "count", "empty"}
ProcessStates == {"serving", "stopping", "closing", "exited", "killed"}

Alive == process \in {"serving", "stopping", "closing"}
EventsOf(t) == {r \in Requests : TokenOf[r] = t}

Init ==
    /\ request = [r \in Requests |-> "none"]
    /\ queue = <<>>
    /\ pending = <<>>
    /\ pendingDepth = 0
    /\ recorder = "select"
    /\ book = "none"
    /\ waiting = FALSE
    /\ enqueued = 0
    /\ flushed = 0
    /\ failed = 0
    /\ dropped = {}
    /\ rows = [r \in Requests |-> 0]
    /\ usage = [t \in Tokens |-> 0]
    /\ token = [t \in Tokens |-> "active"]
    /\ disturbed = {}
    /\ unknown = 0
    /\ process = "serving"

(***************************************************************************)
(* Requests: the middleware, after the handler has answered                *)
(***************************************************************************)
BeginRequest(r) ==
    /\ process = "serving"
    /\ request[r] = "none"
    /\ token[TokenOf[r]] = "active"
    /\ request' = [request EXCEPT ![r] = "active"]
    /\ UNCHANGED <<queue, batchVars, recorder, waiting, stats, database, process>>

Enqueue(r) ==
    /\ request[r] = "active"
    /\ Len(queue) < QueueCap
    /\ queue' = Append(queue, r)
    /\ request' = [request EXCEPT ![r] = "sent"]
    /\ UNCHANGED <<batchVars, recorder, waiting, stats, database, process>>

\* The counter follows the queue in a step of its own.
CountEnqueued(r) ==
    /\ request[r] = "sent"
    /\ enqueued' = enqueued + 1
    /\ request' = [request EXCEPT ![r] = "finished"]
    /\ UNCHANGED <<queue, batchVars, recorder, waiting, flushed, failed, dropped, database, process>>

\* The request leaves as if its use had been counted.
DropUncounted(r) ==
    /\ request[r] = "active"
    /\ Len(queue) = QueueCap
    /\ dropped' = dropped \cup {r}
    /\ request' = [request EXCEPT ![r] = "finished"]
    /\ UNCHANGED <<queue, batchVars, recorder, waiting, enqueued, flushed, failed, database, process>>

Drop(r) ==
    /\ request[r] = "active"
    /\ Len(queue) = QueueCap
    /\ dropped' = dropped \cup {r}
    /\ request' = [request EXCEPT ![r] = IF TokenOf[r] \in Unlimited THEN "fallback" ELSE "finished"]
    /\ UNCHANGED <<queue, batchVars, recorder, waiting, enqueued, flushed, failed, database, process>>

\* The statement of RecordTokenUsage touches no row of a revoked token.
FallbackStores(r) ==
    /\ request[r] = "fallback"
    /\ LET t == TokenOf[r]
       IN  usage' = IF token[t] = "active" THEN [usage EXCEPT ![t] = @ + 1] ELSE usage
    /\ request' = [request EXCEPT ![r] = "finished"]
    /\ UNCHANGED <<queue, batchVars, recorder, waiting, stats, rows, token, disturbed, unknown, process>>

FallbackFails(r) ==
    /\ request[r] = "fallback"
    /\ request' = [request EXCEPT ![r] = "uncounted"]
    /\ UNCHANGED <<queue, batchVars, recorder, waiting, stats, database, process>>

(***************************************************************************)
(* The transaction that writes a batch: the rows of all tokens that exist, *)
(* the totals of those that are not revoked                                *)
(***************************************************************************)
Batch == {pending[i] : i \in DOMAIN pending}

\* The totals are not part of it.
WriteBatchRowsOnly ==
    /\ rows' = [r \in Requests |->
                  IF r \in Batch /\ token[TokenOf[r]] # "deleted" THEN rows[r] + 1 ELSE rows[r]]
    /\ UNCHANGED <<usage, token, disturbed>>

WriteBatch ==
    /\ rows' = [r \in Requests |->
                  IF r \in Batch /\ token[TokenOf[r]] # "deleted" THEN rows[r] + 1 ELSE rows[r]]
    /\ usage' = [t \in Tokens |->
                  IF t \in Unlimited /\ token[t] = "active"
                  THEN usage[t] + Cardinality(Batch \cap EventsOf(t)) ELSE usage[t]]
    /\ UNCHANGED <<token, disturbed>>

(***************************************************************************)
(* The goroutine of the recorder                                           *)
(***************************************************************************)
AtSelect == Alive /\ recorder = "select" /\ book = "none"
InDrain == Alive /\ recorder = "drain" /\ book = "none"

TakeEvent ==
    /\ Len(pending) < BatchSize
    /\ queue # <<>>
    /\ pending' = Append(pending, Head(queue))
    /\ queue' = Tail(queue)
    /\ book' = "depth"
    /\ UNCHANGED <<request, pendingDepth, recorder, waiting, stats, database, process>>

Receive == AtSelect /\ TakeEvent

\* The depth follows the batch in a step of its own, here and in the drain, and
\* only then is a full batch written.
StoreDepth ==
    /\ Alive
    /\ book = "depth"
    /\ pendingDepth' = Len(pending)
    /\ book' = "none"
    /\ recorder' = IF recorder = "select" /\ Len(pending) >= BatchSize /\ ~waiting
                   THEN "flush" ELSE recorder
    /\ UNCHANGED <<request, queue, pending, waiting, stats, database, process>>

\* A batch is only written when it is full.
FlushTickFull ==
    /\ AtSelect
    /\ Len(pending) >= BatchSize
    /\ ~waiting
    /\ recorder' = "flush"
    /\ UNCHANGED <<request, queue, batchVars, waiting, stats, database, process>>

FlushTick ==
    /\ AtSelect
    /\ pending # <<>>
    /\ ~waiting
    /\ recorder' = "flush"
    /\ UNCHANGED <<request, queue, batchVars, waiting, stats, database, process>>

RetryDue ==
    /\ Alive
    /\ waiting
    /\ waiting' = FALSE
    /\ UNCHANGED <<request, queue, batchVars, recorder, stats, database, process>>

Flushing == Alive /\ recorder \in {"flush", "drainFull", "drainLast"} /\ book = "none"

AfterSuccess == [flush |-> "select", drainFull |-> "drain", drainLast |-> "done"]
AfterFailure == [flush |-> "select", drainFull |-> "done", drainLast |-> "done"]

FlushStores ==
    /\ Flushing
    /\ WriteBatch
    /\ book' = "count"
    /\ UNCHANGED <<request, queue, pending, pendingDepth, recorder, waiting, stats, unknown, process>>

\* Between the commit, the counter and the depth others run, and read the figures.
CountFlushed ==
    /\ Alive
    /\ book = "count"
    /\ flushed' = flushed + Len(pending)
    /\ book' = "empty"
    /\ UNCHANGED <<request, queue, pending, pendingDepth, recorder, waiting, enqueued, failed, dropped,
                   database, process>>

\* Only the depth is reset.
EmptyBatchKept ==
    /\ Alive
    /\ book = "empty"
    /\ pendingDepth' = 0
    /\ waiting' = FALSE
    /\ recorder' = AfterSuccess[recorder]
    /\ book' = "none"
    /\ UNCHANGED <<request, queue, pending, stats, database, process>>

EmptyBatch ==
    /\ Alive
    /\ book = "empty"
    /\ pending' = <<>>
    /\ pendingDepth' = 0
    /\ waiting' = FALSE
    /\ recorder' = AfterSuccess[recorder]
    /\ book' = "none"
    /\ UNCHANGED <<request, queue, stats, database, process>>

\* Only the batch is counted, not what is behind it.
KeepBatchOnly ==
    /\ waiting' = TRUE
    /\ recorder' = AfterFailure[recorder]
    /\ failed' = IF recorder = "flush" THEN failed ELSE failed + Len(pending)
    /\ UNCHANGED <<request, queue, batchVars, enqueued, flushed, dropped, process>>

\* A failed drain waits in the drain, as the loop outside it does.
KeepBatchInDrain ==
    /\ waiting' = TRUE
    /\ recorder' = IF recorder = "flush" THEN "select" ELSE "drain"
    /\ UNCHANGED <<request, queue, batchVars, stats, process>>

\* The batch is given up.
ForgetBatch ==
    /\ waiting' = TRUE
    /\ pending' = <<>>
    /\ pendingDepth' = 0
    /\ recorder' = AfterFailure[recorder]
    /\ failed' = failed + Len(pending) + (IF recorder = "drainFull" THEN Len(queue) ELSE 0)
    /\ UNCHANGED <<request, queue, book, enqueued, flushed, dropped, process>>

\* What a failed flush leaves: the batch is kept, and what the drain cannot
\* write is counted as failed (the server is down then: nobody looks between).
KeepBatch ==
    /\ waiting' = TRUE
    /\ recorder' = AfterFailure[recorder]
    /\ failed' = CASE recorder = "drainFull" -> failed + Len(pending) + Len(queue)
                   [] recorder = "drainLast" -> failed + Len(pending)
                   [] OTHER -> failed
    /\ UNCHANGED <<request, queue, batchVars, enqueued, flushed, dropped, process>>

FlushFails ==
    /\ Flushing
    /\ KeepBatch
    /\ UNCHANGED database

\* The transaction commits, but the deadline of three seconds passes first.
FlushUnanswered ==
    /\ Flushing
    /\ unknown < MaxUnknown
    /\ unknown' = unknown + 1
    /\ WriteBatch
    /\ KeepBatch

NoticeStop ==
    /\ process = "closing"
    /\ AtSelect
    /\ recorder' = "drain"
    /\ UNCHANGED <<request, queue, batchVars, waiting, stats, database, process>>

DrainReceive == InDrain /\ TakeEvent

\* A full batch ends the drain.
DrainFlushFirst ==
    /\ InDrain
    /\ Len(pending) >= BatchSize \/ queue = <<>>
    /\ recorder' = IF pending = <<>> THEN "done" ELSE "drainLast"
    /\ UNCHANGED <<request, queue, batchVars, waiting, stats, database, process>>

DrainFlush ==
    /\ InDrain
    /\ \/ Len(pending) >= BatchSize /\ recorder' = "drainFull"
       \/ /\ Len(pending) < BatchSize
          /\ queue = <<>>
          /\ recorder' = IF pending = <<>> THEN "done" ELSE "drainLast"
    /\ UNCHANGED <<request, queue, batchVars, waiting, stats, database, process>>

(***************************************************************************)
(* Tokens: the operations of api/store/tokens.go, as far as they change    *)
(* what a batch may write                                                  *)
(***************************************************************************)
ChangeToken(t, to) ==
    /\ Alive
    /\ token[t] # "deleted"
    /\ token' = [token EXCEPT ![t] = to]
    /\ UNCHANGED <<request, queue, batchVars, recorder, waiting, stats, unknown, process>>

DisableToken(t) ==
    /\ token[t] = "active"
    /\ ChangeToken(t, "revoked")
    /\ disturbed' = disturbed \cup {t}
    /\ UNCHANGED <<rows, usage>>

EnableToken(t) ==
    /\ token[t] = "revoked"
    /\ ChangeToken(t, "active")
    /\ UNCHANGED <<rows, usage, disturbed>>

\* Its rows go with it (ON DELETE CASCADE).
DeleteToken(t) ==
    /\ ChangeToken(t, "deleted")
    /\ disturbed' = disturbed \cup {t}
    /\ rows' = [r \in Requests |-> IF TokenOf[r] = t THEN 0 ELSE rows[r]]
    /\ usage' = [usage EXCEPT ![t] = 0]

(***************************************************************************)
(* The end of the process                                                  *)
(***************************************************************************)
Answered == \A r \in Requests : request[r] \in {"none", "finished", "uncounted"}

StopProcess ==
    /\ process = "serving"
    /\ process' = "stopping"
    /\ UNCHANGED <<request, queue, batchVars, recorder, waiting, stats, database>>

\* The server has shut down, and the deferred Close begins.
CloseRecorder ==
    /\ process = "stopping"
    /\ Answered
    /\ process' = "closing"
    /\ UNCHANGED <<request, queue, batchVars, recorder, waiting, stats, database>>

\* Requests are left when the ten seconds end: log.Fatalf runs no deferred call.
ForceExit ==
    /\ process = "stopping"
    /\ ~Answered
    /\ process' = "killed"
    /\ UNCHANGED <<request, queue, batchVars, recorder, waiting, stats, database>>

Exit ==
    /\ process = "closing"
    /\ recorder = "done"
    /\ process' = "exited"
    /\ UNCHANGED <<request, queue, batchVars, recorder, waiting, stats, database>>

Ended == ~Alive /\ UNCHANGED vars

RequestStep(r) ==
    /\ Alive
    /\ \/ Enqueue(r) \/ CountEnqueued(r) \/ Drop(r)
       \/ FallbackStores(r) \/ FallbackFails(r)

RecorderStep ==
    \/ Receive \/ StoreDepth \/ FlushTick
    \/ FlushStores \/ CountFlushed \/ EmptyBatch \/ FlushFails \/ FlushUnanswered
    \/ NoticeStop \/ DrainReceive \/ DrainFlush

Next ==
    \/ \E r \in Requests : BeginRequest(r) \/ RequestStep(r)
    \/ RecorderStep
    \/ RetryDue
    \/ \E t \in Tokens : DisableToken(t) \/ EnableToken(t) \/ DeleteToken(t)
    \/ StopProcess \/ CloseRecorder \/ ForceExit \/ Exit
    \/ Ended

Spec == Init /\ [][Next]_vars

\* Goroutines run, deadlines pass, and a statement ends within its deadline, in
\* whichever way.  The select of run() chooses at random between the cases that
\* are ready: one that is ready again and again is taken.
FairSpec ==
    /\ Spec
    /\ \A r \in Requests : WF_vars(RequestStep(r))
    /\ WF_vars(RecorderStep)
    /\ SF_vars(Receive) /\ SF_vars(FlushTick) /\ SF_vars(NoticeStop)
    /\ WF_vars(RetryDue)
    /\ WF_vars(CloseRecorder \/ ForceExit)
    /\ WF_vars(Exit)

(***************************************************************************)
(* Properties                                                              *)
(***************************************************************************)

\* Types, and the bounds of the queue and of the batch: the memory the recorder
\* takes is bounded however long the database fails (the nil channel of run).
TypeOK ==
    /\ request \in [Requests -> RequestStates]
    /\ queue \in Seq(Requests) /\ Len(queue) <= QueueCap
    /\ pending \in Seq(Requests) /\ Len(pending) <= BatchSize
    /\ pendingDepth \in Nat
    /\ recorder \in RecorderStates
    /\ book \in BookStates
    /\ waiting \in BOOLEAN
    /\ enqueued \in Nat /\ flushed \in Nat /\ failed \in Nat
    /\ dropped \subseteq Requests
    /\ rows \in [Requests -> Nat]
    /\ usage \in [Tokens -> Nat]
    /\ token \in [Tokens -> {"active", "revoked", "deleted"}]
    /\ disturbed \subseteq Tokens
    /\ unknown \in 0..MaxUnknown
    /\ process \in ProcessStates

Uncounted == Cardinality({r \in Requests : request[r] = "sent"})

\* Whenever neither a request nor the recorder has a figure to bring up to date
\* (api/middleware/observability.go:99-102, 179-182, 197-199), the figures of Stats
\* add up: every event enqueued is in the queue, in the batch, flushed or, once Close
\* has returned, failed, also when the database fails in the middle of the last drain.
\* In between, and in a Stats that reads them one by one (:117-131), they may differ.
StatsAddUp ==
    Uncounted = 0 /\ book = "none" =>
        enqueued = flushed + (IF recorder = "done" THEN failed ELSE Len(queue) + pendingDepth)

\* The only way to a second row is a commit whose answer was lost, whatever failed
\* before (see TestAPIUsageRecorderRetriesFailedBatchWithoutDuplication).
DuplicatesExplained == \A r \in Requests : rows[r] <= 1 + unknown

InMemory(r) == r \in Batch \cup {queue[i] : i \in DOMAIN queue}

\* A request the recorder no longer holds has its row, unless it was dropped, its
\* token is gone, or the process ended without being able to write.
RowForEach ==
    \A r \in Requests :
        /\ request[r] \in {"sent", "finished"}
        /\ r \notin dropped
        /\ token[TokenOf[r]] # "deleted"
        /\ ~InMemory(r)
        => rows[r] >= 1

\* The rows of a token: the first, the second ... of each of its requests.
RowsOf(t) == UNION {{r} \X (1..rows[r]) : r \in EventsOf(t)}

\* Its requests that found the queue full and counted themselves.
SelfCounted(t) == {r \in dropped \cap EventsOf(t) : request[r] = "finished"}

\* The total of a token agrees with the rows that tell of its requests and the
\* requests that counted themselves, although totals and rows are written by
\* different statements, batches are retried and answers are lost.
UsageAgrees ==
    \A t \in Unlimited \ disturbed :
        usage[t] = Cardinality(RowsOf(t)) + Cardinality(SelfCounted(t))

\* Rows and totals tell of each request as often as they should
\* (api/store/observability.go:73-102, 134-217): DuplicatesExplained and UsageAgrees.
UsageCounted == DuplicatesExplained /\ UsageAgrees

\* Close returns even if every attempt to write fails.
CloseReturns == process = "closing" ~> process = "exited"

\* While the process goes on and the database now and then takes a batch, an event
\* does not stay in memory: neither a batch that was refused, nor the event of a
\* deleted token, nor a batch that is never full holds it up.
EventsLeaveMemory ==
    SF_vars(FlushStores) => \A r \in Requests : request[r] = "sent" ~> (~InMemory(r) \/ process # "serving")

\* Neither Close nor an event waits for ever (api/middleware/observability.go:150-240):
\* both of the above.
RecorderProceeds == CloseReturns /\ EventsLeaveMemory

==============================================================================
