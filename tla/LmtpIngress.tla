----------------------------- MODULE LmtpIngress -----------------------------
(***************************************************************************)
(* The LMTP ingress (api/ingress/server.go): sessions take commands from   *)
(* Postfix, reserve one of QueueSize slots for each DATA, put a job in a   *)
(* channel and wait for its result or for its deadline; workers take jobs, *)
(* store the message and answer; a shutdown cancels all of them.           *)
(*                                                                         *)
(* A job outlives the command that created it: a session whose deadline    *)
(* has passed answers 451 and goes on while the job is queued or being     *)
(* stored.  A slot is held from DATA until the worker has finished with    *)
(* the job, so it also outlives the command.                               *)
(*                                                                         *)
(* The sender keeps a message until it was accepted or refused for good.   *)
(* Its commands come in any order the protocol allows.  Beside some        *)
(* definitions stands a mistaken form (..Leaking, ..Early, ..Unchecked,    *)
(* ..Reusing, ..Never, ..Uncounted): the properties have to tell it from   *)
(* the right one.                                                          *)
(***************************************************************************)
EXTENDS Integers, Sequences, FiniteSets

CONSTANTS
    Messages,      \* what the senders have to deliver
    Sessions,      \* LMTP connections that may be open at once
    Workers,       \* INGRESS_WORKERS goroutines
    Jobs,          \* names for deliveryJob values, reused when nobody holds one
    QueueSize,     \* INGRESS_QUEUE_SIZE
    NoMessage,     \* a session without a transaction
    NoJob,         \* a session or worker without a job
    MaxRestarts    \* bound of the model: how often the process may die

ASSUME IngressAssumption ==
    /\ IsFiniteSet(Sessions) /\ IsFiniteSet(Workers)
    /\ NoMessage \notin Messages
    /\ NoJob \notin Jobs
    /\ QueueSize \in Nat \ {0}
    /\ MaxRestarts \in Nat

VARIABLES
    phase,      \* the server: serving, context cancelled, listener closed, drained
    restarts,   \* how often the process has died
    slots,      \* len(s.slots): the tokens left in the channel
    queue,      \* the channel s.jobs
    session,    \* where a session is
    txn,        \* its transaction: none, after MAIL, after RCPT
    cur,        \* the message its transaction is about
    sjob,       \* the job it has created
    worker,     \* where a worker is
    wjob,       \* the job it has taken
    about,      \* the message in a job
    expired,    \* the jobs whose own context is done
    result,     \* the content of a job's result channel
    balance,    \* jobsSubmitted - jobsDelivered - jobsTempFailed - jobsPermFailed
    mail,       \* the sender's view of a message
    stored      \* the rows of emails that hold it

sessionVars == <<session, txn, cur, sjob>>
workerVars == <<worker, wjob>>
jobVars == <<about, expired, result>>
senderVars == <<mail, stored>>
vars == <<phase, restarts, slots, queue, sessionVars, workerVars, jobVars,
          balance, senderVars>>

Handover == INSTANCE MailHandover
                WITH Messages <- Messages, mail <- mail, stored <- stored

Phases == {"running", "cancelled", "closed", "drained"}
SessionStates == {"none", "idle", "data", "submit", "submitted", "waiting"}
WorkerStates == {"idle", "taken", "inserting", "inserted", "failed", "answered", "gone"}

------------------------------------------------------------------------------
(* A process that has just started *)

Fresh ==
    /\ phase' = "running"
    /\ slots' = QueueSize
    /\ queue' = <<>>
    /\ session' = [s \in Sessions |-> "none"]
    /\ txn' = [s \in Sessions |-> "none"]
    /\ cur' = [s \in Sessions |-> NoMessage]
    /\ sjob' = [s \in Sessions |-> NoJob]
    /\ worker' = [w \in Workers |-> "idle"]
    /\ wjob' = [w \in Workers |-> NoJob]
    /\ expired' = {}
    /\ result' = [j \in Jobs |-> "none"]
    /\ balance' = 0

Init ==
    /\ phase = "running"
    /\ restarts = 0
    /\ slots = QueueSize
    /\ queue = <<>>
    /\ session = [s \in Sessions |-> "none"]
    /\ txn = [s \in Sessions |-> "none"]
    /\ cur = [s \in Sessions |-> NoMessage]
    /\ sjob = [s \in Sessions |-> NoJob]
    /\ worker = [w \in Workers |-> "idle"]
    /\ wjob = [w \in Workers |-> NoJob]
    /\ about \in [Jobs -> {NoMessage}]
    /\ expired = {}
    /\ result = [j \in Jobs |-> "none"]
    /\ balance = 0
    /\ Handover!Init

Queued == {queue[i] : i \in DOMAIN queue}

\* Jobs are values: one that neither goroutine nor channel refers to is gone, and
\* its name is free.
Forget(j) ==
    /\ about' = [about EXCEPT ![j] = NoMessage]
    /\ expired' = expired \ {j}
    /\ result' = [result EXCEPT ![j] = "none"]

\* A job's context ends with its deadline, its command or the server's context.
Cancelled(j) == j \in expired \/ phase # "running"

------------------------------------------------------------------------------
(* Commands *)

\* Until the listener is closed connections are accepted, even if the context
\* is cancelled.
Connect(s) ==
    /\ phase \in {"running", "cancelled"}
    /\ session[s] = "none"
    /\ session' = [session EXCEPT ![s] = "idle"]
    /\ UNCHANGED <<phase, restarts, slots, queue, txn, cur, sjob, workerVars,
                   jobVars, balance, senderVars>>

\* The connection ends between two commands: QUIT, a closed or silent peer, or
\* an answer that could not be written.
Hangup(s) ==
    /\ session[s] = "idle"
    /\ session' = [session EXCEPT ![s] = "none"]
    /\ txn' = [txn EXCEPT ![s] = "none"]
    /\ cur' = [cur EXCEPT ![s] = NoMessage]
    /\ UNCHANGED <<phase, restarts, slots, queue, sjob, workerVars, jobVars,
                   balance, senderVars>>

\* MAIL starts a transaction and forgets the one before.  A sender works on a
\* message in one connection at a time.
HandleMAIL(s, m) ==
    /\ session[s] = "idle"
    /\ mail[m] = "held"
    /\ \A other \in Sessions \ {s} : cur[other] # m
    /\ txn' = [txn EXCEPT ![s] = "mail"]
    /\ cur' = [cur EXCEPT ![s] = m]
    /\ UNCHANGED <<phase, restarts, slots, queue, session, sjob, workerVars,
                   jobVars, balance, senderVars>>

\* The sender holds the message no longer if it is refused for good.
Refuse(s) ==
    mail' = [mail EXCEPT ![cur[s]] = IF @ = "held" THEN "bounced" ELSE @]

\* RCPT is accepted if the snapshot has the domain, refused if it has not, and
\* put off while there is no snapshot.
HandleRCPT(s) ==
    /\ session[s] = "idle"
    /\ txn[s] = "mail"
    /\ \/ txn' = [txn EXCEPT ![s] = "rcpt"] /\ UNCHANGED mail
       \/ Refuse(s) /\ UNCHANGED txn
       \/ UNCHANGED <<txn, mail>>
    /\ UNCHANGED <<phase, restarts, slots, queue, session, cur, sjob, workerVars,
                   jobVars, balance, stored>>

\* RSET and LHLO.
ResetTransaction(s) ==
    /\ session[s] = "idle"
    /\ txn[s] # "none"
    /\ txn' = [txn EXCEPT ![s] = "none"]
    /\ cur' = [cur EXCEPT ![s] = NoMessage]
    /\ UNCHANGED <<phase, restarts, slots, queue, session, sjob, workerVars,
                   jobVars, balance, senderVars>>

\* DATA reserves a slot before it asks for the message.  Without a slot it is
\* answered 451 and nothing changes.
ReserveSlot(s) ==
    /\ session[s] = "idle"
    /\ txn[s] = "rcpt"
    /\ mail[cur[s]] = "held"
    /\ slots > 0
    /\ slots' = slots - 1
    /\ session' = [session EXCEPT ![s] = "data"]
    /\ UNCHANGED <<phase, restarts, queue, txn, cur, sjob, workerVars, jobVars,
                   balance, senderVars>>

------------------------------------------------------------------------------
(* The rest of handleDATA *)

\* A result channel that is used again while a worker may still write to it.
ReadDataReusing(s) ==
    /\ session[s] = "data"
    /\ session' = [session EXCEPT ![s] = "submit"]
    /\ \E j \in Jobs \ Queued :
          /\ sjob' = [sjob EXCEPT ![s] = j]
          /\ about' = [about EXCEPT ![j] = cur[s]]
    /\ UNCHANGED <<phase, restarts, slots, queue, txn, cur, workerVars, expired,
                   result, balance, senderVars>>

\* The message has arrived: a job is made of it.
ReadData(s) ==
    /\ session[s] = "data"
    /\ session' = [session EXCEPT ![s] = "submit"]
    /\ \E j \in Jobs :
          /\ about[j] = NoMessage
          /\ sjob' = [sjob EXCEPT ![s] = j]
          /\ about' = [about EXCEPT ![j] = cur[s]]
    /\ UNCHANGED <<phase, restarts, slots, queue, txn, cur, workerVars, expired,
                   result, balance, senderVars>>

\* handleDATA returns before it has submitted a job: the deferred function puts
\* the slot back.
ReturnSlotLeaking == UNCHANGED slots
ReturnSlot == slots' = slots + 1

\* 552: the sender will not try again, the transaction stays as it is.
Oversized(s) ==
    /\ session[s] = "data"
    /\ ReturnSlot
    /\ session' = [session EXCEPT ![s] = "idle"]
    /\ Refuse(s)
    /\ UNCHANGED <<phase, restarts, queue, txn, cur, sjob, workerVars, jobVars,
                   balance, stored>>

CloseSession(s) ==
    /\ session' = [session EXCEPT ![s] = "none"]
    /\ txn' = [txn EXCEPT ![s] = "none"]
    /\ cur' = [cur EXCEPT ![s] = NoMessage]

\* The connection breaks while the message is read.
ReadDataFails(s) ==
    /\ session[s] = "data"
    /\ ReturnSlot
    /\ CloseSession(s)
    /\ UNCHANGED <<phase, restarts, queue, sjob, workerVars, jobVars, balance,
                   senderVars>>

SubmitJob(s) ==
    /\ session[s] = "submit"
    /\ Len(queue) < QueueSize
    /\ queue' = Append(queue, sjob[s])
    /\ session' = [session EXCEPT ![s] = "submitted"]
    /\ UNCHANGED <<phase, restarts, slots, txn, cur, sjob, workerVars, jobVars,
                   balance, senderVars>>

\* The command is over: its deferred cancel ends the context of the job, which
\* may still be in the channel or with a worker.
EndCommand(s) ==
    /\ sjob' = [sjob EXCEPT ![s] = NoJob]
    /\ IF sjob[s] \in Queued \cup {wjob[w] : w \in Workers}
       THEN expired' = expired \cup {sjob[s]} /\ UNCHANGED <<about, result>>
       ELSE Forget(sjob[s])

\* 451: the context was done when the job was to be submitted.
SubmitCancelled(s) ==
    /\ session[s] = "submit"
    /\ Cancelled(sjob[s])
    /\ ReturnSlot
    /\ EndCommand(s)
    /\ session' = [session EXCEPT ![s] = "idle"]
    /\ UNCHANGED <<phase, restarts, queue, txn, cur, workerVars, balance, senderVars>>

\* jobsSubmitted is incremented after the job is in the channel.
CountSubmitted(s) ==
    /\ session[s] = "submitted"
    /\ balance' = balance + 1
    /\ session' = [session EXCEPT ![s] = "waiting"]
    /\ UNCHANGED <<phase, restarts, slots, queue, txn, cur, sjob, workerVars,
                   jobVars, senderVars>>

\* The answer reaches the sender, or the connection is found broken and closed.
Reply(s, custody) ==
    \/ /\ session' = [session EXCEPT ![s] = "idle"]
       /\ mail' = [mail EXCEPT ![cur[s]] = custody]
       /\ txn' = [txn EXCEPT ![s] = "none"]
       /\ cur' = [cur EXCEPT ![s] = NoMessage]
    \/ CloseSession(s) /\ UNCHANGED mail

\* 250 or 451, as the worker says; the transaction is over.
ReceiveResult(s) ==
    /\ session[s] = "waiting"
    /\ result[sjob[s]] # "none"
    /\ Reply(s, IF result[sjob[s]] = "ok" THEN "given" ELSE mail[cur[s]])
    /\ EndCommand(s)
    /\ UNCHANGED <<phase, restarts, slots, queue, workerVars, balance, stored>>

\* Waits for the result alone.
DeliveryTimeoutNever(s) == session[s] = "waiting" /\ FALSE

\* 451: the deadline has passed, or the server stops.  A result that has come
\* meanwhile may be passed over; the transaction stays as it is.
DeliveryTimeout(s) ==
    /\ session[s] = "waiting"
    /\ Cancelled(sjob[s])
    /\ EndCommand(s)
    /\ \/ session' = [session EXCEPT ![s] = "idle"] /\ UNCHANGED <<txn, cur>>
       \/ CloseSession(s)
    /\ UNCHANGED <<phase, restarts, slots, queue, workerVars, balance, senderVars>>

\* The delivery timeout of a job.
DeadlinePasses(s) ==
    /\ session[s] \in {"submit", "submitted", "waiting"}
    /\ sjob[s] \notin expired
    /\ expired' = expired \cup {sjob[s]}
    /\ UNCHANGED <<phase, restarts, slots, queue, sessionVars, workerVars, about,
                   result, balance, senderVars>>

------------------------------------------------------------------------------
(* The workers *)

\* Also when the context is cancelled a worker may prefer the channel.
TakeJob(w) ==
    /\ worker[w] = "idle"
    /\ queue # <<>>
    /\ wjob' = [wjob EXCEPT ![w] = Head(queue)]
    /\ queue' = Tail(queue)
    /\ worker' = [worker EXCEPT ![w] = "taken"]
    /\ UNCHANGED <<phase, restarts, slots, sessionVars, jobVars, balance, senderVars>>

WorkerStops(w) ==
    /\ worker[w] = "idle"
    /\ phase # "running"
    /\ worker' = [worker EXCEPT ![w] = "gone"]
    /\ UNCHANGED <<phase, restarts, slots, queue, sessionVars, wjob, jobVars,
                   balance, senderVars>>

\* handleJob looks at the job's context once, before it parses the message.
CheckContext(w) ==
    /\ worker[w] = "taken"
    /\ worker' = [worker EXCEPT ![w] = IF Cancelled(wjob[w]) THEN "failed" ELSE "inserting"]
    /\ UNCHANGED <<phase, restarts, slots, queue, sessionVars, wjob, jobVars,
                   balance, senderVars>>

\* InsertEmailResolved is one statement.  It fails before it is committed, or
\* after (the context ends, or the connection breaks, before the row is read).
InsertEmailResolved(w) ==
    /\ worker[w] = "inserting"
    /\ \/ Handover!Store(about[wjob[w]]) /\ worker' = [worker EXCEPT ![w] = "inserted"]
       \/ Handover!Store(about[wjob[w]]) /\ worker' = [worker EXCEPT ![w] = "failed"]
       \/ UNCHANGED senderVars /\ worker' = [worker EXCEPT ![w] = "failed"]
    /\ UNCHANGED <<phase, restarts, slots, queue, sessionVars, wjob, jobVars, balance>>

\* The outcome is counted and put into the job's result channel, which has room
\* for it and of which nobody may take it.
SendJobResult(w) ==
    /\ worker[w] \in {"inserted", "failed"}
    /\ balance' = balance - 1
    /\ result' = [result EXCEPT ![wjob[w]] = IF worker[w] = "inserted" THEN "ok" ELSE "temp"]
    /\ worker' = [worker EXCEPT ![w] = "answered"]
    /\ UNCHANGED <<phase, restarts, slots, queue, sessionVars, wjob, about, expired,
                   senderVars>>

\* The deferred functions of handleJob.
FinishJob(w) ==
    /\ worker[w] = "answered"
    /\ slots' = slots + 1
    /\ worker' = [worker EXCEPT ![w] = "idle"]
    /\ wjob' = [wjob EXCEPT ![w] = NoJob]
    /\ IF \E s \in Sessions : sjob[s] = wjob[w] THEN UNCHANGED jobVars ELSE Forget(wjob[w])
    /\ UNCHANGED <<phase, restarts, queue, sessionVars, balance, senderVars>>

------------------------------------------------------------------------------
(* Shutdown and restart *)

\* The signal, or Shutdown, cancels the context.
CancelContext ==
    /\ phase = "running"
    /\ phase' = "cancelled"
    /\ UNCHANGED <<restarts, slots, queue, sessionVars, workerVars, jobVars, balance,
                   senderVars>>

CloseListener ==
    /\ phase = "cancelled"
    /\ phase' = "closed"
    /\ UNCHANGED <<restarts, slots, queue, sessionVars, workerVars, jobVars, balance,
                   senderVars>>

\* s.wg.Wait: the workers, the sessions and the accept loop are gone.
WorkersGone == \A w \in Workers : worker[w] = "gone"
EverybodyGoneEarly == phase = "closed" /\ WorkersGone
EverybodyGone ==
    /\ phase = "closed"
    /\ WorkersGone
    /\ \A s \in Sessions : session[s] = "none"

DrainQueuedJobUncounted ==
    /\ EverybodyGone
    /\ queue # <<>>
    /\ queue' = Tail(queue)
    /\ slots' = slots + 1
    /\ Forget(Head(queue))
    /\ UNCHANGED <<phase, restarts, sessionVars, workerVars, balance, senderVars>>

\* drainQueuedJobs answers and counts one job after the other; the sessions that
\* would have read the answers are gone.
DrainQueuedJob ==
    /\ EverybodyGone
    /\ queue # <<>>
    /\ queue' = Tail(queue)
    /\ balance' = balance - 1
    /\ slots' = slots + 1
    /\ Forget(Head(queue))
    /\ UNCHANGED <<phase, restarts, sessionVars, workerVars, senderVars>>

ShutdownDone ==
    /\ EverybodyGone
    /\ queue = <<>>
    /\ phase' = "drained"
    /\ UNCHANGED <<restarts, slots, queue, sessionVars, workerVars, jobVars, balance,
                   senderVars>>

\* The process ends, at the end of the shutdown, because the shutdown took longer
\* than ten seconds, or killed; a new one starts.  Open connections break.
Restart ==
    /\ restarts < MaxRestarts
    /\ restarts' = restarts + 1
    /\ Fresh
    /\ about' = [j \in Jobs |-> NoMessage]
    /\ UNCHANGED senderVars

------------------------------------------------------------------------------
SessionStep(s) ==
    \/ Connect(s)
    \/ Hangup(s)
    \/ \E m \in Messages : HandleMAIL(s, m)
    \/ HandleRCPT(s)
    \/ ResetTransaction(s)
    \/ ReserveSlot(s)
    \/ ReadData(s)
    \/ Oversized(s)
    \/ ReadDataFails(s)
    \/ SubmitJob(s)
    \/ SubmitCancelled(s)
    \/ CountSubmitted(s)
    \/ ReceiveResult(s)
    \/ DeliveryTimeout(s)
    \/ DeadlinePasses(s)

WorkerStep(w) ==
    \/ TakeJob(w)
    \/ WorkerStops(w)
    \/ CheckContext(w)
    \/ InsertEmailResolved(w)
    \/ SendJobResult(w)
    \/ FinishJob(w)

ServerStep ==
    \/ CancelContext
    \/ CloseListener
    \/ DrainQueuedJob
    \/ ShutdownDone
    \/ Restart

Next ==
    \/ \E s \in Sessions : SessionStep(s)
    \/ \E w \in Workers : WorkerStep(w)
    \/ ServerStep

Spec == Init /\ [][Next]_vars

\* Goroutines go on, and a deadline passes unless the command ends before it.
GoroutineFairness ==
    /\ \A s \in Sessions :
          /\ WF_vars(SubmitJob(s) \/ SubmitCancelled(s))
          /\ WF_vars(CountSubmitted(s))
          /\ WF_vars(ReceiveResult(s) \/ DeliveryTimeout(s))
          /\ WF_vars(DeadlinePasses(s))
    /\ \A w \in Workers :
          /\ WF_vars(TakeJob(w) \/ WorkerStops(w))
          /\ WF_vars(CheckContext(w) \/ InsertEmailResolved(w) \/ SendJobResult(w)
                        \/ FinishJob(w))
    /\ WF_vars(CloseListener)
    /\ WF_vars(DrainQueuedJob \/ ShutdownDone)

\* During a shutdown a message that has begun arrives or its connection breaks,
\* and connections on which nothing else is to be done end.
ClosingFairness ==
    \A s \in Sessions :
        /\ WF_vars(ReadData(s) \/ Oversized(s) \/ ReadDataFails(s))
        /\ SF_vars(phase = "closed" /\ Hangup(s))

\* The sender tries again; connection, database and answer do not fail for ever.
SenderFairness ==
    \A s \in Sessions :
        /\ WF_vars(Connect(s))
        /\ \A m \in Messages : SF_vars(HandleMAIL(s, m))
        /\ SF_vars(HandleRCPT(s) /\ txn'[s] = "rcpt")
        /\ SF_vars(ReserveSlot(s))
        /\ SF_vars(ReadData(s))
        /\ SF_vars(ReceiveResult(s) /\ mail'[cur[s]] = "given")
DatabaseFairness ==
    \A w \in Workers : SF_vars(InsertEmailResolved(w) /\ worker'[w] = "inserted")

\* What sender and database have to do is a premise of the property that needs it.
FairSpec == Spec /\ GoroutineFairness

------------------------------------------------------------------------------
(* Properties *)

\* Every variable holds a value of its type.
TypeOK ==
    /\ phase \in Phases
    /\ restarts \in 0..MaxRestarts
    /\ slots \in 0..QueueSize
    /\ queue \in Seq(Jobs)
    /\ session \in [Sessions -> SessionStates]
    /\ txn \in [Sessions -> {"none", "mail", "rcpt"}]
    /\ cur \in [Sessions -> Messages \cup {NoMessage}]
    /\ sjob \in [Sessions -> Jobs \cup {NoJob}]
    /\ worker \in [Workers -> WorkerStates]
    /\ wjob \in [Workers -> Jobs \cup {NoJob}]
    /\ about \in [Jobs -> Messages \cup {NoMessage}]
    /\ expired \subseteq Jobs
    /\ result \in [Jobs -> {"none", "ok", "temp"}]
    /\ balance \in Int
    /\ mail \in [Messages -> Handover!Custody]
    /\ stored \in [Messages -> 0..2]

HoldingSessions == {s \in Sessions : session[s] \in {"data", "submit"}}
BusyWorkers == {w \in Workers : worker[w] \notin {"idle", "gone"}}

\* Every slot is in its channel, or reserved by one command, or with one job:
\* none is lost on an early return and none is put back twice
\* (api/ingress/server.go:404-424, 491-503, 629-637).
SlotsConserved ==
    slots + Cardinality(HoldingSessions) + Len(queue) + Cardinality(BusyWorkers) = QueueSize

\* submitJob never waits for room, because the reservation keeps it free; a
\* session that waited there could only be ended by its deadline.
RoomForReserved ==
    Len(queue) + Cardinality({s \in Sessions : session[s] = "submit"}) <= QueueSize

\* The counters an operator reads agree with what is under way: a job that was
\* submitted is delivered or failed once, whoever ends it
\* (docs/operator-runbook.md:44).
CountersBalance ==
    balance = Len(queue)
              + Cardinality({w \in Workers : worker[w] \in {"taken", "inserting", "inserted", "failed"}})
              - Cardinality({s \in Sessions : session[s] = "submitted"})

\* After a shutdown nothing is left behind: no job in the channel, no slot missing
\* (api/ingress/server.go:293-297).
DrainedIsEmpty == phase = "drained" => slots = QueueSize /\ queue = <<>> /\ balance = 0

\* Jobs are accounted for while the server runs and when it has stopped
\* (api/ingress/server.go:265-304, 670): both of the above.
JobsAccounted == CountersBalance /\ DrainedIsEmpty

\* The ingress keeps the promise Postfix relies on: whatever timeouts, reused
\* connections, shutdowns and restarts come between, 250 is written only for a
\* message of the sender that is in the table (api/ingress/server.go:671-691).
HandoverSpec == Handover!Spec

\* A command that has submitted its message is answered, even if every worker has
\* stopped before its job was taken: sessions wait for workers only as long as
\* their deadline, and the shutdown waits for both.
DataIsAnswered ==
    \A s \in Sessions :
        session[s] \in {"submit", "submitted", "waiting"} ~> session[s] \in {"idle", "none"}

\* A shutdown comes to its end, whatever jobs are queued when it begins.
ShutdownEnds == ClosingFairness => (phase = "cancelled" ~> phase = "drained")

\* Nobody waits for ever (api/ingress/server.go:265-304, 664-698): both of the above.
NobodyIsStuck == DataIsAnswered /\ ShutdownEnds

\* A message its sender tries again and again is accepted or refused, unless the
\* server stops or deadlines pass for ever: reserved slots come back from attempts
\* that are too large, break off or fail.
HandedOver ==
    (/\ SenderFairness /\ DatabaseFairness
     /\ <>[](phase = "running")
     /\ <>[][\A s \in Sessions : ~DeadlinePasses(s)]_vars)
        => \A m \in Messages : <>(mail[m] # "held")

==============================================================================
