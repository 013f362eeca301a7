-------------------------- MODULE LmtpIngressProofs --------------------------
(***************************************************************************)
(* Theorems about LmtpIngress, for any number of messages, connections,    *)
(* workers, jobs and slots.                                                *)
(***************************************************************************)
EXTENDS LmtpIngress, FiniteSetTheorems, TLAPS

------------------------------------------------------------------------------
(* Type correctness and the slots *)

\* One more or one less element of a finite set.
LEMMA OneElement ==
    ASSUME NEW S, IsFiniteSet(S), NEW x
    PROVE  /\ Cardinality(S) \in Nat
           /\ x \notin S => Cardinality(S \cup {x}) = Cardinality(S) + 1
           /\ x \in S => /\ Cardinality(S \ {x}) = Cardinality(S) - 1
                         /\ Cardinality(S) > 0
BY FS_CardinalityType, FS_AddElement, FS_RemoveElement

\* The sessions and workers that hold slots are finitely many.
LEMMA HoldersFinite == IsFiniteSet(HoldingSessions) /\ IsFiniteSet(BusyWorkers)
<1>1. IsFiniteSet(Sessions) /\ IsFiniteSet(Workers)
    BY IngressAssumption
<1>2. HoldingSessions \subseteq Sessions /\ BusyWorkers \subseteq Workers
    BY DEF HoldingSessions, BusyWorkers
<1>. QED  BY <1>1, <1>2, FS_Subset

\* Steps of a session that leave the slots alone.
LEMMA SessionKeepsSlots ==
    ASSUME TypeOK, SlotsConserved, NEW s \in Sessions,
           \/ Connect(s) \/ Hangup(s) \/ (\E m \in Messages : HandleMAIL(s, m))
           \/ HandleRCPT(s) \/ ResetTransaction(s) \/ ReadData(s) \/ CountSubmitted(s)
           \/ ReceiveResult(s) \/ DeliveryTimeout(s) \/ DeadlinePasses(s)
    PROVE  SlotsConserved' /\ slots' \in 0..QueueSize
<1>1. HoldingSessions' = HoldingSessions
    BY DEF TypeOK, HoldingSessions, sessionVars, Connect, Hangup, HandleMAIL, HandleRCPT,
           ResetTransaction, ReadData, CountSubmitted, ReceiveResult, Reply, CloseSession,
           DeliveryTimeout, DeadlinePasses
<1>2. UNCHANGED <<slots, queue, worker>>
    BY DEF sessionVars, workerVars, Connect, Hangup, HandleMAIL, HandleRCPT,
           ResetTransaction, ReadData, CountSubmitted, ReceiveResult, DeliveryTimeout,
           DeadlinePasses
<1>3. BusyWorkers' = BusyWorkers
    BY <1>2 DEF BusyWorkers
<1>. QED  BY <1>1, <1>2, <1>3 DEF SlotsConserved, TypeOK

\* DATA takes a slot; a command that ends without a job puts it back; a job that
\* is submitted takes it along.
LEMMA SessionMovesSlots ==
    ASSUME TypeOK, SlotsConserved, NEW s \in Sessions,
           ReserveSlot(s) \/ Oversized(s) \/ ReadDataFails(s) \/ SubmitJob(s)
               \/ SubmitCancelled(s)
    PROVE  SlotsConserved' /\ slots' \in 0..QueueSize
<1>a. slots \in 0..QueueSize /\ Len(queue) \in Nat /\ QueueSize \in Nat
    BY IngressAssumption DEF TypeOK
<1>b. IsFiniteSet(HoldingSessions)
    BY HoldersFinite
<1>c. /\ Cardinality(HoldingSessions) \in Nat
      /\ s \notin HoldingSessions =>
            Cardinality(HoldingSessions \cup {s}) = Cardinality(HoldingSessions) + 1
      /\ s \in HoldingSessions =>
            /\ Cardinality(HoldingSessions \ {s}) = Cardinality(HoldingSessions) - 1
            /\ Cardinality(HoldingSessions) > 0
    BY <1>b, OneElement
<1>d. Cardinality(BusyWorkers) \in Nat
    BY HoldersFinite, OneElement
<1>e. BusyWorkers' = BusyWorkers
    BY DEF BusyWorkers, workerVars, ReserveSlot, Oversized, ReadDataFails, SubmitJob,
           SubmitCancelled
<1>1. CASE ReserveSlot(s)
    <2>1. s \notin HoldingSessions /\ HoldingSessions' = HoldingSessions \cup {s}
        BY <1>1 DEF TypeOK, HoldingSessions, ReserveSlot
    <2>2. slots' = slots - 1 /\ slots > 0 /\ queue' = queue
        BY <1>1 DEF ReserveSlot
    <2>. QED  BY <1>a, <1>c, <1>d, <1>e, <2>1, <2>2 DEF SlotsConserved
<1>2. CASE Oversized(s) \/ ReadDataFails(s) \/ SubmitCancelled(s)
    <2>1. s \in HoldingSessions /\ HoldingSessions' = HoldingSessions \ {s}
        BY <1>2 DEF TypeOK, HoldingSessions, Oversized, ReadDataFails, CloseSession,
                    SubmitCancelled
    <2>2. slots' = slots + 1 /\ queue' = queue
        BY <1>2 DEF Oversized, ReadDataFails, SubmitCancelled, ReturnSlot
    <2>. QED  BY <1>a, <1>c, <1>d, <1>e, <2>1, <2>2 DEF SlotsConserved
<1>3. CASE SubmitJob(s)
    <2>1. s \in HoldingSessions /\ HoldingSessions' = HoldingSessions \ {s}
        BY <1>3 DEF TypeOK, HoldingSessions, SubmitJob
    <2>2. slots' = slots
        BY <1>3 DEF SubmitJob
    <2>3. Len(queue') = Len(queue) + 1
        BY <1>3 DEF TypeOK, SubmitJob
    <2>. QED  BY <1>a, <1>c, <1>d, <1>e, <2>1, <2>2, <2>3 DEF SlotsConserved
<1>. QED  BY <1>1, <1>2, <1>3

\* A worker takes the slot of a job over and puts it back in the end.
LEMMA WorkerMovesSlots ==
    ASSUME TypeOK, SlotsConserved, NEW w \in Workers, WorkerStep(w)
    PROVE  SlotsConserved' /\ slots' \in 0..QueueSize
<1>a. slots \in 0..QueueSize /\ Len(queue) \in Nat /\ QueueSize \in Nat
    BY IngressAssumption DEF TypeOK
<1>b. IsFiniteSet(BusyWorkers)
    BY HoldersFinite
<1>c. /\ Cardinality(BusyWorkers) \in Nat
      /\ w \notin BusyWorkers =>
            Cardinality(BusyWorkers \cup {w}) = Cardinality(BusyWorkers) + 1
      /\ w \in BusyWorkers =>
            /\ Cardinality(BusyWorkers \ {w}) = Cardinality(BusyWorkers) - 1
            /\ Cardinality(BusyWorkers) > 0
    BY <1>b, OneElement
<1>d. Cardinality(HoldingSessions) \in Nat
    BY HoldersFinite, OneElement
<1>e. HoldingSessions' = HoldingSessions
    BY DEF HoldingSessions, sessionVars, WorkerStep, TakeJob, WorkerStops, CheckContext,
           InsertEmailResolved, SendJobResult, FinishJob
<1>1. CASE TakeJob(w)
    <2>1. w \notin BusyWorkers /\ BusyWorkers' = BusyWorkers \cup {w}
        BY <1>1 DEF TypeOK, BusyWorkers, TakeJob
    <2>2. slots' = slots /\ queue # <<>> /\ queue' = Tail(queue)
        BY <1>1 DEF TakeJob
    <2>3. Len(queue') = Len(queue) - 1 /\ Len(queue) > 0
        BY <2>2 DEF TypeOK
    <2>. QED  BY <1>a, <1>c, <1>d, <1>e, <2>1, <2>2, <2>3 DEF SlotsConserved
<1>2. CASE FinishJob(w)
    <2>1. w \in BusyWorkers /\ BusyWorkers' = BusyWorkers \ {w}
        BY <1>2 DEF TypeOK, BusyWorkers, FinishJob
    <2>2. slots' = slots + 1 /\ queue' = queue
        BY <1>2 DEF FinishJob
    <2>. QED  BY <1>a, <1>c, <1>d, <1>e, <2>1, <2>2 DEF SlotsConserved
<1>3. CASE WorkerStops(w) \/ CheckContext(w) \/ InsertEmailResolved(w) \/ SendJobResult(w)
    <2>1. BusyWorkers' = BusyWorkers
        BY <1>3 DEF TypeOK, BusyWorkers, WorkerStops, CheckContext, InsertEmailResolved,
                    SendJobResult
    <2>2. slots' = slots /\ queue' = queue
        BY <1>3 DEF WorkerStops, CheckContext, InsertEmailResolved, SendJobResult
    <2>. QED  BY <1>a, <1>e, <2>1, <2>2 DEF SlotsConserved
<1>. QED  BY <1>1, <1>2, <1>3 DEF WorkerStep

\* A drained job gives its slot back; a new process has all of them.
LEMMA ServerMovesSlots ==
    ASSUME TypeOK, SlotsConserved, ServerStep
    PROVE  SlotsConserved' /\ slots' \in 0..QueueSize
<1>a. slots \in 0..QueueSize /\ Len(queue) \in Nat /\ QueueSize \in Nat
    BY IngressAssumption DEF TypeOK
<1>b. Cardinality(HoldingSessions) \in Nat /\ Cardinality(BusyWorkers) \in Nat
    BY HoldersFinite, OneElement
<1>1. CASE DrainQueuedJob
    <2>1. UNCHANGED <<HoldingSessions, BusyWorkers>>
        BY <1>1 DEF HoldingSessions, BusyWorkers, sessionVars, workerVars, DrainQueuedJob
    <2>2. slots' = slots + 1 /\ queue # <<>> /\ queue' = Tail(queue)
        BY <1>1 DEF DrainQueuedJob
    <2>3. Len(queue') = Len(queue) - 1 /\ Len(queue) > 0
        BY <2>2 DEF TypeOK
    <2>. QED  BY <1>a, <1>b, <2>1, <2>2, <2>3 DEF SlotsConserved
<1>2. CASE CancelContext \/ CloseListener \/ ShutdownDone
    <2>1. UNCHANGED <<HoldingSessions, BusyWorkers, slots, queue>>
        BY <1>2 DEF HoldingSessions, BusyWorkers, sessionVars, workerVars, CancelContext,
                    CloseListener, ShutdownDone
    <2>. QED  BY <1>a, <2>1 DEF SlotsConserved
<1>3. CASE Restart
    <2>1. HoldingSessions' = {} /\ BusyWorkers' = {}
        BY <1>3 DEF HoldingSessions, BusyWorkers, Restart, Fresh
    <2>2. slots' = QueueSize /\ Len(queue') = 0
        BY <1>3 DEF Restart, Fresh
    <2>. QED  BY <1>a, <2>1, <2>2, FS_EmptySet DEF SlotsConserved
<1>. QED  BY <1>1, <1>2, <1>3 DEF ServerStep

\* A session has a job from the end of the message to the end of the command, a
\* worker from the channel to its deferred functions.
SubmittingStates == {"submit", "submitted", "waiting"}
JobsHeld ==
    /\ \A s \in Sessions : sjob[s] \in Jobs <=> session[s] \in SubmittingStates
    /\ \A w \in Workers : wjob[w] \in Jobs <=> worker[w] \notin {"idle", "gone"}

\* Ending a command keeps the types of what it touches.
LEMMA EndCommandType ==
    ASSUME TypeOK, NEW s \in Sessions, sjob[s] \in Jobs, EndCommand(s)
    PROVE  /\ sjob' = [sjob EXCEPT ![s] = NoJob]
           /\ sjob' \in [Sessions -> Jobs \cup {NoJob}]
           /\ about' \in [Jobs -> Messages \cup {NoMessage}]
           /\ expired' \subseteq Jobs
           /\ result' \in [Jobs -> {"none", "ok", "temp"}]
BY DEF TypeOK, EndCommand, Forget

\* Every action keeps the types, as long as the slots are conserved.
LEMMA TypeStep ==
    ASSUME TypeOK, JobsHeld, [Next]_vars, slots' \in 0..QueueSize
    PROVE  TypeOK' /\ JobsHeld'
<1>. USE DEF TypeOK, JobsHeld, SubmittingStates, Phases, SessionStates, WorkerStates,
             sessionVars, workerVars, jobVars, senderVars
<1>c. Handover!Custody = {"held", "given", "bounced"}
    BY DEF Handover!Custody
<1>j. NoJob \notin Jobs
    BY IngressAssumption
<1>1. ASSUME NEW s \in Sessions, SessionStep(s)
      PROVE  TypeOK' /\ JobsHeld'
    <2>1. CASE Connect(s) \/ Hangup(s) \/ ResetTransaction(s)
        BY <2>1 DEF Connect, Hangup, ResetTransaction
    <2>9. CASE ReserveSlot(s)
        BY <2>9 DEF ReserveSlot
    <2>2. CASE HandleRCPT(s) \/ \E m \in Messages : HandleMAIL(s, m)
        <3>1. mail' \in [Messages -> Handover!Custody]
            BY <1>c, <2>2 DEF HandleMAIL, HandleRCPT, Refuse
        <3>. QED  BY <2>2, <3>1 DEF HandleMAIL, HandleRCPT
    <2>3. CASE ReadData(s)
        <3>1. PICK j \in Jobs : /\ sjob' = [sjob EXCEPT ![s] = j]
                                /\ about' = [about EXCEPT ![j] = cur[s]]
            BY <2>3 DEF ReadData
        <3>2. \A t \in Sessions : sjob'[t] \in Jobs <=> session'[t] \in SubmittingStates
            BY <2>3, <3>1 DEF ReadData
        <3>3. TypeOK'
            BY <2>3, <3>1 DEF ReadData
        <3>. QED  BY <2>3, <3>2, <3>3 DEF ReadData
    <2>4. CASE Oversized(s) \/ ReadDataFails(s)
        <3>1. mail' \in [Messages -> Handover!Custody]
            BY <1>c, <2>4 DEF Oversized, ReadDataFails, Refuse
        <3>2. slots' = slots + 1
            BY <2>4 DEF Oversized, ReadDataFails, ReturnSlot
        <3>. QED  BY <2>4, <3>1, <3>2 DEF Oversized, ReadDataFails, CloseSession
    <2>5. CASE SubmitJob(s)
        <3>1. queue' \in Seq(Jobs)
            BY <2>5 DEF SubmitJob
        <3>2. UNCHANGED <<phase, restarts, slots, txn, cur, sjob, workerVars, jobVars,
                          balance, senderVars>>
            BY <2>5 DEF SubmitJob
        <3>3. session[s] = "submit" /\ session' = [session EXCEPT ![s] = "submitted"]
            BY <2>5 DEF SubmitJob
        <3>. QED  BY <3>1, <3>2, <3>3
    <2>10. CASE CountSubmitted(s)
        BY <2>10 DEF CountSubmitted
    <2>6. CASE SubmitCancelled(s)
        <3>1. EndCommand(s) /\ sjob[s] \in Jobs
            BY <2>6 DEF SubmitCancelled
        <3>. QED  BY <1>j, <2>6, <3>1, EndCommandType DEF SubmitCancelled
    <2>7. CASE ReceiveResult(s) \/ DeliveryTimeout(s)
        <3>1. EndCommand(s) /\ sjob[s] \in Jobs
            BY <2>7 DEF ReceiveResult, DeliveryTimeout
        <3>2. /\ session' \in [Sessions -> SessionStates]
              /\ session'[s] \notin SubmittingStates
              /\ \A t \in Sessions \ {s} : session'[t] = session[t]
            BY <2>7 DEF ReceiveResult, DeliveryTimeout, Reply, CloseSession
        <3>3. /\ txn' \in [Sessions -> {"none", "mail", "rcpt"}]
              /\ cur' \in [Sessions -> Messages \cup {NoMessage}]
            BY <2>7 DEF ReceiveResult, DeliveryTimeout, Reply, CloseSession
        <3>4. mail' \in [Messages -> Handover!Custody]
            BY <1>c, <2>7 DEF ReceiveResult, DeliveryTimeout, Reply, CloseSession
        <3>5. UNCHANGED <<phase, restarts, slots, queue, workerVars, balance, stored>>
            BY <2>7 DEF ReceiveResult, DeliveryTimeout
        <3>6. TypeOK'
            BY <3>1, <3>2, <3>3, <3>4, <3>5, EndCommandType
        <3>7. sjob'[s] = NoJob /\ \A t \in Sessions \ {s} : sjob'[t] = sjob[t]
            BY <3>1, EndCommandType
        <3>. QED  BY <1>j, <3>2, <3>5, <3>6, <3>7
    <2>8. CASE DeadlinePasses(s)
        BY <2>8 DEF DeadlinePasses
    <2>. QED  BY <1>1, <2>1, <2>2, <2>3, <2>4, <2>5, <2>6, <2>7, <2>8, <2>9,
                 <2>10
              DEF SessionStep
<1>2. ASSUME NEW w \in Workers, WorkerStep(w)
      PROVE  TypeOK' /\ JobsHeld'
    <2>1. CASE TakeJob(w)
        <3>1. Head(queue) \in Jobs /\ queue' \in Seq(Jobs)
            BY <2>1 DEF TakeJob
        <3>. QED  BY <2>1, <3>1 DEF TakeJob
    <2>2. CASE WorkerStops(w) \/ CheckContext(w)
        BY <2>2 DEF WorkerStops, CheckContext
    <2>3. CASE InsertEmailResolved(w)
        <3>1. stored' \in [Messages -> 0..2] /\ mail' = mail
            BY <2>3 DEF InsertEmailResolved, Handover!Store, Handover!OneMore
        <3>. QED  BY <2>3, <3>1 DEF InsertEmailResolved
    <2>4. CASE SendJobResult(w)
        BY <2>4 DEF SendJobResult
    <2>5. CASE FinishJob(w)
        <3>1. /\ about' \in [Jobs -> Messages \cup {NoMessage}]
              /\ expired' \subseteq Jobs
              /\ result' \in [Jobs -> {"none", "ok", "temp"}]
            BY <2>5 DEF FinishJob, Forget
        <3>. QED  BY <1>j, <2>5, <3>1 DEF FinishJob
    <2>. QED  BY <1>2, <2>1, <2>2, <2>3, <2>4, <2>5 DEF WorkerStep
<1>3. ASSUME ServerStep
      PROVE  TypeOK' /\ JobsHeld'
    <2>1. CASE CancelContext \/ CloseListener \/ ShutdownDone
        BY <2>1 DEF CancelContext, CloseListener, ShutdownDone
    <2>2. CASE DrainQueuedJob
        <3>1. queue' \in Seq(Jobs)
            BY <2>2 DEF DrainQueuedJob
        <3>2. /\ about' \in [Jobs -> Messages \cup {NoMessage}]
              /\ expired' \subseteq Jobs
              /\ result' \in [Jobs -> {"none", "ok", "temp"}]
            BY <2>2 DEF DrainQueuedJob, Forget
        <3>. QED  BY <2>2, <3>1, <3>2 DEF DrainQueuedJob
    <2>3. CASE Restart
        BY <1>j, <2>3, IngressAssumption DEF Restart, Fresh
    <2>. QED  BY <1>3, <2>1, <2>2, <2>3 DEF ServerStep
<1>4. CASE UNCHANGED vars
    BY <1>4 DEF vars
<1>. QED  BY <1>1, <1>2, <1>3, <1>4 DEF Next

SlotInv == TypeOK /\ JobsHeld /\ SlotsConserved

\* A process starts with all its slots and nothing under way.
LEMMA InitSlots == Init => SlotInv
<1>. SUFFICES ASSUME Init PROVE SlotInv
    OBVIOUS
<1>1. TypeOK /\ JobsHeld
    BY IngressAssumption
    DEF Init, TypeOK, JobsHeld, SubmittingStates, Phases, SessionStates, WorkerStates,
        Handover!Init, Handover!Custody
<1>2. HoldingSessions = {} /\ BusyWorkers = {}
    BY DEF Init, HoldingSessions, BusyWorkers
<1>3. slots = QueueSize /\ Len(queue) = 0 /\ QueueSize \in Nat
    BY IngressAssumption DEF Init
<1>. QED  BY <1>1, <1>2, <1>3, FS_EmptySet DEF SlotInv, SlotsConserved

\* No step loses a slot, and with the slots conserved their channel never overflows.
LEMMA SlotStep == SlotInv /\ [Next]_vars => SlotInv'
<1>. SUFFICES ASSUME SlotInv, [Next]_vars PROVE SlotInv'
    OBVIOUS
<1>. USE DEF SlotInv
<1>1. SlotsConserved' /\ slots' \in 0..QueueSize
    <2>1. ASSUME NEW s \in Sessions, SessionStep(s)
          PROVE  SlotsConserved' /\ slots' \in 0..QueueSize
        BY <2>1, SessionKeepsSlots, SessionMovesSlots DEF SessionStep
    <2>2. ASSUME NEW w \in Workers, WorkerStep(w)
          PROVE  SlotsConserved' /\ slots' \in 0..QueueSize
        BY <2>2, WorkerMovesSlots
    <2>3. CASE ServerStep
        BY <2>3, ServerMovesSlots
    <2>4. CASE UNCHANGED vars
        BY <2>4 DEF vars, sessionVars, workerVars, SlotsConserved, HoldingSessions,
                    BusyWorkers, TypeOK
    <2>. QED  BY <2>1, <2>2, <2>3, <2>4 DEF Next
<1>. QED  BY <1>1, TypeStep

\* Every variable keeps its type (the state of api/ingress/server.go:53-145).
THEOREM TypeCorrect == Spec => []TypeOK
BY InitSlots, SlotStep, PTL DEF Spec, SlotInv

\* No slot is lost or put back twice, for any number of connections, workers and
\* slots (api/ingress/server.go:404-424, 491-503, 629-638).
THEOREM SlotsAlwaysConserved == Spec => []SlotsConserved
BY InitSlots, SlotStep, PTL DEF Spec, SlotInv

\* A job for which a slot was reserved finds room in the channel: submitJob never
\* has to wait (api/ingress/server.go:481-489, 629).
THEOREM RoomAlways == Spec => []RoomForReserved
<1>1. SlotInv => RoomForReserved
    <2>. SUFFICES ASSUME SlotInv PROVE RoomForReserved
        OBVIOUS
    <2>. DEFINE Submitting == {s \in Sessions : session[s] = "submit"}
    <2>1. /\ Cardinality(Submitting) \in Nat
          /\ Cardinality(Submitting) <= Cardinality(HoldingSessions)
        <3>1. Submitting \subseteq HoldingSessions
            BY DEF HoldingSessions
        <3>. QED  BY <3>1, HoldersFinite, FS_Subset, FS_CardinalityType
    <2>2. slots \in 0..QueueSize /\ Len(queue) \in Nat /\ QueueSize \in Nat
        BY IngressAssumption DEF SlotInv, TypeOK
    <2>3. Cardinality(HoldingSessions) \in Nat /\ Cardinality(BusyWorkers) \in Nat
        BY HoldersFinite, FS_CardinalityType
    <2>4. slots + Cardinality(HoldingSessions) + Len(queue) + Cardinality(BusyWorkers)
            = QueueSize
        BY DEF SlotInv, SlotsConserved
    <2>5. Len(queue) + Cardinality(Submitting) <= QueueSize
        BY <2>1, <2>2, <2>3, <2>4
    <2>. QED  BY <2>5 DEF RoomForReserved
<1>. QED  BY <1>1, InitSlots, SlotStep, PTL DEF Spec

------------------------------------------------------------------------------
(* The promise to the sender *)

\* A transaction has a message, in one connection at a time; while DATA is under
\* way its sender still holds it.
Transactions ==
    /\ \A s \in Sessions : txn[s] # "none" => cur[s] \in Messages
    /\ \A s, t \in Sessions : s # t /\ cur[s] = cur[t] => cur[s] = NoMessage
    /\ \A s \in Sessions : session[s] \in {"data"} \cup SubmittingStates =>
          cur[s] \in Messages /\ mail[cur[s]] = "held"

\* A job is about the message of the session that waits for it, and about some
\* message as long as the channel or a worker has it.
JobsAbout ==
    /\ \A s \in Sessions : session[s] \in SubmittingStates => about[sjob[s]] = cur[s]
    /\ \A w \in Workers : wjob[w] \in Jobs => about[wjob[w]] \in Messages
    /\ \A i \in 1..Len(queue) : about[queue[i]] \in Messages

\* A job is once in the channel or with one worker, and not before it is submitted.
OneHolder ==
    /\ \A v, w \in Workers : v # w /\ wjob[v] \in Jobs => wjob[v] # wjob[w]
    /\ \A i, k \in 1..Len(queue) : i # k => queue[i] # queue[k]
    /\ \A w \in Workers : \A i \in 1..Len(queue) : queue[i] # wjob[w]
    /\ \A s \in Sessions : session[s] = "submit" =>
          /\ \A w \in Workers : wjob[w] # sjob[s]
          /\ \A i \in 1..Len(queue) : queue[i] # sjob[s]

\* A worker reports success only for a stored message, in the job's own channel.
StoredBefore ==
    /\ \A w \in Workers : worker[w] = "inserted" => stored[about[wjob[w]]] > 0
    /\ \A j \in Jobs : result[j] = "ok" => about[j] \in Messages /\ stored[about[j]] > 0

PromiseInv == Transactions /\ JobsAbout /\ OneHolder /\ StoredBefore

\* The channel after its first job is taken, and after one is put in.
LEMMA QueueTail ==
    ASSUME TypeOK, queue # <<>>, queue' = Tail(queue)
    PROVE  /\ Head(queue) = queue[1] /\ 1 \in 1..Len(queue)
           /\ \A i \in 1..Len(queue') : /\ queue'[i] = queue[i + 1]
                                        /\ i + 1 \in 2..Len(queue)
BY DEF TypeOK

LEMMA QueueAppend ==
    ASSUME TypeOK, NEW j \in Jobs, queue' = Append(queue, j)
    PROVE  \A i \in 1..Len(queue') : \/ i \in 1..Len(queue) /\ queue'[i] = queue[i]
                                     \/ i = Len(queue) + 1 /\ queue'[i] = j
BY DEF TypeOK

\* Jobs in the channel are jobs.
LEMMA QueueJobs == TypeOK => \A i \in 1..Len(queue) : queue[i] \in Jobs /\ queue[i] \in Queued
BY DEF TypeOK, Queued

\* Jobs of different sessions are different, since their messages are.
LEMMA OwnJob ==
    ASSUME TypeOK, PromiseInv, NEW s \in Sessions, NEW t \in Sessions \ {s},
           session[s] \in SubmittingStates, session[t] \in SubmittingStates
    PROVE  sjob[s] # sjob[t]
<1>1. cur[s] \in Messages /\ cur[s] # cur[t]
    BY IngressAssumption DEF PromiseInv, Transactions
<1>. QED  BY <1>1 DEF PromiseInv, JobsAbout

\* A job is forgotten alone.
LEMMA ForgetEffect ==
    ASSUME TypeOK, NEW j, Forget(j)
    PROVE  \A k \in Jobs : /\ k # j => about'[k] = about[k] /\ result'[k] = result[k]
                           /\ k = j => result'[k] = "none"
BY DEF TypeOK, Forget

\* The end of a command changes nothing about the jobs of others.
LEMMA EndCommandEffect ==
    ASSUME TypeOK, JobsHeld, PromiseInv, NEW s \in Sessions,
           session[s] \in SubmittingStates, EndCommand(s)
    PROVE  /\ sjob' = [sjob EXCEPT ![s] = NoJob]
           /\ \A t \in Sessions \ {s} : session[t] \in SubmittingStates =>
                 about'[sjob[t]] = about[sjob[t]]
           /\ \A w \in Workers : wjob[w] \in Jobs => about'[wjob[w]] = about[wjob[w]]
           /\ \A i \in 1..Len(queue) : about'[queue[i]] = about[queue[i]]
           /\ \A j \in Jobs : result'[j] = "ok" => result[j] = "ok" /\ about'[j] = about[j]
<1>1. CASE UNCHANGED <<about, result>>
    BY <1>1 DEF EndCommand
<1>2. CASE Forget(sjob[s]) /\ sjob[s] \notin Queued \cup {wjob[w] : w \in Workers}
    <2>1. \A t \in Sessions \ {s} : session[t] \in SubmittingStates =>
             sjob[t] # sjob[s] /\ sjob[t] \in Jobs
        BY OwnJob DEF JobsHeld
    <2>2. \A w \in Workers : wjob[w] # sjob[s]
        BY <1>2
    <2>3. \A i \in 1..Len(queue) : queue[i] # sjob[s] /\ queue[i] \in Jobs
        BY <1>2, QueueJobs
    <2>4. sjob' = [sjob EXCEPT ![s] = NoJob]
        BY DEF EndCommand
    <2>. QED  BY <1>2, <2>1, <2>2, <2>3, <2>4, ForgetEffect
<1>. QED  BY <1>1, <1>2 DEF EndCommand

\* A step of one session keeps Transactions when the rest of the sessions stay as
\* they are and the session itself is in order afterwards.
LEMMA OneSession ==
    ASSUME TypeOK, Transactions, NEW s \in Sessions,
           \A t \in Sessions \ {s} : /\ session'[t] = session[t]
                                     /\ txn'[t] = txn[t]
                                     /\ cur'[t] = cur[t],
           \A t \in Sessions \ {s} :
              cur[t] \in Messages => mail'[cur[t]] = mail[cur[t]],
           txn'[s] # "none" => cur'[s] \in Messages,
           cur'[s] = NoMessage \/ (\A t \in Sessions \ {s} : cur[t] # cur'[s]),
           session'[s] \in {"data"} \cup SubmittingStates =>
              cur'[s] \in Messages /\ mail'[cur'[s]] = "held"
    PROVE  Transactions'
<1>1. \A t \in Sessions : txn'[t] # "none" => cur'[t] \in Messages
    BY DEF Transactions
<1>2. \A t, u \in Sessions : t # u /\ cur'[t] = cur'[u] => cur'[t] = NoMessage
    BY DEF Transactions
<1>3. \A t \in Sessions : session'[t] \in {"data"} \cup SubmittingStates =>
         cur'[t] \in Messages /\ mail'[cur'[t]] = "held"
    BY DEF Transactions
<1>. QED  BY <1>1, <1>2, <1>3 DEF Transactions

\* Leaving a transaction alone, or giving it up, keeps it in order.
LEMMA SameTransaction ==
    ASSUME TypeOK, Transactions, NEW s \in Sessions, mail' = mail,
           NEW v, session' = [session EXCEPT ![s] = v],
           v \in {"data"} \cup SubmittingStates =>
              session[s] \in {"data"} \cup SubmittingStates,
           UNCHANGED <<txn, cur>>
    PROVE  Transactions'
<1>1. cur[s] = NoMessage \/ (\A t \in Sessions \ {s} : cur[t] # cur[s])
    BY DEF Transactions
<1>2. session'[s] = v /\ (\A t \in Sessions \ {s} : session'[t] = session[t])
    BY DEF TypeOK
<1>. QED  BY <1>1, <1>2, OneSession DEF Transactions

LEMMA ClosedTransaction ==
    ASSUME TypeOK, Transactions, NEW s \in Sessions, mail' = mail, CloseSession(s)
    PROVE  Transactions'
<1>1. session'[s] = "none" /\ txn'[s] = "none" /\ cur'[s] = NoMessage
    BY DEF TypeOK, CloseSession
<1>2. \A t \in Sessions \ {s} : /\ session'[t] = session[t]
                                /\ txn'[t] = txn[t]
                                /\ cur'[t] = cur[t]
    BY DEF TypeOK, CloseSession
<1>. QED  BY <1>1, <1>2, OneSession DEF SubmittingStates

\* A transaction whose message the sender no longer holds, or never gave.
LEMMA EndedTransaction ==
    ASSUME TypeOK, Transactions, NEW s \in Sessions,
           NEW v \in {"idle", "greeted", "none"}, session' = [session EXCEPT ![s] = v],
           txn' = [txn EXCEPT ![s] = "none"], cur' = [cur EXCEPT ![s] = NoMessage],
           \A m \in Messages : m # cur[s] => mail'[m] = mail[m]
    PROVE  Transactions'
<1>1. session'[s] = v /\ txn'[s] = "none" /\ cur'[s] = NoMessage
    BY DEF TypeOK
<1>2. \A t \in Sessions \ {s} : /\ session'[t] = session[t]
                                /\ txn'[t] = txn[t]
                                /\ cur'[t] = cur[t]
    BY DEF TypeOK
<1>3. \A t \in Sessions \ {s} : cur[t] \in Messages => mail'[cur[t]] = mail[cur[t]]
    BY IngressAssumption DEF Transactions
<1>. QED  BY <1>1, <1>2, <1>3, OneSession DEF SubmittingStates

\* Only answers and refusals move the custody of a message, each that of its own
\* transaction.
LEMMA TransactionStep ==
    ASSUME TypeOK, JobsHeld, PromiseInv, [Next]_vars
    PROVE  Transactions'
<1>. USE DEF sessionVars, workerVars, jobVars, senderVars
<1>n. NoMessage \notin Messages
    BY IngressAssumption
<1>i. Transactions
    BY DEF PromiseInv
<1>1. ASSUME NEW s \in Sessions, SessionStep(s)
      PROVE  Transactions'
    <2>1. CASE Connect(s)
        BY <1>i, <2>1, SameTransaction DEF Connect, SubmittingStates
    <2>9. CASE Hangup(s)
        BY <1>i, <2>9, ClosedTransaction DEF Hangup, CloseSession
    <2>10. CASE ResetTransaction(s)
        <3>1. /\ session' = [session EXCEPT ![s] = "idle"]
              /\ txn' = [txn EXCEPT ![s] = "none"]
              /\ cur' = [cur EXCEPT ![s] = NoMessage]
              /\ mail' = mail
            BY <2>10 DEF ResetTransaction, TypeOK
        <3>. QED  BY <1>i, <3>1, EndedTransaction
    <2>2. CASE \E m \in Messages : HandleMAIL(s, m)
        <3>1. PICK m \in Messages : HandleMAIL(s, m)
            BY <2>2
        <3>2. /\ txn'[s] = "mail" /\ cur'[s] = m /\ session'[s] = "idle"
              /\ mail' = mail /\ session' = session
            BY <3>1 DEF HandleMAIL, TypeOK
        <3>3. \A t \in Sessions \ {s} : txn'[t] = txn[t] /\ cur'[t] = cur[t]
            BY <3>1 DEF HandleMAIL, TypeOK
        <3>4. \A t \in Sessions \ {s} : cur[t] # cur'[s]
            BY <3>1, <3>2 DEF HandleMAIL
        <3>. QED  BY <1>i, <3>2, <3>3, <3>4, OneSession DEF SubmittingStates
    <2>3. CASE HandleRCPT(s)
        <3>1. /\ session[s] = "idle" /\ txn[s] = "mail"
              /\ session' = session /\ cur' = cur
            BY <2>3 DEF HandleRCPT
        <3>2. cur[s] \in Messages /\ (\A t \in Sessions \ {s} : cur[t] # cur[s])
            BY <1>i, <1>n, <3>1 DEF Transactions
        <3>3. \A t \in Sessions \ {s} : txn'[t] = txn[t]
            BY <2>3 DEF HandleRCPT, TypeOK
        <3>4. \A m \in Messages : m # cur[s] => mail'[m] = mail[m]
            BY <2>3 DEF HandleRCPT, Refuse, TypeOK
        <3>. QED  BY <1>i, <3>1, <3>2, <3>3, <3>4, OneSession DEF SubmittingStates
    <2>4. CASE ReserveSlot(s)
        <3>1. /\ txn[s] = "rcpt" /\ mail[cur[s]] = "held"
              /\ session' = [session EXCEPT ![s] = "data"]
              /\ txn' = txn /\ cur' = cur /\ mail' = mail
            BY <2>4 DEF ReserveSlot
        <3>2. cur[s] \in Messages /\ (\A t \in Sessions \ {s} : cur[t] # cur[s])
            BY <1>i, <1>n, <3>1 DEF Transactions
        <3>3. \A t \in Sessions \ {s} : session'[t] = session[t]
            BY <3>1 DEF TypeOK
        <3>. QED  BY <1>i, <3>1, <3>2, <3>3, OneSession
    <2>5. CASE ReadData(s) \/ SubmitJob(s) \/ CountSubmitted(s)
        <3>1. /\ session[s] \in {"data"} \cup SubmittingStates
              /\ txn' = txn /\ cur' = cur /\ mail' = mail
              /\ \E v \in SubmittingStates : session' = [session EXCEPT ![s] = v]
            BY <2>5 DEF ReadData, SubmitJob, CountSubmitted, SubmittingStates
        <3>. QED  BY <1>i, <3>1, SameTransaction
    <2>11. CASE DeadlinePasses(s)
        BY <1>i, <2>11 DEF DeadlinePasses, Transactions
    <2>6. CASE Oversized(s)
        <3>1. /\ session[s] = "data" /\ txn' = txn /\ cur' = cur
              /\ session' = [session EXCEPT ![s] = "idle"]
            BY <2>6 DEF Oversized
        <3>2. cur[s] \in Messages /\ (\A t \in Sessions \ {s} : cur[t] # cur[s])
            BY <1>i, <1>n, <3>1 DEF Transactions
        <3>3. \A m \in Messages : m # cur[s] => mail'[m] = mail[m]
            BY <2>6 DEF Oversized, Refuse, TypeOK
        <3>4. session'[s] = "idle" /\ (\A t \in Sessions \ {s} : session'[t] = session[t])
            BY <3>1 DEF TypeOK
        <3>. QED  BY <1>i, <3>1, <3>2, <3>3, <3>4, OneSession DEF SubmittingStates
    <2>7. CASE ReadDataFails(s)
        BY <1>i, <2>7, ClosedTransaction DEF ReadDataFails
    <2>12. CASE SubmitCancelled(s)
        <3>1. /\ session' = [session EXCEPT ![s] = "idle"]
              /\ mail' = mail /\ UNCHANGED <<txn, cur>>
            BY <2>12 DEF SubmitCancelled
        <3>. QED  BY <1>i, <3>1, SameTransaction DEF SubmittingStates
    <2>13. CASE DeliveryTimeout(s)
        <3>1. mail' = mail
            BY <2>13 DEF DeliveryTimeout
        <3>2. CASE CloseSession(s)
            BY <1>i, <3>1, <3>2, ClosedTransaction
        <3>3. CASE session' = [session EXCEPT ![s] = "idle"] /\ UNCHANGED <<txn, cur>>
            BY <1>i, <3>1, <3>3, SameTransaction DEF SubmittingStates
        <3>. QED  BY <2>13, <3>2, <3>3 DEF DeliveryTimeout
    <2>8. CASE ReceiveResult(s)
        <3>1. PICK c : Reply(s, c)
            BY <2>8 DEF ReceiveResult
        <3>2. CASE CloseSession(s) /\ UNCHANGED mail
            BY <1>i, <3>2, ClosedTransaction
        <3>3. CASE /\ session' = [session EXCEPT ![s] = "idle"]
                   /\ mail' = [mail EXCEPT ![cur[s]] = c]
                   /\ txn' = [txn EXCEPT ![s] = "none"]
                   /\ cur' = [cur EXCEPT ![s] = NoMessage]
            <4>1. \A m \in Messages : m # cur[s] => mail'[m] = mail[m]
                BY <3>3 DEF TypeOK
            <4>. QED  BY <1>i, <3>3, <4>1, EndedTransaction
        <3>. QED  BY <3>1, <3>2, <3>3 DEF Reply
    <2>. QED  BY <1>1, <2>1, <2>2, <2>3, <2>4, <2>5, <2>6, <2>7, <2>8, <2>9,
                 <2>10, <2>11, <2>12, <2>13
              DEF SessionStep
<1>2. ASSUME NEW w \in Workers, WorkerStep(w)
      PROVE  Transactions'
    BY <1>i, <1>2 DEF Transactions, WorkerStep, TakeJob, WorkerStops, CheckContext, InsertEmailResolved,
                SendJobResult, FinishJob, Handover!Store
<1>3. ASSUME ServerStep
      PROVE  Transactions'
    <2>1. CASE \/ CancelContext \/ CloseListener \/ ShutdownDone
               \/ DrainQueuedJob
        BY <1>i, <2>1 DEF Transactions, CancelContext, CloseListener, DrainQueuedJob,
                          ShutdownDone
    <2>2. CASE Restart
        BY <2>2 DEF Transactions, SubmittingStates, Restart, Fresh
    <2>. QED  BY <1>3, <2>1, <2>2 DEF ServerStep
<1>4. CASE UNCHANGED vars
    BY <1>i, <1>4 DEF vars, Transactions
<1>. QED  BY <1>1, <1>2, <1>3, <1>4 DEF Next

\* A job keeps its message as long as anybody has the job.
LEMMA JobsAboutStep ==
    ASSUME TypeOK, JobsHeld, PromiseInv, [Next]_vars
    PROVE  JobsAbout'
<1>. USE DEF SubmittingStates, sessionVars, workerVars, jobVars, senderVars
<1>n. NoMessage \notin Messages /\ NoJob \notin Jobs
    BY IngressAssumption
<1>i. JobsAbout /\ Transactions /\ OneHolder
    BY DEF PromiseInv
<1>1. ASSUME NEW s \in Sessions, SessionStep(s)
      PROVE  JobsAbout'
    <2>1. CASE \/ Connect(s) \/ Hangup(s) \/ (\E m \in Messages : HandleMAIL(s, m))
               \/ HandleRCPT(s) \/ ResetTransaction(s) \/ ReserveSlot(s)
               \/ Oversized(s) \/ ReadDataFails(s)
        <3>1. UNCHANGED <<queue, sjob, wjob, about>>
            BY <2>1 DEF Connect, Hangup, HandleMAIL, HandleRCPT, ResetTransaction,
                        ReserveSlot, Oversized, ReadDataFails
        <3>2. session'[s] \notin SubmittingStates
            BY <2>1 DEF TypeOK, Connect, Hangup, HandleMAIL, HandleRCPT, ResetTransaction,
                        ReserveSlot, Oversized, ReadDataFails, CloseSession
        <3>3. \A t \in Sessions \ {s} : session'[t] = session[t] /\ cur'[t] = cur[t]
            BY <2>1 DEF TypeOK, Connect, Hangup, HandleMAIL, HandleRCPT, ResetTransaction,
                        ReserveSlot, Oversized, ReadDataFails, CloseSession
        <3>. QED  BY <1>i, <3>1, <3>2, <3>3 DEF JobsAbout
    <2>2. CASE ReadData(s)
        <3>1. PICK j \in Jobs : /\ about[j] = NoMessage
                                /\ sjob' = [sjob EXCEPT ![s] = j]
                                /\ about' = [about EXCEPT ![j] = cur[s]]
            BY <2>2 DEF ReadData
        <3>2. /\ UNCHANGED <<queue, wjob, cur>>
              /\ session' = [session EXCEPT ![s] = "submit"]
            BY <2>2 DEF ReadData
        <3>3. \A k \in Jobs : about[k] \in Messages => about'[k] = about[k]
            BY <1>n, <3>1 DEF TypeOK
        <3>4. \A t \in Sessions \ {s} : session[t] \in SubmittingStates =>
                 about'[sjob[t]] = cur[t]
            BY <1>i, <3>3 DEF JobsAbout, JobsHeld, Transactions
        <3>5. about'[j] = cur[s]
            BY <3>1 DEF TypeOK
        <3>6. \A i \in 1..Len(queue) : about'[queue[i]] \in Messages
            BY <1>i, <3>3, QueueJobs DEF JobsAbout
        <3>. QED  BY <1>i, <3>1, <3>2, <3>3, <3>4, <3>5, <3>6 DEF JobsAbout, TypeOK
    <2>3. CASE SubmitJob(s)
        <3>1. sjob[s] \in Jobs /\ about[sjob[s]] \in Messages
            BY <1>i, <2>3 DEF SubmitJob, JobsAbout, JobsHeld, Transactions
        <3>2. queue' = Append(queue, sjob[s]) /\ UNCHANGED <<sjob, cur, wjob, about>>
            BY <2>3 DEF SubmitJob
        <3>3. \A i \in 1..Len(queue') : about[queue'[i]] \in Messages
            BY <1>i, <3>1, <3>2, QueueAppend DEF JobsAbout
        <3>4. \A t \in Sessions : session'[t] \in SubmittingStates =>
                 session[t] \in SubmittingStates
            BY <2>3 DEF SubmitJob, TypeOK
        <3>. QED  BY <1>i, <3>2, <3>3, <3>4 DEF JobsAbout
    <2>4. CASE SubmitCancelled(s) \/ ReceiveResult(s) \/ DeliveryTimeout(s)
        <3>1. EndCommand(s) /\ session[s] \in SubmittingStates /\ UNCHANGED <<queue, wjob>>
            BY <2>4 DEF SubmitCancelled, ReceiveResult, DeliveryTimeout
        <3>2. session'[s] \notin SubmittingStates
            BY <2>4 DEF TypeOK, SubmitCancelled, ReceiveResult, Reply, DeliveryTimeout,
                        CloseSession
        <3>3. \A t \in Sessions \ {s} : session'[t] = session[t] /\ cur'[t] = cur[t]
            BY <2>4 DEF TypeOK, SubmitCancelled, ReceiveResult, Reply, DeliveryTimeout,
                        CloseSession
        <3>4. \A t \in Sessions \ {s} : sjob'[t] = sjob[t]
            BY <3>1, EndCommandEffect DEF TypeOK
        <3>. QED  BY <1>i, <3>1, <3>2, <3>3, <3>4, EndCommandEffect DEF JobsAbout
    <2>5. CASE CountSubmitted(s) \/ DeadlinePasses(s)
        <3>1. UNCHANGED <<queue, cur, sjob, wjob, about>>
            BY <2>5 DEF CountSubmitted, DeadlinePasses
        <3>2. \A t \in Sessions : session'[t] \in SubmittingStates =>
                 session[t] \in SubmittingStates
            BY <2>5 DEF CountSubmitted, DeadlinePasses, TypeOK
        <3>. QED  BY <1>i, <3>1, <3>2 DEF JobsAbout
    <2>. QED  BY <1>1, <2>1, <2>2, <2>3, <2>4, <2>5 DEF SessionStep
<1>2. ASSUME NEW w \in Workers, WorkerStep(w)
      PROVE  JobsAbout'
    <2>1. CASE TakeJob(w)
        <3>1. /\ wjob' = [wjob EXCEPT ![w] = Head(queue)]
              /\ UNCHANGED <<session, cur, sjob, about>>
              /\ queue # <<>> /\ queue' = Tail(queue)
            BY <2>1 DEF TakeJob
        <3>2. about[Head(queue)] \in Messages
            BY <1>i, <3>1, QueueTail DEF JobsAbout
        <3>3. \A i \in 1..Len(queue') : about[queue'[i]] \in Messages
            BY <1>i, <3>1, QueueTail DEF JobsAbout
        <3>. QED  BY <1>i, <3>1, <3>2, <3>3 DEF JobsAbout, TypeOK
    <2>2. CASE WorkerStops(w) \/ CheckContext(w) \/ InsertEmailResolved(w)
               \/ SendJobResult(w)
        <3>1. UNCHANGED <<queue, session, cur, sjob, wjob, about>>
            BY <2>2 DEF WorkerStops, CheckContext, InsertEmailResolved, SendJobResult
        <3>. QED  BY <1>i, <3>1 DEF JobsAbout
    <2>3. CASE FinishJob(w)
        <3>1. wjob' = [wjob EXCEPT ![w] = NoJob] /\ UNCHANGED <<queue, session, cur, sjob>>
            BY <2>3 DEF FinishJob
        <3>2. CASE UNCHANGED about
            BY <1>i, <1>n, <3>1, <3>2 DEF JobsAbout, TypeOK
        <3>3. CASE Forget(wjob[w]) /\ \A s \in Sessions : sjob[s] # wjob[w]
            <4>1. \A s \in Sessions : session[s] \in SubmittingStates =>
                     about'[sjob[s]] = about[sjob[s]]
                BY <3>3, ForgetEffect DEF JobsHeld
            <4>2. \A v \in Workers \ {w} : wjob[v] \in Jobs => about'[wjob[v]] = about[wjob[v]]
                BY <1>i, <3>3, ForgetEffect DEF OneHolder
            <4>3. \A i \in 1..Len(queue) : about'[queue[i]] = about[queue[i]]
                BY <1>i, <3>3, ForgetEffect, QueueJobs DEF OneHolder
            <4>. QED  BY <1>i, <1>n, <3>1, <4>1, <4>2, <4>3 DEF JobsAbout, TypeOK
        <3>. QED  BY <2>3, <3>2, <3>3 DEF FinishJob
    <2>. QED  BY <1>2, <2>1, <2>2, <2>3 DEF WorkerStep
<1>3. ASSUME ServerStep
      PROVE  JobsAbout'
    <2>1. CASE CancelContext \/ CloseListener \/ ShutdownDone
        <3>1. UNCHANGED <<queue, session, cur, sjob, wjob, about>>
            BY <2>1 DEF CancelContext, CloseListener, ShutdownDone
        <3>. QED  BY <1>i, <3>1 DEF JobsAbout
    <2>2. CASE DrainQueuedJob
        <3>1. /\ queue # <<>> /\ queue' = Tail(queue) /\ Forget(Head(queue))
              /\ UNCHANGED <<session, cur, sjob, wjob>>
            BY <2>2 DEF DrainQueuedJob
        <3>2. /\ \A s \in Sessions : session[s] \notin SubmittingStates
              /\ \A w \in Workers : wjob[w] \notin Jobs
            BY <2>2 DEF DrainQueuedJob, EverybodyGone, WorkersGone, JobsHeld
        <3>3. \A i \in 1..Len(queue') : /\ queue'[i] \in Jobs /\ queue'[i] # Head(queue)
                                        /\ about[queue'[i]] \in Messages
            BY <1>i, <3>1, QueueTail, QueueJobs DEF OneHolder, JobsAbout
        <3>4. \A i \in 1..Len(queue') : about'[queue'[i]] \in Messages
            BY <3>1, <3>3, ForgetEffect
        <3>. QED  BY <3>1, <3>2, <3>4 DEF JobsAbout
    <2>3. CASE Restart
        BY <1>n, <2>3 DEF Restart, Fresh, JobsAbout
    <2>. QED  BY <1>3, <2>1, <2>2, <2>3 DEF ServerStep
<1>4. CASE UNCHANGED vars
    BY <1>i, <1>4 DEF vars, JobsAbout
<1>. QED  BY <1>1, <1>2, <1>3, <1>4 DEF Next

\* A job is passed on, never copied.
LEMMA OneHolderStep ==
    ASSUME TypeOK, JobsHeld, PromiseInv, [Next]_vars
    PROVE  OneHolder'
<1>. USE DEF SubmittingStates, sessionVars, workerVars, jobVars, senderVars
<1>n. NoMessage \notin Messages /\ NoJob \notin Jobs
    BY IngressAssumption
<1>i. JobsAbout /\ Transactions /\ OneHolder
    BY DEF PromiseInv
<1>1. ASSUME NEW s \in Sessions, SessionStep(s)
      PROVE  OneHolder'
    <2>1. CASE ReadData(s)
        <3>1. PICK j \in Jobs : about[j] = NoMessage /\ sjob' = [sjob EXCEPT ![s] = j]
            BY <2>1 DEF ReadData
        <3>2. session' = [session EXCEPT ![s] = "submit"] /\ UNCHANGED <<queue, wjob>>
            BY <2>1 DEF ReadData
        <3>3. \A w \in Workers : wjob[w] # j
            BY <1>i, <1>n, <3>1 DEF JobsAbout
        <3>4. \A i \in 1..Len(queue) : queue[i] # j
            BY <1>i, <1>n, <3>1 DEF JobsAbout
        <3>. QED  BY <1>i, <3>1, <3>2, <3>3, <3>4 DEF OneHolder, TypeOK
    <2>2. CASE SubmitJob(s)
        <3>1. sjob[s] \in Jobs /\ session[s] = "submit"
            BY <2>2 DEF SubmitJob, JobsHeld
        <3>2. /\ session' = [session EXCEPT ![s] = "submitted"]
              /\ queue' = Append(queue, sjob[s]) /\ UNCHANGED <<sjob, wjob>>
            BY <2>2 DEF SubmitJob
        <3>3. \A i \in 1..Len(queue) : queue[i] # sjob[s]
            BY <1>i, <3>1 DEF OneHolder
        <3>4. \A i, k \in 1..Len(queue') : i # k => queue'[i] # queue'[k]
            BY <1>i, <3>1, <3>2, <3>3, QueueAppend DEF OneHolder
        <3>5. \A w \in Workers : \A i \in 1..Len(queue') : queue'[i] # wjob[w]
            BY <1>i, <3>1, <3>2, QueueAppend DEF OneHolder
        <3>6. ASSUME NEW t \in Sessions, session'[t] = "submit"
              PROVE  \A i \in 1..Len(queue') : queue'[i] # sjob[t]
            <4>1. t # s /\ session[t] = "submit"
                BY <3>2, <3>6 DEF TypeOK
            <4>2. sjob[t] # sjob[s]
                BY <3>1, <4>1, OwnJob
            <4>. QED  BY <1>i, <3>1, <3>2, <4>1, <4>2, QueueAppend DEF OneHolder
        <3>7. \A t \in Sessions : session'[t] = "submit" => session[t] = "submit"
            BY <3>2 DEF TypeOK
        <3>. QED  BY <1>i, <3>2, <3>4, <3>5, <3>6, <3>7 DEF OneHolder
    <2>3. CASE \/ Connect(s) \/ Hangup(s) \/ (\E m \in Messages : HandleMAIL(s, m))
               \/ HandleRCPT(s) \/ ResetTransaction(s) \/ ReserveSlot(s)
               \/ Oversized(s) \/ ReadDataFails(s) \/ CountSubmitted(s)
               \/ DeadlinePasses(s)
        <3>1. UNCHANGED <<queue, sjob, wjob>>
            BY <2>3 DEF Connect, Hangup, HandleMAIL, HandleRCPT, ResetTransaction,
                        ReserveSlot, Oversized, ReadDataFails, CountSubmitted,
                        DeadlinePasses
        <3>2. \A t \in Sessions : session'[t] = "submit" => session[t] = "submit"
            BY <2>3 DEF TypeOK, Connect, Hangup, HandleMAIL, HandleRCPT, ResetTransaction,
                        ReserveSlot, Oversized, ReadDataFails, CloseSession,
                        CountSubmitted, DeadlinePasses
        <3>. QED  BY <1>i, <3>1, <3>2 DEF OneHolder
    <2>4. CASE SubmitCancelled(s) \/ ReceiveResult(s) \/ DeliveryTimeout(s)
        <3>1. EndCommand(s) /\ UNCHANGED <<queue, wjob>>
            BY <2>4 DEF SubmitCancelled, ReceiveResult, DeliveryTimeout
        <3>2. \A t \in Sessions : session'[t] = "submit" => session[t] = "submit" /\ t # s
            BY <2>4 DEF TypeOK, SubmitCancelled, ReceiveResult, Reply, DeliveryTimeout,
                        CloseSession
        <3>3. \A t \in Sessions \ {s} : sjob'[t] = sjob[t]
            BY <3>1 DEF EndCommand, TypeOK
        <3>. QED  BY <1>i, <3>1, <3>2, <3>3 DEF OneHolder
    <2>. QED  BY <1>1, <2>1, <2>2, <2>3, <2>4 DEF SessionStep
<1>2. ASSUME NEW w \in Workers, WorkerStep(w)
      PROVE  OneHolder'
    <2>1. CASE TakeJob(w)
        <3>1. /\ wjob' = [wjob EXCEPT ![w] = Head(queue)]
              /\ queue # <<>> /\ queue' = Tail(queue) /\ UNCHANGED <<session, sjob>>
            BY <2>1 DEF TakeJob
        <3>2. \A i \in 1..Len(queue') : queue'[i] # Head(queue)
            BY <1>i, <3>1, QueueTail DEF OneHolder
        <3>3. \A i, k \in 1..Len(queue') : i # k => queue'[i] # queue'[k]
            <4>1. \A i \in 1..Len(queue') : i \in Int
                BY SMT
            <4>. QED  BY <1>i, <3>1, <4>1, QueueTail DEF OneHolder
        <3>4. \A v \in Workers : \A i \in 1..Len(queue') : queue'[i] # wjob'[v]
            BY <1>i, <3>1, <3>2, QueueTail DEF OneHolder, TypeOK
        <3>5. \A v \in Workers \ {w} : wjob[v] # Head(queue)
            BY <1>i, <3>1, QueueTail DEF OneHolder
        <3>6. \A t \in Sessions : session[t] = "submit" =>
                 /\ Head(queue) # sjob[t]
                 /\ \A i \in 1..Len(queue') : queue'[i] # sjob[t]
            BY <1>i, <3>1, QueueTail DEF OneHolder
        <3>. QED  BY <1>i, <3>1, <3>3, <3>4, <3>5, <3>6 DEF OneHolder, TypeOK
    <2>2. CASE WorkerStops(w) \/ CheckContext(w) \/ InsertEmailResolved(w)
               \/ SendJobResult(w)
        <3>1. UNCHANGED <<queue, session, sjob, wjob>>
            BY <2>2 DEF WorkerStops, CheckContext, InsertEmailResolved, SendJobResult
        <3>. QED  BY <1>i, <3>1 DEF OneHolder
    <2>3. CASE FinishJob(w)
        <3>1. wjob' = [wjob EXCEPT ![w] = NoJob] /\ UNCHANGED <<queue, session, sjob>>
            BY <2>3 DEF FinishJob
        <3>2. \A i \in 1..Len(queue) : queue[i] # NoJob
            BY <1>n, QueueJobs
        <3>3. \A t \in Sessions : session[t] = "submit" => sjob[t] # NoJob
            BY <1>n DEF JobsHeld
        <3>. QED  BY <1>i, <1>n, <3>1, <3>2, <3>3 DEF OneHolder, TypeOK
    <2>. QED  BY <1>2, <2>1, <2>2, <2>3 DEF WorkerStep
<1>3. ASSUME ServerStep
      PROVE  OneHolder'
    <2>1. CASE CancelContext \/ CloseListener \/ ShutdownDone
        <3>1. UNCHANGED <<queue, session, sjob, wjob>>
            BY <2>1 DEF CancelContext, CloseListener, ShutdownDone
        <3>. QED  BY <1>i, <3>1 DEF OneHolder
    <2>2. CASE DrainQueuedJob
        <3>1. /\ queue # <<>> /\ queue' = Tail(queue)
              /\ UNCHANGED <<session, sjob, wjob>>
            BY <2>2 DEF DrainQueuedJob
        <3>2. \A i, k \in 1..Len(queue') : i # k => queue'[i] # queue'[k]
            <4>1. \A i \in 1..Len(queue') : i \in Int
                BY SMT
            <4>. QED  BY <1>i, <3>1, <4>1, QueueTail DEF OneHolder
        <3>3. \A i \in 1..Len(queue') : \E k \in 1..Len(queue) : queue'[i] = queue[k]
            BY <3>1, QueueTail
        <3>. QED  BY <1>i, <3>1, <3>2, <3>3 DEF OneHolder
    <2>3. CASE Restart
        BY <1>n, <2>3 DEF Restart, Fresh, OneHolder
    <2>. QED  BY <1>3, <2>1, <2>2, <2>3 DEF ServerStep
<1>4. CASE UNCHANGED vars
    BY <1>i, <1>4 DEF vars, OneHolder
<1>. QED  BY <1>1, <1>2, <1>3, <1>4 DEF Next

\* A result outlives its command only together with its job, and what was stored
\* stays stored.
LEMMA StoredStep ==
    ASSUME TypeOK, JobsHeld, PromiseInv, [Next]_vars
    PROVE  StoredBefore'
<1>. USE DEF sessionVars, workerVars, jobVars, senderVars
<1>n. NoMessage \notin Messages
    BY IngressAssumption
<1>i. JobsAbout /\ OneHolder /\ StoredBefore
    BY DEF PromiseInv
<1>1. ASSUME NEW s \in Sessions, SessionStep(s)
      PROVE  StoredBefore'
    <2>1. CASE ReadData(s)
        <3>1. PICK j \in Jobs : /\ about[j] = NoMessage
                                /\ about' = [about EXCEPT ![j] = cur[s]]
            BY <2>1 DEF ReadData
        <3>2. UNCHANGED <<worker, wjob, result, stored>>
            BY <2>1 DEF ReadData
        <3>3. \A k \in Jobs : about[k] \in Messages => about'[k] = about[k]
            BY <1>n, <3>1 DEF TypeOK
        <3>4. \A w \in Workers : worker[w] = "inserted" =>
                 wjob[w] \in Jobs /\ about[wjob[w]] \in Messages
            BY <1>i DEF JobsHeld, JobsAbout
        <3>. QED  BY <1>i, <3>2, <3>3, <3>4 DEF StoredBefore
    <2>2. CASE \/ Connect(s) \/ Hangup(s) \/ (\E m \in Messages : HandleMAIL(s, m))
               \/ HandleRCPT(s) \/ ResetTransaction(s) \/ ReserveSlot(s)
               \/ Oversized(s) \/ ReadDataFails(s) \/ SubmitJob(s) \/ CountSubmitted(s)
               \/ DeadlinePasses(s)
        <3>1. UNCHANGED <<worker, wjob, about, result, stored>>
            BY <2>2 DEF Connect, Hangup, HandleMAIL, HandleRCPT, ResetTransaction,
                        ReserveSlot, Oversized, ReadDataFails, SubmitJob, CountSubmitted,
                        DeadlinePasses
        <3>. QED  BY <1>i, <3>1 DEF StoredBefore
    <2>3. CASE SubmitCancelled(s) \/ ReceiveResult(s) \/ DeliveryTimeout(s)
        <3>1. EndCommand(s) /\ UNCHANGED <<worker, wjob, stored>>
            BY <2>3 DEF SubmitCancelled, ReceiveResult, DeliveryTimeout
        <3>2. session[s] \in SubmittingStates
            BY <2>3 DEF SubmitCancelled, ReceiveResult, DeliveryTimeout, SubmittingStates
        <3>3. \A w \in Workers : worker[w] = "inserted" => wjob[w] \in Jobs
            BY DEF JobsHeld
        <3>. QED  BY <1>i, <3>1, <3>2, <3>3, EndCommandEffect DEF StoredBefore
    <2>. QED  BY <1>1, <2>1, <2>2, <2>3 DEF SessionStep
<1>2. ASSUME NEW w \in Workers, WorkerStep(w)
      PROVE  StoredBefore'
    <2>1. CASE TakeJob(w) \/ WorkerStops(w) \/ CheckContext(w)
        <3>1. UNCHANGED <<about, result, stored>>
            BY <2>1 DEF TakeJob, WorkerStops, CheckContext
        <3>2. \A v \in Workers : worker'[v] = "inserted" =>
                 worker[v] = "inserted" /\ wjob'[v] = wjob[v]
            BY <2>1 DEF TakeJob, WorkerStops, CheckContext, TypeOK
        <3>. QED  BY <1>i, <3>1, <3>2 DEF StoredBefore
    <2>2. CASE InsertEmailResolved(w)
        <3>1. UNCHANGED <<wjob, about, result>> /\ worker[w] = "inserting"
            BY <2>2 DEF InsertEmailResolved
        <3>2. \A m \in Messages : stored[m] > 0 => stored'[m] > 0
            BY <2>2 DEF InsertEmailResolved, Handover!Store, Handover!OneMore, TypeOK
        <3>3. \A v \in Workers : worker[v] \in {"inserting", "inserted"} =>
                 about[wjob[v]] \in Messages
            BY <1>i DEF JobsHeld, JobsAbout
        <3>4. worker'[w] = "inserted" => stored'[about[wjob[w]]] > 0
            BY <2>2, <3>1, <3>3
            DEF InsertEmailResolved, Handover!Store, Handover!OneMore, TypeOK
        <3>5. \A v \in Workers \ {w} : worker'[v] = worker[v]
            BY <2>2 DEF InsertEmailResolved, TypeOK
        <3>. QED  BY <1>i, <3>1, <3>2, <3>3, <3>4, <3>5 DEF StoredBefore
    <2>3. CASE SendJobResult(w)
        <3>0. worker[w] \in {"inserted", "failed"} /\ UNCHANGED <<wjob, about, stored>>
            BY <2>3 DEF SendJobResult
        <3>1. wjob[w] \in Jobs
            BY <3>0 DEF JobsHeld
        <3>2. about[wjob[w]] \in Messages
            BY <1>i, <3>1 DEF JobsAbout
        <3>3. \A j \in Jobs : result'[j] = "ok" =>
                 result[j] = "ok" \/ (j = wjob[w] /\ worker[w] = "inserted")
            BY <2>3 DEF SendJobResult, TypeOK
        <3>4. \A v \in Workers : worker'[v] = "inserted" => worker[v] = "inserted"
            BY <2>3 DEF SendJobResult, TypeOK
        <3>. QED  BY <1>i, <3>0, <3>1, <3>2, <3>3, <3>4 DEF StoredBefore
    <2>4. CASE FinishJob(w)
        <3>1. /\ wjob' = [wjob EXCEPT ![w] = NoJob] /\ worker' = [worker EXCEPT ![w] = "idle"]
              /\ UNCHANGED stored
              /\ UNCHANGED jobVars \/ Forget(wjob[w])
            BY <2>4 DEF FinishJob
        <3>2. \A v \in Workers : worker'[v] = "inserted" =>
                 v # w /\ worker[v] = "inserted" /\ wjob'[v] = wjob[v]
            BY <3>1 DEF TypeOK
        <3>3. \A v \in Workers \ {w} : worker[v] = "inserted" => about'[wjob[v]] = about[wjob[v]]
            BY <1>i, <3>1, ForgetEffect DEF JobsHeld, OneHolder
        <3>4. \A j \in Jobs : result'[j] = "ok" => result[j] = "ok" /\ about'[j] = about[j]
            BY <3>1, ForgetEffect
        <3>. QED  BY <1>i, <3>1, <3>2, <3>3, <3>4 DEF StoredBefore
    <2>. QED  BY <1>2, <2>1, <2>2, <2>3, <2>4 DEF WorkerStep
<1>3. ASSUME ServerStep
      PROVE  StoredBefore'
    <2>1. CASE CancelContext \/ CloseListener \/ ShutdownDone
        <3>1. UNCHANGED <<worker, wjob, about, result, stored>>
            BY <2>1 DEF CancelContext, CloseListener, ShutdownDone
        <3>. QED  BY <1>i, <3>1 DEF StoredBefore
    <2>2. CASE DrainQueuedJob
        <3>1. Forget(Head(queue)) /\ UNCHANGED <<worker, stored>>
            BY <2>2 DEF DrainQueuedJob
        <3>2. \A w \in Workers : worker[w] = "gone"
            BY <2>2 DEF DrainQueuedJob, EverybodyGone, WorkersGone
        <3>. QED  BY <1>i, <3>1, <3>2, ForgetEffect DEF StoredBefore
    <2>3. CASE Restart
        BY <2>3 DEF Restart, Fresh, StoredBefore
    <2>. QED  BY <1>3, <2>1, <2>2, <2>3 DEF ServerStep
<1>4. CASE UNCHANGED vars
    BY <1>i, <1>4 DEF vars, StoredBefore
<1>. QED  BY <1>1, <1>2, <1>3, <1>4 DEF Next

LEMMA InitPromise == Init => PromiseInv
BY IngressAssumption
DEF Init, PromiseInv, Transactions, JobsAbout, OneHolder, StoredBefore, SubmittingStates

\* Every step of the ingress is a step of the handover or leaves it alone.
LEMMA HandoverStep ==
    ASSUME TypeOK, JobsHeld, PromiseInv, [Next]_vars
    PROVE  [Handover!Next]_<<mail, stored>>
<1>. USE DEF sessionVars, workerVars, jobVars, senderVars
<1>n. NoMessage \notin Messages
    BY IngressAssumption
<1>r. ASSUME NEW s \in Sessions, Refuse(s), UNCHANGED stored
      PROVE  [Handover!Next]_<<mail, stored>>
    <2>1. CASE cur[s] \in Messages /\ mail[cur[s]] = "held"
        <3>1. Handover!Bounce(cur[s])
            BY <1>r, <2>1 DEF Refuse, Handover!Bounce
        <3>. QED  BY <2>1, <3>1 DEF Handover!Next
    <2>2. CASE ~(cur[s] \in Messages /\ mail[cur[s]] = "held")
        <3>1. mail' = mail
            BY <1>r, <2>2 DEF Refuse, TypeOK
        <3>. QED  BY <1>r, <3>1
    <2>. QED  BY <2>1, <2>2
<1>1. ASSUME NEW s \in Sessions, SessionStep(s)
      PROVE  [Handover!Next]_<<mail, stored>>
    <2>1. CASE HandleRCPT(s) \/ Oversized(s)
        <3>1. UNCHANGED stored /\ (UNCHANGED mail \/ Refuse(s))
            BY <2>1 DEF HandleRCPT, Oversized
        <3>. QED  BY <1>r, <3>1
    <2>2. CASE ReceiveResult(s)
        <3>1. /\ session[s] = "waiting" /\ UNCHANGED stored
              /\ Reply(s, IF result[sjob[s]] = "ok" THEN "given" ELSE mail[cur[s]])
            BY <2>2 DEF ReceiveResult
        <3>2. CASE UNCHANGED mail
            BY <3>1, <3>2
        <3>3. CASE result[sjob[s]] = "ok" /\ mail' = [mail EXCEPT ![cur[s]] = "given"]
            <4>1. cur[s] \in Messages /\ mail[cur[s]] = "held"
                BY <3>1 DEF PromiseInv, Transactions, SubmittingStates
            <4>2. sjob[s] \in Jobs /\ about[sjob[s]] = cur[s]
                BY <3>1 DEF PromiseInv, JobsAbout, JobsHeld, SubmittingStates
            <4>3. stored[cur[s]] > 0
                BY <3>3, <4>2 DEF PromiseInv, StoredBefore
            <4>4. Handover!Accept(cur[s])
                BY <3>1, <3>3, <4>1, <4>3 DEF Handover!Accept
            <4>. QED  BY <4>1, <4>4 DEF Handover!Next
        <3>4. CASE mail' = [mail EXCEPT ![cur[s]] = mail[cur[s]]]
            <4>1. mail' = mail
                BY <3>4 DEF TypeOK
            <4>. QED  BY <3>1, <4>1
        <3>. QED  BY <3>1, <3>2, <3>3, <3>4 DEF Reply
    <2>3. CASE \/ Connect(s) \/ Hangup(s) \/ (\E m \in Messages : HandleMAIL(s, m))
               \/ ResetTransaction(s) \/ ReserveSlot(s) \/ ReadData(s) \/ ReadDataFails(s)
               \/ SubmitJob(s) \/ SubmitCancelled(s) \/ CountSubmitted(s)
               \/ DeliveryTimeout(s) \/ DeadlinePasses(s)
        BY <2>3 DEF Connect, Hangup, HandleMAIL, ResetTransaction, ReserveSlot, ReadData,
                    ReadDataFails, SubmitJob, SubmitCancelled, CountSubmitted,
                    DeliveryTimeout, DeadlinePasses
    <2>. QED  BY <1>1, <2>1, <2>2, <2>3 DEF SessionStep
<1>2. ASSUME NEW w \in Workers, WorkerStep(w)
      PROVE  [Handover!Next]_<<mail, stored>>
    <2>1. CASE InsertEmailResolved(w)
        <3>1. about[wjob[w]] \in Messages
            BY <2>1 DEF InsertEmailResolved, PromiseInv, JobsAbout, JobsHeld
        <3>. QED  BY <2>1, <3>1 DEF InsertEmailResolved, Handover!Next
    <2>2. CASE TakeJob(w) \/ WorkerStops(w) \/ CheckContext(w) \/ SendJobResult(w)
               \/ FinishJob(w)
        BY <2>2 DEF TakeJob, WorkerStops, CheckContext, SendJobResult, FinishJob
    <2>. QED  BY <1>2, <2>1, <2>2 DEF WorkerStep
<1>3. ASSUME ServerStep
      PROVE  UNCHANGED <<mail, stored>>
    BY <1>3 DEF ServerStep, CancelContext, CloseListener, DrainQueuedJob, ShutdownDone,
                Restart
<1>4. CASE UNCHANGED vars
    BY <1>4 DEF vars
<1>. QED  BY <1>1, <1>2, <1>3, <1>4 DEF Next

\* The ingress implements the handover: a sender is told 250 only for a message
\* that a row of emails holds, whatever deadlines, broken connections, shutdowns and
\* restarts come between (api/ingress/server.go:416-462, 625-691).
THEOREM PromiseKept == Spec => HandoverSpec
<1>1. Init => Handover!Init
    BY DEF Init
<1>2. SlotInv /\ PromiseInv /\ [Next]_vars => PromiseInv'
    BY TransactionStep, JobsAboutStep, OneHolderStep, StoredStep DEF SlotInv, PromiseInv
<1>3. SlotInv /\ PromiseInv /\ [Next]_vars => [Handover!Next]_<<mail, stored>>
    BY HandoverStep DEF SlotInv
<1>. QED
    BY <1>1, <1>2, <1>3, InitSlots, InitPromise, SlotStep, PTL
    DEF Spec, HandoverSpec, Handover!Spec

------------------------------------------------------------------------------
(* The counters *)

Counted == {"taken", "inserting", "inserted", "failed"}
CountedWorkers == {w \in Workers : worker[w] \in Counted}
UncountedSessions == {s \in Sessions : session[s] = "submitted"}

\* A drained server has nobody left, and nothing in the channel.
Stopped == phase = "drained" =>
              queue = <<>> /\ WorkersGone /\ \A s \in Sessions : session[s] = "none"

CountInv == SlotInv /\ CountersBalance /\ Stopped

LEMMA BalanceIs ==
    CountersBalance <=> balance = Len(queue) + Cardinality(CountedWorkers) - Cardinality(UncountedSessions)
BY DEF CountersBalance, CountedWorkers, Counted, UncountedSessions

LEMMA CountedFinite ==
    /\ IsFiniteSet(CountedWorkers) /\ Cardinality(CountedWorkers) \in Nat
    /\ IsFiniteSet(UncountedSessions) /\ Cardinality(UncountedSessions) \in Nat
<1>1. IsFiniteSet(Sessions) /\ IsFiniteSet(Workers)
    BY IngressAssumption
<1>2. UncountedSessions \subseteq Sessions /\ CountedWorkers \subseteq Workers
    BY DEF UncountedSessions, CountedWorkers
<1>. QED  BY <1>1, <1>2, FS_Subset, FS_CardinalityType

\* Nothing that is counted changes.
LEMMA SameCount ==
    ASSUME CountersBalance, UNCHANGED <<balance, CountedWorkers, UncountedSessions>>, Len(queue') = Len(queue)
    PROVE  CountersBalance'
<1>1. CountersBalance' <=> balance' = Len(queue') + Cardinality(CountedWorkers') - Cardinality(UncountedSessions')
    BY DEF CountersBalance, CountedWorkers, Counted, UncountedSessions
<1>. QED  BY <1>1, BalanceIs

\* A session counts its job after it is in the channel, maybe after a worker took it.
LEMMA SessionCounts ==
    ASSUME TypeOK, CountersBalance, NEW s \in Sessions, SessionStep(s)
    PROVE  CountersBalance'
<1>0. CountersBalance' <=> balance' = Len(queue') + Cardinality(CountedWorkers') - Cardinality(UncountedSessions')
    BY DEF CountersBalance, CountedWorkers, Counted, UncountedSessions
<1>1. worker' = worker
    BY DEF SessionStep, Connect, Hangup, HandleMAIL, HandleRCPT, ResetTransaction, ReserveSlot, ReadData, Oversized,
           ReadDataFails, SubmitJob, SubmitCancelled, CountSubmitted, ReceiveResult, DeliveryTimeout, DeadlinePasses,
           workerVars
<1>2. CountedWorkers' = CountedWorkers
    BY <1>1 DEF CountedWorkers
<1>3. Len(queue) \in Nat /\ balance \in Int /\ session \in [Sessions -> SessionStates]
    BY DEF TypeOK
<1>4. CASE SubmitJob(s)
    <2>1. /\ session[s] = "submit" /\ session' = [session EXCEPT ![s] = "submitted"] /\ balance' = balance
          /\ queue' = Append(queue, sjob[s])
        BY <1>4 DEF SubmitJob
    <2>2. Len(queue') = Len(queue) + 1
        BY <2>1 DEF TypeOK
    <2>3. s \notin UncountedSessions /\ UncountedSessions' = UncountedSessions \cup {s}
        BY <1>3, <2>1 DEF UncountedSessions
    <2>4. Cardinality(UncountedSessions') = Cardinality(UncountedSessions) + 1
        BY <2>3, CountedFinite, FS_AddElement
    <2>5. /\ balance = Len(queue) + Cardinality(CountedWorkers) - Cardinality(UncountedSessions)
          /\ Cardinality(CountedWorkers) \in Nat /\ Cardinality(UncountedSessions) \in Nat
        BY BalanceIs, CountedFinite
    <2>6. Cardinality(CountedWorkers') = Cardinality(CountedWorkers) /\ balance' = balance
        BY <1>2, <2>1
    <2>7. balance' = Len(queue') + Cardinality(CountedWorkers') - Cardinality(UncountedSessions')
        BY <1>3, <2>2, <2>4, <2>5, <2>6
    <2>. QED  BY <1>0, <2>7
<1>5. CASE CountSubmitted(s)
    <2>1. /\ session[s] = "submitted" /\ session' = [session EXCEPT ![s] = "waiting"] /\ balance' = balance + 1
          /\ queue' = queue
        BY <1>5 DEF CountSubmitted
    <2>2. s \in UncountedSessions /\ UncountedSessions' = UncountedSessions \ {s}
        BY <1>3, <2>1 DEF UncountedSessions
    <2>3. Cardinality(UncountedSessions') = Cardinality(UncountedSessions) - 1
        BY <2>2, CountedFinite, FS_RemoveElement
    <2>. QED  BY <1>0, <1>2, <1>3, <2>1, <2>3, BalanceIs, CountedFinite
<1>6. CASE ~SubmitJob(s) /\ ~CountSubmitted(s)
    <2>1. balance' = balance /\ queue' = queue
        BY <1>6 DEF SessionStep, Connect, Hangup, HandleMAIL, HandleRCPT, ResetTransaction, ReserveSlot, ReadData,
               Oversized, ReadDataFails, SubmitCancelled, ReceiveResult, DeliveryTimeout, DeadlinePasses
    <2>2. \/ session' = session
          \/ session[s] # "submitted" /\ \E to \in SessionStates \ {"submitted"} : session' = [session EXCEPT ![s] = to]
        BY <1>6 DEF SessionStep, Connect, Hangup, HandleMAIL, HandleRCPT, ResetTransaction, ReserveSlot, ReadData,
               Oversized, ReadDataFails, SubmitCancelled, ReceiveResult, Reply, DeliveryTimeout, DeadlinePasses,
               CloseSession, sessionVars, SessionStates
    <2>3. UncountedSessions' = UncountedSessions
        BY <1>3, <2>2 DEF UncountedSessions
    <2>. QED  BY <1>2, <2>1, <2>3, SameCount
<1>. QED  BY <1>4, <1>5, <1>6

\* A worker counts the outcome before it gives the slot back.
LEMMA WorkerCounts ==
    ASSUME TypeOK, CountersBalance, NEW w \in Workers, WorkerStep(w)
    PROVE  CountersBalance'
<1>0. CountersBalance' <=> balance' = Len(queue') + Cardinality(CountedWorkers') - Cardinality(UncountedSessions')
    BY DEF CountersBalance, CountedWorkers, Counted, UncountedSessions
<1>1. session' = session
    BY DEF WorkerStep, TakeJob, WorkerStops, CheckContext, InsertEmailResolved, SendJobResult, FinishJob, sessionVars
<1>2. UncountedSessions' = UncountedSessions
    BY <1>1 DEF UncountedSessions
<1>3. Len(queue) \in Nat /\ balance \in Int /\ worker \in [Workers -> WorkerStates]
    BY DEF TypeOK
<1>4. CASE TakeJob(w)
    <2>1. /\ worker[w] = "idle" /\ worker' = [worker EXCEPT ![w] = "taken"] /\ balance' = balance
          /\ queue # <<>> /\ queue' = Tail(queue)
        BY <1>4 DEF TakeJob
    <2>2. Len(queue') = Len(queue) - 1
        BY <2>1 DEF TypeOK
    <2>3. w \notin CountedWorkers /\ CountedWorkers' = CountedWorkers \cup {w}
        BY <1>3, <2>1 DEF CountedWorkers, Counted
    <2>4. Cardinality(CountedWorkers') = Cardinality(CountedWorkers) + 1
        BY <2>3, CountedFinite, FS_AddElement
    <2>. QED  BY <1>0, <1>2, <1>3, <2>1, <2>2, <2>4, BalanceIs, CountedFinite
<1>5. CASE SendJobResult(w)
    <2>1. /\ worker[w] \in Counted /\ worker' = [worker EXCEPT ![w] = "answered"] /\ balance' = balance - 1
          /\ queue' = queue
        BY <1>5 DEF SendJobResult, Counted
    <2>2. w \in CountedWorkers /\ CountedWorkers' = CountedWorkers \ {w}
        BY <1>3, <2>1 DEF CountedWorkers, Counted
    <2>3. Cardinality(CountedWorkers') = Cardinality(CountedWorkers) - 1
        BY <2>2, CountedFinite, FS_RemoveElement
    <2>. QED  BY <1>0, <1>2, <1>3, <2>1, <2>3, BalanceIs, CountedFinite
<1>6. CASE WorkerStops(w) \/ CheckContext(w) \/ InsertEmailResolved(w) \/ FinishJob(w)
    <2>1. balance' = balance /\ queue' = queue
        BY <1>6 DEF WorkerStops, CheckContext, InsertEmailResolved, FinishJob
    <2>2. \/ worker[w] \notin Counted /\ \E to \in WorkerStates \ Counted : worker' = [worker EXCEPT ![w] = to]
          \/ worker[w] \in Counted /\ \E to \in Counted : worker' = [worker EXCEPT ![w] = to]
        BY <1>6 DEF WorkerStops, CheckContext, InsertEmailResolved, FinishJob, Counted, WorkerStates
    <2>3. CountedWorkers' = CountedWorkers
        BY <1>3, <2>2 DEF CountedWorkers
    <2>. QED  BY <1>2, <2>1, <2>3, SameCount
<1>. QED  BY <1>4, <1>5, <1>6 DEF WorkerStep

LEMMA ServerCounts ==
    ASSUME TypeOK, CountersBalance, ServerStep
    PROVE  CountersBalance'
<1>0. CountersBalance' <=> balance' = Len(queue') + Cardinality(CountedWorkers') - Cardinality(UncountedSessions')
    BY DEF CountersBalance, CountedWorkers, Counted, UncountedSessions
<1>1. CASE DrainQueuedJob
    <2>1. /\ queue # <<>> /\ queue' = Tail(queue) /\ balance' = balance - 1 /\ UNCHANGED <<worker, session>>
        BY <1>1 DEF DrainQueuedJob, workerVars, sessionVars
    <2>2. Len(queue') = Len(queue) - 1 /\ Len(queue) \in Nat /\ balance \in Int
        BY <2>1 DEF TypeOK
    <2>3. UNCHANGED <<CountedWorkers, UncountedSessions>>
        BY <2>1 DEF CountedWorkers, UncountedSessions
    <2>. QED  BY <1>0, <2>1, <2>2, <2>3, BalanceIs, CountedFinite
<1>2. CASE CancelContext \/ CloseListener \/ ShutdownDone
    <2>1. UNCHANGED <<balance, queue, CountedWorkers, UncountedSessions>>
        BY <1>2 DEF CancelContext, CloseListener, ShutdownDone, workerVars, sessionVars, CountedWorkers, UncountedSessions
    <2>. QED  BY <2>1, SameCount
<1>3. CASE Restart
    <2>1. CountedWorkers' = {} /\ UncountedSessions' = {} /\ Len(queue') = 0 /\ balance' = 0
        BY <1>3 DEF Restart, Fresh, CountedWorkers, Counted, UncountedSessions
    <2>. QED  BY <1>0, <2>1, FS_EmptySet
<1>. QED  BY <1>1, <1>2, <1>3 DEF ServerStep

\* Once the server has drained only a restart is possible.
LEMMA StoppedStep ==
    ASSUME TypeOK, Stopped, [Next]_vars
    PROVE  Stopped'
<1>1. CASE phase = "drained"
    <2>1. queue = <<>> /\ (\A w \in Workers : worker[w] = "gone") /\ \A s \in Sessions : session[s] = "none"
        BY <1>1 DEF Stopped, WorkersGone
    <2>2. ASSUME NEW s \in Sessions, SessionStep(s) PROVE FALSE
        BY <1>1, <2>1, <2>2 DEF SessionStep, Connect, Hangup, HandleMAIL, HandleRCPT, ResetTransaction, ReserveSlot,
               ReadData, Oversized, ReadDataFails, SubmitJob, SubmitCancelled, CountSubmitted, ReceiveResult,
               DeliveryTimeout, DeadlinePasses
    <2>3. ASSUME NEW w \in Workers, WorkerStep(w) PROVE FALSE
        BY <2>1, <2>3 DEF WorkerStep, TakeJob, WorkerStops, CheckContext, InsertEmailResolved, SendJobResult, FinishJob
    <2>4. CASE ServerStep
        <3>1. phase' = "running"
            BY <1>1, <2>4 DEF ServerStep, CancelContext, CloseListener, DrainQueuedJob, ShutdownDone, EverybodyGone,
                              Restart, Fresh
        <3>. QED  BY <3>1 DEF Stopped
    <2>5. CASE UNCHANGED vars
        BY <2>5 DEF vars, sessionVars, workerVars, Stopped, WorkersGone
    <2>. QED  BY <2>2, <2>3, <2>4, <2>5 DEF Next
<1>2. CASE phase # "drained"
    <2>1. CASE ShutdownDone
        BY <2>1 DEF ShutdownDone, EverybodyGone, WorkersGone, sessionVars, workerVars, Stopped
    <2>2. CASE ~ShutdownDone
        <3>1. phase' # "drained"
            <4>1. ASSUME NEW s \in Sessions, SessionStep(s) PROVE phase' = phase
                BY <4>1 DEF SessionStep, Connect, Hangup, HandleMAIL, HandleRCPT, ResetTransaction, ReserveSlot,
                       ReadData, Oversized, ReadDataFails, SubmitJob, SubmitCancelled, CountSubmitted, ReceiveResult,
                       DeliveryTimeout, DeadlinePasses
            <4>2. ASSUME NEW w \in Workers, WorkerStep(w) PROVE phase' = phase
                BY <4>2 DEF WorkerStep, TakeJob, WorkerStops, CheckContext, InsertEmailResolved, SendJobResult, FinishJob
            <4>3. CASE ServerStep
                BY <1>2, <2>2, <4>3 DEF ServerStep, CancelContext, CloseListener, DrainQueuedJob, Restart, Fresh
            <4>4. CASE UNCHANGED vars
                BY <1>2, <4>4 DEF vars
            <4>. QED  BY <1>2, <4>1, <4>2, <4>3, <4>4 DEF Next
        <3>. QED  BY <3>1 DEF Stopped
    <2>. QED  BY <2>1, <2>2
<1>. QED  BY <1>1, <1>2

LEMMA CountStep == CountInv /\ [Next]_vars => CountInv'
<1>. SUFFICES ASSUME CountInv, [Next]_vars PROVE CountersBalance' /\ Stopped'
    BY SlotStep DEF CountInv
<1>1. TypeOK /\ CountersBalance /\ Stopped
    BY DEF CountInv, SlotInv
<1>2. CASE UNCHANGED vars
    <2>1. UNCHANGED <<balance, queue, CountedWorkers, UncountedSessions>>
        BY <1>2 DEF vars, sessionVars, workerVars, CountedWorkers, UncountedSessions
    <2>. QED  BY <1>1, <2>1, SameCount, StoppedStep
<1>3. CASE Next
    BY <1>1, <1>3, SessionCounts, WorkerCounts, ServerCounts, StoppedStep DEF Next
<1>. QED  BY <1>2, <1>3

\* The counters an operator reads agree with what is under way, and nothing is left once
\* the server has drained (api/ingress/server.go:265-304, 670), for any number of sessions
\* and workers and any number of restarts.
THEOREM JobsAlwaysAccounted == Spec => []JobsAccounted
<1>1. Init => CountInv
    <2>. SUFFICES ASSUME Init PROVE CountersBalance /\ Stopped
        BY InitSlots DEF CountInv
    <2>1. CountedWorkers = {} /\ UncountedSessions = {} /\ Len(queue) = 0 /\ balance = 0 /\ phase = "running"
        BY DEF Init, CountedWorkers, Counted, UncountedSessions
    <2>. QED  BY <2>1, FS_EmptySet, BalanceIs DEF Stopped
<1>2. CountInv => JobsAccounted
    <2>. SUFFICES ASSUME CountInv, phase = "drained" PROVE slots = QueueSize /\ queue = <<>> /\ balance = 0
        BY DEF JobsAccounted, DrainedIsEmpty, CountInv
    <2>1. queue = <<>> /\ (\A w \in Workers : worker[w] = "gone") /\ \A s \in Sessions : session[s] = "none"
        BY DEF CountInv, Stopped, WorkersGone
    <2>2. HoldingSessions = {} /\ BusyWorkers = {} /\ CountedWorkers = {} /\ UncountedSessions = {} /\ Len(queue) = 0
        BY <2>1 DEF HoldingSessions, BusyWorkers, CountedWorkers, Counted, UncountedSessions
    <2>3. slots \in Nat /\ QueueSize \in Nat
        BY IngressAssumption DEF CountInv, SlotInv, TypeOK
    <2>4. slots = QueueSize
        BY <2>2, <2>3, FS_EmptySet DEF CountInv, SlotInv, SlotsConserved
    <2>5. balance = 0
        BY <2>2, FS_EmptySet, BalanceIs DEF CountInv
    <2>. QED  BY <2>1, <2>4, <2>5
<1>. QED  BY <1>1, <1>2, CountStep, PTL DEF Spec

==============================================================================
