------------------------- MODULE UsageRecorderProofs -------------------------
(***************************************************************************)
(* Theorems about UsageRecorder, for any number of requests and tokens,    *)
(* any capacity and batch, and any number of lost answers.                 *)
(***************************************************************************)
EXTENDS UsageRecorder, FiniteSetTheorems, SequenceTheorems, TLAPS

------------------------------------------------------------------------------
(* Sequences: what the queue and the batch hold *)

Members(s) == {s[i] : i \in DOMAIN s}

\* An event that is appended is held, with all that was held before.
LEMMA AppendedMembers ==
    ASSUME NEW S, NEW s \in Seq(S), NEW x \in S
    PROVE  /\ Append(s, x) \in Seq(S)
           /\ Len(Append(s, x)) = Len(s) + 1
           /\ Members(Append(s, x)) = Members(s) \cup {x}
<1>1. /\ Append(s, x) \in Seq(S)
      /\ Len(Append(s, x)) = Len(s) + 1
      /\ \A i \in 1..Len(s) : Append(s, x)[i] = s[i]
      /\ Append(s, x)[Len(s) + 1] = x
    OBVIOUS
<1>2. DOMAIN s = 1..Len(s) /\ DOMAIN Append(s, x) = 1..(Len(s) + 1) /\ Len(s) \in Nat
    BY <1>1
<1>3. 1..(Len(s) + 1) = (1..Len(s)) \cup {Len(s) + 1}
    BY <1>2
<1>4. ASSUME NEW y PROVE y \in Members(Append(s, x)) <=> y \in Members(s) \cup {x}
    BY <1>1, <1>2, <1>3 DEF Members
<1>. QED  BY <1>1, <1>4

\* Taking the head loses nothing else.
LEMMA TailMembers ==
    ASSUME NEW S, NEW s \in Seq(S), s # <<>>
    PROVE  /\ Tail(s) \in Seq(S) /\ Head(s) \in S
           /\ Len(Tail(s)) = Len(s) - 1
           /\ Members(s) = Members(Tail(s)) \cup {Head(s)}
<1>1. /\ Tail(s) \in Seq(S) /\ Head(s) \in S
      /\ Len(Tail(s)) = Len(s) - 1 /\ Len(s) \in Nat /\ Len(s) >= 1
      /\ Head(s) = s[1]
      /\ \A i \in 1..Len(Tail(s)) : Tail(s)[i] = s[i + 1]
    OBVIOUS
<1>2. DOMAIN s = 1..Len(s) /\ DOMAIN Tail(s) = 1..(Len(s) - 1)
    BY <1>1
<1>3. ASSUME NEW y \in Members(s) PROVE y \in Members(Tail(s)) \cup {Head(s)}
    <2>1. PICK i \in 1..Len(s) : y = s[i]
        BY <1>2 DEF Members
    <2>2. CASE i = 1
        BY <2>1, <2>2, <1>1
    <2>3. CASE i # 1
        <3>1. i - 1 \in 1..(Len(s) - 1) /\ Tail(s)[i - 1] = s[i]
            BY <2>1, <2>3, <1>1
        <3>. QED  BY <3>1, <2>1, <1>2 DEF Members
    <2>. QED  BY <2>2, <2>3
<1>4. ASSUME NEW y \in Members(Tail(s)) \cup {Head(s)} PROVE y \in Members(s)
    <2>1. CASE y = Head(s)
        BY <2>1, <1>1, <1>2 DEF Members
    <2>2. CASE y \in Members(Tail(s))
        <3>1. PICK i \in 1..(Len(s) - 1) : y = Tail(s)[i]
            BY <2>2, <1>2 DEF Members
        <3>2. i + 1 \in 1..Len(s) /\ y = s[i + 1]
            BY <3>1, <1>1
        <3>. QED  BY <3>2, <1>2 DEF Members
    <2>. QED  BY <2>1, <2>2
<1>. QED  BY <1>1, <1>3, <1>4

------------------------------------------------------------------------------
(* Types and bounds *)

\* What a batch writes has the types of the database.
LEMMA WriteBatchTypes ==
    ASSUME TypeOK, WriteBatch
    PROVE  rows' \in [Requests -> Nat] /\ usage' \in [Tokens -> Nat]
<1>1. ASSUME NEW t \in Tokens PROVE Cardinality(Batch \cap EventsOf(t)) \in Nat
    <2>1. Batch \cap EventsOf(t) \subseteq Requests
        BY DEF EventsOf
    <2>. QED  BY <2>1, RecorderAssumption, FS_Subset, FS_CardinalityType
<1>2. ASSUME NEW r \in Requests
      PROVE  (IF r \in Batch /\ token[TokenOf[r]] # "deleted" THEN rows[r] + 1 ELSE rows[r]) \in Nat
    BY DEF TypeOK
<1>3. ASSUME NEW t \in Tokens
      PROVE  (IF t \in Unlimited /\ token[t] = "active"
              THEN usage[t] + Cardinality(Batch \cap EventsOf(t)) ELSE usage[t]) \in Nat
    <2>1. usage[t] \in Nat
        BY DEF TypeOK
    <2>2. Cardinality(Batch \cap EventsOf(t)) \in Nat
        BY <1>1
    <2>3. usage[t] + Cardinality(Batch \cap EventsOf(t)) \in Nat
        BY <2>1, <2>2
    <2>. QED  BY <2>1, <2>3
<1>4. rows' \in [Requests -> Nat]
    BY <1>2 DEF WriteBatch
<1>5. usage' \in [Tokens -> Nat]
    BY <1>3 DEF WriteBatch
<1>. QED  BY <1>4, <1>5

\* A request keeps the types.
LEMMA RequestTypes ==
    ASSUME TypeOK, NEW r \in Requests, BeginRequest(r) \/ RequestStep(r)
    PROVE  TypeOK'
<1>. USE RecorderAssumption DEF TypeOK, stats, database, batchVars
<1>1. CASE BeginRequest(r)
    BY <1>1 DEF BeginRequest, RequestStates
<1>2. CASE Enqueue(r)
    <2>1. queue' \in Seq(Requests) /\ Len(queue') <= QueueCap
        BY <1>2, AppendedMembers DEF Enqueue
    <2>. QED  BY <1>2, <2>1 DEF Enqueue, RequestStates
<1>3. CASE CountEnqueued(r)
    BY <1>3 DEF CountEnqueued, RequestStates
<1>4. CASE Drop(r)
    BY <1>4 DEF Drop, RequestStates
<1>5. CASE FallbackStores(r)
    BY <1>5 DEF FallbackStores, RequestStates
<1>6. CASE FallbackFails(r)
    BY <1>6 DEF FallbackFails, RequestStates
<1>. QED  BY <1>1, <1>2, <1>3, <1>4, <1>5, <1>6 DEF RequestStep

\* A step the recorder owes belongs to the place where it is: the depth to a receive,
\* the counter and the emptying of the batch to a write.
BookAtWork ==
    /\ book = "depth" => recorder \in {"select", "drain"}
    /\ book \in {"count", "empty"} => recorder \in {"flush", "drainFull", "drainLast"}

Types == TypeOK /\ BookAtWork

\* Only the recorder touches what it owes.
LEMMA BookUntouched ==
    ASSUME Next, ~RecorderStep
    PROVE  UNCHANGED <<book, recorder, pending, pendingDepth>>
<1>. USE DEF batchVars
<1>1. CASE \E r \in Requests : BeginRequest(r) \/ RequestStep(r)
    BY <1>1 DEF BeginRequest, RequestStep, Enqueue, CountEnqueued, Drop, FallbackStores, FallbackFails
<1>2. CASE \E t \in Tokens : DisableToken(t) \/ EnableToken(t) \/ DeleteToken(t)
    BY <1>2 DEF DisableToken, EnableToken, DeleteToken, ChangeToken
<1>3. CASE RetryDue \/ StopProcess \/ CloseRecorder \/ ForceExit \/ Exit \/ Ended
    BY <1>3 DEF RetryDue, StopProcess, CloseRecorder, ForceExit, Exit, Ended, vars
<1>. QED  BY <1>1, <1>2, <1>3 DEF Next

\* The recorder keeps the types, and its batch never grows past its size.
LEMMA RecorderTypes ==
    ASSUME Types, RecorderStep
    PROVE  Types'
<1>. USE RecorderAssumption DEF Types, TypeOK, stats, database, batchVars
<1>1. ASSUME queue # <<>>, Len(pending) < BatchSize,
             pending' = Append(pending, Head(queue)), queue' = Tail(queue)
      PROVE  /\ queue' \in Seq(Requests) /\ Len(queue') <= QueueCap
             /\ pending' \in Seq(Requests) /\ Len(pending') <= BatchSize
    BY <1>1, AppendedMembers, TailMembers
<1>2. <<>> \in Seq(Requests) /\ Len(<<>>) = 0 /\ Len(pending) \in Nat /\ Len(queue) \in Nat
    OBVIOUS
<1>b. BookAtWork'
    BY DEF BookAtWork, RecorderStep, Receive, DrainReceive, TakeEvent, AtSelect, InDrain, StoreDepth,
           FlushTick, FlushStores, CountFlushed, EmptyBatch, FlushFails, FlushUnanswered, Flushing,
           KeepBatch, NoticeStop, DrainFlush, BookStates
<1>3. CASE Receive \/ DrainReceive
    BY <1>b, <1>1, <1>3 DEF Receive, DrainReceive, TakeEvent, BookStates
<1>d. CASE StoreDepth
    <2>1. recorder' \in RecorderStates
        BY <1>d DEF StoreDepth, RecorderStates
    <2>. QED  BY <1>b, <1>2, <1>d, <2>1 DEF StoreDepth, BookStates
<1>4. CASE FlushTick
    BY <1>b, <1>4 DEF FlushTick, RecorderStates
<1>5. CASE FlushStores
    <2>1. rows' \in [Requests -> Nat] /\ usage' \in [Tokens -> Nat]
        BY <1>5, WriteBatchTypes DEF FlushStores
    <2>2. UNCHANGED <<token, disturbed>>
        BY <1>5 DEF FlushStores, WriteBatch
    <2>. QED  BY <1>b, <1>5, <2>1, <2>2 DEF FlushStores, BookStates
<1>c. CASE CountFlushed
    BY <1>b, <1>2, <1>c DEF CountFlushed, BookStates
<1>e. CASE EmptyBatch
    <2>0. recorder \in {"flush", "drainFull", "drainLast"}
        BY <1>e DEF EmptyBatch, BookAtWork
    <2>1. recorder' \in RecorderStates
        BY <1>e, <2>0 DEF EmptyBatch, AfterSuccess, RecorderStates
    <2>2. pending' \in Seq(Requests) /\ Len(pending') <= BatchSize
        BY <1>2, <1>e DEF EmptyBatch
    <2>. QED  BY <1>b, <1>e, <2>1, <2>2 DEF EmptyBatch, BookStates
<1>6. ASSUME Flushing, KeepBatch PROVE recorder' \in RecorderStates /\ failed' \in Nat
    <2>1. recorder' \in RecorderStates
        BY <1>6 DEF KeepBatch, Flushing, AfterFailure, RecorderStates
    <2>2. failed' \in Nat
        BY <1>2, <1>6 DEF KeepBatch
    <2>. QED  BY <2>1, <2>2
<1>7. CASE FlushFails
    BY <1>b, <1>6, <1>7 DEF FlushFails, KeepBatch
<1>8. CASE FlushUnanswered
    <2>1. unknown' \in 0..MaxUnknown
        BY <1>8 DEF FlushUnanswered
    <2>2. rows' \in [Requests -> Nat] /\ usage' \in [Tokens -> Nat]
        BY <1>8, WriteBatchTypes DEF FlushUnanswered
    <2>3. UNCHANGED <<token, disturbed>>
        BY <1>8 DEF FlushUnanswered, WriteBatch
    <2>. QED  BY <1>b, <1>6, <1>8, <2>1, <2>2, <2>3 DEF FlushUnanswered, KeepBatch
<1>9. CASE NoticeStop
    BY <1>b, <1>9 DEF NoticeStop, RecorderStates
<1>11. CASE DrainFlush
    BY <1>b, <1>11 DEF DrainFlush, RecorderStates
<1>. QED  BY <1>3, <1>d, <1>4, <1>5, <1>c, <1>e, <1>7, <1>8, <1>9, <1>11, Zenon DEF RecorderStep

\* Every other step keeps the types.
LEMMA OtherTypes ==
    ASSUME TypeOK, [Next]_vars, ~RecorderStep
    PROVE  TypeOK'
<1>. USE DEF TypeOK, stats, database, batchVars
<1>1. CASE \E r \in Requests : BeginRequest(r) \/ RequestStep(r)
    BY <1>1, RequestTypes
<1>3. CASE RetryDue
    BY <1>3 DEF RetryDue
<1>4. ASSUME NEW t \in Tokens, DisableToken(t) \/ EnableToken(t) \/ DeleteToken(t)
      PROVE  TypeOK'
    <2>1. CASE DisableToken(t) \/ EnableToken(t)
        BY <2>1, <1>4 DEF DisableToken, EnableToken, ChangeToken
    <2>2. CASE DeleteToken(t)
        <3>1. rows' \in [Requests -> Nat] /\ usage' \in [Tokens -> Nat]
            BY <2>2 DEF DeleteToken
        <3>. QED  BY <3>1, <2>2, <1>4 DEF DeleteToken, ChangeToken
    <2>. QED  BY <2>1, <2>2, <1>4
<1>5. CASE StopProcess \/ CloseRecorder \/ ForceExit \/ Exit
    BY <1>5 DEF StopProcess, CloseRecorder, ForceExit, Exit, ProcessStates
<1>6. CASE Ended \/ UNCHANGED vars
    BY <1>6 DEF Ended, vars
<1>. QED  BY <1>1, <1>3, <1>4, <1>5, <1>6 DEF Next

LEMMA TypeStep ==
    ASSUME Types, [Next]_vars
    PROVE  Types'
<1>1. CASE RecorderStep
    BY <1>1, RecorderTypes
<1>2. CASE ~RecorderStep
    <2>1. TypeOK'
        BY <1>2, OtherTypes DEF Types
    <2>2. UNCHANGED <<book, recorder>>
        BY <1>2, BookUntouched DEF vars, batchVars
    <2>. QED  BY <2>1, <2>2 DEF Types, BookAtWork
<1>. QED  BY <1>1, <1>2

LEMMA TypeInit == Init => Types
<1>. SUFFICES ASSUME Init PROVE Types
    OBVIOUS
<1>1. <<>> \in Seq(Requests) /\ Len(<<>>) = 0
    OBVIOUS
<1>2. 0 <= QueueCap /\ 0 <= BatchSize /\ 0 \in 0..MaxUnknown
    BY RecorderAssumption
<1>3. /\ queue \in Seq(Requests) /\ Len(queue) <= QueueCap
      /\ pending \in Seq(Requests) /\ Len(pending) <= BatchSize
      /\ unknown \in 0..MaxUnknown
    BY <1>1, <1>2 DEF Init
<1>4. /\ request \in [Requests -> RequestStates]
      /\ rows \in [Requests -> Nat]
      /\ usage \in [Tokens -> Nat]
      /\ token \in [Tokens -> {"active", "revoked", "deleted"}]
    BY DEF Init, RequestStates
<1>5. /\ recorder \in RecorderStates /\ waiting \in BOOLEAN
      /\ pendingDepth \in Nat /\ book = "none" /\ book \in BookStates
      /\ enqueued \in Nat /\ flushed \in Nat /\ failed \in Nat
      /\ dropped \subseteq Requests /\ disturbed \subseteq Tokens
      /\ process \in ProcessStates
    BY DEF Init, RecorderStates, BookStates, ProcessStates
<1>. QED  BY <1>3, <1>4, <1>5 DEF Types, TypeOK, BookAtWork

\* The recorder works within its bounds: neither the queue nor the batch grows past
\* its capacity, however long the database refuses (the nil channel of run,
\* api/middleware/observability.go:191-195).
THEOREM TypeCorrect == Spec => []TypeOK
<1>1. Types /\ [Next]_vars => Types'
    BY TypeStep
<1>2. Types => TypeOK
    BY DEF Types
<1>. QED  BY TypeInit, <1>1, <1>2, PTL DEF Spec

------------------------------------------------------------------------------
(* The figures of Stats *)

SentOf == {r \in Requests : request[r] = "sent"}

\* When the recorder drains, no request can still enqueue; its last batch has
\* nothing behind it; and nothing is counted as failed before it is done.
Quiet ==
    /\ recorder \in {"drain", "drainFull", "drainLast", "done"} => process \in {"closing", "exited"}
    /\ process \in {"closing", "exited"} => Answered
    /\ recorder = "drainLast" => queue = <<>>
    /\ recorder # "done" => failed = 0

\* What of the batch is not yet counted as flushed.
Unflushed == IF book = "empty" THEN 0 ELSE Len(pending)

\* At every moment the figures add up but for those a request or the recorder owes.
FiguresAgree ==
    /\ enqueued + Uncounted =
           flushed + (IF recorder = "done" THEN failed ELSE Len(queue) + Unflushed)
    /\ book # "depth" => pendingDepth = Len(pending)

StatsInv == Types /\ Quiet /\ FiguresAgree

\* A request that takes a step was not answered, so the recorder does not drain.
LEMMA QuietRequest ==
    ASSUME TypeOK, Quiet, NEW r \in Requests, BeginRequest(r) \/ RequestStep(r)
    PROVE  Quiet' /\ recorder \in {"select", "flush"} /\ recorder' = recorder
<1>1. process \notin {"closing", "exited"} /\ process' = process
    <2>1. CASE BeginRequest(r)
        BY <2>1 DEF BeginRequest
    <2>2. CASE RequestStep(r)
        <3>1. request[r] \in {"active", "sent", "fallback"}
            BY <2>2 DEF RequestStep, Enqueue, CountEnqueued, Drop, FallbackStores, FallbackFails
        <3>2. process' = process
            BY <2>2 DEF RequestStep, Enqueue, CountEnqueued, Drop, FallbackStores, FallbackFails
        <3>. QED  BY <3>1, <3>2 DEF Quiet, Answered
    <2>. QED  BY <2>1, <2>2
<1>2. recorder' = recorder /\ failed' = failed
    BY DEF BeginRequest, RequestStep, Enqueue, CountEnqueued, Drop, FallbackStores,
           FallbackFails, stats
<1>3. recorder \in {"select", "flush"} /\ failed = 0
    BY <1>1 DEF Quiet, TypeOK, RecorderStates
<1>. QED  BY <1>1, <1>2, <1>3 DEF Quiet

\* A step of the recorder leaves the requests alone, and drains in order.
LEMMA QuietRecorder ==
    ASSUME Types, Quiet, RecorderStep
    PROVE  Quiet'
<1>. USE DEF stats, database, batchVars
<1>1. request' = request /\ process' = process
    BY DEF RecorderStep, Receive, TakeEvent, StoreDepth, FlushTick, FlushStores, CountFlushed,
           EmptyBatch, FlushFails, FlushUnanswered, KeepBatch, NoticeStop, DrainReceive, DrainFlush
<1>2. Answered' <=> Answered
    BY <1>1 DEF Answered
<1>3. CASE FlushTick \/ NoticeStop \/ DrainFlush
    BY <1>1, <1>2, <1>3 DEF Quiet, FlushTick, NoticeStop, AtSelect, DrainFlush, InDrain
<1>d. CASE Receive \/ DrainReceive \/ StoreDepth
    BY <1>1, <1>2, <1>d DEF Quiet, Receive, DrainReceive, TakeEvent, AtSelect, InDrain, StoreDepth,
                            Types, BookAtWork
<1>4. CASE FlushStores \/ CountFlushed
    BY <1>1, <1>2, <1>4 DEF Quiet, FlushStores, CountFlushed
<1>e. CASE EmptyBatch
    BY <1>1, <1>2, <1>e DEF Quiet, EmptyBatch, AfterSuccess, Types, BookAtWork
<1>5. CASE FlushFails \/ FlushUnanswered
    BY <1>1, <1>2, <1>5 DEF Quiet, FlushFails, FlushUnanswered, KeepBatch, Flushing, AfterFailure
<1>. QED  BY <1>3, <1>d, <1>4, <1>e, <1>5 DEF RecorderStep

\* A step of the rest of the program.
OtherStep ==
    \/ RetryDue
    \/ \E t \in Tokens : DisableToken(t) \/ EnableToken(t) \/ DeleteToken(t)
    \/ StopProcess \/ CloseRecorder \/ ForceExit \/ Exit
    \/ Ended
    \/ UNCHANGED vars

\* It changes nothing the figures are made of.
LEMMA OtherUnchanged ==
    ASSUME OtherStep
    PROVE  UNCHANGED <<request, queue, pending, pendingDepth, book, recorder, enqueued, flushed, failed>>
<1>1. CASE \E t \in Tokens : DisableToken(t) \/ EnableToken(t) \/ DeleteToken(t)
    BY <1>1 DEF DisableToken, EnableToken, DeleteToken, ChangeToken, stats, batchVars
<1>. QED  BY <1>1 DEF OtherStep, RetryDue, StopProcess, CloseRecorder, ForceExit, Exit, Ended,
                      vars, stats, batchVars

LEMMA QuietOther ==
    ASSUME TypeOK, Quiet, OtherStep
    PROVE  Quiet'
<1>1. UNCHANGED <<request, queue, pending, recorder, enqueued, flushed, failed>>
    BY OtherUnchanged
<1>2. Answered' <=> Answered
    BY <1>1 DEF Answered
<1>3. CASE process' = process
    BY <1>1, <1>2, <1>3 DEF Quiet
<1>4. CASE StopProcess \/ CloseRecorder \/ ForceExit \/ Exit
    BY <1>1, <1>2, <1>4 DEF Quiet, StopProcess, CloseRecorder, ForceExit, Exit
<1>5. CASE \E t \in Tokens : DisableToken(t) \/ EnableToken(t) \/ DeleteToken(t)
    <2>1. process' = process
        BY <1>5 DEF DisableToken, EnableToken, DeleteToken, ChangeToken
    <2>. QED  BY <1>3, <2>1
<1>. QED  BY <1>3, <1>4, <1>5 DEF OtherStep, RetryDue, Ended, vars

\* A request moves its event from the hand of the middleware to the queue, and the
\* counter follows.
LEMMA RequestAdds ==
    ASSUME StatsInv, NEW r \in Requests, BeginRequest(r) \/ RequestStep(r)
    PROVE  FiguresAgree'
<1>. USE DEF StatsInv, Types, stats, database, batchVars
<1>1. recorder \in {"select", "flush"} /\ recorder' = recorder
    BY QuietRequest
<1>b. UNCHANGED <<pending, pendingDepth, book>>
    BY DEF BeginRequest, RequestStep, Enqueue, CountEnqueued, Drop, FallbackStores, FallbackFails
<1>u. Unflushed' = Unflushed /\ Unflushed \in Nat
    BY <1>b DEF Unflushed, TypeOK
<1>2. IsFiniteSet(SentOf)
    BY RecorderAssumption, FS_Subset DEF SentOf
<1>3. /\ Cardinality(SentOf) \in Nat
      /\ r \notin SentOf => Cardinality(SentOf \cup {r}) = Cardinality(SentOf) + 1
      /\ r \in SentOf => Cardinality(SentOf \ {r}) = Cardinality(SentOf) - 1
    BY <1>2, FS_CardinalityType, FS_AddElement, FS_RemoveElement
<1>4. Uncounted = Cardinality(SentOf) /\ Uncounted' = Cardinality(SentOf')
    BY DEF Uncounted, SentOf
<1>5. enqueued + Cardinality(SentOf) = flushed + Len(queue) + Unflushed
    BY <1>1, <1>4, <1>u DEF FiguresAgree, TypeOK
<1>6. SUFFICES enqueued' + Cardinality(SentOf') = flushed' + (Len(queue') + Unflushed)
    BY <1>1, <1>4, <1>b, <1>u DEF FiguresAgree
<1>7. CASE Enqueue(r)
    <2>1. r \notin SentOf /\ SentOf' = SentOf \cup {r}
        BY <1>7 DEF Enqueue, SentOf, TypeOK
    <2>2. Len(queue') = Len(queue) + 1
        BY <1>7, AppendedMembers DEF Enqueue, TypeOK
    <2>3. UNCHANGED <<enqueued, flushed>>
        BY <1>7 DEF Enqueue
    <2>4. /\ Cardinality(SentOf') = Cardinality(SentOf) + 1
          /\ enqueued \in Nat /\ flushed \in Nat /\ Len(queue) \in Nat
        BY <1>3, <2>1, <2>3 DEF TypeOK
    <2>5. enqueued + (Cardinality(SentOf) + 1) = flushed + ((Len(queue) + 1) + Unflushed)
        BY <1>3, <1>5, <1>u, <2>4
    <2>. QED  BY <2>2, <2>3, <2>4, <2>5
<1>8. CASE CountEnqueued(r)
    <2>1. r \in SentOf /\ SentOf' = SentOf \ {r}
        BY <1>8 DEF CountEnqueued, SentOf, TypeOK
    <2>2. enqueued' = enqueued + 1 /\ UNCHANGED <<flushed, queue>>
        BY <1>8 DEF CountEnqueued
    <2>. QED  BY <1>3, <1>5, <1>u, <2>1, <2>2 DEF TypeOK
<1>9. CASE BeginRequest(r) \/ Drop(r) \/ FallbackStores(r) \/ FallbackFails(r)
    <2>1. SentOf' = SentOf
        BY <1>9 DEF BeginRequest, Drop, FallbackStores, FallbackFails, SentOf, TypeOK
    <2>2. UNCHANGED <<enqueued, flushed, queue>>
        BY <1>9 DEF BeginRequest, Drop, FallbackStores, FallbackFails
    <2>. QED  BY <1>3, <1>5, <1>u, <2>1, <2>2 DEF TypeOK
<1>. QED  BY <1>7, <1>8, <1>9 DEF RequestStep

\* The recorder moves events from the queue to the batch, from the batch to flushed,
\* and, when its last attempt fails, all that is left to failed.
LEMMA RecorderAdds ==
    ASSUME StatsInv, RecorderStep
    PROVE  FiguresAgree'
<1>. USE DEF StatsInv, Types, stats, database, batchVars
<1>1. request' = request /\ enqueued' = enqueued
    BY DEF RecorderStep, Receive, TakeEvent, StoreDepth, FlushTick, FlushStores, CountFlushed,
           EmptyBatch, FlushFails, FlushUnanswered, KeepBatch, NoticeStop, DrainReceive, DrainFlush
<1>2. Uncounted' = Uncounted
    BY <1>1 DEF Uncounted
<1>3. recorder # "done"
    BY DEF RecorderStep, Receive, StoreDepth, FlushTick, FlushStores, CountFlushed, EmptyBatch,
           FlushFails, FlushUnanswered, Flushing, AtSelect, InDrain, NoticeStop, DrainReceive,
           DrainFlush, BookAtWork
<1>4. /\ enqueued + Uncounted = flushed + (Len(queue) + Unflushed)
      /\ failed = 0
      /\ flushed \in Nat /\ Len(queue) \in Nat /\ Len(pending) \in Nat
      /\ book # "depth" => pendingDepth = Len(pending)
    BY <1>3 DEF FiguresAgree, Quiet, TypeOK
<1>5. CASE Receive \/ DrainReceive
    <2>1. Len(queue') = Len(queue) - 1 /\ Len(pending') = Len(pending) + 1
        BY <1>5, AppendedMembers, TailMembers DEF Receive, DrainReceive, TakeEvent, TypeOK
    <2>2. /\ recorder' # "done" /\ flushed' = flushed
          /\ book = "none" /\ book' = "depth"
        BY <1>3, <1>5 DEF Receive, DrainReceive, TakeEvent, AtSelect, InDrain
    <2>. QED  BY <1>1, <1>2, <1>4, <2>1, <2>2 DEF FiguresAgree, Unflushed
<1>6. CASE StoreDepth
    <2>1. /\ recorder' # "done" /\ UNCHANGED <<queue, pending, flushed>>
          /\ book = "depth" /\ book' = "none" /\ pendingDepth' = Len(pending)
        BY <1>3, <1>6 DEF StoreDepth
    <2>. QED  BY <1>1, <1>2, <1>4, <2>1 DEF FiguresAgree, Unflushed
<1>7. CASE FlushTick \/ NoticeStop \/ DrainFlush
    <2>1. UNCHANGED <<queue, pending, pendingDepth, book, flushed, failed>> /\ book = "none"
        BY <1>7 DEF FlushTick, NoticeStop, DrainFlush, AtSelect, InDrain
    <2>2. recorder' = "done" => Len(queue) = 0 /\ Len(pending) = 0
        BY <1>7 DEF FlushTick, NoticeStop, DrainFlush, TypeOK
    <2>. QED  BY <1>1, <1>2, <1>4, <2>1, <2>2 DEF FiguresAgree, Unflushed
<1>8. CASE FlushStores
    <2>1. /\ UNCHANGED <<queue, pending, pendingDepth, recorder, flushed>>
          /\ book = "none" /\ book' = "count"
        BY <1>8 DEF FlushStores, Flushing
    <2>. QED  BY <1>1, <1>2, <1>3, <1>4, <2>1 DEF FiguresAgree, Unflushed
<1>c. CASE CountFlushed
    <2>1. /\ UNCHANGED <<queue, pending, pendingDepth, recorder>>
          /\ book = "count" /\ book' = "empty" /\ flushed' = flushed + Len(pending)
        BY <1>c DEF CountFlushed
    <2>. QED  BY <1>1, <1>2, <1>3, <1>4, <2>1 DEF FiguresAgree, Unflushed
<1>e. CASE EmptyBatch
    <2>1. /\ UNCHANGED <<queue, flushed, failed>>
          /\ Len(pending') = 0 /\ pendingDepth' = 0
          /\ book = "empty" /\ book' = "none"
        BY <1>e DEF EmptyBatch
    <2>2. recorder' = "done" => Len(queue) = 0
        BY <1>e DEF EmptyBatch, AfterSuccess, Quiet, BookAtWork
    <2>. QED  BY <1>1, <1>2, <1>4, <2>1, <2>2 DEF FiguresAgree, Unflushed
<1>9. CASE FlushFails \/ FlushUnanswered
    <2>1. UNCHANGED <<queue, pending, pendingDepth, book, flushed>> /\ book = "none"
        BY <1>9 DEF FlushFails, FlushUnanswered, Flushing, KeepBatch
    <2>2. recorder' = "done" => failed' = Len(pending) + Len(queue)
        BY <1>4, <1>9 DEF FlushFails, FlushUnanswered, KeepBatch, Flushing, AfterFailure, Quiet
    <2>. QED  BY <1>1, <1>2, <1>4, <2>1, <2>2 DEF FiguresAgree, Unflushed
<1>. QED  BY <1>5, <1>6, <1>7, <1>8, <1>c, <1>e, <1>9 DEF RecorderStep

\* Whenever no figure is owed, the figures of Stats add up: what was enqueued is
\* flushed, waits in the queue or in the batch whose depth is shown, or failed in the
\* last drain.  They drift apart by no order of failures, retries and drain; while a
\* figure is owed they differ by it (Stats, flush and run,
\* api/middleware/observability.go:117-131, 165-232).
THEOREM StatsAlwaysAddUp == Spec => []StatsAddUp
<1>1. Init => StatsInv
    <2>. SUFFICES ASSUME Init PROVE StatsInv
        OBVIOUS
    <2>1. SentOf = {}
        BY DEF Init, SentOf
    <2>2. Uncounted = 0
        BY <2>1, FS_EmptySet DEF Uncounted, SentOf
    <2>3. FiguresAgree
        BY <2>2 DEF Init, FiguresAgree, Unflushed
    <2>4. Quiet
        BY DEF Init, Quiet
    <2>. QED  BY <2>3, <2>4, TypeInit DEF StatsInv
<1>2. StatsInv /\ [Next]_vars => StatsInv'
    <2>. SUFFICES ASSUME StatsInv, [Next]_vars PROVE StatsInv'
        OBVIOUS
    <2>1. Types'
        BY TypeStep DEF StatsInv
    <2>2. CASE \E r \in Requests : BeginRequest(r) \/ RequestStep(r)
        BY <2>1, <2>2, QuietRequest, RequestAdds DEF StatsInv, Types
    <2>3. CASE RecorderStep
        BY <2>1, <2>3, QuietRecorder, RecorderAdds DEF StatsInv
    <2>4. CASE OtherStep
        <3>1. FiguresAgree'
            BY <2>4, OtherUnchanged DEF StatsInv, FiguresAgree, Uncounted, Unflushed
        <3>. QED  BY <2>1, <2>4, <3>1, QuietOther DEF StatsInv, Types
    <2>. QED  BY <2>2, <2>3, <2>4 DEF Next, OtherStep
<1>3. StatsInv => StatsAddUp
    <2>. SUFFICES ASSUME StatsInv, Uncounted = 0, book = "none"
                  PROVE  enqueued = flushed + (IF recorder = "done" THEN failed
                                               ELSE Len(queue) + pendingDepth)
        BY DEF StatsAddUp
    <2>1. enqueued \in Nat /\ enqueued + Uncounted = enqueued
        BY DEF StatsInv, Types, TypeOK
    <2>2. Unflushed = pendingDepth
        BY DEF StatsInv, FiguresAgree, Unflushed
    <2>. QED  BY <2>1, <2>2 DEF StatsInv, FiguresAgree
<1>. QED  BY <1>1, <1>2, <1>3, PTL DEF Spec

------------------------------------------------------------------------------
(* No request is lost *)

\* A batch that is written and not yet emptied has its rows.
BatchWritten ==
    book \in {"count", "empty"} =>
        \A r \in Batch \cap Requests : token[TokenOf[r]] # "deleted" => rows[r] >= 1

\* A request that still has to count itself was dropped.
RowsInv ==
    /\ Types
    /\ RowForEach
    /\ BatchWritten
    /\ \A r \in Requests : request[r] = "fallback" => r \in dropped

Held == Batch \cup Members(queue)

LEMMA HeldIsInMemory == \A r : InMemory(r) <=> r \in Held
BY DEF InMemory, Held, Members

\* An event leaves memory only by being written, and every event that is written has
\* its row unless its token is gone.
LEMMA RowsRecorder ==
    ASSUME RowsInv, RecorderStep
    PROVE  RowForEach' /\ BatchWritten' /\ request' = request /\ dropped' = dropped
<1>. USE DEF RowsInv, Types, stats, database, batchVars
<1>1. request' = request /\ dropped' = dropped /\ token' = token
    BY DEF RecorderStep, Receive, TakeEvent, StoreDepth, FlushTick, FlushStores, CountFlushed,
           EmptyBatch, FlushFails, FlushUnanswered, WriteBatch, KeepBatch, NoticeStop, DrainReceive, DrainFlush
<1>b. BatchWritten'
    <2>1. CASE FlushStores
        <3>1. /\ Batch' = Batch /\ rows \in [Requests -> Nat]
              /\ rows' = [r \in Requests |-> IF r \in Batch /\ token[TokenOf[r]] # "deleted"
                                            THEN rows[r] + 1 ELSE rows[r]]
            BY <2>1 DEF FlushStores, WriteBatch, Batch, TypeOK
        <3>2. ASSUME NEW r \in Batch \cap Requests, token[TokenOf[r]] # "deleted"
              PROVE  rows'[r] >= 1
            BY <3>1, <3>2
        <3>. QED  BY <1>1, <3>1, <3>2 DEF BatchWritten
    <2>2. CASE CountFlushed
        BY <1>1, <2>2 DEF CountFlushed, BatchWritten, Batch
    <2>3. CASE ~FlushStores /\ ~CountFlushed
        <3>1. book' \notin {"count", "empty"}
            BY <2>3 DEF RecorderStep, Receive, TakeEvent, StoreDepth, FlushTick, EmptyBatch, FlushFails,
                        FlushUnanswered, Flushing, KeepBatch, NoticeStop, DrainReceive, DrainFlush,
                        AtSelect, InDrain
        <3>. QED  BY <3>1 DEF BatchWritten
    <2>. QED  BY <2>1, <2>2, <2>3
<1>2. SUFFICES ASSUME NEW r \in Requests, request[r] \in {"sent", "finished"}, r \notin dropped,
                      token[TokenOf[r]] # "deleted", r \notin Held'
               PROVE  rows'[r] >= 1
    BY <1>1, <1>b, HeldIsInMemory DEF RowForEach, Held, InMemory, Batch, Members
<1>3. r \notin Held => rows[r] >= 1
    BY <1>2, HeldIsInMemory DEF RowForEach
<1>4. rows[r] \in Nat
    BY <1>2 DEF TypeOK
<1>5. ASSUME WriteBatch PROVE rows'[r] = IF r \in Batch THEN rows[r] + 1 ELSE rows[r]
    BY <1>2, <1>5 DEF WriteBatch
<1>6. CASE Receive \/ DrainReceive
    <2>a. /\ queue # <<>> /\ queue' = Tail(queue) /\ pending' = Append(pending, Head(queue))
          /\ queue \in Seq(Requests) /\ pending \in Seq(Requests)
        BY <1>6 DEF Receive, DrainReceive, TakeEvent, TypeOK
    <2>b. /\ Head(queue) \in Requests
          /\ Members(queue) = Members(Tail(queue)) \cup {Head(queue)}
        BY <2>a, TailMembers
    <2>c. Members(Append(pending, Head(queue))) = Members(pending) \cup {Head(queue)}
        BY <2>a, <2>b, AppendedMembers
    <2>1. /\ Members(pending') = Members(pending) \cup {Head(queue)}
          /\ Members(queue) = Members(queue') \cup {Head(queue)}
        BY <2>a, <2>b, <2>c
    <2>2. Held' = Held
        BY <2>1 DEF Held, Batch, Members
    <2>3. rows' = rows
        BY <1>6 DEF Receive, DrainReceive, TakeEvent
    <2>. QED  BY <1>2, <1>3, <2>2, <2>3
<1>7. CASE StoreDepth \/ FlushTick \/ CountFlushed \/ NoticeStop \/ DrainFlush \/ FlushFails
    <2>1. UNCHANGED <<queue, pending, rows>>
        BY <1>7 DEF StoreDepth, FlushTick, CountFlushed, NoticeStop, DrainFlush, FlushFails, KeepBatch
    <2>2. Held' = Held
        BY <2>1 DEF Held, Batch, Members
    <2>. QED  BY <1>2, <1>3, <2>1, <2>2
<1>8. CASE FlushStores
    <2>1. WriteBatch /\ queue' = queue /\ pending' = pending
        BY <1>8 DEF FlushStores
    <2>2. Held' = Held
        BY <2>1 DEF Held, Batch, Members
    <2>. QED  BY <1>2, <1>3, <1>4, <1>5, <2>1, <2>2
<1>e. CASE EmptyBatch
    <2>1. queue' = queue /\ rows' = rows /\ book = "empty"
        BY <1>e DEF EmptyBatch
    <2>2. r \notin Members(queue)
        BY <1>2, <2>1 DEF Held, Members
    <2>3. r \in Batch => rows[r] >= 1
        BY <1>2, <2>1 DEF BatchWritten
    <2>. QED  BY <1>3, <2>1, <2>2, <2>3 DEF Held
<1>9. CASE FlushUnanswered
    <2>1. WriteBatch /\ queue' = queue /\ pending' = pending
        BY <1>9 DEF FlushUnanswered, KeepBatch
    <2>2. Held' = Held
        BY <2>1 DEF Held, Batch, Members
    <2>. QED  BY <1>2, <1>3, <1>4, <1>5, <2>1, <2>2
<1>. QED  BY <1>6, <1>7, <1>8, <1>e, <1>9 DEF RecorderStep

\* A request that leaves no event was dropped, and is known to be.
LEMMA RowsRequest ==
    ASSUME RowsInv, NEW r \in Requests, BeginRequest(r) \/ RequestStep(r)
    PROVE  /\ RowForEach' /\ BatchWritten'
           /\ (\A q \in Requests : request[q] = "fallback" => q \in dropped)'
<1>. USE DEF RowsInv, Types, stats, database, batchVars
<1>1. UNCHANGED <<pending, book, rows, token>>
    BY DEF BeginRequest, RequestStep, Enqueue, CountEnqueued, Drop, FallbackStores, FallbackFails
<1>2. /\ \A q \in Requests \ {r} : request'[q] = request[q]
      /\ dropped \subseteq dropped'
    BY DEF BeginRequest, RequestStep, Enqueue, CountEnqueued, Drop, FallbackStores, FallbackFails,
           TypeOK
<1>3. Held \subseteq Held'
    <2>1. CASE Enqueue(r)
        <3>1. queue' = Append(queue, r) /\ queue \in Seq(Requests)
            BY <2>1 DEF Enqueue, TypeOK
        <3>2. Members(Append(queue, r)) = Members(queue) \cup {r}
            BY <3>1, AppendedMembers
        <3>3. Members(queue') = Members(queue) \cup {r}
            BY <3>1, <3>2
        <3>. QED  BY <1>1, <3>3 DEF Held, Batch, Members
    <2>2. CASE BeginRequest(r) \/ CountEnqueued(r) \/ Drop(r) \/ FallbackStores(r)
               \/ FallbackFails(r)
        BY <1>1, <2>2 DEF BeginRequest, CountEnqueued, Drop, FallbackStores, FallbackFails, Held,
                          Batch, Members
    <2>. QED  BY <2>1, <2>2 DEF RequestStep
<1>4. \/ request'[r] \notin {"sent", "finished"}
      \/ r \in dropped'
      \/ r \in Held'
      \/ request[r] = "sent"
    <2>1. CASE Enqueue(r)
        <3>1. r \in Members(queue')
            BY <2>1, AppendedMembers DEF Enqueue, TypeOK
        <3>. QED  BY <3>1 DEF Held, Members
    <2>2. CASE BeginRequest(r) \/ CountEnqueued(r) \/ Drop(r) \/ FallbackFails(r)
        BY <2>2 DEF BeginRequest, CountEnqueued, Drop, FallbackFails, TypeOK
    <2>3. CASE FallbackStores(r)
        BY <2>3 DEF FallbackStores
    <2>. QED  BY <2>1, <2>2, <2>3 DEF RequestStep
<1>5. RowForEach'
    <2>1. SUFFICES ASSUME NEW q \in Requests, request'[q] \in {"sent", "finished"},
                          q \notin dropped', token[TokenOf[q]] # "deleted", q \notin Held'
                   PROVE  rows[q] >= 1
        BY <1>1 DEF RowForEach, Held, InMemory, Batch, Members
    <2>2. request[q] \in {"sent", "finished"} /\ q \notin dropped /\ q \notin Held
        BY <1>2, <1>3, <1>4, <2>1
    <2>. QED  BY <2>1, <2>2, HeldIsInMemory DEF RowForEach
<1>6. (\A q \in Requests : request[q] = "fallback" => q \in dropped)'
    <2>1. request'[r] = "fallback" => r \in dropped'
        BY DEF BeginRequest, RequestStep, Enqueue, CountEnqueued, Drop, FallbackStores,
               FallbackFails, TypeOK
    <2>. QED  BY <1>2, <2>1
<1>7. BatchWritten'
    BY <1>1 DEF BatchWritten, Batch
<1>. QED  BY <1>5, <1>6, <1>7

\* The rest of the program takes rows away only together with their token.
LEMMA RowsOther ==
    ASSUME RowsInv, OtherStep
    PROVE  /\ RowForEach' /\ BatchWritten'
           /\ (\A q \in Requests : request[q] = "fallback" => q \in dropped)'
<1>. USE DEF RowsInv, Types, stats, database, batchVars
<1>1. UNCHANGED <<request, queue, pending, book>>
    BY OtherUnchanged
<1>2. dropped' = dropped
    BY DEF OtherStep, RetryDue, DisableToken, EnableToken, DeleteToken, ChangeToken, StopProcess,
           CloseRecorder, ForceExit, Exit, Ended, vars
<1>3. \A r \in Requests : InMemory(r)' <=> InMemory(r)
    BY <1>1 DEF InMemory, Batch
<1>4. \A r \in Requests : token'[TokenOf[r]] # "deleted"
                          => token[TokenOf[r]] # "deleted" /\ rows'[r] = rows[r]
    <2>1. ASSUME NEW t \in Tokens, DisableToken(t) \/ EnableToken(t), NEW r \in Requests,
                 token'[TokenOf[r]] # "deleted"
          PROVE  token[TokenOf[r]] # "deleted" /\ rows'[r] = rows[r]
        <3>1. \E to : token' = [token EXCEPT ![t] = to]
            BY <2>1 DEF DisableToken, EnableToken, ChangeToken
        <3>2. token[t] # "deleted" /\ rows' = rows
            BY <2>1 DEF DisableToken, EnableToken, ChangeToken
        <3>. QED  BY <3>1, <3>2, <2>1, RecorderAssumption DEF TypeOK
    <2>2. ASSUME NEW t \in Tokens, DeleteToken(t), NEW r \in Requests,
                 token'[TokenOf[r]] # "deleted"
          PROVE  token[TokenOf[r]] # "deleted" /\ rows'[r] = rows[r]
        <3>1. TokenOf[r] \in Tokens /\ token' = [token EXCEPT ![t] = "deleted"]
            BY <2>2, RecorderAssumption DEF DeleteToken, ChangeToken
        <3>2. TokenOf[r] # t
            BY <3>1, <2>2 DEF TypeOK
        <3>3. rows' = [q \in Requests |-> IF TokenOf[q] = t THEN 0 ELSE rows[q]]
            BY <2>2 DEF DeleteToken
        <3>. QED  BY <3>1, <3>2, <3>3, <2>2 DEF TypeOK
    <2>3. CASE \/ RetryDue \/ StopProcess \/ CloseRecorder \/ ForceExit \/ Exit \/ Ended
               \/ UNCHANGED vars
        BY <2>3 DEF RetryDue, StopProcess, CloseRecorder, ForceExit, Exit, Ended, vars
    <2>. QED  BY <2>1, <2>2, <2>3 DEF OtherStep
<1>5. RowForEach'
    BY <1>1, <1>2, <1>3, <1>4 DEF RowForEach
<1>6. BatchWritten'
    BY <1>1, <1>4 DEF BatchWritten, Batch
<1>. QED  BY <1>1, <1>2, <1>5, <1>6

\* A request that was answered and was not dropped has its row, whatever failed in
\* between and in whichever order, as long as its token exists and its event is not
\* still waiting (run, api/middleware/observability.go:156-240; RecordAPIRequestEvents,
\* api/store/observability.go:73-102).
THEOREM NothingIsLost == Spec => []RowForEach
<1>1. Init => RowsInv
    BY TypeInit DEF Init, RowsInv, RowForEach, BatchWritten
<1>2. RowsInv /\ [Next]_vars => RowsInv'
    <2>. SUFFICES ASSUME RowsInv, [Next]_vars PROVE RowsInv'
        OBVIOUS
    <2>1. Types'
        BY TypeStep DEF RowsInv
    <2>2. CASE \E r \in Requests : BeginRequest(r) \/ RequestStep(r)
        BY <2>1, <2>2, RowsRequest DEF RowsInv
    <2>3. CASE RecorderStep
        BY <2>1, <2>3, RowsRecorder DEF RowsInv
    <2>4. CASE OtherStep
        BY <2>1, <2>4, RowsOther DEF RowsInv
    <2>. QED  BY <2>2, <2>3, <2>4 DEF Next, OtherStep
<1>3. RowsInv => RowForEach
    BY DEF RowsInv
<1>. QED  BY <1>1, <1>2, <1>3, PTL DEF Spec

------------------------------------------------------------------------------
(* No request is told of twice *)

Distinct(s) == \A i, j \in DOMAIN s : s[i] = s[j] => i = j

\* A sequence stays without repetition when something new is appended.
LEMMA AppendedDistinct ==
    ASSUME NEW S, NEW s \in Seq(S), NEW x \in S, Distinct(s), x \notin Members(s)
    PROVE  Distinct(Append(s, x))
<1>1. /\ Len(s) \in Nat
      /\ DOMAIN s = 1..Len(s) /\ DOMAIN Append(s, x) = 1..(Len(s) + 1)
      /\ \A i \in 1..Len(s) : Append(s, x)[i] = s[i]
      /\ Append(s, x)[Len(s) + 1] = x
    OBVIOUS
<1>2. \A i \in 1..Len(s) : s[i] # x
    BY <1>1 DEF Members
<1>3. 1..(Len(s) + 1) = (1..Len(s)) \cup {Len(s) + 1}
    BY <1>1
<1>. QED  BY <1>1, <1>2, <1>3 DEF Distinct

\* The first of a sequence without repetition is not behind itself.
LEMMA TailDistinct ==
    ASSUME NEW S, NEW s \in Seq(S), s # <<>>, Distinct(s)
    PROVE  Distinct(Tail(s)) /\ Head(s) \notin Members(Tail(s))
<1>1. /\ Len(s) \in Nat /\ Len(s) >= 1 /\ Head(s) = s[1]
      /\ DOMAIN s = 1..Len(s) /\ DOMAIN Tail(s) = 1..(Len(s) - 1)
      /\ \A i \in 1..(Len(s) - 1) : Tail(s)[i] = s[i + 1]
    OBVIOUS
<1>2. ASSUME NEW i \in 1..(Len(s) - 1) PROVE i + 1 \in 1..Len(s) /\ i + 1 # 1 /\ 1 \in 1..Len(s)
    BY <1>1
<1>3. Head(s) \notin Members(Tail(s))
    BY <1>1, <1>2 DEF Distinct, Members
<1>4. ASSUME NEW i \in 1..(Len(s) - 1), NEW j \in 1..(Len(s) - 1), Tail(s)[i] = Tail(s)[j]
      PROVE  i = j
    <2>1. i + 1 = j + 1
        BY <1>1, <1>2, <1>4 DEF Distinct
    <2>. QED  BY <2>1
<1>. QED  BY <1>1, <1>3, <1>4 DEF Distinct

\* An event is made once: a request that has not come to it is nowhere, and one that
\* waits in the queue has no row and is not in the batch.  What the batch holds has a
\* row for each answer that was lost at most, and one more once it is written.
Committed == IF book \in {"count", "empty"} THEN 1 ELSE 0

QueuedOnce ==
    /\ Distinct(queue) /\ Distinct(pending)
    /\ \A r \in Requests : request[r] \in {"none", "active"}
                           => rows[r] = 0 /\ r \notin Members(queue) \cup Members(pending)
    /\ \A r \in Members(queue) : rows[r] = 0 /\ r \notin Members(pending)
    /\ \A r \in Members(pending) : rows[r] <= unknown + Committed

OnceInv == Types /\ QueuedOnce /\ DuplicatesExplained

\* A request leaves at most one event.
LEMMA OnceRequest ==
    ASSUME OnceInv, NEW r \in Requests, BeginRequest(r) \/ RequestStep(r)
    PROVE  QueuedOnce' /\ DuplicatesExplained'
<1>. USE DEF OnceInv, Types, stats, database, batchVars
<1>1. UNCHANGED <<pending, book, rows, unknown>> /\ Committed' = Committed
    BY DEF BeginRequest, RequestStep, Enqueue, CountEnqueued, Drop, FallbackStores, FallbackFails,
           Committed
<1>2. DuplicatesExplained'
    BY <1>1 DEF DuplicatesExplained
<1>3. CASE Enqueue(r)
    <2>1. /\ queue \in Seq(Requests) /\ queue' = Append(queue, r)
          /\ request[r] = "active" /\ request' = [request EXCEPT ![r] = "sent"]
        BY <1>3 DEF Enqueue, TypeOK
    <2>2. rows[r] = 0 /\ r \notin Members(queue) /\ r \notin Members(pending)
        BY <2>1 DEF QueuedOnce
    <2>3. Distinct(queue') /\ Members(queue') = Members(queue) \cup {r}
        BY <2>1, <2>2, AppendedDistinct, AppendedMembers DEF QueuedOnce
    <2>4. \A q \in Requests : request'[q] \in {"none", "active"}
                              => q # r /\ request[q] \in {"none", "active"}
        BY <2>1 DEF TypeOK
    <2>. QED  BY <1>1, <1>2, <2>2, <2>3, <2>4 DEF QueuedOnce
<1>4. CASE BeginRequest(r) \/ CountEnqueued(r) \/ Drop(r) \/ FallbackStores(r) \/ FallbackFails(r)
    <2>1. queue' = queue
        BY <1>4 DEF BeginRequest, CountEnqueued, Drop, FallbackStores, FallbackFails
    <2>2. \A q \in Requests : request'[q] \in {"none", "active"}
                              => request[q] \in {"none", "active"}
        BY <1>4 DEF BeginRequest, CountEnqueued, Drop, FallbackStores, FallbackFails, TypeOK
    <2>. QED  BY <1>1, <1>2, <2>1, <2>2 DEF QueuedOnce
<1>. QED  BY <1>3, <1>4 DEF RequestStep

\* The recorder moves an event, or writes it and forgets it, unless it does not learn
\* that it has written it.
LEMMA OnceRecorder ==
    ASSUME OnceInv, RecorderStep
    PROVE  QueuedOnce' /\ DuplicatesExplained'
<1>. USE DEF OnceInv, Types, stats, database, batchVars
<1>1. request' = request
    BY DEF RecorderStep, Receive, TakeEvent, StoreDepth, FlushTick, FlushStores, CountFlushed,
           EmptyBatch, FlushFails, FlushUnanswered, KeepBatch, NoticeStop, DrainReceive, DrainFlush
<1>t. /\ rows \in [Requests -> Nat] /\ unknown \in Nat
      /\ queue \in Seq(Requests) /\ pending \in Seq(Requests)
    BY RecorderAssumption DEF TypeOK
<1>m. Members(queue) \subseteq Requests /\ Members(pending) \subseteq Requests
    BY <1>t DEF Members
<1>w. ASSUME WriteBatch, book = "none", NEW r \in Requests
      PROVE  /\ r \notin Members(pending) => rows'[r] = rows[r]
             /\ r \in Members(pending) => rows'[r] <= unknown + 1
    <2>1. Batch = Members(pending)
        BY DEF Batch, Members
    <2>2. rows'[r] = IF r \in Members(pending) /\ token[TokenOf[r]] # "deleted"
                     THEN rows[r] + 1 ELSE rows[r]
        BY <1>w, <2>1 DEF WriteBatch
    <2>3. r \in Members(pending) => rows[r] <= unknown
        BY <1>t, <1>w DEF QueuedOnce, Committed
    <2>4. rows[r] \in Nat
        BY <1>t
    <2>. QED  BY <1>t, <2>2, <2>3, <2>4
<1>2. CASE Receive \/ DrainReceive
    <2>1. /\ queue # <<>> /\ queue' = Tail(queue) /\ pending' = Append(pending, Head(queue))
          /\ UNCHANGED <<rows, unknown>> /\ Committed' = 0 /\ Committed = 0
        BY <1>2 DEF Receive, DrainReceive, TakeEvent, AtSelect, InDrain, Committed
    <2>2. /\ Head(queue) \in Requests
          /\ Members(queue) = Members(Tail(queue)) \cup {Head(queue)}
        BY <1>t, <2>1, TailMembers
    <2>3. Distinct(Tail(queue)) /\ Head(queue) \notin Members(Tail(queue))
        BY <1>t, <2>1, TailDistinct DEF QueuedOnce
    <2>4. rows[Head(queue)] = 0 /\ Head(queue) \notin Members(pending)
        BY <2>2 DEF QueuedOnce
    <2>5. /\ Distinct(Append(pending, Head(queue)))
          /\ Members(Append(pending, Head(queue))) = Members(pending) \cup {Head(queue)}
        BY <1>t, <2>2, <2>4, AppendedDistinct, AppendedMembers DEF QueuedOnce
    <2>6. /\ Distinct(queue') /\ Distinct(pending')
          /\ Members(queue) = Members(queue') \cup {Head(queue)}
          /\ Members(pending') = Members(pending) \cup {Head(queue)}
          /\ Head(queue) \notin Members(queue')
        BY <2>1, <2>2, <2>3, <2>5
    <2>7. QueuedOnce'
        <3>1. \A r \in Members(queue') : rows[r] = 0 /\ r \notin Members(pending')
            BY <2>6 DEF QueuedOnce
        <3>2. \A r \in Members(pending') : rows[r] <= unknown + 0
            BY <1>t, <2>1, <2>4, <2>6 DEF QueuedOnce
        <3>3. \A r \in Requests : request[r] \in {"none", "active"}
                 => rows[r] = 0 /\ r \notin Members(queue') \cup Members(pending')
            BY <2>6 DEF QueuedOnce
        <3>. QED  BY <1>1, <2>1, <2>6, <3>1, <3>2, <3>3 DEF QueuedOnce
    <2>. QED  BY <2>1, <2>7 DEF DuplicatesExplained
<1>3. CASE FlushTick \/ NoticeStop \/ DrainFlush \/ FlushFails \/ StoreDepth \/ CountFlushed
    <2>1. UNCHANGED <<queue, pending, rows, unknown>> /\ Committed' = Committed
        BY <1>3 DEF FlushTick, NoticeStop, DrainFlush, FlushFails, KeepBatch, StoreDepth, CountFlushed,
                    Committed
    <2>. QED  BY <1>1, <2>1 DEF QueuedOnce, DuplicatesExplained
<1>4. CASE FlushStores
    <2>1. /\ WriteBatch /\ UNCHANGED <<queue, pending, unknown>>
          /\ book = "none" /\ Committed' = 1
        BY <1>4 DEF FlushStores, Flushing, Committed
    <2>2. QueuedOnce'
        <3>1. \A r \in Members(queue) : rows'[r] = 0
            BY <1>m, <1>w, <2>1 DEF QueuedOnce
        <3>2. \A r \in Requests : request[r] \in {"none", "active"} => rows'[r] = 0
            BY <1>w, <2>1 DEF QueuedOnce
        <3>3. \A r \in Members(pending) : rows'[r] <= unknown + 1
            BY <1>m, <1>w, <2>1
        <3>. QED  BY <1>1, <2>1, <3>1, <3>2, <3>3 DEF QueuedOnce
    <2>3. ASSUME NEW r \in Requests PROVE rows'[r] <= 1 + unknown
        <3>1. rows[r] <= 1 + unknown
            BY DEF DuplicatesExplained
        <3>. QED  BY <1>t, <1>w, <2>1, <3>1
    <2>. QED  BY <2>1, <2>2, <2>3 DEF DuplicatesExplained
<1>e. CASE EmptyBatch
    <2>1. /\ pending' = <<>> /\ UNCHANGED <<queue, rows, unknown>>
        BY <1>e DEF EmptyBatch
    <2>2. Distinct(<<>>) /\ Members(<<>>) = {}
        BY DEF Distinct, Members
    <2>. QED  BY <1>1, <2>1, <2>2 DEF QueuedOnce, DuplicatesExplained
<1>5. CASE FlushUnanswered
    <2>1. /\ WriteBatch /\ queue' = queue /\ pending' = pending
          /\ unknown' = unknown + 1 /\ book = "none" /\ Committed' = 0
        BY <1>5 DEF FlushUnanswered, Flushing, KeepBatch, Committed
    <2>2. QueuedOnce'
        <3>1. \A r \in Members(queue) : rows'[r] = 0
            BY <1>m, <1>w, <2>1 DEF QueuedOnce
        <3>2. \A r \in Requests : request[r] \in {"none", "active"} => rows'[r] = 0
            BY <1>w, <2>1 DEF QueuedOnce
        <3>3. \A r \in Members(pending) : rows'[r] <= unknown' + 0
            BY <1>t, <1>m, <1>w, <2>1
        <3>. QED  BY <1>1, <2>1, <3>1, <3>2, <3>3 DEF QueuedOnce
    <2>t. \A r \in Requests : rows'[r] \in Nat
        BY <1>t, <2>1 DEF WriteBatch
    <2>3. ASSUME NEW r \in Requests PROVE rows'[r] <= 1 + unknown'
        <3>1. rows[r] <= 1 + unknown
            BY DEF DuplicatesExplained
        <3>2. rows[r] \in Nat /\ rows[r] <= 1 + unknown'
            BY <1>t, <2>1, <3>1
        <3>3. CASE r \in Members(pending)
            <4>1. rows'[r] <= unknown + 1
                BY <1>w, <2>1, <3>3
            <4>2. unknown + 1 <= 1 + unknown' /\ unknown' = unknown + 1
                BY <1>t, <2>1
            <4>. QED  BY <1>t, <4>1, <4>2, <2>t
        <3>4. CASE r \notin Members(pending)
            BY <1>w, <2>1, <3>2, <3>4
        <3>. QED  BY <3>3, <3>4
    <2>. QED  BY <2>2, <2>3 DEF DuplicatesExplained
<1>. QED  BY <1>2, <1>3, <1>4, <1>e, <1>5 DEF RecorderStep

\* Nothing else in the program makes an event or a row.
LEMMA OnceOther ==
    ASSUME OnceInv, OtherStep
    PROVE  QueuedOnce' /\ DuplicatesExplained'
<1>. USE DEF OnceInv, Types, stats, database, batchVars
<1>1. UNCHANGED <<request, queue, pending>> /\ Committed' = Committed
    BY OtherUnchanged DEF Committed
<1>2. unknown' = unknown /\ \A r \in Requests : rows'[r] \in {0, rows[r]}
    <2>1. ASSUME NEW t \in Tokens, DisableToken(t) \/ EnableToken(t) \/ DeleteToken(t)
          PROVE  unknown' = unknown /\ \A r \in Requests : rows'[r] \in {0, rows[r]}
        BY <2>1 DEF DisableToken, EnableToken, DeleteToken, ChangeToken
    <2>2. CASE \/ RetryDue \/ StopProcess \/ CloseRecorder \/ ForceExit \/ Exit \/ Ended
               \/ UNCHANGED vars
        BY <2>2 DEF RetryDue, StopProcess, CloseRecorder, ForceExit, Exit, Ended, vars
    <2>. QED  BY <2>1, <2>2 DEF OtherStep
<1>3. /\ rows \in [Requests -> Nat] /\ unknown \in Nat /\ Committed \in Nat
      /\ Members(queue) \subseteq Requests /\ Members(pending) \subseteq Requests
    BY RecorderAssumption DEF TypeOK, Members, Committed
<1>4. \A r \in Requests : rows'[r] <= rows[r] /\ (rows[r] = 0 => rows'[r] = 0)
    BY <1>2, <1>3
<1>5. \A r \in Requests : rows[r] \in Nat /\ rows'[r] \in Nat
    BY <1>2, <1>3
<1>6. QueuedOnce'
    <2>1. \A r \in Members(pending) : rows'[r] <= unknown + Committed
        <3>. SUFFICES ASSUME NEW r \in Members(pending) PROVE rows'[r] <= unknown + Committed
            OBVIOUS
        <3>1. r \in Requests /\ rows[r] <= unknown + Committed
            BY <1>3 DEF QueuedOnce
        <3>. QED  BY <1>3, <1>4, <1>5, <3>1
    <2>. QED  BY <1>1, <1>2, <1>3, <1>4, <2>1 DEF QueuedOnce
<1>7. DuplicatesExplained'
    <2>. SUFFICES ASSUME NEW r \in Requests PROVE rows'[r] <= 1 + unknown
        BY <1>2 DEF DuplicatesExplained
    <2>1. rows[r] <= 1 + unknown
        BY DEF DuplicatesExplained
    <2>. QED  BY <1>3, <1>4, <1>5, <2>1
<1>. QED  BY <1>6, <1>7

LEMMA OnceInit == Init => OnceInv
<1>. SUFFICES ASSUME Init PROVE OnceInv
    OBVIOUS
<1>1. queue = <<>> /\ pending = <<>> /\ unknown = 0 /\ \A r \in Requests : rows[r] = 0
    BY DEF Init
<1>2. Distinct(<<>>) /\ Members(<<>>) = {}
    BY DEF Distinct, Members
<1>3. QueuedOnce
    BY <1>1, <1>2 DEF QueuedOnce
<1>. QED  BY <1>1, <1>3, TypeInit DEF OnceInv, DuplicatesExplained

LEMMA OnceStep ==
    ASSUME OnceInv, [Next]_vars
    PROVE  OnceInv'
<1>1. Types'
    BY TypeStep DEF OnceInv
<1>2. CASE \E r \in Requests : BeginRequest(r) \/ RequestStep(r)
    BY <1>1, <1>2, OnceRequest DEF OnceInv
<1>3. CASE RecorderStep
    BY <1>1, <1>3, OnceRecorder DEF OnceInv
<1>4. CASE OtherStep
    BY <1>1, <1>4, OnceOther DEF OnceInv
<1>. QED  BY <1>2, <1>3, <1>4 DEF Next, OtherStep

\* A request has a second row only if the answer of a commit was lost, and no more
\* rows than that, however batches fail and are written again
\* (flush, api/middleware/observability.go:165-188).
THEOREM DuplicatesAlwaysExplained == Spec => []DuplicatesExplained
<1>1. OnceInv /\ [Next]_vars => OnceInv'
    BY OnceStep
<1>2. OnceInv => DuplicatesExplained
    BY DEF OnceInv
<1>. QED  BY OnceInit, <1>1, <1>2, PTL DEF Spec

------------------------------------------------------------------------------
(* The totals agree with the rows *)

\* A token that nobody disabled or deleted is active; a request that was dropped has
\* been answered, and one that still has to count itself was dropped.
Counting ==
    /\ \A t \in Tokens \ disturbed : token[t] = "active"
    /\ \A r \in dropped : request[r] \in {"fallback", "finished", "uncounted"}
    /\ \A r \in Requests : request[r] = "fallback" => r \in dropped

AgreeInv == OnceInv /\ Counting /\ UsageAgrees

\* The requests of a token, its rows and those that counted themselves are finitely
\* many.
LEMMA CountedSets ==
    ASSUME TypeOK, DuplicatesExplained, NEW t \in Tokens
    PROVE  /\ IsFiniteSet(RowsOf(t)) /\ Cardinality(RowsOf(t)) \in Nat
           /\ IsFiniteSet(SelfCounted(t)) /\ Cardinality(SelfCounted(t)) \in Nat
<1>1. MaxUnknown \in Nat /\ unknown \in 0..MaxUnknown /\ rows \in [Requests -> Nat]
    BY RecorderAssumption DEF TypeOK
<1>2. IsFiniteSet(Requests \X (1..(1 + MaxUnknown)))
    <2>1. 1 \in Int /\ 1 + MaxUnknown \in Int
        BY <1>1
    <2>2. IsFiniteSet(1..(1 + MaxUnknown))
        BY <2>1, FS_Interval
    <2>. QED  BY <2>2, RecorderAssumption, FS_Product
<1>3. RowsOf(t) \subseteq Requests \X (1..(1 + MaxUnknown))
    <2>. SUFFICES ASSUME NEW r \in EventsOf(t), NEW i \in 1..rows[r]
                  PROVE  <<r, i>> \in Requests \X (1..(1 + MaxUnknown))
        BY DEF RowsOf
    <2>1. r \in Requests
        BY DEF EventsOf
    <2>2. rows[r] \in Nat /\ rows[r] <= 1 + unknown
        BY <1>1, <2>1 DEF DuplicatesExplained
    <2>. QED  BY <1>1, <2>1, <2>2
<1>4. SelfCounted(t) \subseteq Requests
    BY DEF SelfCounted, EventsOf
<1>. QED  BY <1>2, <1>3, <1>4, RecorderAssumption, FS_Subset, FS_CardinalityType

\* A batch that is written gives a token as many rows as it has events in it.
LEMMA RowsAdded ==
    ASSUME TypeOK, DuplicatesExplained, WriteBatch,
           NEW t \in Tokens, token[t] # "deleted"
    PROVE  Cardinality(RowsOf(t)') = Cardinality(RowsOf(t)) + Cardinality(Batch \cap EventsOf(t))
<1>. DEFINE B == Batch \cap EventsOf(t)
            Next1(r) == rows[r] + 1
            N == {<<r, Next1(r)>> : r \in B}
            f == [r \in B |-> <<r, Next1(r)>>]
<1>1. /\ rows \in [Requests -> Nat]
      /\ B \subseteq Requests
      /\ \A r \in EventsOf(t) : r \in Requests /\ TokenOf[r] = t
    BY DEF TypeOK, EventsOf
<1>2. /\ \A r \in B : rows'[r] = rows[r] + 1
      /\ \A r \in EventsOf(t) \ B : rows'[r] = rows[r]
    BY <1>1 DEF WriteBatch
<1>3. RowsOf(t)' = RowsOf(t) \cup N
    <2>1. \A r \in B : 1..rows'[r] = (1..rows[r]) \cup {rows[r] + 1}
        <3>. SUFFICES ASSUME NEW r \in B PROVE 1..rows'[r] = (1..rows[r]) \cup {rows[r] + 1}
            OBVIOUS
        <3>1. rows[r] \in Nat /\ rows'[r] = rows[r] + 1
            BY <1>1, <1>2
        <3>. QED  BY <3>1
    <2>2. RowsOf(t) = {p \in EventsOf(t) \X Nat : p[2] \in 1..rows[p[1]]}
        BY DEF RowsOf
    <2>3. RowsOf(t)' = {p \in EventsOf(t) \X Nat : p[2] \in 1..rows'[p[1]]}
        BY DEF RowsOf, EventsOf
    <2>4. N \subseteq EventsOf(t) \X Nat
        BY <1>1
    <2>. QED  BY <1>2, <2>1, <2>2, <2>3, <2>4
<1>4. RowsOf(t) \cap N = {}
    <2>1. ASSUME NEW r \in EventsOf(t), NEW i \in 1..rows[r], <<r, i>> \in N PROVE FALSE
        <3>1. i = rows[r] + 1 /\ rows[r] \in Nat
            BY <1>1, <2>1
        <3>. QED  BY <3>1, <2>1
    <2>. QED  BY <2>1 DEF RowsOf
<1>5. IsFiniteSet(B)
    BY <1>1, RecorderAssumption, FS_Subset
<1>6. f \in Bijection(B, N)
    BY DEF Bijection, Injection, Surjection, IsInjective
<1>7. IsFiniteSet(N) /\ Cardinality(N) = Cardinality(B)
    BY <1>5, <1>6, FS_Bijection DEF ExistsBijection
<1>8. IsFiniteSet(RowsOf(t)) /\ Cardinality(RowsOf(t)) \in Nat
    BY CountedSets
<1>9. Cardinality(RowsOf(t) \cup N)
        = Cardinality(RowsOf(t)) + Cardinality(N) - Cardinality(RowsOf(t) \cap N)
    BY <1>7, <1>8, FS_Union
<1>10. Cardinality(RowsOf(t) \cap N) = 0 /\ Cardinality(B) \in Nat
    BY <1>4, <1>5, FS_EmptySet, FS_CardinalityType
<1>. QED  BY <1>3, <1>7, <1>8, <1>9, <1>10

\* A step that leaves its rows, its total and those who counted themselves alone
\* keeps a token's total right.
LEMMA SameCount ==
    ASSUME UsageAgrees, NEW t \in Unlimited \ disturbed, usage'[t] = usage[t],
           \A r \in EventsOf(t) : rows'[r] = rows[r],
           SelfCounted(t)' = SelfCounted(t)
    PROVE  usage'[t] = Cardinality(RowsOf(t)') + Cardinality(SelfCounted(t)')
<1>1. RowsOf(t)' = RowsOf(t)
    BY DEF RowsOf, EventsOf
<1>. QED  BY <1>1 DEF UsageAgrees


\* A request keeps its token's total right: it counts itself when it is dropped and
\* its statement has touched the row, and not before.
LEMMA AgreeRequest ==
    ASSUME AgreeInv, NEW r \in Requests, BeginRequest(r) \/ RequestStep(r)
    PROVE  Counting' /\ UsageAgrees'
<1>. USE DEF AgreeInv, OnceInv, Types, stats, database, batchVars
<1>1. UNCHANGED <<rows, token, disturbed>>
    BY DEF BeginRequest, RequestStep, Enqueue, CountEnqueued, Drop, FallbackStores, FallbackFails
<1>2. /\ request \in [Requests -> RequestStates] /\ dropped \subseteq Requests
      /\ \A q \in Requests \ {r} : request'[q] = request[q]
    BY DEF BeginRequest, RequestStep, Enqueue, CountEnqueued, Drop, FallbackStores, FallbackFails,
           TypeOK
<1>3. \A t : EventsOf(t)' = EventsOf(t)
    BY DEF EventsOf
<1>4. CASE BeginRequest(r) \/ Enqueue(r) \/ CountEnqueued(r) \/ FallbackFails(r)
    <2>1. dropped' = dropped /\ usage' = usage
        BY <1>4 DEF BeginRequest, Enqueue, CountEnqueued, FallbackFails
    <2>2. /\ r \in dropped => request[r] = "fallback" /\ request'[r] = "uncounted"
          /\ request'[r] # "fallback"
        BY <1>4, <1>2 DEF BeginRequest, Enqueue, CountEnqueued, FallbackFails, Counting
    <2>3. \A t : SelfCounted(t)' = SelfCounted(t)
        BY <1>2, <1>3, <2>1, <2>2 DEF SelfCounted
    <2>4. Counting'
        BY <1>1, <1>2, <2>1, <2>2 DEF Counting
    <2>5. UsageAgrees'
        BY <1>1, <2>1, <2>3, SameCount DEF UsageAgrees
    <2>. QED  BY <2>4, <2>5
<1>5. CASE Drop(r)
    <2>1. /\ dropped' = dropped \cup {r} /\ usage' = usage /\ request[r] = "active"
          /\ request' = [request EXCEPT ![r] = IF TokenOf[r] \in Unlimited
                                               THEN "fallback" ELSE "finished"]
        BY <1>5 DEF Drop
    <2>2. request'[r] = IF TokenOf[r] \in Unlimited THEN "fallback" ELSE "finished"
        BY <1>2, <2>1
    <2>3. r \notin dropped
        BY <2>1 DEF Counting
    <2>4. \A t \in Unlimited : r \notin SelfCounted(t)'
        BY <2>2 DEF SelfCounted, EventsOf
    <2>5. \A t \in Unlimited : SelfCounted(t)' = SelfCounted(t)
        BY <1>2, <1>3, <2>1, <2>3, <2>4 DEF SelfCounted
    <2>6. Counting'
        BY <1>1, <1>2, <2>1, <2>2 DEF Counting
    <2>7. UsageAgrees'
        BY <1>1, <2>1, <2>5, SameCount DEF UsageAgrees
    <2>. QED  BY <2>6, <2>7
<1>6. CASE FallbackStores(r)
    <2>. DEFINE u == TokenOf[r]
    <2>1. /\ request[r] = "fallback" /\ dropped' = dropped
          /\ usage' = IF token[u] = "active" THEN [usage EXCEPT ![u] = @ + 1] ELSE usage
          /\ request'[r] = "finished"
        BY <1>2, <1>6 DEF FallbackStores
    <2>2. r \in dropped /\ u \in Tokens
        BY <2>1, RecorderAssumption DEF Counting
    <2>3. Counting'
        BY <1>1, <1>2, <2>1 DEF Counting
    <2>4. ASSUME NEW t \in Unlimited \ disturbed
          PROVE  usage'[t] = Cardinality(RowsOf(t)') + Cardinality(SelfCounted(t)')
        <3>1. t \in Tokens /\ token[t] = "active"
            BY RecorderAssumption DEF Counting
        <3>2. CASE t # u
            <4>1. usage'[t] = usage[t]
                BY <2>1, <3>1, <3>2 DEF TypeOK
            <4>2. SelfCounted(t)' = SelfCounted(t)
                BY <1>2, <1>3, <2>1, <3>2 DEF SelfCounted, EventsOf
            <4>. QED  BY <1>1, <4>1, <4>2, SameCount
        <3>3. CASE t = u
            <4>1. usage'[t] = usage[t] + 1
                BY <2>1, <3>1, <3>3 DEF TypeOK
            <4>2. SelfCounted(t)' = SelfCounted(t) \cup {r} /\ r \notin SelfCounted(t)
                BY <1>2, <2>1, <2>2, <3>3 DEF SelfCounted, EventsOf
            <4>3. /\ IsFiniteSet(SelfCounted(t)) /\ Cardinality(SelfCounted(t)) \in Nat
                  /\ Cardinality(RowsOf(t)) \in Nat
                BY <3>1, CountedSets
            <4>4. Cardinality(SelfCounted(t)') = Cardinality(SelfCounted(t)) + 1
                BY <4>2, <4>3, FS_AddElement
            <4>5. RowsOf(t)' = RowsOf(t)
                BY <1>1 DEF RowsOf, EventsOf
            <4>6. usage[t] = Cardinality(RowsOf(t)) + Cardinality(SelfCounted(t))
                BY DEF UsageAgrees
            <4>7. Cardinality(RowsOf(t)') = Cardinality(RowsOf(t))
                BY <4>5
            <4>. QED  BY <4>1, <4>3, <4>4, <4>6, <4>7
        <3>. QED  BY <3>2, <3>3
    <2>. QED  BY <1>1, <2>3, <2>4 DEF UsageAgrees
<1>. QED  BY <1>4, <1>5, <1>6 DEF RequestStep

\* The recorder adds to the total of a token what it adds to its rows.
LEMMA AgreeRecorder ==
    ASSUME AgreeInv, RecorderStep
    PROVE  Counting' /\ UsageAgrees'
<1>. USE DEF AgreeInv, OnceInv, Types, stats, database, batchVars
<1>1. UNCHANGED <<request, dropped, token, disturbed>>
    BY DEF RecorderStep, Receive, TakeEvent, StoreDepth, FlushTick, FlushStores, CountFlushed,
           EmptyBatch, FlushFails, FlushUnanswered, WriteBatch, KeepBatch, NoticeStop, DrainReceive,
           DrainFlush
<1>2. Counting'
    BY <1>1 DEF Counting
<1>3. \A t : SelfCounted(t)' = SelfCounted(t)
    BY <1>1 DEF SelfCounted, EventsOf
<1>s. SUFFICES ASSUME NEW t \in Unlimited \ disturbed
               PROVE  usage'[t] = Cardinality(RowsOf(t)') + Cardinality(SelfCounted(t)')
    <2>1. disturbed' = disturbed
        BY <1>1
    <2>. QED  BY <1>2, <2>1 DEF UsageAgrees
<1>4. ASSUME UNCHANGED <<rows, usage>>
      PROVE  usage'[t] = Cardinality(RowsOf(t)') + Cardinality(SelfCounted(t)')
    BY <1>3, <1>4, SameCount
<1>5. ASSUME WriteBatch
      PROVE  usage'[t] = Cardinality(RowsOf(t)') + Cardinality(SelfCounted(t)')
    <2>1. t \in Tokens /\ token[t] = "active"
        BY RecorderAssumption DEF Counting
    <2>2. usage'[t] = usage[t] + Cardinality(Batch \cap EventsOf(t))
        BY <1>5, <2>1 DEF WriteBatch
    <2>3. Cardinality(RowsOf(t)') = Cardinality(RowsOf(t)) + Cardinality(Batch \cap EventsOf(t))
        BY <1>5, <2>1, RowsAdded
    <2>4. /\ Cardinality(RowsOf(t)) \in Nat /\ Cardinality(SelfCounted(t)) \in Nat
        BY <2>1, CountedSets
    <2>5. Cardinality(Batch \cap EventsOf(t)) \in Nat
        <3>1. Batch \cap EventsOf(t) \subseteq Requests
            BY DEF EventsOf
        <3>. QED  BY <3>1, RecorderAssumption, FS_Subset, FS_CardinalityType
    <2>6. usage[t] = Cardinality(RowsOf(t)) + Cardinality(SelfCounted(t))
        BY DEF UsageAgrees
    <2>7. Cardinality(SelfCounted(t)') = Cardinality(SelfCounted(t))
        BY <1>3
    <2>. QED  BY <2>2, <2>3, <2>4, <2>5, <2>6, <2>7
<1>. QED
    BY <1>4, <1>5
    DEF RecorderStep, Receive, TakeEvent, StoreDepth, FlushTick, FlushStores, CountFlushed,
        EmptyBatch, FlushFails, FlushUnanswered, NoticeStop, DrainReceive, DrainFlush

\* A token whose row is touched is disturbed from then on; the others keep theirs.
LEMMA AgreeOther ==
    ASSUME AgreeInv, OtherStep
    PROVE  Counting' /\ UsageAgrees'
<1>. USE DEF AgreeInv, OnceInv, Types, stats, database, batchVars
<1>1. UNCHANGED <<request, queue, pending>>
    BY OtherUnchanged
<1>2. dropped' = dropped
    BY DEF OtherStep, RetryDue, DisableToken, EnableToken, DeleteToken, ChangeToken, StopProcess,
           CloseRecorder, ForceExit, Exit, Ended, vars
<1>3. \A t : SelfCounted(t)' = SelfCounted(t)
    BY <1>1, <1>2 DEF SelfCounted, EventsOf
<1>4. ASSUME UNCHANGED <<rows, usage, token, disturbed>>
      PROVE  Counting' /\ UsageAgrees'
    BY <1>1, <1>2, <1>3, <1>4, SameCount DEF UsageAgrees, Counting
<1>5. ASSUME NEW u \in Tokens, DisableToken(u) \/ EnableToken(u) \/ DeleteToken(u)
      PROVE  Counting' /\ UsageAgrees'
    <2>1. /\ disturbed \subseteq disturbed'
          /\ \A t \in Tokens \ disturbed' : token'[t] = token[t] \/ token'[t] = "active"
        BY <1>5 DEF DisableToken, EnableToken, DeleteToken, ChangeToken, TypeOK
    <2>2. Counting'
        BY <1>1, <1>2, <2>1 DEF Counting
    <2>3. ASSUME NEW t \in Unlimited \ disturbed'
          PROVE  usage'[t] = usage[t] /\ \A r \in EventsOf(t) : rows'[r] = rows[r]
        <3>1. CASE DisableToken(u) \/ EnableToken(u)
            BY <3>1 DEF DisableToken, EnableToken
        <3>2. CASE DeleteToken(u)
            <4>1. /\ disturbed' = disturbed \cup {u}
                  /\ rows' = [r \in Requests |-> IF TokenOf[r] = u THEN 0 ELSE rows[r]]
                  /\ usage' = [usage EXCEPT ![u] = 0]
                BY <3>2 DEF DeleteToken
            <4>. QED  BY <4>1, <2>3, RecorderAssumption DEF EventsOf, TypeOK
        <3>. QED  BY <1>5, <3>1, <3>2
    <2>4. UsageAgrees'
        BY <1>3, <2>1, <2>3, SameCount DEF UsageAgrees
    <2>. QED  BY <2>2, <2>4
<1>6. CASE RetryDue \/ StopProcess \/ CloseRecorder \/ ForceExit \/ Exit \/ Ended \/ UNCHANGED vars
    BY <1>4, <1>6 DEF RetryDue, StopProcess, CloseRecorder, ForceExit, Exit, Ended, vars
<1>. QED  BY <1>5, <1>6 DEF OtherStep

\* The total of an unlimited token that was never disabled is the number of its rows
\* and of the requests that counted themselves, and no request has more rows than
\* answers were lost, for any number of requests and any order of failures
\* (RecordAPIRequestEvents, api/store/observability.go:73-102).
THEOREM UsageAlwaysCounted == Spec => []UsageCounted
<1>1. Init => AgreeInv
    <2>. SUFFICES ASSUME Init PROVE AgreeInv
        OBVIOUS
    <2>1. OnceInv
        BY OnceInit
    <2>2. Counting
        BY DEF Init, Counting
    <2>3. ASSUME NEW t \in Unlimited \ disturbed
          PROVE  usage[t] = Cardinality(RowsOf(t)) + Cardinality(SelfCounted(t))
        <3>1. RowsOf(t) = {} /\ SelfCounted(t) = {}
            BY DEF Init, RowsOf, SelfCounted, EventsOf
        <3>2. usage[t] = 0
            BY RecorderAssumption DEF Init
        <3>3. Cardinality(RowsOf(t)) = 0 /\ Cardinality(SelfCounted(t)) = 0
            BY <3>1, FS_EmptySet
        <3>. QED  BY <3>2, <3>3
    <2>. QED  BY <2>1, <2>2, <2>3 DEF AgreeInv, UsageAgrees
<1>2. AgreeInv /\ [Next]_vars => AgreeInv'
    <2>. SUFFICES ASSUME AgreeInv, [Next]_vars PROVE AgreeInv'
        OBVIOUS
    <2>1. OnceInv'
        BY OnceStep DEF AgreeInv
    <2>2. CASE \E r \in Requests : BeginRequest(r) \/ RequestStep(r)
        BY <2>1, <2>2, AgreeRequest DEF AgreeInv
    <2>3. CASE RecorderStep
        BY <2>1, <2>3, AgreeRecorder DEF AgreeInv
    <2>4. CASE OtherStep
        BY <2>1, <2>4, AgreeOther DEF AgreeInv
    <2>. QED  BY <2>2, <2>3, <2>4 DEF Next, OtherStep
<1>3. AgreeInv => UsageCounted
    BY DEF AgreeInv, OnceInv, UsageCounted
<1>. QED  BY <1>1, <1>2, <1>3, PTL DEF Spec


==============================================================================
