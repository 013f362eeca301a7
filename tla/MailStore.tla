------------------------------ MODULE MailStore -------------------------------
(***************************************************************************)
(* Mailboxes, the mails in them, and mailbox_state, the table that holds   *)
(* the latest mail and the number of mails of each mailbox                 *)
(* (api/store/postgres.go, ingress.go, tooling.go), written at the same    *)
(* time by the LMTP workers, the HTTP requests and the retention loop.     *)
(*                                                                         *)
(* Every write is one PostgreSQL statement in READ COMMITTED.  A statement *)
(* begins: it takes its snapshot and its NOW().  It finishes: it has its   *)
(* row locks, looks at the newest version of each row it changes, but at   *)
(* all other rows as of its snapshot, and is committed.  What other        *)
(* statements do between the two is what the rules below are about.  The   *)
(* time for which locks are held is not modelled: it only delays others.   *)
(*                                                                         *)
(* Mails are numbered in the order of their received_at, which is the time *)
(* at which their statement began.  Beside some definitions stands a       *)
(* mistaken form.                                                          *)
(***************************************************************************)
EXTENDS Naturals, FiniteSets

CONSTANTS
    Addresses,   \* full addresses
    Requests,    \* HTTP requests that write
    Cleaner,     \* the retention loop
    MaxMails,    \* bound of the model: mails that arrive
    MaxTime,     \* bound of the model: times at which a mailbox can expire
    TTL,         \* values of the setting mailbox_ttl_minutes; 0 is "never"
    MaxKept,     \* CLEANUP_EMAIL_MAX_COUNT, 0 if there is no limit
    MaxFaults,   \* bound of the model: statements that fail
    Does         \* bound of the model: what each request may ask for

ASSUME StoreAssumption ==
    /\ Does \in [Requests -> SUBSET {"emails", "mailboxes", "copy", "batch"}]
    /\ Cleaner \notin Requests
    /\ MaxMails \in Nat /\ MaxTime \in Nat /\ MaxKept \in Nat /\ MaxFaults \in Nat
    /\ TTL \subseteq Nat

VARIABLES
    now,        \* the clock
    arrived,    \* how many mails have begun to be stored
    delivering, \* mails whose statement has begun
    rcpt,       \* the address of a mail
    start,      \* NOW() of its statement
    ttl,        \* the TTL of the routing snapshot at that time
    mails,      \* rows of emails
    mailboxes,  \* addresses that have a row in mailboxes
    keep,       \* keep_forever
    expires,    \* expires_at
    projected,  \* addresses that have a row in mailbox_state
    latest,     \* latest_email_id
    count,      \* email_count
    stateKeep,  \* keep_forever in mailbox_state
    stmt,       \* the statement a request or the retention loop is in
    began,      \* its NOW()
    seen,       \* the mails in its snapshot
    doomed,     \* the mails it deletes
    cand,       \* the mailboxes it deletes or changes
    flag,       \* what SetMailboxKeepForever still has to copy
    only,       \* the conditions of PurgeMailboxes: "empty", "expired"; or "named"
    rows,       \* the rows of mailbox_state in its snapshot
    stage,      \* the next statement of the retention loop
    faults,
    raced,      \* history: the projection was computed from an outdated snapshot
    overtaken   \* history: two writers of the flag, or a failed copy of it

arriving == <<arrived, delivering, rcpt, start, ttl>>
tables == <<mails, mailboxes, keep, expires, projected, latest, count, stateKeep>>
statements == <<stmt, began, seen, doomed, cand, flag, only, rows>>
vars == <<now, arriving, tables, statements, stage, faults, raced, overtaken>>

Mails == 1..MaxMails
Clients == Requests \cup {Cleaner}
Never == MaxTime + 1
NoMail == 0
Kinds == {"none", "emails", "mailboxes", "copy", "batch"}
Stages == {"mailboxes", "old", "trim"}

Init ==
    /\ now = 0 /\ arrived = 0 /\ faults = 0
    /\ delivering = {} /\ mails = {} /\ mailboxes = {} /\ projected = {}
    /\ rcpt \in [Mails -> Addresses]
    /\ start = [e \in Mails |-> 0]
    /\ ttl = [e \in Mails |-> 0]
    /\ keep = [a \in Addresses |-> FALSE]
    /\ stateKeep = [a \in Addresses |-> FALSE]
    /\ expires = [a \in Addresses |-> 0]
    /\ latest = [a \in Addresses |-> NoMail]
    /\ count = [a \in Addresses |-> 0]
    /\ stmt = [c \in Clients |-> "none"]
    /\ began = [c \in Clients |-> 0]
    /\ seen = [c \in Clients |-> {}]
    /\ doomed = [c \in Clients |-> {}]
    /\ cand = [c \in Clients |-> {}]
    /\ flag = [c \in Clients |-> FALSE]
    /\ only = [c \in Clients |-> {}]
    /\ rows = [c \in Clients |-> {}]
    /\ stage = "mailboxes"
    /\ raced = {} /\ overtaken = {}

------------------------------------------------------------------------------
(* Reading *)

Newest(S) == IF S = {} THEN NoMail ELSE CHOOSE e \in S : \A f \in S : f <= e

ListEmails(a) == {e \in mails : rcpt[e] = a}

------------------------------------------------------------------------------
(* Statements in general *)

\* Request or loop c begins a statement that deletes the mails D and changes or
\* deletes the mailboxes A; one that matches nothing has no effect.  Of its
\* snapshot the mails of these mailboxes matter.
Begin(c, kind, D, A) ==
    /\ stmt[c] = "none"
    /\ D \cup A # {}
    /\ stmt' = [stmt EXCEPT ![c] = kind]
    /\ began' = [began EXCEPT ![c] = IF kind \in {"mailboxes", "batch"} THEN now ELSE 0]
    /\ seen' = [seen EXCEPT ![c] =
                   IF kind \in {"emails", "mailboxes"}
                   THEN {e \in mails : rcpt[e] \in A \cup {rcpt[d] : d \in D}} ELSE {}]
    /\ doomed' = [doomed EXCEPT ![c] = D]
    /\ cand' = [cand EXCEPT ![c] = A]

NextStageStops(c) ==
    stage' = IF c # Cleaner THEN stage
             ELSE IF stage = "mailboxes" THEN "old" ELSE "trim"

\* The loop goes on whether its statement succeeded or not.
NextStage(c) ==
    stage' = IF c # Cleaner THEN stage
             ELSE CASE stage = "mailboxes" -> "old"
                    [] stage = "old" -> "trim"
                    [] stage = "trim" -> "mailboxes"

\* Rows that are gone are nobody's candidates: a mailbox that is made anew is
\* another row.
End(c, gone) ==
    /\ stmt' = [stmt EXCEPT ![c] = "none"]
    /\ began' = [began EXCEPT ![c] = 0]
    /\ seen' = [seen EXCEPT ![c] = {}]
    /\ doomed' = [doomed EXCEPT ![c] = {}]
    /\ cand' = [d \in Clients |-> IF d = c THEN {} ELSE cand[d] \ gone]
    /\ flag' = [flag EXCEPT ![c] = FALSE]
    /\ only' = [only EXCEPT ![c] = {}]
    /\ rows' = [rows EXCEPT ![c] = {}]
    /\ NextStage(c)

\* A deadlock, a broken connection, a deadline: the statement has no effect.
Fail(c) ==
    /\ stmt[c] # "none"
    /\ faults < MaxFaults
    /\ faults' = faults + 1
    /\ overtaken' = IF stmt[c] = "copy" THEN overtaken \cup cand[c] ELSE overtaken
    /\ End(c, {})
    /\ UNCHANGED <<now, arriving, tables, raced>>

Tick ==
    /\ now < MaxTime
    /\ now' = now + 1
    /\ UNCHANGED <<arriving, tables, statements, stage, faults, raced, overtaken>>

------------------------------------------------------------------------------
(* Mail arrives *)

Expiry(minutes, time) ==
    IF minutes = 0 \/ time + minutes > MaxTime THEN Never ELSE time + minutes

BeginInsert(e) ==
    /\ e = arrived + 1
    /\ arrived' = e
    /\ delivering' = delivering \cup {e}
    /\ start' = [start EXCEPT ![e] = now]
    /\ \E minutes \in TTL : ttl' = [ttl EXCEPT ![e] = minutes]
    /\ UNCHANGED <<now, rcpt, tables, statements, stage, faults, raced, overtaken>>

EndInsert(e) ==
    /\ delivering' = delivering \ {e}
    /\ start' = [start EXCEPT ![e] = 0]
    /\ ttl' = [ttl EXCEPT ![e] = 0]

\* ON CONFLICT DO UPDATE: a mailbox that has expired lives again.
Renewed(a, e) ==
    IF a \notin mailboxes THEN Expiry(ttl[e], start[e])
    ELSE IF keep[a] THEN expires[a]
    ELSE IF ttl[e] = 0 THEN Never
    ELSE IF expires[a] = Never \/ expires[a] <= start[e] THEN Expiry(ttl[e], start[e])
    ELSE expires[a]

LatestAfterAny(a, e) == e

\* The newer of the two, by received_at.
LatestAfter(a, e) == IF a \notin projected \/ e > latest[a] THEN e ELSE latest[a]

FlagAfterFirst(a) == IF a \in projected THEN stateKeep[a] ELSE keep[a]

FlagAfter(a) == keep[a]

Copying(a) == {c \in Clients : stmt[c] = "copy" /\ a \in cand[c]}

\* One statement makes or renews the mailbox, stores the mail and brings the
\* projection up to date.
InsertEmailResolved(e) ==
    LET a == rcpt[e] IN
    /\ e \in delivering
    /\ EndInsert(e)
    /\ mails' = mails \cup {e}
    /\ mailboxes' = mailboxes \cup {a}
    /\ expires' = [expires EXCEPT ![a] = Renewed(a, e)]
    /\ projected' = projected \cup {a}
    /\ latest' = [latest EXCEPT ![a] = LatestAfter(a, e)]
    /\ count' = [count EXCEPT ![a] = @ + 1]
    /\ stateKeep' = [stateKeep EXCEPT ![a] = FlagAfter(a)]
    /\ raced' = IF LatestAfter(a, e) = e /\ (\A f \in ListEmails(a) : f < e)
                THEN raced \ {a} ELSE raced
    /\ overtaken' = IF Copying(a) = {} THEN overtaken \ {a} ELSE overtaken
    /\ UNCHANGED <<now, arrived, rcpt, keep, statements, stage, faults>>

\* The worker reports a failure, the sender keeps the mail (see LmtpIngress).
InsertFails(e) ==
    /\ e \in delivering
    /\ faults < MaxFaults
    /\ faults' = faults + 1
    /\ EndInsert(e)
    /\ UNCHANGED <<now, arrived, rcpt, tables, statements, stage, raced, overtaken>>

\* The condition on the mailbox's own row.
Purgeable(a, conds, time) ==
    \/ "named" \in conds
    \/ /\ ~keep[a]
       /\ "expired" \in conds => expires[a] < time

------------------------------------------------------------------------------
(* Mails are deleted *)

DeleteEmail(c, e) ==
    /\ c \in Requests
    /\ Begin(c, "emails", {e} \cap mails, {})
    /\ UNCHANGED <<now, arriving, tables, flag, only, rows, stage, faults, raced, overtaken>>

\* Those received before some time; the caller decides when that is.
OlderThan(k, S) == {e \in S : e <= k}

PurgeEmails(c, k, A) ==
    /\ c \in Requests
    /\ Begin(c, "emails", {e \in OlderThan(k, mails) : rcpt[e] \in A}, {})
    /\ UNCHANGED <<now, arriving, tables, flag, only, rows, stage, faults, raced, overtaken>>

DeleteEmailsOlderThan(k) ==
    /\ stage = "old"
    /\ Begin(Cleaner, "emails", OlderThan(k, mails), {})
    /\ UNCHANGED <<now, arriving, tables, flag, only, rows, stage, faults, raced, overtaken>>

OverflowLate(S) == {e \in S : Cardinality({f \in S : f > e}) > MaxKept}

\* All but the newest, over all mailboxes.
Overflow(S) == {e \in S : Cardinality({f \in S : f > e}) >= MaxKept}

TrimEmailsToMaxCount ==
    /\ stage = "trim"
    /\ MaxKept > 0
    /\ Begin(Cleaner, "emails", Overflow(mails), {})
    /\ UNCHANGED <<now, arriving, tables, flag, only, rows, stage, faults, raced, overtaken>>

\* A statement that matches nothing, or none: email_retention_minutes or
\* CLEANUP_EMAIL_MAX_COUNT is zero.
SkipStage ==
    /\ \/ stage = "mailboxes" /\ (\A a \in mailboxes : ~Purgeable(a, {"expired"}, now))
       \/ stage = "old"
       \/ stage = "trim" /\ (MaxKept = 0 \/ Overflow(mails) = {})
    /\ stmt[Cleaner] = "none"
    /\ NextStage(Cleaner)
    /\ UNCHANGED <<now, arriving, tables, statements, faults, raced, overtaken>>

Least(m, n) == IF m < n THEN m ELSE n

ReplacementSame(c, a, D) == Newest({e \in seen[c] : rcpt[e] = a})

\* The newest mail of the snapshot that this statement does not delete.
Replacement(c, a, D) == Newest({e \in seen[c] \ D : rcpt[e] = a})

RemovedAgain(c) == {e \in doomed[c] : rcpt[e] \in projected}

\* Rows that others deleted meanwhile are not returned.
Removed(c) == doomed[c] \cap mails

\* mailbox_state is read anew when its row is locked, the mails are not.
deleteEmailsAndRefreshProjection(c) ==
    LET D == Removed(c)
        gone(a) == {e \in D : rcpt[e] = a}
        replaced == {a \in Addresses : gone(a) # {} /\ latest[a] \in gone(a) \cup {NoMail}}
        outdated(a) == {e \in seen[c] : rcpt[e] = a} # ListEmails(a)
    IN
    /\ stmt[c] = "emails"
    /\ mails' = mails \ D
    /\ latest' = [a \in Addresses |-> IF a \in replaced THEN Replacement(c, a, D)
                                                       ELSE latest[a]]
    /\ count' = [a \in Addresses |->
                    count[a] - Least(count[a], Cardinality(gone(a)))]
    /\ raced' = {a \in raced \cup replaced : a \in replaced => outdated(a)}
    /\ End(c, {})
    /\ UNCHANGED <<now, arriving, mailboxes, keep, expires, projected, stateKeep, faults,
                   overtaken>>

------------------------------------------------------------------------------
(* Mailboxes *)

CreateMailbox(c, a) ==
    /\ c \in Requests
    /\ stmt[c] = "none"
    /\ a \notin mailboxes
    /\ mailboxes' = mailboxes \cup {a}
    /\ keep' = [keep EXCEPT ![a] = FALSE]
    /\ \E minutes \in TTL : expires' = [expires EXCEPT ![a] = Expiry(minutes, now)]
    /\ UNCHANGED <<now, arriving, mails, projected, latest, count, stateKeep, statements,
                   stage, faults, raced, overtaken>>

DeleteMailbox(c, a) ==
    /\ c \in Requests
    /\ a \in mailboxes
    /\ Begin(c, "mailboxes", {}, {a})
    /\ only' = [only EXCEPT ![c] = {"named"}]
    /\ UNCHANGED <<now, arriving, tables, flag, rows, stage, faults, raced, overtaken>>

MatchesFull(a, conds) == Purgeable(a, conds, now)

\* The conditions, as of the snapshot.
Matches(a, conds) ==
    /\ Purgeable(a, conds, now)
    /\ "empty" \in conds => ListEmails(a) = {}

PurgeMailboxes(c, A, conds) ==
    /\ c \in Requests
    /\ Begin(c, "mailboxes", {}, {a \in mailboxes \cap A : Matches(a, conds)})
    /\ only' = [only EXCEPT ![c] = conds]
    /\ UNCHANGED <<now, arriving, tables, flag, rows, stage, faults, raced, overtaken>>

DeleteExpiredMailboxes ==
    /\ stage = "mailboxes"
    /\ Begin(Cleaner, "mailboxes", {},
             {a \in mailboxes : Purgeable(a, {"expired"}, now)})
    /\ only' = [only EXCEPT ![Cleaner] = {"expired"}]
    /\ UNCHANGED <<now, arriving, tables, flag, rows, stage, faults, raced, overtaken>>

DoomedAtStart(c) == cand[c]

\* A row that was changed meanwhile is looked at again, but the mails of the
\* mailbox are still those of the snapshot.
StillDoomed(c) == {a \in cand[c] : Purgeable(a, only[c], began[c])}

StatesLeftAll(gone) == projected

\* ON DELETE CASCADE.
StatesLeft(gone) == projected \ gone

\* Mails and the row of mailbox_state go with the mailbox.
FinishMailboxes(c) ==
    LET gone == StillDoomed(c) IN
    /\ stmt[c] = "mailboxes"
    /\ mailboxes' = mailboxes \ gone
    /\ mails' = {e \in mails : rcpt[e] \notin gone}
    /\ projected' = StatesLeft(gone)
    /\ keep' = [a \in Addresses |-> keep[a] /\ a \notin gone]
    /\ stateKeep' = [a \in Addresses |-> stateKeep[a] /\ a \notin gone]
    /\ expires' = [a \in Addresses |-> IF a \in gone THEN 0 ELSE expires[a]]
    /\ latest' = [a \in Addresses |-> IF a \in gone THEN NoMail ELSE latest[a]]
    /\ count' = [a \in Addresses |-> IF a \in gone THEN 0 ELSE count[a]]
    /\ raced' = raced \ gone
    /\ overtaken' = overtaken \ gone
    /\ End(c, gone)
    /\ UNCHANGED <<now, arriving, faults>>

\* The first statement changes the mailbox, by its identifier.
SetMailboxKeepForever(c, a, value) ==
    /\ c \in Requests
    /\ a \in mailboxes
    /\ Begin(c, "copy", {}, {a})
    /\ flag' = [flag EXCEPT ![c] = value]
    /\ keep' = [keep EXCEPT ![a] = value]
    /\ \E minutes \in TTL :
          expires' = [expires EXCEPT ![a] = IF value THEN Never ELSE Expiry(minutes, now)]
    /\ overtaken' = IF Copying(a) = {} THEN overtaken \ {a} ELSE overtaken \cup {a}
    /\ UNCHANGED <<now, arriving, mails, mailboxes, projected, latest, count, stateKeep,
                   only, rows, stage, faults, raced>>

\* The second copies what the first returned; its error is ignored.
CopyKeepForever(c) ==
    /\ stmt[c] = "copy"
    /\ stateKeep' = [a \in Addresses |-> IF a \in cand[c] \cap projected THEN flag[c]
                                         ELSE stateKeep[a]]
    /\ End(c, {})
    /\ UNCHANGED <<now, arriving, mails, mailboxes, keep, expires, projected, latest, count,
                   faults, raced, overtaken>>

BeginBatch(c, A, value) ==
    /\ c \in Requests
    /\ Begin(c, "batch", {}, A \cap mailboxes)
    /\ flag' = [flag EXCEPT ![c] = value]
    /\ rows' = [rows EXCEPT ![c] = A \cap projected]
    /\ UNCHANGED <<now, arriving, tables, only, stage, faults, raced, overtaken>>

\* Both tables in one statement.  A row of mailbox_state that the snapshot had not
\* is not changed.
SetManyMailboxesKeepForever(c) ==
    LET A == cand[c]
        S == A \cap rows[c]
    IN
    /\ stmt[c] = "batch"
    /\ keep' = [a \in Addresses |-> IF a \in A THEN flag[c] ELSE keep[a]]
    /\ \E minutes \in TTL :
          expires' = [a \in Addresses |->
                         IF a \notin A THEN expires[a]
                         ELSE IF flag[c] THEN Never ELSE Expiry(minutes, began[c])]
    /\ stateKeep' = [a \in Addresses |-> IF a \in S THEN flag[c] ELSE stateKeep[a]]
    /\ overtaken' = {a \in overtaken \cup A :
                        a \in A => Copying(a) # {} \/ a \in projected \ rows[c]}
    /\ End(c, {})
    /\ UNCHANGED <<now, arriving, mails, mailboxes, projected, latest, count, faults, raced>>

------------------------------------------------------------------------------

\* The mailboxes of a caller that match the filters of the request.
buildMailboxCleanupWhere == SUBSET Addresses

CleanupEmails(c) ==
    \E k \in Mails, A \in buildMailboxCleanupWhere : PurgeEmails(c, k, A)

CleanupMailboxes(c) ==
    \E A \in buildMailboxCleanupWhere, conds \in SUBSET {"empty", "expired"} :
       PurgeMailboxes(c, A, conds)

UpdateRetention(c) ==
    \E a \in Addresses, value \in BOOLEAN : SetMailboxKeepForever(c, a, value)

\* Identifiers that are not the caller's are left out.
BatchUpdateRetention(c) ==
    \E A \in SUBSET Addresses, value \in BOOLEAN : BeginBatch(c, A, value)

RequestStep(c) ==
    \/ "emails" \in Does[c] /\ ((\E e \in Mails : DeleteEmail(c, e)) \/ CleanupEmails(c))
    \/ /\ "mailboxes" \in Does[c]
       /\ \/ \E a \in Addresses : CreateMailbox(c, a) \/ DeleteMailbox(c, a)
          \/ CleanupMailboxes(c)
    \/ "copy" \in Does[c] /\ UpdateRetention(c)
    \/ "batch" \in Does[c] /\ BatchUpdateRetention(c)

CleanerStep ==
    \/ DeleteExpiredMailboxes
    \/ \E k \in Mails : DeleteEmailsOlderThan(k)
    \/ TrimEmailsToMaxCount
    \/ SkipStage

Finish(c) ==
    \/ deleteEmailsAndRefreshProjection(c)
    \/ FinishMailboxes(c)
    \/ CopyKeepForever(c)
    \/ SetManyMailboxesKeepForever(c)

Next ==
    \/ Tick
    \/ \E e \in Mails : BeginInsert(e) \/ InsertEmailResolved(e) \/ InsertFails(e)
    \/ \E c \in Requests : RequestStep(c)
    \/ \E c \in Clients : Finish(c) \/ Fail(c)
    \/ CleanerStep

\* The ticker keeps ticking, PostgreSQL finishes what the loop has begun.
Fairness == WF_vars(CleanerStep \/ Finish(Cleaner))

Spec == Init /\ [][Next]_vars
FairSpec == Spec /\ Fairness

------------------------------------------------------------------------------
(* Properties *)

\* Types, and what the foreign keys say: a mail and a row of mailbox_state have
\* their mailbox (api/store/auxiliary_schema.go:111-130).
TypeOK ==
    /\ now \in 0..MaxTime /\ arrived \in 0..MaxMails /\ faults \in 0..MaxFaults
    /\ delivering \subseteq Mails
    /\ rcpt \in [Mails -> Addresses]
    /\ start \in [Mails -> 0..MaxTime]
    /\ ttl \in [Mails -> TTL \cup {0}]
    /\ mails \subseteq {e \in 1..arrived : rcpt[e] \in projected}
    /\ mailboxes \subseteq Addresses
    /\ projected \subseteq mailboxes
    /\ keep \in [Addresses -> BOOLEAN]
    /\ expires \in [Addresses -> 0..Never]
    /\ latest \in [Addresses -> 0..MaxMails]
    /\ count \in [Addresses -> Nat]
    /\ stateKeep \in [Addresses -> BOOLEAN]
    /\ stmt \in [Clients -> Kinds]
    /\ began \in [Clients -> 0..MaxTime]
    /\ seen \in [Clients -> SUBSET Mails]
    /\ doomed \in [Clients -> SUBSET Mails]
    /\ cand \in [Clients -> SUBSET mailboxes]
    /\ flag \in [Clients -> BOOLEAN]
    /\ only \in [Clients -> SUBSET {"empty", "expired", "named"}]
    /\ rows \in [Clients -> SUBSET Addresses]
    /\ stage \in Stages
    /\ raced \subseteq projected
    /\ overtaken \subseteq Addresses

\* email_count is the number of mails, whatever statements overlap: GREATEST in
\* api/store/postgres.go:693 never has anything to correct.
CountAgrees ==
    \A a \in Addresses : count[a] = Cardinality(ListEmails(a))

\* The projection names the newest mail, unless a statement that replaced it had
\* an outdated snapshot and no newer mail has come since (postgres.go:665-764,
\* ingress.go:174-222).
ProjectionExact ==
    \A a \in projected \ raced : latest[a] = Newest(ListEmails(a))

\* mailbox_state agrees with the mails (postgres.go:665-764): both of the above.
StateAgrees == CountAgrees /\ ProjectionExact

\* keep_forever in both tables agrees when no request is between its two
\* statements, unless the second one failed, two such requests overlapped, or a
\* batch began before the first mail had made the row (postgres.go:479-508,
\* tooling.go:218-272).
FlagsAgree ==
    \A a \in projected \ overtaken : Copying(a) = {} => stateKeep[a] = keep[a]

\* A mailbox that was renewed or marked keep_forever while a statement that
\* deletes expired mailboxes had begun survives it (postgres.go:471-477,
\* tooling.go:363-383).
RetentionSparesRenewed ==
    [][\A c \in Clients : \A a \in mailboxes \ mailboxes' :
          stmt[c] = "mailboxes" /\ stmt'[c] = "none" /\ "named" \notin only[c] =>
             /\ ~keep[a]
             /\ "expired" \in only[c] => expires[a] < now]_vars

\* A cleanup of empty mailboxes loses no mail that was stored when it began
\* (tooling.go:368).
EmptyLosesOnlyUnseen ==
    [][\A c \in Clients :
          stmt[c] = "mailboxes" /\ stmt'[c] = "none" /\ "empty" \in only[c] =>
             (mails \ mails') \cap seen[c] = {}]_vars

\* A deletion takes only what its condition means (tooling.go:363-383): both of the above.
DeletionsSpare == RetentionSparesRenewed /\ EmptyLosesOnlyUnseen

\* A mailbox that has expired is removed, renewed or kept at last (main.go:336-346).
ExpiredGo ==
    \A a \in Addresses :
       (a \in mailboxes /\ ~keep[a] /\ expires[a] < now)
       ~> (a \in mailboxes => keep[a] \/ expires[a] >= now)

\* When no more mail comes, no more than the allowed number is left (main.go:356-360).
OverflowGoes ==
    (MaxKept > 0 /\ Cardinality(mails) > MaxKept) ~> Cardinality(mails) <= MaxKept

\* The retention loop does all its work (main.go:319-364): both of the above.
RetentionGoesOn == ExpiredGo /\ OverflowGoes

==============================================================================
