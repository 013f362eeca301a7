---------------------------- MODULE MailStoreProofs ----------------------------
(***************************************************************************)
(* Theorems about MailStore, for any addresses, requests, number of mails, *)
(* length of time, TTLs and failures.                                      *)
(***************************************************************************)
EXTENDS MailStore, FiniteSetTheorems, TLAPS

------------------------------------------------------------------------------
(* The newest of some mails *)

\* A set of naturals with a bound has a greatest element.
LEMMA GreatestExists ==
    ASSUME NEW n \in Nat, NEW S \in SUBSET (0..n), S # {}
    PROVE  \E e \in S : \A f \in S : f <= e
<1>1. IsWellFoundedOn(StrictSubsetOrdering(0..n), FiniteSubsetsOf(0..n))
    BY FS_StrictSubsetOrderingWellFounded
<1>. DEFINE Above(e) == {f \in S : f > e}
            T == {Above(e) : e \in S}
<1>2. T \subseteq FiniteSubsetsOf(0..n) /\ T # {}
    <2>1. IsFiniteSet(0..n)
        BY FS_Interval
    <2>2. \A e \in S : Above(e) \in SUBSET (0..n) /\ IsFiniteSet(Above(e))
        BY <2>1, FS_Subset
    <2>. QED  BY <2>2 DEF FiniteSubsetsOf
<1>3. PICK x \in T : \A y \in T : <<y, x>> \notin StrictSubsetOrdering(0..n)
    BY <1>1, <1>2, WFMin
<1>4. PICK e \in S : x = Above(e)
    OBVIOUS
<1>5. ASSUME NEW f \in S, f > e PROVE FALSE
    <2>1. Above(f) \subseteq Above(e) /\ f \in Above(e) /\ f \notin Above(f)
        <3>1. f \in Int /\ e \in Int /\ \A g \in S : g \in Int
            OBVIOUS
        <3>2. f \in Above(e) /\ f \notin Above(f)
            BY <1>5, <3>1
        <3>3. ASSUME NEW g \in Above(f) PROVE g \in Above(e)
            BY <1>5, <3>1
        <3>. QED  BY <3>2, <3>3
    <2>2. Above(f) \in SUBSET (0..n) /\ Above(e) \in SUBSET (0..n) /\ Above(f) # Above(e)
        BY <2>1
    <2>. HIDE DEF Above
    <2>3. <<Above(f), Above(e)>> \in StrictSubsetOrdering(0..n)
        BY <2>1, <2>2 DEF StrictSubsetOrdering
    <2>. QED  BY <2>3, <1>3, <1>4
<1>6. e \in Int /\ \A g \in S : g \in Int
    OBVIOUS
<1>. QED  BY <1>5, <1>6

\* The newest mail is one of them, and there is only one that is newest.
LEMMA NewestIs ==
    ASSUME NEW S \in SUBSET Mails
    PROVE  /\ S = {} => Newest(S) = NoMail
           /\ S # {} => Newest(S) \in S /\ \A f \in S : f <= Newest(S)
           /\ \A e \in S : (\A f \in S : f <= e) => Newest(S) = e
<1>1. S \in SUBSET (0..MaxMails) /\ MaxMails \in Nat
    BY StoreAssumption DEF Mails
<1>2. S # {} => \E e \in S : \A f \in S : f <= e
    BY <1>1, GreatestExists
<1>3. ASSUME NEW e \in S, \A f \in S : f <= e PROVE Newest(S) = e
    <2>1. \A d \in S : (\A f \in S : f <= d) => d = e
        BY <1>1, <1>3
    <2>. QED  BY <1>3, <2>1 DEF Newest
<1>. QED  BY <1>2, <1>3 DEF Newest

------------------------------------------------------------------------------
(* Types *)

\* A mail is stored once: what is being delivered has arrived, and is not stored.
Delivered == delivering \subseteq (1..arrived) \ mails

TypeInv == TypeOK /\ Delivered

\* The variables of the statements.
StatementsOK ==
    /\ stmt \in [Clients -> Kinds]
    /\ began \in [Clients -> 0..MaxTime]
    /\ seen \in [Clients -> SUBSET Mails]
    /\ doomed \in [Clients -> SUBSET Mails]
    /\ cand \in [Clients -> SUBSET mailboxes]
    /\ flag \in [Clients -> BOOLEAN]
    /\ only \in [Clients -> SUBSET {"empty", "expired", "named"}]
    /\ rows \in [Clients -> SUBSET Addresses]
    /\ stage \in Stages

\* A statement begins with mails and mailboxes that are there.
LEMMA BeginTypes ==
    ASSUME TypeOK, NEW c \in Clients, NEW kind \in Kinds, NEW D \in SUBSET mails,
           NEW A \in SUBSET mailboxes, Begin(c, kind, D, A)
    PROVE  /\ stmt' \in [Clients -> Kinds]
           /\ began' \in [Clients -> 0..MaxTime]
           /\ seen' \in [Clients -> SUBSET Mails]
           /\ doomed' \in [Clients -> SUBSET Mails]
           /\ cand' \in [Clients -> SUBSET mailboxes]
<1>1. mails \subseteq Mails /\ 0 \in 0..MaxTime /\ now \in 0..MaxTime
    BY StoreAssumption DEF TypeOK, Mails
<1>2. {e \in mails : rcpt[e] \in A \cup {rcpt[d] : d \in D}} \in SUBSET Mails
    BY <1>1
<1>3. (IF kind \in {"mailboxes", "batch"} THEN now ELSE 0) \in 0..MaxTime
    BY <1>1
<1>4. (IF kind \in {"emails", "mailboxes"}
       THEN {e \in mails : rcpt[e] \in A \cup {rcpt[d] : d \in D}} ELSE {}) \in SUBSET Mails
    BY <1>2
<1>. QED  BY <1>1, <1>3, <1>4 DEF Begin, TypeOK

\* When it has ended, nobody counts on a mailbox that is gone.
LEMMA EndTypes ==
    ASSUME TypeOK, NEW c \in Clients, NEW gone, End(c, gone)
    PROVE  /\ stmt' \in [Clients -> Kinds]
           /\ began' \in [Clients -> 0..MaxTime]
           /\ seen' \in [Clients -> SUBSET Mails]
           /\ doomed' \in [Clients -> SUBSET Mails]
           /\ cand' \in [Clients -> SUBSET (mailboxes \ gone)]
           /\ flag' \in [Clients -> BOOLEAN]
           /\ only' \in [Clients -> SUBSET {"empty", "expired", "named"}]
           /\ rows' \in [Clients -> SUBSET Addresses]
           /\ stage' \in Stages
<1>1. 0 \in 0..MaxTime
    BY StoreAssumption
<1>2. stage' \in Stages
    BY DEF End, NextStage, TypeOK, Stages
<1>. QED  BY <1>1, <1>2 DEF End, TypeOK, Kinds

LEMMA ExpiryType ==
    ASSUME NEW minutes \in Nat, NEW time \in Nat
    PROVE  Expiry(minutes, time) \in 0..Never
BY StoreAssumption DEF Expiry, Never

\* The mails of a mailbox are mails.
LEMMA ListEmailsType ==
    ASSUME TypeOK, NEW a
    PROVE  ListEmails(a) \in SUBSET Mails /\ IsFiniteSet(ListEmails(a))
<1>1. ListEmails(a) \in SUBSET (1..MaxMails)
    BY StoreAssumption DEF TypeOK, ListEmails
<1>2. IsFiniteSet(1..MaxMails)
    BY StoreAssumption, FS_Interval
<1>. QED  BY <1>1, <1>2, FS_Subset DEF Mails

\* A mail that arrives is later than those stored.
LEMMA ArrivalLater ==
    ASSUME NEW n \in Nat, NEW S, S \subseteq 1..n, NEW D, D \subseteq 1..n \ S
    PROVE  D \cup {n + 1} \subseteq 1..(n + 1) \ S /\ S \subseteq 1..(n + 1)
OBVIOUS

\* Mail arrives with the types kept.
LEMMA MailTypes ==
    ASSUME TypeInv, NEW e \in Mails, BeginInsert(e) \/ InsertEmailResolved(e) \/ InsertFails(e)
    PROVE  TypeInv'
<1>. USE StoreAssumption DEF TypeInv, TypeOK, Delivered, Mails, statements
<1>1. CASE BeginInsert(e)
    <2>1. ttl' \in [Mails -> TTL \cup {0}] /\ start' \in [Mails -> 0..MaxTime]
        BY <1>1 DEF BeginInsert
    <2>2. /\ arrived' = arrived + 1 /\ arrived' \in 0..MaxMails
          /\ mails' = mails /\ delivering' = delivering \cup {arrived + 1}
        BY <1>1 DEF BeginInsert, tables
    <2>a. /\ arrived \in Nat /\ mails \subseteq 1..arrived
          /\ delivering \subseteq 1..arrived \ mails
        OBVIOUS
    <2>3. Delivered' /\ mails' \subseteq 1..arrived' /\ delivering' \subseteq Mails
        <3>. HIDE StoreAssumption DEF TypeInv, TypeOK
        <3>1. Delivered' /\ mails' \subseteq 1..arrived'
            BY <2>2, <2>a, ArrivalLater
        <3>2. delivering' \subseteq 1..arrived' /\ MaxMails \in Nat /\ arrived' \in 0..MaxMails
            BY <2>2, <2>a, StoreAssumption
        <3>. QED  BY <3>1, <3>2
    <2>. QED  BY <1>1, <2>1, <2>2, <2>3 DEF BeginInsert, tables
<1>2. ASSUME EndInsert(e) PROVE ttl' \in [Mails -> TTL \cup {0}] /\ start' \in [Mails -> 0..MaxTime]
    BY <1>2 DEF EndInsert
<1>3. CASE InsertFails(e)
    BY <1>2, <1>3 DEF InsertFails, EndInsert, tables
<1>4. CASE InsertEmailResolved(e)
    <2>. DEFINE a == rcpt[e]
    <2>1. a \in Addresses /\ e \in 1..arrived
        BY <1>4 DEF InsertEmailResolved
    <2>2. Renewed(a, e) \in 0..Never
        <3>1. ttl[e] \in Nat /\ start[e] \in Nat /\ Never \in 0..Never /\ expires[a] \in 0..Never
            BY <2>1 DEF Never
        <3>. QED  BY <3>1, ExpiryType DEF Renewed
    <2>3. expires' \in [Addresses -> 0..Never] /\ count' \in [Addresses -> Nat]
        BY <1>4, <2>1, <2>2 DEF InsertEmailResolved
    <2>4. latest' \in [Addresses -> 0..MaxMails] /\ stateKeep' \in [Addresses -> BOOLEAN]
        BY <1>4, <2>1 DEF InsertEmailResolved, LatestAfter, FlagAfter
    <2>5. /\ ttl' \in [Mails -> TTL \cup {0}] /\ start' \in [Mails -> 0..MaxTime]
          /\ delivering' = delivering \ {e}
        BY <1>2, <1>4 DEF InsertEmailResolved, EndInsert
    <2>6. mailboxes' \subseteq Addresses /\ projected' \subseteq mailboxes' /\ mailboxes \subseteq mailboxes'
        BY <1>4, <2>1 DEF InsertEmailResolved
    <2>7. mails' \subseteq {f \in 1..arrived : rcpt[f] \in projected'} /\ raced' \subseteq projected'
        BY <1>4, <2>1 DEF InsertEmailResolved
    <2>8. overtaken' \subseteq Addresses
        BY <1>4 DEF InsertEmailResolved
    <2>. QED  BY <1>4, <2>3, <2>4, <2>5, <2>6, <2>7, <2>8 DEF InsertEmailResolved
<1>. QED  BY <1>1, <1>3, <1>4

\* A request, or the loop, begins a statement that is a deletion or a change.
LEMMA DeletionTypes ==
    ASSUME TypeInv, NEW c \in Clients, NEW kind \in Kinds, NEW D \in SUBSET mails,
           NEW A \in SUBSET mailboxes, Begin(c, kind, D, A),
           UNCHANGED <<now, arriving, tables, stage, faults, raced, overtaken>>,
           flag' \in [Clients -> BOOLEAN],
           only' \in [Clients -> SUBSET {"empty", "expired", "named"}],
           rows' \in [Clients -> SUBSET Addresses]
    PROVE  TypeInv'
<1>1. /\ stmt' \in [Clients -> Kinds]
      /\ began' \in [Clients -> 0..MaxTime]
      /\ seen' \in [Clients -> SUBSET Mails]
      /\ doomed' \in [Clients -> SUBSET Mails]
      /\ cand' \in [Clients -> SUBSET mailboxes]
    BY BeginTypes DEF TypeInv
<1>. QED  BY <1>1 DEF TypeInv, TypeOK, Delivered, arriving, tables

\* What a request begins.
LEMMA RequestTypes ==
    ASSUME TypeInv, NEW c \in Requests, RequestStep(c)
    PROVE  TypeInv'
<1>. USE DEF Kinds
<1>0. c \in Clients /\ {} \in SUBSET mails /\ {} \in SUBSET mailboxes
    BY DEF Clients
<1>1. /\ flag \in [Clients -> BOOLEAN]
      /\ only \in [Clients -> SUBSET {"empty", "expired", "named"}]
      /\ rows \in [Clients -> SUBSET Addresses]
      /\ projected \subseteq Addresses
    BY DEF TypeInv, TypeOK
<1>2. ASSUME NEW e \in Mails, DeleteEmail(c, e) PROVE TypeInv'
    BY <1>0, <1>1, <1>2, DeletionTypes DEF DeleteEmail
<1>3. ASSUME NEW k \in Mails, NEW A \in buildMailboxCleanupWhere, PurgeEmails(c, k, A)
      PROVE  TypeInv'
    <2>1. {e \in OlderThan(k, mails) : rcpt[e] \in A} \in SUBSET mails
        BY DEF OlderThan
    <2>. QED  BY <1>0, <1>1, <1>3, <2>1, DeletionTypes DEF PurgeEmails
<1>4. ASSUME NEW a \in Addresses, CreateMailbox(c, a) PROVE TypeInv'
    <2>1. PICK minutes \in TTL : expires' = [expires EXCEPT ![a] = Expiry(minutes, now)]
        BY <1>4 DEF CreateMailbox
    <2>2. Expiry(minutes, now) \in 0..Never
        BY <2>1, StoreAssumption, ExpiryType DEF TypeInv, TypeOK
    <2>3. expires' \in [Addresses -> 0..Never] /\ keep' \in [Addresses -> BOOLEAN]
        BY <1>4, <2>1, <2>2 DEF CreateMailbox, TypeInv, TypeOK
    <2>. QED  BY <1>4, <2>3 DEF CreateMailbox, TypeInv, TypeOK, Delivered, arriving, statements
<1>5. ASSUME NEW a \in Addresses, DeleteMailbox(c, a) PROVE TypeInv'
    <2>1. only' \in [Clients -> SUBSET {"empty", "expired", "named"}]
        BY <1>1, <1>5 DEF DeleteMailbox
    <2>. QED  BY <1>0, <1>1, <1>5, <2>1, DeletionTypes DEF DeleteMailbox
<1>6. ASSUME NEW A \in buildMailboxCleanupWhere, NEW conds \in SUBSET {"empty", "expired"},
             PurgeMailboxes(c, A, conds)
      PROVE  TypeInv'
    <2>1. only' \in [Clients -> SUBSET {"empty", "expired", "named"}]
        BY <1>1, <1>6 DEF PurgeMailboxes
    <2>2. {a \in mailboxes \cap A : Matches(a, conds)} \in SUBSET mailboxes
        OBVIOUS
    <2>. QED  BY <1>0, <1>1, <1>6, <2>1, <2>2, DeletionTypes DEF PurgeMailboxes
<1>7. ASSUME NEW a \in Addresses, NEW value \in BOOLEAN, SetMailboxKeepForever(c, a, value)
      PROVE  TypeInv'
    <2>1. /\ stmt' \in [Clients -> Kinds]
          /\ began' \in [Clients -> 0..MaxTime]
          /\ seen' \in [Clients -> SUBSET Mails]
          /\ doomed' \in [Clients -> SUBSET Mails]
          /\ cand' \in [Clients -> SUBSET mailboxes]
        <3>1. {a} \in SUBSET mailboxes /\ Begin(c, "copy", {}, {a})
            BY <1>7 DEF SetMailboxKeepForever
        <3>. QED  BY <1>0, <3>1, BeginTypes DEF TypeInv
    <2>2. PICK minutes \in TTL :
             expires' = [expires EXCEPT ![a] = IF value THEN Never ELSE Expiry(minutes, now)]
        BY <1>7 DEF SetMailboxKeepForever
    <2>3. Expiry(minutes, now) \in 0..Never /\ Never \in 0..Never
        BY <2>2, StoreAssumption, ExpiryType DEF TypeInv, TypeOK, Never
    <2>4. expires' \in [Addresses -> 0..Never]
        BY <2>2, <2>3 DEF TypeInv, TypeOK
    <2>5. keep' \in [Addresses -> BOOLEAN] /\ flag' \in [Clients -> BOOLEAN] /\ overtaken' \subseteq Addresses
        BY <1>7 DEF SetMailboxKeepForever, TypeInv, TypeOK
    <2>. QED  BY <1>7, <2>1, <2>4, <2>5 DEF SetMailboxKeepForever, TypeInv, TypeOK, Delivered, arriving
<1>8. ASSUME NEW A \in SUBSET Addresses, NEW value \in BOOLEAN, BeginBatch(c, A, value)
      PROVE  TypeInv'
    <2>1. flag' \in [Clients -> BOOLEAN] /\ rows' \in [Clients -> SUBSET Addresses]
        BY <1>1, <1>8 DEF BeginBatch
    <2>2. A \cap mailboxes \in SUBSET mailboxes
        OBVIOUS
    <2>. QED  BY <1>0, <1>1, <1>8, <2>1, <2>2, DeletionTypes DEF BeginBatch
<1>. QED  BY <1>2, <1>3, <1>4, <1>5, <1>6, <1>7, <1>8
          DEF RequestStep, CleanupEmails, CleanupMailboxes, UpdateRetention, BatchUpdateRetention

\* What the retention loop begins, or passes over.
LEMMA CleanerTypes ==
    ASSUME TypeInv, CleanerStep
    PROVE  TypeInv'
<1>. USE DEF Kinds
<1>0. Cleaner \in Clients /\ {} \in SUBSET mails /\ {} \in SUBSET mailboxes
    BY DEF Clients
<1>1. /\ flag \in [Clients -> BOOLEAN]
      /\ only \in [Clients -> SUBSET {"empty", "expired", "named"}]
      /\ rows \in [Clients -> SUBSET Addresses]
    BY DEF TypeInv, TypeOK
<1>2. CASE DeleteExpiredMailboxes
    <2>1. only' \in [Clients -> SUBSET {"empty", "expired", "named"}]
        BY <1>1, <1>2 DEF DeleteExpiredMailboxes
    <2>2. {a \in mailboxes : Purgeable(a, {"expired"}, now)} \in SUBSET mailboxes
        OBVIOUS
    <2>. QED  BY <1>0, <1>1, <1>2, <2>1, <2>2, DeletionTypes DEF DeleteExpiredMailboxes
<1>3. ASSUME NEW k \in Mails, DeleteEmailsOlderThan(k) PROVE TypeInv'
    <2>1. OlderThan(k, mails) \in SUBSET mails
        BY DEF OlderThan
    <2>. QED  BY <1>0, <1>1, <1>3, <2>1, DeletionTypes DEF DeleteEmailsOlderThan
<1>4. CASE TrimEmailsToMaxCount
    <2>1. Overflow(mails) \in SUBSET mails
        BY DEF Overflow
    <2>. QED  BY <1>0, <1>1, <1>4, <2>1, DeletionTypes DEF TrimEmailsToMaxCount
<1>5. CASE SkipStage
    <2>1. stage' \in Stages
        BY <1>5 DEF SkipStage, NextStage, TypeInv, TypeOK, Stages
    <2>. QED  BY <1>5, <2>1 DEF SkipStage, TypeInv, TypeOK, Delivered, arriving, tables, statements
<1>. QED  BY <1>2, <1>3, <1>4, <1>5 DEF CleanerStep


\* What ends.
LEMMA FinishTypes ==
    ASSUME TypeInv, NEW c \in Clients, Finish(c) \/ Fail(c)
    PROVE  TypeInv'
<1>. USE StoreAssumption DEF TypeInv
<1>0. ASSUME NEW gone, End(c, gone)
      PROVE  /\ stmt' \in [Clients -> Kinds]
             /\ began' \in [Clients -> 0..MaxTime]
             /\ seen' \in [Clients -> SUBSET Mails]
             /\ doomed' \in [Clients -> SUBSET Mails]
             /\ cand' \in [Clients -> SUBSET (mailboxes \ gone)]
             /\ flag' \in [Clients -> BOOLEAN]
             /\ only' \in [Clients -> SUBSET {"empty", "expired", "named"}]
             /\ rows' \in [Clients -> SUBSET Addresses]
             /\ stage' \in Stages
    BY <1>0, EndTypes
<1>1. CASE Fail(c)
    <2>1. overtaken' \subseteq Addresses /\ faults' \in 0..MaxFaults
        BY <1>1 DEF Fail, TypeOK
    <2>2. End(c, {}) /\ UNCHANGED <<now, arriving, tables, raced>>
        BY <1>1 DEF Fail
    <2>3. mailboxes \ {} = mailboxes
        OBVIOUS
    <2>. QED  BY <1>0, <2>1, <2>2, <2>3 DEF TypeOK, Delivered, arriving, tables
<1>2. CASE deleteEmailsAndRefreshProjection(c)
    <2>. DEFINE D == Removed(c)
                gone(a) == {e \in D : rcpt[e] = a}
                replaced == {a \in Addresses : gone(a) # {} /\ latest[a] \in gone(a) \cup {NoMail}}
    <2>1. D \subseteq mails /\ mails' = mails \ D
        BY <1>2 DEF deleteEmailsAndRefreshProjection, Removed
    <2>2. latest' \in [Addresses -> 0..MaxMails]
        <3>1. ASSUME NEW a PROVE Replacement(c, a, D) \in 0..MaxMails
            <4>1. {e \in seen[c] \ D : rcpt[e] = a} \in SUBSET Mails
                BY DEF TypeOK
            <4>. QED  BY <4>1, NewestIs DEF Replacement, NoMail, Mails
        <3>2. latest' = [a \in Addresses |-> IF a \in replaced THEN Replacement(c, a, D) ELSE latest[a]]
            BY <1>2 DEF deleteEmailsAndRefreshProjection
        <3>. HIDE DEF replaced, D
        <3>. QED  BY <3>1, <3>2 DEF TypeOK
    <2>3. count' \in [Addresses -> Nat]
        <3>1. ASSUME NEW a \in Addresses
              PROVE  count[a] - Least(count[a], Cardinality(gone(a))) \in Nat
            <4>1. gone(a) \subseteq ListEmails(a)
                BY <2>1 DEF ListEmails
            <4>2. Cardinality(gone(a)) \in Nat
                BY <4>1, ListEmailsType, FS_Subset, FS_CardinalityType
            <4>. QED  BY <4>2 DEF Least, TypeOK
        <3>2. count' = [a \in Addresses |-> count[a] - Least(count[a], Cardinality(gone(a)))]
            BY <1>2 DEF deleteEmailsAndRefreshProjection
        <3>. HIDE DEF gone
        <3>. QED  BY <3>1, <3>2
    <2>4. raced' \subseteq projected
        <3>1. replaced \subseteq projected
            BY <2>1 DEF TypeOK
        <3>2. raced' \subseteq raced \cup replaced
            BY <1>2 DEF deleteEmailsAndRefreshProjection
        <3>. QED  BY <3>1, <3>2 DEF TypeOK
    <2>5. End(c, {}) /\ mailboxes \ {} = mailboxes
        BY <1>2 DEF deleteEmailsAndRefreshProjection
    <2>6. UNCHANGED <<now, arriving, mailboxes, keep, expires, projected, stateKeep, faults, overtaken>>
        BY <1>2 DEF deleteEmailsAndRefreshProjection
    <2>. HIDE DEF D
    <2>. QED  BY <1>0, <2>1, <2>2, <2>3, <2>4, <2>5, <2>6 DEF TypeOK, Delivered, arriving
<1>3. CASE FinishMailboxes(c)
    <2>. DEFINE gone == StillDoomed(c)
    <2>1. /\ mailboxes' = mailboxes \ gone /\ projected' = projected \ gone
          /\ mails' = {e \in mails : rcpt[e] \notin gone} /\ raced' = raced \ gone
          /\ overtaken' = overtaken \ gone
        BY <1>3 DEF FinishMailboxes, StatesLeft
    <2>2. /\ keep' \in [Addresses -> BOOLEAN] /\ stateKeep' \in [Addresses -> BOOLEAN]
        BY <1>3 DEF FinishMailboxes, TypeOK
    <2>3. /\ expires' \in [Addresses -> 0..Never] /\ latest' \in [Addresses -> 0..MaxMails]
          /\ count' \in [Addresses -> Nat]
        BY <1>3 DEF FinishMailboxes, TypeOK, NoMail, Never
    <2>4. End(c, gone) /\ UNCHANGED <<now, arriving, faults>>
        BY <1>3 DEF FinishMailboxes
    <2>. HIDE DEF gone
    <2>. QED  BY <1>0, <2>1, <2>2, <2>3, <2>4 DEF TypeOK, Delivered, arriving
<1>4. CASE CopyKeepForever(c)
    <2>1. stateKeep' \in [Addresses -> BOOLEAN]
        BY <1>4 DEF CopyKeepForever, TypeOK
    <2>2. End(c, {}) /\ mailboxes \ {} = mailboxes
        BY <1>4 DEF CopyKeepForever
    <2>. QED  BY <1>0, <1>4, <2>1, <2>2 DEF CopyKeepForever, TypeOK, Delivered, arriving
<1>5. CASE SetManyMailboxesKeepForever(c)
    <2>1. keep' \in [Addresses -> BOOLEAN] /\ stateKeep' \in [Addresses -> BOOLEAN]
        BY <1>5 DEF SetManyMailboxesKeepForever, TypeOK
    <2>2. expires' \in [Addresses -> 0..Never]
        <3>1. PICK minutes \in TTL :
                 expires' = [a \in Addresses |->
                                IF a \notin cand[c] THEN expires[a]
                                ELSE IF flag[c] THEN Never ELSE Expiry(minutes, began[c])]
            BY <1>5 DEF SetManyMailboxesKeepForever
        <3>2. Expiry(minutes, began[c]) \in 0..Never /\ Never \in 0..Never
            BY ExpiryType DEF TypeOK, Never
        <3>. QED  BY <3>1, <3>2 DEF TypeOK
    <2>3. overtaken' \subseteq Addresses
        BY <1>5 DEF SetManyMailboxesKeepForever, TypeOK
    <2>4. End(c, {}) /\ mailboxes \ {} = mailboxes
        BY <1>5 DEF SetManyMailboxesKeepForever
    <2>. QED  BY <1>0, <1>5, <2>1, <2>2, <2>3, <2>4
              DEF SetManyMailboxesKeepForever, TypeOK, Delivered, arriving
<1>. QED  BY <1>1, <1>2, <1>3, <1>4, <1>5 DEF Finish

LEMMA TypeStep == TypeInv /\ [Next]_vars => TypeInv'
<1>. SUFFICES ASSUME TypeInv, [Next]_vars PROVE TypeInv'
    OBVIOUS
<1>1. CASE Tick
    BY <1>1, StoreAssumption DEF Tick, TypeInv, TypeOK, Delivered, arriving, tables, statements
<1>2. CASE UNCHANGED vars
    BY <1>2 DEF vars, TypeInv, TypeOK, Delivered, arriving, tables, statements
<1>. QED  BY <1>1, <1>2, MailTypes, RequestTypes, CleanerTypes, FinishTypes DEF Next

LEMMA TypeInit == Init => TypeInv
BY StoreAssumption DEF Init, TypeInv, TypeOK, Delivered, Mails, Kinds, Stages, Never, NoMail

\* Mails and rows of mailbox_state always have their mailbox, however inserts, deletions
\* and the retention loop overlap (the foreign keys, api/store/auxiliary_schema.go:111-130).
THEOREM TypeCorrect == Spec => []TypeOK
<1>1. TypeInv => TypeOK
    BY DEF TypeInv
<1>. QED  BY <1>1, TypeInit, TypeStep, PTL DEF Spec


------------------------------------------------------------------------------
(* The projection *)

StateInv == TypeInv /\ StateAgrees

\* Statements that touch neither mails nor the projection.
LEMMA StateUnchanged ==
    ASSUME StateAgrees, UNCHANGED <<mails, rcpt, projected, latest, count, raced>>
    PROVE  StateAgrees'
BY DEF StateAgrees, CountAgrees, ProjectionExact, ListEmails

\* A mail that arrives is counted, and named if it is the newest.
LEMMA InsertAgrees ==
    ASSUME StateInv, NEW e \in Mails, InsertEmailResolved(e)
    PROVE  StateAgrees'
<1>. DEFINE a == rcpt[e]
<1>1. /\ a \in Addresses /\ e \notin mails /\ e \in Nat
      /\ mails' = mails \cup {e} /\ rcpt' = rcpt
      /\ projected' = projected \cup {a}
      /\ latest' = [latest EXCEPT ![a] = LatestAfter(a, e)]
      /\ count' = [count EXCEPT ![a] = @ + 1]
      /\ raced' = IF LatestAfter(a, e) = e /\ (\A f \in ListEmails(a) : f < e)
                  THEN raced \ {a} ELSE raced
    BY StoreAssumption DEF StateInv, TypeInv, Delivered, TypeOK, InsertEmailResolved, Mails, arriving
<1>2. ListEmails(a)' = ListEmails(a) \cup {e} /\ e \notin ListEmails(a)
    BY <1>1 DEF ListEmails
<1>3. \A b \in Addresses \ {a} : ListEmails(b)' = ListEmails(b)
    BY <1>1 DEF ListEmails
<1>4. ListEmails(a) \in SUBSET Mails /\ IsFiniteSet(ListEmails(a))
    BY ListEmailsType DEF StateInv, TypeInv
<1>5. CountAgrees'
    <2>1. Cardinality(ListEmails(a) \cup {e}) = Cardinality(ListEmails(a)) + 1
        BY <1>2, <1>4, FS_AddElement
    <2>. QED  BY <1>1, <1>2, <1>3, <2>1 DEF StateInv, StateAgrees, CountAgrees, TypeInv, TypeOK
<1>6. a \notin raced' => latest'[a] = Newest(ListEmails(a)')
    <2>1. latest'[a] = LatestAfter(a, e) /\ ListEmails(a) \cup {e} \in SUBSET Mails
        BY <1>1, <1>4 DEF StateInv, TypeInv, TypeOK
    <2>2. e \in Nat /\ latest[a] \in Nat /\ \A f \in ListEmails(a) : f \in Nat
        BY <1>1, <1>4, StoreAssumption DEF Mails, StateInv, TypeInv, TypeOK
    <2>3. ASSUME \A f \in ListEmails(a) : f < e, LatestAfter(a, e) = e
          PROVE  latest'[a] = Newest(ListEmails(a)')
        <3>1. \A f \in ListEmails(a) \cup {e} : f <= e
            BY <2>2, <2>3
        <3>. QED  BY <1>2, <2>1, <2>3, <3>1, NewestIs
    <2>4. ASSUME ~(LatestAfter(a, e) = e /\ \A f \in ListEmails(a) : f < e), a \notin raced
          PROVE  latest'[a] = Newest(ListEmails(a)')
        <3>1. a \in projected /\ ListEmails(a) # {}
            <4>1. a \notin projected => ListEmails(a) = {}
                BY DEF StateInv, TypeInv, TypeOK, ListEmails
            <4>2. a \notin projected => LatestAfter(a, e) = e
                BY DEF LatestAfter
            <4>3. a \in projected /\ ListEmails(a) = {} => latest[a] = NoMail
                BY <2>4, NewestIs, <1>4 DEF StateInv, StateAgrees, ProjectionExact
            <4>4. a \in projected /\ ListEmails(a) = {} => LatestAfter(a, e) = e
                BY <4>3, StoreAssumption DEF LatestAfter, NoMail, Mails
            <4>. QED  BY <2>4, <4>1, <4>2, <4>4
        <3>2. latest[a] \in ListEmails(a) /\ \A f \in ListEmails(a) : f <= latest[a]
            BY <2>4, <3>1, <1>4, NewestIs DEF StateInv, StateAgrees, ProjectionExact
        <3>3. e <= latest[a]
            <4>1. CASE e > latest[a]
                <5>1. LatestAfter(a, e) = e
                    BY <4>1 DEF LatestAfter
                <5>2. \A f \in ListEmails(a) : f < e
                    BY <2>2, <3>2, <4>1
                <5>. QED  BY <2>4, <5>1, <5>2
            <4>. QED  BY <2>2, <4>1
        <3>4. LatestAfter(a, e) = latest[a]
            BY <2>2, <3>1, <3>3 DEF LatestAfter
        <3>5. \A f \in ListEmails(a) \cup {e} : f <= latest[a]
            BY <3>2, <3>3
        <3>. QED  BY <1>2, <2>1, <3>2, <3>4, <3>5, NewestIs
    <2>. QED  BY <1>1, <2>3, <2>4
<1>7. ASSUME NEW b \in projected' \ raced', b # a PROVE latest'[b] = Newest(ListEmails(b)')
    <2>1. b \in projected \ raced /\ b \in Addresses
        BY <1>1, <1>7 DEF StateInv, TypeInv, TypeOK
    <2>. QED  BY <1>1, <1>3, <1>7, <2>1 DEF StateInv, StateAgrees, ProjectionExact, TypeInv, TypeOK
<1>8. ASSUME NEW b \in projected' \ raced' PROVE latest'[b] = Newest(ListEmails(b)')
    <2>1. CASE b = a
        BY <1>1, <1>6, <1>8, <2>1 DEF ListEmails
    <2>2. CASE b # a
        BY <1>7, <1>8, <2>2
    <2>. QED  BY <2>1, <2>2
<1>. QED  BY <1>5, <1>8 DEF StateAgrees, ProjectionExact

\* Mails that a statement deletes are no longer counted, whoever else has deleted some of
\* them; a replacement that was computed from an outdated snapshot is marked.
LEMMA DeletionAgrees ==
    ASSUME StateInv, NEW c \in Clients, deleteEmailsAndRefreshProjection(c)
    PROVE  StateAgrees'
<1>. DEFINE D == Removed(c)
            gone(a) == {e \in D : rcpt[e] = a}
            replaced == {a \in Addresses : gone(a) # {} /\ latest[a] \in gone(a) \cup {NoMail}}
            outdated(a) == {e \in seen[c] : rcpt[e] = a} # ListEmails(a)
<1>1. /\ D \subseteq mails /\ mails' = mails \ D /\ rcpt' = rcpt /\ projected' = projected
      /\ latest' = [a \in Addresses |-> IF a \in replaced THEN Replacement(c, a, D) ELSE latest[a]]
      /\ count' = [a \in Addresses |-> count[a] - Least(count[a], Cardinality(gone(a)))]
      /\ raced' = {a \in raced \cup replaced : a \in replaced => outdated(a)}
    BY DEF deleteEmailsAndRefreshProjection, Removed, arriving
<1>2. ASSUME NEW a \in Addresses
      PROVE  /\ ListEmails(a)' = ListEmails(a) \ gone(a) /\ gone(a) \subseteq ListEmails(a)
             /\ ListEmails(a) \in SUBSET Mails /\ IsFiniteSet(ListEmails(a))
    <2>1. ListEmails(a) \in SUBSET Mails /\ IsFiniteSet(ListEmails(a))
        BY ListEmailsType DEF StateInv, TypeInv
    <2>. QED  BY <1>1, <2>1 DEF ListEmails
<1>3. ASSUME NEW a \in Addresses PROVE count'[a] = Cardinality(ListEmails(a)')
    <2>1. Cardinality(ListEmails(a)) \in Nat /\ Cardinality(gone(a)) \in Nat
        BY <1>2, FS_CardinalityType, FS_Subset
    <2>2. Cardinality(gone(a)) <= Cardinality(ListEmails(a))
        BY <1>2, FS_Subset
    <2>3. Cardinality(ListEmails(a) \ gone(a)) = Cardinality(ListEmails(a)) - Cardinality(gone(a))
        <3>1. ListEmails(a) \cap gone(a) = gone(a)
            BY <1>2
        <3>. QED  BY <1>2, <3>1, FS_Difference
    <2>4. count[a] = Cardinality(ListEmails(a))
        BY DEF StateInv, StateAgrees, CountAgrees
    <2>5. count'[a] = count[a] - Least(count[a], Cardinality(gone(a)))
        BY <1>1
    <2>6. Least(count[a], Cardinality(gone(a))) = Cardinality(gone(a))
        <3>. HIDE DEF gone
        <3>. QED  BY <2>1, <2>2, <2>4 DEF Least
    <2>. HIDE DEF gone
    <2>. QED  BY <1>2, <2>3, <2>4, <2>5, <2>6
<1>4. ASSUME NEW a \in projected \ raced' PROVE latest'[a] = Newest(ListEmails(a)')
    <2>1. a \in Addresses
        BY DEF StateInv, TypeInv, TypeOK
    <2>2. CASE a \in replaced
        <3>1. {e \in seen[c] : rcpt[e] = a} = ListEmails(a)
            BY <1>1, <1>4, <2>2
        <3>2. {e \in seen[c] \ D : rcpt[e] = a} = ListEmails(a) \ gone(a)
            BY <3>1 DEF ListEmails
        <3>3. latest'[a] = Replacement(c, a, D)
            BY <1>1, <2>1, <2>2
        <3>. QED  BY <1>2, <2>1, <3>2, <3>3 DEF Replacement
    <2>3. CASE a \notin replaced
        <3>1. latest'[a] = latest[a] /\ a \notin raced
            BY <1>1, <1>4, <2>1, <2>3
        <3>2. latest[a] = Newest(ListEmails(a))
            BY <3>1, <1>4 DEF StateInv, StateAgrees, ProjectionExact
        <3>3. CASE gone(a) = {}
            BY <1>2, <2>1, <3>1, <3>2, <3>3
        <3>4. CASE gone(a) # {}
            <4>1. latest[a] \in ListEmails(a)' /\ \A f \in ListEmails(a)' : f <= latest[a]
                <5>1. ListEmails(a) # {} /\ latest[a] \notin gone(a)
                    BY <1>2, <2>1, <2>3, <3>4
                <5>2. latest[a] \in ListEmails(a) /\ \A f \in ListEmails(a) : f <= latest[a]
                    BY <5>1, <3>2, <1>2, <2>1, NewestIs
                <5>. HIDE DEF gone
                <5>. QED  BY <5>1, <5>2, <1>2, <2>1
            <4>2. ListEmails(a)' \in SUBSET Mails
                BY <1>2, <2>1
            <4>. QED  BY <3>1, <4>1, <4>2, NewestIs
        <3>. QED  BY <3>3, <3>4
    <2>. QED  BY <2>2, <2>3
<1>. QED  BY <1>1, <1>3, <1>4 DEF StateAgrees, CountAgrees, ProjectionExact

\* A mailbox takes its mails and its row of mailbox_state with it.
LEMMA MailboxAgrees ==
    ASSUME StateInv, NEW c \in Clients, FinishMailboxes(c)
    PROVE  StateAgrees'
<1>. DEFINE gone == StillDoomed(c)
<1>1. /\ mails' = {e \in mails : rcpt[e] \notin gone} /\ rcpt' = rcpt
      /\ projected' = projected \ gone /\ raced' = raced \ gone
      /\ \A a \in Addresses : latest'[a] = IF a \in gone THEN NoMail ELSE latest[a]
      /\ \A a \in Addresses : count'[a] = IF a \in gone THEN 0 ELSE count[a]
    BY DEF FinishMailboxes, StatesLeft, arriving
<1>. HIDE DEF gone
<1>2. \A a \in Addresses : ListEmails(a)' = IF a \in gone THEN {} ELSE ListEmails(a)
    BY <1>1 DEF ListEmails
<1>3. CountAgrees'
    BY <1>1, <1>2, FS_EmptySet DEF StateInv, StateAgrees, CountAgrees
<1>4. ProjectionExact'
    BY <1>1, <1>2 DEF StateInv, StateAgrees, ProjectionExact, TypeInv, TypeOK
<1>. QED  BY <1>3, <1>4 DEF StateAgrees

LEMMA StateStep == StateInv /\ [Next]_vars => StateInv'
<1>. SUFFICES ASSUME StateInv, [Next]_vars PROVE StateInv'
    OBVIOUS
<1>0. TypeInv'
    BY TypeStep DEF StateInv
<1>1. ASSUME UNCHANGED <<mails, rcpt, projected, latest, count, raced>> PROVE StateInv'
    BY <1>0, <1>1, StateUnchanged DEF StateInv
<1>2. CASE Tick \/ UNCHANGED vars
    BY <1>1, <1>2 DEF Tick, vars, arriving, tables
<1>3. ASSUME NEW e \in Mails, BeginInsert(e) \/ InsertEmailResolved(e) \/ InsertFails(e)
      PROVE  StateInv'
    <2>1. CASE BeginInsert(e) \/ InsertFails(e)
        BY <1>1, <2>1 DEF BeginInsert, InsertFails, arriving, tables
    <2>. QED  BY <1>0, <1>3, <2>1, InsertAgrees DEF StateInv
<1>4. ASSUME NEW c \in Requests, RequestStep(c) PROVE StateInv'
    <2>1. UNCHANGED <<mails, rcpt, projected, latest, count, raced>>
        BY <1>4 DEF RequestStep, DeleteEmail, CleanupEmails, PurgeEmails, CreateMailbox, DeleteMailbox,
                    CleanupMailboxes, PurgeMailboxes, UpdateRetention, SetMailboxKeepForever,
                    BatchUpdateRetention, BeginBatch, arriving, tables
    <2>. QED  BY <1>1, <2>1
<1>5. CASE CleanerStep
    BY <1>1, <1>5 DEF CleanerStep, DeleteExpiredMailboxes, DeleteEmailsOlderThan,
                      TrimEmailsToMaxCount, SkipStage, arriving, tables
<1>6. ASSUME NEW c \in Clients, Finish(c) \/ Fail(c) PROVE StateInv'
    <2>1. CASE Fail(c) \/ CopyKeepForever(c) \/ SetManyMailboxesKeepForever(c)
        BY <1>1, <2>1 DEF Fail, CopyKeepForever, SetManyMailboxesKeepForever, arriving, tables
    <2>. QED  BY <1>0, <1>6, <2>1, DeletionAgrees, MailboxAgrees DEF Finish, StateInv
<1>. QED  BY <1>2, <1>3, <1>4, <1>5, <1>6 DEF Next

LEMMA StateInit == Init => StateInv
<1>. SUFFICES ASSUME Init PROVE StateInv
    OBVIOUS
<1>1. \A a : ListEmails(a) = {}
    BY DEF Init, ListEmails
<1>. QED  BY <1>1, TypeInit, FS_EmptySet DEF Init, StateInv, StateAgrees, CountAgrees, ProjectionExact

\* email_count is the number of mails, and the projection names the newest of them, unless
\* a statement that replaced it had an outdated snapshot (api/store/postgres.go:665-764,
\* ingress.go:174-222): for any number of statements that overlap.
THEOREM StateAlwaysAgrees == Spec => []StateAgrees
<1>1. StateInv => StateAgrees
    BY DEF StateInv
<1>. QED  BY <1>1, StateInit, StateStep, PTL DEF Spec

------------------------------------------------------------------------------
(* keep_forever *)

\* A request that still has to copy the flag of a mailbox is the only one, and copies
\* what the mailbox has.
CopiesAlone ==
    \A a \in Addresses \ overtaken : \A c \in Copying(a) : flag[c] = keep[a] /\ Copying(a) = {c}

FlagInv == TypeInv /\ FlagsAgree /\ CopiesAlone

\* A statement that ends, copies no more; of a mailbox that is gone nothing is copied.
LEMMA CopyingEnds ==
    ASSUME TypeInv, NEW c \in Clients, NEW gone, End(c, gone)
    PROVE  /\ \A a : Copying(a)' = IF a \in gone THEN {} ELSE Copying(a) \ {c}
           /\ \A d \in Clients \ {c} : flag'[d] = flag[d]
<1>1. \A d \in Clients : /\ stmt'[d] = IF d = c THEN "none" ELSE stmt[d]
                         /\ cand'[d] = IF d = c THEN {} ELSE cand[d] \ gone
                         /\ d # c => flag'[d] = flag[d]
    BY DEF End, TypeInv, TypeOK
<1>. QED  BY <1>1 DEF Copying

\* A statement of another kind that begins copies nothing.
LEMMA CopyingBegins ==
    ASSUME TypeInv, NEW c \in Clients, NEW kind, NEW D, NEW A, Begin(c, kind, D, A),
           flag' = flag \/ \E value : flag' = [flag EXCEPT ![c] = value]
    PROVE  /\ \A a : Copying(a)' = IF kind = "copy" /\ a \in A THEN Copying(a) \cup {c} ELSE Copying(a)
           /\ \A d \in Clients \ {c} : flag'[d] = flag[d]
           /\ \A a : c \notin Copying(a)
<1>1. /\ stmt[c] = "none"
      /\ \A d \in Clients : /\ stmt'[d] = IF d = c THEN kind ELSE stmt[d]
                            /\ cand'[d] = IF d = c THEN A ELSE cand[d]
                            /\ d # c => flag'[d] = flag[d]
    BY DEF Begin, TypeInv, TypeOK
<1>. QED  BY <1>1 DEF Copying

LEMMA FlagUnchanged ==
    ASSUME FlagInv, UNCHANGED <<projected, overtaken, keep, stateKeep>>,
           \A a : Copying(a)' = Copying(a),
           \A a : \A c \in Copying(a) : flag'[c] = flag[c]
    PROVE  FlagsAgree' /\ CopiesAlone'
BY DEF FlagInv, FlagsAgree, CopiesAlone

\* Mail that arrives brings the flag of its mailbox into the row it makes.
LEMMA FlagMail ==
    ASSUME FlagInv, NEW e \in Mails, InsertEmailResolved(e)
    PROVE  FlagsAgree' /\ CopiesAlone'
<1>. DEFINE a == rcpt[e]
<1>1. /\ projected' = projected \cup {a} /\ keep' = keep /\ a \in Addresses
      /\ stateKeep' = [stateKeep EXCEPT ![a] = keep[a]]
      /\ overtaken' = IF Copying(a) = {} THEN overtaken \ {a} ELSE overtaken
      /\ stmt' = stmt /\ cand' = cand /\ flag' = flag
    BY DEF InsertEmailResolved, FlagAfter, statements, FlagInv, TypeInv, TypeOK
<1>2. \A b : Copying(b)' = Copying(b)
    BY <1>1 DEF Copying
<1>3. stateKeep'[a] = keep[a] /\ \A b \in Addresses \ {a} : stateKeep'[b] = stateKeep[b]
    BY <1>1 DEF FlagInv, TypeInv, TypeOK
<1>. HIDE DEF a
<1>4. FlagsAgree'
    BY <1>1, <1>2, <1>3 DEF FlagInv, FlagsAgree, TypeInv, TypeOK
<1>5. CopiesAlone'
    BY <1>1, <1>2 DEF FlagInv, CopiesAlone
<1>. QED  BY <1>4, <1>5

\* The first statement of a request leaves the copy to the second.
LEMMA FlagSet ==
    ASSUME FlagInv, NEW c \in Requests, NEW a \in Addresses, NEW value \in BOOLEAN,
           SetMailboxKeepForever(c, a, value)
    PROVE  FlagsAgree' /\ CopiesAlone'
<1>1. /\ Begin(c, "copy", {}, {a}) /\ c \in Clients
      /\ flag' = [flag EXCEPT ![c] = value] /\ keep' = [keep EXCEPT ![a] = value]
      /\ overtaken' = IF Copying(a) = {} THEN overtaken \ {a} ELSE overtaken \cup {a}
      /\ projected' = projected /\ stateKeep' = stateKeep
    BY DEF SetMailboxKeepForever, Clients
<1>2. /\ \A b : Copying(b)' = IF b = a THEN Copying(b) \cup {c} ELSE Copying(b)
      /\ \A d \in Clients \ {c} : flag'[d] = flag[d]
      /\ \A b : c \notin Copying(b)
    <2>1. flag' = flag \/ \E v : flag' = [flag EXCEPT ![c] = v]
        BY <1>1
    <2>2. /\ \A b : Copying(b)' = IF "copy" = "copy" /\ b \in {a} THEN Copying(b) \cup {c} ELSE Copying(b)
          /\ \A d \in Clients \ {c} : flag'[d] = flag[d]
          /\ \A b : c \notin Copying(b)
        BY <1>1, <2>1, CopyingBegins, Zenon DEF FlagInv
    <2>. QED  BY <2>2
<1>3. /\ flag'[c] = value /\ keep'[a] = value
      /\ \A b \in Addresses \ {a} : keep'[b] = keep[b]
    BY <1>1 DEF FlagInv, TypeInv, TypeOK
<1>4. FlagsAgree'
    BY <1>1, <1>2, <1>3 DEF FlagInv, FlagsAgree, TypeInv, TypeOK
<1>5. \A b : Copying(b) \subseteq Clients
    BY DEF Copying
<1>6. CopiesAlone'
    <2>1. ASSUME NEW b \in Addresses \ overtaken', NEW d \in Copying(b)'
          PROVE  flag'[d] = keep'[b] /\ Copying(b)' = {d}
        <3>1. CASE b = a
            BY <1>1, <1>2, <1>3, <2>1, <3>1
        <3>2. CASE b # a
            BY <1>1, <1>2, <1>3, <1>5, <2>1, <3>2 DEF FlagInv, CopiesAlone
        <3>. QED  BY <3>1, <3>2
    <2>. QED  BY <2>1 DEF CopiesAlone
<1>. QED  BY <1>4, <1>6

\* The second statement, if it succeeds, or fails without anybody noticing.
LEMMA FlagCopied ==
    ASSUME FlagInv, NEW c \in Clients, CopyKeepForever(c) \/ Fail(c)
    PROVE  FlagsAgree' /\ CopiesAlone'
<1>1. End(c, {}) /\ projected' = projected /\ keep' = keep
    BY DEF CopyKeepForever, Fail, tables
<1>2. /\ \A a : Copying(a)' = Copying(a) \ {c}
      /\ \A d \in Clients \ {c} : flag'[d] = flag[d]
    BY <1>1, CopyingEnds DEF FlagInv
<1>3. \A a : Copying(a) \subseteq Clients
    BY DEF Copying
<1>4. CASE CopyKeepForever(c)
    <2>1. /\ overtaken' = overtaken
          /\ \A a \in Addresses : stateKeep'[a] = IF c \in Copying(a) /\ a \in projected
                                                  THEN flag[c] ELSE stateKeep[a]
        BY <1>4 DEF CopyKeepForever, Copying
    <2>2. FlagsAgree'
        BY <1>1, <1>2, <2>1 DEF FlagInv, FlagsAgree, CopiesAlone, TypeInv, TypeOK
    <2>3. CopiesAlone'
        BY <1>1, <1>2, <1>3, <2>1 DEF FlagInv, CopiesAlone
    <2>. QED  BY <2>2, <2>3
<1>5. CASE Fail(c)
    <2>1. /\ stateKeep' = stateKeep /\ overtaken \subseteq overtaken'
          /\ \A a : c \in Copying(a) => a \in overtaken'
        BY <1>5 DEF Fail, Copying, tables
    <2>2. FlagsAgree'
        BY <1>1, <1>2, <2>1 DEF FlagInv, FlagsAgree, TypeInv, TypeOK
    <2>3. CopiesAlone'
        BY <1>1, <1>2, <1>3, <2>1 DEF FlagInv, CopiesAlone
    <2>. QED  BY <2>2, <2>3
<1>. QED  BY <1>4, <1>5

\* A batch writes both tables, but no row its snapshot had not.
LEMMA FlagBatch ==
    ASSUME FlagInv, NEW c \in Clients, SetManyMailboxesKeepForever(c)
    PROVE  FlagsAgree' /\ CopiesAlone'
<1>1. /\ End(c, {}) /\ projected' = projected /\ stmt[c] = "batch"
      /\ \A a \in Addresses : keep'[a] = IF a \in cand[c] THEN flag[c] ELSE keep[a]
      /\ \A a \in Addresses : stateKeep'[a] = IF a \in cand[c] \cap rows[c] THEN flag[c] ELSE stateKeep[a]
      /\ overtaken' = {a \in overtaken \cup cand[c] :
                          a \in cand[c] => Copying(a) # {} \/ a \in projected \ rows[c]}
    BY DEF SetManyMailboxesKeepForever
<1>2. /\ \A a : Copying(a)' = Copying(a) \ {c}
      /\ \A d \in Clients \ {c} : flag'[d] = flag[d]
      /\ \A a : c \notin Copying(a)
    BY <1>1, CopyingEnds DEF FlagInv, Copying
<1>3. \A a : Copying(a)' = Copying(a) /\ Copying(a) \subseteq Clients \ {c}
    BY <1>2 DEF Copying
<1>4. FlagsAgree'
    BY <1>1, <1>3 DEF FlagInv, FlagsAgree, TypeInv, TypeOK
<1>5. CopiesAlone'
    BY <1>1, <1>2, <1>3 DEF FlagInv, CopiesAlone
<1>. QED  BY <1>4, <1>5

\* A mailbox that goes takes its flags with it.
LEMMA FlagGone ==
    ASSUME FlagInv, NEW c \in Clients, FinishMailboxes(c)
    PROVE  FlagsAgree' /\ CopiesAlone'
<1>. DEFINE gone == StillDoomed(c)
<1>1. /\ End(c, gone) /\ stmt[c] = "mailboxes"
      /\ projected' = projected \ gone /\ overtaken' = overtaken \ gone
      /\ \A a \in Addresses : keep'[a] = (keep[a] /\ a \notin gone)
      /\ \A a \in Addresses : stateKeep'[a] = (stateKeep[a] /\ a \notin gone)
    BY DEF FinishMailboxes, StatesLeft
<1>. HIDE DEF gone
<1>2. /\ \A a : Copying(a)' = IF a \in gone THEN {} ELSE Copying(a) \ {c}
      /\ \A d \in Clients \ {c} : flag'[d] = flag[d]
      /\ \A a : c \notin Copying(a) /\ Copying(a) \subseteq Clients
    BY <1>1, CopyingEnds DEF FlagInv, Copying
<1>3. \A a \in Addresses \ gone : keep'[a] = keep[a] /\ stateKeep'[a] = stateKeep[a]
    BY <1>1 DEF FlagInv, TypeInv, TypeOK
<1>4. FlagsAgree'
    BY <1>1, <1>2, <1>3 DEF FlagInv, FlagsAgree, TypeInv, TypeOK
<1>5. CopiesAlone'
    BY <1>1, <1>2, <1>3 DEF FlagInv, CopiesAlone
<1>. QED  BY <1>4, <1>5

LEMMA FlagStep == FlagInv /\ [Next]_vars => FlagInv'
<1>. SUFFICES ASSUME FlagInv, [Next]_vars PROVE FlagInv'
    OBVIOUS
<1>0. TypeInv'
    BY TypeStep DEF FlagInv
<1>1. ASSUME UNCHANGED <<projected, overtaken, keep, stateKeep, stmt, cand, flag>> PROVE FlagInv'
    <2>1. \A a : Copying(a)' = Copying(a)
        BY <1>1 DEF Copying
    <2>. QED  BY <1>0, <1>1, <2>1, FlagUnchanged DEF FlagInv
<1>2. ASSUME NEW c \in Clients, NEW kind, kind # "copy", NEW D, NEW A, Begin(c, kind, D, A),
             flag' = flag \/ \E value : flag' = [flag EXCEPT ![c] = value],
             UNCHANGED <<projected, overtaken, keep, stateKeep>>
      PROVE  FlagInv'
    <2>1. /\ \A a : Copying(a)' = Copying(a) /\ c \notin Copying(a)
          /\ \A d \in Clients \ {c} : flag'[d] = flag[d]
        BY <1>2, CopyingBegins DEF FlagInv
    <2>2. \A a : \A d \in Copying(a) : flag'[d] = flag[d]
        BY <2>1 DEF Copying
    <2>. QED  BY <1>0, <1>2, <2>1, <2>2, FlagUnchanged DEF FlagInv
<1>3. CASE Tick \/ UNCHANGED vars
    BY <1>1, <1>3 DEF Tick, vars, tables, statements
<1>4. ASSUME NEW e \in Mails, BeginInsert(e) \/ InsertEmailResolved(e) \/ InsertFails(e)
      PROVE  FlagInv'
    <2>1. CASE BeginInsert(e) \/ InsertFails(e)
        BY <1>1, <2>1 DEF BeginInsert, InsertFails, tables, statements
    <2>. QED  BY <1>0, <1>4, <2>1, FlagMail DEF FlagInv
<1>5. ASSUME NEW c \in Requests, RequestStep(c) PROVE FlagInv'
    <2>0. c \in Clients
        BY DEF Clients
    <2>1. ASSUME NEW e \in Mails, DeleteEmail(c, e) PROVE FlagInv'
        BY <1>2, <2>0, <2>1 DEF DeleteEmail, tables
    <2>2. ASSUME NEW k \in Mails, NEW A, PurgeEmails(c, k, A) PROVE FlagInv'
        BY <1>2, <2>0, <2>2 DEF PurgeEmails, tables
    <2>3. ASSUME NEW a \in Addresses, CreateMailbox(c, a) PROVE FlagInv'
        <3>1. /\ \A b : Copying(b)' = Copying(b) /\ Copying(a) = {} /\ a \notin projected
              /\ projected' = projected /\ overtaken' = overtaken /\ stateKeep' = stateKeep
              /\ flag' = flag
            BY <2>3 DEF CreateMailbox, Copying, FlagInv, TypeInv, TypeOK, statements
        <3>2. \A b \in Addresses \ {a} : keep'[b] = keep[b]
            BY <2>3 DEF CreateMailbox, FlagInv, TypeInv, TypeOK
        <3>3. FlagsAgree' /\ CopiesAlone'
            BY <3>1, <3>2 DEF FlagInv, FlagsAgree, CopiesAlone, TypeInv, TypeOK
        <3>. QED  BY <1>0, <3>3 DEF FlagInv
    <2>4. ASSUME NEW a \in Addresses, DeleteMailbox(c, a) PROVE FlagInv'
        BY <1>2, <2>0, <2>4 DEF DeleteMailbox, tables
    <2>5. ASSUME NEW A, NEW conds, PurgeMailboxes(c, A, conds) PROVE FlagInv'
        BY <1>2, <2>0, <2>5 DEF PurgeMailboxes, tables
    <2>6. ASSUME NEW a \in Addresses, NEW value \in BOOLEAN, SetMailboxKeepForever(c, a, value)
          PROVE  FlagInv'
        BY <1>0, <2>6, FlagSet DEF FlagInv
    <2>7. ASSUME NEW A, NEW value, BeginBatch(c, A, value) PROVE FlagInv'
        BY <1>2, <2>0, <2>7 DEF BeginBatch, tables
    <2>. QED  BY <1>5, <2>1, <2>2, <2>3, <2>4, <2>5, <2>6, <2>7
              DEF RequestStep, CleanupEmails, CleanupMailboxes, UpdateRetention, BatchUpdateRetention
<1>6. CASE CleanerStep
    <2>0. Cleaner \in Clients
        BY DEF Clients
    <2>1. CASE SkipStage
        BY <1>1, <2>1 DEF SkipStage, tables, statements
    <2>2. CASE DeleteExpiredMailboxes
        BY <1>2, <2>0, <2>2 DEF DeleteExpiredMailboxes, tables
    <2>3. ASSUME NEW k \in Mails, DeleteEmailsOlderThan(k) PROVE FlagInv'
        BY <1>2, <2>0, <2>3 DEF DeleteEmailsOlderThan, tables
    <2>4. CASE TrimEmailsToMaxCount
        BY <1>2, <2>0, <2>4 DEF TrimEmailsToMaxCount, tables
    <2>. QED  BY <1>6, <2>1, <2>2, <2>3, <2>4 DEF CleanerStep
<1>7. ASSUME NEW c \in Clients, Finish(c) \/ Fail(c) PROVE FlagInv'
    <2>1. CASE deleteEmailsAndRefreshProjection(c)
        <3>1. /\ End(c, {}) /\ stmt[c] = "emails"
              /\ UNCHANGED <<projected, overtaken, keep, stateKeep>>
            BY <2>1 DEF deleteEmailsAndRefreshProjection
        <3>2. /\ \A a : Copying(a)' = Copying(a) \ {c}
              /\ \A d \in Clients \ {c} : flag'[d] = flag[d]
            BY <3>1, CopyingEnds DEF FlagInv
        <3>3. /\ \A a : Copying(a)' = Copying(a)
              /\ \A a : \A d \in Copying(a) : flag'[d] = flag[d]
            BY <3>1, <3>2 DEF Copying
        <3>. QED  BY <1>0, <3>1, <3>3, FlagUnchanged DEF FlagInv
    <2>. QED  BY <1>0, <1>7, <2>1, FlagCopied, FlagBatch, FlagGone DEF Finish, FlagInv
<1>. QED  BY <1>3, <1>4, <1>5, <1>6, <1>7 DEF Next

LEMMA FlagInit == Init => FlagInv
BY TypeInit DEF Init, FlagInv, FlagsAgree, CopiesAlone, Copying

\* keep_forever is the same in both tables, but between the two statements of a request,
\* after the second has failed, and after two writers of a flag have met
\* (api/store/postgres.go:479-508, tooling.go:218-272).
THEOREM FlagsAlwaysAgree == Spec => []FlagsAgree
<1>1. FlagInv => FlagsAgree
    BY DEF FlagInv
<1>. QED  BY <1>1, FlagInit, FlagStep, PTL DEF Spec


------------------------------------------------------------------------------
(* What a deletion of mailboxes may take *)

\* No statement is from the future, and one that deletes the mailboxes without mails has
\* none of their mails in its snapshot.
SpareInv ==
    /\ TypeInv
    /\ \A c \in Clients : began[c] <= now
    /\ \A c \in Clients : stmt[c] = "mailboxes" /\ "empty" \in only[c] => seen[c] = {}

\* A statement that begins.
LEMMA SpareBegins ==
    ASSUME SpareInv, NEW c \in Clients, NEW kind, NEW D, NEW A, Begin(c, kind, D, A), now' = now,
           kind # "mailboxes" \/ "empty" \notin only'[c] \/ seen'[c] = {},
           \A d \in Clients \ {c} : only'[d] = only[d]
    PROVE  /\ \A d \in Clients : began'[d] <= now'
           /\ \A d \in Clients : stmt'[d] = "mailboxes" /\ "empty" \in only'[d] => seen'[d] = {}
<1>1. /\ \A d \in Clients \ {c} : stmt'[d] = stmt[d] /\ began'[d] = began[d] /\ seen'[d] = seen[d]
      /\ stmt'[c] = kind /\ began'[c] \in {0, now}
    BY DEF Begin, SpareInv, TypeInv, TypeOK
<1>2. now \in Nat
    BY DEF SpareInv, TypeInv, TypeOK
<1>. QED  BY <1>1, <1>2 DEF SpareInv

\* One that ends.
LEMMA SpareEnds ==
    ASSUME SpareInv, NEW c \in Clients, NEW gone, End(c, gone), now' = now
    PROVE  /\ \A d \in Clients : began'[d] <= now'
           /\ \A d \in Clients : stmt'[d] = "mailboxes" /\ "empty" \in only'[d] => seen'[d] = {}
<1>1. /\ \A d \in Clients \ {c} : /\ stmt'[d] = stmt[d] /\ began'[d] = began[d]
                                  /\ seen'[d] = seen[d] /\ only'[d] = only[d]
      /\ stmt'[c] = "none" /\ began'[c] = 0
    BY DEF End, SpareInv, TypeInv, TypeOK
<1>2. now \in Nat
    BY DEF SpareInv, TypeInv, TypeOK
<1>. QED  BY <1>1, <1>2 DEF SpareInv

LEMMA SpareStep == SpareInv /\ [Next]_vars => SpareInv'
<1>. SUFFICES ASSUME SpareInv, [Next]_vars PROVE SpareInv'
    OBVIOUS
<1>0. TypeInv'
    BY TypeStep DEF SpareInv
<1>1. ASSUME now' \in {now, now + 1}, UNCHANGED <<began, stmt, only, seen>> PROVE SpareInv'
    BY <1>0, <1>1 DEF SpareInv, TypeInv, TypeOK
<1>2. ASSUME NEW c \in Clients, NEW kind, NEW D, NEW A, Begin(c, kind, D, A), now' = now,
             kind # "mailboxes" \/ "empty" \notin only'[c] \/ seen'[c] = {},
             \A d \in Clients \ {c} : only'[d] = only[d]
      PROVE  SpareInv'
    BY <1>0, <1>2, SpareBegins DEF SpareInv
<1>3. CASE Tick \/ UNCHANGED vars
    BY <1>1, <1>3 DEF Tick, vars, statements
<1>4. ASSUME NEW e \in Mails, BeginInsert(e) \/ InsertEmailResolved(e) \/ InsertFails(e)
      PROVE  SpareInv'
    BY <1>1, <1>4 DEF BeginInsert, InsertEmailResolved, InsertFails, statements
<1>5. ASSUME NEW c \in Requests, RequestStep(c) PROVE SpareInv'
    <2>0. c \in Clients
        BY DEF Clients
    <2>1. ASSUME NEW e \in Mails, DeleteEmail(c, e) PROVE SpareInv'
        BY <1>2, <2>0, <2>1 DEF DeleteEmail
    <2>2. ASSUME NEW k \in Mails, NEW A, PurgeEmails(c, k, A) PROVE SpareInv'
        BY <1>2, <2>0, <2>2 DEF PurgeEmails
    <2>3. ASSUME NEW a \in Addresses, CreateMailbox(c, a) PROVE SpareInv'
        BY <1>1, <2>3 DEF CreateMailbox, statements
    <2>4. ASSUME NEW a \in Addresses, DeleteMailbox(c, a) PROVE SpareInv'
        <3>1. /\ "empty" \notin only'[c] /\ now' = now
              /\ \A d \in Clients \ {c} : only'[d] = only[d]
            BY <2>0, <2>4 DEF DeleteMailbox, SpareInv, TypeInv, TypeOK
        <3>2. Begin(c, "mailboxes", {}, {a})
            BY <2>4 DEF DeleteMailbox
        <3>. QED  BY <1>2, <2>0, <3>1, <3>2
    <2>5. ASSUME NEW A, NEW conds, PurgeMailboxes(c, A, conds) PROVE SpareInv'
        <3>. DEFINE B == {a \in mailboxes \cap A : Matches(a, conds)}
        <3>1. /\ Begin(c, "mailboxes", {}, B) /\ now' = now /\ only'[c] = conds
              /\ \A d \in Clients \ {c} : only'[d] = only[d]
            BY <2>0, <2>5 DEF PurgeMailboxes, SpareInv, TypeInv, TypeOK
        <3>2. "empty" \in conds => \A e \in mails : rcpt[e] \notin B
            BY DEF Matches, ListEmails
        <3>. HIDE DEF B
        <3>3. "empty" \in conds => seen'[c] = {}
            BY <2>0, <3>1, <3>2 DEF Begin, SpareInv, TypeInv, TypeOK
        <3>. QED  BY <1>2, <2>0, <3>1, <3>3
    <2>6. ASSUME NEW a \in Addresses, NEW value \in BOOLEAN, SetMailboxKeepForever(c, a, value)
          PROVE  SpareInv'
        BY <1>2, <2>0, <2>6 DEF SetMailboxKeepForever
    <2>7. ASSUME NEW A, NEW value, BeginBatch(c, A, value) PROVE SpareInv'
        BY <1>2, <2>0, <2>7 DEF BeginBatch
    <2>. QED  BY <1>5, <2>1, <2>2, <2>3, <2>4, <2>5, <2>6, <2>7
              DEF RequestStep, CleanupEmails, CleanupMailboxes, UpdateRetention, BatchUpdateRetention
<1>6. CASE CleanerStep
    <2>0. Cleaner \in Clients
        BY DEF Clients
    <2>1. CASE SkipStage
        BY <1>1, <2>1 DEF SkipStage, statements
    <2>2. CASE DeleteExpiredMailboxes
        <3>1. /\ "empty" \notin only'[Cleaner] /\ now' = now
              /\ \A d \in Clients \ {Cleaner} : only'[d] = only[d]
            BY <2>0, <2>2 DEF DeleteExpiredMailboxes, SpareInv, TypeInv, TypeOK
        <3>2. Begin(Cleaner, "mailboxes", {}, {a \in mailboxes : Purgeable(a, {"expired"}, now)})
            BY <2>2 DEF DeleteExpiredMailboxes
        <3>. QED  BY <1>2, <2>0, <3>1, <3>2
    <2>3. ASSUME NEW k \in Mails, DeleteEmailsOlderThan(k) PROVE SpareInv'
        BY <1>2, <2>0, <2>3 DEF DeleteEmailsOlderThan
    <2>4. CASE TrimEmailsToMaxCount
        BY <1>2, <2>0, <2>4 DEF TrimEmailsToMaxCount
    <2>. QED  BY <1>6, <2>1, <2>2, <2>3, <2>4 DEF CleanerStep
<1>7. ASSUME NEW c \in Clients, Finish(c) \/ Fail(c) PROVE SpareInv'
    <2>1. now' = now /\ \E gone : End(c, gone)
        BY <1>7 DEF Finish, Fail, deleteEmailsAndRefreshProjection, FinishMailboxes, CopyKeepForever,
                    SetManyMailboxesKeepForever
    <2>. QED  BY <1>0, <2>1, SpareEnds DEF SpareInv
<1>. QED  BY <1>3, <1>4, <1>5, <1>6, <1>7 DEF Next

LEMMA SpareInit == Init => SpareInv
BY TypeInit DEF Init, SpareInv

\* Only a deletion of mailboxes takes a mailbox with it, those its conditions still hold for
\* when it looks at them again.
LEMMA OnlyPurgesTake ==
    ASSUME SpareInv, Next, NEW c \in Clients, stmt[c] = "mailboxes", stmt'[c] = "none"
    PROVE  \/ FinishMailboxes(c)
           \/ mailboxes' = mailboxes /\ mails' = mails
<1>1. ASSUME NEW e \in Mails, BeginInsert(e) \/ InsertEmailResolved(e) \/ InsertFails(e) PROVE FALSE
    BY <1>1 DEF BeginInsert, InsertEmailResolved, InsertFails, statements
<1>2. ~Tick /\ ~SkipStage
    BY DEF Tick, SkipStage, statements
<1>3. ASSUME NEW d \in Clients, NEW kind \in {"emails", "mailboxes", "copy", "batch"}, NEW D, NEW A,
             Begin(d, kind, D, A)
      PROVE  FALSE
    BY <1>3 DEF Begin, SpareInv, TypeInv, TypeOK
<1>4. ASSUME NEW d \in Requests, RequestStep(d) PROVE FALSE
    <2>1. d \in Clients
        BY DEF Clients
    <2>2. \E kind \in {"emails", "mailboxes", "copy", "batch"} : \E D, A :
             Begin(d, kind, D, A) \/ stmt' = stmt
        BY <1>4 DEF RequestStep, DeleteEmail, CleanupEmails, PurgeEmails, CreateMailbox, DeleteMailbox,
                    CleanupMailboxes, PurgeMailboxes, UpdateRetention, SetMailboxKeepForever,
                    BatchUpdateRetention, BeginBatch, statements
    <2>. QED  BY <1>3, <2>1, <2>2
<1>5. ~CleanerStep
    <2>1. Cleaner \in Clients
        BY DEF Clients
    <2>2. ASSUME CleanerStep
          PROVE  \E kind \in {"emails", "mailboxes", "copy", "batch"} : \E D, A : Begin(Cleaner, kind, D, A)
        BY <1>2, <2>2 DEF CleanerStep, DeleteExpiredMailboxes, DeleteEmailsOlderThan, TrimEmailsToMaxCount
    <2>. QED  BY <1>3, <2>1, <2>2
<1>6. ASSUME NEW d \in Clients, Finish(d) \/ Fail(d)
      PROVE  FinishMailboxes(c) \/ (mailboxes' = mailboxes /\ mails' = mails)
    <2>1. \E gone : End(d, gone)
        BY <1>6 DEF Finish, Fail, deleteEmailsAndRefreshProjection, FinishMailboxes, CopyKeepForever,
                    SetManyMailboxesKeepForever
    <2>2. d = c
        BY <2>1 DEF End, SpareInv, TypeInv, TypeOK
    <2>. QED  BY <1>6, <2>2 DEF Finish, Fail, deleteEmailsAndRefreshProjection, CopyKeepForever,
                                SetManyMailboxesKeepForever, tables
<1>. QED  BY <1>1, <1>2, <1>4, <1>5, <1>6 DEF Next

\* A deletion of expired mailboxes spares those that have been renewed or marked to be kept
\* since it began, and a deletion of empty ones takes no mail that was stored when it began
\* (api/store/postgres.go:471-477, tooling.go:363-383): whatever other statements do meanwhile.
THEOREM DeletionsAlwaysSpare == Spec => DeletionsSpare
<1>1. ASSUME SpareInv, [Next]_vars, NEW c \in Clients, stmt[c] = "mailboxes", stmt'[c] = "none"
      PROVE  /\ \A a \in mailboxes \ mailboxes' :
                   "named" \notin only[c] =>
                      ~keep[a] /\ ("expired" \in only[c] => expires[a] < now)
             /\ "empty" \in only[c] => (mails \ mails') \cap seen[c] = {}
    <2>1. Next
        BY <1>1 DEF vars, statements
    <2>2. "empty" \in only[c] => seen[c] = {}
        BY <1>1 DEF SpareInv
    <2>3. CASE FinishMailboxes(c)
        <3>1. ASSUME NEW a \in mailboxes \ mailboxes', "named" \notin only[c]
              PROVE  ~keep[a] /\ ("expired" \in only[c] => expires[a] < now)
            <4>1. a \in StillDoomed(c) /\ a \in Addresses
                BY <2>3, <3>1, <1>1 DEF FinishMailboxes, SpareInv, TypeInv, TypeOK
            <4>2. ~keep[a] /\ ("expired" \in only[c] => expires[a] < began[c])
                BY <3>1, <4>1 DEF StillDoomed, Purgeable
            <4>3. began[c] \in Nat /\ now \in Nat /\ began[c] <= now /\ expires[a] \in Nat
                BY <1>1, <4>1, StoreAssumption DEF SpareInv, TypeInv, TypeOK, Never
            <4>. QED  BY <4>2, <4>3
        <3>. QED  BY <2>2, <3>1
    <2>4. CASE mailboxes' = mailboxes /\ mails' = mails
        BY <2>4
    <2>. QED  BY <1>1, <2>1, <2>3, <2>4, OnlyPurgesTake
<1>2. SpareInv /\ [Next]_vars =>
         [\A c \in Clients : \A a \in mailboxes \ mailboxes' :
             stmt[c] = "mailboxes" /\ stmt'[c] = "none" /\ "named" \notin only[c] =>
                /\ ~keep[a]
                /\ "expired" \in only[c] => expires[a] < now]_vars
    BY <1>1
<1>3. SpareInv /\ [Next]_vars =>
         [\A c \in Clients :
             stmt[c] = "mailboxes" /\ stmt'[c] = "none" /\ "empty" \in only[c] =>
                (mails \ mails') \cap seen[c] = {}]_vars
    BY <1>1
<1>4. Spec => RetentionSparesRenewed
    BY <1>2, SpareInit, SpareStep, PTL DEF Spec, RetentionSparesRenewed
<1>5. Spec => EmptyLosesOnlyUnseen
    BY <1>3, SpareInit, SpareStep, PTL DEF Spec, EmptyLosesOnlyUnseen
<1>. QED  BY <1>4, <1>5 DEF DeletionsSpare

================================================================================
