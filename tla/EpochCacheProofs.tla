--------------------------- MODULE EpochCacheProofs ---------------------------
(***************************************************************************)
(* Theorems about EpochCache, for any number of requests, operations and   *)
(* changes, and for both caches.                                           *)
(***************************************************************************)
EXTENDS EpochCache, FiniteSetTheorems, TLAPS

------------------------------------------------------------------------------
(* Types, and how often the epoch advances *)

Committed == {w \in Writers : op[w] = "committed"}

\* Each change advances the epoch once at most.
EpochBehind == epoch + Cardinality(Committed) <= row

\* Versions and epochs only grow: what is behind stays behind.
Ordered ==
    /\ completed <= row
    /\ \A w \in Writers : mine[w] <= row
    /\ \A r \in Readers : since[r] <= completed /\ at[r] <= epoch

CountInv == TypeOK /\ EpochBehind /\ Ordered

------------------------------------------------------------------------------
(* What is stale, and what is not *)

\* The version is not older than any whose operation has advanced the epoch.
Fresh(version) ==
    /\ version >= completed
    /\ \A w \in Writers : op[w] \in {"advanced", "cleared"} => version >= mine[w]

\* A load that is registered or waited for is not over.
LoadsLast ==
    /\ flight # NoReader => pc[flight] \in Loading
    /\ \A q \in Readers : pc[q] = "waiting" => joined[q] \in Readers /\ pc[joined[q]] \in Loading

\* What was loaded in the present epoch is fresh.
LoadsFresh ==
    \A r \in Readers :
       pc[r] \in {"loaded", "checked", "done"} /\ at[r] = epoch => Fresh(seen[r])

CheckedInEpoch == ~exposed => \A r \in Readers : pc[r] = "checked" => at[r] = epoch

CacheFresh ==
    ~exposed /\ cache # NoVersion =>
       /\ cache >= completed
       /\ \A w \in Writers : op[w] = "cleared" => cache >= mine[w]

\* A copy of the entry is good for its reader, for those who wait for it, and, while
\* its load is registered, for those who may still join it.
CopiesGood ==
    ~exposed => \A r \in Readers : pc[r] \in {"hit", "hitdone"} =>
       /\ seen[r] >= since[r]
       /\ flight = r => seen[r] >= completed
       /\ \A q \in Readers : pc[q] = "waiting" /\ joined[q] = r => seen[r] >= since[q]

ResultsGood ==
    ~exposed => \A r \in Readers : pc[r] = "got" /\ at[r] = epoch => seen[r] >= since[r]

StaleInv ==
    /\ CountInv
    /\ LoadsLast
    /\ LoadsFresh
    /\ CheckedInEpoch
    /\ CacheFresh
    /\ CopiesGood
    /\ ResultsGood
    /\ NoStaleAnswer

------------------------------------------------------------------------------
(* Types *)

\* A change of the row is counted while its epoch is to come.
LEMMA CommittedCount ==
    ASSUME NEW w \in Writers
    PROVE  /\ Cardinality(Committed) \in Nat /\ Cardinality(Committed \ {w}) \in Nat
           /\ w \notin Committed => Cardinality(Committed \cup {w}) = Cardinality(Committed) + 1
           /\ w \in Committed => Cardinality(Committed \ {w}) = Cardinality(Committed) - 1
<1>1. IsFiniteSet(Committed) /\ IsFiniteSet(Committed \ {w})
    BY CacheAssumption, FS_Subset DEF Committed
<1>. QED  BY <1>1, FS_CardinalityType, FS_AddElement, FS_RemoveElement

\* Requests and time keep the types, and no version goes back.
LEMMA ReaderTypes ==
    ASSUME CountInv, NEW r \in Readers, StartRequest(r) \/ ReaderStep(r)
    PROVE  CountInv'
<1>. USE CacheAssumption DEF CountInv, TypeOK, EpochBehind, Ordered, Versions, Loading, ReaderStates,
         Goto, See, NoteEpoch, DropResult, writerVars, cacheVars, Committed
<1>1. CASE StartRequest(r)
    BY <1>1 DEF StartRequest
<1>2. CASE LookupHit(r)
    BY <1>2 DEF LookupHit, Hit
<1>3. CASE LookupMiss(r)
    BY <1>3 DEF LookupMiss, MissEntry
<1>4. CASE EnterFlight(r)
    BY <1>4 DEF EnterFlight
<1>5. CASE LeaderHit(r)
    BY <1>5 DEF LeaderHit, Hit
<1>6. CASE LeaderMiss(r)
    BY <1>6 DEF LeaderMiss, MissEntry
<1>7. CASE EpochOfHit(r)
    BY <1>7 DEF EpochOfHit
<1>8. CASE EpochOfLoad(r)
    BY <1>8 DEF EpochOfLoad
<1>9. CASE LoadRow(r)
    BY <1>9 DEF LoadRow
<1>10. CASE CheckEpoch(r)
    BY <1>10 DEF CheckEpoch
<1>11. CASE CacheEntry(r)
    BY <1>11 DEF CacheEntry
<1>12. CASE Deliver(r)
    BY <1>12 DEF Deliver, Unregister
<1>13. CASE LoadFails(r)
    BY <1>13 DEF LoadFails, Unregister
<1>14. CASE AcceptResult(r)
    BY <1>14 DEF AcceptResult, Accept
<1>15. CASE ForgetAndRetry(r)
    BY <1>15 DEF ForgetAndRetry
<1>16. CASE FinishRequest(r)
    BY <1>16 DEF FinishRequest
<1>. QED  BY <1>1, <1>2, <1>3, <1>4, <1>5, <1>6, <1>7, <1>8, <1>9, <1>10, <1>11, <1>12, <1>13,
             <1>14, <1>15, <1>16 DEF ReaderStep

LEMMA ExposedType ==
    ASSUME exposed \in BOOLEAN, Expose
    PROVE  exposed' \in BOOLEAN
<1>1. Unguarded \in BOOLEAN
    BY Zenon DEF Unguarded
<1>. QED  BY <1>1, Zenon DEF Expose

\* So do operations.
LEMMA WriterTypes ==
    ASSUME CountInv, NEW w \in Writers, WriterStep(w)
    PROVE  CountInv'
<1>0. /\ Cardinality(Committed) \in Nat /\ Cardinality(Committed \ {w}) \in Nat
      /\ w \notin Committed => Cardinality(Committed \cup {w}) = Cardinality(Committed) + 1
      /\ w \in Committed => Cardinality(Committed \ {w}) = Cardinality(Committed) - 1
    BY CommittedCount
<1>. USE CacheAssumption, <1>0
         DEF CountInv, TypeOK, EpochBehind, Ordered, Versions, OpStates, readerVars, cacheVars,
             Return
<1>1. CASE CommitChange(w)
    <2>1. w \notin Committed /\ Committed' = Committed \cup {w}
        BY <1>1 DEF CommitChange, Committed
    <2>. QED  BY <1>1, <2>1 DEF CommitChange
<1>2. CASE LoseConfirmation(w)
    <2>1. w \in Committed /\ Committed' = Committed \ {w}
        BY <1>2 DEF LoseConfirmation, Committed
    <2>. QED  BY <1>2, <2>1 DEF LoseConfirmation
<1>3. CASE AdvanceEpoch(w)
    <2>1. w \in Committed /\ Committed' = Committed \ {w}
        BY <1>3 DEF AdvanceEpoch, Committed
    <2>2. epoch' + Cardinality(Committed') <= row'
        BY <1>3, <2>1 DEF AdvanceEpoch
    <2>3. exposed' \in BOOLEAN
        BY <1>3, ExposedType DEF AdvanceEpoch
    <2>4. epoch' \in Versions
        BY <1>3, <2>1 DEF AdvanceEpoch
    <2>. QED  BY <1>3, <2>2, <2>3, <2>4 DEF AdvanceEpoch
<1>4. CASE ClearEntry(w)
    <2>1. w \notin Committed /\ Committed' = Committed
        BY <1>4 DEF ClearEntry, Committed
    <2>2. epoch' + Cardinality(Committed') <= row'
        BY <1>4, <2>1 DEF ClearEntry
    <2>3. exposed' \in BOOLEAN
        BY <1>4, ExposedType DEF ClearEntry
    <2>4. Ordered'
        BY <1>4 DEF ClearEntry
    <2>5. op' \in [Writers -> OpStates] /\ mine' \in [Writers -> Versions] /\ completed' \in Versions
        BY <1>4 DEF ClearEntry
    <2>6. flight' \in Readers \cup {NoReader}
        BY <1>4 DEF ClearEntry
    <2>. QED  BY <1>4, <2>2, <2>3, <2>4, <2>5, <2>6 DEF ClearEntry
<1>5. CASE ForgetLoad(w)
    <2>1. w \notin Committed /\ Committed' = Committed
        BY <1>5 DEF ForgetLoad, Committed
    <2>. QED  BY <1>5, <2>1 DEF ForgetLoad
<1>. QED  BY <1>1, <1>2, <1>3, <1>4, <1>5 DEF WriterStep

LEMMA CountStep == CountInv /\ [Next]_vars => CountInv'
<1>. SUFFICES ASSUME CountInv, [Next]_vars PROVE CountInv'
    OBVIOUS
<1>1. CASE UNCHANGED vars \/ ExpireEntry \/ EvictEntry
    BY <1>1 DEF vars, cacheVars, readerVars, writerVars, ExpireEntry, EvictEntry, CountInv, TypeOK,
                EpochBehind, Ordered, Committed
<1>. QED  BY <1>1, ReaderTypes, WriterTypes DEF Next

LEMMA CountInit == Init => CountInv
<1>. SUFFICES ASSUME Init PROVE CountInv
    OBVIOUS
<1>1. Committed = {}
    BY DEF Init, Committed
<1>2. Cardinality(Committed) = 0
    BY <1>1, FS_EmptySet
<1>3. TypeOK
    <2>1. 0 \in Versions
        BY CacheAssumption DEF Versions
    <2>. QED  BY <2>1 DEF Init, TypeOK, ReaderStates, OpStates
<1>4. EpochBehind /\ Ordered
    BY <1>2 DEF Init, EpochBehind, Ordered
<1>. QED  BY <1>3, <1>4 DEF CountInv

\* Epochs and versions keep their bounds: an operation advances the epoch once for each
\* change it has committed (api/store/tokens.go, domains_cache.go).
THEOREM TypeCorrect == Spec => []TypeOK
<1>1. CountInv => TypeOK
    BY DEF CountInv
<1>. QED  BY <1>1, CountInit, CountStep, PTL DEF Spec

------------------------------------------------------------------------------
(* Nothing stale *)

\* A reader leaves its load only by ending it for all who wait.
LEMMA LoadsLastReader ==
    ASSUME StaleInv, NEW r \in Readers, StartRequest(r) \/ ReaderStep(r)
    PROVE  LoadsLast'
<1>. USE DEF StaleInv, CountInv, TypeOK, LoadsLast, Loading, Goto, See, NoteEpoch, DropResult,
             cacheVars, writerVars
<1>1. CASE StartRequest(r)
    BY <1>1 DEF StartRequest
<1>2. CASE LookupHit(r)
    BY <1>2 DEF LookupHit, Hit
<1>3. CASE LookupMiss(r)
    BY <1>3 DEF LookupMiss, MissEntry
<1>4. CASE EnterFlight(r)
    BY <1>4 DEF EnterFlight
<1>5. CASE LeaderHit(r)
    BY <1>5 DEF LeaderHit, Hit
<1>6. CASE LeaderMiss(r)
    BY <1>6 DEF LeaderMiss, MissEntry
<1>7. CASE EpochOfHit(r)
    BY <1>7 DEF EpochOfHit
<1>8. CASE EpochOfLoad(r)
    BY <1>8 DEF EpochOfLoad
<1>9. CASE LoadRow(r)
    BY <1>9 DEF LoadRow
<1>10. CASE CheckEpoch(r)
    BY <1>10 DEF CheckEpoch
<1>11. CASE CacheEntry(r)
    BY <1>11 DEF CacheEntry
<1>12. CASE Deliver(r)
    BY <1>12 DEF Deliver, Unregister, Companions
<1>13. CASE LoadFails(r)
    BY <1>13 DEF LoadFails, Unregister, Companions
<1>14. CASE AcceptResult(r)
    BY <1>14 DEF AcceptResult, Accept
<1>15. CASE ForgetAndRetry(r)
    BY <1>15 DEF ForgetAndRetry
<1>16. CASE FinishRequest(r)
    BY <1>16 DEF FinishRequest
<1>. QED  BY <1>1, <1>2, <1>3, <1>4, <1>5, <1>6, <1>7, <1>8, <1>9, <1>10, <1>11, <1>12, 
             <1>13, <1>14, <1>15, <1>16 DEF ReaderStep

\* Operations forget loads, they do not end them.
LEMMA LoadsLastWriter ==
    ASSUME StaleInv, NEW w \in Writers, WriterStep(w)
    PROVE  LoadsLast'
<1>. USE DEF StaleInv, CountInv, TypeOK, LoadsLast, Return, Expose, Unguarded, UnguardedStates,
             ForgetsAlways, readerVars, cacheVars
<1>1. CASE CommitChange(w)
    BY <1>1 DEF CommitChange
<1>2. CASE LoseConfirmation(w)
    BY <1>2 DEF LoseConfirmation
<1>3. CASE AdvanceEpoch(w)
    BY <1>3 DEF AdvanceEpoch
<1>4. CASE ClearEntry(w)
    BY <1>4 DEF ClearEntry
<1>5. CASE ForgetLoad(w)
    BY <1>5 DEF ForgetLoad
<1>. QED  BY <1>1, <1>2, <1>3, <1>4, <1>5 DEF WriterStep

\* The row is read after the epoch, and is at least as new as every change.
LEMMA LoadsFreshReader ==
    ASSUME StaleInv, NEW r \in Readers, StartRequest(r) \/ ReaderStep(r)
    PROVE  LoadsFresh'
<1>. USE DEF StaleInv, CountInv, TypeOK, LoadsFresh, Fresh, Loading, Goto, See, NoteEpoch, DropResult,
             cacheVars, writerVars
<1>1. CASE StartRequest(r)
    BY <1>1 DEF StartRequest
<1>2. CASE LookupHit(r)
    BY <1>2 DEF LookupHit, Hit
<1>3. CASE LookupMiss(r)
    BY <1>3 DEF LookupMiss, MissEntry
<1>4. CASE EnterFlight(r)
    BY <1>4 DEF EnterFlight
<1>5. CASE LeaderHit(r)
    BY <1>5 DEF LeaderHit, Hit
<1>6. CASE LeaderMiss(r)
    BY <1>6 DEF LeaderMiss, MissEntry
<1>7. CASE EpochOfHit(r)
    BY <1>7 DEF EpochOfHit
<1>8. CASE EpochOfLoad(r)
    BY <1>8 DEF EpochOfLoad
<1>9. CASE LoadRow(r)
    BY <1>9 DEF LoadRow, Ordered
<1>10. CASE CheckEpoch(r)
    BY <1>10 DEF CheckEpoch
<1>11. CASE CacheEntry(r)
    BY <1>11 DEF CacheEntry
<1>12. CASE Deliver(r)
    BY <1>12 DEF Deliver, Unregister, Companions
<1>13. CASE LoadFails(r)
    BY <1>13 DEF LoadFails, Unregister, Companions
<1>14. CASE AcceptResult(r)
    BY <1>14 DEF AcceptResult, Accept
<1>15. CASE ForgetAndRetry(r)
    BY <1>15 DEF ForgetAndRetry
<1>16. CASE FinishRequest(r)
    BY <1>16 DEF FinishRequest
<1>. QED  BY <1>1, <1>2, <1>3, <1>4, <1>5, <1>6, <1>7, <1>8, <1>9, <1>10, <1>11, <1>12, 
             <1>13, <1>14, <1>15, <1>16 DEF ReaderStep

\* The epoch advances after the change: what was loaded before is of an older epoch.
LEMMA LoadsFreshWriter ==
    ASSUME StaleInv, NEW w \in Writers, WriterStep(w)
    PROVE  LoadsFresh'
<1>. USE DEF StaleInv, CountInv, TypeOK, LoadsFresh, Fresh, Return, Expose, Unguarded, UnguardedStates,
             ForgetsAlways, readerVars, cacheVars
<1>1. CASE CommitChange(w)
    BY <1>1 DEF CommitChange
<1>2. CASE LoseConfirmation(w)
    BY <1>2 DEF LoseConfirmation
<1>3. CASE AdvanceEpoch(w)
    <2>1. \A r \in Readers : at'[r] # epoch'
        BY <1>3 DEF AdvanceEpoch, Ordered, Versions
    <2>. QED  BY <2>1
<1>4. CASE ClearEntry(w)
    BY <1>4 DEF ClearEntry
<1>5. CASE ForgetLoad(w)
    BY <1>5 DEF ForgetLoad
<1>. QED  BY <1>1, <1>2, <1>3, <1>4, <1>5 DEF WriterStep

\* Only what is of the present epoch passes the check.
LEMMA CheckedInEpochReader ==
    ASSUME StaleInv, NEW r \in Readers, StartRequest(r) \/ ReaderStep(r)
    PROVE  CheckedInEpoch'
<1>. USE DEF StaleInv, CountInv, TypeOK, CheckedInEpoch, Loading, Goto, See, NoteEpoch, DropResult,
             cacheVars, writerVars
<1>1. CASE StartRequest(r)
    BY <1>1 DEF StartRequest
<1>2. CASE LookupHit(r)
    BY <1>2 DEF LookupHit, Hit
<1>3. CASE LookupMiss(r)
    BY <1>3 DEF LookupMiss, MissEntry
<1>4. CASE EnterFlight(r)
    BY <1>4 DEF EnterFlight
<1>5. CASE LeaderHit(r)
    BY <1>5 DEF LeaderHit, Hit
<1>6. CASE LeaderMiss(r)
    BY <1>6 DEF LeaderMiss, MissEntry
<1>7. CASE EpochOfHit(r)
    BY <1>7 DEF EpochOfHit
<1>8. CASE EpochOfLoad(r)
    BY <1>8 DEF EpochOfLoad
<1>9. CASE LoadRow(r)
    BY <1>9 DEF LoadRow
<1>10. CASE CheckEpoch(r)
    BY <1>10 DEF CheckEpoch
<1>11. CASE CacheEntry(r)
    BY <1>11 DEF CacheEntry
<1>12. CASE Deliver(r)
    BY <1>12 DEF Deliver, Unregister, Companions
<1>13. CASE LoadFails(r)
    BY <1>13 DEF LoadFails, Unregister, Companions
<1>14. CASE AcceptResult(r)
    BY <1>14 DEF AcceptResult, Accept
<1>15. CASE ForgetAndRetry(r)
    BY <1>15 DEF ForgetAndRetry
<1>16. CASE FinishRequest(r)
    BY <1>16 DEF FinishRequest
<1>. QED  BY <1>1, <1>2, <1>3, <1>4, <1>5, <1>6, <1>7, <1>8, <1>9, <1>10, <1>11, <1>12, 
             <1>13, <1>14, <1>15, <1>16 DEF ReaderStep

\* An operation that advances the epoch after the check comes in an unguarded moment.
LEMMA CheckedInEpochWriter ==
    ASSUME StaleInv, NEW w \in Writers, WriterStep(w)
    PROVE  CheckedInEpoch'
<1>. USE DEF StaleInv, CountInv, TypeOK, CheckedInEpoch, Return, Expose, Unguarded, UnguardedStates,
             ForgetsAlways, readerVars, cacheVars
<1>1. CASE CommitChange(w)
    BY <1>1 DEF CommitChange
<1>2. CASE LoseConfirmation(w)
    BY <1>2 DEF LoseConfirmation
<1>3. CASE AdvanceEpoch(w)
    BY <1>3 DEF AdvanceEpoch
<1>4. CASE ClearEntry(w)
    BY <1>4 DEF ClearEntry
<1>5. CASE ForgetLoad(w)
    BY <1>5 DEF ForgetLoad
<1>. QED  BY <1>1, <1>2, <1>3, <1>4, <1>5 DEF WriterStep

\* What is cached was loaded in the present epoch.
LEMMA CacheFreshReader ==
    ASSUME StaleInv, NEW r \in Readers, StartRequest(r) \/ ReaderStep(r)
    PROVE  CacheFresh'
<1>. USE DEF StaleInv, CountInv, TypeOK, CacheFresh, Loading, Goto, See, NoteEpoch, DropResult,
             cacheVars, writerVars
<1>1. CASE StartRequest(r)
    BY <1>1 DEF StartRequest
<1>2. CASE LookupHit(r)
    BY <1>2 DEF LookupHit, Hit
<1>3. CASE LookupMiss(r)
    BY <1>3 DEF LookupMiss, MissEntry
<1>4. CASE EnterFlight(r)
    BY <1>4 DEF EnterFlight
<1>5. CASE LeaderHit(r)
    BY <1>5 DEF LeaderHit, Hit
<1>6. CASE LeaderMiss(r)
    BY <1>6 DEF LeaderMiss, MissEntry
<1>7. CASE EpochOfHit(r)
    BY <1>7 DEF EpochOfHit
<1>8. CASE EpochOfLoad(r)
    BY <1>8 DEF EpochOfLoad
<1>9. CASE LoadRow(r)
    BY <1>9 DEF LoadRow
<1>10. CASE CheckEpoch(r)
    BY <1>10 DEF CheckEpoch
<1>11. CASE CacheEntry(r)
    <2>1. ~exposed => Fresh(seen[r])
        BY <1>11 DEF CacheEntry, CheckedInEpoch, LoadsFresh
    <2>. QED  BY <1>11, <2>1 DEF CacheEntry, Fresh
<1>12. CASE Deliver(r)
    BY <1>12 DEF Deliver, Unregister, Companions
<1>13. CASE LoadFails(r)
    BY <1>13 DEF LoadFails, Unregister, Companions
<1>14. CASE AcceptResult(r)
    BY <1>14 DEF AcceptResult, Accept
<1>15. CASE ForgetAndRetry(r)
    BY <1>15 DEF ForgetAndRetry
<1>16. CASE FinishRequest(r)
    BY <1>16 DEF FinishRequest
<1>. QED  BY <1>1, <1>2, <1>3, <1>4, <1>5, <1>6, <1>7, <1>8, <1>9, <1>10, <1>11, <1>12, 
             <1>13, <1>14, <1>15, <1>16 DEF ReaderStep

\* An operation that returns has cleared the entry.
LEMMA CacheFreshWriter ==
    ASSUME StaleInv, NEW w \in Writers, WriterStep(w)
    PROVE  CacheFresh'
<1>. USE DEF StaleInv, CountInv, TypeOK, CacheFresh, Return, Expose, Unguarded, UnguardedStates,
             ForgetsAlways, readerVars, cacheVars
<1>1. CASE CommitChange(w)
    BY <1>1 DEF CommitChange
<1>2. CASE LoseConfirmation(w)
    BY <1>2 DEF LoseConfirmation
<1>3. CASE AdvanceEpoch(w)
    BY <1>3 DEF AdvanceEpoch
<1>4. CASE ClearEntry(w)
    BY <1>4 DEF ClearEntry
<1>5. CASE ForgetLoad(w)
    BY <1>5 DEF ForgetLoad
<1>. QED  BY <1>1, <1>2, <1>3, <1>4, <1>5 DEF WriterStep

\* A reader joins only a registered load, and has begun after the last return.
LEMMA CopiesGoodReader ==
    ASSUME StaleInv, NEW r \in Readers, StartRequest(r) \/ ReaderStep(r)
    PROVE  CopiesGood'
<1>. USE DEF StaleInv, CountInv, TypeOK, CopiesGood, Loading, Goto, See, NoteEpoch, DropResult,
             cacheVars, writerVars
<1>1. CASE StartRequest(r)
    BY <1>1 DEF StartRequest
<1>2. CASE LookupHit(r)
    BY <1>2 DEF LookupHit, Hit
<1>3. CASE LookupMiss(r)
    BY <1>3 DEF LookupMiss, MissEntry
<1>4. CASE EnterFlight(r)
    BY <1>4 DEF EnterFlight, Ordered, Versions
<1>5. CASE LeaderHit(r)
    <2>1. ~exposed => cache >= completed
        BY <1>5 DEF LeaderHit, Hit, CacheFresh
    <2>2. \A q \in Readers : since[q] <= completed
        BY DEF Ordered
    <2>. QED  BY <1>5, <2>1, <2>2 DEF LeaderHit, Hit, Versions
<1>6. CASE LeaderMiss(r)
    BY <1>6 DEF LeaderMiss, MissEntry
<1>7. CASE EpochOfHit(r)
    BY <1>7 DEF EpochOfHit
<1>8. CASE EpochOfLoad(r)
    BY <1>8 DEF EpochOfLoad
<1>9. CASE LoadRow(r)
    BY <1>9 DEF LoadRow
<1>10. CASE CheckEpoch(r)
    BY <1>10 DEF CheckEpoch
<1>11. CASE CacheEntry(r)
    BY <1>11 DEF CacheEntry
<1>12. CASE Deliver(r)
    BY <1>12, CacheAssumption DEF Deliver, Unregister, Companions
<1>13. CASE LoadFails(r)
    BY <1>13, CacheAssumption DEF LoadFails, Unregister, Companions
<1>14. CASE AcceptResult(r)
    BY <1>14 DEF AcceptResult, Accept
<1>15. CASE ForgetAndRetry(r)
    BY <1>15, CacheAssumption DEF ForgetAndRetry
<1>16. CASE FinishRequest(r)
    BY <1>16 DEF FinishRequest
<1>. QED  BY <1>1, <1>2, <1>3, <1>4, <1>5, <1>6, <1>7, <1>8, <1>9, <1>10, <1>11, <1>12, 
             <1>13, <1>14, <1>15, <1>16 DEF ReaderStep

\* The loads of the domain list are forgotten before the operation returns; for those
\* of a token the moment is unguarded.
LEMMA CopiesGoodWriter ==
    ASSUME StaleInv, NEW w \in Writers, WriterStep(w)
    PROVE  CopiesGood'
<1>. USE DEF StaleInv, CountInv, TypeOK, CopiesGood, Return, Expose, Unguarded, UnguardedStates,
             ForgetsAlways, readerVars, cacheVars
<1>1. CASE CommitChange(w)
    BY <1>1 DEF CommitChange
<1>2. CASE LoseConfirmation(w)
    BY <1>2 DEF LoseConfirmation
<1>3. CASE AdvanceEpoch(w)
    BY <1>3 DEF AdvanceEpoch
<1>4. CASE ClearEntry(w)
    BY <1>4 DEF ClearEntry
<1>5. CASE ForgetLoad(w)
    BY <1>5, CacheAssumption DEF ForgetLoad
<1>. QED  BY <1>1, <1>2, <1>3, <1>4, <1>5 DEF WriterStep

\* What a load delivers in the present epoch is good for its reader and for those who
\* have joined it.
LEMMA ResultsGoodReader ==
    ASSUME StaleInv, NEW r \in Readers, StartRequest(r) \/ ReaderStep(r)
    PROVE  ResultsGood'
<1>. USE DEF StaleInv, CountInv, TypeOK, ResultsGood, Loading, Goto, See, NoteEpoch, DropResult,
             cacheVars, writerVars
<1>1. CASE StartRequest(r)
    BY <1>1 DEF StartRequest
<1>2. CASE LookupHit(r)
    BY <1>2 DEF LookupHit, Hit
<1>3. CASE LookupMiss(r)
    BY <1>3 DEF LookupMiss, MissEntry
<1>4. CASE EnterFlight(r)
    BY <1>4 DEF EnterFlight
<1>5. CASE LeaderHit(r)
    BY <1>5 DEF LeaderHit, Hit
<1>6. CASE LeaderMiss(r)
    BY <1>6 DEF LeaderMiss, MissEntry
<1>7. CASE EpochOfHit(r)
    BY <1>7 DEF EpochOfHit
<1>8. CASE EpochOfLoad(r)
    BY <1>8 DEF EpochOfLoad
<1>9. CASE LoadRow(r)
    BY <1>9 DEF LoadRow
<1>10. CASE CheckEpoch(r)
    BY <1>10 DEF CheckEpoch
<1>11. CASE CacheEntry(r)
    BY <1>11 DEF CacheEntry
<1>12. CASE Deliver(r)
    <2>1. ASSUME ~exposed, NEW q \in Companions(r), at[r] = epoch PROVE seen[r] >= since[q]
        <3>1. q \in Readers /\ since[q] <= completed /\ completed \in Nat /\ since[q] \in Nat
                /\ seen[r] \in Nat
            BY <2>1 DEF Companions, Ordered, Versions
        <3>2. CASE pc[r] = "hitdone"
            BY <2>1, <3>2 DEF CopiesGood, Companions
        <3>3. CASE pc[r] = "done"
            <4>1. seen[r] >= completed
                BY <2>1, <3>3 DEF LoadsFresh, Fresh
            <4>. QED  BY <3>1, <4>1
        <3>. QED  BY <1>12, <3>2, <3>3 DEF Deliver
    <2>2. \A q \in Readers :
             pc'[q] = "got" =>
                \/ q \in Companions(r) /\ seen'[q] = seen[r] /\ at'[q] = at[r]
                \/ pc[q] = "got" /\ seen'[q] = seen[q] /\ at'[q] = at[q]
        BY <1>12 DEF Deliver
    <2>. QED  BY <1>12, <2>1, <2>2 DEF Deliver
<1>13. CASE LoadFails(r)
    BY <1>13 DEF LoadFails, Unregister, Companions
<1>14. CASE AcceptResult(r)
    BY <1>14 DEF AcceptResult, Accept
<1>15. CASE ForgetAndRetry(r)
    BY <1>15 DEF ForgetAndRetry
<1>16. CASE FinishRequest(r)
    BY <1>16 DEF FinishRequest
<1>. QED  BY <1>1, <1>2, <1>3, <1>4, <1>5, <1>6, <1>7, <1>8, <1>9, <1>10, <1>11, <1>12, 
             <1>13, <1>14, <1>15, <1>16 DEF ReaderStep

\* Operations only make results outdated.
LEMMA ResultsGoodWriter ==
    ASSUME StaleInv, NEW w \in Writers, WriterStep(w)
    PROVE  ResultsGood'
<1>. USE DEF StaleInv, CountInv, TypeOK, ResultsGood, Return, Expose, Unguarded, UnguardedStates,
             ForgetsAlways, readerVars, cacheVars
<1>1. CASE CommitChange(w)
    BY <1>1 DEF CommitChange
<1>2. CASE LoseConfirmation(w)
    BY <1>2 DEF LoseConfirmation
<1>3. CASE AdvanceEpoch(w)
    <2>1. \A r \in Readers : at'[r] # epoch'
        BY <1>3 DEF AdvanceEpoch, Ordered, Versions
    <2>. QED  BY <2>1
<1>4. CASE ClearEntry(w)
    BY <1>4 DEF ClearEntry
<1>5. CASE ForgetLoad(w)
    BY <1>5 DEF ForgetLoad
<1>. QED  BY <1>1, <1>2, <1>3, <1>4, <1>5 DEF WriterStep

\* An answer comes from the cache or from a good result.
LEMMA NoStaleAnswerReader ==
    ASSUME StaleInv, NEW r \in Readers, StartRequest(r) \/ ReaderStep(r)
    PROVE  NoStaleAnswer'
<1>. USE DEF StaleInv, CountInv, TypeOK, NoStaleAnswer, Loading, Goto, See, NoteEpoch, DropResult,
             cacheVars, writerVars
<1>1. CASE StartRequest(r)
    BY <1>1 DEF StartRequest
<1>2. CASE LookupHit(r)
    <2>1. ~exposed => cache >= completed
        BY <1>2 DEF LookupHit, Hit, CacheFresh
    <2>2. since[r] <= completed
        BY DEF Ordered
    <2>. QED  BY <1>2, <2>1, <2>2 DEF LookupHit, Hit, Versions
<1>3. CASE LookupMiss(r)
    BY <1>3 DEF LookupMiss, MissEntry
<1>4. CASE EnterFlight(r)
    BY <1>4 DEF EnterFlight
<1>5. CASE LeaderHit(r)
    BY <1>5 DEF LeaderHit, Hit
<1>6. CASE LeaderMiss(r)
    BY <1>6 DEF LeaderMiss, MissEntry
<1>7. CASE EpochOfHit(r)
    BY <1>7 DEF EpochOfHit
<1>8. CASE EpochOfLoad(r)
    BY <1>8 DEF EpochOfLoad
<1>9. CASE LoadRow(r)
    BY <1>9 DEF LoadRow
<1>10. CASE CheckEpoch(r)
    BY <1>10 DEF CheckEpoch
<1>11. CASE CacheEntry(r)
    BY <1>11 DEF CacheEntry
<1>12. CASE Deliver(r)
    BY <1>12 DEF Deliver, Unregister, Companions
<1>13. CASE LoadFails(r)
    BY <1>13 DEF LoadFails, Unregister, Companions
<1>14. CASE AcceptResult(r)
    BY <1>14 DEF AcceptResult, Accept, ResultsGood
<1>15. CASE ForgetAndRetry(r)
    BY <1>15 DEF ForgetAndRetry
<1>16. CASE FinishRequest(r)
    BY <1>16 DEF FinishRequest
<1>. QED  BY <1>1, <1>2, <1>3, <1>4, <1>5, <1>6, <1>7, <1>8, <1>9, <1>10, <1>11, <1>12, 
             <1>13, <1>14, <1>15, <1>16 DEF ReaderStep

\* Operations change no answer.
LEMMA NoStaleAnswerWriter ==
    ASSUME StaleInv, NEW w \in Writers, WriterStep(w)
    PROVE  NoStaleAnswer'
<1>. USE DEF StaleInv, CountInv, TypeOK, NoStaleAnswer, Return, Expose, Unguarded, UnguardedStates,
             ForgetsAlways, readerVars, cacheVars
<1>1. CASE CommitChange(w)
    BY <1>1 DEF CommitChange
<1>2. CASE LoseConfirmation(w)
    BY <1>2 DEF LoseConfirmation
<1>3. CASE AdvanceEpoch(w)
    BY <1>3 DEF AdvanceEpoch
<1>4. CASE ClearEntry(w)
    BY <1>4 DEF ClearEntry
<1>5. CASE ForgetLoad(w)
    BY <1>5 DEF ForgetLoad
<1>. QED  BY <1>1, <1>2, <1>3, <1>4, <1>5 DEF WriterStep

\* The time that passes, and another token, only take the entry away.
LEMMA TimeStep ==
    ASSUME StaleInv, UNCHANGED vars \/ ExpireEntry \/ EvictEntry
    PROVE  StaleInv'
<1>1. CountInv'
    BY CountStep DEF StaleInv, Next
<1>2. /\ UNCHANGED <<exposed, epoch, readerVars, writerVars>>
      /\ cache' \in {cache, NoVersion}
    BY DEF vars, cacheVars, ExpireEntry, EvictEntry
<1>3. CacheFresh'
    BY <1>2 DEF StaleInv, CacheFresh, readerVars, writerVars
<1>. QED  BY <1>1, <1>2, <1>3 DEF StaleInv, LoadsLast, LoadsFresh, Fresh, CheckedInEpoch, CopiesGood,
             ResultsGood, NoStaleAnswer, readerVars, writerVars

LEMMA StaleStep == StaleInv /\ [Next]_vars => StaleInv'
<1>. SUFFICES ASSUME StaleInv, [Next]_vars PROVE StaleInv'
    OBVIOUS
<1>1. CountInv'
    BY CountStep DEF StaleInv
<1>2. ASSUME NEW r \in Readers, StartRequest(r) \/ ReaderStep(r) PROVE StaleInv'
    BY <1>1, <1>2, LoadsLastReader, LoadsFreshReader, CheckedInEpochReader, CacheFreshReader,
       CopiesGoodReader, ResultsGoodReader, NoStaleAnswerReader DEF StaleInv
<1>3. ASSUME NEW w \in Writers, WriterStep(w) PROVE StaleInv'
    BY <1>1, <1>3, LoadsLastWriter, LoadsFreshWriter, CheckedInEpochWriter, CacheFreshWriter,
       CopiesGoodWriter, ResultsGoodWriter, NoStaleAnswerWriter DEF StaleInv
<1>. QED  BY <1>2, <1>3, TimeStep DEF Next

LEMMA StaleInit == Init => StaleInv
<1>. SUFFICES ASSUME Init PROVE StaleInv
    OBVIOUS
<1>1. CountInv
    BY CountInit
<1>. QED  BY <1>1 DEF Init, StaleInv, LoadsLast, LoadsFresh, CheckedInEpoch, CacheFresh, CopiesGood,
             ResultsGood, NoStaleAnswer

\* Nothing stale is kept or answered, of any token and of the list of domains, unless an
\* operation came between the check of an epoch and the caching of what was checked, or,
\* for a token, while a copy of its entry was being handed on (api/store/tokens.go:194-231,
\* api/store/domains_cache.go, postgres.go:183-235).
THEOREM NeverStale == Spec => []NothingStale
<1>1. StaleInv => NothingStale
    BY DEF StaleInv, CacheFresh, NothingStale, InvalidatedGone
<1>. QED  BY <1>1, StaleInit, StaleStep, PTL DEF Spec

==============================================================================
