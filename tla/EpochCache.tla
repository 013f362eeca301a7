----------------------------- MODULE EpochCache ------------------------------
(***************************************************************************)
(* The two caches of the store that share one protocol: authenticated      *)
(* tokens by the hash of their key (api/store/tokens.go) and the list of   *)
(* active domains (api/store/domains_cache.go, postgres.go).  An entry     *)
(* lives for a TTL; concurrent misses share one load (singleflight); an    *)
(* operation that changes the row first commits, then advances an epoch,   *)
(* then clears the entry, and a load that began in an older epoch is not   *)
(* cached and not accepted.                                                *)
(*                                                                         *)
(* The module follows one entry.  Its row is a version, which each         *)
(* operation advances; an entry or answer is as good as its version.  The  *)
(* two caches differ in what the clearing forgets (see ClearEntry).        *)
(* Beside some definitions stands a mistaken form.                         *)
(***************************************************************************)
EXTENDS Naturals, FiniteSets

CONSTANTS
    Readers,        \* requests that look the entry up
    Writers,        \* operations that change the row
    NoReader,       \* no load is registered
    NoVersion,      \* nothing is cached
    Kinds,          \* the caches to look at: "token", "domains"
    MaxWrites       \* bound of the model: changes of the row

ASSUME CacheAssumption ==
    /\ NoReader \notin Readers
    /\ IsFiniteSet(Writers)
    /\ NoVersion \notin Nat
    /\ Kinds \subseteq {"token", "domains"}
    /\ MaxWrites \in Nat

VARIABLES
    kind,       \* which cache it is, which never changes
    row,        \* the version in the database
    epoch,      \* tokenAuthEpoch, activeDomainsEpoch
    cache,      \* the version in the cache
    expired,    \* whether the TTL of the cached entry has passed
    flight,     \* the reader whose load is registered in the singleflight group
    pc,         \* where a reader is
    joined,     \* the reader whose load it waits for
    seen,       \* the version it has, or has from that load
    at,         \* the epoch that goes with it
    op,         \* where an operation is
    mine,       \* the version it has written
    completed,  \* the newest version whose operation has returned
    since,      \* completed, when the request of a reader began
    exposed     \* history: an operation has come in an unguarded moment

cacheVars == <<cache, expired>>
readerVars == <<flight, pc, joined, seen, at, since>>
writerVars == <<op, mine, completed>>
vars == <<kind, exposed, row, epoch, cacheVars, readerVars, writerVars>>

Versions == 0..MaxWrites
ForgetsAlways == kind = "domains"
Loading == {"leading", "hit", "missed", "loading", "loaded", "checked", "hitdone", "done"}
ReaderStates == {"idle", "lookup", "enter", "waiting", "got", "outdated", "served", "failed"}
                    \cup Loading
OpStates == {"idle", "committed", "advanced", "cleared"}

Init ==
    /\ kind \in Kinds
    /\ row = 0
    /\ epoch = 0
    /\ cache = NoVersion
    /\ expired = FALSE
    /\ flight = NoReader
    /\ pc = [r \in Readers |-> "idle"]
    /\ joined = [r \in Readers |-> NoReader]
    /\ seen = [r \in Readers |-> 0]
    /\ at = [r \in Readers |-> 0]
    /\ op = [w \in Writers |-> "idle"]
    /\ mine = [w \in Writers |-> 0]
    /\ completed = 0
    /\ since = [r \in Readers |-> 0]
    /\ exposed = FALSE

Goto(r, state) == pc' = [pc EXCEPT ![r] = state]
See(r, version) == seen' = [seen EXCEPT ![r] = version]
NoteEpoch(r) == at' = [at EXCEPT ![r] = epoch]
DropResult(r) == seen' = [seen EXCEPT ![r] = 0] /\ at' = [at EXCEPT ![r] = 0]

------------------------------------------------------------------------------
(* The cache *)

Hit == cache # NoVersion /\ ~expired

\* A lookup removes an entry that it finds expired.
MissEntry ==
    /\ ~Hit
    /\ cache' = NoVersion
    /\ expired' = FALSE

ExpireEntryNever == FALSE /\ UNCHANGED vars

\* The TTL passes.
ExpireEntry ==
    /\ Hit
    /\ expired' = TRUE
    /\ UNCHANGED <<kind, exposed, row, epoch, cache, readerVars, writerVars>>

\* A full token cache makes room for another token.
EvictEntry ==
    /\ ~ForgetsAlways
    /\ cache # NoVersion
    /\ cache' = NoVersion
    /\ expired' = FALSE
    /\ UNCHANGED <<kind, exposed, row, epoch, readerVars, writerVars>>

------------------------------------------------------------------------------
(* Requests: GetAccountByToken, GetActiveDomains *)

StartRequest(r) ==
    /\ pc[r] = "idle"
    /\ Goto(r, "lookup")
    /\ since' = [since EXCEPT ![r] = completed]
    /\ UNCHANGED <<kind, exposed, row, epoch, cacheVars, flight, joined, seen, at, writerVars>>

LookupHitUnchecked(r) ==
    /\ pc[r] = "lookup"
    /\ Goto(r, "served")
    /\ See(r, cache)
    /\ UNCHANGED <<kind, exposed, row, epoch, cacheVars, flight, joined, at, since, writerVars>>

LookupHit(r) ==
    /\ pc[r] = "lookup"
    /\ Hit
    /\ Goto(r, "served")
    /\ See(r, cache)
    /\ UNCHANGED <<kind, exposed, row, epoch, cacheVars, flight, joined, at, since, writerVars>>

LookupMiss(r) ==
    /\ pc[r] = "lookup"
    /\ MissEntry
    /\ Goto(r, "enter")
    /\ UNCHANGED <<kind, exposed, row, epoch, flight, joined, seen, at, since, writerVars>>

\* singleflight.Do: the first reader loads, the others wait for it.
EnterFlight(r) ==
    /\ pc[r] = "enter"
    /\ IF flight = NoReader
       THEN flight' = r /\ Goto(r, "leading") /\ UNCHANGED joined
       ELSE joined' = [joined EXCEPT ![r] = flight] /\ Goto(r, "waiting") /\ UNCHANGED flight
    /\ UNCHANGED <<kind, exposed, row, epoch, cacheVars, seen, at, since, writerVars>>

LeaderHit(r) ==
    /\ pc[r] = "leading"
    /\ Hit
    /\ Goto(r, "hit")
    /\ See(r, cache)
    /\ UNCHANGED <<kind, exposed, row, epoch, cacheVars, flight, joined, at, since, writerVars>>

LeaderMiss(r) ==
    /\ pc[r] = "leading"
    /\ MissEntry
    /\ Goto(r, "missed")
    /\ UNCHANGED <<kind, exposed, row, epoch, flight, joined, seen, at, since, writerVars>>

\* The entry is copied before the epoch is read.
EpochOfHit(r) ==
    /\ pc[r] = "hit"
    /\ Goto(r, "hitdone")
    /\ NoteEpoch(r)
    /\ UNCHANGED <<kind, exposed, row, epoch, cacheVars, flight, joined, seen, since, writerVars>>

\* The epoch is read before the row.
EpochOfLoad(r) ==
    /\ pc[r] = "missed"
    /\ Goto(r, "loading")
    /\ NoteEpoch(r)
    /\ UNCHANGED <<kind, exposed, row, epoch, cacheVars, flight, joined, seen, since, writerVars>>

LoadRow(r) ==
    /\ pc[r] = "loading"
    /\ Goto(r, "loaded")
    /\ See(r, row)
    /\ UNCHANGED <<kind, exposed, row, epoch, cacheVars, flight, joined, at, since, writerVars>>

CheckEpochNot(r) ==
    /\ pc[r] = "loaded"
    /\ Goto(r, "checked")
    /\ UNCHANGED <<kind, exposed, row, epoch, cacheVars, flight, joined, seen, at, since, writerVars>>

\* Only a row that was loaded in the present epoch will be cached.
CheckEpoch(r) ==
    /\ pc[r] = "loaded"
    /\ Goto(r, IF at[r] = epoch THEN "checked" ELSE "done")
    /\ UNCHANGED <<kind, exposed, row, epoch, cacheVars, flight, joined, seen, at, since, writerVars>>

CacheEntry(r) ==
    /\ pc[r] = "checked"
    /\ Goto(r, "done")
    /\ cache' = seen[r]
    /\ expired' = FALSE
    /\ UNCHANGED <<kind, exposed, row, epoch, flight, joined, seen, at, since, writerVars>>

Companions(r) == {r} \cup {q \in Readers : pc[q] = "waiting" /\ joined[q] = r}
UnregisterNot(r) == UNCHANGED flight
Unregister(r) == flight' = IF flight = r THEN NoReader ELSE flight

\* The load is over, for its leader and for all who wait for it.
Deliver(r) ==
    /\ pc[r] \in {"hitdone", "done"}
    /\ pc' = [q \in Readers |-> IF q \in Companions(r) THEN "got" ELSE pc[q]]
    /\ seen' = [q \in Readers |-> IF q \in Companions(r) THEN seen[r] ELSE seen[q]]
    /\ at' = [q \in Readers |-> IF q \in Companions(r) THEN at[r] ELSE at[q]]
    /\ joined' = [q \in Readers |-> IF q \in Companions(r) THEN NoReader ELSE joined[q]]
    /\ Unregister(r)
    /\ UNCHANGED <<kind, exposed, row, epoch, cacheVars, since, writerVars>>

\* No row has the key, the database fails, or the client of the leader has gone:
\* all who wait get the error.
LoadFails(r) ==
    /\ pc[r] = "loading"
    /\ pc' = [q \in Readers |-> IF q \in Companions(r) THEN "failed" ELSE pc[q]]
    /\ joined' = [q \in Readers |-> IF q \in Companions(r) THEN NoReader ELSE joined[q]]
    /\ Unregister(r)
    /\ UNCHANGED <<kind, exposed, row, epoch, cacheVars, seen, at, since, writerVars>>

AcceptNot(r) == pc[r] = "got" /\ Goto(r, "served")
Accept(r) == pc[r] = "got" /\ Goto(r, IF at[r] = epoch THEN "served" ELSE "outdated")

\* A result of the present epoch is the answer.
AcceptResult(r) ==
    /\ Accept(r)
    /\ UNCHANGED <<kind, exposed, row, epoch, cacheVars, flight, joined, seen, at, since, writerVars>>

\* Otherwise the load that is registered by now is forgotten, whoever began it, and
\* the request starts over unless its client has gone.
ForgetAndRetry(r) ==
    /\ pc[r] = "outdated"
    /\ flight' = NoReader
    /\ Goto(r, "enter") \/ Goto(r, "failed")
    /\ DropResult(r)
    /\ UNCHANGED <<kind, exposed, row, epoch, cacheVars, joined, since, writerVars>>

FinishRequest(r) ==
    /\ pc[r] \in {"served", "failed"}
    /\ Goto(r, "idle")
    /\ DropResult(r)
    /\ since' = [since EXCEPT ![r] = 0]
    /\ UNCHANGED <<kind, exposed, row, epoch, cacheVars, flight, joined, writerVars>>

------------------------------------------------------------------------------
(* Operations *)

\* A load is unguarded between the check of its epoch and the caching of its row;
\* the load of a token also from a copy of the entry to its delivery, because the
\* entry may go before the operation looks for it, and then nothing is forgotten.
UnguardedStates == {"checked"} \cup (IF ForgetsAlways THEN {} ELSE {"hit", "hitdone"})
Unguarded == \E r \in Readers : pc[r] \in UnguardedStates
Expose == exposed' = (exposed \/ Unguarded)

CommitChange(w) ==
    /\ op[w] = "idle"
    /\ row < MaxWrites
    /\ row' = row + 1
    /\ op' = [op EXCEPT ![w] = "committed"]
    /\ mine' = [mine EXCEPT ![w] = row + 1]
    /\ UNCHANGED <<kind, exposed, epoch, cacheVars, readerVars, completed>>

\* The change is committed, but the operation gets an error instead of the answer:
\* it invalidates nothing and reports a failure.
LoseConfirmation(w) ==
    /\ op[w] = "committed"
    /\ op' = [op EXCEPT ![w] = "idle"]
    /\ mine' = [mine EXCEPT ![w] = 0]
    /\ UNCHANGED <<kind, exposed, row, epoch, cacheVars, readerVars, completed>>

AdvanceEpoch(w) ==
    /\ op[w] = "committed"
    /\ epoch' = epoch + 1
    /\ op' = [op EXCEPT ![w] = "advanced"]
    /\ Expose
    /\ UNCHANGED <<kind, row, cacheVars, readerVars, mine, completed>>

Return(w) ==
    /\ op' = [op EXCEPT ![w] = "idle"]
    /\ mine' = [mine EXCEPT ![w] = 0]
    /\ completed' = IF mine[w] > completed THEN mine[w] ELSE completed

\* The domain list is cleared, and its load forgotten when the lock is released.
\* The load of a token is forgotten under the lock, but only if the token was
\* found in the cache.
ClearEntry(w) ==
    /\ op[w] = "advanced"
    /\ cache' = NoVersion
    /\ expired' = FALSE
    /\ IF ForgetsAlways
       THEN op' = [op EXCEPT ![w] = "cleared"] /\ UNCHANGED <<flight, mine, completed>>
       ELSE /\ Return(w)
            /\ flight' = IF cache # NoVersion THEN NoReader ELSE flight
    /\ Expose
    /\ UNCHANGED <<kind, row, epoch, pc, joined, seen, at, since>>

ForgetLoad(w) ==
    /\ op[w] = "cleared"
    /\ flight' = NoReader
    /\ Return(w)
    /\ UNCHANGED <<kind, exposed, row, epoch, cacheVars, pc, joined, seen, at, since>>

------------------------------------------------------------------------------
ReaderStep(r) ==
    \/ LookupHit(r)
    \/ LookupMiss(r)
    \/ EnterFlight(r)
    \/ LeaderHit(r)
    \/ LeaderMiss(r)
    \/ EpochOfHit(r)
    \/ EpochOfLoad(r)
    \/ LoadRow(r)
    \/ CheckEpoch(r)
    \/ CacheEntry(r)
    \/ Deliver(r)
    \/ LoadFails(r)
    \/ AcceptResult(r)
    \/ ForgetAndRetry(r)
    \/ FinishRequest(r)

WriterStep(w) ==
    \/ CommitChange(w)
    \/ LoseConfirmation(w)
    \/ AdvanceEpoch(w)
    \/ ClearEntry(w)
    \/ ForgetLoad(w)

Next ==
    \/ \E r \in Readers : StartRequest(r) \/ ReaderStep(r)
    \/ \E w \in Writers : WriterStep(w)
    \/ ExpireEntry
    \/ EvictEntry

Spec == Init /\ [][Next]_vars

\* Goroutines go on, time passes, operations come to their end.
FairSpec ==
    /\ Spec
    /\ \A r \in Readers : WF_vars(ReaderStep(r))
    /\ \A w \in Writers : WF_vars(AdvanceEpoch(w) \/ ClearEntry(w) \/ ForgetLoad(w))
    /\ WF_vars(ExpireEntry)

------------------------------------------------------------------------------
(* Properties *)

\* Every variable holds a value of its type.
TypeOK ==
    /\ kind \in Kinds
    /\ row \in Versions
    /\ epoch \in Versions
    /\ cache \in Versions \cup {NoVersion}
    /\ expired \in BOOLEAN
    /\ flight \in Readers \cup {NoReader}
    /\ pc \in [Readers -> ReaderStates]
    /\ joined \in [Readers -> Readers \cup {NoReader}]
    /\ seen \in [Readers -> Versions]
    /\ at \in [Readers -> Versions]
    /\ op \in [Writers -> OpStates]
    /\ mine \in [Writers -> Versions]
    /\ completed \in Versions
    /\ since \in [Readers -> Versions]
    /\ exposed \in BOOLEAN

\* An entry that an operation has invalidated is not in the cache once the operation
\* has returned, if no operation has come in an unguarded moment
\* (api/store/tokens_test.go:139-141, domains_cache_test.go:56-58).
InvalidatedGone == ~exposed /\ cache # NoVersion => cache >= completed

\* Then a request that begins after an operation has returned is answered from a row
\* that the operation has changed: the revoked token is refused, the disabled domain
\* offered no more (api/store/tokens.go:224, postgres.go:183).
NoStaleAnswer == \A r \in Readers : ~exposed /\ pc[r] = "served" => seen[r] >= since[r]

\* Nothing stale is kept or answered (tokens.go:205-224): both of the above.
NothingStale == InvalidatedGone /\ NoStaleAnswer

\* Every request is answered or fails: loads that are forgotten, joined late or
\* overtaken by operations strand nobody, and the retries end with the operations.
EveryRequestAnswered == \A r \in Readers : pc[r] = "lookup" ~> pc[r] \in {"served", "failed"}

\* An entry that was cached too late goes with its TTL: when the operations have
\* ended, what the cache offers is at last the row, for good.
CacheConverges == <>[](Hit => cache = row)

\* Requests and entries settle (tokens.go:194-231): both of the above.
CacheSettles == EveryRequestAnswered /\ CacheConverges

==============================================================================
