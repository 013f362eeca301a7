------------------------------ MODULE QuotaGate -------------------------------
(***************************************************************************)
(* The way of a request to its handler: APIAuth, DonationAuth and          *)
(* RateLimit (api/middleware/auth.go, redis_counter.go, ratelimit.go)      *)
(* against the administrator's and the reward's changes of the token       *)
(* (api/store/tokens.go, donations.go).                                    *)
(*                                                                         *)
(* A request looks its token up, reads the clock, has Redis count it in    *)
(* its minute and its day, has PostgreSQL count it against the total, and  *)
(* is served.  In between anything may happen to the token.  The lookup    *)
(* answers with the row as it is, or, from a cache, as it was a moment ago *)
(* (EpochCache says when); the limits of the minute and of the day are     *)
(* those of that answer, the total limit is looked at again.               *)
(*                                                                         *)
(* There is one token.  Beside some definitions stands a mistaken form.    *)
(***************************************************************************)
EXTENDS Naturals, FiniteSets

CONSTANTS
    Requests,     \* each is made once
    Limits,       \* what a token may be limited to; 0 is "no limit"
    Defaults,     \* the limits in the settings token_default_*
    Kinds,        \* "standard", "donation"
    PublicLimit,  \* requests in a window of a public endpoint
    DayLength,    \* minutes of a day
    MaxTime,      \* bound of the model: minutes
    MaxChanges,   \* bound of the model: changes of the token
    MaxFaults     \* bound of the model: failures of Redis and PostgreSQL

Quotas == [minute : Nat, daily : Nat, total : Nat]

ASSUME QuotaAssumption ==
    /\ IsFiniteSet(Requests)
    /\ Limits \subseteq Quotas /\ Defaults \in Quotas
    /\ Kinds \subseteq {"standard", "donation"}
    /\ PublicLimit \in Nat /\ DayLength \in Nat \ {0}
    /\ MaxTime \in Nat /\ MaxChanges \in Nat /\ MaxFaults \in Nat

VARIABLES
    now,        \* the minute
    kind,       \* token_kind, which never changes
    row,        \* the row of account_tokens
    used,       \* request_count_total
    recent,     \* rows that were current in the last five seconds
    changes,
    pc,         \* where a request is, or how it ended
    secret,     \* the secret it presents
    token,      \* the row its lookup has answered with
    clock,      \* the minute it has read
    counted,    \* the minute in which Redis has counted it
    spent,      \* of which quotas it has used up one
    minutes,    \* the counter of a minute in Redis, 0 if there is none
    expires,    \* the minute in which this counter goes
    days,       \* the counter of a day
    windows,    \* the counter of a window of a public endpoint
    faults,
    peak        \* history: the highest total limit

tokenVars == <<kind, row, recent, changes, peak>>
redisVars == <<minutes, expires, days, windows>>
requestVars == <<pc, secret, token, clock, counted, spent>>
vars == <<now, tokenVars, used, redisVars, requestVars, faults>>

Times == 0..MaxTime
Days == 0..(MaxTime \div DayLength)
Secrets == 0..MaxChanges
NoTime == MaxTime + 3
Refused == {"unknown", "revoked", "expired", "inactive", "minute", "day", "total", "window",
            "failed"}
Served == {"served", "donating", "public"}
Waiting == {"idle", "found", "timed", "passed", "window?"}

Rows == [exists : BOOLEAN, secret : Secrets, revoked : BOOLEAN, until : Nat,
         minute : Nat, daily : Nat, total : Nat]

Works(version) == version.exists /\ ~version.revoked /\ now < version.until

WithLimits(r, l) == [r EXCEPT !.minute = l.minute, !.daily = l.daily, !.total = l.total]

\* CreateToken: a limit that is not asked for is the one of the settings.
CreateToken(l) ==
    LET Given(value, default) == IF value = 0 THEN default ELSE value IN
    [exists |-> TRUE, secret |-> 0, revoked |-> FALSE, until |-> NoTime,
     minute |-> Given(l.minute, Defaults.minute),
     daily |-> Given(l.daily, Defaults.daily),
     total |-> Given(l.total, Defaults.total)]

Init ==
    /\ now = 0 /\ used = 0 /\ changes = 0 /\ faults = 0
    /\ kind \in Kinds
    /\ row \in {CreateToken(l) : l \in Limits}
    /\ recent = {}
    /\ pc = [r \in Requests |-> "idle"]
    /\ secret = [r \in Requests |-> 0]
    /\ token = [r \in Requests |-> row]
    /\ clock = [r \in Requests |-> NoTime]
    /\ counted = [r \in Requests |-> NoTime]
    /\ spent = [r \in Requests |-> {}]
    /\ minutes = [t \in Times |-> 0]
    /\ expires = [t \in Times |-> NoTime]
    /\ days = [d \in Days |-> 0]
    /\ windows = [t \in Times |-> 0]
    /\ peak = row.total

Day(t) == t \div DayLength
Goto(r, state) == pc' = [pc EXCEPT ![r] = state]
Spend(r, quota) == spent' = [spent EXCEPT ![r] = @ \cup {quota}]

------------------------------------------------------------------------------
(* The token changes *)

Change(next) ==
    /\ changes < MaxChanges
    /\ changes' = changes + 1
    /\ row' = next
    /\ recent' = recent \cup {row}
    /\ peak' = IF next.total > peak THEN next.total ELSE peak
    /\ UNCHANGED <<now, kind, used, redisVars, requestVars, faults>>

Administrable == kind = "standard" /\ row.exists

\* It expires at another time, or never, or as before.
UpdateToken ==
    /\ Administrable
    /\ \E l \in Limits, time \in {now + 1, NoTime, row.until} :
          Change([WithLimits(row, l) EXCEPT !.until = time])

\* A rotated token is also enabled.
RotateToken ==
    /\ Administrable
    /\ Change([row EXCEPT !.secret = @ + 1, !.revoked = FALSE])

DisableToken == Administrable /\ ~row.revoked /\ Change([row EXCEPT !.revoked = TRUE])

EnableToken == Administrable /\ Change([row EXCEPT !.revoked = FALSE])

DeleteToken == Administrable /\ Change([row EXCEPT !.exists = FALSE])

\* The rewards of a donation are counted anew.
RecalculateDonation ==
    /\ kind = "donation"
    /\ \E l \in Limits : Change(WithLimits(row, l))

\* Five seconds have passed since the last change.
ForgetOldRows ==
    /\ recent # {}
    /\ recent' = {}
    /\ UNCHANGED <<now, kind, row, changes, peak, used, redisVars, requestVars,
                   faults>>

------------------------------------------------------------------------------
(* Time and Redis *)

MinuteTTLShort == 1
MinuteTTL == 2

\* No request is more than a minute behind its clock: the calls of Redis time out.
Tick ==
    /\ now < MaxTime
    /\ \A r \in Requests : pc[r] \in {"timed", "window?"} => clock[r] = now
    /\ now' = now + 1
    /\ minutes' = [t \in Times |-> IF expires[t] <= now' THEN 0 ELSE minutes[t]]
    /\ expires' = [t \in Times |-> IF expires[t] <= now' THEN NoTime ELSE expires[t]]
    /\ UNCHANGED <<tokenVars, used, days, windows, requestVars, faults>>

------------------------------------------------------------------------------
(* A request *)

AnswerOf(r) ==
    IF ~token'[r].exists \/ token'[r].secret # secret'[r] THEN "unknown"
    ELSE IF token'[r].revoked THEN "revoked"
    ELSE IF token'[r].until <= now THEN "expired" ELSE "found"

\* GetAccountByToken, from the cache or from the row.
Lookup(r) ==
    /\ pc[r] = "idle"
    /\ \E s \in 0..row.secret : secret' = [secret EXCEPT ![r] = s]
    /\ \E version \in {row} \cup recent : token' = [token EXCEPT ![r] = version]

APIAuth(r) ==
    /\ Lookup(r)
    /\ Goto(r, IF AnswerOf(r) = "found" /\ kind = "donation"
                    /\ (token'[r].total = 0 \/ token'[r].minute = 0)
               THEN "inactive" ELSE AnswerOf(r))
    /\ UNCHANGED <<now, tokenVars, used, redisVars, clock, counted, spent, faults>>

\* No quota is used up: an exhausted token may still add a domain.
DonationAuth(r) ==
    /\ Lookup(r)
    /\ Goto(r, IF AnswerOf(r) # "found" THEN AnswerOf(r)
               ELSE IF kind # "donation" THEN "unknown" ELSE "donating")
    /\ UNCHANGED <<now, tokenVars, used, redisVars, clock, counted, spent, faults>>

ReadClock(r) ==
    /\ pc[r] = "found"
    /\ clock' = [clock EXCEPT ![r] = now]
    /\ Goto(r, "timed")
    /\ UNCHANGED <<now, tokenVars, used, redisVars, secret, token, counted, spent, faults>>

MinutePassesEqual(r) == token[r].minute = 0 \/ minutes[clock[r]] <= token[r].minute

IsNewNever(t) == FALSE
\* Then it is given its TTL.
IsNew(t) == minutes[t] = 0

\* INCR, and what it returns is not above the limit.
MinutePasses(r) == token[r].minute = 0 \/ minutes[clock[r]] + 1 <= token[r].minute
DayPasses(r) == token[r].daily = 0 \/ days[Day(clock[r])] + 1 <= token[r].daily

DayIsCountedAlways(r) == token[r].daily > 0

\* Only a request that has passed its minute.
DayIsCounted(r) == token[r].daily > 0 /\ MinutePasses(r)

\* The script runs as one step: the minute, and the day unless the minute is full.
RunQuotaScript(r) ==
    LET t == clock[r] IN
    /\ counted' = [counted EXCEPT ![r] = now]
    /\ IF token[r].minute > 0
       THEN /\ minutes' = [minutes EXCEPT ![t] = @ + 1]
            /\ expires' = IF IsNew(t) THEN [expires EXCEPT ![t] = now + MinuteTTL] ELSE expires
       ELSE UNCHANGED <<minutes, expires>>
    /\ days' = IF DayIsCounted(r) THEN [days EXCEPT ![Day(t)] = @ + 1] ELSE days
    /\ spent' = [spent EXCEPT ![r] =
                    {q \in {"minute", "day"} :
                        \/ q = "minute" /\ token[r].minute > 0
                        \/ q = "day" /\ DayIsCounted(r)}]
    /\ UNCHANGED windows

incrementQuotaCounters(r) ==
    /\ pc[r] = "timed"
    /\ RunQuotaScript(r)
    /\ Goto(r, IF ~MinutePasses(r) THEN "minute"
               ELSE IF ~DayPasses(r) THEN "day" ELSE "passed")
    /\ UNCHANGED <<now, tokenVars, used, secret, token, clock, faults>>

\* Redis is not reached, or its answer is lost: the request is refused with 503.  With
\* neither limit Redis is not asked.
RedisFails(r) ==
    /\ pc[r] = "timed"
    /\ token[r].minute > 0 \/ token[r].daily > 0
    /\ faults < MaxFaults
    /\ faults' = faults + 1
    /\ Goto(r, "failed")
    /\ RunQuotaScript(r) \/ UNCHANGED <<redisVars, counted, spent>>
    /\ UNCHANGED <<now, tokenVars, used, secret, token, clock>>

AllowsRevoked(r) == row.exists /\ (row.total = 0 \/ used < row.total)
AllowsLookedUp(r) == Works(row) /\ token[r].total > 0

\* The condition of the UPDATE, on the row as it is by now; a total of 0 is "no
\* limit", also for a donation.
Allows(r) ==
    /\ Works(row)
    /\ row.total = 0 \/ used < row.total

SpendTotal(r) == Spend(r, IF row.total > 0 THEN "total" ELSE "free")

IncrementTokenUsageIfAllowed(r) ==
    /\ pc[r] = "passed"
    /\ token[r].total > 0
    /\ IF Allows(r)
       THEN used' = used + 1 /\ SpendTotal(r) /\ Goto(r, "served")
       ELSE Goto(r, "total") /\ UNCHANGED <<used, spent>>
    /\ UNCHANGED <<now, tokenVars, redisVars, secret, token, clock, counted, faults>>

\* PostgreSQL fails, or its answer is lost: 500.
ChargeFails(r) ==
    /\ pc[r] = "passed"
    /\ token[r].total > 0
    /\ faults < MaxFaults
    /\ faults' = faults + 1
    /\ Goto(r, "failed")
    /\ \/ Allows(r) /\ used' = used + 1 /\ SpendTotal(r)
       \/ UNCHANGED <<used, spent>>
    /\ UNCHANGED <<now, tokenVars, redisVars, secret, token, clock, counted>>

\* The use of a token without total limit is counted later (UsageRecorder).
DeferUsage(r) ==
    /\ pc[r] = "passed"
    /\ token[r].total = 0
    /\ Goto(r, "served")
    /\ UNCHANGED <<now, tokenVars, used, redisVars, secret, token, clock, counted, spent,
                   faults>>

------------------------------------------------------------------------------
(* Public endpoints *)

\* The window of a request is chosen by its clock.  It lasts a minute, and its counter
\* two.
fixedWindowKey(r) ==
    /\ pc[r] = "idle"
    /\ clock' = [clock EXCEPT ![r] = now]
    /\ Goto(r, "window?")
    /\ UNCHANGED <<now, tokenVars, used, redisVars, secret, token, counted, spent, faults>>

RateLimitOffByOne(count) == count > PublicLimit + 1
RateLimitFull(count) == count > PublicLimit

incrementWithTTL(r) ==
    /\ windows' = [windows EXCEPT ![clock[r]] = @ + 1]
    /\ counted' = [counted EXCEPT ![r] = now]
    /\ Spend(r, "window")
    /\ UNCHANGED <<minutes, expires, days>>

RateLimit(r) ==
    /\ pc[r] = "window?"
    /\ incrementWithTTL(r)
    /\ Goto(r, IF RateLimitFull(windows[clock[r]] + 1) THEN "window" ELSE "public")
    /\ UNCHANGED <<now, tokenVars, used, secret, token, clock, faults>>

\* A failed limiter refuses, whether or not Redis has counted.
LimiterFails(r) ==
    /\ pc[r] = "window?"
    /\ faults < MaxFaults
    /\ faults' = faults + 1
    /\ Goto(r, "failed")
    /\ incrementWithTTL(r) \/ UNCHANGED <<redisVars, counted, spent>>
    /\ UNCHANGED <<now, tokenVars, used, secret, token, clock>>

------------------------------------------------------------------------------
AdminStep ==
    UpdateToken \/ RotateToken \/ DisableToken \/ EnableToken \/ DeleteToken

RequestStep(r) ==
    \/ APIAuth(r)
    \/ ReadClock(r)
    \/ incrementQuotaCounters(r)
    \/ RedisFails(r)
    \/ IncrementTokenUsageIfAllowed(r)
    \/ ChargeFails(r)
    \/ DeferUsage(r)
    \/ DonationAuth(r)
    \/ fixedWindowKey(r)
    \/ RateLimit(r)
    \/ LimiterFails(r)

Next ==
    \/ AdminStep
    \/ RecalculateDonation
    \/ ForgetOldRows
    \/ Tick
    \/ \E r \in Requests : RequestStep(r)

Spec == Init /\ [][Next]_vars

------------------------------------------------------------------------------
(* Properties *)

\* Types; a counter of Redis always has its TTL, or a token would be refused for ever
\* (api/middleware/redis_counter.go:25-28).
TypeOK ==
    /\ now \in Times /\ used \in Nat /\ peak \in Nat
    /\ kind \in Kinds /\ row \in Rows /\ recent \subseteq Rows
    /\ changes \in 0..MaxChanges /\ faults \in 0..MaxFaults
    /\ pc \in [Requests -> Waiting \cup Served \cup Refused]
    /\ secret \in [Requests -> Secrets]
    /\ token \in [Requests -> Rows]
    /\ clock \in [Requests -> Times \cup {NoTime}]
    /\ counted \in [Requests -> Times \cup {NoTime}]
    /\ spent \in [Requests -> SUBSET {"minute", "day", "total", "free", "window"}]
    /\ minutes \in [Times -> Nat] /\ days \in [Days -> Nat] /\ windows \in [Times -> Nat]
    /\ expires \in [Times -> Times \cup {MaxTime + 1, MaxTime + 2, NoTime}]
    /\ \A t \in Times : minutes[t] > 0 <=> expires[t] \in (now + 1)..(now + MinuteTTL)

\* However many requests are in flight while the limits change and the lookups are
\* outdated: no more of them use up the total than the highest it ever was
\* (tokens.go:444-472).
TotalHolds == Cardinality({r \in Requests : "total" \in spent[r]}) <= peak

\* Requests that passed the minute they were counted in.
Passed(R) == {r \in R : pc[r] \in {"passed", "served", "day", "total"}}

Bounded(R, limit(_)) == R = {} \/ \E r \in R : Cardinality(R) <= limit(r)

\* In a minute, and in a day, no more requests pass than the highest limit one of them
\* was looked up with, although the key of a minute goes while late requests may still
\* come to it (auth.go:149-161).
MinuteAndDayHold ==
    /\ \A t \in Times :
          Bounded(Passed({r \in Requests : clock[r] = t /\ token[r].minute > 0}),
                  LAMBDA r : token[r].minute)
    /\ \A d \in Days :
          Bounded({r \in Passed(Requests) : /\ pc[r] # "day" /\ token[r].daily > 0
                                            /\ Day(clock[r]) = d},
                  LAMBDA r : token[r].daily)

\* Windows are fixed: at their boundary a public endpoint serves twice its limit in a
\* minute, never more (ratelimit.go:30-52).
BurstBounded ==
    \A t \in Times :
       /\ Cardinality({r \in Requests : pc[r] = "public" /\ clock[r] = t}) <= PublicLimit
       /\ Cardinality({r \in Requests : pc[r] = "public" /\ counted[r] = t}) <= 2 * PublicLimit

\* No limit is exceeded, of a token or of a public endpoint (auth.go:149-205,
\* ratelimit.go:30-52): TotalHolds, MinuteAndDayHold and BurstBounded.
LimitsHold == TotalHolds /\ MinuteAndDayHold /\ BurstBounded

\* A refused request has used up only what was tested before the quota that refused it;
\* one that is not let in, and one that adds a domain, nothing (auth.go:112-205).
RefusedSpendsLess ==
    \A r \in Requests :
       /\ pc[r] = "minute" => spent[r] \subseteq {"minute"}
       /\ pc[r] = "day" => spent[r] \subseteq {"minute", "day"}
       /\ pc[r] = "total" => spent[r] \cap {"total", "free"} = {}
       /\ pc[r] \in {"unknown", "revoked", "expired", "inactive", "donating"} => spent[r] = {}

\* A token that was disabled, deleted or has expired serves nobody whose lookup has
\* answered with a total limit, not even from a cache (tokens.go:452-455).
RevokedServesNone ==
    [][\A r \in Requests :
          pc'[r] = "served" /\ pc[r] # "served" /\ token[r].total > 0 => Works(row)]_vars

==============================================================================
