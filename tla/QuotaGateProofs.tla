---------------------------- MODULE QuotaGateProofs ----------------------------
(***************************************************************************)
(* Theorems about QuotaGate, for any limits, length of the day, number of  *)
(* minutes, changes and failures, and any finite set of requests.          *)
(***************************************************************************)
EXTENDS QuotaGate, FiniteSetTheorems, TLAPS

------------------------------------------------------------------------------
(* Types *)

\* States of a request that has used up nothing.
Early == {"idle", "found", "timed", "window?", "unknown", "revoked", "expired", "inactive", "donating"}

\* A secret for each rotation; no counter, no TTL; a request that has read the clock is at
\* most a minute late.
TypeInv ==
    /\ TypeOK
    /\ row.secret <= changes
    /\ \A t \in Times : minutes[t] = 0 => expires[t] = NoTime
    /\ \A r \in Requests :
          pc[r] \in {"timed", "window?"} => clock[r] \in Times /\ clock[r] <= now /\ now <= clock[r] + 1

\* Minutes of a day.
LEMMA DayType ==
    ASSUME NEW t \in Times
    PROVE  Day(t) \in Days
<1>1. \A a \in Nat, b \in Nat, n \in Nat \ {0} : a <= b => a \div n \in Nat /\ a \div n <= b \div n /\ b \div n \in Nat
    OBVIOUS
<1>2. t \in Nat /\ t <= MaxTime /\ MaxTime \in Nat /\ DayLength \in Nat \ {0}
    BY QuotaAssumption DEF Times
<1>3. t \div DayLength \in Nat /\ t \div DayLength <= MaxTime \div DayLength /\ MaxTime \div DayLength \in Nat
    BY <1>1, <1>2
<1>. QED  BY <1>3 DEF Day, Days

LEMMA RowTypes ==
    ASSUME NEW version \in Rows
    PROVE  /\ version.secret \in Nat /\ version.secret <= MaxChanges /\ version.exists \in BOOLEAN
           /\ version.revoked \in BOOLEAN /\ version.until \in Nat
           /\ version.minute \in Nat /\ version.daily \in Nat /\ version.total \in Nat
BY QuotaAssumption DEF Rows, Secrets

LEMMA LimitedRow ==
    ASSUME NEW version \in Rows, NEW l \in Limits
    PROVE  /\ WithLimits(version, l) \in Rows /\ WithLimits(version, l).secret = version.secret
           /\ \A time \in Nat : /\ [WithLimits(version, l) EXCEPT !.until = time] \in Rows
                                /\ [WithLimits(version, l) EXCEPT !.until = time].secret = version.secret
<1>1. l.minute \in Nat /\ l.daily \in Nat /\ l.total \in Nat
    BY QuotaAssumption DEF Quotas
<1>2. WithLimits(version, l) \in Rows /\ WithLimits(version, l).secret = version.secret
    BY <1>1 DEF WithLimits, Rows
<1>. HIDE DEF WithLimits
<1>. QED  BY <1>2 DEF Rows

\* What a step that leaves the token and the time alone has to show.
RequestTypes ==
    /\ used \in Nat /\ faults \in 0..MaxFaults
    /\ pc \in [Requests -> Waiting \cup Served \cup Refused]
    /\ secret \in [Requests -> Secrets]
    /\ token \in [Requests -> Rows]
    /\ clock \in [Requests -> Times \cup {NoTime}]
    /\ counted \in [Requests -> Times \cup {NoTime}]
    /\ spent \in [Requests -> SUBSET {"minute", "day", "total", "free", "window"}]
    /\ \A r \in Requests :
          pc[r] \in {"timed", "window?"} => clock[r] \in Times /\ clock[r] <= now /\ now <= clock[r] + 1

RedisTypes ==
    /\ minutes \in [Times -> Nat] /\ days \in [Days -> Nat] /\ windows \in [Times -> Nat]
    /\ expires \in [Times -> Times \cup {MaxTime + 1, MaxTime + 2, NoTime}]
    /\ \A t \in Times : minutes[t] > 0 <=> expires[t] \in (now + 1)..(now + MinuteTTL)
    /\ \A t \in Times : minutes[t] = 0 => expires[t] = NoTime

TokenTypes ==
    /\ peak \in Nat /\ kind \in Kinds /\ row \in Rows /\ recent \subseteq Rows
    /\ changes \in 0..MaxChanges /\ row.secret <= changes

LEMMA TypeParts == TypeInv <=> now \in Times /\ TokenTypes /\ RedisTypes /\ RequestTypes
BY DEF TypeInv, TypeOK, TokenTypes, RedisTypes, RequestTypes

LEMMA ChangeTypes ==
    ASSUME TypeInv, NEW next \in Rows, next.secret <= row.secret + 1, Change(next)
    PROVE  TypeInv'
<1>1. TokenTypes'
    <2>1. /\ row' = next /\ changes' = changes + 1 /\ changes < MaxChanges /\ kind' = kind
          /\ recent' = recent \cup {row} /\ peak' \in {next.total, peak}
        BY DEF Change
    <2>2. row.secret \in Nat /\ next.secret \in Nat /\ next.total \in Nat
        BY RowTypes DEF TypeInv, TypeOK
    <2>. QED  BY <2>1, <2>2, QuotaAssumption DEF TypeInv, TypeOK, TokenTypes
<1>2. (now \in Times)' /\ RedisTypes' /\ RequestTypes'
    <2>1. UNCHANGED <<now, used, redisVars, requestVars, faults>>
        BY DEF Change
    <2>2. now \in Times /\ RedisTypes /\ RequestTypes
        BY TypeParts
    <2>. QED  BY <2>1, <2>2 DEF RedisTypes, RequestTypes, redisVars, requestVars
<1>. QED  BY <1>1, <1>2 DEF TypeInv, TypeOK, TokenTypes, RedisTypes, RequestTypes

LEMMA TokenStepTypes ==
    ASSUME TypeInv, AdminStep \/ RecalculateDonation \/ ForgetOldRows
    PROVE  TypeInv'
<1>0. row \in Rows /\ row.secret \in Nat /\ row.secret <= changes /\ now \in Nat /\ row.until \in Nat
    BY RowTypes, QuotaAssumption DEF TypeInv, TypeOK, Times
<1>1. CASE UpdateToken
    <2>1. PICK l \in Limits, time \in {now + 1, NoTime, row.until} :
             Change([WithLimits(row, l) EXCEPT !.until = time])
        BY <1>1 DEF UpdateToken
    <2>2. time \in Nat
        BY <1>0, QuotaAssumption DEF NoTime
    <2>. DEFINE next == [WithLimits(row, l) EXCEPT !.until = time]
    <2>3. next \in Rows /\ next.secret = row.secret
        BY <1>0, <2>2, LimitedRow
    <2>. HIDE DEF next
    <2>4. next.secret <= row.secret + 1 /\ Change(next)
        BY <1>0, <2>1, <2>3 DEF next
    <2>. QED  BY <2>3, <2>4, ChangeTypes
<1>2. CASE RotateToken
    <2>. DEFINE next == [row EXCEPT !.secret = @ + 1, !.revoked = FALSE]
    <2>1. Change(next) /\ changes < MaxChanges
        BY <1>2 DEF RotateToken, Change
    <2>2. row.secret + 1 \in Secrets
        BY <1>0, <2>1, QuotaAssumption DEF Secrets, TypeInv, TypeOK
    <2>3. next \in Rows /\ next.secret = row.secret + 1
        BY <1>0, <2>2 DEF Rows
    <2>. HIDE DEF next
    <2>. QED  BY <1>0, <2>1, <2>3, ChangeTypes
<1>3. CASE DisableToken \/ EnableToken \/ DeleteToken
    <2>1. PICK next \in {[row EXCEPT !.revoked = TRUE], [row EXCEPT !.revoked = FALSE],
                         [row EXCEPT !.exists = FALSE]} : Change(next)
        BY <1>3 DEF DisableToken, EnableToken, DeleteToken
    <2>2. next \in Rows /\ next.secret = row.secret
        BY <1>0 DEF Rows
    <2>. QED  BY <1>0, <2>1, <2>2, ChangeTypes
<1>4. CASE RecalculateDonation
    BY <1>0, <1>4, LimitedRow, ChangeTypes DEF RecalculateDonation
<1>5. CASE ForgetOldRows
    <2>1. TokenTypes' /\ (now \in Times)' /\ RedisTypes' /\ RequestTypes'
        BY <1>5, TypeParts DEF ForgetOldRows, TokenTypes, RedisTypes, RequestTypes, redisVars, requestVars
    <2>. QED  BY <2>1 DEF TypeInv, TypeOK, TokenTypes, RedisTypes, RequestTypes
<1>. QED  BY <1>1, <1>2, <1>3, <1>4, <1>5 DEF AdminStep

LEMMA TickTypes == TypeInv /\ Tick => TypeInv'
<1>. SUFFICES ASSUME TypeInv, Tick PROVE TypeInv'
    OBVIOUS
<1>1. /\ now \in Nat /\ now' = now + 1 /\ now' \in Times /\ MaxTime \in Nat /\ now' <= MaxTime
      /\ \A t \in Times : minutes[t] \in Nat
      /\ \A t \in Times : minutes[t] > 0 <=> expires[t] \in (now + 1)..(now + MinuteTTL)
      /\ \A t \in Times : expires[t] \in Times \cup {MaxTime + 1, MaxTime + 2, NoTime}
      /\ \A t \in Times : minutes[t] = 0 => expires[t] = NoTime
    BY QuotaAssumption DEF TypeInv, TypeOK, Tick, Times
<1>2. TokenTypes'
    BY DEF Tick, TypeInv, TypeOK, TokenTypes, tokenVars
<1>3. RequestTypes'
    <2>1. ASSUME NEW r \in Requests, pc[r] \in {"timed", "window?"}
          PROVE  clock[r] \in Times /\ clock[r] <= now' /\ now' <= clock[r] + 1
        <3>1. clock[r] = now
            BY <2>1 DEF Tick
        <3>. QED  BY <1>1, <3>1 DEF Times
    <2>2. UNCHANGED <<used, requestVars, faults>>
        BY DEF Tick
    <2>. QED  BY <2>1, <2>2 DEF TypeInv, TypeOK, RequestTypes, requestVars
<1>4. RedisTypes'
    <2>1. /\ minutes' = [t \in Times |-> IF expires[t] <= now' THEN 0 ELSE minutes[t]]
          /\ expires' = [t \in Times |-> IF expires[t] <= now' THEN NoTime ELSE expires[t]]
          /\ UNCHANGED <<days, windows>>
        BY DEF Tick
    <2>2. ASSUME NEW t \in Times
          PROVE  /\ minutes'[t] > 0 <=> expires'[t] \in (now' + 1)..(now' + MinuteTTL)
                 /\ minutes'[t] = 0 => expires'[t] = NoTime
        <3>1. expires[t] \in Nat /\ NoTime \in Nat /\ NoTime > now' + MinuteTTL
            BY <1>1 DEF NoTime, MinuteTTL, Times
        <3>. QED  BY <1>1, <2>1, <3>1 DEF MinuteTTL
    <2>3. minutes' \in [Times -> Nat] /\ expires' \in [Times -> Times \cup {MaxTime + 1, MaxTime + 2, NoTime}]
        BY <1>1, <2>1
    <2>. QED  BY <2>1, <2>2, <2>3 DEF TypeInv, TypeOK, RedisTypes
<1>. QED  BY <1>1, <1>2, <1>3, <1>4, TypeParts DEF TypeInv, TypeOK, TokenTypes, RedisTypes, RequestTypes

\* The script, which counts in Redis.
LEMMA ScriptTypes ==
    ASSUME TypeInv, NEW r \in Requests, pc[r] = "timed", RunQuotaScript(r), now' = now
    PROVE  /\ RedisTypes'
           /\ counted' \in [Requests -> Times \cup {NoTime}]
           /\ spent' \in [Requests -> SUBSET {"minute", "day", "total", "free", "window"}]
<1>. DEFINE t == clock[r]
<1>1. /\ t \in Times /\ Day(t) \in Days /\ now \in Nat /\ now \in Times
      /\ now + MinuteTTL \in Times \cup {MaxTime + 1, MaxTime + 2, NoTime}
      /\ \A u \in Times : minutes[u] \in Nat
    BY DayType, QuotaAssumption DEF TypeInv, TypeOK, Times, MinuteTTL
<1>2. /\ UNCHANGED windows
      /\ days' \in {days, [days EXCEPT ![Day(t)] = @ + 1]}
      /\ \/ UNCHANGED <<minutes, expires>>
         \/ /\ minutes' = [minutes EXCEPT ![t] = @ + 1]
            /\ expires' = IF minutes[t] = 0 THEN [expires EXCEPT ![t] = now + MinuteTTL] ELSE expires
    BY DEF RunQuotaScript, IsNew
<1>3. counted' = [counted EXCEPT ![r] = now]
    BY DEF RunQuotaScript
<1>4. \E S \in SUBSET {"minute", "day"} : spent' = [spent EXCEPT ![r] = S]
    BY DEF RunQuotaScript
<1>. HIDE DEF t
<1>5. days' \in [Days -> Nat]
    BY <1>1, <1>2 DEF TypeInv, TypeOK
<1>6. /\ minutes' \in [Times -> Nat]
      /\ expires' \in [Times -> Times \cup {MaxTime + 1, MaxTime + 2, NoTime}]
    BY <1>1, <1>2 DEF TypeInv, TypeOK
<1>7. ASSUME NEW u \in Times
      PROVE  /\ minutes'[u] > 0 <=> expires'[u] \in (now' + 1)..(now' + MinuteTTL)
             /\ minutes'[u] = 0 => expires'[u] = NoTime
    <2>1. /\ minutes[u] > 0 <=> expires[u] \in (now + 1)..(now + MinuteTTL)
          /\ minutes[u] = 0 => expires[u] = NoTime
        BY DEF TypeInv, TypeOK
    <2>2. CASE UNCHANGED <<minutes, expires>> \/ u # t
        <3>1. minutes'[u] = minutes[u] /\ expires'[u] = expires[u]
            BY <1>1, <1>2, <2>2 DEF TypeInv, TypeOK
        <3>. QED  BY <2>1, <3>1
    <2>3. CASE u = t /\ ~UNCHANGED <<minutes, expires>>
        <3>1. /\ minutes'[u] = minutes[u] + 1
              /\ expires'[u] = IF minutes[u] = 0 THEN now + MinuteTTL ELSE expires[u]
            BY <1>1, <1>2, <2>3 DEF TypeInv, TypeOK
        <3>. QED  BY <1>1, <2>1, <3>1 DEF MinuteTTL
    <2>. QED  BY <2>2, <2>3
<1>8. counted' \in [Requests -> Times \cup {NoTime}]
    BY <1>1, <1>3 DEF TypeInv, TypeOK
<1>9. spent' \in [Requests -> SUBSET {"minute", "day", "total", "free", "window"}]
    BY <1>4 DEF TypeInv, TypeOK
<1>. QED  BY <1>2, <1>5, <1>6, <1>7, <1>8, <1>9 DEF TypeInv, TypeOK, RedisTypes

States == Waiting \cup Served \cup Refused

\* Of a request that makes a step, the rest is left as it is.
LEMMA GotoIs ==
    ASSUME TypeInv, NEW r \in Requests, NEW state, Goto(r, state)
    PROVE  /\ pc'[r] = state
           /\ \A q \in Requests \ {r} : pc'[q] = pc[q]
           /\ state \in States => pc' \in [Requests -> States]
BY DEF Goto, TypeInv, TypeOK, States

\* Where a lookup leads.
LEMMA LookupIs ==
    ASSUME TypeInv, NEW r \in Requests, APIAuth(r) \/ DonationAuth(r)
    PROVE  /\ pc[r] = "idle"
           /\ Goto(r, "unknown") \/ Goto(r, "revoked") \/ Goto(r, "expired") \/ Goto(r, "found")
                 \/ Goto(r, "inactive") \/ Goto(r, "donating")
           /\ secret' \in [Requests -> Secrets]
           /\ token' \in [Requests -> Rows]
           /\ \A q \in Requests \ {r} : token'[q] = token[q]
           /\ UNCHANGED <<now, tokenVars, used, redisVars, clock, counted, spent, faults>>
<1>1. Lookup(r) /\ UNCHANGED <<now, tokenVars, used, redisVars, clock, counted, spent, faults>>
    BY DEF APIAuth, DonationAuth
<1>2. AnswerOf(r) \in {"unknown", "revoked", "expired", "found"}
    BY DEF AnswerOf
<1>. HIDE DEF AnswerOf
<1>3. Goto(r, "unknown") \/ Goto(r, "revoked") \/ Goto(r, "expired") \/ Goto(r, "found")
         \/ Goto(r, "inactive") \/ Goto(r, "donating")
    BY <1>2 DEF APIAuth, DonationAuth
<1>4. secret' \in [Requests -> Secrets]
    <2>1. PICK s \in 0..row.secret : secret' = [secret EXCEPT ![r] = s]
        BY <1>1 DEF Lookup
    <2>2. s \in Secrets
        BY RowTypes, QuotaAssumption DEF TypeInv, TypeOK, Secrets
    <2>. QED  BY <2>1, <2>2 DEF TypeInv, TypeOK
<1>5. token' \in [Requests -> Rows] /\ \A q \in Requests \ {r} : token'[q] = token[q]
    <2>1. PICK version \in {row} \cup recent : token' = [token EXCEPT ![r] = version]
        BY <1>1 DEF Lookup
    <2>. QED  BY <2>1 DEF TypeInv, TypeOK
<1>. QED  BY <1>1, <1>3, <1>4, <1>5 DEF Lookup

\* The clock of the requests that have read it.
Clocked ==
    \A r \in Requests :
       pc[r] \in {"timed", "window?"} => clock[r] \in Times /\ clock[r] <= now /\ now <= clock[r] + 1

LEMMA ClockKept ==
    ASSUME TypeInv, NEW r \in Requests, NEW state \in States \ {"timed", "window?"}, Goto(r, state),
           UNCHANGED <<now, clock>>
    PROVE  Clocked'
BY GotoIs DEF Clocked, TypeInv

LEMMA RequestStepTypes ==
    ASSUME TypeInv, NEW r \in Requests, RequestStep(r)
    PROVE  TypeInv'
<1>0. now \in Times /\ TokenTypes /\ RedisTypes /\ RequestTypes /\ now \in Nat
    BY TypeParts, QuotaAssumption DEF Times
<1>1. UNCHANGED <<now, tokenVars>>
    BY DEF RequestStep, APIAuth, DonationAuth, ReadClock, incrementQuotaCounters, RedisFails,
           IncrementTokenUsageIfAllowed, ChargeFails, DeferUsage, fixedWindowKey, RateLimit, LimiterFails
<1>2. SUFFICES RedisTypes' /\ RequestTypes'
    <2>1. TokenTypes'
        BY <1>0, <1>1 DEF TokenTypes, tokenVars
    <2>. QED  BY <1>0, <1>1, <2>1 DEF TypeInv, TypeOK, TokenTypes, RedisTypes, RequestTypes
<1>3. CASE APIAuth(r) \/ DonationAuth(r)
    <2>1. PICK state \in {"unknown", "revoked", "expired", "found", "inactive", "donating"} : Goto(r, state)
        BY <1>3, LookupIs
    <2>2. state \in States \ {"timed", "window?"}
        BY DEF States, Waiting, Served, Refused
    <2>3. Clocked' /\ pc' \in [Requests -> States]
        BY <1>3, <2>1, <2>2, ClockKept, GotoIs, LookupIs
    <2>4. /\ UNCHANGED <<redisVars, used, faults, counted, spent, now, clock>>
          /\ token' \in [Requests -> Rows] /\ secret' \in [Requests -> Secrets]
        BY <1>3, LookupIs
    <2>. QED  BY <1>0, <2>3, <2>4 DEF RedisTypes, RequestTypes, redisVars, Clocked, States
<1>4. CASE ReadClock(r) \/ fixedWindowKey(r)
    <2>1. PICK state \in {"timed", "window?"} : Goto(r, state)
        BY <1>4 DEF ReadClock, fixedWindowKey
    <2>2. pc' \in [Requests -> States] /\ \A q \in Requests \ {r} : pc'[q] = pc[q]
        BY <2>1, GotoIs DEF States, Waiting
    <2>3. /\ clock' = [clock EXCEPT ![r] = now]
          /\ UNCHANGED <<redisVars, used, faults, counted, spent, now, secret, token>>
        BY <1>4 DEF ReadClock, fixedWindowKey
    <2>4. Clocked'
        BY <1>0, <2>2, <2>3 DEF Clocked, RequestTypes
    <2>. QED  BY <1>0, <2>2, <2>3, <2>4 DEF RedisTypes, RequestTypes, redisVars, Clocked, States
<1>5. CASE incrementQuotaCounters(r) \/ RedisFails(r)
    <2>1. PICK state \in {"minute", "day", "passed", "failed"} : Goto(r, state)
        BY <1>5 DEF incrementQuotaCounters, RedisFails
    <2>2. state \in States \ {"timed", "window?"}
        BY DEF States, Waiting, Served, Refused
    <2>3. pc[r] = "timed" /\ UNCHANGED <<used, secret, token, clock>>
        BY <1>5 DEF incrementQuotaCounters, RedisFails
    <2>4. Clocked' /\ pc' \in [Requests -> States]
        BY <1>1, <2>1, <2>2, <2>3, ClockKept, GotoIs
    <2>5. RunQuotaScript(r) \/ UNCHANGED <<redisVars, counted, spent>>
        BY <1>5 DEF incrementQuotaCounters, RedisFails
    <2>6. /\ RedisTypes'
          /\ counted' \in [Requests -> Times \cup {NoTime}]
          /\ spent' \in [Requests -> SUBSET {"minute", "day", "total", "free", "window"}]
        BY <1>0, <1>1, <2>3, <2>5, ScriptTypes DEF RedisTypes, RequestTypes, redisVars
    <2>7. faults' = faults \/ (faults < MaxFaults /\ faults' = faults + 1)
        BY <1>5 DEF incrementQuotaCounters, RedisFails
    <2>8. faults' \in 0..MaxFaults
        BY <1>0, <2>7, QuotaAssumption DEF RequestTypes
    <2>. QED  BY <1>0, <2>3, <2>4, <2>6, <2>8 DEF RequestTypes, Clocked, States
<1>6. CASE IncrementTokenUsageIfAllowed(r) \/ ChargeFails(r) \/ DeferUsage(r)
    <2>1. PICK state \in {"served", "total", "failed"} : Goto(r, state)
        BY <1>6 DEF IncrementTokenUsageIfAllowed, ChargeFails, DeferUsage
    <2>2. state \in States \ {"timed", "window?"}
        BY DEF States, Waiting, Served, Refused
    <2>3. UNCHANGED <<redisVars, secret, token, clock, counted, now>>
        BY <1>1, <1>6 DEF IncrementTokenUsageIfAllowed, ChargeFails, DeferUsage
    <2>4. Clocked' /\ pc' \in [Requests -> States]
        BY <2>1, <2>2, <2>3, ClockKept, GotoIs
    <2>5. used' \in {used, used + 1} /\ (SpendTotal(r) \/ spent' = spent)
        BY <1>6 DEF IncrementTokenUsageIfAllowed, ChargeFails, DeferUsage
    <2>6. spent' \in [Requests -> SUBSET {"minute", "day", "total", "free", "window"}]
        BY <1>0, <2>5 DEF SpendTotal, Spend, RequestTypes
    <2>7. faults' = faults \/ (faults < MaxFaults /\ faults' = faults + 1)
        BY <1>6 DEF IncrementTokenUsageIfAllowed, ChargeFails, DeferUsage
    <2>8. faults' \in 0..MaxFaults /\ used' \in Nat
        BY <1>0, <2>5, <2>7, QuotaAssumption DEF RequestTypes
    <2>. QED  BY <1>0, <2>3, <2>4, <2>6, <2>8 DEF RedisTypes, RequestTypes, redisVars, Clocked, States
<1>7. CASE RateLimit(r) \/ LimiterFails(r)
    <2>1. PICK state \in {"window", "public", "failed"} : Goto(r, state)
        BY <1>7 DEF RateLimit, LimiterFails
    <2>2. state \in States \ {"timed", "window?"}
        BY DEF States, Waiting, Served, Refused
    <2>3. pc[r] = "window?" /\ UNCHANGED <<used, secret, token, clock, now>>
        BY <1>1, <1>7 DEF RateLimit, LimiterFails
    <2>4. Clocked' /\ pc' \in [Requests -> States]
        BY <2>1, <2>2, <2>3, ClockKept, GotoIs
    <2>5. incrementWithTTL(r) \/ UNCHANGED <<redisVars, counted, spent>>
        BY <1>7 DEF RateLimit, LimiterFails
    <2>6. clock[r] \in Times
        BY <1>0, <2>3 DEF RequestTypes
    <2>7. /\ RedisTypes'
          /\ counted' \in [Requests -> Times \cup {NoTime}]
          /\ spent' \in [Requests -> SUBSET {"minute", "day", "total", "free", "window"}]
        <3>1. CASE incrementWithTTL(r)
            <4>1. windows' \in [Times -> Nat]
                <5>1. windows' = [windows EXCEPT ![clock[r]] = @ + 1]
                    BY <3>1 DEF incrementWithTTL
                <5>2. windows \in [Times -> Nat]
                    BY <1>0 DEF RedisTypes
                <5>. QED  BY <2>6, <5>1, <5>2
            <4>2. UNCHANGED <<minutes, expires, days>>
                BY <3>1 DEF incrementWithTTL
            <4>3. RedisTypes'
                BY <1>0, <2>3, <4>1, <4>2 DEF RedisTypes
            <4>. QED  BY <1>0, <3>1, <4>3 DEF incrementWithTTL, Spend, RequestTypes
        <3>2. CASE UNCHANGED <<redisVars, counted, spent>>
            BY <1>0, <2>3, <3>2 DEF RedisTypes, RequestTypes, redisVars
        <3>. QED  BY <2>5, <3>1, <3>2
    <2>8. faults' = faults \/ (faults < MaxFaults /\ faults' = faults + 1)
        BY <1>7 DEF RateLimit, LimiterFails
    <2>9. faults' \in 0..MaxFaults
        BY <1>0, <2>8, QuotaAssumption DEF RequestTypes
    <2>. QED  BY <1>0, <2>3, <2>4, <2>7, <2>9 DEF RequestTypes, Clocked, States
<1>. QED  BY <1>3, <1>4, <1>5, <1>6, <1>7 DEF RequestStep

LEMMA TypeStep == TypeInv /\ [Next]_vars => TypeInv'
<1>1. ASSUME TypeInv, UNCHANGED vars PROVE TypeInv'
    <2>1. TokenTypes' /\ (now \in Times)' /\ RedisTypes' /\ RequestTypes'
        BY <1>1, TypeParts DEF vars, TokenTypes, RedisTypes, RequestTypes, tokenVars, redisVars, requestVars
    <2>. QED  BY <2>1 DEF TypeInv, TypeOK, TokenTypes, RedisTypes, RequestTypes
<1>. QED  BY <1>1, TickTypes, TokenStepTypes, RequestStepTypes DEF Next

LEMMA TypeInit == Init => TypeInv
<1>. SUFFICES ASSUME Init PROVE TypeInv
    OBVIOUS
<1>0. /\ MaxTime \in Nat /\ MaxChanges \in Nat /\ MaxFaults \in Nat
      /\ 0 \in Times /\ 0 \in Secrets /\ 0 \in 0..MaxFaults /\ 0 \in 0..MaxChanges /\ NoTime \in Nat
    BY QuotaAssumption DEF Times, Secrets, NoTime
<1>1. row \in Rows /\ row.secret = 0
    <2>1. PICK l \in Limits : row = CreateToken(l)
        BY DEF Init
    <2>2. /\ l.minute \in Nat /\ l.daily \in Nat /\ l.total \in Nat
          /\ Defaults.minute \in Nat /\ Defaults.daily \in Nat /\ Defaults.total \in Nat
        BY QuotaAssumption DEF Quotas
    <2>. QED  BY <1>0, <2>1, <2>2 DEF CreateToken, Rows
<1>2. row.total \in Nat
    BY <1>1, RowTypes
<1>3. TokenTypes
    BY <1>0, <1>1, <1>2 DEF Init, TokenTypes
<1>4. RedisTypes
    <2>1. /\ \A t \in Times : minutes[t] = 0 /\ expires[t] = NoTime
          /\ NoTime \notin (now + 1)..(now + MinuteTTL)
        BY <1>0 DEF Init, NoTime, MinuteTTL
    <2>2. /\ minutes \in [Times -> Nat] /\ days \in [Days -> Nat] /\ windows \in [Times -> Nat]
          /\ expires \in [Times -> Times \cup {MaxTime + 1, MaxTime + 2, NoTime}]
        BY DEF Init
    <2>. QED  BY <2>1, <2>2 DEF RedisTypes
<1>5. RequestTypes
    BY <1>0, <1>1 DEF Init, RequestTypes, Waiting
<1>6. now \in Times
    BY <1>0 DEF Init
<1>. QED  BY <1>3, <1>4, <1>5, <1>6 DEF TypeInv, TypeOK, TokenTypes, RedisTypes, RequestTypes

\* Types; a counter of Redis always has a TTL that ends within two minutes
\* (api/middleware/redis_counter.go:25-28), whatever requests fail.
THEOREM TypeCorrect == Spec => []TypeOK
<1>1. TypeInv => TypeOK
    BY DEF TypeInv
<1>. QED  BY <1>1, TypeInit, TypeStep, PTL DEF Spec


------------------------------------------------------------------------------
(* What a request has used up *)

\* A step of one request leaves the others alone.
LEMMA OthersAlone ==
    ASSUME TypeInv, NEW r \in Requests, RequestStep(r), NEW q \in Requests \ {r}
    PROVE  /\ pc'[q] = pc[q] /\ spent'[q] = spent[q] /\ token'[q] = token[q]
           /\ clock'[q] = clock[q] /\ counted'[q] = counted[q]
<1>1. CASE APIAuth(r) \/ DonationAuth(r)
    <2>1. UNCHANGED <<clock, counted, spent>> /\ token'[q] = token[q]
        BY <1>1, LookupIs
    <2>2. pc'[q] = pc[q]
        BY <1>1, LookupIs, GotoIs
    <2>. QED  BY <2>1, <2>2
<1>2. CASE ReadClock(r) \/ fixedWindowKey(r)
    BY <1>2 DEF ReadClock, fixedWindowKey, Goto, TypeInv, TypeOK
<1>3. CASE incrementQuotaCounters(r) \/ RedisFails(r)
    <2>1. UNCHANGED <<token, clock>> /\ (RunQuotaScript(r) \/ UNCHANGED <<redisVars, counted, spent>>)
        BY <1>3 DEF incrementQuotaCounters, RedisFails
    <2>2. counted'[q] = counted[q] /\ spent'[q] = spent[q]
        BY <2>1 DEF RunQuotaScript, TypeInv, TypeOK
    <2>3. \E state : Goto(r, state)
        BY <1>3 DEF incrementQuotaCounters, RedisFails
    <2>. QED  BY <2>1, <2>2, <2>3, GotoIs
<1>4. CASE IncrementTokenUsageIfAllowed(r) \/ ChargeFails(r) \/ DeferUsage(r)
    <2>1. UNCHANGED <<token, clock, counted>> /\ (SpendTotal(r) \/ UNCHANGED spent)
        BY <1>4 DEF IncrementTokenUsageIfAllowed, ChargeFails, DeferUsage
    <2>2. spent'[q] = spent[q]
        BY <2>1 DEF SpendTotal, Spend, TypeInv, TypeOK
    <2>3. \E state : Goto(r, state)
        BY <1>4 DEF IncrementTokenUsageIfAllowed, ChargeFails, DeferUsage
    <2>. QED  BY <2>1, <2>2, <2>3, GotoIs
<1>5. CASE RateLimit(r) \/ LimiterFails(r)
    <2>1. UNCHANGED <<token, clock>> /\ (incrementWithTTL(r) \/ UNCHANGED <<redisVars, counted, spent>>)
        BY <1>5 DEF RateLimit, LimiterFails
    <2>2. counted'[q] = counted[q] /\ spent'[q] = spent[q]
        BY <2>1 DEF incrementWithTTL, Spend, TypeInv, TypeOK
    <2>3. \E state : Goto(r, state)
        BY <1>5 DEF RateLimit, LimiterFails
    <2>. QED  BY <2>1, <2>2, <2>3, GotoIs
<1>. QED  BY <1>1, <1>2, <1>3, <1>4, <1>5 DEF RequestStep

\* A step that is no request's leaves all of them alone, and the counters but for those
\* of the minutes.
LEMMA OthersStutter ==
    ASSUME [Next]_vars
    PROVE  \/ UNCHANGED <<used, requestVars, days, windows, pc, spent, token, clock, counted>>
           \/ \E r \in Requests : RequestStep(r)
<1>1. UNCHANGED vars \/ AdminStep \/ RecalculateDonation \/ ForgetOldRows \/ Tick
         => UNCHANGED <<used, requestVars, days, windows>>
    BY DEF vars, AdminStep, RecalculateDonation, ForgetOldRows, Tick, UpdateToken, RotateToken,
           DisableToken, EnableToken, DeleteToken, Change, redisVars
<1>. QED  BY <1>1 DEF Next, requestVars

\* A request uses up its quotas one after the other, the total last.
SpentInOrder(r) ==
    /\ pc[r] \in Early => spent[r] = {}
    /\ pc[r] = "minute" => spent[r] \subseteq {"minute"}
    /\ pc[r] \in {"passed", "day", "total"} => spent[r] \subseteq {"minute", "day"}

SpentInv ==
    /\ TypeInv
    /\ \A r \in Requests : SpentInOrder(r)

LEMMA ScriptSpends ==
    ASSUME TypeInv, NEW r \in Requests, RunQuotaScript(r)
    PROVE  /\ spent'[r] \subseteq {"minute", "day"}
           /\ ~MinutePasses(r) => spent'[r] \subseteq {"minute"}
BY DEF RunQuotaScript, DayIsCounted, TypeInv, TypeOK

LEMMA RequestSpends ==
    ASSUME SpentInv, NEW r \in Requests, RequestStep(r)
    PROVE  SpentInOrder(r)'
<1>0. TypeInv /\ SpentInOrder(r)
    BY DEF SpentInv
<1>1. CASE APIAuth(r) \/ DonationAuth(r)
    <2>1. pc[r] = "idle" /\ spent' = spent /\ pc'[r] \in Early
        BY <1>0, <1>1, LookupIs, GotoIs DEF Early
    <2>. QED  BY <1>0, <2>1 DEF SpentInOrder, Early
<1>2. CASE ReadClock(r) \/ fixedWindowKey(r)
    <2>1. pc[r] \in Early /\ pc'[r] \in Early /\ spent' = spent
        BY <1>0, <1>2, GotoIs DEF Early, ReadClock, fixedWindowKey
    <2>. QED  BY <1>0, <2>1 DEF SpentInOrder, Early
<1>3. CASE incrementQuotaCounters(r)
    <2>1. /\ spent'[r] \subseteq {"minute", "day"}
          /\ ~MinutePasses(r) => spent'[r] \subseteq {"minute"}
        BY <1>0, <1>3, ScriptSpends DEF incrementQuotaCounters
    <2>2. /\ pc'[r] \in {"minute", "day", "passed"}
          /\ pc'[r] = "minute" => ~MinutePasses(r)
        <3>1. CASE ~MinutePasses(r)
            BY <1>0, <1>3, <3>1, GotoIs DEF incrementQuotaCounters
        <3>2. CASE MinutePasses(r)
            <4>1. Goto(r, "day") \/ Goto(r, "passed")
                BY <1>3, <3>2 DEF incrementQuotaCounters
            <4>. QED  BY <1>0, <4>1, GotoIs
        <3>. QED  BY <3>1, <3>2
    <2>. QED  BY <2>1, <2>2 DEF SpentInOrder, Early
<1>4. CASE RedisFails(r) \/ ChargeFails(r) \/ LimiterFails(r)
    <2>1. pc'[r] = "failed"
        BY <1>0, <1>4, GotoIs DEF RedisFails, ChargeFails, LimiterFails
    <2>. QED  BY <2>1 DEF SpentInOrder, Early
<1>5. CASE IncrementTokenUsageIfAllowed(r) \/ DeferUsage(r)
    <2>1. pc[r] = "passed" /\ (pc'[r] = "served" \/ (pc'[r] = "total" /\ spent' = spent))
        BY <1>0, <1>5, GotoIs DEF IncrementTokenUsageIfAllowed, DeferUsage
    <2>. QED  BY <1>0, <2>1 DEF SpentInOrder, Early
<1>6. CASE RateLimit(r)
    <2>1. pc'[r] \in {"window", "public"}
        BY <1>0, <1>6, GotoIs DEF RateLimit
    <2>. QED  BY <2>1 DEF SpentInOrder, Early
<1>. QED  BY <1>1, <1>2, <1>3, <1>4, <1>5, <1>6 DEF RequestStep

LEMMA SpentStep == SpentInv /\ [Next]_vars => SpentInv'
<1>. SUFFICES ASSUME SpentInv, [Next]_vars PROVE \A q \in Requests : SpentInOrder(q)'
    BY TypeStep DEF SpentInv
<1>0. TypeInv /\ \A q \in Requests : SpentInOrder(q)
    BY DEF SpentInv
<1>1. CASE UNCHANGED <<pc, spent>>
    BY <1>0, <1>1 DEF SpentInOrder
<1>2. ASSUME NEW r \in Requests, RequestStep(r) PROVE \A q \in Requests : SpentInOrder(q)'
    <2>1. ASSUME NEW q \in Requests \ {r} PROVE SpentInOrder(q)'
        <3>1. pc'[q] = pc[q] /\ spent'[q] = spent[q]
            BY <1>0, <1>2, OthersAlone
        <3>. QED  BY <1>0, <3>1 DEF SpentInOrder
    <2>. QED  BY <1>2, <2>1, RequestSpends
<1>. QED  BY <1>1, <1>2, OthersStutter

\* A refused request has used up only what was tested before the quota that refused it,
\* and one that is not let in, or adds a domain, nothing (auth.go:112-205): whatever the
\* limits are, whatever fails, and however the token changes meanwhile.
THEOREM RefusalsSpendLess == Spec => []RefusedSpendsLess
<1>1. Init => SpentInv
    BY TypeInit DEF SpentInv, SpentInOrder, Init, Early
<1>2. SpentInv => RefusedSpendsLess
    BY DEF SpentInv, SpentInOrder, RefusedSpendsLess, Early
<1>. QED  BY <1>1, <1>2, SpentStep, PTL DEF Spec

\* Who is served has been charged with the row as it is by now, unless its lookup answered
\* that there is no total.
LEMMA ServedIsCharged ==
    ASSUME TypeInv, NEW r \in Requests, RequestStep(r), pc'[r] = "served", token[r].total > 0
    PROVE  Works(row)
<1>1. CASE APIAuth(r) \/ DonationAuth(r)
    BY <1>1, LookupIs, GotoIs
<1>2. CASE ReadClock(r) \/ fixedWindowKey(r)
    BY <1>2, GotoIs DEF ReadClock, fixedWindowKey
<1>3. CASE incrementQuotaCounters(r)
    <2>1. Goto(r, "minute") \/ Goto(r, "day") \/ Goto(r, "passed")
        BY <1>3 DEF incrementQuotaCounters
    <2>. QED  BY <2>1, GotoIs
<1>4. CASE RedisFails(r) \/ ChargeFails(r) \/ LimiterFails(r) \/ RateLimit(r)
    <2>1. Goto(r, "failed") \/ Goto(r, "window") \/ Goto(r, "public")
        BY <1>4 DEF RedisFails, ChargeFails, LimiterFails, RateLimit
    <2>. QED  BY <2>1, GotoIs
<1>5. CASE IncrementTokenUsageIfAllowed(r)
    <2>1. Allows(r)
        BY <1>5, GotoIs DEF IncrementTokenUsageIfAllowed
    <2>. QED  BY <2>1 DEF Allows
<1>6. CASE DeferUsage(r)
    <2>1. token[r].total = 0
        BY <1>6 DEF DeferUsage
    <2>. QED  BY <2>1
<1>. QED  BY <1>1, <1>2, <1>3, <1>4, <1>5, <1>6 DEF RequestStep

\* A token that was disabled, deleted or has expired serves nobody whose lookup answered
\* with a total limit, however old that answer is (tokens.go:452-455).
THEOREM RevokedNeverServes == Spec => RevokedServesNone
<1>1. TypeInv /\ [Next]_vars
        => [\A r \in Requests :
              pc'[r] = "served" /\ pc[r] # "served" /\ token[r].total > 0 => Works(row)]_vars
    <2>. SUFFICES ASSUME TypeInv, [Next]_vars, NEW r \in Requests,
                         pc'[r] = "served", pc[r] # "served", token[r].total > 0
                  PROVE  Works(row)
        OBVIOUS
    <2>1. PICK q \in Requests : RequestStep(q)
        BY OthersStutter
    <2>2. q = r
        BY <2>1, OthersAlone
    <2>. QED  BY <2>1, <2>2, ServedIsCharged
<1>. QED  BY <1>1, TypeInit, TypeStep, PTL DEF Spec, RevokedServesNone

------------------------------------------------------------------------------
(* The total *)

\* A set with at most one more element has at most one element more.
LEMMA OneMore ==
    ASSUME NEW S, IsFiniteSet(S), NEW x, NEW T, T \subseteq S \cup {x}
    PROVE  /\ IsFiniteSet(T) /\ Cardinality(T) \in Nat /\ Cardinality(S) \in Nat
           /\ Cardinality(T) <= Cardinality(S) + 1
<1>. DEFINE all == S \cup {x}
<1>1. IsFiniteSet(all) /\ Cardinality(all) = IF x \in S THEN Cardinality(S) ELSE Cardinality(S) + 1
    BY FS_AddElement
<1>2. T \in SUBSET all
    OBVIOUS
<1>. HIDE DEF all
<1>3. IsFiniteSet(T) /\ Cardinality(T) <= Cardinality(all)
    BY <1>1, <1>2, FS_Subset
<1>4. Cardinality(S) \in Nat /\ Cardinality(all) \in Nat /\ Cardinality(T) \in Nat
    BY <1>1, <1>3, FS_CardinalityType
<1>. QED  BY <1>1, <1>3, <1>4

Spenders == {r \in Requests : "total" \in spent[r]}

\* Not more requests have used up the total than were counted, nor than the highest total
\* there has been: the row's total, against which each of them was counted, may have sunk
\* below that number since.
TotalInv ==
    /\ SpentInv
    /\ Cardinality(Spenders) <= used
    /\ Cardinality(Spenders) <= peak
    /\ row.total <= peak

LEMMA SpendersAre == IsFiniteSet(Spenders) /\ Cardinality(Spenders) \in Nat
BY QuotaAssumption, FS_Subset, FS_CardinalityType DEF Spenders

\* One more may spend only what is left of the total as the row has it.
LEMMA TotalCharged ==
    ASSUME TotalInv, NEW r \in Requests, IncrementTokenUsageIfAllowed(r) \/ ChargeFails(r),
           UNCHANGED <<row, peak>>
    PROVE  Cardinality(Spenders') <= used' /\ Cardinality(Spenders') <= peak'
<1>0. /\ TypeInv /\ used \in Nat /\ peak \in Nat /\ row.total \in Nat
      /\ Cardinality(Spenders) \in Nat /\ IsFiniteSet(Spenders)
      /\ Cardinality(Spenders) <= used /\ Cardinality(Spenders) <= peak /\ row.total <= peak
    BY SpendersAre, RowTypes DEF TotalInv, SpentInv, TypeInv, TypeOK
<1>1. CASE UNCHANGED <<used, spent>>
    BY <1>0, <1>1 DEF Spenders
<1>2. CASE Allows(r) /\ used' = used + 1 /\ SpendTotal(r)
    <2>1. CASE row.total > 0
        <3>1. spent' = [spent EXCEPT ![r] = @ \cup {"total"}]
            BY <1>2, <2>1 DEF SpendTotal, Spend
        <3>2. Spenders' \subseteq Spenders \cup {r}
            BY <1>0, <3>1 DEF Spenders, TypeInv, TypeOK
        <3>3. Cardinality(Spenders') <= Cardinality(Spenders) + 1 /\ Cardinality(Spenders') \in Nat
            BY <1>0, <3>2, OneMore
        <3>5. used < row.total
            BY <1>2, <2>1 DEF Allows
        <3>. QED  BY <1>0, <1>2, <3>3, <3>5
    <2>2. CASE ~(row.total > 0)
        <3>1. spent' = [spent EXCEPT ![r] = @ \cup {"free"}]
            BY <1>2, <2>2 DEF SpendTotal, Spend
        <3>2. Spenders' = Spenders
            BY <1>0, <3>1 DEF Spenders, TypeInv, TypeOK
        <3>. QED  BY <1>0, <1>2, <3>2
    <2>. QED  BY <2>1, <2>2
<1>. QED  BY <1>1, <1>2 DEF IncrementTokenUsageIfAllowed, ChargeFails

\* The other steps of a request neither count nor use up a total.
LEMMA TotalLeft ==
    ASSUME TotalInv, NEW r \in Requests, RequestStep(r),
           ~(IncrementTokenUsageIfAllowed(r) \/ ChargeFails(r))
    PROVE  Spenders' \subseteq Spenders /\ used' = used
<1>0. TypeInv
    BY DEF TotalInv, SpentInv
<1>1. CASE APIAuth(r) \/ DonationAuth(r)
    BY <1>0, <1>1, LookupIs DEF Spenders
<1>2. CASE ReadClock(r) \/ fixedWindowKey(r) \/ DeferUsage(r)
    BY <1>2 DEF ReadClock, fixedWindowKey, DeferUsage, Spenders
<1>3. CASE incrementQuotaCounters(r) \/ RedisFails(r)
    <2>1. used' = used /\ (RunQuotaScript(r) \/ UNCHANGED spent)
        BY <1>3 DEF incrementQuotaCounters, RedisFails
    <2>2. CASE RunQuotaScript(r)
        <3>1. spent'[r] \subseteq {"minute", "day"}
            BY <1>0, <2>2, ScriptSpends
        <3>2. \A q \in Requests \ {r} : spent'[q] = spent[q]
            BY <1>0, OthersAlone
        <3>. QED  BY <2>1, <3>1, <3>2 DEF Spenders
    <2>. QED  BY <2>1, <2>2 DEF Spenders
<1>4. CASE RateLimit(r) \/ LimiterFails(r)
    <2>1. used' = used /\ (Spend(r, "window") \/ UNCHANGED spent)
        BY <1>4 DEF RateLimit, LimiterFails, incrementWithTTL
    <2>. QED  BY <1>0, <2>1 DEF Spenders, Spend, TypeInv, TypeOK
<1>. QED  BY <1>1, <1>2, <1>3, <1>4 DEF RequestStep

LEMMA TotalStep == TotalInv /\ [Next]_vars => TotalInv'
<1>. SUFFICES ASSUME TotalInv, [Next]_vars
              PROVE  /\ Cardinality(Spenders') <= used' /\ Cardinality(Spenders') <= peak'
                     /\ row'.total <= peak'
    BY SpentStep DEF TotalInv
<1>0. /\ TypeInv /\ TypeInv' /\ used \in Nat /\ peak \in Nat /\ row.total \in Nat /\ peak' \in Nat /\ row'.total \in Nat
      /\ Cardinality(Spenders) \in Nat /\ IsFiniteSet(Spenders)
      /\ Cardinality(Spenders) <= used /\ Cardinality(Spenders) <= peak /\ row.total <= peak
    BY SpendersAre, RowTypes, TypeStep DEF TotalInv, SpentInv, TypeInv, TypeOK
<1>1. CASE AdminStep \/ RecalculateDonation
    <2>1. PICK next : Change(next)
        BY <1>1 DEF AdminStep, RecalculateDonation, UpdateToken, RotateToken, DisableToken, EnableToken,
                    DeleteToken
    <2>2. /\ row' = next /\ peak' = IF next.total > peak THEN next.total ELSE peak
          /\ UNCHANGED <<used, spent>>
        BY <2>1 DEF Change, requestVars
    <2>3. row'.total <= peak' /\ peak <= peak' /\ Spenders' = Spenders
        BY <1>0, <2>2 DEF Spenders
    <2>. QED  BY <1>0, <2>2, <2>3
<1>2. CASE ForgetOldRows \/ Tick \/ UNCHANGED vars
    BY <1>0, <1>2 DEF ForgetOldRows, Tick, vars, tokenVars, requestVars, Spenders
<1>3. ASSUME NEW r \in Requests, RequestStep(r)
      PROVE  /\ Cardinality(Spenders') <= used' /\ Cardinality(Spenders') <= peak'
             /\ row'.total <= peak'
    <2>1. UNCHANGED <<row, peak>>
        BY <1>3 DEF RequestStep, APIAuth, DonationAuth, ReadClock, incrementQuotaCounters, RedisFails,
               IncrementTokenUsageIfAllowed, ChargeFails, DeferUsage, fixedWindowKey, RateLimit, LimiterFails,
               tokenVars
    <2>2. CASE IncrementTokenUsageIfAllowed(r) \/ ChargeFails(r)
        BY <1>0, <2>1, <2>2, TotalCharged
    <2>3. CASE ~(IncrementTokenUsageIfAllowed(r) \/ ChargeFails(r))
        <3>1. Spenders' \subseteq Spenders /\ used' = used
            BY <1>3, <2>3, TotalLeft
        <3>2. Cardinality(Spenders') <= Cardinality(Spenders) /\ Cardinality(Spenders') \in Nat
            BY <1>0, <3>1, FS_Subset, FS_CardinalityType
        <3>. QED  BY <1>0, <2>1, <3>1, <3>2
    <2>. QED  BY <2>2, <2>3
<1>. QED  BY <1>1, <1>2, <1>3 DEF Next

------------------------------------------------------------------------------
(* The minute and the day *)

\* In every part of R that is not empty some request's limit allows as many: so it is
\* however R shrinks, as it does when requests fail.
AllBounded(R, limit) ==
    \A Q \in SUBSET R : Q = {} \/ \E r \in Q : Cardinality(Q) <= limit[r]

LEMMA BoundedShrinks ==
    ASSUME NEW R, NEW S \in SUBSET R, NEW f, NEW g, AllBounded(R, f), \A q \in S : g[q] = f[q]
    PROVE  AllBounded(S, g)
BY DEF AllBounded

LEMMA BoundedGrows ==
    ASSUME NEW R, IsFiniteSet(R), NEW f, AllBounded(R, f), NEW r, f[r] \in Nat,
           Cardinality(R) + 1 <= f[r]
    PROVE  AllBounded(R \cup {r}, f)
<1>1. SUFFICES ASSUME NEW Q \in SUBSET (R \cup {r})
               PROVE  Q = {} \/ \E q \in Q : Cardinality(Q) <= f[q]
    BY DEF AllBounded
<1>2. CASE r \in Q
    <2>1. Cardinality(Q) \in Nat /\ Cardinality(R) \in Nat /\ Cardinality(Q) <= Cardinality(R) + 1
        BY OneMore
    <2>2. Cardinality(Q) <= f[r]
        BY <2>1
    <2>. QED  BY <1>2, <2>2
<1>3. CASE r \notin Q
    <2>1. Q \in SUBSET R
        BY <1>3
    <2>. QED  BY <2>1 DEF AllBounded
<1>. QED  BY <1>2, <1>3

MinutePassing == {"passed", "served", "day", "total"}
DayPassing == {"passed", "served", "total"}

OfMinute(t) == {r \in Requests : pc[r] \in MinutePassing /\ clock[r] = t /\ token[r].minute > 0}
OfDay(d) == {r \in Requests : pc[r] \in DayPassing /\ token[r].daily > 0 /\ Day(clock[r]) = d}

MinuteLimits == [r \in Requests |-> token[r].minute]
DayLimits == [r \in Requests |-> token[r].daily]

\* The key of a minute lasts as long as requests may still be counted in it.
MinuteInv(t) ==
    /\ minutes[t] > 0 => t + 2 <= expires[t]
    /\ now <= t + 1 => Cardinality(OfMinute(t)) <= minutes[t]
    /\ AllBounded(OfMinute(t), MinuteLimits)

DayInv(d) ==
    /\ Cardinality(OfDay(d)) <= days[d]
    /\ AllBounded(OfDay(d), DayLimits)

PassInv ==
    /\ TypeInv
    /\ \A t \in Times : MinuteInv(t)
    /\ \A d \in Days : DayInv(d)

LEMMA PassingAreFinite ==
    /\ \A t : IsFiniteSet(OfMinute(t)) /\ Cardinality(OfMinute(t)) \in Nat
    /\ \A d : IsFiniteSet(OfDay(d)) /\ Cardinality(OfDay(d)) \in Nat
<1>1. \A R \in SUBSET Requests : IsFiniteSet(R) /\ Cardinality(R) \in Nat
    BY QuotaAssumption, FS_Subset, FS_CardinalityType
<1>. QED  BY <1>1 DEF OfMinute, OfDay

\* Only the script lets a request pass, and only with room in the counter.
LEMMA Passing ==
    ASSUME TypeInv, NEW r \in Requests, RequestStep(r), NEW q \in Requests, pc'[q] \in MinutePassing
    PROVE  /\ token'[q] = token[q] /\ clock'[q] = clock[q]
           /\ \/ pc[q] \in MinutePassing /\ (pc'[q] \in DayPassing => pc[q] \in DayPassing)
              \/ /\ q = r /\ incrementQuotaCounters(r) /\ MinutePasses(r)
                 /\ pc'[q] \in DayPassing => DayPasses(r)
<1>1. CASE q # r
    BY <1>1, OthersAlone
<1>. SUFFICES ASSUME q = r
              PROVE  /\ token'[r] = token[r] /\ clock'[r] = clock[r]
                     /\ \/ pc[r] \in MinutePassing /\ (pc'[r] \in DayPassing => pc[r] \in DayPassing)
                        \/ /\ incrementQuotaCounters(r) /\ MinutePasses(r)
                           /\ pc'[r] \in DayPassing => DayPasses(r)
    BY <1>1
<1>2. CASE APIAuth(r) \/ DonationAuth(r)
    BY <1>2, LookupIs, GotoIs DEF MinutePassing
<1>3. CASE ReadClock(r) \/ fixedWindowKey(r)
    BY <1>3, GotoIs DEF ReadClock, fixedWindowKey, MinutePassing
<1>4. CASE incrementQuotaCounters(r)
    <2>1. UNCHANGED <<token, clock>>
        BY <1>4 DEF incrementQuotaCounters
    <2>2. MinutePasses(r)
        <3>. SUFFICES ASSUME ~MinutePasses(r) PROVE pc'[r] \notin MinutePassing
            OBVIOUS
        <3>1. Goto(r, "minute")
            BY <1>4 DEF incrementQuotaCounters
        <3>. QED  BY <3>1, GotoIs DEF MinutePassing
    <2>3. DayPasses(r) \/ Goto(r, "day")
        BY <1>4, <2>2 DEF incrementQuotaCounters
    <2>4. Goto(r, "day") => pc'[r] \notin DayPassing
        BY GotoIs DEF DayPassing
    <2>. QED  BY <1>4, <2>1, <2>2, <2>3, <2>4
<1>5. CASE RedisFails(r) \/ ChargeFails(r) \/ LimiterFails(r) \/ RateLimit(r)
    <2>1. Goto(r, "failed") \/ Goto(r, "window") \/ Goto(r, "public")
        BY <1>5 DEF RedisFails, ChargeFails, LimiterFails, RateLimit
    <2>. QED  BY <2>1, GotoIs DEF MinutePassing
<1>6. CASE IncrementTokenUsageIfAllowed(r) \/ DeferUsage(r)
    BY <1>6 DEF IncrementTokenUsageIfAllowed, DeferUsage, MinutePassing, DayPassing
<1>. QED  BY <1>2, <1>3, <1>4, <1>5, <1>6 DEF RequestStep

\* A request does not take a count back, and the key it makes lasts.
LEMMA CountsGrow ==
    ASSUME PassInv, NEW r \in Requests, RequestStep(r)
    PROVE  /\ \A t \in Times : /\ minutes[t] \in Nat /\ minutes'[t] \in Nat /\ minutes'[t] >= minutes[t]
                               /\ minutes'[t] > 0 => t + 2 <= expires'[t]
           /\ \A d \in Days : days[d] \in Nat /\ days'[d] \in Nat /\ days'[d] >= days[d]
<1>0. /\ TypeInv /\ TypeInv' /\ \A t \in Times : minutes[t] > 0 => t + 2 <= expires[t]
      /\ \A t \in Times : minutes[t] \in Nat /\ minutes'[t] \in Nat /\ expires[t] \in Nat
      /\ \A d \in Days : days[d] \in Nat /\ days'[d] \in Nat
    <2>1. TypeInv /\ TypeInv'
        BY TypeStep DEF PassInv, Next
    <2>2. \A t \in Times : expires[t] \in Nat
        <3>1. Times \cup {MaxTime + 1, MaxTime + 2, NoTime} \subseteq Nat
            BY QuotaAssumption DEF Times, NoTime
        <3>. QED  BY <2>1, <3>1 DEF TypeInv, TypeOK
    <2>. QED  BY <2>1, <2>2 DEF PassInv, MinuteInv, TypeInv, TypeOK
<1>1. CASE UNCHANGED <<minutes, expires, days>>
    BY <1>0, <1>1
<1>2. CASE pc[r] = "timed" /\ RunQuotaScript(r)
    <2>. DEFINE t == clock[r]
    <2>1. t \in Times /\ t \in Nat /\ now \in Nat /\ t <= now /\ Day(t) \in Days
        <3>1. t \in Times /\ t <= now
            BY <1>0, <1>2 DEF TypeInv
        <3>2. Day(t) \in Days
            BY <3>1, DayType
        <3>3. now \in Times
            BY <1>0 DEF TypeInv, TypeOK
        <3>. QED  BY <3>1, <3>2, <3>3, QuotaAssumption DEF Times
    <2>2. /\ days' \in {days, [days EXCEPT ![Day(t)] = @ + 1]}
          /\ \/ UNCHANGED <<minutes, expires>>
             \/ /\ minutes' = [minutes EXCEPT ![t] = @ + 1]
                /\ expires' = IF minutes[t] = 0 THEN [expires EXCEPT ![t] = now + MinuteTTL] ELSE expires
        BY <1>2 DEF RunQuotaScript, IsNew
    <2>3. /\ minutes \in [Times -> Nat] /\ days \in [Days -> Nat]
          /\ expires \in [Times -> Times \cup {MaxTime + 1, MaxTime + 2, NoTime}]
        BY <1>0 DEF TypeInv, TypeOK
    <2>. HIDE DEF t
    <2>4. \A d \in Days : days'[d] >= days[d]
        BY <1>0, <2>1, <2>2, <2>3
    <2>5. ASSUME NEW u \in Times
          PROVE  minutes'[u] >= minutes[u] /\ (minutes'[u] > 0 => u + 2 <= expires'[u])
        <3>1. CASE u # t \/ UNCHANGED <<minutes, expires>>
            <4>1. minutes'[u] = minutes[u] /\ expires'[u] = expires[u]
                BY <2>1, <2>2, <2>3, <3>1
            <4>. QED  BY <1>0, <4>1
        <3>2. CASE u = t /\ ~UNCHANGED <<minutes, expires>>
            <4>1. /\ minutes'[u] = minutes[u] + 1
                  /\ expires'[u] = IF minutes[u] = 0 THEN now + MinuteTTL ELSE expires[u]
                BY <2>1, <2>2, <2>3, <3>2
            <4>. QED  BY <1>0, <2>1, <3>2, <4>1 DEF MinuteTTL
        <3>. QED  BY <3>1, <3>2
    <2>. QED  BY <1>0, <2>4, <2>5
<1>. QED  BY <1>1, <1>2, <1>0, LookupIs
          DEF RequestStep, ReadClock, incrementQuotaCounters, RedisFails,
              IncrementTokenUsageIfAllowed, ChargeFails, DeferUsage, fixedWindowKey, RateLimit, LimiterFails,
              incrementWithTTL, redisVars

LEMMA RequestMinute ==
    ASSUME PassInv, NEW r \in Requests, RequestStep(r), NEW t \in Times
    PROVE  MinuteInv(t)'
<1>0. /\ TypeInv /\ MinuteInv(t) /\ now' = now /\ now \in Nat /\ t \in Nat
      /\ IsFiniteSet(OfMinute(t)) /\ Cardinality(OfMinute(t)) \in Nat
      /\ minutes[t] \in Nat /\ minutes'[t] \in Nat /\ minutes'[t] >= minutes[t]
      /\ minutes'[t] > 0 => t + 2 <= expires'[t]
    <2>1. now' = now
        BY DEF RequestStep, APIAuth, DonationAuth, ReadClock, incrementQuotaCounters, RedisFails,
               IncrementTokenUsageIfAllowed, ChargeFails, DeferUsage, fixedWindowKey, RateLimit, LimiterFails
    <2>2. now \in Times /\ Times \subseteq Nat
        BY QuotaAssumption DEF PassInv, TypeInv, TypeOK, Times
    <2>. QED  BY <2>1, <2>2, CountsGrow, PassingAreFinite DEF PassInv
<1>1. ASSUME NEW q \in OfMinute(t)'
      PROVE  /\ MinuteLimits'[q] = MinuteLimits[q] /\ q \in Requests
             /\ \/ q \in OfMinute(t)
                \/ q = r /\ incrementQuotaCounters(r) /\ MinutePasses(r) /\ clock[r] = t /\ token[r].minute > 0
    <2>1. q \in Requests /\ pc'[q] \in MinutePassing /\ clock'[q] = t /\ token'[q].minute > 0
        BY DEF OfMinute
    <2>2. /\ token'[q] = token[q] /\ clock'[q] = clock[q]
          /\ \/ pc[q] \in MinutePassing
             \/ q = r /\ incrementQuotaCounters(r) /\ MinutePasses(r)
        BY <1>0, <2>1, Passing
    <2>. QED  BY <2>1, <2>2 DEF OfMinute, MinuteLimits
<1>2. CASE OfMinute(t)' \subseteq OfMinute(t)
    <2>1. OfMinute(t)' \in SUBSET OfMinute(t)
        BY <1>2
    <2>2. Cardinality(OfMinute(t)') <= Cardinality(OfMinute(t)) /\ Cardinality(OfMinute(t)') \in Nat
        BY <1>0, <2>1, FS_Subset, FS_CardinalityType
    <2>3. AllBounded(OfMinute(t)', MinuteLimits')
        BY <1>0, <1>1, <2>1, BoundedShrinks DEF MinuteInv
    <2>. QED  BY <1>0, <2>2, <2>3 DEF MinuteInv, AllBounded
<1>3. CASE ~(OfMinute(t)' \subseteq OfMinute(t))
    <2>1. incrementQuotaCounters(r) /\ MinutePasses(r) /\ clock[r] = t /\ token[r].minute > 0
        BY <1>1, <1>3
    <2>2. OfMinute(t)' \in SUBSET (OfMinute(t) \cup {r})
        BY <1>1
    <2>3. minutes'[t] = minutes[t] + 1
        BY <2>1 DEF incrementQuotaCounters, RunQuotaScript, PassInv, TypeInv, TypeOK
    <2>4. now <= t + 1
        BY <1>0, <2>1 DEF incrementQuotaCounters, TypeInv
    <2>5. token[r].minute \in Nat /\ minutes[t] + 1 <= token[r].minute
        BY <1>0, <2>1, RowTypes DEF MinutePasses, TypeInv, TypeOK
    <2>6. Cardinality(OfMinute(t)) <= minutes[t]
        BY <1>0, <2>4 DEF MinuteInv
    <2>7. Cardinality(OfMinute(t)') <= Cardinality(OfMinute(t)) + 1 /\ Cardinality(OfMinute(t)') \in Nat
        BY <1>0, <2>2, OneMore
    <2>8. MinuteLimits[r] = token[r].minute
        BY DEF MinuteLimits
    <2>9. AllBounded(OfMinute(t) \cup {r}, MinuteLimits)
        <3>1. MinuteLimits[r] \in Nat /\ Cardinality(OfMinute(t)) + 1 <= MinuteLimits[r]
            BY <1>0, <2>5, <2>6, <2>8
        <3>. QED  BY <1>0, <3>1, BoundedGrows DEF MinuteInv
    <2>10. AllBounded(OfMinute(t)', MinuteLimits')
        BY <1>1, <2>2, <2>9, BoundedShrinks
    <2>11. Cardinality(OfMinute(t)') <= minutes'[t]
        BY <1>0, <2>3, <2>6, <2>7
    <2>. QED  BY <1>0, <2>10, <2>11 DEF MinuteInv, AllBounded
<1>. QED  BY <1>2, <1>3

LEMMA RequestDay ==
    ASSUME PassInv, NEW r \in Requests, RequestStep(r), NEW d \in Days
    PROVE  DayInv(d)'
<1>0. /\ TypeInv /\ DayInv(d)
      /\ IsFiniteSet(OfDay(d)) /\ Cardinality(OfDay(d)) \in Nat
      /\ days[d] \in Nat /\ days'[d] \in Nat /\ days'[d] >= days[d]
    BY CountsGrow, PassingAreFinite DEF PassInv
<1>1. ASSUME NEW q \in OfDay(d)'
      PROVE  /\ DayLimits'[q] = DayLimits[q] /\ q \in Requests
             /\ \/ q \in OfDay(d)
                \/ /\ q = r /\ incrementQuotaCounters(r) /\ MinutePasses(r) /\ DayPasses(r)
                   /\ Day(clock[r]) = d /\ token[r].daily > 0
    <2>1. q \in Requests /\ pc'[q] \in DayPassing /\ Day(clock'[q]) = d /\ token'[q].daily > 0
        BY DEF OfDay
    <2>2. /\ token'[q] = token[q] /\ clock'[q] = clock[q]
          /\ \/ pc[q] \in DayPassing
             \/ q = r /\ incrementQuotaCounters(r) /\ MinutePasses(r) /\ DayPasses(r)
        BY <1>0, <2>1, Passing DEF MinutePassing, DayPassing
    <2>. QED  BY <2>1, <2>2 DEF OfDay, DayLimits
<1>2. CASE OfDay(d)' \subseteq OfDay(d)
    <2>1. OfDay(d)' \in SUBSET OfDay(d)
        BY <1>2
    <2>2. Cardinality(OfDay(d)') <= Cardinality(OfDay(d)) /\ Cardinality(OfDay(d)') \in Nat
        BY <1>0, <2>1, FS_Subset, FS_CardinalityType
    <2>3. AllBounded(OfDay(d)', DayLimits')
        BY <1>0, <1>1, <2>1, BoundedShrinks DEF DayInv
    <2>4. Cardinality(OfDay(d)') <= days'[d]
        BY <1>0, <2>2 DEF DayInv
    <2>. QED  BY <2>3, <2>4 DEF DayInv, AllBounded
<1>3. CASE ~(OfDay(d)' \subseteq OfDay(d))
    <2>1. /\ incrementQuotaCounters(r) /\ MinutePasses(r) /\ DayPasses(r)
          /\ Day(clock[r]) = d /\ token[r].daily > 0
        BY <1>1, <1>3
    <2>2. OfDay(d)' \in SUBSET (OfDay(d) \cup {r})
        BY <1>1
    <2>3. days'[d] = days[d] + 1
        <3>1. days' = [days EXCEPT ![Day(clock[r])] = @ + 1]
            BY <2>1 DEF incrementQuotaCounters, RunQuotaScript, DayIsCounted
        <3>. QED  BY <1>0, <2>1, <3>1 DEF TypeInv, TypeOK
    <2>5. token[r].daily \in Nat /\ days[d] + 1 <= token[r].daily
        BY <1>0, <2>1, RowTypes DEF DayPasses, TypeInv, TypeOK
    <2>6. Cardinality(OfDay(d)) <= days[d]
        BY <1>0 DEF DayInv
    <2>7. Cardinality(OfDay(d)') <= Cardinality(OfDay(d)) + 1 /\ Cardinality(OfDay(d)') \in Nat
        BY <1>0, <2>2, OneMore
    <2>8. DayLimits[r] = token[r].daily
        BY DEF DayLimits
    <2>9. AllBounded(OfDay(d) \cup {r}, DayLimits)
        <3>1. DayLimits[r] \in Nat /\ Cardinality(OfDay(d)) + 1 <= DayLimits[r]
            BY <1>0, <2>5, <2>6, <2>8
        <3>. QED  BY <1>0, <3>1, BoundedGrows DEF DayInv
    <2>10. AllBounded(OfDay(d)', DayLimits')
        BY <1>1, <2>2, <2>9, BoundedShrinks
    <2>11. Cardinality(OfDay(d)') <= days'[d]
        BY <1>0, <2>3, <2>6, <2>7
    <2>. QED  BY <2>10, <2>11 DEF DayInv, AllBounded
<1>. QED  BY <1>2, <1>3

\* The other steps leave the requests alone; only Tick takes counters away.
LEMMA PassStep == PassInv /\ [Next]_vars => PassInv'
<1>. SUFFICES ASSUME PassInv, [Next]_vars
              PROVE  (\A t \in Times : MinuteInv(t)') /\ (\A d \in Days : DayInv(d)')
    BY TypeStep DEF PassInv
<1>1. CASE \E r \in Requests : RequestStep(r)
    BY <1>1, RequestMinute, RequestDay
<1>2. CASE UNCHANGED <<days, pc, token, clock>>
    <2>1. ASSUME NEW d \in Days PROVE DayInv(d)'
        BY <1>2 DEF PassInv, DayInv, AllBounded, OfDay, DayLimits
    <2>2. ASSUME NEW t \in Times PROVE MinuteInv(t)'
        <3>1. OfMinute(t)' = OfMinute(t) /\ MinuteLimits' = MinuteLimits /\ MinuteInv(t)
            BY <1>2 DEF OfMinute, MinuteLimits, PassInv
        <3>2. CASE Tick
            <4>1. /\ now' = now + 1 /\ now \in Nat /\ t \in Nat /\ minutes[t] \in Nat /\ expires[t] \in Nat
                  /\ minutes'[t] = IF expires[t] <= now' THEN 0 ELSE minutes[t]
                  /\ expires'[t] = IF expires[t] <= now' THEN NoTime ELSE expires[t]
                <5>1. Times \cup {MaxTime + 1, MaxTime + 2, NoTime} \subseteq Nat
                    BY QuotaAssumption DEF Times, NoTime
                <5>. QED  BY <3>2, <5>1 DEF Tick, PassInv, TypeInv, TypeOK
            <4>2. now' <= t + 1 => Cardinality(OfMinute(t)) <= minutes'[t]
                <5>1. CASE minutes[t] > 0
                    BY <3>1, <4>1, <5>1 DEF MinuteInv
                <5>2. CASE ~(minutes[t] > 0)
                    <6>1. minutes[t] = 0 /\ minutes'[t] = 0
                        BY <4>1, <5>2
                    <6>. QED  BY <3>1, <4>1, <6>1 DEF MinuteInv
                <5>. QED  BY <5>1, <5>2
            <4>3. minutes'[t] > 0 => t + 2 <= expires'[t]
                BY <3>1, <4>1 DEF MinuteInv
            <4>. QED  BY <3>1, <4>2, <4>3 DEF MinuteInv, AllBounded
        <3>3. CASE ~Tick /\ ~(\E r \in Requests : RequestStep(r))
            <4>1. UNCHANGED <<minutes, expires, now>>
                BY <3>3 DEF Next, vars, AdminStep, RecalculateDonation, ForgetOldRows, UpdateToken, RotateToken,
                        DisableToken, EnableToken, DeleteToken, Change, redisVars
            <4>. QED  BY <3>1, <4>1 DEF MinuteInv, AllBounded
        <3>. QED  BY <1>1, <3>2, <3>3
    <2>. QED  BY <2>1, <2>2
<1>. QED  BY <1>1, <1>2, OthersStutter

------------------------------------------------------------------------------
(* The windows of the public endpoints *)

OfWindow(t) == {r \in Requests : pc[r] = "public" /\ clock[r] = t}

\* The counter counts all that are served, and stops them at the limit; a request is
\* counted in the minute of its clock or in the next.
WindowCounted(t) ==
    /\ Cardinality(OfWindow(t)) <= windows[t]
    /\ Cardinality(OfWindow(t)) <= PublicLimit

WindowInv ==
    /\ TypeInv
    /\ \A r \in Requests :
          pc[r] = "public" => clock[r] \in Times /\ counted[r] \in {clock[r], clock[r] + 1}
    /\ \A t \in Times : WindowCounted(t)

LEMMA WindowsAreFinite ==
    \A t : IsFiniteSet(OfWindow(t)) /\ Cardinality(OfWindow(t)) \in Nat
<1>1. \A R \in SUBSET Requests : IsFiniteSet(R) /\ Cardinality(R) \in Nat
    BY QuotaAssumption, FS_Subset, FS_CardinalityType
<1>. QED  BY <1>1 DEF OfWindow

\* Only the limiter serves a public endpoint.
LEMMA PublicIsLimited ==
    ASSUME TypeInv, NEW r \in Requests, RequestStep(r), NEW q \in Requests, pc'[q] = "public"
    PROVE  /\ clock'[q] = clock[q]
           /\ \/ pc[q] = "public" /\ counted'[q] = counted[q]
              \/ q = r /\ RateLimit(r) /\ ~RateLimitFull(windows[clock[r]] + 1)
<1>1. CASE q # r
    BY <1>1, OthersAlone
<1>. SUFFICES ASSUME q = r
              PROVE  clock'[r] = clock[r] /\ RateLimit(r) /\ ~RateLimitFull(windows[clock[r]] + 1)
    BY <1>1
<1>2. CASE APIAuth(r) \/ DonationAuth(r)
    BY <1>2, LookupIs, GotoIs
<1>3. CASE ReadClock(r) \/ fixedWindowKey(r)
    BY <1>3, GotoIs DEF ReadClock, fixedWindowKey
<1>4. CASE incrementQuotaCounters(r)
    <2>1. Goto(r, "minute") \/ Goto(r, "day") \/ Goto(r, "passed")
        BY <1>4 DEF incrementQuotaCounters
    <2>. QED  BY <2>1, GotoIs
<1>5. CASE RedisFails(r) \/ ChargeFails(r) \/ LimiterFails(r) \/ IncrementTokenUsageIfAllowed(r) \/ DeferUsage(r)
    <2>1. Goto(r, "failed") \/ Goto(r, "served") \/ Goto(r, "total")
        BY <1>5 DEF RedisFails, ChargeFails, LimiterFails, IncrementTokenUsageIfAllowed, DeferUsage
    <2>. QED  BY <2>1, GotoIs
<1>6. CASE RateLimit(r)
    <2>1. clock' = clock
        BY <1>6 DEF RateLimit
    <2>2. ~RateLimitFull(windows[clock[r]] + 1)
        <3>. SUFFICES ASSUME RateLimitFull(windows[clock[r]] + 1) PROVE pc'[r] # "public"
            OBVIOUS
        <3>1. Goto(r, "window")
            BY <1>6 DEF RateLimit
        <3>. QED  BY <3>1, GotoIs
    <2>. QED  BY <1>6, <2>1, <2>2
<1>. QED  BY <1>2, <1>3, <1>4, <1>5, <1>6 DEF RequestStep

LEMMA WindowsGrow ==
    ASSUME TypeInv, NEW r \in Requests, RequestStep(r), NEW t \in Times
    PROVE  /\ windows[t] \in Nat /\ windows'[t] \in Nat /\ windows'[t] >= windows[t]
           /\ incrementWithTTL(r) /\ clock[r] = t => windows'[t] = windows[t] + 1
<1>1. windows \in [Times -> Nat]
    BY DEF TypeInv, TypeOK
<1>2. CASE incrementWithTTL(r)
    <2>1. windows' = [windows EXCEPT ![clock[r]] = @ + 1]
        BY <1>2 DEF incrementWithTTL
    <2>. QED  BY <1>1, <2>1
<1>3. CASE ~incrementWithTTL(r)
    <2>1. windows' = windows
        BY <1>3, LookupIs
           DEF RequestStep, ReadClock, incrementQuotaCounters, RedisFails, RunQuotaScript,
               IncrementTokenUsageIfAllowed, ChargeFails, DeferUsage, fixedWindowKey, RateLimit, LimiterFails,
               redisVars
    <2>. QED  BY <1>1, <1>3, <2>1
<1>. QED  BY <1>2, <1>3

LEMMA RequestWindow ==
    ASSUME WindowInv, NEW r \in Requests, RequestStep(r), NEW t \in Times
    PROVE  WindowCounted(t)'
<1>0. /\ TypeInv /\ WindowCounted(t)
      /\ IsFiniteSet(OfWindow(t)) /\ Cardinality(OfWindow(t)) \in Nat /\ PublicLimit \in Nat
      /\ windows[t] \in Nat /\ windows'[t] \in Nat /\ windows'[t] >= windows[t]
    BY WindowsGrow, WindowsAreFinite, QuotaAssumption DEF WindowInv
<1>1. ASSUME NEW q \in OfWindow(t)'
      PROVE  \/ q \in OfWindow(t)
             \/ q = r /\ RateLimit(r) /\ ~RateLimitFull(windows[t] + 1) /\ clock[r] = t
    <2>1. q \in Requests /\ pc'[q] = "public" /\ clock'[q] = t
        BY DEF OfWindow
    <2>2. /\ clock'[q] = clock[q]
          /\ \/ pc[q] = "public"
             \/ q = r /\ RateLimit(r) /\ ~RateLimitFull(windows[clock[r]] + 1)
        BY <1>0, <2>1, PublicIsLimited
    <2>. QED  BY <2>1, <2>2 DEF OfWindow
<1>2. CASE OfWindow(t)' \subseteq OfWindow(t)
    <2>1. OfWindow(t)' \in SUBSET OfWindow(t)
        BY <1>2
    <2>2. Cardinality(OfWindow(t)') <= Cardinality(OfWindow(t)) /\ Cardinality(OfWindow(t)') \in Nat
        BY <1>0, <2>1, FS_Subset, FS_CardinalityType
    <2>. QED  BY <1>0, <2>2 DEF WindowCounted
<1>3. CASE ~(OfWindow(t)' \subseteq OfWindow(t))
    <2>1. RateLimit(r) /\ ~RateLimitFull(windows[t] + 1) /\ clock[r] = t
        BY <1>1, <1>3
    <2>2. OfWindow(t)' \subseteq OfWindow(t) \cup {r}
        BY <1>1
    <2>3. Cardinality(OfWindow(t)') <= Cardinality(OfWindow(t)) + 1 /\ Cardinality(OfWindow(t)') \in Nat
        BY <1>0, <2>2, OneMore
    <2>4. windows'[t] = windows[t] + 1
        BY <1>0, <2>1, WindowsGrow DEF RateLimit
    <2>5. windows[t] + 1 <= PublicLimit
        BY <1>0, <2>1 DEF RateLimitFull
    <2>. QED  BY <1>0, <2>3, <2>4, <2>5 DEF WindowCounted
<1>. QED  BY <1>2, <1>3

LEMMA WindowStep == WindowInv /\ [Next]_vars => WindowInv'
<1>. SUFFICES ASSUME WindowInv, [Next]_vars
              PROVE  /\ \A q \in Requests :
                           pc'[q] = "public" => clock'[q] \in Times /\ counted'[q] \in {clock'[q], clock'[q] + 1}
                     /\ \A t \in Times : WindowCounted(t)'
    BY TypeStep DEF WindowInv
<1>1. CASE UNCHANGED <<windows, pc, clock, requestVars>>
    BY <1>1 DEF WindowInv, WindowCounted, OfWindow, requestVars
<1>2. ASSUME NEW r \in Requests, RequestStep(r), NEW q \in Requests, pc'[q] = "public"
      PROVE  clock'[q] \in Times /\ counted'[q] \in {clock'[q], clock'[q] + 1}
    <2>1. /\ clock'[q] = clock[q]
          /\ \/ pc[q] = "public" /\ counted'[q] = counted[q]
             \/ q = r /\ RateLimit(r)
        BY <1>2, PublicIsLimited DEF WindowInv
    <2>2. CASE pc[q] = "public" /\ counted'[q] = counted[q]
        BY <2>1, <2>2 DEF WindowInv
    <2>3. CASE q = r /\ RateLimit(r)
        <3>1. counted' = [counted EXCEPT ![r] = now] /\ pc[r] = "window?"
            BY <2>3 DEF RateLimit, incrementWithTTL
        <3>2. counted'[r] = now /\ now \in Times
            BY <3>1 DEF WindowInv, TypeInv, TypeOK
        <3>3. clock[r] \in Times /\ clock[r] <= now /\ now <= clock[r] + 1
            BY <3>1 DEF WindowInv, TypeInv
        <3>4. Times \subseteq Nat
            BY QuotaAssumption DEF Times
        <3>. QED  BY <2>1, <2>3, <3>2, <3>3, <3>4
    <2>. QED  BY <2>1, <2>2, <2>3
<1>. QED  BY <1>1, <1>2, RequestWindow, OthersStutter

------------------------------------------------------------------------------
(* All limits *)

LEMMA PassBounds == PassInv => MinuteAndDayHold
<1>. SUFFICES ASSUME PassInv PROVE MinuteAndDayHold
    OBVIOUS
<1>1. ASSUME NEW t \in Times
      PROVE  Bounded(Passed({r \in Requests : clock[r] = t /\ token[r].minute > 0}), LAMBDA r : token[r].minute)
    <2>1. Passed({r \in Requests : clock[r] = t /\ token[r].minute > 0}) = OfMinute(t)
        BY DEF Passed, OfMinute, MinutePassing
    <2>2. OfMinute(t) = {} \/ \E r \in OfMinute(t) : Cardinality(OfMinute(t)) <= MinuteLimits[r]
        BY DEF PassInv, MinuteInv, AllBounded
    <2>3. \A r \in OfMinute(t) : MinuteLimits[r] = token[r].minute
        BY DEF OfMinute, MinuteLimits
    <2>4. OfMinute(t) = {} \/ \E r \in OfMinute(t) : Cardinality(OfMinute(t)) <= token[r].minute
        BY <2>2, <2>3
    <2>. QED  BY <2>1, <2>4 DEF Bounded
<1>2. ASSUME NEW d \in Days
      PROVE  Bounded({r \in Passed(Requests) : pc[r] # "day" /\ token[r].daily > 0 /\ Day(clock[r]) = d},
                     LAMBDA r : token[r].daily)
    <2>1. {r \in Passed(Requests) : pc[r] # "day" /\ token[r].daily > 0 /\ Day(clock[r]) = d} = OfDay(d)
        BY DEF Passed, OfDay, DayPassing
    <2>2. OfDay(d) = {} \/ \E r \in OfDay(d) : Cardinality(OfDay(d)) <= DayLimits[r]
        BY DEF PassInv, DayInv, AllBounded
    <2>3. \A r \in OfDay(d) : DayLimits[r] = token[r].daily
        BY DEF OfDay, DayLimits
    <2>4. OfDay(d) = {} \/ \E r \in OfDay(d) : Cardinality(OfDay(d)) <= token[r].daily
        BY <2>2, <2>3
    <2>. QED  BY <2>1, <2>4 DEF Bounded
<1>. QED  BY <1>1, <1>2 DEF MinuteAndDayHold

\* The requests counted in a minute are of its window and of the one before.
LEMMA WindowBounds == WindowInv => BurstBounded
<1>. SUFFICES ASSUME WindowInv, NEW t \in Times
              PROVE  /\ Cardinality(OfWindow(t)) <= PublicLimit
                     /\ Cardinality({r \in Requests : pc[r] = "public" /\ counted[r] = t}) <= 2 * PublicLimit
    BY DEF BurstBounded, OfWindow
<1>1. /\ \A s \in Times : Cardinality(OfWindow(s)) <= PublicLimit
      /\ \A s : IsFiniteSet(OfWindow(s)) /\ Cardinality(OfWindow(s)) \in Nat
      /\ PublicLimit \in Nat /\ Times \subseteq Nat
    BY WindowsAreFinite, QuotaAssumption DEF WindowInv, WindowCounted, Times
<1>. DEFINE burst == {r \in Requests : pc[r] = "public" /\ counted[r] = t}
<1>0. ASSUME NEW r \in Requests, pc[r] = "public", counted[r] = t
      PROVE  clock[r] \in Times /\ (clock[r] = t \/ clock[r] + 1 = t)
    BY <1>0 DEF WindowInv
<1>2. CASE t = 0
    <2>1. burst \in SUBSET OfWindow(t)
        <3>1. \A n \in Nat : n + 1 # t
            BY <1>2
        <3>. QED  BY <1>0, <1>1, <3>1 DEF OfWindow
    <2>. HIDE DEF burst
    <2>2. Cardinality(burst) <= Cardinality(OfWindow(t)) /\ Cardinality(burst) \in Nat
        BY <1>1, <2>1, FS_Subset, FS_CardinalityType
    <2>. QED  BY <1>1, <2>2 DEF burst
<1>3. CASE t # 0
    <2>. DEFINE s == t - 1
    <2>1. s \in Times /\ s + 1 = t
        BY <1>3, QuotaAssumption DEF Times
    <2>2. burst \in SUBSET (OfWindow(s) \cup OfWindow(t))
        <3>1. \A n \in Nat : n + 1 = t => n = s
            BY <1>1
        <3>. QED  BY <1>0, <1>1, <3>1 DEF OfWindow
    <2>. HIDE DEF s, burst
    <2>3. /\ IsFiniteSet(OfWindow(s) \cup OfWindow(t))
          /\ Cardinality(OfWindow(s) \cup OfWindow(t)) <= Cardinality(OfWindow(s)) + Cardinality(OfWindow(t))
        <3>1. /\ IsFiniteSet(OfWindow(s) \cup OfWindow(t))
              /\ Cardinality(OfWindow(s) \cup OfWindow(t))
                   = Cardinality(OfWindow(s)) + Cardinality(OfWindow(t)) - Cardinality(OfWindow(s) \cap OfWindow(t))
            BY <1>1, FS_Union
        <3>2. Cardinality(OfWindow(s) \cap OfWindow(t)) \in Nat
            BY <1>1, FS_Intersection, FS_CardinalityType
        <3>. QED  BY <1>1, <3>1, <3>2
    <2>4. Cardinality(burst) <= Cardinality(OfWindow(s) \cup OfWindow(t))
        BY <2>2, <2>3, FS_Subset
    <2>5. Cardinality(burst) \in Nat /\ Cardinality(OfWindow(s) \cup OfWindow(t)) \in Nat
        BY <2>2, <2>3, FS_Subset, FS_CardinalityType
    <2>6. Cardinality(burst) <= 2 * PublicLimit
        <3>1. Cardinality(OfWindow(s)) <= PublicLimit /\ Cardinality(OfWindow(t)) <= PublicLimit
            BY <1>1, <2>1
        <3>2. Cardinality(OfWindow(s)) \in Nat /\ Cardinality(OfWindow(t)) \in Nat
            BY <1>1
        <3>. QED  BY <1>1, <2>3, <2>4, <2>5, <3>1, <3>2
    <2>. QED  BY <1>1, <2>6 DEF burst
<1>. QED  BY <1>1, <1>2, <1>3

LEMMA LimitsInit == Init => TotalInv /\ PassInv /\ WindowInv
<1>. SUFFICES ASSUME Init PROVE TotalInv /\ PassInv /\ WindowInv
    OBVIOUS
<1>1. TypeInv /\ SpentInv
    BY TypeInit DEF SpentInv, SpentInOrder, Init, Early
<1>2. /\ \A r \in Requests : pc[r] = "idle" /\ spent[r] = {}
      /\ \A t \in Times : minutes[t] = 0 /\ windows[t] = 0
      /\ \A d \in Days : days[d] = 0
      /\ used = 0 /\ now = 0 /\ peak = row.total /\ peak \in Nat
    BY <1>1, TypeInit DEF Init, TypeInv, TypeOK
<1>3. /\ Spenders = {}
      /\ \A t : OfMinute(t) = {} /\ OfWindow(t) = {}
      /\ \A d : OfDay(d) = {}
    BY <1>2 DEF Spenders, OfMinute, OfWindow, OfDay, MinutePassing, DayPassing
<1>4. Cardinality({}) = 0
    BY FS_EmptySet
<1>5. TotalInv
    BY <1>1, <1>2, <1>3, <1>4 DEF TotalInv
<1>6. PassInv
    <2>1. \A f : AllBounded({}, f)
        BY DEF AllBounded
    <2>2. ASSUME NEW t \in Times PROVE MinuteInv(t)
        BY <1>2, <1>3, <1>4, <2>1 DEF MinuteInv
    <2>3. ASSUME NEW d \in Days PROVE DayInv(d)
        BY <1>2, <1>3, <1>4, <2>1 DEF DayInv
    <2>. QED  BY <1>1, <2>2, <2>3 DEF PassInv
<1>7. WindowInv
    <2>1. ASSUME NEW t \in Times PROVE WindowCounted(t)
        BY <1>2, <1>3, <1>4, QuotaAssumption DEF WindowCounted
    <2>2. \A r \in Requests : pc[r] # "public"
        BY <1>2
    <2>. QED  BY <1>1, <2>1, <2>2 DEF WindowInv
<1>. QED  BY <1>5, <1>6, <1>7

\* No limit is exceeded: not the total of a token while it changes, not that of a minute
\* or a day as the requests have looked it up, nor that of a public endpoint
\* (auth.go:149-205, ratelimit.go:30-52), however many requests are on their way and
\* whatever fails.
THEOREM LimitsAlwaysHold == Spec => []LimitsHold
<1>1. TotalInv => TotalHolds
    BY DEF TotalInv, TotalHolds, Spenders
<1>2. TotalInv /\ PassInv /\ WindowInv => LimitsHold
    BY <1>1, PassBounds, WindowBounds DEF LimitsHold
<1>3. TotalInv /\ PassInv /\ WindowInv /\ [Next]_vars => (TotalInv /\ PassInv /\ WindowInv)'
    BY TotalStep, PassStep, WindowStep
<1>. QED  BY <1>2, <1>3, LimitsInit, PTL DEF Spec

================================================================================
