# Far Mail: a formal model

TLA+ modules for the Far Mail server (a Go API with an LMTP ingress, PostgreSQL,
Redis, Postfix and a Vue console): the state machines of its core, TLC instances
that check them, and theorems checked by TLAPS. Paths below are relative to the
repository; line numbers refer to the commit the modules were written from.

## 1. Inventory

| Component | Source | State | Operations | What makes it hard |
|---|---|---|---|---|
| Domain donation rewards | `api/store/donations.go`, `donation_dns.go`, `api/handler/domain.go`, `api/main.go:395-424` | claims, reward tokens and their limits, reward events, the domain row | create, verify, revoke, lift, adjust, apply policy, poll, recheck | DNS is read outside the transaction; verifier, polls and rechecks overlap; four representations of one fact (claim, limits, events, domain) |
| LMTP ingress | `api/ingress/server.go` | queue slots, jobs, sessions, counters, routing snapshot | MAIL, RCPT, DATA, workers, shutdown, snapshot refresh | a job outlives the command that waits for it; queue limit; timeout against a late commit; shutdown in the middle |
| Event hub, event stream, inbox page | `api/ingress/events.go`, `api/handler/email.go:38-100`, `frontend/src/pages/InboxPage.vue` | subscribers with a buffer of 16; the list a page shows | subscribe, publish, unsubscribe; load, stream, poll, reconnect | publication must not block; lists, subscription and the first event come one after another |
| Mail store and mailbox projection | `api/store/postgres.go`, `ingress.go`, `tooling.go` | emails, the `latest_*` columns of mailboxes, expiry | insert, delete, purge, renew | single-statement projection under READ COMMITTED with concurrent deletes |
| Token authentication cache | `api/store/tokens.go:194-359` | token rows, cache with TTL, epoch, single flight | load, invalidate, evict | a load that straddles an invalidation |
| Active-domain cache | `api/store/postgres.go:160-193`, `domains_cache.go` | one cached list, epoch, single flight | load, invalidate | the same |
| Access tokens and quotas | `api/middleware/auth.go`, `redis_counter.go`, `api/store/tokens.go` | token rows, minute and day counters in Redis, total counter in the database | create, update, rotate, disable, enable, delete, authorise a request | three counters charged one after another |
| Rate limiter | `api/middleware/ratelimit.go` | a window per address | allow, sweep | window boundaries |
| Usage recorder | `api/middleware/observability.go`, `api/store/observability.go` | queue of 4096, pending batch | record, flush, stop | queue full, failed flush, shutdown |
| Notification dispatcher | `api/integrations/notifications.go` | queue of 128, delivery log | publish, deliver with retries, stop | drop when full, retries, shutdown |
| Domain lifecycle | `api/main.go:428-478`, `api/store/postgres.go:118-350`, `api/handler/domain.go` | domain rows | register, promote, disable, toggle, delete, touch | loops act on a list that is minutes old |
| Retention loops | `api/main.go:319-364` | expired mailboxes and emails | delete expired, renew, keep forever | a renewal racing the deletion |
| Settings | `api/store/settings.go`, `api/handler/setting.go` | key/value rows | read, save | read by separate queries |
| Recipient resolution | `api/ingress/server.go:758-787` | the routing snapshot | resolve | longest matching suffix |
| Process life cycle | `api/main.go:28-150, 480-549` | goroutines, servers | start, stop | order of shutdown |
| Cloudflare, secrets | `api/integrations/cloudflare.go`, `secrets.go` | none kept | zone calls, encryption | - |
| Analytics, audit, health, pool statistics | `api/store/analytics.go`, `audit.go`, `health.go`, `pool_stats.go` | log tables | insert, query | - |
| MIME parsing | `api/ingress/mime.go` | none | parse | - |
| Console and its server | `frontend/` | browser state | pages | - |
| Postfix, PgBouncer, scripts, SQL migrations | `postfix/`, `pgbouncer/`, `scripts/`, `sql/` | configuration | - | - |

How they interact. Postfix hands a message to the LMTP ingress, which resolves
the recipient in a snapshot of the active domains, stores the message in a
transaction that also updates the mailbox row, publishes an event to the hub and
answers. The console and the public API go through the request middleware: the
token cache, the rate limit, the quota counters, then the handlers, which use the
store; the usage of each request goes to the recorder. Handlers and background
loops (verifier, MX check, retention) write the same domain, claim and mailbox
rows, and each write that matters to a cache invalidates it after its commit.
All of them share the connection pool of the database.

What has to be right, component by component:

* donations: limits equal the sum of what is earned; a domain receives mail
  exactly while its claim earns; a revocation holds; no grant is counted twice;
* ingress: an accepted message is stored; each recipient is answered once; slots
  are conserved; everything in the queue is answered, also through a shutdown;
* caches: no answer older than its TTL, and an invalidation takes effect;
* projection: the latest message and the number of messages of a mailbox are what the
  table of messages says;
* recorder, hub and dispatcher: nothing is counted twice, nothing waits for ever,
  what is lost is only what the code says may be lost;
* quotas: no token is served beyond its limits;
* domains: an administrator's decision is not undone by a loop that saw an older
  list.

The hazards of the code that a test hardly reaches are listed in `PROJECT.json`,
each at its line and with the properties that watch it.

## 2. What is modelled, and where

| Module | Models | Theorems | Instances |
|---|---|---|---|
| `DonationRewards` | claims, reward tokens, events, domain rows, checks in progress | `DonationRewardsProofs` | `MCDonationRewards` |
| `MailHandover` | what a sender relies on (abstract) | - | through `LmtpIngress` |
| `LmtpIngress` | sessions, slots, jobs, workers, shutdown, restart | `LmtpIngressProofs` | `MCLmtpIngress` |
| `EpochCache` | one entry of the token cache or of the active-domain cache | `EpochCacheProofs` | itself |
| `UsageRecorder` | request middleware, recorder goroutine, batch transaction, close | `UsageRecorderProofs` | `MCUsageRecorder` |
| `MailStore` | mails, mailboxes and `mailbox_state`, statement by statement; retention | `MailStoreProofs` | `MCMailStore` |
| `LatestLookup` | a request for the latest code beside `MailStore`, read by read | - | `MCLatestLookup` |
| `QuotaGate` | a token, its changes, the way of a request through its quotas, the rate limiter | `QuotaGateProofs` | `MCQuotaGate` |
| `DomainLifecycle` | registration, MX loops, routing snapshot, resolution of recipients | `DomainLifecycleProofs` | `MCDomainLifecycle` |
| `MailEvents` | event hub, streams, the inbox page, notifications | `MailEventsProofs` | `MCMailEvents` |

`PROJECT.json` gives for every definition the lines it stands for. Some
definitions have a mistaken form beside them, which no specification uses; every
property is broken by one of them.

How the modules meet: `LmtpIngress` stores a message in one step and takes the
recipient for granted; `DomainLifecycle` resolves it and makes the mailbox,
`MailStore` opens the step up into its statement, and `MailEvents` follows the
message from there. `QuotaGate` takes the answer of a lookup to be at most a
little old, which is what `EpochCache` shows, and ends where `UsageRecorder`
begins. The row of a donated domain is written by `DonationRewards`; in
`DomainLifecycle` a donation is only what it does to that row.

### Donation rewards

A transaction of the store is one step: it locks the claim row, then the token
row, and PostgreSQL lets no other transaction between. What is not atomic is the
request around it. A *worker* is a check in progress: the verifier tick, a
donor's status poll, or an administrator's recheck, which reads the status,
lifts the revocation, asks DNS and applies the answer in four separate steps
(`pc`: `lift`, `check`, `apply`). Between them any other transaction may run, and
the zone may change (`DnsChanges`).

| Variable | Code |
|---|---|
| `status`, `rewardActive`, `owner`, `reward`, `failureCount` | columns of `domain_donations` |
| `domActive`, `domStatus` | `domains.is_active`, `domains.status` |
| `issued`, `limits` | rows of `account_tokens` of kind `donation` and their limits |
| `granted`, `manual` | `donation_reward_events`, added up per claim and per token |
| `pc`, `target`, `verdict` | a request in progress and the DNS answer it holds |
| `allowed` | history: the tolerance read by the last check that failed and left the claim its reward |
| `untold` | history: a recheck has lifted a claim that earned |

Settings are not constants. The administrator may change the tolerance, the reward, the
cap and the number of domains of a token at any time, and every transaction reads them
anew (`donations.go:406`, `495`): each step that reads one takes any of the values the
instance lists (`Tolerances`, `Policies`, `Caps`, `DomainLimits`). A lower tolerance does
not reach a claim before its next failed check, so what a claim may have failed is measured
by the tolerance its last judge has read.

A reward of *n* is modelled as *n* units, so that the sum of the rewards of a
token is the cardinality of a set: `SUM(...)` of
`recalculateDonationTokenLockedTx` without recursion, which the proofs need.

### LMTP ingress

A session is a connection of Postfix, and its commands arrive in any order the
protocol allows. DATA takes a slot (`ReserveSlot`), reads the message, creates a
job (`ReadData`), puts it in the channel (`SubmitJob`), counts it
(`CountSubmitted`) and waits for the result or the deadline. A worker takes a
job, looks at its context, stores the message, sends the result and gives the
slot back, each in a step of its own. The job outlives the command: `Jobs` are
names that are reused when nobody holds them, which is what the garbage collector
does with the values.

| Variable | Code |
|---|---|
| `slots`, `queue` | the channels `s.slots` and `s.jobs` |
| `session`, `txn`, `cur`, `sjob` | the goroutine of a connection, its transaction, its job |
| `worker`, `wjob` | a worker goroutine and the job it holds |
| `about`, `expired`, `result` | a job: message, context, result channel (capacity 1) |
| `balance` | submitted minus delivered, temporarily and permanently failed |
| `phase` | serving, context cancelled, listener closed, drained |
| `mail`, `stored` | the sender's view of a message, and its rows in `emails` |

The rejection of a recipient is a choice (`HandleRCPT`), because the snapshot it
is looked up in may be up to thirty seconds old. A worker's permanent failure has
no action: `InsertEmailResolved` reports "not delivered" only for an empty
mailbox or domain, and `resolveRecipient` never yields one.

### Caches

`EpochCache` follows one entry; its row is a version that every operation
advances. A reader looks up, joins or leads a load (`singleflight`), reads the
epoch, reads the row, compares the epoch, caches, delivers, and accepts or starts
over; every one of these is a step, since no lock spans two of them. An operation
commits, advances the epoch and clears the entry. `kind` says which cache it is:
the domain list is cleared under one lock and its load forgotten after it; the
load of a token is forgotten under the lock, and only if the token was found in
the cache (`invalidateTokenAuthCaches`, `tokens.go:342`).

### Usage recorder

An event is identified with its request. A request that finds the queue full
leaves no event, and counts itself if its token is unlimited (`fallback`). The
recorder is in `select` (receive or tick), in a flush, or draining; a flush
stores, fails, or is stored without an answer (`FlushUnanswered`: the commit is
done, but the three seconds end or the connection breaks first). `rows` and
`usage` are what the two statements of the transaction leave. The statements insert a row
for each element of the batch; the model adds one for each request in it, which is the
same because no event is in the batch twice (`QueuedOnce`, section 5).

The figures of `Stats` are atomics of their own. A request counts itself as enqueued after
it has sent its event (`CountEnqueued`); the recorder brings `pendingDepth` up to date after
it has received (`StoreDepth`), `flushed` after the commit (`CountFlushed`) and empties the
batch after that (`EmptyBatch`); `book` says which of these it owes. Others run in between.

### Mail store

PostgreSQL runs each write as one statement in READ COMMITTED: what it reads is
a snapshot taken when it begins; a row it changes is looked at again in its
newest version when it is locked. So each statement has two steps, a beginning
that takes the snapshot (`seen`, `doomed`, `cand`, `rows`) and an end that
evaluates its conditions the way READ COMMITTED does and commits. Everything may
happen in between. `SetMailboxKeepForever` is two statements, and the second may
fail unnoticed; the batch form is one.

`LatestLookup` adds one request for the latest code, whose up to three reads see the tables
at different moments: the projection joined with the mail it names, the newest mail if that
is gone, the newest mail again if the code does not look like one.

| Variable | Code |
|---|---|
| `mails`, `mailboxes`, `keep`, `expires` | `emails`, `mailboxes` |
| `projected`, `latest`, `count`, `stateKeep` | rows and columns of `mailbox_state` |
| `stmt`, `began`, `seen`, `doomed`, `cand`, `rows`, `flag`, `only` | a statement between its two steps |
| `stage` | the retention loop: expired mailboxes, old mails, mails beyond the maximum |
| `raced`, `overtaken` | history: the exceptions named below |

### Quotas

A request looks its token up (from the database, or from a row that was current
in the last five seconds), reads the clock, has the Redis script count it in its
minute and day, has the charge of the total count it, and is served; each is a
step, and the token may change, time may pass and Redis or PostgreSQL may fail in
between. A failure may come before or after the counting. A key of Redis goes
with its TTL, also while a request that has read the clock earlier is on its way.
DELETE, rotation, disabling, a new limit, and the withdrawal of the reward that
a donation token lives on are the changes.

### Domains and routing

The MX loop has the list it works off, the domain it is looking up, and its
verdict; each of list, lookup and conclusion is a step. The administrator
registers, toggles, deletes and makes domains again, donations come and are
granted, and an MX record moves. The LMTP server reads the list of active domains
in two steps and stores it; a recipient is resolved in it by walking over the
labels, while requests look for the longest domain in the list. A mail or a
request that has resolved its domain makes its mailbox later, with the id it
found. A domain made again has another id.

A name is the sequence of its labels as it was written, so that "x." is `<<"x", "">>`.
`mx-register` stores what it is given; `LoadIngressSnapshot` trims the dots at both ends,
with the rows of one trimmed name collapsing into the one read last; the handlers compare
names as they are written. Mail comes to names without outer dots, since the LMTP server
trims the recipient; a request names a domain without them (`Create`) or leaves the choice
to the server, which takes any active domain as it is written (`CreateAnywhere`).

### Events

The hub is the map of subscribers, each with a buffer, under one lock:
`publishEmailEvent` is one step. A connection of the page is a request with its
handler (`asked`, `subscribed`, `open`, `ended`) and a line that may break or, the
worse case, stall. The page loads, subscribes, falls back to polling, and
reconnects; an older connection may still be served when the next is made. The
dispatcher is the forwarder, the queue and the workers, with attempts, back-off
and the context that `stopNotifications` cancels.

Mails are numbered by their `received_at`, and may be stored in any other order. A list is
the newest `PageSize` of the mailbox (`ListEmails`, page 1 of 100). The list and what it was
a list of are kept together, for the properties: `listed` is what the mailbox held when the
list shown was read.

## 3. What is checked

| Run | Instance | What it shows |
|---|---|---|
| `donation_concurrent` | 2 claims, 2 tokens, 2 workers, cap 0 or 1, an adjustment of -2 | claim and domain agree after every interleaving; events are lost in one way only; limits are what claims and adjustments come to; only a recheck lifts a revocation |
| `donation_live` | 1 claim, 2 workers, 2 rewards, tolerance 1 or 3, cap 0 or 2, an adjustment of -3 | a claim earns only within the tolerance its last judge read; limits follow every setting; lost records cost the reward for good, records that stay right earn it again and again |
| `donation_double_grant` | 1 claim, 2 workers | violated: a grant is recorded twice |
| `ingress_safety` | 2 messages, 2 sessions, 1 worker, 1 slot, 3 job names, 1 restart | the promise of `MailHandover`; slots conserved; counters agree; a drained server holds nothing |
| `ingress_live` | 1 message, 2 sessions, 1 worker, 1 slot | DATA is answered; a shutdown ends; a message that is retried is accepted or refused |
| `cache` | both caches, 2 readers, 1 writer that writes twice | outside the unguarded moments nothing stale is cached or answered; every request ends; a row cached too late goes with its TTL |
| `usage` | 3 requests of an unlimited token, queue 1, batch 2, 1 lost answer | nothing missing, totals agree with rows; figures add up whenever none is owed; close returns; events leave the memory |
| `mailstore` | 1 mailbox, 2 mails, the retention loop, 2 requests, 1 failure | count and latest mail are right, or the race is one of the known ones; flags agree; a renewed mailbox survives the deletion; expired ones go |
| `lookup` | 1 mailbox, 3 mails, a request that deletes, the retention loop, 1 lookup at a time | the latest code is that of a mail that was the newest at some moment of the request |
| `quota` | 3 requests, 3 sets of limits, 3 minutes in 2 days, 1 change, 1 failure | no quota is exceeded, a refusal uses up only what comes before it, a revoked token is not served from the cache |
| `domains` | x, a.x and "a.x.", a mailbox at a.x, 2 rows, 2 orders, 1 move of an MX, 1 failure | which domain may be active; mailboxes hang on an existing domain; both resolutions agree but for names with outer dots only; a domain that is off is forgotten by the second snapshot; every verdict of DNS is drawn |
| `events` | 3 mails and 1 of another mailbox, lists of 2, 1 alert, 2 connections, 1 broken line, 2 channels, 1 worker, buffers of 1 | no mail of another mailbox on the page; what a connected page may lack; drops are counted; deliveries recorded once; streams, workers and forwarder end |

The type invariants of `DonationRewards`, `LmtpIngress` and `UsageRecorder` are proved
(section 5) and not checked once more.

Properties with named exceptions. They are true of the code only outside certain
situations, which a history variable records; section 6 tells what happens in
them.

* `NothingStale`: `exposed`, an operation has committed in an unguarded moment.
* `LedgerExplained`: `untold`, a recheck has lifted a claim that earned.
* `StateAgrees`: `raced`, the statement that rewrote the latest mail had a snapshot
  without a change committed since. `AnswerWasRight` then asks only that the mail was
  stored when the projection was read.
* `StatsAddUp`: no request has enqueued without having counted itself, and the recorder
  owes no figure (`book`). A call of `Stats` reads the figures one by one and may differ
  from any moment; the property says that they do not drift apart.
* `FlagsAgree`: `overtaken`, the second statement failed, two requests crossed,
  or a batch began before the row was there.
* `ActiveIsVouched`: `overtaken`, disabled while the MX loop had it in hand.
* `RoutesAgree`: `OnlyDotted`, the domain is written with outer dots only; the LMTP server
  then knows it and the handlers do not.
* `InboxComplete`: `excused`, published before the page was connected and after
  it had read its list, overwritten by a list read earlier, or dropped by the hub; and
  `Aged`, older than the newest `PageSize` mails of the mailbox, which a list leaves out
  although the page may have streamed them.

Why these bounds reach the interesting cases:

* two claims on one token make the sums differ from the summands, and two tokens
  make it possible to recalculate the wrong one; two workers are two checks of
  one claim, and a third adds no new kind of overlap, since each check touches one
  claim in one transaction;
* one slot and one worker are a full queue as soon as two sessions meet; three
  job names are one in each of the places (a worker, the channel, a session), so
  that a name is reused while its former holder is about to answer;
* an entry with two changes has an older, a newer and a newest version: enough
  for an answer that is stale with respect to one operation and not to the other;
  one writer is enough, since operations on one row wait for each other;
* a queue of one and a batch of two have "full", "not full" and "full again after
  a refused batch"; three requests are one more than queue or batch hold; a token
  that is not unlimited is counted by `QuotaGate` and left to the recorder only for
  its row;
* in one mailbox a mail is stored while another, or the same, is being deleted by
  the retention loop and by a request at once: two statements overlap with a
  third, and the projection of a mailbox depends on nothing outside it;
* limits of one and two with three requests: each quota is met by one request too
  many; minutes 0 and 1 are one day, minute 2 the next;
* a tolerance of one or three lets it be lowered below, and raised above, the failures
  a claim has; the settings change in the run of one claim, because a claim has its own
  reward and failures, and a cap and an adjustment in that of two, which share a token;
* three mails for one lookup: one that the projection names, one that comes between the
  reads, and one more to trim;
* two nested domains make the longest and the first match differ; two rows let a
  domain come back with another id; a third name that differs from the second by a
  dot at its end makes rows collapse in the snapshot. The mailbox is at the inner
  domain, to which both resolutions can find two ways;
* three mails of a mailbox and lists of two let a page stream more than a list has; the
  fourth is of another mailbox, and comes in two of the starts; two mails fill a buffer
  of one, two connections overlap. The instance starts a page with two mails to come, or
  one and that of the other mailbox, when notifications are stopped, a page with one mail
  beside running notifications that no channel wants, and notifications without a
  page: page and dispatcher meet only in the hub, where one never waits for the
  other.

Bounds of the model, beside the sizes of the sets: `MaxManual` (adjustments are
refused beyond it), `MaxLedger` (the events of a claim are added up to it; where a second
grant is to show it is twice the reward), `MaxTolerance` (the highest tolerance of
`Tolerances`; the failure count of a claim without a reward stops there), `MaxRestarts`,
`MaxWrites`, `MaxUnknown`, `MaxMails`, `MaxTime`, `MaxFaults`, `MaxChanges`,
`MaxIds`, `MaxOrders`, `MaxMoves`, `MaxConnections`, `MaxReads`, `MaxBreaks`, and
`Does` (what each request to the store may ask for). `MaxAttempts` is 3 in the
code and 2 in the instance, `PageSize` 100 in the code and 2 in the instance. The ingress
runs are without the check for deadlock because a drained server is meant to stop;
`quota`, `domains` and `events` because requests, orders and mails come to
an end with their bounds.

## 4. Fairness

*Goroutines* that can go on do (weak fairness of each step): Go's scheduler is
preemptive, and every wait in these components has a deadline. This is all that
`FairSpec` of `LmtpIngress`, `EpochCache` and `MailEvents` assumes, beside time
itself (a deadline or a TTL passes, a heartbeat comes, a back-off ends). In
`MailEvents` nothing is assumed of the page, of the network or of the receivers.

*`select`* chooses at random among the cases that are ready, so that a case that
is ready again and again is taken: strong fairness of `Receive`, `FlushTick` and
`NoticeStop` in `UsageRecorder`, and of the two lists of the MX loop in
`DomainLifecycle`, whose goroutine has one `select` over two tickers and works off
one list at a time.

*Tickers.* The retention loop starts each of its statements again and again, and
PostgreSQL ends what it has begun (`MailStore`). The verifier takes the claims
that were unchecked for longest (`ListDueDonations`), so it reaches each one again
and again (strong fairness of `VerifierTick`), and a resolver that fails
transiently does not do so for ever.

*Environment.* What the sender, the connections and the database have to do is a
premise of the property that needs it, never part of the specification:
`ClosingFairness` (connections end or send what they announced) for
`ShutdownEnds`; `SenderFairness`, `DatabaseFairness`, no shutdown and an end of
deadlines that pass for `HandedOver`; a database that takes a batch now and then
for `EventsLeaveMemory`; an MX that stays where it is for `PendingGoes` and
`DeadGoes`. `CloseReturns`, `DataIsAnswered`, `EveryRequestAnswered` need none.

## 5. What is proved

Every safety invariant and every action property that a passing run checks is a theorem,
for every value of the constants that satisfies the assumption named in its module, but
for `AnswerWasRight`, a matter of one request and few mails, which TLC alone checks. The assumptions, evaluated by
TLC on every run:

| Module | Assumption |
|---|---|
| `DonationRewards` | `RewardAssumption`: finitely many claims; rewards and caps that are natural numbers; tolerances from one to `MaxTolerance`; limits of domains above zero |
| `LmtpIngress` | `IngressAssumption`: finitely many sessions and workers, a queue above zero |
| `EpochCache` | `CacheAssumption`: finitely many operations at a time (readers may be any number) |
| `UsageRecorder` | `RecorderAssumption`: finitely many requests, a queue and a batch above zero |
| `MailStore` | `StoreAssumption`: types of the bounds only |
| `QuotaGate` | `QuotaAssumption`: finitely many requests, a day of at least one minute |
| `DomainLifecycle` | `DomainAssumption`: names and addresses are sequences of labels, none of length zero; with a name its trimmed form is one |
| `MailEvents` | `EventsAssumption`: finitely many mails, numbered, and alerts, which differ; buffers, lists and attempts above zero; channels in an order |

Finiteness is needed where something is counted: the prover's facts about `Cardinality`
are about finite sets. The values that stand for "none" differ from all others.

**Donations.** `TypeCorrect` and `ToleranceKept` are proved together: a claim that earns has
failed fewer checks than the tolerance read by the last of them (`allowed`), because a
check that finds as many takes the reward in the same transaction, and an activation
begins both anew. Nothing is assumed about how the setting changes. `DomainsFollow` is
inductive with the types alone, since every transaction writes claim and domain row
together. `QuotaAlwaysMatches`: a transaction changes rewards of claims of one token and
ends in its recalculation; the argument is that the units of every other token stay as they
were, and that the owner of a claim never changes. `LedgerAlwaysExplained` holds for any
number of checks: each transaction that writes `reward_active` adds to the events what it
changes, but for the lifting, which sets `untold` if there was something to take.
`RevokedStaysRevoked`, too, holds for any number of checks: of the steps that write `status`
only the lifting finds a revoked claim and leaves another.

**Ingress.** `SlotInv` joins the types, the conservation of slots and `JobsHeld`
(who is in which state holds a job): types and slots need each other, as
`slots <= QueueSize` follows from the conservation. From it follow
`SlotsAlwaysConserved` and `RoomAlways`. `JobsAlwaysAccounted` adds `Stopped`, that a
drained server has nobody left and an empty channel: without it the balance of a
drained server would say nothing about what is left behind. `PromiseKept` is the
refinement: the ingress implements `MailHandover`
(`Handover == INSTANCE MailHandover`, whose variables `mail` and `stored` are those of
the same names in `LmtpIngress`, with `HandoverSpec` its specification). Its invariant
`PromiseInv` says that a session in DATA has a message of which it is the only holder,
that a job is about the message of the session waiting for it, that a job is in one
place only (else a reused name could carry one message's success to another), and that
success is reported only when the row exists. Every step is then a step of
`MailHandover` or leaves its two variables alone.

**Caches.** `CountInv`: each operation that has committed and not yet advanced the epoch
leaves the epoch one behind the row, so that the epoch is bounded by the row
(`TypeCorrect`). `NeverStale` needs, beside it, what each place may hold: what was
loaded in the present epoch is fresh (`LoadsFresh`), what was compared with the epoch is
of the present epoch unless the moment was unguarded (`CheckedInEpoch`), the entry is no
older than any operation that has cleared it (`CacheFresh`), a copy of the entry is good
for its reader, for who waits for it and, while its load is registered, for who may
still join it (`CopiesGood`). The epoch does not decide who may accept a result that
was taken from the entry; that is `CopiesGood`, and it is where the second unguarded
moment of the token cache shows.

**Usage recorder.** `TypeCorrect` includes the bounds of queue and batch.
`StatsAlwaysAddUp` follows from `FiguresAgree`, which holds at every moment: the figures
differ by the events whose request has not counted itself, by a batch that is counted as
flushed and not yet emptied, or by a depth not yet stored, each while `book` or the request
says so. It needs `Quiet`: while the recorder drains no request can still
enqueue (the server is shut down before `Close`), the last batch has nothing
behind it, and nothing counts as failed before the end. `NothingIsLost` follows
the set of events held in memory: receiving moves one from the queue to the
batch, only a stored batch leaves. `DuplicatesAlwaysExplained` follows one event the
other way (`QueuedOnce`): it is made once, has no row while it is in the queue, and in
the batch no more rows than answers were lost. `UsageAlwaysCounted` adds that a batch
gives a token exactly as many rows as it has events in it (`RowsAdded`, a bijection) and
that a request counts itself once, after it was dropped (`Counting`). The rows of a
token are counted as a set of pairs (`RowsOf`), since a sum over a set is recursive.

**Mail store.** `StateAlwaysAgrees` is inductive with the types: a statement evaluates its
conditions on the rows it has locked, so its end leaves count and latest mail right, or
its snapshot was outdated and it sets `raced`.
`FlagsAlwaysAgree` needs `CopiesAlone`: outside `overtaken` the request that still has to
copy a flag is the only one for its mailbox, and copies what the mailbox has.
`DeletionsAlwaysSpare` is an action property; `SpareInv` says that no statement is from
the future and that a deletion of empty mailboxes has seen none of their mails.

**Quotas.** `RefusalsSpendLess`: a request uses up its quotas in order, the total last
(`SpentInOrder`). `RevokedNeverServes` is an action property: the charge of the total
looks at the row it updates. `LimitsAlwaysHold` has three parts. `TotalInv`: those who
have used up the total are no more than were counted, nor than the highest total there
has been; comparing with the present total is not inductive, as it may have been lowered
below what is used. `PassInv`: those let pass in a minute or a day are no more than its
counter says, each below the limit of its own lookup, and the key of a minute lasts as
long as somebody may still be counted in it, for a request may be a minute late.
`WindowInv`: the same of an address, with a request counted in the minute of its clock or
in the next.

**Domains.** `RoutesAlwaysAgree` is about the two algorithms, the walk of the server over
labels of trimmed names and the ordered query of the handlers over names as they are
written, for every set of names whose trimmed forms are names. Of the rows that collapse
the last read has fewest dots (`LastIs`), so the trimmed one is kept if it is active, and a
name without outer dots ends with none that has them (`EndIsClean`). Ids are the key to the
others: a row that is
deleted and made again has a new one. `MailboxesStayRooted` (`RootInv`): whatever a
snapshot, a load or a mail in flight names is an id that belongs to that domain or to none
any more. `DisabledAreForgotten` (`FreshInv`): what is active, or was when the snapshot
was read, has been so since the last one was stored. `ActiveIsAlwaysVouched`
(`VouchInv`): a row in the hands of the MX loop is not donated and, if it was listed as
pending, is so still or has been vouched for or disabled since.

**Events.** `InboxAlwaysComplete` needs `Connected`: only the last connection may carry
anything to the page, and a handler that streams is subscribed. And it needs `Lists`: an
answer under way is the newest `PageSize` of mails that are stored, so that what a list
leaves out has aged when it is taken over (`LeftOutAged`), and what has aged stays so
(`AgedGrows`): mails only come. The dispatcher is
followed by `PlaceInv`: an event is in one place at a time (`EventsStayOnce`).
`DropsAlwaysCounted` adds that the hub has the dispatcher until the notifications are
stopped (`Listens`). `DeliveriesAlwaysReported` (`Reports`): the channels before that of a
worker are done with, those behind it are untouched, at its own the event was seen at
most once in each attempt.

The proofs changed the modules where these could not be reasoned about or said more than
was meant: a choice of the first case that applies is written as an IF, since the cases of
a CASE have no order (`Renewed` in `MailStore`, `AnswerOf`, `DonationAuth` and
`incrementQuotaCounters` in `QuotaGate`); an instance of `MailEvents` that begins after
some events has them delivered on the channels that are on (`RecordsOf`), without which an
event that is done with would have no record; the rows of a token are a set.

TLC alone covers the liveness properties (`VerificationDecides`, `NobodyIsStuck`,
`HandedOver`, `CacheSettles`, `RecorderProceeds`, `RetentionGoesOn`, `VerdictsDrawn`,
`ServersEnd`): fairness and ENABLED are out of the prover's reach. What the theorems do not
say is what the modules do not model (section 8), nor that the modules fit together
(section 2): each is proved on its own.

## 6. Where code and statements differ

* **A grant recorded twice** (`donation_double_grant`). Two rechecks of one
  revoked claim overlap. The second lifts a claim that the first has activated,
  because `SetDonationRevoked(id, false)` (`donations.go:528`) does not look at
  the status of the row it has locked, and records no event for the reward it
  takes; the next valid check records the grant again.
  `docs/domain-donation-rewards.md:85` says it is not granted twice. The limits
  of the token are right all the time (`QuotaAlwaysMatches`).

Observations without a run of their own. Those with a named exception are what
the exception is for: without it TLC violates the property.

* *A proof from before the revocation.* A check that read DNS before a revocation applies its
  answer after another request has lifted it, and claim and domain become active before that
  request has asked DNS. `donations.go:534-535` speaks of the *next* check that proves
  ownership again; `ApplyDonationVerification` looks at the status it finds, not at when DNS
  was asked. `RevokedOnlyLifted` says no more than the code does: the claim was lifted first.
* *One claim too many.* The limit of claims per token (`docs/domain-donation-rewards.md:47`)
  is tested when a claim is created, not when a revocation is lifted (`donations.go:528`):
  with a limit of one, revoke a claim, create another for the same token, recheck the first,
  and the token has two. No property says otherwise.
* *A domain that nobody can name.* `mx-register` stores "a.x." as it is written
  (`domain.go:198`), and DNS answers for it as for "a.x", so the row becomes active. The LMTP
  server trims it and takes mail for a.x; the handlers compare it as it is written
  (`postgres.go:229`, `255`), and neither "a.x" nor "a.x.", which `mailboxDomainPattern`
  refuses, is known to them (`docs/openapi.yaml:218` says that any active domain may be
  named). A request that leaves the choice to the server may get a mailbox at "u@a.x.", to
  which no mail comes, since the LMTP server looks for a mailbox at the trimmed address.
  `RoutesAgree` (`OnlyDotted`) shows that this is all: the row of the domain proper is never
  taken over by one with dots.
* *An invalidated entry is cached.* The epoch is compared before the row is
  cached and without a lock over both (`tokens.go:213-214`,
  `postgres.go:175-176`); `tokens_test.go:139-141` and `domains_cache_test.go`
  expect the entry to be gone. The old row then answers until its TTL of five
  seconds. `NothingStale` shows that this is the only way, with one more for
  tokens: a load that found the entry in the cache and is not forgotten because
  the entry is gone by the time the operation looks.
* *A batch is written twice.* A commit whose answer is lost counts as failed
  (`store/observability.go:101`) and the batch is written again, although the test
  of the retry (`observability_metrics_test.go:56`) speaks of no duplication;
  `DuplicatesExplained` shows that this is the only way.
* *The figures of the recorder* are separate atomics, and `Stats` reads them one after
  another (`middleware/observability.go:117-131`): a report may show an event twice or not at
  all. `StatsAddUp` says that the difference does not stay.
* *The recorder may make a request wait.* `docs/architecture.md:64` says it never
  blocks the request. A request of an unlimited token that finds the queue full
  waits up to a second for `RecordTokenUsage` (`middleware/observability.go:109`).
* *The latest mail of a mailbox* may be outdated after a deletion overlapped with a
  delivery (`raced`), until the next mail; readers check that the mail exists and
  fall back to the table, so nobody is shown a mail that is gone (`AnswerWasRight`).
* *`keep_forever` may differ* between mailbox and projection (`overtaken` in
  `MailStore`): the second statement of `SetMailboxKeepForever` is not in a
  transaction with the first and its error is ignored (`postgres.go:498`).
* *A cleanup of empty mailboxes* may take a mailbox whose first mail comes while it
  runs, with that mail (`tooling.go:368`); `EmptyLosesOnlyUnseen` shows that it
  loses no other.
* *The MX loop overrides an administrator* who disables a domain while the loop has
  it in hand: promotion and disabling go by id and look at nothing else
  (`postgres.go:298`, `overtaken` in `DomainLifecycle`). `MXRegister` answers
  "domain already exists and is active" also for one that is pending or disabled
  (`domain.go:232`).
* *A donation token whose reward is withdrawn* between lookup and charge has a
  total of zero by then, which the charge takes for "no limit"; requests refused
  by the total have used up minute and day; the limits of minute and day are those
  of the lookup, which may be five seconds old; the comment of `ratelimit.go`
  speaks of a sliding window, the code has fixed ones, and twice the limit may pass
  around a boundary.
* *A list has a hundred mails* (`InboxPage.vue:48`, `120`). A page that has streamed more
  shows them until it is refreshed or falls back to polling, and then loses the oldest
  (`Aged`); it does not offer the others.
* *An inbox page may miss a mail while it shows "New email appears here in real
  time"* (`InboxPage.vue:240`): the list is read before the subscription is made,
  and what is published in between comes with neither; a list requested by the user
  may overwrite a mail streamed meanwhile. If the first list cannot be read, the
  page asks for no stream, and does not when the retry succeeds
  (`InboxPage.vue:210-215`). A line that stalls looks connected, since the page
  does not count heartbeats.
* *Notifications*: an event may reach a channel more than once if its answer is
  lost; a stop in the back-off leaves no record; a success of one channel clears
  the error of another.
* *An open stream delays the shutdown*: `srv.Shutdown` waits its ten seconds for
  it, `log.Fatalf` follows (`main.go:545-547`), and deferred calls, the `Close` of
  the usage recorder among them, do not run.

## 7. Plan

1. Abstract specifications for more components, with the refinement proved as for the
   ingress: a cache as a row that is read at some moment between request and answer; the
   dispatcher as events that go from raised to finished or dropped.
2. Lemmas about the steps between modules: that the age `QuotaGate` allows the answer of a
   lookup is what `EpochCache` grants, that the mail `MailStore` begins to store is the
   one `LmtpIngress` has in a worker.
3. The width of the limits (INT columns), as an exception with a history variable of its
   own; a limiter that knows the seconds of a minute, for the sliding window its comment
   speaks of (`ratelimit.go:14`).

## 8. What is not modelled

Queries that change nothing (reports, analytics, health, lists, searches),
formatting, MIME parsing, schema migration, Cloudflare and secrets (calls of a
service without a protocol of their own), the pages of the console but the inbox,
and the configuration of Postfix and PgBouncer. Postfix, PostgreSQL, Redis and DNS
are the environment: a statement is atomic at its end and isolated by its row
locks, it may fail, a commit may lose its answer; a sender keeps a message until it
has an answer.

Connection pools: a transaction that holds a connection and asks the pool for
another (`donations.go:406`, `495`) can wait for ever when all are held; the pool
is part of a library and of the configuration, and its queue is not modelled.

Inside the modelled components: the row locks inside a donation transaction (one
step here); the contents of messages; the announcements of the verifier
(`main.go:420-424`, which compare with what was listed at the start of the tick);
the reports of the recorder and its hourly deletion; the width of INT columns; the
console key of the administrator and the file it is written to; the cache of
domain health; the test message of a notification channel, a change of the
channels while an event is delivered, and mails deleted on an open inbox page.
