--------------------------- MODULE DonationRewards ---------------------------
(***************************************************************************)
(* The domain-donation reward programme (api/store/donations.go, the       *)
(* handlers in api/handler/domain.go and the verifier loop in api/main.go).*)
(*                                                                         *)
(* A donor claims a domain; while DNS proves that the donor controls it,   *)
(* the claim's reward counts towards the quota of one reward token.  Every *)
(* claim carries its own reward, several claims may share a token, and the *)
(* token's limits are recalculated at the end of every transaction that    *)
(* touches one of its claims.                                              *)
(*                                                                         *)
(* A store transaction is one step: it locks the claim row, then the token *)
(* row, before it writes.  What is NOT atomic is the request around it:    *)
(* a check reads DNS first and applies the verdict in a later transaction, *)
(* and the administrator's recheck reads the claim's status, lifts the     *)
(* revocation, checks and applies in four separate steps.  A worker is one *)
(* such request in progress (verifier tick, status poll or recheck).       *)
(*                                                                         *)
(* Beside some definitions stands a mistaken form of them (..Missing,      *)
(* ..Outside, ..Overwriting, ..Again, ..Late, ..Anyway, ..OfEarning,       *)
(* ..OfPending): the properties have to tell it from the right one.        *)
(***************************************************************************)
EXTENDS Integers, FiniteSets

CONSTANTS
    Donations,    \* the domains that may be claimed, each with at most one claim
    Tokens,       \* the reward tokens that may be issued
    NoToken,      \* owner of a domain that nobody has claimed
    NoClaim,      \* target of a worker that is idle
    Workers,      \* the checks that may be in progress at once
    MaxReward,    \* largest reward a setting accepts (10^9 in the code)
    Policies,     \* the reward settings an administrator may have saved
    Caps,         \* the values of donation_token_rate_limit_cap, 0 meaning none
    MaxTolerance, \* largest donation_dns_failure_tolerance a setting accepts (20)
    Tolerances,   \* the values it may have when a check reads it
    DomainLimits, \* the values donation_max_domains_per_token may have when it is read
    Adjustments,  \* the manual adjustments an administrator may enter
    MaxManual,    \* bound of the model: how far adjustments may add up
    MaxLedger     \* bound of the model: how far a claim's events are added up

\* The three quotas of a token.  Only "rpm" is subject to the cap.
Dims == {"rpm", "daily", "total"}

ASSUME RewardAssumption ==
    /\ IsFiniteSet(Donations)
    /\ NoToken \notin Tokens
    /\ NoClaim \notin Donations
    /\ MaxReward \in Nat
    /\ Policies \subseteq [Dims -> 0..MaxReward]
    /\ Caps \subseteq Nat /\ Caps # {}
    /\ MaxTolerance \in Nat \ {0}
    /\ Tolerances \subseteq 1..MaxTolerance
    /\ DomainLimits \subseteq Nat \ {0}
    /\ Adjustments \subseteq [Dims -> Int]
    /\ MaxManual \in Nat
    /\ MaxLedger \in Nat /\ MaxReward <= MaxLedger

VARIABLES
    status,        \* domain_donations.status, "none" while there is no row
    rewardActive,  \* domain_donations.reward_active
    owner,         \* domain_donations.token_id
    reward,        \* domain_donations.reward_*: what this claim is worth
    failureCount,  \* domain_donations.failure_count, up to MaxTolerance
    allowed,       \* history: the tolerance read by the last check that left the
                   \* claim its reward in spite of a failure, 1 if none has since
                   \* the claim was activated
    domActive,     \* domains.is_active
    domStatus,     \* domains.status, "none" while there is no row
    issued,        \* the rows of account_tokens of kind 'donation'
    limits,        \* account_tokens.*_limit of a reward token
    granted,       \* donation_reward_events: sum of a claim's own deltas
    untold,        \* history: a lifting took a reward and recorded no event
    manual,        \* donation_reward_events: sum of a token's manual_adjust
    dns,           \* whether the domain's MX and TXT records match now
    pc,            \* where a worker is
    target,        \* the claim a worker checks
    verdict        \* the DNS answer a worker holds

claimVars == <<status, rewardActive, owner, reward, failureCount, allowed>>
domainVars == <<domActive, domStatus>>
tokenVars == <<issued, limits>>
ledgerVars == <<granted, manual, untold>>
workerVars == <<pc, target, verdict>>
vars == <<claimVars, domainVars, tokenVars, ledgerVars, dns, workerVars>>

ClaimStatus == {"none", "pending", "active", "inactive", "revoked"}
DomainStatus == {"none", "pending", "active", "disabled"}
Verdict == {"none", "valid", "invalid", "transient"}
Nothing == [k \in Dims |-> 0]

------------------------------------------------------------------------------
(* Quota arithmetic: recalculateDonationTokenLockedTx *)

Smaller(a, b) == IF a <= b THEN a ELSE b

\* A reward of n is n units, so that a sum of rewards is a number of units.
Units(t, k) ==
    {u \in Donations \X (1..MaxReward) :
        /\ owner[u[1]] = t
        /\ rewardActive[u[1]]
        /\ u[2] <= reward[u[1]][k]}

Earned(t, k) == Cardinality(Units(t, k)) + manual[t][k]

Clamp(n) == IF n < 0 THEN 0 ELSE n

\* Negative sums count as nothing, and the rpm sum is capped.
EffectiveLimit(k, n, cap) ==
    IF k = "rpm" /\ cap > 0 THEN Smaller(Clamp(n), cap) ELSE Clamp(n)

EffectiveLimits(t, cap) == [k \in Dims |-> EffectiveLimit(k, Earned(t, k), cap)]

\* The sums taken outside the transaction miss what it wrote.
RecalculateOutside(t) ==
    \E cap \in Caps : limits' = [limits EXCEPT ![t] = EffectiveLimits(t, cap)]

\* The caller holds the token row; the sums see what this transaction wrote.
Recalculate(t) ==
    \E cap \in Caps : limits' = [limits EXCEPT ![t] = EffectiveLimits(t, cap)']

RecalculateOwner(d) == \E t \in Tokens : t = owner[d] /\ Recalculate(t)

\* Sums that run away are kept at the bound.
Bounded(n) == IF n < -MaxLedger THEN -MaxLedger ELSE Smaller(n, MaxLedger)

LedgerAdd(d, delta) ==
    granted' = [granted EXCEPT ![d] = [k \in Dims |-> Bounded(@[k] + delta[k])]]

Minus(amount) == [k \in Dims |-> 0 - amount[k]]

------------------------------------------------------------------------------
Init ==
    /\ status = [d \in Donations |-> "none"]
    /\ rewardActive = [d \in Donations |-> FALSE]
    /\ owner = [d \in Donations |-> NoToken]
    /\ reward = [d \in Donations |-> Nothing]
    /\ failureCount = [d \in Donations |-> 0]
    /\ allowed = [d \in Donations |-> 1]
    /\ domActive = [d \in Donations |-> FALSE]
    /\ domStatus = [d \in Donations |-> "none"]
    /\ issued = {}
    /\ limits = [t \in Tokens |-> Nothing]
    /\ granted = [d \in Donations |-> Nothing]
    /\ manual = [t \in Tokens |-> Nothing]
    /\ untold = [d \in Donations |-> FALSE]
    /\ dns \in [Donations -> BOOLEAN]
    /\ pc = [w \in Workers |-> "idle"]
    /\ target = [w \in Workers |-> NoClaim]
    /\ verdict = [w \in Workers |-> "none"]

LiveClaims(t) == {d \in Donations : owner[d] = t /\ status[d] # "revoked"}

\* CreateDonationRequest: the token is an existing one, whose row is locked
\* and whose claims are counted, or a new one without any quota.  A domain
\* that has a claim already is refused.
CreateDonationRequest(d, t) ==
    /\ \E limit \in DomainLimits : Cardinality(LiveClaims(t)) < limit
    /\ status[d] = "none"
    /\ \E p \in Policies : reward' = [reward EXCEPT ![d] = p]
    /\ status' = [status EXCEPT ![d] = "pending"]
    /\ owner' = [owner EXCEPT ![d] = t]
    /\ domStatus' = [domStatus EXCEPT ![d] = "pending"]
    /\ issued' = issued \cup {t}
    /\ UNCHANGED <<rewardActive, failureCount, allowed, domActive, limits, ledgerVars,
                   dns, workerVars>>

\* SetDonationRevoked(id, true): the ledger records the loss of a reward
\* only if there was one to lose.
RevokeDonation(d) ==
    /\ status[d] # "none"
    /\ status' = [status EXCEPT ![d] = "revoked"]
    /\ rewardActive' = [rewardActive EXCEPT ![d] = FALSE]
    /\ domActive' = [domActive EXCEPT ![d] = FALSE]
    /\ domStatus' = [domStatus EXCEPT ![d] = "disabled"]
    /\ IF rewardActive[d] THEN LedgerAdd(d, Minus(reward[d]))
                          ELSE UNCHANGED granted
    /\ UNCHANGED <<owner, reward, failureCount, allowed, issued, manual, untold, dns,
                   workerVars>>
    /\ RecalculateOwner(d)

\* SetDonationRevoked(id, false), the second step of a recheck.  It trusts
\* the status its caller read before: it neither looks at the row's status
\* nor records an event, so that a claim another recheck has brought back
\* meanwhile loses its reward without one.
LiftRevocation(w) ==
    \E d \in Donations :
    /\ pc[w] = "lift" /\ target[w] = d
    /\ pc' = [pc EXCEPT ![w] = "check"]
    /\ status' = [status EXCEPT ![d] = "inactive"]
    /\ rewardActive' = [rewardActive EXCEPT ![d] = FALSE]
    /\ failureCount' = [failureCount EXCEPT ![d] = 0]
    /\ domActive' = [domActive EXCEPT ![d] = FALSE]
    /\ domStatus' = [domStatus EXCEPT ![d] = "disabled"]
    /\ untold' = [untold EXCEPT ![d] = @ \/ rewardActive[d]]
    /\ UNCHANGED <<owner, reward, allowed, issued, granted, manual, dns>>
    /\ RecalculateOwner(d)
    /\ UNCHANGED <<target, verdict>>

AdjustDonationToken(t, delta) ==
    /\ t \in issued
    /\ delta # Nothing
    /\ \A k \in Dims : manual[t][k] + delta[k] \in -MaxManual..MaxManual
    /\ manual' = [manual EXCEPT ![t] = [k \in Dims |-> @[k] + delta[k]]]
    /\ UNCHANGED <<claimVars, domainVars, issued, granted, untold, dns, workerVars>>
    /\ Recalculate(t)

\* ApplyDonationPolicyToExisting: every claim that is not revoked takes the
\* reward of the saved settings, and each of their tokens is recalculated.
ApplyDonationPolicyToExisting(p) ==
    LET existing == {d \in Donations : status[d] \notin {"none", "revoked"}}
        touched == {owner[d] : d \in existing}
    IN  /\ reward' = [d \in Donations |-> IF d \in existing THEN p ELSE reward[d]]
        /\ granted' = [d \in Donations |->
                          IF d \in existing /\ rewardActive[d]
                          THEN [k \in Dims |-> Bounded(granted[d][k] + p[k] - reward[d][k])]
                          ELSE granted[d]]
        /\ UNCHANGED <<status, rewardActive, owner, failureCount, allowed, domainVars,
                       issued, manual, untold, dns, workerVars>>
        /\ \E cap \in [Tokens -> Caps] :
              limits' = [t \in Tokens |-> IF t \in touched
                                          THEN EffectiveLimits(t, cap[t])'
                                          ELSE limits[t]]

\* Without the CASE of the ON CONFLICT clause.
MXRegisterOverwriting(d) ==
    /\ domStatus[d] # "none"
    /\ domStatus' = [domStatus EXCEPT ![d] = "pending"]
    /\ domActive' = [domActive EXCEPT ![d] = FALSE]
    /\ UNCHANGED <<claimVars, tokenVars, ledgerVars, dns, workerVars>>

\* MXRegister of a domain whose row exists already, when its MX does not
\* match yet: AddDomainPending's ON CONFLICT clause.
MXRegisterExisting(d) ==
    /\ domStatus[d] # "none"
    /\ domStatus' = [domStatus EXCEPT ![d] = IF @ = "active" THEN @ ELSE "pending"]
    /\ domActive' = [domActive EXCEPT ![d] = domStatus[d] = "active"]
    /\ UNCHANGED <<claimVars, tokenVars, ledgerVars, dns, workerVars>>

------------------------------------------------------------------------------
(* The checks in progress *)

StartAt(w, d, step) ==
    /\ pc[w] = "idle"
    /\ pc' = [pc EXCEPT ![w] = step]
    /\ target' = [target EXCEPT ![w] = d]
    /\ UNCHANGED <<claimVars, domainVars, tokenVars, ledgerVars, dns, verdict>>

\* A tick that lists the wrong claims: those that earn only, those that do not only.
VerifierTickOfEarning(w, d) == status[d] = "active" /\ StartAt(w, d, "check")
VerifierTickOfPending(w, d) == status[d] = "pending" /\ StartAt(w, d, "check")

\* The verifier's tick takes a claim from ListDueDonations, which leaves the
\* revoked ones out.
VerifierTick(w, d) ==
    /\ status[d] \notin {"none", "revoked"}
    /\ StartAt(w, d, "check")

\* The donor polls the claim: any status is checked again after ten seconds.
PublicStatus(w, d) ==
    /\ status[d] # "none"
    /\ StartAt(w, d, "check")

\* The administrator's recheck first reads the status.
RecheckDonation(w, d) ==
    /\ status[d] # "none"
    /\ StartAt(w, d, IF status[d] = "revoked" THEN "lift" ELSE "check")

\* CheckDonationRecords: a resolver may fail for a while whatever the records say.
CheckDonationRecords(w) ==
    /\ pc[w] = "check"
    /\ \E v \in {IF dns[target[w]] THEN "valid" ELSE "invalid", "transient"} :
          verdict' = [verdict EXCEPT ![w] = v]
    /\ pc' = [pc EXCEPT ![w] = "apply"]
    /\ UNCHANGED <<claimVars, domainVars, tokenVars, ledgerVars, dns, target>>

Finish(w) ==
    /\ pc' = [pc EXCEPT ![w] = "idle"]
    /\ verdict' = [verdict EXCEPT ![w] = "none"]
    /\ target' = [target EXCEPT ![w] = NoClaim]

\* A revoked claim takes no verdict: the transaction is rolled back.
RefuseRevoked(d) ==
    /\ status[d] = "revoked"
    /\ UNCHANGED <<claimVars, domainVars, limits, granted>>

GrantAgain(d) == LedgerAdd(d, reward[d])

\* Only a claim that does not earn yet is granted its reward.
Grant(d) == IF rewardActive[d] THEN UNCHANGED granted ELSE LedgerAdd(d, reward[d])

Activate(d) ==
    /\ status' = [status EXCEPT ![d] = "active"]
    /\ rewardActive' = [rewardActive EXCEPT ![d] = TRUE]
    /\ failureCount' = [failureCount EXCEPT ![d] = 0]
    /\ allowed' = [allowed EXCEPT ![d] = 1]
    /\ domActive' = [domActive EXCEPT ![d] = TRUE]
    /\ domStatus' = [domStatus EXCEPT ![d] = "active"]
    /\ Grant(d)

Deactivate(d) ==
    /\ status' = [status EXCEPT ![d] = "inactive"]
    /\ rewardActive' = [rewardActive EXCEPT ![d] = FALSE]
    /\ failureCount' = [failureCount EXCEPT ![d] = @ + 1]
    /\ domActive' = [domActive EXCEPT ![d] = FALSE]
    /\ domStatus' = [domStatus EXCEPT ![d] = "disabled"]
    /\ LedgerAdd(d, Minus(reward[d]))
    /\ UNCHANGED allowed

\* The failure count of a claim without a reward is only displayed, so it is
\* kept up to MaxTolerance.
CountFailure(d, tolerance) ==
    /\ failureCount' = [failureCount EXCEPT ![d] = Smaller(@ + 1, MaxTolerance)]
    /\ allowed' = [allowed EXCEPT ![d] = IF rewardActive[d] THEN tolerance ELSE @]
    /\ UNCHANGED <<status, rewardActive, domainVars, granted>>

\* Compares the count without this failure.
LosesRewardLate(d, v, tolerance) ==
    /\ rewardActive[d]
    /\ v = "invalid" \/ failureCount[d] >= tolerance

\* Whether a failed check costs the claim its reward.
LosesReward(d, v, tolerance) ==
    /\ rewardActive[d]
    /\ v = "invalid" \/ failureCount[d] + 1 >= tolerance

\* The setting is read by this check: an administrator may have changed it since
\* the failures before, which stay counted.
RecordFailure(d, v) ==
    \E tolerance \in Tolerances :
       IF LosesReward(d, v, tolerance) THEN Deactivate(d) ELSE CountFailure(d, tolerance)

\* Without the early return for a revoked claim.
RecordVerdictAnyway(d, v) ==
    /\ IF v = "valid" THEN Activate(d) ELSE RecordFailure(d, v)
    /\ UNCHANGED <<owner, reward, issued, manual>>
    /\ RecalculateOwner(d)

RecordVerdict(d, v) ==
    /\ status[d] # "revoked"
    /\ IF v = "valid" THEN Activate(d) ELSE RecordFailure(d, v)
    /\ UNCHANGED <<owner, reward, issued, manual>>
    /\ RecalculateOwner(d)

ApplyDonationVerification(w) ==
    /\ pc[w] = "apply"
    /\ UNCHANGED <<issued, manual, untold, dns>>
    /\ \E d \in Donations :
          /\ target[w] = d
          /\ RefuseRevoked(d) \/ RecordVerdict(d, verdict[w])
    /\ Finish(w)

\* The donor edits the zone.
DnsChanges(d) ==
    /\ dns' = [dns EXCEPT ![d] = ~@]
    /\ UNCHANGED <<claimVars, domainVars, tokenVars, ledgerVars, workerVars>>

------------------------------------------------------------------------------
WorkerStep(w) ==
    \/ \E d \in Donations : VerifierTick(w, d)
    \/ \E d \in Donations : PublicStatus(w, d)
    \/ \E d \in Donations : RecheckDonation(w, d)
    \/ LiftRevocation(w)
    \/ CheckDonationRecords(w)
    \/ ApplyDonationVerification(w)

Next ==
    \/ \E w \in Workers : WorkerStep(w)
    \/ \E d \in Donations, t \in Tokens : CreateDonationRequest(d, t)
    \/ \E d \in Donations : RevokeDonation(d)
    \/ \E t \in Tokens, delta \in Adjustments : AdjustDonationToken(t, delta)
    \/ \E p \in Policies : ApplyDonationPolicyToExisting(p)
    \/ \E d \in Donations : MXRegisterExisting(d)
    \/ \E d \in Donations : DnsChanges(d)

Spec == Init /\ [][Next]_vars

\* A request in progress goes on, the resolver does not fail for ever, and the
\* verifier, which takes the longest unchecked claims first, reaches each claim
\* again and again.  Nobody is obliged to poll, recheck or revoke.
Fairness ==
    /\ \A w \in Workers :
          /\ WF_vars(LiftRevocation(w))
          /\ WF_vars(CheckDonationRecords(w))
          /\ SF_vars(CheckDonationRecords(w) /\ verdict'[w] # "transient")
          /\ WF_vars(ApplyDonationVerification(w))
    /\ \A d \in Donations : SF_vars(\E w \in Workers : VerifierTick(w, d))

FairSpec == Spec /\ Fairness

------------------------------------------------------------------------------
(* Properties *)

\* Every column holds a value of its type; the quotas are natural numbers.
TypeOK ==
    /\ status \in [Donations -> ClaimStatus]
    /\ rewardActive \in [Donations -> BOOLEAN]
    /\ owner \in [Donations -> Tokens \cup {NoToken}]
    /\ reward \in [Donations -> [Dims -> 0..MaxReward]]
    /\ failureCount \in [Donations -> 0..MaxTolerance]
    /\ allowed \in [Donations -> 1..MaxTolerance]
    /\ domActive \in [Donations -> BOOLEAN]
    /\ domStatus \in [Donations -> DomainStatus]
    /\ issued \subseteq Tokens
    /\ limits \in [Tokens -> [Dims -> Nat]]
    /\ granted \in [Donations -> [Dims -> Int]]
    /\ manual \in [Tokens -> [Dims -> Int]]
    /\ untold \in [Donations -> BOOLEAN]
    /\ dns \in [Donations -> BOOLEAN]
    /\ pc \in [Workers -> {"idle", "lift", "check", "apply"}]
    /\ target \in [Workers -> Donations \cup {NoClaim}]
    /\ verdict \in [Workers -> Verdict]

\* A claim that earns has failed fewer checks in a row than were tolerated when
\* the last of them was judged: "临时解析错误累计到容忍次数后才失活"
\* (docs/domain-donation-rewards.md:84).  Verifier, polls and rechecks count the
\* failures between them, a success or a lifting must begin the count anew, and
\* the setting may be lowered between two failures; the claim then keeps its
\* reward until the next check, whatever was tolerated before.
EarnsWithinTolerance ==
    \A d \in Donations : rewardActive[d] => failureCount[d] < allowed[d]

\* The limits stored with a token are at all times what its claims and its
\* adjustments come to: "Token 的有效额度为所有 reward_active=true 域名额度之和,
\* 再叠加 manual_adjust" (docs/domain-donation-rewards.md:99).  Every transaction
\* that changes a summand must end in recalculateDonationTokenLockedTx, for the
\* right token.
QuotaMatchesGrants ==
    \A t \in Tokens : \E cap \in Caps : limits[t] = EffectiveLimits(t, cap)

\* A donated domain receives mail exactly while its claim earns: the domain
\* row follows the claim through verification, revocation, recheck and an
\* administrator who registers the same domain (docs/domain-donation-rewards.md:80-83).
DomainFollowsReward ==
    \A d \in Donations :
        /\ domActive[d] <=> rewardActive[d]
        /\ rewardActive[d] <=> status[d] = "active"
        /\ domStatus[d] = "active" <=> domActive[d]

\* What the events of a claim should add up to.
Earns(d) == IF rewardActive[d] THEN reward[d] ELSE Nothing

\* The events of a claim add up to what it earns now: nothing while it is not
\* active, its reward once while it is.  A grant recorded twice, or a loss not
\* recorded, breaks it ("验证成功会恢复同一笔额度，不重复发奖",
\* docs/domain-donation-rewards.md:85).
LedgerBalanced == \A d \in Donations : granted[d] = Earns(d)

\* However checks, polls, rechecks and revocations overlap, the events of a claim
\* fail to add up to what it earns only after one thing: a recheck has lifted a
\* claim that another had brought back, and taken its reward without an event
\* (api/store/donations.go:528).  Every other way to lose or regain a reward is
\* recorded once.
LedgerExplained ==
    \A d \in Donations : granted[d] = Earns(d) \/ untold[d]

\* A claim without a live recheck stays revoked: the verifier and the donor's
\* polls cannot bring it back, however old the answer they still hold
\* ("只有后台立即复检操作可以解除撤销", docs/domain-donation-rewards.md:83).
RevokedOnlyLifted ==
    [][\A d \in Donations :
         status[d] = "revoked" /\ status'[d] # "revoked"
            => \E w \in Workers : target[w] = d /\ pc[w] = "lift" /\ pc'[w] = "check"]_vars

\* Records that are gone for good cost the claim its reward for good, whatever
\* answers were in flight when they went: the late "valid" of a slow check is
\* corrected by a later one (api/store/donations.go:404-431).
LostDnsLosesReward ==
    \A d \in Donations : <>[](~dns[d]) => <>[](~rewardActive[d])

\* Records that stay right earn the reward of a claim that is not revoked, again
\* and again, however often resolver failures take it away
\* ("验证恢复后重新激活原额度", docs/domain-donation-rewards.md:76).
ProvenDnsEarns ==
    \A d \in Donations :
        <>[](dns[d] /\ status[d] \notin {"none", "revoked"}) => []<>rewardActive[d]

\* DNS decides in the end (api/main.go:395-424): both of the above.
VerificationDecides == LostDnsLosesReward /\ ProvenDnsEarns

==============================================================================
