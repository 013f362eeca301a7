------------------------ MODULE DonationRewardsProofs ------------------------
(***************************************************************************)
(* Theorems about DonationRewards, for any number of claims, tokens and    *)
(* checks in progress and any settings.                                    *)
(***************************************************************************)
EXTENDS DonationRewards, FiniteSetTheorems, TLAPS

------------------------------------------------------------------------------
(* Quota arithmetic *)

\* Any set of reward units is counted by a natural number.
LEMMA UnitsCounted ==
    ASSUME NEW S \in SUBSET (Donations \X (1..MaxReward))
    PROVE  Cardinality(S) \in Nat
<1>1. IsFiniteSet(Donations) /\ MaxReward \in Nat
    BY RewardAssumption
<1>2. IsFiniteSet(1..MaxReward)
    BY <1>1, FS_Interval
<1>3. IsFiniteSet(Donations \X (1..MaxReward))
    BY <1>1, <1>2, FS_Product
<1>. QED  BY <1>3, FS_Subset, FS_CardinalityType

\* A clamped and capped sum is natural.
LEMMA EffectiveLimitType ==
    ASSUME NEW k, NEW n \in Int, NEW cap \in Caps
    PROVE  EffectiveLimit(k, n, cap) \in Nat
<1>1. cap \in Nat
    BY RewardAssumption
<1>2. Clamp(n) \in Nat
    BY DEF Clamp
<1>. QED  BY <1>1, <1>2 DEF EffectiveLimit, Smaller

\* A ledger sum kept within its bound is an integer, and a reward is within it.
LEMMA BoundedType ==
    /\ \A n \in Int : Bounded(n) \in Int
    /\ \A n \in 0..MaxReward : Bounded(n) = n
BY RewardAssumption DEF Bounded, Smaller

\* Recalculated limits are natural numbers once the adjustments are integers.
LEMMA EffectiveType ==
    ASSUME NEW t, NEW cap \in Caps, manual'[t] \in [Dims -> Int]
    PROVE  EffectiveLimits(t, cap)' \in [Dims -> Nat]
<1>1. ASSUME NEW k \in Dims PROVE Earned(t, k)' \in Int
    <2>1. Units(t, k)' \in SUBSET (Donations \X (1..MaxReward))
        BY DEF Units
    <2>2. Cardinality(Units(t, k))' \in Nat
        BY <2>1, UnitsCounted
    <2>. QED  BY <2>2 DEF Earned
<1>. QED  BY <1>1, EffectiveLimitType DEF EffectiveLimits

\* A token none of whose summands changed has the same effective limits.
LEMMA EffectiveUnchanged ==
    ASSUME NEW t, NEW cap,
           \A k \in Dims : Units(t, k)' = Units(t, k),
           manual'[t] = manual[t]
    PROVE  EffectiveLimits(t, cap)' = EffectiveLimits(t, cap)
<1>1. ASSUME NEW k \in Dims PROVE Earned(t, k)' = Earned(t, k)
    BY DEF Earned
<1>. QED  BY <1>1 DEF EffectiveLimits

------------------------------------------------------------------------------
(* Type correctness *)

\* Recalculating a token writes natural numbers into its limits.
LEMMA RecalculateType ==
    ASSUME TypeOK, NEW t \in Tokens, Recalculate(t),
           manual' \in [Tokens -> [Dims -> Int]]
    PROVE  limits' \in [Tokens -> [Dims -> Nat]]
<1>1. PICK cap \in Caps : limits' = [limits EXCEPT ![t] = EffectiveLimits(t, cap)']
    BY DEF Recalculate
<1>2. EffectiveLimits(t, cap)' \in [Dims -> Nat]
    BY EffectiveType
<1>. QED  BY <1>1, <1>2 DEF TypeOK

\* An entry in the ledger keeps its sums integers.
LEMMA LedgerAddType ==
    ASSUME TypeOK, NEW d \in Donations, NEW delta \in [Dims -> Int], LedgerAdd(d, delta)
    PROVE  granted' \in [Donations -> [Dims -> Int]]
BY BoundedType DEF LedgerAdd, TypeOK

\* A verdict that is recorded activates the claim, takes its reward, or is a failure
\* that is only counted.
LEMMA VerdictRecorded ==
    ASSUME NEW d \in Donations, NEW v, RecordVerdict(d, v)
    PROVE  \/ Activate(d)
           \/ rewardActive[d] /\ Deactivate(d)
           \/ \E tolerance \in Tolerances :
                 CountFailure(d, tolerance) /\ ~LosesReward(d, v, tolerance)
BY DEF RecordVerdict, RecordFailure, LosesReward

\* It changes status and reward of no other claim.
LEMMA OthersKeep ==
    ASSUME TypeOK, NEW d \in Donations, NEW v, RecordVerdict(d, v)
    PROVE  \A e \in Donations \ {d} : /\ status'[e] = status[e]
                                      /\ rewardActive'[e] = rewardActive[e]
<1>1. CASE Activate(d)
    BY <1>1 DEF Activate, TypeOK
<1>2. CASE Deactivate(d)
    BY <1>2 DEF Deactivate, TypeOK
<1>. QED  BY <1>1, <1>2, VerdictRecorded DEF CountFailure

\* Every action keeps the types.
LEMMA TypeStep == TypeOK /\ EarnsWithinTolerance /\ [Next]_vars => TypeOK'
<1>. SUFFICES ASSUME TypeOK, EarnsWithinTolerance, [Next]_vars
              PROVE  TypeOK'
    OBVIOUS
<1>r. ASSUME NEW d \in Donations, RecalculateOwner(d), UNCHANGED manual
      PROVE  limits' \in [Tokens -> [Dims -> Nat]]
    <2>1. PICK t \in Tokens : Recalculate(t)
        BY <1>r DEF RecalculateOwner
    <2>2. manual' \in [Tokens -> [Dims -> Int]]
        BY <1>r DEF TypeOK
    <2>. QED  BY <2>1, <2>2, RecalculateType
<1>m. ASSUME NEW d \in Donations PROVE Minus(reward[d]) \in [Dims -> Int]
    BY RewardAssumption DEF TypeOK, Minus
<1>1. ASSUME NEW d \in Donations, NEW t \in Tokens, CreateDonationRequest(d, t)
      PROVE  TypeOK'
    BY <1>1, RewardAssumption
    DEF TypeOK, CreateDonationRequest, ClaimStatus, DomainStatus, ledgerVars, workerVars
<1>2. ASSUME NEW d \in Donations, RevokeDonation(d)
      PROVE  TypeOK'
    <2>1. limits' \in [Tokens -> [Dims -> Nat]]
        BY <1>2, <1>r DEF RevokeDonation
    <2>2. granted' \in [Donations -> [Dims -> Int]]
        BY <1>2, <1>m, LedgerAddType DEF RevokeDonation, TypeOK
    <2>. QED  BY <1>2, <2>1, <2>2
              DEF TypeOK, RevokeDonation, workerVars, ClaimStatus, DomainStatus
<1>3. ASSUME NEW w \in Workers, LiftRevocation(w)
      PROVE  TypeOK'
    <2>1. limits' \in [Tokens -> [Dims -> Nat]]
        BY <1>3, <1>r DEF LiftRevocation
    <2>. QED  BY <1>3, <2>1, RewardAssumption
              DEF TypeOK, LiftRevocation, ClaimStatus, DomainStatus
<1>4. ASSUME NEW t \in Tokens, NEW delta \in Adjustments, AdjustDonationToken(t, delta)
      PROVE  TypeOK'
    <2>1. manual' \in [Tokens -> [Dims -> Int]]
        BY <1>4, RewardAssumption DEF TypeOK, AdjustDonationToken
    <2>2. limits' \in [Tokens -> [Dims -> Nat]]
        BY <1>4, <2>1, RecalculateType DEF AdjustDonationToken
    <2>. QED  BY <1>4, <2>1, <2>2
              DEF TypeOK, AdjustDonationToken, claimVars, domainVars, workerVars
<1>5. ASSUME NEW p \in Policies, ApplyDonationPolicyToExisting(p)
      PROVE  TypeOK'
    <2>1. ASSUME NEW t \in Tokens, NEW cap \in Caps
          PROVE  EffectiveLimits(t, cap)' \in [Dims -> Nat]
        BY <1>5, EffectiveType DEF ApplyDonationPolicyToExisting, TypeOK
    <2>2. limits' \in [Tokens -> [Dims -> Nat]]
        BY <1>5, <2>1 DEF ApplyDonationPolicyToExisting, TypeOK
    <2>3. p \in [Dims -> 0..MaxReward]
        BY RewardAssumption
    <2>4. granted' \in [Donations -> [Dims -> Int]]
        <3>1. ASSUME NEW d \in Donations, NEW k \in Dims
              PROVE  Bounded(granted[d][k] + p[k] - reward[d][k]) \in Int
            <4>1. granted[d][k] \in Int /\ p[k] \in Int /\ reward[d][k] \in Int
                BY <2>3, RewardAssumption DEF TypeOK
            <4>. QED  BY <4>1, BoundedType
        <3>. QED  BY <1>5, <3>1 DEF ApplyDonationPolicyToExisting, TypeOK
    <2>5. reward' \in [Donations -> [Dims -> 0..MaxReward]]
        BY <1>5, <2>3 DEF ApplyDonationPolicyToExisting, TypeOK
    <2>. QED  BY <1>5, <2>2, <2>4, <2>5
              DEF TypeOK, ApplyDonationPolicyToExisting, domainVars, workerVars
<1>6. ASSUME NEW d \in Donations, MXRegisterExisting(d)
      PROVE  TypeOK'
    BY <1>6 DEF TypeOK, MXRegisterExisting, DomainStatus, claimVars, tokenVars,
                ledgerVars, workerVars
<1>7. ASSUME NEW w \in Workers, NEW d \in Donations,
             VerifierTick(w, d) \/ PublicStatus(w, d) \/ RecheckDonation(w, d)
      PROVE  TypeOK'
    BY <1>7 DEF TypeOK, VerifierTick, PublicStatus, RecheckDonation, StartAt,
                claimVars, domainVars, tokenVars, ledgerVars
<1>8. ASSUME NEW w \in Workers, CheckDonationRecords(w)
      PROVE  TypeOK'
    BY <1>8 DEF TypeOK, CheckDonationRecords, Verdict,
                claimVars, domainVars, tokenVars, ledgerVars
<1>9. ASSUME NEW w \in Workers, ApplyDonationVerification(w)
      PROVE  TypeOK'
    <2>1. PICK d \in Donations : RefuseRevoked(d) \/ RecordVerdict(d, verdict[w])
        BY <1>9 DEF ApplyDonationVerification
    <2>2. CASE RefuseRevoked(d)
        BY <1>9, <2>2 DEF TypeOK, ApplyDonationVerification, RefuseRevoked, Finish,
                          claimVars, domainVars, Verdict
    <2>3. CASE RecordVerdict(d, verdict[w])
        <3>1. limits' \in [Tokens -> [Dims -> Nat]]
            BY <1>9, <2>3, <1>r DEF RecordVerdict, ApplyDonationVerification
        <3>2. granted' \in [Donations -> [Dims -> Int]]
            <4>1. reward[d] \in [Dims -> Int]
                BY RewardAssumption DEF TypeOK
            <4>. QED  BY <2>3, <4>1, <1>m, LedgerAddType
                      DEF RecordVerdict, RecordFailure, Activate, Grant, Deactivate,
                          CountFailure, TypeOK
        <3>3. failureCount' \in [Donations -> 0..MaxTolerance]
            <4>1. failureCount[d] \in 0..MaxTolerance /\ MaxTolerance \in Nat \ {0}
                BY RewardAssumption DEF TypeOK
            <4>2. Smaller(failureCount[d] + 1, MaxTolerance) \in 0..MaxTolerance
                BY <4>1 DEF Smaller
            <4>3. rewardActive[d] => failureCount[d] + 1 \in 0..MaxTolerance
                <5>1. allowed[d] \in 1..MaxTolerance
                    BY DEF TypeOK
                <5>. QED  BY <4>1, <5>1 DEF EarnsWithinTolerance
            <4>4. 0 \in 0..MaxTolerance
                BY <4>1
            <4>. QED  BY <2>3, <4>2, <4>3, <4>4
                      DEF RecordVerdict, RecordFailure, LosesReward, Activate,
                          Deactivate, CountFailure, TypeOK
        <3>4. allowed' \in [Donations -> 1..MaxTolerance]
            <4>1. 1 \in 1..MaxTolerance /\ Tolerances \subseteq 1..MaxTolerance
                BY RewardAssumption
            <4>2. \/ allowed' = [allowed EXCEPT ![d] = 1]
                  \/ allowed' = allowed
                  \/ \E tolerance \in Tolerances : allowed' = [allowed EXCEPT ![d] = tolerance]
                BY <2>3, VerdictRecorded DEF Activate, Deactivate, CountFailure, TypeOK
            <4>. QED  BY <4>1, <4>2 DEF TypeOK
        <3>5. /\ status' \in [Donations -> ClaimStatus]
              /\ rewardActive' \in [Donations -> BOOLEAN]
              /\ domActive' \in [Donations -> BOOLEAN]
              /\ domStatus' \in [Donations -> DomainStatus]
            <4>1. CASE Activate(d)
                BY <4>1 DEF Activate, TypeOK, ClaimStatus, DomainStatus
            <4>2. CASE Deactivate(d)
                BY <4>2 DEF Deactivate, TypeOK, ClaimStatus, DomainStatus
            <4>3. CASE UNCHANGED <<status, rewardActive, domainVars>>
                BY <4>3 DEF TypeOK, domainVars
            <4>. QED  BY <2>3, <4>1, <4>2, <4>3, VerdictRecorded DEF CountFailure
        <3>6. UNCHANGED <<owner, reward, issued, manual, untold, dns>>
            BY <1>9, <2>3 DEF ApplyDonationVerification, RecordVerdict
        <3>7. /\ pc' \in [Workers -> {"idle", "lift", "check", "apply"}]
              /\ target' \in [Workers -> Donations \cup {NoClaim}]
              /\ verdict' \in [Workers -> Verdict]
            BY <1>9 DEF ApplyDonationVerification, Finish, TypeOK, Verdict
        <3>. QED  BY <3>1, <3>2, <3>3, <3>4, <3>5, <3>6, <3>7 DEF TypeOK
    <2>. QED  BY <2>1, <2>2, <2>3
<1>10. ASSUME NEW d \in Donations, DnsChanges(d)
       PROVE  TypeOK'
    BY <1>10 DEF TypeOK, DnsChanges, claimVars, domainVars, tokenVars, ledgerVars, workerVars
<1>11. CASE UNCHANGED vars
    BY <1>11 DEF TypeOK, vars, claimVars, domainVars, tokenVars, ledgerVars, workerVars
<1>. QED
    BY <1>1, <1>2, <1>3, <1>4, <1>5, <1>6, <1>7, <1>8, <1>9, <1>10, <1>11
    DEF Next, WorkerStep

------------------------------------------------------------------------------
(* The failures an active claim has survived *)

\* Every action keeps an earning claim below what was tolerated.
LEMMA ToleranceStep ==
    TypeOK /\ EarnsWithinTolerance /\ [Next]_vars => EarnsWithinTolerance'
<1>. SUFFICES ASSUME TypeOK, EarnsWithinTolerance, [Next]_vars,
                     NEW e \in Donations, rewardActive'[e]
              PROVE  failureCount'[e] < allowed'[e]
    BY DEF EarnsWithinTolerance
<1>u. ASSUME UNCHANGED <<rewardActive, failureCount, allowed>>
      PROVE  failureCount'[e] < allowed'[e]
    BY <1>u DEF EarnsWithinTolerance
<1>1. ASSUME NEW d \in Donations, RevokeDonation(d)
      PROVE  failureCount'[e] < allowed'[e]
    BY <1>1 DEF RevokeDonation, EarnsWithinTolerance, TypeOK
<1>2. ASSUME NEW w \in Workers, LiftRevocation(w)
      PROVE  failureCount'[e] < allowed'[e]
    BY <1>2 DEF LiftRevocation, EarnsWithinTolerance, TypeOK
<1>3. ASSUME NEW w \in Workers, ApplyDonationVerification(w)
      PROVE  failureCount'[e] < allowed'[e]
    <2>1. PICK d \in Donations : RefuseRevoked(d) \/ RecordVerdict(d, verdict[w])
        BY <1>3 DEF ApplyDonationVerification
    <2>2. CASE RefuseRevoked(d)
        BY <2>2, <1>u DEF RefuseRevoked, claimVars
    <2>3. CASE RecordVerdict(d, verdict[w])
        <3>1. CASE Activate(d)
            BY <3>1 DEF Activate, EarnsWithinTolerance, TypeOK
        <3>2. CASE Deactivate(d)
            BY <3>2 DEF Deactivate, EarnsWithinTolerance, TypeOK
        <3>3. ASSUME NEW tolerance \in Tolerances,
                     CountFailure(d, tolerance), ~LosesReward(d, verdict[w], tolerance)
              PROVE  failureCount'[e] < allowed'[e]
            <4>1. /\ failureCount[d] \in Nat /\ failureCount[d] + 1 \in Nat
                  /\ tolerance \in 1..MaxTolerance /\ MaxTolerance \in Nat
                BY RewardAssumption DEF TypeOK
            <4>2. rewardActive[d] => Smaller(failureCount[d] + 1, MaxTolerance) < tolerance
                BY <3>3, <4>1 DEF LosesReward, Smaller
            <4>. QED  BY <3>3, <4>2 DEF CountFailure, EarnsWithinTolerance, TypeOK
        <3>. QED  BY <2>3, <3>1, <3>2, <3>3, VerdictRecorded
    <2>. QED  BY <2>1, <2>2, <2>3
<1>. QED
    BY <1>1, <1>2, <1>3, <1>u
    DEF Next, WorkerStep, CreateDonationRequest, AdjustDonationToken,
        ApplyDonationPolicyToExisting, MXRegisterExisting, VerifierTick, PublicStatus,
        RecheckDonation, StartAt, CheckDonationRecords, DnsChanges, vars, claimVars

\* The tables are empty and nobody is at work at first.
LEMMA InitTyped == Init => TypeOK /\ EarnsWithinTolerance
BY RewardAssumption
DEF Init, TypeOK, EarnsWithinTolerance, Nothing, ClaimStatus, DomainStatus, Verdict, Dims

\* In every reachable state every column holds a value of its type and the
\* quotas are natural numbers (api/store/donations.go).
THEOREM TypeCorrect == Spec => []TypeOK
BY InitTyped, TypeStep, ToleranceStep, PTL DEF Spec

\* A claim that earns has failed fewer checks in a row than were tolerated when the
\* last of them was judged, whatever the setting is changed to between two checks
\* (ApplyDonationVerification, api/store/donations.go:404-431).
THEOREM ToleranceKept == Spec => []EarnsWithinTolerance
BY InitTyped, TypeStep, ToleranceStep, PTL DEF Spec

------------------------------------------------------------------------------
(* The domain row follows the claim *)

\* Every action changes the domain row together with the claim.
LEMMA DomainStep ==
    TypeOK /\ DomainFollowsReward /\ [Next]_vars => DomainFollowsReward'
<1>. SUFFICES ASSUME TypeOK, DomainFollowsReward, [Next]_vars,
                     NEW e \in Donations
              PROVE  /\ domActive'[e] <=> rewardActive'[e]
                     /\ rewardActive'[e] <=> status'[e] = "active"
                     /\ domStatus'[e] = "active" <=> domActive'[e]
    BY DEF DomainFollowsReward
<1>. DEFINE Follows == /\ domActive'[e] <=> rewardActive'[e]
                       /\ rewardActive'[e] <=> status'[e] = "active"
                       /\ domStatus'[e] = "active" <=> domActive'[e]
<1>u. ASSUME UNCHANGED <<status, rewardActive, domActive, domStatus>>
      PROVE  Follows
    BY <1>u DEF DomainFollowsReward
<1>1. ASSUME NEW d \in Donations, NEW t \in Tokens, CreateDonationRequest(d, t)
      PROVE  Follows
    BY <1>1 DEF CreateDonationRequest, DomainFollowsReward, TypeOK
<1>2. ASSUME NEW d \in Donations, RevokeDonation(d)
      PROVE  Follows
    BY <1>2 DEF RevokeDonation, DomainFollowsReward, TypeOK
<1>3. ASSUME NEW w \in Workers, LiftRevocation(w)
      PROVE  Follows
    BY <1>3 DEF LiftRevocation, DomainFollowsReward, TypeOK
<1>4. ASSUME NEW w \in Workers, ApplyDonationVerification(w)
      PROVE  Follows
    <2>1. PICK d \in Donations : RefuseRevoked(d) \/ RecordVerdict(d, verdict[w])
        BY <1>4 DEF ApplyDonationVerification
    <2>2. CASE RefuseRevoked(d)
        BY <2>2, <1>u DEF RefuseRevoked, claimVars, domainVars
    <2>3. CASE RecordVerdict(d, verdict[w])
        <3>1. CASE Activate(d)
            BY <3>1 DEF Activate, DomainFollowsReward, TypeOK
        <3>2. CASE Deactivate(d)
            BY <3>2 DEF Deactivate, DomainFollowsReward, TypeOK
        <3>3. CASE UNCHANGED <<status, rewardActive, domActive, domStatus>>
            BY <3>3, <1>u
        <3>. QED  BY <2>3, <3>1, <3>2, <3>3, VerdictRecorded DEF CountFailure, domainVars
    <2>. QED  BY <2>1, <2>2, <2>3
<1>5. ASSUME NEW d \in Donations, MXRegisterExisting(d)
      PROVE  Follows
    BY <1>5 DEF MXRegisterExisting, claimVars, DomainFollowsReward, TypeOK
<1>. QED
    BY <1>1, <1>2, <1>3, <1>4, <1>5, <1>u
    DEF Next, WorkerStep, AdjustDonationToken, ApplyDonationPolicyToExisting,
        VerifierTick, PublicStatus, RecheckDonation, StartAt, CheckDonationRecords,
        DnsChanges, vars, claimVars, domainVars

\* No domain has a row at first.
LEMMA InitDomain == Init => DomainFollowsReward
BY DEF Init, DomainFollowsReward

\* A donated domain is in the pool of active domains exactly while its claim
\* earns, whatever checks, revocations and registrations interleave
\* (api/store/donations.go:389-592, api/store/postgres.go:133-148).
THEOREM DomainsFollow == Spec => []DomainFollowsReward
BY InitTyped, InitDomain, TypeStep, ToleranceStep, DomainStep, PTL DEF Spec

------------------------------------------------------------------------------
(* The stored limits are what the claims and adjustments come to *)

\* Recalculating one token is enough when no other token's summands changed.
LEMMA RecalculateEnough ==
    ASSUME TypeOK, QuotaMatchesGrants, NEW t \in Tokens, Recalculate(t),
           \A s \in Tokens \ {t} : /\ manual'[s] = manual[s]
                                   /\ \A k \in Dims : Units(s, k)' = Units(s, k)
    PROVE  QuotaMatchesGrants'
<1>. SUFFICES ASSUME NEW s \in Tokens
              PROVE  \E cap \in Caps : limits'[s] = EffectiveLimits(s, cap)'
    BY DEF QuotaMatchesGrants
<1>1. PICK c \in Caps : limits' = [limits EXCEPT ![t] = EffectiveLimits(t, c)']
    BY DEF Recalculate
<1>2. CASE s = t
    BY <1>1, <1>2 DEF TypeOK
<1>3. CASE s # t
    <2>1. PICK cap \in Caps : limits[s] = EffectiveLimits(s, cap)
        BY DEF QuotaMatchesGrants
    <2>2. EffectiveLimits(s, cap)' = EffectiveLimits(s, cap)
        BY <1>3, EffectiveUnchanged
    <2>3. limits'[s] = limits[s]
        BY <1>1, <1>3 DEF TypeOK
    <2>. QED  BY <2>1, <2>2, <2>3
<1>. QED  BY <1>2, <1>3

\* A step that changes the claim d alone changes no summand of another token.
LEMMA OtherTokensKeep ==
    ASSUME TypeOK, NEW d \in Donations, NEW s \in Tokens, owner[d] # s,
           owner' = owner, reward' = reward,
           \A e \in Donations \ {d} : rewardActive'[e] = rewardActive[e]
    PROVE  \A k \in Dims : Units(s, k)' = Units(s, k)
BY DEF Units

\* Recalculating the owner of the only claim that changed keeps every token right.
LEMMA OwnerRecalculated ==
    ASSUME TypeOK, QuotaMatchesGrants, NEW d \in Donations, RecalculateOwner(d),
           owner' = owner, reward' = reward, manual' = manual,
           \A e \in Donations \ {d} : rewardActive'[e] = rewardActive[e]
    PROVE  QuotaMatchesGrants'
<1>1. PICK t \in Tokens : t = owner[d] /\ Recalculate(t)
    BY DEF RecalculateOwner
<1>2. \A s \in Tokens \ {t} : \A k \in Dims : Units(s, k)' = Units(s, k)
    BY <1>1, OtherTokensKeep
<1>. QED  BY <1>1, <1>2, RecalculateEnough

\* A step that leaves limits and every summand alone keeps every token right.
LEMMA NothingRecalculated ==
    ASSUME QuotaMatchesGrants, limits' = limits, manual' = manual,
           \A s \in Tokens : \A k \in Dims : Units(s, k)' = Units(s, k)
    PROVE  QuotaMatchesGrants'
BY EffectiveUnchanged DEF QuotaMatchesGrants

\* Every action leaves every token's limits equal to what its summands come to.
LEMMA QuotaStep ==
    TypeOK /\ DomainFollowsReward /\ QuotaMatchesGrants /\ [Next]_vars
        => QuotaMatchesGrants'
<1>. SUFFICES ASSUME TypeOK, DomainFollowsReward, QuotaMatchesGrants, [Next]_vars
              PROVE  QuotaMatchesGrants'
    OBVIOUS
<1>u. ASSUME UNCHANGED <<owner, rewardActive, reward, manual, limits>>
      PROVE  QuotaMatchesGrants'
    BY <1>u, NothingRecalculated DEF Units
<1>1. ASSUME NEW d \in Donations, NEW t \in Tokens, CreateDonationRequest(d, t)
      PROVE  QuotaMatchesGrants'
    <2>1. ~rewardActive[d]
        BY <1>1 DEF CreateDonationRequest, DomainFollowsReward
    <2>2. \A s \in Tokens : \A k \in Dims : Units(s, k)' = Units(s, k)
        BY <1>1, <2>1 DEF CreateDonationRequest, Units, TypeOK
    <2>. QED  BY <1>1, <2>2, NothingRecalculated DEF CreateDonationRequest, ledgerVars
<1>2. ASSUME NEW d \in Donations, RevokeDonation(d)
      PROVE  QuotaMatchesGrants'
    BY <1>2, OwnerRecalculated DEF RevokeDonation, TypeOK
<1>3. ASSUME NEW w \in Workers, LiftRevocation(w)
      PROVE  QuotaMatchesGrants'
    BY <1>3, OwnerRecalculated DEF LiftRevocation, TypeOK
<1>4. ASSUME NEW t \in Tokens, NEW delta \in Adjustments, AdjustDonationToken(t, delta)
      PROVE  QuotaMatchesGrants'
    <2>1. \A s \in Tokens \ {t} : /\ manual'[s] = manual[s]
                                 /\ \A k \in Dims : Units(s, k)' = Units(s, k)
        BY <1>4 DEF AdjustDonationToken, claimVars, Units, TypeOK
    <2>. QED  BY <1>4, <2>1, RecalculateEnough DEF AdjustDonationToken
<1>5. ASSUME NEW p \in Policies, ApplyDonationPolicyToExisting(p)
      PROVE  QuotaMatchesGrants'
    <2>. DEFINE existing == {d \in Donations : status[d] \notin {"none", "revoked"}}
                touched == {owner[d] : d \in existing}
    <2>1. PICK cap \in [Tokens -> Caps] :
             limits' = [t \in Tokens |-> IF t \in touched
                                         THEN EffectiveLimits(t, cap[t])'
                                         ELSE limits[t]]
        BY <1>5 DEF ApplyDonationPolicyToExisting
    <2>2. ASSUME NEW s \in Tokens, s \notin touched
          PROVE  \E c \in Caps : limits'[s] = EffectiveLimits(s, c)'
        <3>1. \A d \in Donations : owner[d] = s => reward'[d] = reward[d]
            BY <1>5, <2>2 DEF ApplyDonationPolicyToExisting
        <3>2. \A k \in Dims : Units(s, k)' = Units(s, k)
            BY <1>5, <3>1 DEF ApplyDonationPolicyToExisting, Units
        <3>3. PICK c \in Caps : limits[s] = EffectiveLimits(s, c)
            BY DEF QuotaMatchesGrants
        <3>4. EffectiveLimits(s, c)' = EffectiveLimits(s, c)
            BY <1>5, <3>2, EffectiveUnchanged DEF ApplyDonationPolicyToExisting
        <3>. QED  BY <2>1, <2>2, <3>3, <3>4
    <2>3. ASSUME NEW s \in Tokens, s \in touched
          PROVE  \E c \in Caps : limits'[s] = EffectiveLimits(s, c)'
        BY <2>1, <2>3
    <2>. QED  BY <2>2, <2>3 DEF QuotaMatchesGrants
<1>6. ASSUME NEW w \in Workers, ApplyDonationVerification(w)
      PROVE  QuotaMatchesGrants'
    <2>1. PICK d \in Donations : RefuseRevoked(d) \/ RecordVerdict(d, verdict[w])
        BY <1>6 DEF ApplyDonationVerification
    <2>2. CASE RefuseRevoked(d)
        BY <1>6, <2>2, <1>u DEF ApplyDonationVerification, RefuseRevoked, claimVars
    <2>3. CASE RecordVerdict(d, verdict[w])
        <3>1. \A e \in Donations \ {d} : rewardActive'[e] = rewardActive[e]
            BY <2>3, OthersKeep
        <3>. QED  BY <2>3, <3>1, OwnerRecalculated DEF RecordVerdict
    <2>. QED  BY <2>1, <2>2, <2>3
<1>. QED
    BY <1>1, <1>2, <1>3, <1>4, <1>5, <1>6, <1>u
    DEF Next, WorkerStep, MXRegisterExisting, VerifierTick, PublicStatus,
        RecheckDonation, StartAt, CheckDonationRecords, DnsChanges,
        vars, claimVars, tokenVars, ledgerVars

\* Nothing is earned at first, and nothing is what the limits say.
LEMMA InitQuota == Init => QuotaMatchesGrants
<1>. SUFFICES ASSUME Init, NEW t \in Tokens
              PROVE  \E cap \in Caps : limits[t] = EffectiveLimits(t, cap)
    BY DEF QuotaMatchesGrants
<1>1. PICK cap \in Caps : cap \in Nat
    BY RewardAssumption
<1>2. ASSUME NEW k \in Dims PROVE Earned(t, k) = 0
    <2>1. Units(t, k) = {}
        BY DEF Init, Units
    <2>2. Cardinality({}) = 0
        BY FS_EmptySet
    <2>3. manual[t][k] = 0
        BY DEF Init, Nothing
    <2>. QED  BY <2>1, <2>2, <2>3 DEF Earned
<1>3. \A k \in Dims : EffectiveLimit(k, 0, cap) = 0
    BY <1>1 DEF EffectiveLimit, Clamp, Smaller
<1>4. EffectiveLimits(t, cap) = [k \in Dims |-> 0]
    BY <1>2, <1>3 DEF EffectiveLimits
<1>. QED  BY <1>4 DEF Init, Nothing

\* The limits stored with a token always equal the sum of its active rewards and
\* of its adjustments, clamped and capped, for any interleaving of checks,
\* revocations, adjustments and policy changes
\* (recalculateDonationTokenLockedTx, api/store/donations.go:463-506).
THEOREM QuotaAlwaysMatches == Spec => []QuotaMatchesGrants
BY InitTyped, InitDomain, InitQuota, TypeStep, ToleranceStep, DomainStep, QuotaStep, PTL
DEF Spec

------------------------------------------------------------------------------
(* The ledger *)

\* Every action keeps events and rewards in balance, or is the lifting that takes a
\* reward without an event.
LEMMA LedgerStep ==
    TypeOK /\ DomainFollowsReward /\ LedgerExplained /\ [Next]_vars => LedgerExplained'
<1>. SUFFICES ASSUME TypeOK, DomainFollowsReward, LedgerExplained, [Next]_vars
              PROVE  LedgerExplained'
    OBVIOUS
<1>. USE DEF Earns
<1>a. \A d \in Donations : reward[d] \in [Dims -> 0..MaxReward]
    BY DEF TypeOK
<1>n. MaxReward \in Nat
    BY RewardAssumption
<1>z. ASSUME NEW d \in Donations, LedgerAdd(d, Minus(reward[d])), granted[d] = reward[d]
      PROVE  granted'[d] = Nothing
    <2>1. \A k \in Dims : Bounded(reward[d][k] + (0 - reward[d][k])) = 0
        <3>. SUFFICES ASSUME NEW k \in Dims
                      PROVE  Bounded(reward[d][k] + (0 - reward[d][k])) = 0
            OBVIOUS
        <3>1. reward[d][k] \in Int /\ reward[d][k] + (0 - reward[d][k]) = 0
            BY <1>a, <1>n
        <3>. QED  BY <3>1, <1>n, BoundedType
    <2>. QED  BY <1>z, <2>1 DEF LedgerAdd, Minus, Nothing, TypeOK
<1>p. ASSUME NEW d \in Donations, LedgerAdd(d, reward[d]), granted[d] = Nothing
      PROVE  granted'[d] = reward[d]
    <2>1. \A k \in Dims : Bounded(0 + reward[d][k]) = reward[d][k]
        <3>. SUFFICES ASSUME NEW k \in Dims
                      PROVE  Bounded(0 + reward[d][k]) = reward[d][k]
            OBVIOUS
        <3>1. reward[d][k] \in 0..MaxReward /\ 0 + reward[d][k] = reward[d][k]
            BY <1>a, <1>n
        <3>. QED  BY <3>1, BoundedType
    <2>. QED  BY <1>a, <1>p, <2>1 DEF LedgerAdd, Nothing, TypeOK
<1>o. ASSUME NEW d \in Donations, NEW delta, LedgerAdd(d, delta)
      PROVE  \A e \in Donations \ {d} : granted'[e] = granted[e]
    BY <1>o DEF LedgerAdd, TypeOK
<1>1. ASSUME NEW d \in Donations, NEW t \in Tokens, CreateDonationRequest(d, t)
      PROVE  LedgerExplained'
    <2>1. ~rewardActive[d]
        BY <1>1 DEF CreateDonationRequest, DomainFollowsReward
    <2>. QED  BY <1>1, <2>1 DEF CreateDonationRequest, LedgerExplained, TypeOK, ledgerVars
<1>2. ASSUME NEW d \in Donations, RevokeDonation(d)
      PROVE  LedgerExplained'
    BY <1>2, <1>z, <1>o DEF RevokeDonation, LedgerExplained, TypeOK
<1>3. ASSUME NEW w \in Workers, LiftRevocation(w)
      PROVE  LedgerExplained'
    <2>1. PICK d \in Donations :
             /\ rewardActive' = [rewardActive EXCEPT ![d] = FALSE]
             /\ untold' = [untold EXCEPT ![d] = @ \/ rewardActive[d]]
             /\ UNCHANGED <<reward, granted>>
        BY <1>3 DEF LiftRevocation
    <2>2. granted'[d] = Nothing \/ untold'[d]
        BY <2>1 DEF LedgerExplained, TypeOK
    <2>. QED  BY <2>1, <2>2 DEF LedgerExplained, TypeOK
<1>4. ASSUME NEW p \in Policies, ApplyDonationPolicyToExisting(p)
      PROVE  LedgerExplained'
    <2>1. p \in [Dims -> 0..MaxReward]
        BY RewardAssumption
    <2>2. ASSUME NEW d \in Donations, rewardActive[d], granted[d] = reward[d]
          PROVE  granted'[d] = p /\ reward'[d] = p
        <3>1. status[d] = "active"
            BY <2>2 DEF DomainFollowsReward
        <3>2. \A k \in Dims : Bounded(reward[d][k] + p[k] - reward[d][k]) = p[k]
            <4>. SUFFICES ASSUME NEW k \in Dims
                          PROVE  Bounded(reward[d][k] + p[k] - reward[d][k]) = p[k]
                OBVIOUS
            <4>1. reward[d][k] \in Int /\ p[k] \in 0..MaxReward
                BY <1>a, <1>n, <2>1
            <4>2. reward[d][k] + p[k] - reward[d][k] = p[k]
                BY <4>1, <1>n
            <4>. QED  BY <4>1, <4>2, BoundedType
        <3>3. granted'[d] = [k \in Dims |-> Bounded(granted[d][k] + p[k] - reward[d][k])]
            BY <1>4, <2>2, <3>1 DEF ApplyDonationPolicyToExisting
        <3>. QED  BY <1>4, <2>1, <2>2, <3>1, <3>2, <3>3 DEF ApplyDonationPolicyToExisting
    <2>3. ASSUME NEW d \in Donations, ~rewardActive[d]
          PROVE  granted'[d] = granted[d]
        BY <1>4, <2>3 DEF ApplyDonationPolicyToExisting
    <2>. QED  BY <1>4, <2>2, <2>3 DEF ApplyDonationPolicyToExisting, LedgerExplained
<1>5. ASSUME NEW w \in Workers, ApplyDonationVerification(w)
      PROVE  LedgerExplained'
    <2>1. PICK d \in Donations : RefuseRevoked(d) \/ RecordVerdict(d, verdict[w])
        BY <1>5 DEF ApplyDonationVerification
    <2>2. untold' = untold
        BY <1>5 DEF ApplyDonationVerification
    <2>3. CASE RefuseRevoked(d)
        BY <2>2, <2>3 DEF RefuseRevoked, claimVars, LedgerExplained
    <2>4. CASE RecordVerdict(d, verdict[w])
        <3>1. CASE Activate(d)
            <4>1. rewardActive'[d] /\ (granted'[d] = reward[d] \/ untold[d])
                BY <3>1, <1>p DEF Activate, Grant, LedgerExplained, TypeOK
            <4>2. \A e \in Donations \ {d} : /\ rewardActive'[e] = rewardActive[e]
                                            /\ granted'[e] = granted[e]
                BY <3>1, <1>o DEF Activate, Grant, TypeOK
            <4>. QED  BY <2>2, <2>4, <4>1, <4>2 DEF RecordVerdict, LedgerExplained
        <3>2. CASE rewardActive[d] /\ Deactivate(d)
            <4>1. ~rewardActive'[d] /\ (granted'[d] = Nothing \/ untold[d])
                BY <3>2, <1>z DEF Deactivate, LedgerExplained, TypeOK
            <4>2. \A e \in Donations \ {d} : /\ rewardActive'[e] = rewardActive[e]
                                            /\ granted'[e] = granted[e]
                BY <3>2, <1>o DEF Deactivate, TypeOK
            <4>. QED  BY <2>2, <2>4, <4>1, <4>2 DEF RecordVerdict, LedgerExplained
        <3>3. CASE UNCHANGED <<rewardActive, granted>>
            BY <2>2, <2>4, <3>3 DEF RecordVerdict, LedgerExplained
        <3>. QED  BY <2>4, <3>1, <3>2, <3>3, VerdictRecorded DEF CountFailure
    <2>. QED  BY <2>1, <2>3, <2>4
<1>6. ASSUME UNCHANGED <<claimVars, granted, untold>>
      PROVE  LedgerExplained'
    BY <1>6 DEF claimVars, LedgerExplained
<1>. QED
    BY <1>1, <1>2, <1>3, <1>4, <1>5, <1>6
    DEF Next, WorkerStep, AdjustDonationToken, MXRegisterExisting, VerifierTick,
        PublicStatus, RecheckDonation, StartAt, CheckDonationRecords, DnsChanges,
        vars, ledgerVars

\* For any number of checks, polls and rechecks that overlap, the events of a claim
\* add up to what it earns unless a recheck has lifted it while it earned: that is
\* the only way to lose the account of it (donation_reward_events,
\* api/store/donations.go:398-437, 507-592).
THEOREM LedgerAlwaysExplained == Spec => []LedgerExplained
<1>1. Init => LedgerExplained
    BY DEF Init, LedgerExplained, Earns
<1>. QED
    BY <1>1, InitTyped, InitDomain, TypeStep, ToleranceStep, DomainStep, LedgerStep, PTL
    DEF Spec

------------------------------------------------------------------------------
(* Revoked claims, whatever checks are in progress *)

\* The workers that lift the revocation of d in this step.
Lifters(d) == {w \in Workers : target[w] = d /\ pc[w] = "lift" /\ pc'[w] = "check"}

\* No verdict and no other operation changes the status of a revoked claim.
LEMMA RevokedStep ==
    ASSUME TypeOK, [Next]_vars, NEW d \in Donations,
           status[d] = "revoked", status'[d] # "revoked"
    PROVE  Lifters(d) # {}
<1>1. ASSUME NEW e \in Donations, NEW t \in Tokens, CreateDonationRequest(e, t)
      PROVE  FALSE
    BY <1>1 DEF CreateDonationRequest, TypeOK
<1>2. ASSUME NEW e \in Donations, RevokeDonation(e)
      PROVE  FALSE
    BY <1>2 DEF RevokeDonation, TypeOK
<1>3. ASSUME NEW w \in Workers, LiftRevocation(w)
      PROVE  w \in Lifters(d)
    <2>1. PICK e \in Donations :
             /\ pc[w] = "lift" /\ target[w] = e
             /\ pc' = [pc EXCEPT ![w] = "check"]
             /\ status' = [status EXCEPT ![e] = "inactive"]
        BY <1>3 DEF LiftRevocation
    <2>2. e = d
        BY <2>1 DEF TypeOK
    <2>. QED  BY <2>1, <2>2 DEF Lifters, TypeOK
<1>4. ASSUME NEW w \in Workers, ApplyDonationVerification(w)
      PROVE  FALSE
    <2>1. PICK e \in Donations : RefuseRevoked(e) \/ RecordVerdict(e, verdict[w])
        BY <1>4 DEF ApplyDonationVerification
    <2>2. CASE RefuseRevoked(e)
        BY <2>2 DEF RefuseRevoked, claimVars
    <2>3. CASE RecordVerdict(e, verdict[w])
        <3>1. status[e] # "revoked"
            BY <2>3 DEF RecordVerdict
        <3>2. \A f \in Donations \ {e} : status'[f] = status[f]
            BY <2>3, OthersKeep
        <3>. QED  BY <3>1, <3>2
    <2>. QED  BY <2>1, <2>2, <2>3
<1>5. ASSUME UNCHANGED status
      PROVE  FALSE
    BY <1>5
<1>. QED
    BY <1>1, <1>2, <1>3, <1>4, <1>5
    DEF Next, WorkerStep, AdjustDonationToken, ApplyDonationPolicyToExisting,
        MXRegisterExisting, VerifierTick, PublicStatus, RecheckDonation, StartAt,
        CheckDonationRecords, DnsChanges, vars, claimVars

\* Only an administrator's recheck brings a revoked claim back, for any number of
\* checks in progress and however old their answers are
\* (SetDonationRevoked, api/store/donations.go:507-592).
THEOREM RevokedStaysRevoked == Spec => RevokedOnlyLifted
<1>1. TypeOK /\ [Next]_vars
         => [\A d \in Donations :
               status[d] = "revoked" /\ status'[d] # "revoked"
                 => \E w \in Workers : target[w] = d /\ pc[w] = "lift" /\ pc'[w] = "check"]_vars
    BY RevokedStep DEF Lifters
<1>. QED
    BY <1>1, InitTyped, TypeStep, ToleranceStep, PTL DEF Spec, RevokedOnlyLifted

==============================================================================
