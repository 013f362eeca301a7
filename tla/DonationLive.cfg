\* The verifier and one more request on a claim whose settings change: two rewards, a
\* tolerance that is lowered and raised, a cap and an adjustment below zero.
CONSTANTS
    Donations = {d1}
    Tokens = {t1}
    NoToken = NoToken
    NoClaim = NoClaim
    Workers = {w1, w2}
    MaxReward = 2
    Policies <- SmallPolicies
    Caps = {0, 2}
    MaxTolerance = 3
    Tolerances = {1, 3}
    DomainLimits = {1}
    Adjustments <- SmallAdjustments
    MaxManual = 3
    MaxLedger = 2
SPECIFICATION FairSpec
INVARIANT EarnsWithinTolerance
INVARIANT QuotaMatchesGrants
PROPERTY VerificationDecides
