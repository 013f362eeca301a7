\* Two checks in progress at once on two claims that may share a token; a cap that
\* comes and goes, an adjustment that takes more than one claim earns.
CONSTANTS
    Donations = {d1, d2}
    Tokens = {t1, t2}
    NoToken = NoToken
    NoClaim = NoClaim
    Workers = {w1, w2}
    MaxReward = 1
    Policies <- OnePolicy
    Caps = {0, 1}
    MaxTolerance = 1
    Tolerances = {1}
    DomainLimits = {2}
    Adjustments <- Withdrawal
    MaxManual = 2
    MaxLedger = 2
SYMMETRY ClaimSymmetry
SPECIFICATION Spec
INVARIANT DomainFollowsReward
INVARIANT LedgerExplained
INVARIANT QuotaMatchesGrants
PROPERTY RevokedOnlyLifted
