\* Two rechecks of the same revoked claim.
CONSTANTS
    Donations = {d1}
    Tokens = {t1}
    NoToken = NoToken
    NoClaim = NoClaim
    Workers = {w1, w2}
    MaxReward = 2
    Policies <- OnePolicy
    Caps = {0}
    MaxTolerance = 1
    Tolerances = {1}
    DomainLimits = {1}
    Adjustments <- NoAdjustments
    MaxManual = 0
    MaxLedger = 2
SPECIFICATION Spec
INVARIANT LedgerBalanced
