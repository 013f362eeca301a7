\* Three requests across the end of two minutes and of a day, one change of the token
\* and one failure.
CONSTANTS
    Requests = {r1, r2, r3}
    Limits <- SomeLimits
    Defaults <- NoDefaults
    Kinds = {"standard", "donation"}
    PublicLimit = 1
    DayLength = 2
    MaxTime = 2
    MaxChanges = 1
    MaxFaults = 1
SYMMETRY QuotaSymmetry
SPECIFICATION Spec
INVARIANT TypeOK
INVARIANT LimitsHold
INVARIANT RefusedSpendsLess
PROPERTY RevokedServesNone
CHECK_DEADLOCK FALSE
