\* Three requests of an unlimited token; the answer of one commit may be lost, and
\* the database may fail for ever.
CONSTANTS
    unlimited = unlimited
    Requests = {r1, r2, r3}
    Tokens = {unlimited}
    TokenOf <- OneToken
    Unlimited = {unlimited}
    QueueCap = 1
    BatchSize = 2
    MaxUnknown = 1
SPECIFICATION FairSpec
INVARIANT StatsAddUp
INVARIANT UsageCounted
INVARIANT RowForEach
PROPERTY RecorderProceeds
