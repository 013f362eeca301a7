\* Either cache, two requests and an operation that is made twice.
CONSTANTS
    Readers = {r1, r2}
    Writers = {w1}
    NoReader = NoReader
    NoVersion = NoVersion
    Kinds = {"token", "domains"}
    MaxWrites = 2
SPECIFICATION FairSpec
INVARIANT TypeOK
INVARIANT NothingStale
PROPERTY CacheSettles
