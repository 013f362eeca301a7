\* Two domains, one inside the other and also written with a dot; two rows of the table, two
\* requests beside deletions, a mailbox at the inner domain.
CONSTANTS
    Names <- WrittenNames
    Addresses <- InnerAddress
    MaxIds = 2
    MaxOrders = 2
    MaxMoves = 1
    MaxFaults = 1
SPECIFICATION FairSpec
INVARIANT TypeOK
INVARIANT ActiveIsVouched
INVARIANT MailboxesRooted
INVARIANT RoutesAgree
INVARIANT DisabledIsForgotten
PROPERTY VerdictsDrawn
CHECK_DEADLOCK FALSE
