\* Three mails of the page's mailbox and one of another; buffers of one, lists of two.
CONSTANTS
    Mails = {1, 2, 3, 4}
    InBox = {1, 2, 3}
    Alerts = {a1}
    Channels <- TwoChannels
    Workers = {w1}
    Nothing = Nothing
    Starts <- PageOrNotices
    HubBuffer = 1
    QueueSize = 1
    MaxAttempts = 2
    PageSize = 2
    MaxConnections = 2
    MaxReads = 2
    MaxBreaks = 1
SPECIFICATION FairSpec
INVARIANT TypeOK
INVARIANT InboxComplete
INVARIANT DropsCounted
INVARIANT DeliveryReported
PROPERTY ServersEnd
CHECK_DEADLOCK FALSE
