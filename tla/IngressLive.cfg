\* Two connections, one worker, one slot, one message: answers, deliveries and the
\* shutdown come in the end.
CONSTANTS
    Messages = {m1}
    Sessions = {s1, s2}
    Workers = {w1}
    Jobs = {j1, j2, j3}
    QueueSize = 1
    NoMessage = NoMessage
    NoJob = NoJob
    MaxRestarts = 0
SPECIFICATION FairSpec
PROPERTY NobodyIsStuck
PROPERTY HandedOver
CHECK_DEADLOCK FALSE
