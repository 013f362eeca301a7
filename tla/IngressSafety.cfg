\* Two connections, one worker, one slot; the process may die once.
CONSTANTS
    Messages = {m1, m2}
    Sessions = {s1, s2}
    Workers = {w1}
    Jobs = {j1, j2, j3}
    QueueSize = 1
    NoMessage = NoMessage
    NoJob = NoJob
    MaxRestarts = 1
SYMMETRY IngressSymmetry
SPECIFICATION Spec
INVARIANT JobsAccounted
INVARIANT SlotsConserved
PROPERTY HandoverSpec
CHECK_DEADLOCK FALSE
