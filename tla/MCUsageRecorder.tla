--------------------------- MODULE MCUsageRecorder ---------------------------
\* Instances of UsageRecorder for TLC.
EXTENDS UsageRecorder

CONSTANTS unlimited

OneToken == [r \in Requests |-> unlimited]

==============================================================================
