---------------------------- MODULE MCLatestLookup ----------------------------
\* Instances of LatestLookup for TLC.
EXTENDS LatestLookup

CONSTANTS c1

DeletesOnly == [r \in Requests |-> {"emails", "mailboxes"}]

==============================================================================
