----------------------------- MODULE MCQuotaGate ------------------------------
\* Instances of QuotaGate for TLC.
EXTENDS QuotaGate, TLC

\* Tight in the minute, tight in the day, tight in total; and the reward of a
\* donation that is withdrawn.
SomeLimits == {[minute |-> 1, daily |-> 0, total |-> 2],
               [minute |-> 2, daily |-> 1, total |-> 1],
               [minute |-> 0, daily |-> 0, total |-> 0]}

NoDefaults == [minute |-> 0, daily |-> 0, total |-> 0]

QuotaSymmetry == Permutations(Requests)

==============================================================================
