------------------------ MODULE MCDonationRewards ------------------------
\* Instances of DonationRewards for TLC.
EXTENDS DonationRewards, TLC

\* The settings before and after the administrator changes the reward: the
\* daily quota may be set to zero.
SmallPolicies == {[rpm |-> 1, daily |-> 0, total |-> 2],
                  [rpm |-> 2, daily |-> 1, total |-> 1]}

OnePolicy == {[rpm |-> 1, daily |-> 1, total |-> 1]}

\* One adjustment that gives and takes, and takes more than one claim earns.
SmallAdjustments == {[rpm |-> 1, daily |-> 0, total |-> -3]}

Withdrawal == {[rpm |-> 0, daily |-> 0, total |-> -2]}

NoAdjustments == {}

ClaimSymmetry == Permutations(Donations) \cup Permutations(Tokens)
                    \cup Permutations(Workers)

==========================================================================
