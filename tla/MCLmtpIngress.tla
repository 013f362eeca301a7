--------------------------- MODULE MCLmtpIngress ---------------------------
\* Instances of LmtpIngress for TLC.
EXTENDS LmtpIngress, TLC

IngressSymmetry == Permutations(Messages) \cup Permutations(Sessions)
                       \cup Permutations(Workers) \cup Permutations(Jobs)

=============================================================================
