----------------------------- MODULE MCMailStore ------------------------------
\* Instances of MailStore for TLC.
EXTENDS MailStore

CONSTANTS c1, c2

\* One request does anything, the other only sets keep_forever.
OtherSetsFlag ==
    [r \in Requests |-> IF r = c2 THEN {"copy"} ELSE {"emails", "mailboxes", "copy", "batch"}]

==============================================================================
