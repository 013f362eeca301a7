\* One mailbox, two mails, the retention loop and two requests, of which one only
\* sets keep_forever; one statement fails.
CONSTANTS
    c1 = c1
    c2 = c2
    Cleaner = Cleaner
    Addresses = {a1}
    Requests = {c1, c2}
    Does <- OtherSetsFlag
    MaxMails = 2
    MaxTime = 2
    TTL = {1}
    MaxKept = 1
    MaxFaults = 1
SPECIFICATION FairSpec
INVARIANT TypeOK
INVARIANT StateAgrees
INVARIANT FlagsAgree
PROPERTY DeletionsSpare
PROPERTY RetentionGoesOn
