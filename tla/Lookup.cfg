\* One mailbox, three mails, a request that deletes mails or the mailbox, the retention
\* loop that trims, and one lookup at a time.
CONSTANTS
    c1 = c1
    Cleaner = Cleaner
    Addresses = {a1}
    Requests = {c1}
    Does <- DeletesOnly
    MaxMails = 3
    MaxTime = 0
    TTL = {0}
    MaxKept = 1
    MaxFaults = 0
SPECIFICATION LookupSpec
INVARIANT AnswerWasRight
