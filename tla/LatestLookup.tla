----------------------------- MODULE LatestLookup -----------------------------
(***************************************************************************)
(* A request for the latest code of a mailbox (api/handler/tooling.go,     *)
(* api/store/tooling.go) while MailStore goes on.  It reads up to three    *)
(* times: the projection with the mail it names; the mails, if that mail   *)
(* is not in the mailbox; the mails again, if the code of the projection   *)
(* does not look like one.  Mailboxes and mails may go between the reads.  *)
(*                                                                         *)
(* One request is followed at a time: requests only read, and do not see   *)
(* each other.  Beside some definitions stands a mistaken form.            *)
(***************************************************************************)
EXTENDS MailStore

VARIABLES
    lookup,   \* the next read of the request
    address,  \* the mailbox it asks for
    row,      \* whether the row of mailboxes it found is still there
    answer,   \* the mail it answers with
    right     \* history: the answers that were right since it began

reading == <<lookup, address, row, answer, right>>
lookupVars == <<vars, reading>>

LookupStates == {"idle", "fallback", "check", "answered"}

LookupInit ==
    /\ Init
    /\ lookup = "idle"
    /\ address \in Addresses
    /\ row = FALSE
    /\ answer = NoMail
    /\ right = {}

------------------------------------------------------------------------------
(* The reads, each one statement *)

LookupLatestEmailScoped(a) == IF a \in mailboxes THEN Newest(ListEmails(a)) ELSE NoMail

LookupUnchecked(a) == IF a \in projected THEN latest[a] ELSE NoMail

\* The projection counts only while the mail it names is in the same mailbox.
LookupMailboxProjectionScoped(a) ==
    IF a \in projected /\ latest[a] \in ListEmails(a) THEN latest[a] ELSE NoMail

\* By the identifier of the mailbox: one that is made anew is another one.
GetLatestEmailForMailbox(a) == IF row THEN Newest(ListEmails(a)) ELSE NoMail

------------------------------------------------------------------------------
(* The request *)

\* A projection that an outdated snapshot wrote is right if its mail is stored.
\* Whether its code looks like one is not known here.
BeginLookup(a) ==
    LET p == LookupMailboxProjectionScoped(a) IN
    /\ lookup = "idle"
    /\ a \in mailboxes
    /\ lookup' \in IF p = NoMail THEN {"fallback"} ELSE {"answered", "check"}
    /\ address' = a
    /\ row' = TRUE
    /\ answer' = p
    /\ right' = IF p # NoMail /\ a \in raced THEN ListEmails(a) ELSE {LookupLatestEmailScoped(a)}
    /\ UNCHANGED vars

FallbackIsNone ==
    /\ lookup = "fallback"
    /\ lookup' = "answered"
    /\ UNCHANGED <<vars, address, row, answer, right>>

\* "no emails found" if there is none.
Fallback ==
    /\ lookup = "fallback"
    /\ lookup' = "answered"
    /\ answer' = GetLatestEmailForMailbox(address)
    /\ UNCHANGED <<vars, address, row, right>>

\* A mail that is found takes the place of the first one; otherwise the first is
\* answered without a code.
CheckCode ==
    /\ lookup = "check"
    /\ lookup' = "answered"
    /\ answer' \in {answer, GetLatestEmailForMailbox(address)} \ {NoMail}
    /\ UNCHANGED <<vars, address, row, right>>

\* The answer is sent, or a read failed.
EndLookup ==
    /\ lookup \in {"answered", "fallback"}
    /\ lookup' = "idle"
    /\ row' = FALSE
    /\ answer' = NoMail
    /\ right' = {}
    /\ UNCHANGED <<vars, address>>

\* A step of the rest of the system; what is the newest mail then is right as well.
StoreStep ==
    /\ Next
    /\ UNCHANGED <<lookup, address, answer>>
    /\ row' = (row /\ address \in mailboxes')
    /\ right' = IF lookup = "idle" THEN {} ELSE right \cup {LookupLatestEmailScoped(address)'}

LookupNext ==
    \/ \E a \in Addresses : BeginLookup(a)
    \/ Fallback \/ CheckCode \/ EndLookup
    \/ StoreStep

LookupSpec == LookupInit /\ [][LookupNext]_lookupVars

------------------------------------------------------------------------------
(* Properties *)

\* latest-code answers what /lookup/latest, which reads once, would have answered at
\* some moment of the request; a projection that an outdated snapshot wrote may only
\* make it answer with another mail that was stored then.  So it never answers with a
\* mail that was gone when it was asked, nor "no emails found" for a mailbox that had
\* one all the time (api/store/tooling.go:152-218, handler/tooling.go:191-242, 404-438).
AnswerWasRight == lookup = "answered" => answer \in right

==============================================================================
