---------------------------- MODULE MailHandover ----------------------------
(***************************************************************************)
(* What Postfix relies on when it hands a message to the LMTP ingress: it  *)
(* may drop its own copy once the message was accepted, because a row of   *)
(* the table emails holds it by then.  The same message may be stored more *)
(* than once, since a sender that got no answer sends it again.            *)
(***************************************************************************)
EXTENDS Naturals

CONSTANT Messages

VARIABLES
    mail,    \* who is responsible for a message: its sender, the server, nobody
    stored   \* how many rows hold it: none, one, more than one

Custody == {"held", "given", "bounced"}

\* Two rows count for all the larger numbers.
OneMore(n) == IF n = 0 THEN 1 ELSE 2

Init ==
    /\ mail = [m \in Messages |-> "held"]
    /\ stored = [m \in Messages |-> 0]

\* A late attempt may still store what its sender has long given elsewhere.
Store(m) ==
    /\ stored' = [stored EXCEPT ![m] = OneMore(@)]
    /\ UNCHANGED mail

Accept(m) ==
    /\ mail[m] = "held"
    /\ stored[m] > 0
    /\ mail' = [mail EXCEPT ![m] = "given"]
    /\ UNCHANGED stored

Bounce(m) ==
    /\ mail[m] = "held"
    /\ mail' = [mail EXCEPT ![m] = "bounced"]
    /\ UNCHANGED stored

Next == \E m \in Messages : Store(m) \/ Accept(m) \/ Bounce(m)

Spec == Init /\ [][Next]_<<mail, stored>>

==============================================================================
