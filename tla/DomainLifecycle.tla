---------------------------- MODULE DomainLifecycle ----------------------------
(***************************************************************************)
(* The pool of domains and what is routed by it: registration and          *)
(* administration (api/handler/domain.go, api/store/postgres.go), the loop *)
(* that verifies pending domains and looks again at active ones            *)
(* (api/main.go), the routing snapshot of the LMTP server                  *)
(* (api/ingress/server.go, api/store/ingress.go) and the creation of       *)
(* mailboxes (api/handler/mailbox.go).                                     *)
(*                                                                         *)
(* Between a list, the DNS lookup of one of its domains and the statement  *)
(* that depends on it anything may happen to the domain.  A list of active *)
(* domains from the cache is one that was made a little earlier.           *)
(*                                                                         *)
(* A name is the sequence of its labels, as it was written: "x." ends with *)
(* an empty one.  mx-register stores names with such outer dots, which     *)
(* some of the code trims and some does not.                               *)
(*                                                                         *)
(* Beside some definitions stands a mistaken form.                         *)
(***************************************************************************)
EXTENDS Naturals, FiniteSets, SequencesExt

CONSTANTS
    Names,        \* that may be written in the table domains
    Addresses,    \* the names after the @ of a mailbox
    MaxIds,       \* bound of the model: rows of domains ever made
    MaxOrders,    \* bound of the model: requests that change domains
    MaxMoves,     \* bound of the model: times an MX record is changed
    MaxFaults     \* bound of the model: failures of PostgreSQL

NoLabel == ""

\* strings.Trim(name, "."): without the empty labels at either end.
Trimmed(name) ==
    LET labels == {i \in DOMAIN name : name[i] # NoLabel} IN
    IF labels = {} THEN <<>> ELSE SubSeq(name, Min(labels), Max(labels))

\* No dot too many: what a mail is addressed to, what Create accepts of a caller, what a
\* host is called.
Clean(name) == \A i \in DOMAIN name : name[i] # NoLabel

ASSUME DomainAssumption ==
    /\ Names \cup Addresses \subseteq Seq(STRING) \ {<<>>}
    /\ \A name \in Names : Trimmed(name) \in Names \cup {<<>>}
    /\ MaxIds \in Nat /\ MaxOrders \in Nat /\ MaxMoves \in Nat /\ MaxFaults \in Nat

VARIABLES
    domains,      \* the table domains, by name
    nextId,
    mx,           \* the hosts whose MX records point at this server
    asked,        \* a request mx-register in progress
    loop,         \* the goroutine of the MX loops
    loading,      \* what LoadIngressSnapshot has read
    snapshot,     \* Server.snap
    inFlight,     \* a mail, or a request, that will make a mailbox
    mailboxes,    \* the domain_id of the mailbox at an address, 0 if there is none
    orders, moves, faults,
    vouched,      \* history: ids that may be active
    overtaken,    \* history: ids disabled while the loop was about to look at them
    late          \* history: snapshots stored since a domain was last active, up to two

tableVars == <<domains, nextId, orders, vouched, overtaken>>
routeVars == <<loading, snapshot>>
mailVars == <<inFlight, mailboxes>>
vars == <<tableVars, mx, asked, loop, routeVars, mailVars, moves, faults, late>>

Ids == 1..MaxIds
Hosts == {name \in Names : Clean(name)}
NoRow == [id |-> 0, status |-> "none", active |-> FALSE, donated |-> FALSE]
NoRequest == [name |-> <<>>, matched |-> FALSE]
NoMailbox == [by |-> "nobody", to |-> <<>>, id |-> 0]
Idle == [at |-> "idle", pass |-> "none", todo |-> {}, name |-> <<>>, id |-> 0, matched |-> FALSE]
NoRoutes == [name \in Names |-> 0]
Unread == [name \in Names |-> MaxIds + 1]

Row(id, status, donated) ==
    [id |-> id, status |-> status, active |-> status = "active", donated |-> donated]

Init ==
    /\ domains = [name \in Names |-> NoRow] /\ nextId = 1
    /\ mx \in SUBSET Hosts
    /\ asked = NoRequest
    /\ loop = Idle
    /\ loading = Unread /\ snapshot = NoRoutes
    /\ inFlight = NoMailbox
    /\ mailboxes = [to \in Addresses |-> 0]
    /\ orders = 0 /\ moves = 0 /\ faults = 0
    /\ vouched = {} /\ overtaken = {}
    /\ late = [id \in Ids |-> 2]

Exists(name) == domains[name].id # 0
Manual(name) == Exists(name) /\ ~domains[name].donated
ActiveIds == [name \in Names |-> IF domains[name].active THEN domains[name].id ELSE 0]
Holder(id) == {name \in Names : domains[name].id = id}
Fault == faults < MaxFaults /\ faults' = faults + 1

\* The loop has the domain in its list, or is looking at it.
InTheLoop(id) ==
    loop.pass = "pending" /\ (id = loop.id \/ \E entry \in loop.todo : entry[2] = id)

\* The row of name is written; whose it is, what vouches for it and since when it is
\* not active is kept up with.
Write(name, row, isVouched) ==
    /\ domains' = [domains EXCEPT ![name] = row]
    /\ vouched' = IF isVouched THEN vouched \cup {row.id} ELSE vouched \ {row.id}
    /\ overtaken' = IF ~row.active /\ row.status = "disabled" /\ InTheLoop(row.id)
                    THEN overtaken \cup {row.id} ELSE overtaken
    /\ late' = IF row.id # 0 /\ row.active THEN [late EXCEPT ![row.id] = 0] ELSE late

------------------------------------------------------------------------------
(* Registration: POST /console/v1/domains/mx-register *)

\* DNS takes one dot at the end for the root; there is no host of another name with outer
\* dots.  A lookup that fails is one made while the MX points elsewhere.
CheckDomainMX(name) == \E host \in mx : name \in {host, Append(host, NoLabel)}

MXRegister ==
    /\ asked = NoRequest
    /\ orders < MaxOrders
    /\ orders' = orders + 1
    /\ \E name \in Names : asked' = [name |-> name, matched |-> CheckDomainMX(name)]
    /\ UNCHANGED <<domains, nextId, vouched, overtaken, mx, loop, routeVars, mailVars,
                   moves, faults, late>>

NewRow(name, status, isDonated, isVouched) ==
    /\ nextId <= MaxIds
    /\ nextId' = nextId + 1
    /\ Write(name, Row(nextId, status, isDonated), isVouched)

\* There may be a row of that name by now; it is left as it is.
AddDomain ==
    /\ asked # NoRequest /\ asked.matched
    /\ IF Exists(asked.name)
       THEN UNCHANGED <<domains, nextId, vouched, overtaken, late>>
       ELSE NewRow(asked.name, "active", FALSE, TRUE)
    /\ asked' = NoRequest
    /\ UNCHANGED <<orders, mx, loop, routeVars, mailVars, moves, faults>>

AfterConflictUnlessDisabled(row) == IF row.status = "disabled" THEN "pending" ELSE "active"
\* The CASE of ON CONFLICT: what is active stays so.
AfterConflict(row) == IF row.status = "active" THEN "active" ELSE "pending"

AddDomainPending ==
    LET row == domains[asked.name] IN
    /\ asked # NoRequest /\ ~asked.matched
    /\ IF Exists(asked.name)
       THEN /\ Write(asked.name, Row(row.id, AfterConflict(row), row.donated),
                     row.id \in vouched)
            /\ UNCHANGED nextId
       ELSE NewRow(asked.name, "pending", FALSE, FALSE)
    /\ asked' = NoRequest
    /\ UNCHANGED <<orders, mx, loop, routeVars, mailVars, moves, faults>>

------------------------------------------------------------------------------
(* Administration and donations *)

Order ==
    /\ orders < MaxOrders
    /\ orders' = orders + 1
    /\ UNCHANGED <<mx, asked, loop, routeVars, mailVars, moves, faults>>

ToggleDomain(name, active) ==
    Write(name, [domains[name] EXCEPT !.status = IF active THEN "active" ELSE "disabled",
                                      !.active = active],
          active)

Toggle(name, active) ==
    /\ Order
    /\ Manual(name)
    /\ ToggleDomain(name, active)
    /\ UNCHANGED nextId

DeletableAlways(name) == TRUE
\* mailboxes.domain_id refers to domains: the DELETE fails while one does.
Deletable(name) == \A to \in Addresses : mailboxes[to] # domains[name].id

DeleteDomain(name) == Deletable(name) /\ domains' = [domains EXCEPT ![name] = NoRow]

Delete(name) ==
    /\ Manual(name)
    /\ DeleteDomain(name)
    /\ UNCHANGED <<nextId, orders, vouched, overtaken, mx, asked, loop, routeVars, mailVars,
                   moves, faults, late>>

\* The row of a donated domain, as the operations on its claim write it
\* (DonationRewards); its name is trimmed.
CreateDonationRequest(name) ==
    /\ Order
    /\ name = Trimmed(name)
    /\ ~Exists(name)
    /\ NewRow(name, "pending", TRUE, FALSE)

ApplyDonationVerification(name) ==
    /\ Order
    /\ Exists(name) /\ domains[name].donated
    /\ \E isGranted \in BOOLEAN :
          Write(name, Row(domains[name].id, IF isGranted THEN "active" ELSE "disabled", TRUE),
                isGranted)
    /\ UNCHANGED nextId

MoveMX(name) ==
    /\ moves < MaxMoves
    /\ moves' = moves + 1
    /\ mx' = (mx \ {name}) \cup ({name} \ mx)
    /\ UNCHANGED <<tableVars, asked, loop, routeVars, mailVars, faults, late>>

------------------------------------------------------------------------------
(* The MX loops *)

OfTheLoopAll(row) == TRUE
\* A donated domain has a verifier of its own.
OfTheLoop(row) == ~row.donated

Listed(P(_)) ==
    {<<name, domains[name].id>> : name \in {n \in Names : /\ Exists(n) /\ P(domains[n])
                                                          /\ OfTheLoop(domains[n])}}

BeginPass(pass, todo) ==
    /\ loop = Idle
    /\ todo # {}
    /\ loop' = [Idle EXCEPT !.at = "listed", !.pass = pass, !.todo = todo]
    /\ UNCHANGED <<tableVars, mx, asked, routeVars, mailVars, moves, faults, late>>

ListPendingDomains == BeginPass("pending", Listed(LAMBDA row : row.status = "pending"))
GetActiveDomains == BeginPass("recheck", Listed(LAMBDA row : row.active))

LookUp ==
    /\ loop.at = "listed"
    /\ \E entry \in loop.todo :
          /\ loop' = [loop EXCEPT !.at = "looked", !.todo = @ \ {entry}, !.name = entry[1],
                                  !.id = entry[2], !.matched = CheckDomainMX(entry[1])]
          /\ vouched' = IF /\ loop.pass = "pending" /\ CheckDomainMX(entry[1])
                           /\ domains[entry[1]] = Row(entry[2], "pending", FALSE)
                        THEN vouched \cup {entry[2]} ELSE vouched
    /\ UNCHANGED <<domains, nextId, orders, overtaken, mx, asked, routeVars, mailVars, moves,
                   faults, late>>

\* "break" for what needs no statement.
RemainingStops == IF loop.matched = (loop.pass = "recheck") THEN {} ELSE loop.todo
Remaining == loop.todo

NextOfPass ==
    loop' = IF Remaining = {} THEN Idle
            ELSE [Idle EXCEPT !.at = "listed", !.pass = loop.pass, !.todo = Remaining]

PromoteDomainToActive ==
    IF Holder(loop.id) = {} THEN UNCHANGED <<domains, vouched, overtaken, late>>
    ELSE \A name \in Holder(loop.id) :
            Write(name, [domains[name] EXCEPT !.status = "active", !.active = TRUE],
                  loop.id \in vouched)

DisabledHalf(row) == [row EXCEPT !.active = FALSE]
Disabled(row) == [row EXCEPT !.active = FALSE, !.status = "disabled"]

DisableDomainMX ==
    IF Holder(loop.id) = {} THEN UNCHANGED <<domains, vouched, overtaken, late>>
    ELSE \A name \in Holder(loop.id) :
            Write(name, Disabled(domains[name]), FALSE)

\* The row of that id is written, whatever has become of it.
Conclude ==
    /\ loop.at = "looked"
    /\ CASE loop.pass = "pending" /\ loop.matched -> PromoteDomainToActive
         [] loop.pass = "recheck" /\ ~loop.matched -> DisableDomainMX
         [] OTHER -> UNCHANGED <<domains, vouched, overtaken, late>>
    /\ NextOfPass
    /\ UNCHANGED <<nextId, orders, mx, asked, routeVars, mailVars, moves, faults>>

\* The error is logged, and the loop goes on.
ConcludeFails ==
    /\ loop.at = "looked"
    /\ Fault
    /\ NextOfPass
    /\ UNCHANGED <<tableVars, mx, asked, routeVars, mailVars, moves, late>>

------------------------------------------------------------------------------
(* The routing snapshot *)

LastReadAscending(names) ==
    CHOOSE name \in names : \A other \in names : Len(other) <= Len(name)
\* ORDER BY length(domain) DESC: of the rows of one name, the last is that with fewest
\* dots, and domainsByName keeps the last.
LastRead(names) == CHOOSE name \in names : \A other \in names : Len(name) <= Len(other)

ActiveAs(name) == {written \in Names : domains[written].active /\ Trimmed(written) = name}

\* What the statement reads, by trimmed name.
ActiveRoutes ==
    [name \in Names |->
        IF ActiveAs(name) = {} THEN 0 ELSE domains[LastRead(ActiveAs(name))].id]

LoadIngressSnapshot ==
    /\ loading = Unread
    /\ loading' = ActiveRoutes
    /\ UNCHANGED <<tableVars, mx, asked, loop, snapshot, mailVars, moves, faults, late>>

\* The fingerprint is for the log.
ReplacesIfNumberChanges ==
    Cardinality({n \in Names : loading[n] # 0}) # Cardinality({n \in Names : snapshot[n] # 0})
Replaces == TRUE

refreshSnapshot ==
    /\ loading # Unread
    /\ snapshot' = IF Replaces THEN loading ELSE snapshot
    /\ loading' = Unread
    /\ late' = [id \in Ids |-> IF \E name \in Holder(id) : domains[name].active THEN 0
                               ELSE IF late[id] < 2 THEN late[id] + 1 ELSE 2]
    /\ UNCHANGED <<tableVars, mx, asked, loop, mailVars, moves, faults>>

\* The snapshot stays as it is.
RefreshFails ==
    /\ loading # Unread
    /\ Fault
    /\ loading' = Unread
    /\ UNCHANGED <<tableVars, mx, asked, loop, snapshot, mailVars, moves, late>>

------------------------------------------------------------------------------
(* Mailboxes *)

Longest(names) ==
    CHOOSE name \in names : \A other \in names : Len(other) <= Len(name)

\* ResolveActiveMailboxDomain: the longest active domain, as it is written, that the name
\* ends with.
ResolveActiveMailboxDomain(to, ids) ==
    LET roots == {name \in Names : ids[name] # 0 /\ IsSuffix(name, to)} IN
    IF roots = {} THEN 0 ELSE ids[Longest(roots)]

\* From the name itself, label by label, to the most general name.
Candidates(to) == [i \in 1..Len(to) |-> SubSeq(to, i, Len(to))]

FirstFoundBackwards(found) == CHOOSE i \in found : \A j \in found : j <= i
FirstFound(found) == CHOOSE i \in found : \A j \in found : i <= j

resolveRecipient(to, routes) ==
    LET found == {i \in DOMAIN Candidates(to) : /\ Candidates(to)[i] \in Names
                                                /\ routes[Candidates(to)[i]] # 0} IN
    IF found = {} THEN 0 ELSE routes[Candidates(to)[FirstFound(found)]]

Resolved(by, to, id) ==
    /\ inFlight = NoMailbox
    /\ id # 0
    /\ inFlight' = [by |-> by, to |-> to, id |-> id]
    /\ UNCHANGED <<tableVars, mx, asked, loop, routeVars, mailboxes, moves, faults, late>>

\* splitAddress trims the dots of the recipient.
HandleRCPT(to) == Clean(to) /\ Resolved("lmtp", to, resolveRecipient(to, snapshot))

\* POST /console/v1/mailboxes and /api/v1/mailboxes, with a domain: mailboxDomainPattern
\* admits no outer dots.
Create(to) ==
    Clean(to) /\ Resolved("http", to, ResolveActiveMailboxDomain(to, ActiveIds))

\* Without one, any of the active domains, as it is written.
CreateAnywhere(to) == to \in Names /\ Resolved("http", to, ActiveIds[to])

\* A mail is stored in the mailbox that there is, or in a new one; a second mailbox at
\* an address, and one of a domain that is no more, are errors.
MakeMailbox ==
    /\ inFlight # NoMailbox
    /\ mailboxes' = IF mailboxes[inFlight.to] = 0 /\ Holder(inFlight.id) # {}
                    THEN [mailboxes EXCEPT ![inFlight.to] = inFlight.id] ELSE mailboxes
    /\ inFlight' = NoMailbox
    /\ UNCHANGED <<tableVars, mx, asked, loop, routeVars, moves, faults, late>>

\* By a user or because it has expired.
DeleteMailbox(to) ==
    /\ mailboxes[to] # 0
    /\ mailboxes' = [mailboxes EXCEPT ![to] = 0]
    /\ UNCHANGED <<tableVars, mx, asked, loop, routeVars, inFlight, moves, faults, late>>

------------------------------------------------------------------------------
RequestStep ==
    \/ MXRegister
    \/ AddDomain
    \/ AddDomainPending
    \/ \E name \in Names :
          \/ \E active \in BOOLEAN : Toggle(name, active)
          \/ Delete(name)
          \/ CreateDonationRequest(name)
          \/ ApplyDonationVerification(name)

LoopStep ==
    \/ ListPendingDomains
    \/ GetActiveDomains
    \/ LookUp
    \/ Conclude
    \/ ConcludeFails

RefreshStep == LoadIngressSnapshot \/ refreshSnapshot \/ RefreshFails

MailStep ==
    \/ \E to \in Addresses :
          HandleRCPT(to) \/ Create(to) \/ CreateAnywhere(to) \/ DeleteMailbox(to)
    \/ MakeMailbox

Next ==
    \/ RequestStep
    \/ LoopStep
    \/ RefreshStep
    \/ MailStep
    \/ \E name \in Hosts : MoveMX(name)

Spec == Init /\ [][Next]_vars

\* The loop works its lists off.  Its select takes either ticker again and again: the
\* one ticks every thirty seconds, the other every six hours.
FairSpec ==
    /\ Spec
    /\ WF_vars(LookUp \/ Conclude)
    /\ SF_vars(ListPendingDomains)
    /\ SF_vars(GetActiveDomains)

------------------------------------------------------------------------------
(* Properties *)

RowsOk ==
    \A name \in Names :
       LET row == domains[name] IN
       /\ row.id \in 0..(nextId - 1)
       /\ row.status \in {"none", "pending", "active", "disabled"}
       /\ row.active <=> row.status = "active"
       /\ row.id = 0 <=> row = NoRow
       /\ row.id # 0 => Holder(row.id) = {name}

\* Types; is_active and status, which eight statements write, agree
\* (api/store/postgres.go:118-349, donations.go:396-419).
TypeOK ==
    /\ nextId \in 1..(MaxIds + 1) /\ RowsOk
    /\ mx \subseteq Hosts
    /\ asked.name \in Names \cup {<<>>} /\ asked.matched \in BOOLEAN
    /\ loop.at \in {"idle", "listed", "looked"} /\ loop.id \in 0..MaxIds
    /\ loop.todo \subseteq Names \X Ids
    /\ loading \in [Names -> 0..(MaxIds + 1)] /\ snapshot \in [Names -> 0..MaxIds]
    /\ inFlight.id \in 0..MaxIds /\ mailboxes \in [Addresses -> 0..MaxIds]
    /\ orders \in 0..MaxOrders /\ moves \in 0..MaxMoves /\ faults \in 0..MaxFaults
    /\ vouched \cup overtaken \subseteq 0..MaxIds /\ late \in [Ids -> 0..2]

\* A domain is active because the administrator enabled it, its donation was granted, or
\* a lookup made while it was pending, and not donated, has found the MX; the only
\* others were disabled while the loop had them in hand (main.go:429-447).
ActiveIsVouched ==
    \A name \in Names :
       domains[name].active => domains[name].id \in vouched \cup overtaken

\* An address is at a domain: it ends with its name, outer dots aside.
IsAt(to, name) == IsSuffix(Trimmed(name), Trimmed(to))

\* Every mailbox is one of a domain that exists and that its address is at, though
\* domains go between the resolution of a recipient and the creation of its mailbox, and
\* come back with another id (sql/init.sql:50, ingress.go:123-138).
MailboxesRooted ==
    \A to \in Addresses :
       mailboxes[to] # 0 => \E name \in Holder(mailboxes[to]) : IsAt(to, name)

\* A domain known only by a name with outer dots.
OnlyDotted(id) ==
    \E name \in Holder(id) : Trimmed(name) # name /\ ~domains[Trimmed(name)].active

\* With the domains there are now, the LMTP server, which trims their names and walks over
\* the labels, and the handlers, which take them as they are written and look for the
\* longest, route alike (ingress.go:44-61, server.go:334-341, 758-787,
\* postgres.go:222-270): but that the server also knows the domains that are written with
\* outer dots only.  In particular such a row never takes the mail of the domain proper.
RoutesAgree ==
    \A to \in Addresses : Clean(to) =>
       LET routed == resolveRecipient(to, ActiveRoutes) IN
       routed = ResolveActiveMailboxDomain(to, ActiveIds) \/ OnlyDotted(routed)

\* Mail to a domain that is no longer active, or that is deleted, is refused from the
\* second snapshot on (server.go:306-365).
DisabledIsForgotten ==
    \A name \in Names : snapshot[name] # 0 => late[snapshot[name]] < 2

\* A domain whose MX points here is not left pending (main.go:429-453).
PendingGoes ==
    \A name \in Names :
       <>[]CheckDomainMX(name) => <>[](Manual(name) => domains[name].status # "pending")

\* A domain whose MX points elsewhere is not left active (main.go:455-478).
DeadGoes ==
    \A name \in Names :
       <>[]~CheckDomainMX(name) => <>[](Manual(name) => ~domains[name].active)

\* What DNS says of a domain is acted upon in the end (main.go:428-478): both of the above.
VerdictsDrawn == PendingGoes /\ DeadGoes

===============================================================================
