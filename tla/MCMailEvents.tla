----------------------------- MODULE MCMailEvents -----------------------------
\* An instance of MailEvents for TLC: two channels of three, and a page or notifications.
\* A page has two mails to come, or one and that of another mailbox, while a server shuts
\* down, or one beside notifications that no channel wants.
EXTENDS MailEvents

TwoChannels == <<"generic", "discord">>
Start(at, past, channels, stopped) ==
    [page |-> at, past |-> past, config |-> channels, stopped |-> stopped]
PageOrNotices ==
    {Start("new", Alerts \cup {1, 4}, <<"off", "off">>, TRUE),
     Start("new", Alerts \cup {1, 2}, <<"off", "off">>, TRUE),
     Start("new", Alerts \cup {1, 2, 4}, <<"off", "off">>, FALSE),
     Start("left", {3, 4}, <<"on", "on">>, FALSE),
     Start("left", {3, 4}, <<"broken", "on">>, FALSE)}

==============================================================================
