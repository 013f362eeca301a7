-------------------------- MODULE MCDomainLifecycle ---------------------------
\* Instances of DomainLifecycle for TLC.
EXTENDS DomainLifecycle

\* x, a.x inside it, and a.x written with a dot at its end; a mailbox at a.x.
WrittenNames == {<<"x">>, <<"a", "x">>, <<"a", "x", "">>}
InnerAddress == {<<"a", "x">>}

==============================================================================
