------------------------------- MODULE MCJoin -------------------------------
EXTENDS DareJoin

\* A machine comes back, with a request to come and maybe one served; a group grows.
StartAll == {<<"member", 0, 1>>, <<"member", 1, 1>>, <<"joined", 0, 1>>, <<"joined", 1, 1>>,
             <<"new", 0, 0>>}

\* A group grows, and there is a request to come.
StartGrow == {<<"new", 0, 1>>}

\* A machine that had joined six servers, and had helped to commit a request, comes back
\* before anybody has noticed.
StartAgain == {<<"joined", 1, 0>>}

\* Servers 0 to 2 have the request, 0 and 1 have seen the end of the RC handshake, and
\* while the machine recovers the leader brings nobody up to date.
InitAgain ==
    /\ Init
    /\ \A i \in Member : (end[i] = Len(log) <=> i <= 2) /\ (ctx[i].on <=> i <= 1)

NextAgain == Next /\ UNCHANGED log /\ \A i \in Member : end'[i] = end[i]

SpecAgain == InitAgain /\ [][NextAgain]_vars
=============================================================================
