------------------------------- MODULE MCEdge -------------------------------
\* Two browsers, two logins of two people, one request on its way.
EXTENDS Edge, TLC

\* Two users with different rights: one who may change everything but the
\* tenant's life, one who may change tasks.
TwoUsers == {<<"admin", "member">>}

Interchangeable ==
    Permutations(Browsers) \cup Permutations(Logins)
        \cup Permutations(Callbacks) \cup Permutations(Identities)
\* A request whose session is resolved and the logins still going on have
\* no state in common and cannot affect each other: only one order of them
\* is explored, the one in which the logins come to rest first.
LoginsAtRest ==
    (\E r \in Requests : requests[r].step \notin {"free", "session", "clear"}) =>
        /\ \A c \in Callbacks : callbacks[c].step \in {"idle", "done"}
        /\ \A l \in Logins : transactions[l] \in {"absent", "gone"}
=============================================================================
