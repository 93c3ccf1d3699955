------------------------------ MODULE Sessions ------------------------------
(***************************************************************************)
(* Browser logins and sessions: the authentication routes of api-bff and   *)
(* the identity-access service behind them.                                *)
(*                                                                         *)
(* A login is an OIDC authorization-code flow.  Its state, browser         *)
(* binding, nonce and PKCE verifier are fresh random tokens, so the name   *)
(* of the login stands for all four; the callback that completes a login   *)
(* likewise names the session id and the CSRF token it draws.  A callback  *)
(* runs in the steps between which others may run: the transaction is      *)
(* taken, the code is exchanged, the user is resolved in one database      *)
(* transaction, the session is stored, and the answer sets the cookies.    *)
(* Several tabs, and several browsers, run at the same time.               *)
(*                                                                         *)
(* The lifetimes of Redis keys are abstract: an entry is fresh, then past  *)
(* its expiry but still stored, then evicted.                              *)
(***************************************************************************)
EXTENDS Naturals, FiniteSets

CONSTANTS
    Browsers,     \* browsers, each with one cookie jar
    Logins,       \* login attempts
    Callbacks,    \* requests to the callback route, and their sessions
    Identities    \* people, as the identity provider knows them

None == "none"

ASSUME SessionsAssumption ==
    /\ None \notin Logins \cup Callbacks \cup Identities \cup Browsers
    /\ IsFiniteSet(Callbacks)

Users == 1 .. Cardinality(Callbacks)        \* iam_users rows, in order

Entries == {"absent", "fresh", "expired", "gone"}
Steps == {"idle", "take", "exchange", "find", "save", "put", "answer", "done"}

VARIABLES
    transactions,  \* Redis: the login transactions
    sessions,      \* Redis: the sessions and the user of each
    codes,         \* the provider: who authenticated, if the code is unused
    jar,           \* the cookies of each browser
    callbacks,     \* the callback requests
    identityUser,  \* iam_external_identities: the user of each identity
    users,         \* iam_users: how many rows there are
    locked,        \* the advisory locks of open ResolveUser transactions
    begunIn,       \* history: the browser that began the login
    provedBy       \* history: the identity that authenticated in it

loginVars == <<transactions, codes, begunIn, provedBy>>
storeVars == <<identityUser, users, locked>>
sessionVars == <<loginVars, storeVars, sessions, jar, callbacks>>

NoCookies == [transaction |-> None, session |-> None]
NoSession == [entry |-> "absent", user |-> 0]
IdleCallback == [step |-> "idle", browser |-> None, state |-> None,
                 code |-> None, binding |-> None, identity |-> None,
                 user |-> 0, ok |-> FALSE]

SessionsTypeOK ==
    /\ transactions \in [Logins -> Entries]
    /\ sessions \in [Callbacks -> [entry : Entries, user : Users \cup {0}]]
    /\ codes \in [Logins -> Identities \cup {None}]
    /\ jar \in [Browsers -> [transaction : Logins \cup {None},
                             session : Callbacks \cup {None}]]
    /\ callbacks \in [Callbacks ->
          [step : Steps, browser : Browsers \cup {None},
           state : Logins \cup {None}, code : Logins \cup {None},
           binding : Logins \cup {None}, identity : Identities \cup {None},
           user : Users \cup {0}, ok : BOOLEAN]]
    /\ identityUser \in [Identities -> Users \cup {0}]
    /\ users \in Users \cup {0}
    /\ locked \in [Identities -> Callbacks \cup {None}]
    /\ begunIn \in [Logins -> Browsers \cup {None}]
    /\ provedBy \in [Logins -> Identities \cup {None}]

SessionsInit ==
    /\ transactions = [l \in Logins |-> "absent"]
    /\ sessions = [c \in Callbacks |-> NoSession]
    /\ codes = [l \in Logins |-> None]
    /\ jar = [b \in Browsers |-> NoCookies]
    /\ callbacks = [c \in Callbacks |-> IdleCallback]
    /\ identityUser = [i \in Identities |-> 0]
    /\ users = 0
    /\ locked = [i \in Identities |-> None]
    /\ begunIn = [l \in Logins |-> None]
    /\ provedBy = [l \in Logins |-> None]

(***************************************************************************)
(* Cookies.                                                                *)
(***************************************************************************)
setTransactionCookie(b, l) == [jar EXCEPT ![b].transaction = l]

clearTransactionCookie(cookies, b) == [cookies EXCEPT ![b].transaction = None]

\* The session cookie and the CSRF cookie are always set and cleared
\* together, so one entry of the jar stands for both.
setSessionCookies(cookies, b, c) == [cookies EXCEPT ![b].session = c]

clearSessionCookies(cookies, b) == [cookies EXCEPT ![b].session = None]

(***************************************************************************)
(* GET /v1/auth/login.  The provider is external: it authenticates the     *)
(* person at the browser it was redirected from and issues one code, bound *)
(* to the login's nonce and PKCE challenge.                                *)
(***************************************************************************)
PutTransaction(l) == transactions' = [transactions EXCEPT ![l] = "fresh"]

BeginLogin(l) ==
    /\ transactions[l] = "absent"
    /\ PutTransaction(l)

beginLogin(b, l) ==
    /\ BeginLogin(l)
    /\ jar' = setTransactionCookie(b, l)
    /\ begunIn' = [begunIn EXCEPT ![l] = b]
    /\ UNCHANGED <<sessions, codes, callbacks, storeVars, provedBy>>

Authenticate(l, i) ==
    /\ begunIn[l] # None
    /\ provedBy[l] = None
    /\ codes' = [codes EXCEPT ![l] = i]
    /\ provedBy' = [provedBy EXCEPT ![l] = i]
    /\ UNCHANGED <<transactions, sessions, jar, callbacks, storeVars, begunIn>>

(***************************************************************************)
(* GET /v1/auth/callback.  The URL carries a state and a code; a browser   *)
(* may follow it late, twice, or without having begun the login.           *)
(***************************************************************************)
completeLogin(c, b, l, k) ==
    /\ callbacks[c].step = "idle"
    /\ begunIn[l] # None /\ provedBy[k] # None
    /\ jar[b].transaction # None
    /\ callbacks' = [callbacks EXCEPT ![c] =
          [IdleCallback EXCEPT !.step = "take", !.browser = b, !.state = l,
                               !.code = k, !.binding = jar[b].transaction]]
    /\ UNCHANGED <<loginVars, storeVars, sessions, jar>>

Advance(c, step) == callbacks' = [callbacks EXCEPT ![c].step = step]

\* Mutant: the browser binding is not compared.
AnyBinding(c) == TRUE

BindingMatches(c) == callbacks[c].binding = callbacks[c].state

TakeTransaction(l) ==
    transactions' = [transactions EXCEPT
        ![l] = IF @ \in {"fresh", "expired"} THEN "gone" ELSE @]

\* The transaction is consumed first and checked afterwards.
Take(c) ==
    LET l == callbacks[c].state IN
    /\ callbacks[c].step = "take"
    /\ TakeTransaction(l)
    /\ Advance(c, IF transactions[l] = "fresh" /\ BindingMatches(c)
                  THEN "exchange" ELSE "answer")
    /\ UNCHANGED <<codes, begunIn, provedBy, storeVars, sessions, jar>>

\* The provider honours a code once; the verifier and the nonce are those
\* of the transaction, the code's those of the login it was issued for.
Exchange(c) ==
    LET k == callbacks[c].code
        good == codes[k] # None /\ k = callbacks[c].state
    IN
    /\ callbacks[c].step = "exchange"
    /\ callbacks' = [callbacks EXCEPT
          ![c].step = IF good THEN "find" ELSE "answer",
          ![c].identity = IF good THEN codes[k] ELSE None]
    /\ codes' = [codes EXCEPT ![k] = None]
    /\ UNCHANGED <<transactions, begunIn, provedBy, storeVars, sessions, jar>>

\* Mutant: the transaction does not take the advisory lock.
FindWithoutLock(c) ==
    LET i == callbacks[c].identity IN
    /\ callbacks[c].step = "find"
    /\ callbacks' = [callbacks EXCEPT ![c].step = "save",
                                      ![c].user = identityUser[i]]
    /\ UNCHANGED <<loginVars, storeVars, sessions, jar>>

\* ResolveUser: the lock on issuer and subject, then findUser.  It looks for
\* active users only; nothing in the program ever disables one.
ResolveUser(c) ==
    LET i == callbacks[c].identity IN
    /\ callbacks[c].step = "find"
    /\ locked[i] = None
    /\ locked' = [locked EXCEPT ![i] = c]
    /\ callbacks' = [callbacks EXCEPT ![c].step = "save",
                                      ![c].user = identityUser[i]]
    /\ UNCHANGED <<loginVars, identityUser, users, sessions, jar>>

createUser == users + 1

\* ON CONFLICT keeps the user of an identity that is already known.
upsertExternalIdentity(i, u) ==
    identityUser' = [identityUser EXCEPT ![i] = IF @ = 0 THEN u ELSE @]

\* Creates or updates the user, records the identity and commits.
SaveUser(c) ==
    LET i == callbacks[c].identity
        u == IF callbacks[c].user = 0 THEN createUser ELSE callbacks[c].user
    IN
    /\ callbacks[c].step = "save"
    /\ users' = IF callbacks[c].user = 0 THEN u ELSE users
    /\ upsertExternalIdentity(i, u)
    /\ locked' = [locked EXCEPT ![i] = IF @ = c THEN None ELSE @]
    /\ callbacks' = [callbacks EXCEPT ![c].step = "put", ![c].user = u]
    /\ UNCHANGED <<loginVars, sessions, jar>>

PutSession(c) ==
    /\ callbacks[c].step = "put"
    /\ sessions' = [sessions EXCEPT
          ![c] = [entry |-> "fresh", user |-> callbacks[c].user]]
    /\ callbacks' = [callbacks EXCEPT ![c].step = "answer", ![c].ok = TRUE]
    /\ UNCHANGED <<loginVars, storeVars, jar>>

\* A store, the provider or the database fails: whatever was done so far
\* stays, except the database transaction, which is rolled back.
CallbackFails(c) ==
    /\ callbacks[c].step \in {"take", "exchange", "find", "save", "put"}
    /\ Advance(c, "answer")
    /\ locked' = [i \in Identities |-> IF locked[i] = c THEN None ELSE locked[i]]
    /\ UNCHANGED <<loginVars, identityUser, users, sessions, jar>>

\* The answer clears the transaction cookie whatever happened and, after a
\* success, sets the cookies of the new session over those of an older one.
CallbackAnswered(c) ==
    LET b == callbacks[c].browser
        cleared == clearTransactionCookie(jar, b)
    IN
    /\ callbacks[c].step = "answer"
    /\ jar' = IF callbacks[c].ok THEN setSessionCookies(cleared, b, c) ELSE cleared
    /\ callbacks' = [callbacks EXCEPT ![c] = [IdleCallback EXCEPT !.step = "done"]]
    /\ UNCHANGED <<loginVars, storeVars, sessions>>

(***************************************************************************)
(* Sessions.                                                               *)
(***************************************************************************)
\* What GetSession answers: the user, or 0.  A session past its expiry
\* that is still stored is refused, and deleted.
GetSession(s) ==
    IF s # None /\ sessions[s].entry = "fresh" THEN sessions[s].user ELSE 0

DropExpired(s) ==
    [sessions EXCEPT ![s].entry = IF @ = "expired" THEN "gone" ELSE @]

DeleteSession(s) == [sessions EXCEPT ![s].entry = "gone"]

\* GET /v1/auth/session: the cookies are cleared when the session is not
\* valid, not when the service could not be asked.
getSession(b) ==
    LET s == jar[b].session IN
    /\ s # None
    /\ GetSession(s) = 0
    /\ sessions' = DropExpired(s)
    /\ jar' = clearSessionCookies(jar, b)
    /\ UNCHANGED <<loginVars, storeVars, callbacks>>

\* POST /v1/auth/logout.  The session is deleted when it is valid and the
\* header carries its CSRF token; the cookies are cleared in every case,
\* also when the token is wrong or the service cannot be reached.
logout(b, token, reached) ==
    LET s == jar[b].session IN
    /\ s # None
    /\ sessions' = IF ~reached THEN sessions
                   ELSE IF GetSession(s) = 0 THEN DropExpired(s)
                   ELSE IF token = s THEN DeleteSession(s) ELSE sessions
    /\ jar' = clearSessionCookies(jar, b)
    /\ UNCHANGED <<loginVars, storeVars, callbacks>>

\* Time passes: an entry outlives its expiry, then Redis evicts it.
Older(entry) == IF entry = "fresh" THEN "expired" ELSE "gone"

ExpireTransaction(l) ==
    /\ transactions[l] \in {"fresh", "expired"}
    /\ transactions' = [transactions EXCEPT ![l] = Older(@)]
    /\ UNCHANGED <<codes, begunIn, provedBy, storeVars, sessions, jar, callbacks>>

ExpireSession(s) ==
    /\ sessions[s].entry \in {"fresh", "expired"}
    /\ sessions' = [sessions EXCEPT ![s].entry = Older(@)]
    /\ UNCHANGED <<loginVars, storeVars, jar, callbacks>>

CallbackStep(c) ==
    \/ Take(c) \/ Exchange(c) \/ ResolveUser(c) \/ SaveUser(c) \/ PutSession(c)
    \/ CallbackFails(c) \/ CallbackAnswered(c)

SessionsNext ==
    \/ \E b \in Browsers, l \in Logins : beginLogin(b, l)
    \/ \E l \in Logins, i \in Identities : Authenticate(l, i)
    \/ \E c \in Callbacks, b \in Browsers, l, k \in Logins : completeLogin(c, b, l, k)
    \/ \E c \in Callbacks : CallbackStep(c)
    \/ \E b \in Browsers : getSession(b)
    \/ \E b \in Browsers, token \in Callbacks \cup {None}, reached \in BOOLEAN :
          logout(b, token, reached)
    \/ \E l \in Logins : ExpireTransaction(l)
    \/ \E s \in Callbacks : ExpireSession(s)

(***************************************************************************)
(* Properties.                                                             *)
(***************************************************************************)

\* A browser holds a session only of a person who proved who they are in a
\* login that this very browser began, and the session is of that person's
\* user: a callback URL followed in another browser (a forwarded or a
\* replayed link) gives nothing, whatever else runs at the same time
\* (CompleteLogin, service.go:142).
SessionsAreEarned ==
    \A b \in Browsers : jar[b].session # None =>
        \E l \in Logins : /\ begunIn[l] = b
                          /\ provedBy[l] # None
                          /\ identityUser[provedBy[l]]
                                = sessions[jar[b].session].user

\* An issuer and subject is one user: two first logins of the same person
\* that race each other do not leave two, and no row of iam_users is left
\* that no identity leads to (ResolveUser, repository.go:28).
OneUserPerIdentity ==
    /\ Cardinality({i \in Identities : identityUser[i] # 0}) = users
    /\ \A i, j \in Identities :
          i # j /\ identityUser[i] # 0 => identityUser[i] # identityUser[j]
=============================================================================
