----------------------------- MODULE Edge_proofs -----------------------------
(***************************************************************************)
(* What Sessions and Edge guarantee for any number of browsers, logins,    *)
(* people and requests.                                                    *)
(*                                                                         *)
(* First part: logins.  A session in a cookie jar was earned because every *)
(* step of a callback passes on what the earlier ones established:         *)
(* SoundCallback says it step by step, and what it refers to (who began a  *)
(* login, who authenticated in it, whose user an identity is) is written   *)
(* once and never changes (Grows).                                         *)
(*                                                                         *)
(* Second part: requests.  SoundRequest says what a request carries at     *)
(* each step; that every route which changes something stands behind            *)
(* RequireCSRF, and which statuses errors become, are facts about the      *)
(* tables of routes and codes.                                             *)
(***************************************************************************)
EXTENDS Edge, FiniteSetTheorems, TLAPS

Cookies == [transaction : Logins \cup {None}, session : Callbacks \cup {None}]
CallbackRecords ==
    [step : Steps, browser : Browsers \cup {None},
     state : Logins \cup {None}, code : Logins \cup {None},
     binding : Logins \cup {None}, identity : Identities \cup {None},
     user : Nat, ok : BOOLEAN]
SessionRecords == [entry : Entries, user : Nat]

\* SessionsTypeOK but for the number of users, which UsersSound bounds.
StoreOK ==
    /\ transactions \in [Logins -> Entries]
    /\ sessions \in [Callbacks -> SessionRecords]
    /\ codes \in [Logins -> Identities \cup {None}]
    /\ jar \in [Browsers -> Cookies]
    /\ callbacks \in [Callbacks -> CallbackRecords]
    /\ identityUser \in [Identities -> Nat]
    /\ users \in Nat
    /\ locked \in [Identities -> Callbacks \cup {None}]
    /\ begunIn \in [Logins -> Browsers \cup {None}]
    /\ provedBy \in [Logins -> Identities \cup {None}]

\* A login is begun when its transaction is stored; a code is of the person
\* who authenticated.
LoginsSound ==
    \A l \in Logins : /\ begunIn[l] = None <=> transactions[l] = "absent"
                      /\ codes[l] \in {None, provedBy[l]}

\* The session of callback c is of a person who authenticated in a login
\* that browser b began.
Earned(b, c) ==
    /\ sessions[c].user # 0
    /\ \E l \in Logins : /\ begunIn[l] = b
                         /\ provedBy[l] # None
                         /\ identityUser[provedBy[l]] = sessions[c].user

JarSound(b) ==
    /\ jar[b].transaction # None => begunIn[jar[b].transaction] = b
    /\ jar[b].session # None => /\ callbacks[jar[b].session].step = "done"
                                /\ Earned(b, jar[b].session)

JarsSound == \A b \in Browsers : JarSound(b)

\* The callback runs in the browser that began the login, for the person
\* who authenticated in it.
Proved(c) ==
    LET r == callbacks[c] IN
    /\ r.state \in Logins
    /\ begunIn[r.state] = r.browser
    /\ r.identity \in Identities
    /\ provedBy[r.state] = r.identity

SoundCallback(c) ==
    LET r == callbacks[c] IN
    /\ r.step \notin {"idle", "done"} => r.browser \in Browsers
    /\ r.step \in {"take", "exchange"} => r.state \in Logins /\ r.code \in Logins
    /\ r.step = "take" => r.binding \in Logins /\ begunIn[r.binding] = r.browser
    /\ r.step = "exchange" => begunIn[r.state] = r.browser
    /\ r.step \in {"find", "save", "put"} => Proved(c)
    /\ r.step = "save" => locked[r.identity] = c /\ r.user = identityUser[r.identity]
    /\ r.step = "put" => r.user = identityUser[r.identity] /\ r.user # 0
    /\ r.ok => /\ r.step = "answer"
               /\ Proved(c)
               /\ sessions[c].user = identityUser[r.identity]
               /\ sessions[c].user # 0

CallbacksSound == \A c \in Callbacks : SoundCallback(c)

Known == {i \in Identities : identityUser[i] # 0}
Used == {c \in Callbacks : callbacks[c].step \in {"put", "answer", "done"}}

\* Users are numbered without gaps, and made by callbacks that are past it.
UsersSound ==
    /\ \A i \in Identities : identityUser[i] <= users
    /\ \A c \in Callbacks : callbacks[c].user <= users /\ sessions[c].user <= users
    /\ IsFiniteSet(Known) /\ Cardinality(Known) = users
    /\ \A i, j \in Identities :
          i # j /\ identityUser[i] # 0 => identityUser[i] # identityUser[j]
    /\ users <= Cardinality(Used)

SInv == StoreOK /\ LoginsSound /\ JarsSound /\ CallbacksSound /\ UsersSound

-----------------------------------------------------------------------------
(* What is written once.                                                   *)

Grows ==
    /\ \A l \in Logins : begunIn[l] # None => begunIn'[l] = begunIn[l]
    /\ \A l \in Logins : provedBy[l] # None => provedBy'[l] = provedBy[l]
    /\ \A i \in Identities : identityUser[i] # 0 => identityUser'[i] = identityUser[i]

LEMMA EarnedStays ==
    ASSUME StoreOK, Grows, NEW b \in Browsers, NEW c \in Callbacks, Earned(b, c),
           sessions'[c].user = sessions[c].user
    PROVE  Earned(b, c)'
<1>1. PICK l \in Logins : /\ begunIn[l] = b
                          /\ provedBy[l] # None
                          /\ identityUser[provedBy[l]] = sessions[c].user
  BY DEF Earned
<1>2. begunIn[l] # None /\ provedBy[l] \in Identities
  BY <1>1, SessionsAssumption DEF StoreOK
<1>3. /\ begunIn'[l] = b /\ provedBy'[l] = provedBy[l]
      /\ identityUser'[provedBy[l]] = sessions[c].user
  BY <1>1, <1>2 DEF Grows, Earned
<1> QED BY <1>1, <1>3 DEF Earned

LEMMA CallbackStays ==
    ASSUME StoreOK, Grows, NEW c \in Callbacks, SoundCallback(c),
           callbacks'[c] = callbacks[c],
           sessions'[c].user = sessions[c].user,
           callbacks[c].step = "save" =>
             /\ locked'[callbacks[c].identity] = c
             /\ identityUser'[callbacks[c].identity] = identityUser[callbacks[c].identity]
    PROVE  SoundCallback(c)'
<1> DEFINE r == callbacks[c]
<1>1. r \in CallbackRecords
  BY DEF StoreOK
<1>2. r.browser \in Browsers => r.browser # None
  BY SessionsAssumption
<1>3. Proved(c) /\ r.browser \in Browsers => Proved(c)'
  BY <1>2, SessionsAssumption DEF Proved, Grows
<1>4. r.step = "take" => begunIn'[r.binding] = r.browser
  BY <1>2 DEF SoundCallback, Grows
<1>5. r.step = "exchange" => begunIn'[r.state] = r.browser
  BY <1>2 DEF SoundCallback, Grows
<1>6. r.step = "put" => identityUser'[r.identity] = identityUser[r.identity]
  BY DEF SoundCallback, Grows, Proved
<1>7. r.ok => identityUser'[r.identity] = identityUser[r.identity]
  BY DEF SoundCallback, Grows, Proved
<1> QED BY <1>3, <1>4, <1>5, <1>6, <1>7 DEF SoundCallback

\* No user is made: what is known of users stays.
LEMMA UsersStay ==
    ASSUME UsersSound, UNCHANGED <<identityUser, users>>,
           callbacks' \in [Callbacks -> CallbackRecords],
           \A c \in Callbacks : callbacks'[c].user <= users /\ sessions'[c].user <= users,
           \A c \in Callbacks : callbacks[c].step \in {"put", "answer", "done"} =>
                                  callbacks'[c].step \in {"put", "answer", "done"},
           users \in Nat
    PROVE  UsersSound'
<1>1. Known' = Known
  BY DEF Known
<1>2. Used \subseteq Used' /\ Used' \subseteq Callbacks
  BY DEF Used
<1>3. IsFiniteSet(Used')
  BY <1>2, FS_Subset, SessionsAssumption
<1>4. /\ IsFiniteSet(Used)
      /\ Cardinality(Used) <= Cardinality(Used')
      /\ Cardinality(Used) \in Nat /\ Cardinality(Used') \in Nat
  BY <1>2, <1>3, FS_Subset, FS_CardinalityType
<1>5. users' <= Cardinality(Used')
  BY <1>4 DEF UsersSound
<1> QED BY <1>1, <1>5 DEF UsersSound

-----------------------------------------------------------------------------
(* Steps of one callback.                                                  *)

LEMMA CallbackMoves ==
    ASSUME SInv, Grows, NEW c \in Callbacks, NEW r \in CallbackRecords,
           callbacks' = [callbacks EXCEPT ![c] = r],
           callbacks[c].step # "done",
           UNCHANGED jar,
           \A d \in Callbacks \ {c} :
              /\ sessions'[d].user = sessions[d].user
              /\ callbacks[d].step = "save" =>
                   /\ locked'[callbacks[d].identity] = d
                   /\ identityUser'[callbacks[d].identity]
                        = identityUser[callbacks[d].identity],
           SoundCallback(c)'
    PROVE  /\ callbacks' \in [Callbacks -> CallbackRecords]
           /\ callbacks'[c] = r
           /\ \A d \in Callbacks \ {c} : callbacks'[d] = callbacks[d]
           /\ CallbacksSound'
           /\ JarsSound'
<1>1. callbacks \in [Callbacks -> CallbackRecords] /\ StoreOK
  BY DEF SInv, StoreOK
<1>2. /\ callbacks' \in [Callbacks -> CallbackRecords]
      /\ callbacks'[c] = r
      /\ \A d \in Callbacks \ {c} : callbacks'[d] = callbacks[d]
  BY <1>1
<1>3. ASSUME NEW d \in Callbacks PROVE SoundCallback(d)'
  <2>1. CASE d = c
    BY <2>1
  <2>2. CASE d # c
    BY <1>1, <1>2, <2>2, CallbackStays DEF SInv, CallbacksSound
  <2> QED BY <2>1, <2>2
<1>4. ASSUME NEW b \in Browsers
      PROVE  JarSound(b)'
  <2>1. b # None /\ jar[b] \in Cookies
    BY SessionsAssumption, <1>1 DEF StoreOK
  <2>2. jar[b].transaction # None => begunIn'[jar[b].transaction] = b
    BY <2>1 DEF SInv, JarsSound, JarSound, Grows, Cookies
  <2>3. ASSUME NEW d \in Callbacks, jar[b].session = d
        PROVE  callbacks'[d].step = "done" /\ Earned(b, d)'
    <3>1. callbacks[d].step = "done" /\ Earned(b, d) /\ d # c
      BY <2>3, SessionsAssumption DEF SInv, JarsSound, JarSound
    <3>2. Earned(b, d)'
      BY <1>1, <3>1, EarnedStays
    <3> QED BY <1>2, <3>1, <3>2
  <2> QED BY <2>1, <2>2, <2>3 DEF JarSound, Earned, Cookies
<1>5. CallbacksSound'
  BY <1>3 DEF CallbacksSound
<1>6. JarsSound'
  BY <1>4 DEF JarsSound
<1> QED BY <1>2, <1>5, <1>6

LEMMA IdleRecord ==
    /\ IdleCallback \in CallbackRecords
    /\ IdleCallback.step = "idle" /\ IdleCallback.user = 0 /\ IdleCallback.ok = FALSE
  BY DEF IdleCallback, CallbackRecords, Steps

\* A step of a callback that makes no user and sets no cookie.
LEMMA InnerStep ==
    ASSUME SInv, NEW c \in Callbacks, NEW r \in CallbackRecords,
           callbacks' = [callbacks EXCEPT ![c] = r],
           callbacks[c].step # "done",
           callbacks[c].step \in {"put", "answer"} => r.step \in {"put", "answer"},
           r.user <= users,
           UNCHANGED <<jar, begunIn, provedBy, identityUser, users>>,
           transactions' \in [Logins -> Entries],
           codes' \in [Logins -> Identities \cup {None}],
           sessions' \in [Callbacks -> SessionRecords],
           locked' \in [Identities -> Callbacks \cup {None}],
           LoginsSound',
           sessions'[c].user <= users,
           \A d \in Callbacks \ {c} :
              /\ sessions'[d] = sessions[d]
              /\ \A i \in Identities : locked[i] = d => locked'[i] = d,
           SoundCallback(c)'
    PROVE  SInv'
<1>1. Grows
  BY DEF Grows
<1>2. \A d \in Callbacks \ {c} :
        /\ sessions'[d].user = sessions[d].user
        /\ callbacks[d].step = "save" =>
             /\ locked'[callbacks[d].identity] = d
             /\ identityUser'[callbacks[d].identity] = identityUser[callbacks[d].identity]
  BY DEF SInv, CallbacksSound, SoundCallback, Proved
<1>3. /\ callbacks' \in [Callbacks -> CallbackRecords]
      /\ callbacks'[c] = r
      /\ \A d \in Callbacks \ {c} : callbacks'[d] = callbacks[d]
      /\ CallbacksSound'
      /\ JarsSound'
  BY <1>1, <1>2, CallbackMoves
<1>4. StoreOK'
  BY <1>3 DEF SInv, StoreOK
<1>5. UsersSound'
  <2>1. \A d \in Callbacks : callbacks'[d].user <= users /\ sessions'[d].user <= users
    BY <1>3 DEF SInv, UsersSound
  <2>2. \A d \in Callbacks : callbacks[d].step \in {"put", "answer", "done"} =>
                                  callbacks'[d].step \in {"put", "answer", "done"}
    BY <1>3
  <2> QED BY <1>3, <2>1, <2>2, UsersStay DEF SInv, StoreOK
<1> QED BY <1>3, <1>4, <1>5 DEF SInv

LEMMA CompleteLoginStep ==
    ASSUME SInv, NEW c \in Callbacks, NEW b \in Browsers, NEW l \in Logins,
           NEW k \in Logins, completeLogin(c, b, l, k)
    PROVE  SInv'
<1> DEFINE r == [IdleCallback EXCEPT !.step = "take", !.browser = b, !.state = l,
                                      !.code = k, !.binding = jar[b].transaction]
<1>1. /\ jar[b].transaction \in Logins
      /\ begunIn[jar[b].transaction] = b
  BY DEF completeLogin, SInv, StoreOK, Cookies, JarsSound, JarSound
<1>2. callbacks' = [callbacks EXCEPT ![c] = r] /\ callbacks[c].step = "idle"
  BY DEF completeLogin
<1>3. /\ r \in CallbackRecords
      /\ r.step = "take" /\ r.browser = b /\ r.state = l /\ r.code = k
      /\ r.binding = jar[b].transaction /\ r.user = 0 /\ r.ok = FALSE
  BY <1>1, IdleRecord DEF CallbackRecords, Steps
<1> HIDE DEF r
<1>4. UNCHANGED <<transactions, codes, begunIn, provedBy, identityUser, users, locked,
                  sessions, jar>>
  BY DEF completeLogin, loginVars, storeVars
<1>5. callbacks'[c] = r
  BY <1>2, <1>3 DEF SInv, StoreOK
<1>6. SoundCallback(c)'
  BY <1>1, <1>3, <1>4, <1>5 DEF SoundCallback
<1>7. /\ LoginsSound' /\ sessions'[c].user <= users /\ r.user <= users
      /\ transactions' \in [Logins -> Entries]
      /\ codes' \in [Logins -> Identities \cup {None}]
      /\ sessions' \in [Callbacks -> SessionRecords]
      /\ locked' \in [Identities -> Callbacks \cup {None}]
  BY <1>3, <1>4 DEF SInv, LoginsSound, StoreOK, UsersSound
<1> QED BY <1>2, <1>3, <1>4, <1>6, <1>7, InnerStep

\* The binding is that of the transaction: the login was begun here.
LEMMA TakeStep ==
    ASSUME SInv, NEW c \in Callbacks, Take(c)
    PROVE  SInv'
<1> DEFINE l == callbacks[c].state
           n == IF transactions[l] = "fresh" /\ BindingMatches(c) THEN "exchange" ELSE "answer"
           r == [callbacks[c] EXCEPT !.step = n]
<1>1. callbacks[c] \in CallbackRecords /\ callbacks[c].step = "take" /\ SoundCallback(c)
  BY DEF SInv, StoreOK, CallbacksSound, Take
<1>2. l \in Logins /\ n \in {"exchange", "answer"}
  BY <1>1 DEF SoundCallback
<1>3. /\ callbacks' = [callbacks EXCEPT ![c] = r]
      /\ UNCHANGED <<codes, begunIn, provedBy, identityUser, users, locked, sessions, jar>>
  BY DEF Take, Advance, SInv, StoreOK, storeVars
<1>4. r \in CallbackRecords /\ r.step = n /\ r.user = callbacks[c].user
  BY <1>1, <1>2 DEF CallbackRecords, Steps
<1>5. transactions' \in [Logins -> Entries] /\ LoginsSound'
  <2>1. transactions' = [transactions EXCEPT ![l] =
           IF transactions[l] \in {"fresh", "expired"} THEN "gone" ELSE transactions[l]]
    BY DEF Take, TakeTransaction
  <2> QED BY <1>2, <1>3, <2>1 DEF SInv, StoreOK, LoginsSound, Entries
<1>6. SoundCallback(c)'
  <2>1. callbacks'[c] = r
    BY <1>3 DEF SInv, StoreOK
  <2>2. /\ r.browser \in Browsers /\ r.state \in Logins /\ r.code \in Logins /\ r.ok = FALSE
    BY <1>1 DEF SoundCallback, CallbackRecords
  <2>3. n = "exchange" => begunIn'[r.state] = r.browser
    BY <1>1, <1>3 DEF SoundCallback, BindingMatches, CallbackRecords
  <2> QED BY <1>2, <1>4, <2>1, <2>2, <2>3 DEF SoundCallback
<1>7. /\ codes' \in [Logins -> Identities \cup {None}]
      /\ sessions' \in [Callbacks -> SessionRecords]
      /\ locked' \in [Identities -> Callbacks \cup {None}]
      /\ sessions'[c].user <= users /\ r.user <= users
  BY <1>3, <1>4 DEF SInv, StoreOK, UsersSound
<1> HIDE DEF r, n
<1> QED BY <1>1, <1>3, <1>4, <1>5, <1>6, <1>7, InnerStep

\* The provider names the person who authenticated in this login.
LEMMA ExchangeStep ==
    ASSUME SInv, NEW c \in Callbacks, Exchange(c)
    PROVE  SInv'
<1> DEFINE k == callbacks[c].code
           good == codes[k] # None /\ k = callbacks[c].state
           n == IF good THEN "find" ELSE "answer"
           i == IF good THEN codes[k] ELSE None
           r == [callbacks[c] EXCEPT !.step = n, !.identity = i]
<1>1. callbacks[c] \in CallbackRecords /\ callbacks[c].step = "exchange" /\ SoundCallback(c)
  BY DEF SInv, StoreOK, CallbacksSound, Exchange
<1>2. /\ k \in Logins /\ n \in {"find", "answer"}
      /\ codes[k] \in Identities \cup {None} /\ i \in Identities \cup {None}
  BY <1>1 DEF SoundCallback, SInv, StoreOK
<1>3. /\ callbacks' = [callbacks EXCEPT ![c] = r]
      /\ UNCHANGED <<transactions, begunIn, provedBy, identityUser, users, locked, sessions, jar>>
      /\ codes' = [codes EXCEPT ![k] = None]
  BY DEF Exchange, SInv, StoreOK, storeVars
<1>4. r \in CallbackRecords /\ r.step = n /\ r.identity = i /\ r.user = callbacks[c].user
  BY <1>1, <1>2 DEF CallbackRecords, Steps
<1>5. codes' \in [Logins -> Identities \cup {None}] /\ LoginsSound'
  BY <1>2, <1>3 DEF SInv, StoreOK, LoginsSound
<1>6. SoundCallback(c)'
  <2>1. callbacks'[c] = r
    BY <1>3 DEF SInv, StoreOK
  <2>2. /\ r.browser \in Browsers /\ r.state \in Logins /\ r.ok = FALSE
        /\ begunIn[r.state] = r.browser
    BY <1>1 DEF SoundCallback, CallbackRecords
  <2>3. good => provedBy[r.state] = i /\ i \in Identities
    BY <1>1, <1>2 DEF SInv, LoginsSound, CallbackRecords
  <2>4. n = "find" => Proved(c)'
    BY <1>3, <1>4, <2>1, <2>2, <2>3 DEF Proved
  <2> QED BY <1>2, <1>4, <2>1, <2>2, <2>4 DEF SoundCallback
<1>7. /\ transactions' \in [Logins -> Entries]
      /\ sessions' \in [Callbacks -> SessionRecords]
      /\ locked' \in [Identities -> Callbacks \cup {None}]
      /\ sessions'[c].user <= users /\ r.user <= users
  BY <1>3, <1>4 DEF SInv, StoreOK, UsersSound
<1> HIDE DEF r, n
<1> QED BY <1>1, <1>3, <1>4, <1>5, <1>6, <1>7, InnerStep

\* Under the lock of the identity, the user that is read stays its user.
LEMMA ResolveUserStep ==
    ASSUME SInv, NEW c \in Callbacks, ResolveUser(c)
    PROVE  SInv'
<1> DEFINE i == callbacks[c].identity
           r == [callbacks[c] EXCEPT !.step = "save", !.user = identityUser[i]]
<1>1. callbacks[c] \in CallbackRecords /\ callbacks[c].step = "find" /\ SoundCallback(c)
  BY DEF SInv, StoreOK, CallbacksSound, ResolveUser
<1>2. i \in Identities /\ identityUser[i] \in Nat /\ identityUser[i] <= users /\ locked[i] = None
  BY <1>1 DEF SoundCallback, Proved, SInv, StoreOK, UsersSound, ResolveUser
<1>3. /\ callbacks' = [callbacks EXCEPT ![c] = r]
      /\ UNCHANGED <<transactions, codes, begunIn, provedBy, identityUser, users, sessions, jar>>
      /\ locked' = [locked EXCEPT ![i] = c]
  BY DEF ResolveUser, SInv, StoreOK, loginVars
<1>4. r \in CallbackRecords /\ r.step = "save" /\ r.user = identityUser[i] /\ r.identity = i
  BY <1>1, <1>2 DEF CallbackRecords, Steps
<1>5. /\ locked' \in [Identities -> Callbacks \cup {None}] /\ locked'[i] = c
      /\ \A d \in Callbacks \ {c} : \A j \in Identities : locked[j] = d => locked'[j] = d
  BY <1>2, <1>3, SessionsAssumption DEF SInv, StoreOK
<1>6. SoundCallback(c)'
  <2>1. callbacks'[c] = r
    BY <1>3 DEF SInv, StoreOK
  <2>2. /\ r.browser \in Browsers /\ r.ok = FALSE /\ r.state = callbacks[c].state
        /\ r.browser = callbacks[c].browser
    BY <1>1 DEF SoundCallback, CallbackRecords
  <2>3. Proved(c)'
    BY <1>1, <1>3, <1>4, <2>1, <2>2 DEF Proved, SoundCallback
  <2> QED BY <1>3, <1>4, <1>5, <2>1, <2>2, <2>3 DEF SoundCallback
<1>7. /\ transactions' \in [Logins -> Entries]
      /\ codes' \in [Logins -> Identities \cup {None}]
      /\ sessions' \in [Callbacks -> SessionRecords]
      /\ sessions'[c].user <= users /\ r.user <= users
      /\ LoginsSound'
  BY <1>2, <1>3, <1>4 DEF SInv, StoreOK, UsersSound, LoginsSound
<1> HIDE DEF r
<1> QED BY <1>1, <1>3, <1>4, <1>5, <1>6, <1>7, InnerStep

LEMMA PutSessionStep ==
    ASSUME SInv, NEW c \in Callbacks, PutSession(c)
    PROVE  SInv'
<1> DEFINE u == callbacks[c].user
           s == [entry |-> "fresh", user |-> u]
           r == [callbacks[c] EXCEPT !.step = "answer", !.ok = TRUE]
<1>1. callbacks[c] \in CallbackRecords /\ callbacks[c].step = "put" /\ SoundCallback(c)
  BY DEF SInv, StoreOK, CallbacksSound, PutSession
<1>2. /\ callbacks' = [callbacks EXCEPT ![c] = r]
      /\ UNCHANGED <<transactions, codes, begunIn, provedBy, identityUser, users, locked, jar>>
      /\ sessions' = [sessions EXCEPT ![c] = s]
  BY DEF PutSession, SInv, StoreOK, loginVars, storeVars
<1>3. u \in Nat /\ u <= users /\ s \in SessionRecords /\ s.user = u
  BY <1>1 DEF CallbackRecords, SessionRecords, Entries, SInv, UsersSound
<1>4. /\ r \in CallbackRecords /\ r.step = "answer" /\ r.ok = TRUE /\ r.user = u
      /\ r.identity = callbacks[c].identity /\ r.state = callbacks[c].state
      /\ r.browser = callbacks[c].browser
  BY <1>1 DEF CallbackRecords, Steps
<1>5. /\ sessions' \in [Callbacks -> SessionRecords] /\ sessions'[c] = s
      /\ \A d \in Callbacks \ {c} : sessions'[d] = sessions[d]
  BY <1>2, <1>3 DEF SInv, StoreOK
<1>6. SoundCallback(c)'
  <2>1. callbacks'[c] = r
    BY <1>2 DEF SInv, StoreOK
  <2>2. Proved(c)'
    BY <1>1, <1>2, <1>4, <2>1 DEF Proved, SoundCallback
  <2>3. r.browser \in Browsers /\ u = identityUser[r.identity] /\ u # 0
    BY <1>1, <1>4 DEF SoundCallback
  <2> HIDE DEF r, s, u
  <2> QED BY <1>2, <1>3, <1>4, <1>5, <2>1, <2>2, <2>3 DEF SoundCallback
<1>7. /\ transactions' \in [Logins -> Entries]
      /\ codes' \in [Logins -> Identities \cup {None}]
      /\ locked' \in [Identities -> Callbacks \cup {None}]
      /\ LoginsSound'
  BY <1>2 DEF SInv, StoreOK, LoginsSound
<1>8. /\ sessions'[c].user <= users /\ r.user <= users
      /\ callbacks[c].step # "done" /\ r.step \in {"put", "answer"}
      /\ \A d \in Callbacks \ {c} :
            /\ sessions'[d] = sessions[d]
            /\ \A i \in Identities : locked[i] = d => locked'[i] = d
  BY <1>1, <1>2, <1>3, <1>4, <1>5
<1> HIDE DEF r, s, u
<1> QED BY <1>2, <1>4, <1>5, <1>6, <1>7, <1>8, InnerStep

LEMMA CallbackFailsStep ==
    ASSUME SInv, NEW c \in Callbacks, CallbackFails(c)
    PROVE  SInv'
<1> DEFINE r == [callbacks[c] EXCEPT !.step = "answer"]
<1>1. /\ callbacks[c] \in CallbackRecords /\ SoundCallback(c)
      /\ callbacks[c].step \in {"take", "exchange", "find", "save", "put"}
  BY DEF SInv, StoreOK, CallbacksSound, CallbackFails
<1>2. /\ callbacks' = [callbacks EXCEPT ![c] = r]
      /\ UNCHANGED <<transactions, codes, begunIn, provedBy, identityUser, users, sessions, jar>>
      /\ locked' = [i \in Identities |-> IF locked[i] = c THEN None ELSE locked[i]]
  BY DEF CallbackFails, Advance, SInv, StoreOK, loginVars
<1>3. r \in CallbackRecords /\ r.step = "answer" /\ r.user = callbacks[c].user
  BY <1>1 DEF CallbackRecords, Steps
<1>4. /\ locked' \in [Identities -> Callbacks \cup {None}]
      /\ \A d \in Callbacks \ {c} : \A j \in Identities : locked[j] = d => locked'[j] = d
  BY <1>2 DEF SInv, StoreOK
<1>5. SoundCallback(c)'
  <2>1. callbacks'[c] = r
    BY <1>2 DEF SInv, StoreOK
  <2>2. r.browser \in Browsers /\ r.ok = FALSE
    BY <1>1 DEF SoundCallback, CallbackRecords
  <2> QED BY <1>3, <2>1, <2>2 DEF SoundCallback
<1>6. /\ transactions' \in [Logins -> Entries]
      /\ codes' \in [Logins -> Identities \cup {None}]
      /\ sessions' \in [Callbacks -> SessionRecords]
      /\ sessions'[c].user <= users /\ r.user <= users
      /\ LoginsSound'
  BY <1>2, <1>3 DEF SInv, StoreOK, UsersSound, LoginsSound
<1> HIDE DEF r
<1> QED BY <1>1, <1>2, <1>3, <1>4, <1>5, <1>6, InnerStep

\* Under the lock, a user is made exactly when the identity has none.
LEMMA SaveUserStep ==
    ASSUME SInv, NEW c \in Callbacks, SaveUser(c)
    PROVE  SInv'
<1> DEFINE i == callbacks[c].identity
           u == IF callbacks[c].user = 0 THEN createUser ELSE callbacks[c].user
           r == [callbacks[c] EXCEPT !.step = "put", !.user = u]
<1>1. /\ callbacks[c] \in CallbackRecords /\ callbacks[c].step = "save" /\ SoundCallback(c)
      /\ users \in Nat /\ callbacks[c].user \in Nat
  BY DEF SInv, StoreOK, CallbacksSound, SaveUser, CallbackRecords
<1>2. /\ i \in Identities /\ callbacks[c].user = identityUser[i] /\ locked[i] = c
      /\ identityUser[i] \in Nat /\ identityUser[i] <= users /\ Proved(c)
  BY <1>1 DEF SoundCallback, Proved, SInv, StoreOK, UsersSound
<1>3. u \in Nat /\ u # 0
  BY <1>1 DEF createUser
<1>4. /\ callbacks' = [callbacks EXCEPT ![c] = r]
      /\ UNCHANGED <<transactions, codes, begunIn, provedBy, sessions, jar>>
      /\ locked' = [locked EXCEPT ![i] = None]
      /\ users' = IF callbacks[c].user = 0 THEN u ELSE users
      /\ identityUser' = [identityUser EXCEPT ![i] = u]
  BY <1>2 DEF SaveUser, upsertExternalIdentity, SInv, StoreOK, loginVars
<1>5. /\ r \in CallbackRecords /\ r.step = "put" /\ r.user = u /\ r.ok = callbacks[c].ok
      /\ r.identity = i /\ r.state = callbacks[c].state /\ r.browser = callbacks[c].browser
  BY <1>1, <1>3 DEF CallbackRecords, Steps
<1>6. /\ locked' \in [Identities -> Callbacks \cup {None}]
      /\ \A d \in Callbacks \ {c} : \A j \in Identities : locked[j] = d => locked'[j] = d /\ j # i
      /\ identityUser' \in [Identities -> Nat] /\ identityUser'[i] = u
      /\ \A j \in Identities \ {i} : identityUser'[j] = identityUser[j]
  BY <1>2, <1>3, <1>4, SessionsAssumption DEF SInv, StoreOK
<1>7. Grows
  BY <1>2, <1>4, <1>6 DEF Grows
<1>8. callbacks'[c] = r
  BY <1>4 DEF SInv, StoreOK
<1> HIDE DEF r
<1>9. SoundCallback(c)'
  <2>1. Proved(c)'
    BY <1>2, <1>4, <1>5, <1>8 DEF Proved
  <2>2. r.browser \in Browsers /\ r.ok = FALSE
    BY <1>1, <1>5 DEF SoundCallback, CallbackRecords
  <2> HIDE DEF u, i
  <2> QED BY <1>3, <1>5, <1>6, <1>8, <2>1, <2>2 DEF SoundCallback
<1>10. /\ transactions' \in [Logins -> Entries]
       /\ codes' \in [Logins -> Identities \cup {None}]
       /\ sessions' \in [Callbacks -> SessionRecords]
       /\ LoginsSound'
  BY <1>4 DEF SInv, StoreOK, LoginsSound
<1>11. ASSUME callbacks[c].user # 0 PROVE SInv'
  <2>1. u = callbacks[c].user /\ UNCHANGED <<identityUser, users>>
    BY <1>2, <1>4, <1>11 DEF SInv, StoreOK
  <2>2. r.user <= users /\ sessions'[c].user <= users
    BY <1>1, <1>2, <1>4, <1>5, <2>1 DEF SInv, UsersSound
  <2> HIDE DEF u, i
  <2> QED BY <1>1, <1>4, <1>5, <1>6, <1>9, <1>10, <2>1, <2>2, InnerStep
<1>12. ASSUME callbacks[c].user = 0 PROVE SInv'
  <2>1. u = users + 1 /\ users' = users + 1 /\ identityUser[i] = 0
    BY <1>2, <1>4, <1>12 DEF createUser
  <2> HIDE DEF u
  <2>2. \A d \in Callbacks \ {c} :
          /\ sessions'[d].user = sessions[d].user
          /\ callbacks[d].step = "save" =>
               /\ locked'[callbacks[d].identity] = d
               /\ identityUser'[callbacks[d].identity] = identityUser[callbacks[d].identity]
    BY <1>4, <1>6 DEF SInv, CallbacksSound, SoundCallback, Proved
  <2>3. /\ callbacks' \in [Callbacks -> CallbackRecords]
        /\ \A d \in Callbacks \ {c} : callbacks'[d] = callbacks[d]
        /\ CallbacksSound'
        /\ JarsSound'
    BY <1>1, <1>4, <1>5, <1>7, <1>9, <2>2, CallbackMoves
  <2>4. StoreOK'
    BY <1>1, <1>4, <1>6, <1>10, <2>1, <2>3 DEF SInv, StoreOK
  <2>5. /\ \A j \in Identities : identityUser'[j] <= users'
        /\ \A j \in Identities \ {i} : identityUser[j] < u /\ identityUser'[j] < u
    <3>1. \A j \in Identities : identityUser[j] <= users /\ identityUser[j] \in Nat
      BY DEF SInv, UsersSound, StoreOK
    <3> QED BY <1>1, <1>2, <1>6, <2>1, <3>1
  <2>6. \A d \in Callbacks : callbacks'[d].user <= users' /\ sessions'[d].user <= users'
    <3>1. \A d \in Callbacks : /\ callbacks[d].user <= users /\ sessions[d].user <= users
                               /\ callbacks[d].user \in Nat /\ sessions[d].user \in Nat
      BY DEF SInv, UsersSound, StoreOK, CallbackRecords, SessionRecords
    <3> QED BY <1>1, <1>4, <1>5, <1>8, <2>1, <2>3, <3>1
  <2>7. \A j, k \in Identities :
          j # k /\ identityUser'[j] # 0 => identityUser'[j] # identityUser'[k]
    <3>1. ASSUME NEW j \in Identities, NEW k \in Identities, j # k, identityUser'[j] # 0
          PROVE  identityUser'[j] # identityUser'[k]
      <4>1. identityUser'[j] \in Nat /\ identityUser'[k] \in Nat /\ u \in Nat
        BY <1>3, <1>6
      <4>2. CASE j = i
        BY <1>6, <2>5, <3>1, <4>1, <4>2
      <4>3. CASE k = i
        BY <1>6, <2>5, <3>1, <4>1, <4>3
      <4>4. CASE j # i /\ k # i
        BY <1>6, <3>1, <4>4 DEF SInv, UsersSound
      <4> QED BY <4>2, <4>3, <4>4
    <3> QED BY <3>1
  <2>8. IsFiniteSet(Known') /\ Cardinality(Known') = users'
    <3>1. Known' = Known \cup {i} /\ i \notin Known
      BY <1>2, <1>3, <1>6, <2>1 DEF Known
    <3>2. IsFiniteSet(Known) /\ Cardinality(Known) = users
      BY DEF SInv, UsersSound
    <3> QED BY <1>1, <2>1, <3>1, <3>2, FS_AddElement
  <2>9. users' <= Cardinality(Used')
    <3>1. Used' = Used \cup {c} /\ c \notin Used
      BY <1>1, <1>5, <1>8, <2>3 DEF Used
    <3>2. IsFiniteSet(Used) /\ users <= Cardinality(Used)
      <4>1. Used \subseteq Callbacks
        BY DEF Used
      <4> QED BY <4>1, FS_Subset, SessionsAssumption DEF SInv, UsersSound
    <3>3. Cardinality(Used') = Cardinality(Used) + 1 /\ Cardinality(Used) \in Nat
      BY <3>1, <3>2, FS_AddElement, FS_CardinalityType
    <3> QED BY <1>1, <2>1, <3>2, <3>3
  <2>10. UsersSound'
    BY <2>5, <2>6, <2>7, <2>8, <2>9 DEF UsersSound
  <2> QED BY <1>10, <2>3, <2>4, <2>10 DEF SInv
<1> QED BY <1>11, <1>12

-----------------------------------------------------------------------------
(* Steps that change cookies and entries.                                  *)

\* Sessions grow old or go, and cookies are forgotten, but not exchanged.
LEMMA ForgetStep ==
    ASSUME SInv,
           UNCHANGED <<codes, begunIn, provedBy, identityUser, users, locked, callbacks>>,
           transactions' \in [Logins -> Entries],
           \A l \in Logins : transactions'[l] = "absent" <=> transactions[l] = "absent",
           sessions' \in [Callbacks -> SessionRecords],
           \A c \in Callbacks : sessions'[c].user = sessions[c].user,
           jar' \in [Browsers -> Cookies],
           \A b \in Browsers : /\ jar'[b].transaction = jar[b].transaction
                               /\ jar'[b].session \in {jar[b].session, None}
    PROVE  SInv'
<1>1. Grows /\ StoreOK
  BY DEF Grows, SInv
<1>2. StoreOK'
  BY DEF SInv, StoreOK
<1>3. LoginsSound'
  BY DEF SInv, LoginsSound
<1>4. CallbacksSound'
  <2>1. ASSUME NEW c \in Callbacks PROVE SoundCallback(c)'
    <3>1. SoundCallback(c)
      BY DEF SInv, CallbacksSound
    <3>2. callbacks[c].step = "save" => locked'[callbacks[c].identity] = c
      BY <3>1 DEF SoundCallback
    <3> QED BY <1>1, <3>1, <3>2, CallbackStays
  <2> QED BY <2>1 DEF CallbacksSound
<1>5. JarsSound'
  <2>1. ASSUME NEW b \in Browsers PROVE JarSound(b)'
    <3>1. JarSound(b) /\ jar[b] \in Cookies
      BY DEF SInv, JarsSound, StoreOK
    <3>2. ASSUME NEW c \in Callbacks, jar[b].session = c
          PROVE  Earned(b, c)' /\ callbacks'[c].step = "done"
      BY <1>1, <3>1, <3>2, EarnedStays, SessionsAssumption DEF JarSound
    <3> QED BY <3>1, <3>2 DEF JarSound, Earned, Cookies
  <2> QED BY <2>1 DEF JarsSound
<1>6. UsersSound'
  <2>1. /\ callbacks' \in [Callbacks -> CallbackRecords]
        /\ \A c \in Callbacks : callbacks'[c].user <= users /\ sessions'[c].user <= users
        /\ users \in Nat
    BY DEF SInv, UsersSound, StoreOK
  <2> QED BY <2>1, UsersStay DEF SInv
<1> QED BY <1>2, <1>3, <1>4, <1>5, <1>6 DEF SInv

LEMMA EntryMoves ==
    ASSUME SInv, NEW s \in Callbacks, NEW e \in Entries,
           sessions' = [sessions EXCEPT ![s].entry = e]
    PROVE  /\ sessions' \in [Callbacks -> SessionRecords]
           /\ \A c \in Callbacks : sessions'[c].user = sessions[c].user
<1>1. sessions \in [Callbacks -> SessionRecords]
  BY DEF SInv, StoreOK
<1> QED BY <1>1 DEF SessionRecords

LEMMA CookieCleared ==
    ASSUME SInv, NEW b \in Browsers, jar' = clearSessionCookies(jar, b)
    PROVE  /\ jar' \in [Browsers -> Cookies]
           /\ \A a \in Browsers : /\ jar'[a].transaction = jar[a].transaction
                                  /\ jar'[a].session \in {jar[a].session, None}
<1>1. jar \in [Browsers -> Cookies]
  BY DEF SInv, StoreOK
<1> QED BY <1>1 DEF Cookies, clearSessionCookies

\* Whatever clears cookies or lets an entry age.
LEMMA AgeStep ==
    ASSUME SInv, NEW b \in Browsers, NEW s \in Callbacks, NEW e \in Entries,
           UNCHANGED <<loginVars, storeVars, callbacks>>,
           sessions' = sessions \/ sessions' = [sessions EXCEPT ![s].entry = e],
           jar' = jar \/ jar' = clearSessionCookies(jar, b)
    PROVE  SInv'
<1>1. UNCHANGED <<codes, begunIn, provedBy, identityUser, users, locked, callbacks, transactions>>
  BY DEF loginVars, storeVars
<1>2. /\ sessions' \in [Callbacks -> SessionRecords]
      /\ \A c \in Callbacks : sessions'[c].user = sessions[c].user
  BY EntryMoves DEF SInv, StoreOK
<1>3. /\ jar' \in [Browsers -> Cookies]
      /\ \A a \in Browsers : /\ jar'[a].transaction = jar[a].transaction
                             /\ jar'[a].session \in {jar[a].session, None}
  BY CookieCleared DEF SInv, StoreOK
<1>4. transactions' \in [Logins -> Entries]
  BY <1>1 DEF SInv, StoreOK
<1> QED BY <1>1, <1>2, <1>3, <1>4, ForgetStep

LEMMA DropMoves ==
    ASSUME SInv, NEW s \in Callbacks
    PROVE  \E e \in Entries : DropExpired(s) = [sessions EXCEPT ![s].entry = e]
<1>1. sessions[s].entry \in Entries
  BY DEF SInv, StoreOK, SessionRecords
<1>2. CASE sessions[s].entry = "expired"
  BY <1>2 DEF DropExpired, Entries
<1>3. CASE sessions[s].entry # "expired"
  BY <1>1, <1>3 DEF DropExpired
<1> QED BY <1>2, <1>3

LEMMA GetSessionStep ==
    ASSUME SInv, NEW b \in Browsers, getSession(b)
    PROVE  SInv'
<1>1. jar[b].session \in Callbacks
  BY DEF getSession, SInv, StoreOK, Cookies
<1>2. PICK e \in Entries : DropExpired(jar[b].session) = [sessions EXCEPT ![jar[b].session].entry = e]
  BY <1>1, DropMoves
<1> QED BY <1>1, <1>2, AgeStep DEF getSession

LEMMA LogoutStep ==
    ASSUME SInv, NEW b \in Browsers, NEW token \in Callbacks \cup {None},
           NEW reached \in BOOLEAN, logout(b, token, reached)
    PROVE  SInv'
<1>1. jar[b].session \in Callbacks
  BY DEF logout, SInv, StoreOK, Cookies
<1>2. PICK e \in Entries : DropExpired(jar[b].session) = [sessions EXCEPT ![jar[b].session].entry = e]
  BY <1>1, DropMoves
<1>3. \E f \in Entries : sessions' = sessions \/ sessions' = [sessions EXCEPT ![jar[b].session].entry = f]
  <2>1. "gone" \in Entries
    BY DEF Entries
  <2> QED BY <1>2, <2>1 DEF logout, DeleteSession
<1> QED BY <1>1, <1>3, AgeStep DEF logout

LEMMA ExpireSessionStep ==
    ASSUME SInv, NEW s \in Callbacks, ExpireSession(s)
    PROVE  SInv'
<1>1. UNCHANGED <<codes, begunIn, provedBy, identityUser, users, locked, callbacks,
                  transactions, jar>>
  BY DEF loginVars, storeVars, ExpireSession
<1>2. /\ sessions' \in [Callbacks -> SessionRecords]
      /\ \A c \in Callbacks : sessions'[c].user = sessions[c].user
  <2>1. PICK e \in Entries : e = Older(sessions[s].entry)
    BY DEF Older, Entries
  <2>2. sessions' = [sessions EXCEPT ![s].entry = e]
    BY <2>1 DEF ExpireSession
  <2> QED BY <2>2, EntryMoves
<1>3. transactions' \in [Logins -> Entries] /\ jar' \in [Browsers -> Cookies]
  BY <1>1 DEF SInv, StoreOK
<1> QED BY <1>1, <1>2, <1>3, ForgetStep

LEMMA ExpireTransactionStep ==
    ASSUME SInv, NEW l \in Logins, ExpireTransaction(l)
    PROVE  SInv'
<1>1. UNCHANGED <<codes, begunIn, provedBy, identityUser, users, locked, callbacks,
                  sessions, jar>>
  BY DEF storeVars, ExpireTransaction
<1>2. /\ transactions' \in [Logins -> Entries]
      /\ \A k \in Logins : transactions'[k] = "absent" <=> transactions[k] = "absent"
  BY DEF ExpireTransaction, Older, Entries, SInv, StoreOK
<1>3. sessions' \in [Callbacks -> SessionRecords] /\ jar' \in [Browsers -> Cookies]
  BY <1>1 DEF SInv, StoreOK
<1> QED BY <1>1, <1>2, <1>3, ForgetStep

\* A login is begun once, by the browser that gets its cookie.
LEMMA BeginLoginStep ==
    ASSUME SInv, NEW b \in Browsers, NEW l \in Logins, beginLogin(b, l)
    PROVE  SInv'
<1>1. /\ transactions[l] = "absent" /\ begunIn[l] = None /\ b # None
      /\ UNCHANGED <<codes, provedBy, identityUser, users, locked, callbacks, sessions>>
      /\ transactions' = [transactions EXCEPT ![l] = "fresh"]
      /\ begunIn' = [begunIn EXCEPT ![l] = b]
      /\ jar' = [jar EXCEPT ![b].transaction = l]
  BY SessionsAssumption DEF beginLogin, BeginLogin, PutTransaction, setTransactionCookie,
     storeVars, SInv, LoginsSound
<1>2. Grows /\ StoreOK
  BY <1>1 DEF Grows, SInv, StoreOK
<1>3. /\ jar' \in [Browsers -> Cookies]
      /\ \A a \in Browsers : /\ jar'[a].transaction = IF a = b THEN l ELSE jar[a].transaction
                             /\ jar'[a].session = jar[a].session
  <2>1. jar \in [Browsers -> Cookies]
    BY DEF SInv, StoreOK
  <2> QED BY <1>1, <2>1 DEF Cookies
<1>4. StoreOK'
  BY <1>1, <1>3 DEF SInv, StoreOK, Entries
<1>5. LoginsSound'
  BY <1>1 DEF SInv, LoginsSound, StoreOK
<1>6. CallbacksSound'
  <2>1. ASSUME NEW c \in Callbacks PROVE SoundCallback(c)'
    <3>1. SoundCallback(c)
      BY DEF SInv, CallbacksSound
    <3>2. callbacks[c].step = "save" => locked'[callbacks[c].identity] = c
      BY <1>1, <3>1 DEF SoundCallback
    <3> QED BY <1>1, <1>2, <3>1, <3>2, CallbackStays
  <2> QED BY <2>1 DEF CallbacksSound
<1>7. JarsSound'
  <2>1. ASSUME NEW a \in Browsers PROVE JarSound(a)'
    <3>1. JarSound(a) /\ jar[a] \in Cookies /\ a # None
      BY SessionsAssumption DEF SInv, JarsSound, StoreOK
    <3>2. jar'[a].transaction # None => begunIn'[jar'[a].transaction] = a
      BY <1>1, <1>2, <1>3, <3>1 DEF JarSound, Grows, StoreOK, Cookies
    <3>3. ASSUME NEW c \in Callbacks, jar[a].session = c
          PROVE  Earned(a, c)' /\ callbacks'[c].step = "done"
      BY <1>1, <1>2, <3>1, <3>3, EarnedStays, SessionsAssumption DEF JarSound
    <3> QED BY <1>3, <3>1, <3>2, <3>3 DEF JarSound, Earned, Cookies
  <2> QED BY <2>1 DEF JarsSound
<1>8. UsersSound'
  <2>1. /\ callbacks' \in [Callbacks -> CallbackRecords]
        /\ \A c \in Callbacks : callbacks'[c].user <= users /\ sessions'[c].user <= users
        /\ users \in Nat
    BY <1>1 DEF SInv, UsersSound, StoreOK
  <2> QED BY <1>1, <2>1, UsersStay DEF SInv
<1> QED BY <1>4, <1>5, <1>6, <1>7, <1>8 DEF SInv

LEMMA AuthenticateStep ==
    ASSUME SInv, NEW l \in Logins, NEW i \in Identities, Authenticate(l, i)
    PROVE  SInv'
<1>1. /\ provedBy[l] = None
      /\ UNCHANGED <<transactions, begunIn, identityUser, users, locked, callbacks, sessions, jar>>
      /\ codes' = [codes EXCEPT ![l] = i]
      /\ provedBy' = [provedBy EXCEPT ![l] = i]
  BY DEF Authenticate, storeVars
<1>2. Grows /\ StoreOK
  BY <1>1 DEF Grows, SInv, StoreOK
<1>3. StoreOK'
  BY <1>1 DEF SInv, StoreOK
<1>4. LoginsSound'
  BY <1>1 DEF SInv, LoginsSound, StoreOK
<1>5. CallbacksSound'
  <2>1. ASSUME NEW c \in Callbacks PROVE SoundCallback(c)'
    <3>1. SoundCallback(c)
      BY DEF SInv, CallbacksSound
    <3>2. callbacks[c].step = "save" => locked'[callbacks[c].identity] = c
      BY <1>1, <3>1 DEF SoundCallback
    <3> QED BY <1>1, <1>2, <3>1, <3>2, CallbackStays
  <2> QED BY <2>1 DEF CallbacksSound
<1>6. JarsSound'
  <2>1. ASSUME NEW a \in Browsers PROVE JarSound(a)'
    <3>1. JarSound(a) /\ jar[a] \in Cookies
      BY DEF SInv, JarsSound, StoreOK
    <3>2. ASSUME NEW c \in Callbacks, jar[a].session = c
          PROVE  Earned(a, c)' /\ callbacks'[c].step = "done"
      BY <1>1, <1>2, <3>1, <3>2, EarnedStays, SessionsAssumption DEF JarSound
    <3> QED BY <1>1, <3>1, <3>2 DEF JarSound, Earned, Cookies
  <2> QED BY <2>1 DEF JarsSound
<1>7. UsersSound'
  <2>1. /\ callbacks' \in [Callbacks -> CallbackRecords]
        /\ \A c \in Callbacks : callbacks'[c].user <= users /\ sessions'[c].user <= users
        /\ users \in Nat
    BY <1>1 DEF SInv, UsersSound, StoreOK
  <2> QED BY <1>1, <2>1, UsersStay DEF SInv
<1> QED BY <1>3, <1>4, <1>5, <1>6, <1>7 DEF SInv

\* The session cookie goes to the browser that began the login.
LEMMA CallbackAnsweredStep ==
    ASSUME SInv, NEW c \in Callbacks, CallbackAnswered(c)
    PROVE  SInv'
<1> DEFINE b == callbacks[c].browser
           r == [IdleCallback EXCEPT !.step = "done"]
<1>1. /\ callbacks[c] \in CallbackRecords /\ callbacks[c].step = "answer" /\ SoundCallback(c)
      /\ b \in Browsers
  BY DEF SInv, StoreOK, CallbacksSound, CallbackAnswered, SoundCallback
<1>2. /\ callbacks' = [callbacks EXCEPT ![c] = r]
      /\ UNCHANGED <<transactions, codes, begunIn, provedBy, identityUser, users, locked, sessions>>
      /\ jar' = IF callbacks[c].ok
                THEN [[jar EXCEPT ![b].transaction = None] EXCEPT ![b].session = c]
                ELSE [jar EXCEPT ![b].transaction = None]
  BY DEF CallbackAnswered, setSessionCookies, clearTransactionCookie, loginVars, storeVars
<1>3. r \in CallbackRecords /\ r.step = "done" /\ r.user = 0 /\ r.ok = FALSE
  BY IdleRecord DEF CallbackRecords, Steps
<1> HIDE DEF r
<1>4. Grows /\ StoreOK
  BY <1>2 DEF Grows, SInv
<1>5. /\ callbacks' \in [Callbacks -> CallbackRecords]
      /\ callbacks'[c] = r
      /\ \A d \in Callbacks \ {c} : callbacks'[d] = callbacks[d]
  BY <1>2, <1>3 DEF SInv, StoreOK
<1>6. /\ jar' \in [Browsers -> Cookies]
      /\ \A a \in Browsers \ {b} : jar'[a] = jar[a]
      /\ jar'[b].transaction = None
      /\ jar'[b].session = IF callbacks[c].ok THEN c ELSE jar[b].session
  <2>1. jar \in [Browsers -> Cookies]
    BY DEF SInv, StoreOK
  <2>2. CASE callbacks[c].ok
    BY <1>1, <1>2, <2>1, <2>2 DEF Cookies
  <2>3. CASE ~callbacks[c].ok
    BY <1>1, <1>2, <2>1, <2>3 DEF Cookies
  <2> QED BY <2>2, <2>3
<1>7. StoreOK'
  BY <1>2, <1>5, <1>6 DEF SInv, StoreOK
<1>8. LoginsSound'
  BY <1>2 DEF SInv, LoginsSound
<1>9. CallbacksSound'
  <2>1. ASSUME NEW d \in Callbacks PROVE SoundCallback(d)'
    <3>1. CASE d = c
      BY <1>3, <1>5, <3>1 DEF SoundCallback
    <3>2. ASSUME d # c PROVE SoundCallback(d)'
      <4>1. SoundCallback(d) /\ callbacks'[d] = callbacks[d]
        BY <1>5, <3>2 DEF SInv, CallbacksSound
      <4>2. callbacks[d].step = "save" => locked'[callbacks[d].identity] = d
        BY <1>2, <4>1 DEF SoundCallback
      <4> QED BY <1>2, <1>4, <4>1, <4>2, CallbackStays
    <3> QED BY <3>1, <3>2
  <2> QED BY <2>1 DEF CallbacksSound
<1>10. JarsSound'
  <2>1. ASSUME NEW a \in Browsers PROVE JarSound(a)'
    <3>1. JarSound(a) /\ jar[a] \in Cookies
      BY DEF SInv, JarsSound, StoreOK
    <3>2. jar'[a].transaction # None => begunIn'[jar'[a].transaction] = a
      BY <1>2, <1>6, <3>1 DEF JarSound
    <3>3. ASSUME NEW d \in Callbacks, jar[a].session = d
          PROVE  Earned(a, d)' /\ callbacks'[d].step = "done"
      <4>1. Earned(a, d) /\ callbacks[d].step = "done" /\ d # c
        BY <1>1, <3>1, <3>3, SessionsAssumption DEF JarSound
      <4>2. Earned(a, d)'
        BY <1>2, <1>4, <4>1, EarnedStays
      <4> QED BY <1>5, <4>1, <4>2
    <3>4. ASSUME callbacks[c].ok, a = b
          PROVE  Earned(a, c)' /\ callbacks'[c].step = "done"
      <4>1. /\ callbacks[c].state \in Logins /\ begunIn[callbacks[c].state] = b
            /\ callbacks[c].identity \in Identities
            /\ provedBy[callbacks[c].state] = callbacks[c].identity
            /\ sessions[c].user = identityUser[callbacks[c].identity]
            /\ sessions[c].user # 0
        BY <1>1, <3>4 DEF SoundCallback, Proved
      <4>2. Earned(b, c)
        BY <4>1, SessionsAssumption DEF Earned
      <4>3. Earned(a, c)'
        BY <1>2, <1>4, <3>4, <4>2, EarnedStays
      <4> QED BY <1>3, <1>5, <4>3
    <3>5. jar'[a].session \in {jar[a].session, c} /\ (jar'[a].session # jar[a].session => callbacks[c].ok /\ a = b)
      BY <1>6
    <3>6. ASSUME NEW d \in Callbacks, jar'[a].session = d
          PROVE  Earned(a, d)' /\ callbacks'[d].step = "done"
      BY <3>3, <3>4, <3>5, <3>6
    <3>7. jar'[a].session \in Callbacks \cup {None}
      BY <1>6 DEF Cookies
    <3> QED BY <3>2, <3>6, <3>7 DEF JarSound, Earned
  <2> QED BY <2>1 DEF JarsSound
<1>11. UsersSound'
  <2>1. /\ \A d \in Callbacks : callbacks'[d].user <= users /\ sessions'[d].user <= users
        /\ users \in Nat
    BY <1>2, <1>3, <1>5 DEF SInv, UsersSound, StoreOK
  <2>2. \A d \in Callbacks : callbacks[d].step \in {"put", "answer", "done"} =>
                                  callbacks'[d].step \in {"put", "answer", "done"}
    BY <1>3, <1>5
  <2> QED BY <1>2, <1>5, <2>1, <2>2, UsersStay DEF SInv
<1> QED BY <1>7, <1>8, <1>9, <1>10, <1>11 DEF SInv

LEMMA SessionsStep ==
    ASSUME SInv, SessionsNext
    PROVE  SInv'
<1>1. ASSUME NEW c \in Callbacks, CallbackStep(c) PROVE SInv'
  BY <1>1, TakeStep, ExchangeStep, ResolveUserStep, SaveUserStep, PutSessionStep,
     CallbackFailsStep, CallbackAnsweredStep DEF CallbackStep
<1> QED
  BY <1>1, BeginLoginStep, AuthenticateStep, CompleteLoginStep, GetSessionStep, LogoutStep,
     ExpireTransactionStep, ExpireSessionStep DEF SessionsNext

LEMMA SessionsStart ==
    ASSUME SessionsInit
    PROVE  SInv
<1>1. NoCookies \in Cookies /\ NoCookies.transaction = None /\ NoCookies.session = None
  BY DEF NoCookies, Cookies
<1>2. NoSession \in SessionRecords /\ NoSession.user = 0
  BY DEF NoSession, SessionRecords, Entries
<1>3. StoreOK
  BY <1>1, <1>2, IdleRecord DEF SessionsInit, StoreOK, Entries
<1>4. LoginsSound
  BY DEF SessionsInit, LoginsSound
<1>5. JarsSound
  BY <1>1 DEF SessionsInit, JarsSound, JarSound
<1>6. CallbacksSound
  BY IdleRecord DEF SessionsInit, CallbacksSound, SoundCallback
<1>7. UsersSound
  <2>1. Known = {} /\ Used = {}
    BY IdleRecord DEF SessionsInit, Known, Used
  <2>2. IsFiniteSet(Known) /\ Cardinality(Known) = 0 /\ Cardinality(Used) = 0
    BY <2>1, FS_EmptySet
  <2> QED BY <1>2, <2>2, IdleRecord DEF SessionsInit, UsersSound
<1> QED BY <1>3, <1>4, <1>5, <1>6, <1>7 DEF SInv

-----------------------------------------------------------------------------
(* The tables of routes.                                                   *)

Services == {"tenant", "organization", "work", "policy", "model", "projection"}

\* A route that changes something stands behind RequireCSRF; the handlers
\* that ask nobody, or that work in stages, are the ones the properties name.
SoundRoute(route) ==
    /\ route.handler.service \in Services
    /\ route.handler.changes => route.csrf
    /\ route.handler.own => route.handler \in {updateComment, deleteComment}
    /\ route.handler.staged => route.handler \in {createConnection, rotateBYOKCredential}

LEMMA ReadRoutes ==
    ASSUME NEW permissions, NEW need, NEW service \in Services
    PROVE  SoundRoute(Get(permissions, Reads(service, need)))
  BY DEF SoundRoute, Get, Reads

LEMMA ChangeRoutes ==
    ASSUME NEW permissions, NEW need, NEW service \in Services
    PROVE  /\ SoundRoute(Post(permissions, Changes(service, need)))
           /\ SoundRoute(Post(permissions, NoInput(Changes(service, need))))
  BY DEF SoundRoute, Post, WithCSRF, Get, Changes, NoInput

LEMMA NamedRoutes ==
    ASSUME NEW permissions
    PROVE  /\ SoundRoute(Post(permissions, updateComment))
           /\ SoundRoute(Post(permissions, deleteComment))
           /\ SoundRoute(Post(permissions, createConnection))
           /\ SoundRoute(Post(permissions, rotateBYOKCredential))
<1>1. ASSUME NEW h \in {updateComment, deleteComment}
      PROVE  h.service \in Services /\ ~h.staged
  BY <1>1 DEF updateComment, deleteComment, Changes, OrOwn, Services
<1>2. ASSUME NEW h \in {createConnection, rotateBYOKCredential}
      PROVE  h.service \in Services /\ ~h.own
  BY <1>2 DEF createConnection, rotateBYOKCredential, Changes, InStages, Services
<1>3. ASSUME NEW h
      PROVE  Post(permissions, h).handler = h /\ Post(permissions, h).csrf = TRUE
  BY DEF Post, WithCSRF, Get
<1> QED BY <1>1, <1>2, <1>3 DEF SoundRoute

LEMMA AllServices ==
    /\ "tenant" \in Services /\ "organization" \in Services /\ "work" \in Services
    /\ "policy" \in Services /\ "model" \in Services /\ "projection" \in Services
  BY DEF Services

\* Every route of the edge, table by table.
LEMMA RoutesAreSound == \A route \in Routes : SoundRoute(route)
<1>1. \A route \in tenantRoutes : SoundRoute(route)
  BY ReadRoutes, ChangeRoutes, AllServices
     DEF tenantRoutes, createTenant, getOperation, listTenants, getTenant, updateTenant,
         archiveTenant, listMembers, addMember, updateMemberRole, removeMember
<1>2. \A route \in organizationRoutes : SoundRoute(route)
  BY ReadRoutes, ChangeRoutes, AllServices
     DEF organizationRoutes, createCompany, getCompany, listCompanies, updateCompany,
         archiveCompany, createAgent, getAgent, listAgents, updateAgent, setAgentManager,
         pauseAgent, resumeAgent, deleteAgent, getAgentHierarchy
<1>3. \A route \in registerGoalRoutes : SoundRoute(route)
  BY ReadRoutes, ChangeRoutes, AllServices
     DEF registerGoalRoutes, createGoal, getGoal, listGoals, updateGoal, changeGoalStatus
<1>4. \A route \in registerProjectRoutes : SoundRoute(route)
  BY ReadRoutes, ChangeRoutes, AllServices
     DEF registerProjectRoutes, createProject, getProject, listProjects, updateProject,
         changeProjectStatus
<1>5. \A route \in registerTaskRoutes : SoundRoute(route)
  BY ReadRoutes, ChangeRoutes, AllServices
     DEF registerTaskRoutes, createTask, getTask, listTasks, updateTask, changeTaskStatus
<1>6. \A route \in registerCollaborationRoutes : SoundRoute(route)
  BY NamedRoutes, ChangeRoutes, AllServices
     DEF registerCollaborationRoutes, addTaskDependency, removeTaskDependency, assignTask,
         unassignTask, addComment, addArtifact, deleteArtifact,
         addChecklistItem, updateChecklistItem, deleteChecklistItem, upsertTaskSchedule,
         deleteTaskSchedule
<1>7. \A route \in registerPolicyRoutes : SoundRoute(route)
  BY ReadRoutes, ChangeRoutes, AllServices
     DEF registerPolicyRoutes, createPolicy, listPolicies, getPolicy, createPolicyVersion,
         activatePolicy, archivePolicy
<1>8. \A route \in registerDecisionRoutes : SoundRoute(route)
  BY ReadRoutes, AllServices DEF registerDecisionRoutes, listDecisions, getDecision
<1>9. \A route \in modelAccessRoutes : SoundRoute(route)
  BY NamedRoutes, ReadRoutes, ChangeRoutes, AllServices
     DEF modelAccessRoutes, listProviders, listConnections, getConnection,
         updateConnection, archiveConnection, listModelOfferings,
         refreshModelCatalog, getModelCatalogRefresh, getAgentModelBinding,
         setAgentModelBinding, removeAgentModelBinding
<1>10. \A route \in projectionRoutes : SoundRoute(route)
  BY ReadRoutes, AllServices
     DEF projectionRoutes, dashboard, companyOverview, listAgentOverviews, listTaskActivity,
         search
<1> QED
  BY <1>1, <1>2, <1>3, <1>4, <1>5, <1>6, <1>7, <1>8, <1>9, <1>10 DEF Routes

-----------------------------------------------------------------------------
(* The tables of codes and statuses.                                       *)

LEMMA OrganizationStatuses ==
    /\ organizationStatus \in [Codes -> {400, 403, 404, 409, 500, 503}]
    /\ organizationStatus["Internal"] = 500 /\ organizationStatus["Unknown"] = 500
    /\ organizationStatus["Unavailable"] = 503
    /\ organizationStatus["DeadlineExceeded"] = 503
  BY DEF organizationStatus, Statuses, Codes

LEMMA OrganizationErrors ==
    /\ organizationErrors \in [Errors -> Codes]
    /\ organizationErrors["other"] = "Internal"
  BY DEF organizationErrors, Errors, Codes

\* What a service may answer for an error, and for one that is not its own.
SoundTable(errors, statuses) ==
    /\ errors \in [Errors -> Codes]
    /\ statuses \in [Codes -> {400, 403, 404, 409, 422, 500, 503}]
    /\ statuses[errors["other"]] \in {500, 503}
    /\ statuses["Unavailable"] = 503 /\ statuses["DeadlineExceeded"] = 503

LEMMA TablesAreSound ==
    ASSUME NEW service \in Services
    PROVE  SoundTable(mapError(service), writeGRPCError(service))
<1>1. SoundTable(tenantErrors, tenantStatus)
  BY OrganizationStatuses, OrganizationErrors
     DEF SoundTable, tenantErrors, tenantStatus, Codes
<1>2. SoundTable(organizationErrors, organizationStatus)
  BY OrganizationStatuses, OrganizationErrors DEF SoundTable
<1>3. SoundTable(workErrors, workStatus)
  <2> DEFINE inactive == [organizationErrors EXCEPT !["inactive"] = "PermissionDenied"]
  <2>1. inactive \in [Errors -> Codes] /\ inactive["other"] = "Internal"
    BY OrganizationErrors DEF Errors, Codes
  <2> HIDE DEF inactive
  <2>2. workErrors = [inactive EXCEPT !["exists"] = "FailedPrecondition"]
    BY DEF workErrors, inactive
  <2>3. workErrors \in [Errors -> Codes] /\ workErrors["other"] = "Internal"
    BY <2>1, <2>2 DEF Errors, Codes
  <2> QED BY OrganizationStatuses, <2>3 DEF SoundTable, workStatus
<1>4. SoundTable(policyErrors, policyStatus)
  <2> DEFINE state == [organizationErrors EXCEPT !["state"] = "AlreadyExists"]
             busy == [state EXCEPT !["busy"] = "ResourceExhausted"]
  <2>1. state \in [Errors -> Codes]
    BY OrganizationErrors DEF Errors, Codes
  <2> HIDE DEF state
  <2>2. busy \in [Errors -> Codes]
    BY <2>1 DEF Errors, Codes
  <2> HIDE DEF busy
  <2>3. policyErrors = [busy EXCEPT !["other"] = "Unknown"]
    BY DEF policyErrors, busy, state
  <2>4. policyErrors \in [Errors -> Codes] /\ policyErrors["other"] = "Unknown"
    BY <2>2, <2>3 DEF Errors, Codes
  <2> QED BY OrganizationStatuses, <2>4 DEF SoundTable, policyStatus
<1>5. SoundTable(modelErrors, modelStatus)
  BY OrganizationStatuses, OrganizationErrors
     DEF SoundTable, modelErrors, modelStatus, Codes, Errors
<1>6. SoundTable(projectionErrors, projectionStatus)
  <2> DEFINE version == [organizationErrors EXCEPT !["version"] = "Unknown"]
             exists == [version EXCEPT !["exists"] = "Unknown"]
             state == [exists EXCEPT !["state"] = "Unknown"]
             busy == [state EXCEPT !["busy"] = "Unknown"]
             known == [organizationStatus EXCEPT !["AlreadyExists"] = 500]
             aborted == [known EXCEPT !["Aborted"] = 500]
  <2>1. version \in [Errors -> Codes]
    BY OrganizationErrors DEF Errors, Codes
  <2> HIDE DEF version
  <2>2. exists \in [Errors -> Codes]
    BY <2>1 DEF Errors, Codes
  <2> HIDE DEF exists
  <2>3. state \in [Errors -> Codes]
    BY <2>2 DEF Errors, Codes
  <2> HIDE DEF state
  <2>4. busy \in [Errors -> Codes]
    BY <2>3 DEF Errors, Codes
  <2> HIDE DEF busy
  <2>5. projectionErrors = [busy EXCEPT !["other"] = "Unknown"]
    BY DEF projectionErrors, busy, state, exists, version
  <2>6. projectionErrors \in [Errors -> Codes] /\ projectionErrors["other"] = "Unknown"
    BY <2>4, <2>5 DEF Errors, Codes
  <2>7. /\ known \in [Codes -> {400, 403, 404, 409, 500, 503}]
        /\ known["Unknown"] = 500 /\ known["Unavailable"] = 503
        /\ known["DeadlineExceeded"] = 503
    BY OrganizationStatuses DEF Codes
  <2> HIDE DEF known
  <2>8. /\ aborted \in [Codes -> {400, 403, 404, 409, 500, 503}]
        /\ aborted["Unknown"] = 500 /\ aborted["Unavailable"] = 503
        /\ aborted["DeadlineExceeded"] = 503
    BY <2>7 DEF Codes
  <2> HIDE DEF aborted
  <2>9. projectionStatus = [aborted EXCEPT !["FailedPrecondition"] = 500]
    BY DEF projectionStatus, aborted, known
  <2>10. /\ projectionStatus \in [Codes -> {400, 403, 404, 409, 500, 503}]
         /\ projectionStatus["Unknown"] = 500 /\ projectionStatus["Unavailable"] = 503
         /\ projectionStatus["DeadlineExceeded"] = 503
    BY <2>8, <2>9 DEF Codes
  <2> QED BY <2>6, <2>10 DEF SoundTable
<1>7. /\ mapError("tenant") = tenantErrors /\ mapError("organization") = organizationErrors
      /\ mapError("work") = workErrors /\ mapError("policy") = policyErrors
      /\ mapError("model") = modelErrors /\ mapError("projection") = projectionErrors
  BY DEF mapError
<1>8. /\ writeGRPCError("tenant") = tenantStatus
      /\ writeGRPCError("organization") = organizationStatus
      /\ writeGRPCError("work") = workStatus /\ writeGRPCError("policy") = policyStatus
      /\ writeGRPCError("model") = modelStatus
      /\ writeGRPCError("projection") = projectionStatus
  BY DEF writeGRPCError
<1> QED BY <1>1, <1>2, <1>3, <1>4, <1>5, <1>6, <1>7, <1>8 DEF Services

-----------------------------------------------------------------------------
(* Requests.                                                               *)

Free == {FreeRequest}
SessionRequests ==
    [step : {"session"}, browser : Browsers, cookie : Callbacks,
     route : Routes, ownPage : BOOLEAN]
ClearRequests == [step : {"clear"}, browser : Browsers]
EdgeRequests ==
    [step : {"permission", "handler"}, user : Nat, route : Routes, ownPage : BOOLEAN]
Handlers == {route.handler : route \in Routes}
HttpStatuses == {0, 200, 400, 403, 404, 409, 422, 500, 503}
AppliedAnswers == {200, 500, 503}
LateAnswers == {503}
CallRequests ==
    [step : {"waiting", "done"}, user : Nat, status : HttpStatuses, handler : Handlers,
     ownPage : BOOLEAN, call : {"received", "allowed", "begun", "applied", "refused"},
     answer : HttpStatuses, held : BOOLEAN, author : BOOLEAN]

RequestForms ==
    Free \cup SessionRequests \cup ClearRequests \cup EdgeRequests \cup CallRequests

\* The author of a comment may do without the permission.
Entitled(q) == q.held \/ (q.author /\ q.handler \in {updateComment, deleteComment})

\* What a call carries: who sent it, whether its user held the permission
\* at a moment the service could see or wrote the comment, and an answer
\* that tells what the service did.
SoundCall(q, role, isActive) ==
    /\ q.handler.changes => q.ownPage
    /\ q.author => q.handler \in {updateComment, deleteComment}
    /\ q.call = "received" /\ EvaluateAuthorization(q.user, q.handler.need, role, isActive)
         => q.held
    /\ q.call \in {"allowed", "begun", "applied"} => Entitled(q)
    /\ q.call = "begun" => q.handler \in {createConnection, rotateBYOKCredential}
    /\ q.step = "waiting" =>
         /\ q.status = 0
         /\ q.call = "applied" => q.answer \in AppliedAnswers
         /\ q.call \in {"begun", "refused"} => q.answer # 200
    /\ q.status = 200 => q.call = "applied"
    /\ q.status \in 400 .. 499 => q.call \in {"begun", "refused"}

\* The request is in one of its forms, and its call is sound.
SoundRequest(q, role, isActive) ==
    \/ q \in Free \cup SessionRequests \cup ClearRequests \cup EdgeRequests
    \/ q \in CallRequests /\ SoundCall(q, role, isActive)

RInv ==
    /\ requests \in [Requests -> RequestForms]
    /\ \A r \in Requests : SoundRequest(requests[r], roles, active)

TenantOK ==
    /\ roles \in [Users -> Roles \cup {None}]
    /\ active \in BOOLEAN
    /\ changes \in 0 .. MaxChanges

IInv == SInv /\ RInv /\ TenantOK

LEMMA HandlersAreSound ==
    ASSUME NEW h \in Handlers
    PROVE  /\ h.service \in Services
           /\ h.own => h \in {updateComment, deleteComment}
           /\ h.staged => h \in {createConnection, rotateBYOKCredential}
  BY RoutesAreSound DEF Handlers, SoundRoute

LEMMA ToldIsSound ==
    ASSUME NEW q \in CallRequests, NEW e \in Errors
    PROVE  /\ Told(q, e) \in {400, 403, 404, 409, 422, 500, 503}
           /\ Told(q, "other") \in {500, 503}
           /\ \A code \in {"DeadlineExceeded", "Unavailable"} :
                 writeGRPCError(q.handler.service)[code] = 503
<1>1. q.handler.service \in Services
  BY HandlersAreSound DEF CallRequests
<1>2. SoundTable(mapError(q.handler.service), writeGRPCError(q.handler.service))
  BY <1>1, TablesAreSound
<1> QED BY <1>2 DEF Told, SoundTable

\* The step tells the form.
LEMMA Forms ==
    ASSUME NEW q, SoundRequest(q, roles, active)
    PROVE  /\ q.step = "session" => q \in SessionRequests
           /\ q.step = "clear" => q \in ClearRequests
           /\ q.step \in {"permission", "handler"} => q \in EdgeRequests
           /\ q.step \in {"waiting", "done"} => q \in CallRequests /\ SoundCall(q, roles, active)
           /\ q.step \notin {"waiting", "done"} =>
                q \in Free \cup SessionRequests \cup ClearRequests \cup EdgeRequests
  BY DEF SoundRequest, Free, FreeRequest, SessionRequests, ClearRequests, EdgeRequests,
         CallRequests

LEMMA RequestMoves ==
    ASSUME RInv, NEW r \in Requests, NEW q, Become(r, q), SoundRequest(q, roles, active),
           UNCHANGED <<roles, active>>
    PROVE  RInv'
<1>1. q \in RequestForms
  BY DEF SoundRequest, RequestForms
<1>2. requests' = [requests EXCEPT ![r] = q] /\ requests \in [Requests -> RequestForms]
  BY DEF Become, RInv
<1>3. requests' \in [Requests -> RequestForms]
  BY <1>1, <1>2
<1>4. requests'[r] = q /\ \A s \in Requests \ {r} : requests'[s] = requests[s]
  BY <1>2
<1>5. \A s \in Requests : SoundRequest(requests'[s], roles, active)
  BY <1>4 DEF RInv
<1>6. \A s \in Requests : SoundRequest(requests'[s], roles', active')
  BY <1>5
<1> QED BY <1>3, <1>6 DEF RInv

LEMMA FreeIsSound == SoundRequest(FreeRequest, roles, active)
  BY DEF SoundRequest, Free

LEMMA SendStep ==
    ASSUME IInv, NEW r \in Requests, Send(r)
    PROVE  RInv'
<1>1. PICK b \in Browsers, route \in Routes, ownPage \in BOOLEAN :
        /\ jar[b].session # None
        /\ ownPage \/ route.handler.changes
        /\ Become(r, [step |-> "session", browser |-> b, cookie |-> jar[b].session,
                      route |-> route, ownPage |-> ownPage])
  BY DEF Send
<1> DEFINE q == [step |-> "session", browser |-> b, cookie |-> jar[b].session,
                 route |-> route, ownPage |-> ownPage]
<1>2. jar[b].session \in Callbacks
  BY <1>1 DEF IInv, SInv, StoreOK, Cookies
<1>3. q \in SessionRequests
  BY <1>2 DEF SessionRequests
<1>4. Become(r, q) /\ UNCHANGED <<roles, active>>
  BY <1>1 DEF Send, tenantVars
<1> HIDE DEF q
<1> QED BY <1>3, <1>4, RequestMoves DEF SoundRequest, IInv

\* The session of the cookie names the user.
LEMMA RequireSessionStep ==
    ASSUME IInv, NEW r \in Requests, RequireSession(r)
    PROVE  SInv' /\ RInv'
<1> DEFINE q == requests[r]
           u == GetSession(q.cookie)
           p == [step |-> "permission", user |-> u, route |-> q.route, ownPage |-> q.ownPage]
           k == [step |-> "clear", browser |-> q.browser]
<1>1. q \in SessionRequests
  BY Forms DEF RequireSession, IInv, RInv
<1>2. q.cookie \in Callbacks /\ q.browser \in Browsers
  BY <1>1 DEF SessionRequests
<1>3. u \in Nat
  BY <1>2, SessionsAssumption DEF GetSession, IInv, SInv, StoreOK, SessionRecords
<1>4. p \in EdgeRequests /\ k \in ClearRequests
  BY <1>1, <1>3 DEF SessionRequests, EdgeRequests, ClearRequests
<1>5. /\ UNCHANGED <<loginVars, storeVars, callbacks, jar, roles, active>>
      /\ Become(r, p) \/ Become(r, k)
      /\ sessions' = sessions \/ sessions' = DropExpired(q.cookie)
  BY DEF RequireSession, tenantVars
<1>6. RInv'
  <2> HIDE DEF p, k, q, u
  <2> QED BY <1>4, <1>5, RequestMoves DEF SoundRequest, IInv
<1>7. PICK e \in Entries : DropExpired(q.cookie) = [sessions EXCEPT ![q.cookie].entry = e]
  BY <1>2, DropMoves DEF IInv
<1>8. SInv'
  BY <1>2, <1>5, <1>7, AgeStep DEF IInv
<1> QED BY <1>6, <1>8

LEMMA ClearCookiesStep ==
    ASSUME IInv, NEW r \in Requests, ClearCookies(r)
    PROVE  SInv' /\ RInv'
<1>1. requests[r].browser \in Browsers
  BY Forms DEF ClearCookies, IInv, RInv, ClearRequests
<1>2. /\ UNCHANGED <<codes, begunIn, provedBy, identityUser, users, locked, callbacks,
                     transactions, sessions, roles, active>>
      /\ Become(r, FreeRequest)
      /\ jar' = clearSessionCookies(jar, requests[r].browser)
  BY DEF ClearCookies, Refuse, loginVars, storeVars, tenantVars
<1>3. RInv'
  BY <1>2, FreeIsSound, RequestMoves DEF IInv
<1>4. SInv'
  <2>1. /\ jar' \in [Browsers -> Cookies]
        /\ \A a \in Browsers : /\ jar'[a].transaction = jar[a].transaction
                               /\ jar'[a].session \in {jar[a].session, None}
    BY <1>1, <1>2, CookieCleared DEF IInv
  <2>2. sessions' \in [Callbacks -> SessionRecords] /\ transactions' \in [Logins -> Entries]
    BY <1>2 DEF IInv, SInv, StoreOK
  <2> QED BY <1>2, <2>1, <2>2, ForgetStep DEF IInv
<1> QED BY <1>3, <1>4

LEMMA RequireAnyPermissionStep ==
    ASSUME IInv, NEW r \in Requests, RequireAnyPermission(r)
    PROVE  RInv'
<1> DEFINE q == requests[r]
           p == [q EXCEPT !.step = "handler"]
<1>1. q \in EdgeRequests
  BY Forms DEF RequireAnyPermission, IInv, RInv
<1>2. p \in EdgeRequests
  BY <1>1 DEF EdgeRequests
<1>3. (Become(r, p) \/ Become(r, FreeRequest)) /\ UNCHANGED <<roles, active>>
  BY DEF RequireAnyPermission, Refuse, tenantVars
<1> HIDE DEF p
<1> QED BY <1>2, <1>3, FreeIsSound, RequestMoves DEF SoundRequest, IInv

\* A changing handler is reached through RequireCSRF only.
LEMMA ForwardStep ==
    ASSUME IInv, NEW r \in Requests, Forward(r)
    PROVE  RInv'
<1> DEFINE q == requests[r]
           h == q.route.handler
           p(author) ==
               [step |-> "waiting", user |-> q.user, status |-> 0, handler |-> h,
                ownPage |-> q.ownPage, call |-> "received", answer |-> 0,
                held |-> Allowed(q.user, h.need), author |-> author]
<1>1. q \in EdgeRequests
  BY Forms DEF Forward, IInv, RInv
<1>2. q.user \in Nat /\ q.route \in Routes /\ q.ownPage \in BOOLEAN /\ h \in Handlers
  BY <1>1 DEF EdgeRequests, Handlers
<1>3. Allowed(q.user, h.need) \in BOOLEAN
  BY DEF Allowed, EvaluateAuthorization
<1>4. ASSUME NEW author \in BOOLEAN PROVE p(author) \in CallRequests
  BY <1>2, <1>3 DEF CallRequests, HttpStatuses
<1>5. /\ UNCHANGED <<roles, active>>
      /\ \/ /\ RequireCSRF(q)
            /\ \E author \in BOOLEAN : (author => h.own) /\ Become(r, p(author))
         \/ Become(r, FreeRequest)
  BY DEF Forward, Refuse, tenantVars
<1>6. ASSUME RequireCSRF(q), NEW author \in BOOLEAN, author => h.own
      PROVE  SoundCall(p(author), roles, active)
  <2>1. h.changes => q.ownPage
    BY <1>2, <1>6, RoutesAreSound DEF SoundRoute, RequireCSRF
  <2>2. author => h \in {updateComment, deleteComment}
    BY <1>2, <1>6, HandlersAreSound
  <2> QED BY <2>1, <2>2 DEF SoundCall, Allowed
<1> HIDE DEF p
<1> QED BY <1>4, <1>5, <1>6, FreeIsSound, RequestMoves DEF SoundRequest, IInv

\* The changes of a call: what the service did, and its answer.
Moved(q, call, answer) == [[q EXCEPT !.call = call] EXCEPT !.answer = answer]

\* The handler's answer ends the request.
Ended(q, status) ==
    [[[q EXCEPT !.step = "done"] EXCEPT !.status = status] EXCEPT !.answer = 0]

\* A call the service has not finished moves on.
LEMMA MovedStep ==
    ASSUME IInv, NEW r \in Requests, NEW q \in CallRequests, SoundCall(q, roles, active),
           q.call \in {"received", "allowed"},
           NEW call \in {"allowed", "begun", "applied", "refused"},
           NEW answer \in HttpStatuses,
           Become(r, Moved(q, call, answer)), UNCHANGED <<roles, active>>,
           call # "refused" => Entitled(q),
           call = "begun" => q.handler \in {createConnection, rotateBYOKCredential},
           call = "applied" => answer \in AppliedAnswers,
           call \in {"begun", "refused"} => answer # 200
    PROVE  RInv'
<1> DEFINE p == Moved(q, call, answer)
<1>1. /\ p \in CallRequests
      /\ p.call = call /\ p.answer = answer /\ p.held = q.held /\ p.author = q.author
      /\ p.step = q.step /\ p.status = q.status /\ p.handler = q.handler
      /\ p.ownPage = q.ownPage /\ p.user = q.user
  BY DEF CallRequests, Moved
<1>2. Become(r, p)
  OBVIOUS
<1> HIDE DEF p
<1>3. q.status \in HttpStatuses
  BY DEF CallRequests
<1>4. call # "refused" => Entitled(p)
  BY <1>1 DEF Entitled
<1>5. SoundCall(p, roles, active)
  BY <1>1, <1>3, <1>4 DEF SoundCall
<1> QED BY <1>1, <1>2, <1>5, RequestMoves DEF SoundRequest, IInv

\* It is refused, or given up after its first stage.
LEMMA RefusedStep ==
    ASSUME IInv, NEW r \in Requests, NEW q \in CallRequests, SoundCall(q, roles, active),
           q.call \in {"received", "allowed"}, NEW e \in Errors, NEW end \in {"begun", "refused"},
           end = "begun" => q.handler.staged /\ q.call = "allowed",
           Become(r, [q EXCEPT !.call = end, !.answer = Told(q, e)]),
           UNCHANGED <<roles, active>>
    PROVE  RInv'
<1>1. Moved(q, end, Told(q, e)) = [q EXCEPT !.call = end, !.answer = Told(q, e)]
  BY DEF CallRequests, Moved
<1>2. Become(r, Moved(q, end, Told(q, e)))
  BY <1>1
<1>3. Told(q, e) \in HttpStatuses /\ Told(q, e) # 200
  BY ToldIsSound DEF HttpStatuses
<1>4. end = "begun" => q.handler \in {createConnection, rotateBYOKCredential}
  BY HandlersAreSound DEF CallRequests
<1>5. end # "refused" => Entitled(q)
  BY DEF SoundCall
<1> QED BY <1>2, <1>3, <1>4, <1>5, MovedStep

\* The service's own check decides on the roles of this moment, and for the
\* author of a comment there is none.
LEMMA RequireStep ==
    ASSUME IInv, NEW r \in Requests, Require(r)
    PROVE  RInv'
<1> DEFINE q == requests[r]
           need == q.handler.need
<1>1. q \in CallRequests /\ SoundCall(q, roles, active) /\ q.call = "received"
  BY Forms DEF Require, Called, IInv, RInv
<1>2. q.answer \in HttpStatuses /\ q.held \in BOOLEAN
  BY <1>1 DEF CallRequests
<1>3. UNCHANGED <<roles, active>>
  BY DEF Require, tenantVars
<1>4. ASSUME Allowed(q.user, need) \/ q.author, Become(r, [q EXCEPT !.call = "allowed"])
      PROVE  RInv'
  <2>1. Moved(q, "allowed", q.answer) = [q EXCEPT !.call = "allowed"]
    BY <1>1 DEF CallRequests, Moved
  <2>2. Become(r, Moved(q, "allowed", q.answer)) /\ Entitled(q)
    BY <1>1, <1>4, <2>1 DEF SoundCall, Allowed, Entitled
  <2> HIDE DEF q
  <2> QED BY <1>1, <1>2, <1>3, <2>2, MovedStep
<1>5. ASSUME NEW e \in Errors,
             Become(r, [q EXCEPT !.call = "refused", !.answer = Told(q, e)])
      PROVE  RInv'
  <2> HIDE DEF q
  <2> QED BY <1>1, <1>3, <1>5, RefusedStep
<1>6. "inactive" \in Errors /\ "forbidden" \in Errors /\ "other" \in Errors
  BY DEF Errors
<1>7. \/ (Allowed(q.user, need) \/ q.author) /\ Become(r, [q EXCEPT !.call = "allowed"])
      \/ \E e \in Errors : Become(r, [q EXCEPT !.call = "refused", !.answer = Told(q, e)])
  BY <1>6 DEF Require
<1> QED BY <1>4, <1>5, <1>7

\* What the service did is what its answer says, but for a failure and for
\* work in stages.
LEMMA ServeStep ==
    ASSUME IInv, NEW r \in Requests, Serve(r)
    PROVE  RInv'
<1> DEFINE q == requests[r]
<1>1. q \in CallRequests /\ SoundCall(q, roles, active) /\ q.call = "allowed"
  BY Forms DEF Serve, Called, IInv, RInv
<1>2. Entitled(q)
  BY <1>1 DEF SoundCall
<1>3. UNCHANGED <<roles, active>>
  BY DEF Serve, tenantVars
<1>4. ASSUME NEW answer \in HttpStatuses \cap AppliedAnswers,
             Become(r, [q EXCEPT !.call = "applied", !.answer = answer])
      PROVE  RInv'
  <2>1. Moved(q, "applied", answer) = [q EXCEPT !.call = "applied", !.answer = answer]
    BY <1>1 DEF CallRequests, Moved
  <2>2. Become(r, Moved(q, "applied", answer))
    BY <1>4, <2>1
  <2> HIDE DEF q
  <2> QED BY <1>1, <1>2, <1>3, <2>2, MovedStep
<1>5. ASSUME NEW e \in Errors, NEW end \in {"begun", "refused"}, end = "begun" => q.handler.staged,
             Become(r, [q EXCEPT !.call = end, !.answer = Told(q, e)])
      PROVE  RInv'
  <2> HIDE DEF q
  <2> QED BY <1>1, <1>3, <1>5, RefusedStep
<1>6. {200, Told(q, "other")} \subseteq HttpStatuses \cap AppliedAnswers
  <2>1. "other" \in Errors
    BY DEF Errors
  <2>2. Told(q, "other") \in {500, 503}
    BY <1>1, <2>1, ToldIsSound
  <2> QED BY <2>2 DEF HttpStatuses, AppliedAnswers
<1>7. \/ \E answer \in {200, Told(q, "other")} :
            Become(r, [q EXCEPT !.call = "applied", !.answer = answer])
      \/ \E e \in Errors, end \in {"begun", "refused"} :
            /\ end = "begun" => q.handler.staged
            /\ Become(r, [q EXCEPT !.call = end, !.answer = Told(q, e)])
  BY DEF Serve
<1> QED BY <1>4, <1>5, <1>6, <1>7

\* A status is final only when the service has finished.
LEMMA EndedStep ==
    ASSUME IInv, NEW r \in Requests, NEW q \in CallRequests, SoundCall(q, roles, active),
           q.step = "waiting", NEW status \in HttpStatuses,
           status \in LateAnswers \/ (Finished(q) /\ status = q.answer),
           Become(r, Ended(q, status)), UNCHANGED <<roles, active>>
    PROVE  RInv'
<1> DEFINE p == Ended(q, status)
<1>0. 0 \in HttpStatuses
  BY DEF HttpStatuses
<1>1. /\ p \in CallRequests
      /\ p.step = "done" /\ p.status = status /\ p.answer = 0
      /\ p.call = q.call /\ p.held = q.held /\ p.author = q.author /\ p.handler = q.handler
      /\ p.ownPage = q.ownPage /\ p.user = q.user
  BY <1>0 DEF CallRequests, Ended
<1>2. Become(r, p)
  OBVIOUS
<1> HIDE DEF p
<1>3. SoundCall(p, roles, active)
  BY <1>1 DEF SoundCall, Entitled, Finished, AppliedAnswers, LateAnswers
<1> QED BY <1>1, <1>2, <1>3, RequestMoves DEF SoundRequest, IInv

LEMMA ReceiveStep ==
    ASSUME IInv, NEW r \in Requests, Receive(r)
    PROVE  RInv'
<1> DEFINE q == requests[r]
<1>1. q \in CallRequests /\ SoundCall(q, roles, active) /\ q.step = "waiting"
  BY Forms DEF Receive, IInv, RInv
<1>2. q.answer \in HttpStatuses
  BY <1>1 DEF CallRequests
<1>3. UNCHANGED <<roles, active>>
  BY DEF Receive, tenantVars
<1>4. ASSUME NEW status
      PROVE  /\ Ended(q, status) = [q EXCEPT !.step = "done", !.status = status, !.answer = 0]
             /\ Ended(q, status) = [q EXCEPT !.step = "done", !.answer = 0, !.status = status]
  BY <1>1 DEF CallRequests, Ended
<1>5. \A code \in {"DeadlineExceeded", "Unavailable"} :
         writeGRPCError(q.handler.service)[code] = 503
  <2>1. "other" \in Errors
    BY DEF Errors
  <2> QED BY <1>1, <2>1, ToldIsSound
<1>6. ASSUME Finished(q),
             Become(r, [q EXCEPT !.step = "done", !.status = q.answer, !.answer = 0])
      PROVE  RInv'
  <2>1. Become(r, Ended(q, q.answer))
    BY <1>4, <1>6
  <2> HIDE DEF q
  <2> QED BY <1>1, <1>2, <1>3, <1>6, <2>1, EndedStep
<1>7. ASSUME NEW status \in LateAnswers,
             Become(r, [q EXCEPT !.step = "done", !.answer = 0, !.status = status])
      PROVE  RInv'
  <2>1. Ended(q, status) = [q EXCEPT !.step = "done", !.answer = 0, !.status = status]
    BY <1>4
  <2>2. Become(r, Ended(q, status))
    BY <1>7, <2>1 DEF Become
  <2>3. status \in HttpStatuses
    BY DEF HttpStatuses, LateAnswers
  <2> HIDE DEF q
  <2>4. status \in LateAnswers \/ (Finished(q) /\ status = q.answer)
    BY <1>7
  <2> QED BY <1>1, <1>3, <2>2, <2>3, <2>4, EndedStep
<1>8. \A code \in {"DeadlineExceeded", "Unavailable"} :
         writeGRPCError(q.handler.service)[code] \in LateAnswers
  BY <1>5 DEF LateAnswers
<1> QED BY <1>6, <1>7, <1>8 DEF Receive

\* Held is brought up to date for the calls the service has not checked.
LEMMA AdministerStep ==
    ASSUME IInv, NEW newRoles, NEW isActive, Administer(newRoles, isActive)
    PROVE  RInv'
<1> DEFINE Now(q) == EvaluateAuthorization(q.user, q.handler.need, newRoles, isActive)
<1>1. /\ roles' = newRoles /\ active' = isActive
      /\ requests' = [r \in Requests |->
            IF ~Called(r, "received") THEN requests[r]
            ELSE [requests[r] EXCEPT !.held = @ \/ Now(requests[r])]]
  BY DEF Administer
<1>2. ASSUME NEW r \in Requests
      PROVE  SoundRequest(requests'[r], newRoles, isActive) /\ requests'[r] \in RequestForms
  <2> DEFINE q == requests[r]
             p == [q EXCEPT !.held = q.held \/ Now(q)]
  <2>1. /\ SoundRequest(q, roles, active) /\ q \in RequestForms
        /\ requests'[r] = IF ~Called(r, "received") THEN q ELSE p
    BY <1>1 DEF IInv, RInv
  <2>2. CASE q.step \notin {"waiting", "done"}
    <3>1. q \in Free \cup SessionRequests \cup ClearRequests \cup EdgeRequests
      BY <2>1, <2>2, Forms
    <3>2. requests'[r] = q
      BY <2>1, <2>2 DEF Called
    <3> QED BY <2>1, <3>1, <3>2 DEF SoundRequest
  <2>3. ASSUME q.step \in {"waiting", "done"}
        PROVE  SoundRequest(requests'[r], newRoles, isActive) /\ requests'[r] \in RequestForms
    <3>1. q \in CallRequests /\ SoundCall(q, roles, active)
      BY <2>1, <2>3, Forms
    <3>2. CASE q.call # "received"
      <4>1. requests'[r] = q
        BY <2>1, <3>2 DEF Called
      <4>2. SoundCall(q, newRoles, isActive)
        BY <3>1, <3>2 DEF SoundCall
      <4> QED BY <2>1, <3>1, <4>1, <4>2 DEF SoundRequest
    <3>3. ASSUME q.call = "received"
          PROVE  SoundRequest(requests'[r], newRoles, isActive) /\ requests'[r] \in RequestForms
      <4>1. requests'[r] = p
        BY <2>1, <2>3, <3>3 DEF Called
      <4>2. (q.held \/ Now(q)) \in BOOLEAN
        OBVIOUS
      <4> DEFINE held == q.held \/ Now(q)
      <4> HIDE DEF held
      <4>3. p = [q EXCEPT !.held = held] /\ held \in BOOLEAN
        BY <4>2 DEF held
      <4>4. /\ p \in CallRequests /\ p.held = held
            /\ p.step = q.step /\ p.status = q.status /\ p.answer = q.answer
            /\ p.call = q.call /\ p.handler = q.handler /\ p.author = q.author
            /\ p.ownPage = q.ownPage /\ p.user = q.user
        BY <3>1, <4>3 DEF CallRequests
      <4>5. Now(p) => held
        BY <4>4 DEF held
      <4> HIDE DEF p, q
      <4>6. SoundCall(p, newRoles, isActive)
        BY <3>1, <3>3, <4>4, <4>5 DEF SoundCall
      <4> QED BY <4>1, <4>4, <4>6 DEF SoundRequest, RequestForms
    <3> QED BY <3>2, <3>3
  <2> QED BY <2>2, <2>3
<1>3. requests' \in [Requests -> RequestForms]
  BY <1>1, <1>2
<1> QED BY <1>1, <1>2, <1>3 DEF RInv

LEMMA ReleaseStep ==
    ASSUME IInv, NEW r \in Requests, Release(r)
    PROVE  RInv'
<1>1. Become(r, FreeRequest) /\ UNCHANGED <<roles, active>>
  BY DEF Release, tenantVars
<1> QED BY <1>1, FreeIsSound, RequestMoves DEF IInv

-----------------------------------------------------------------------------
(* The invariant, and what it shows.                                       *)

LEMMA TenantStays ==
    ASSUME IInv, [Next]_vars
    PROVE  TenantOK'
<1>1. ASSUME NEW r \in Requests, RequestStep(r)
      PROVE  UNCHANGED <<roles, active, changes>>
  BY <1>1 DEF RequestStep, RequireSession, ClearCookies, RequireAnyPermission, Forward,
              Require, Serve, Receive, Release, tenantVars
<1>2. ASSUME NEW r \in Requests, Send(r)
      PROVE  UNCHANGED <<roles, active, changes>>
  BY <1>2 DEF Send, tenantVars
<1>3. ASSUME NEW newRoles \in [Users -> Roles \cup {None}], NEW isActive \in BOOLEAN,
             Administer(newRoles, isActive)
      PROVE  TenantOK'
  BY <1>3, EdgeAssumption DEF Administer, TenantOK, IInv
<1>4. ASSUME NEW u \in Users PROVE [roles EXCEPT ![u] = None] \in [Users -> Roles \cup {None}]
  BY DEF IInv, TenantOK
<1>5. UNCHANGED <<roles, active, changes>> => TenantOK'
  BY DEF IInv, TenantOK
<1>6. CASE UNCHANGED vars
  BY <1>5, <1>6 DEF vars, edgeVars
<1>7. CASE SessionsNext /\ UNCHANGED edgeVars
  BY <1>5, <1>7 DEF edgeVars
<1>8. CASE \E r \in Requests : RequestStep(r)
  BY <1>1, <1>5, <1>8
<1>9. CASE \E r \in Requests : Send(r)
  BY <1>2, <1>5, <1>9
<1>10. CASE \E u \in Users : roles[u] # None /\ Administer([roles EXCEPT ![u] = None], active)
  BY <1>3, <1>4, <1>10 DEF IInv, TenantOK
<1>11. CASE active /\ Administer(roles, FALSE)
  BY <1>3, <1>11 DEF IInv, TenantOK
<1> QED BY <1>6, <1>7, <1>8, <1>9, <1>10, <1>11 DEF Next

\* A step that leaves the logins alone keeps what is known of them.
LEMMA SessionsStay ==
    ASSUME SInv, UNCHANGED sessionVars
    PROVE  SInv'
<1>1. UNCHANGED <<codes, begunIn, provedBy, identityUser, users, locked, callbacks,
                  transactions, sessions, jar>>
  BY DEF sessionVars, loginVars, storeVars
<1>2. /\ transactions' \in [Logins -> Entries] /\ jar' \in [Browsers -> Cookies]
      /\ sessions' \in [Callbacks -> SessionRecords]
  BY <1>1 DEF SInv, StoreOK
<1> QED BY <1>1, <1>2, ForgetStep

LEMMA RequestsStay ==
    ASSUME RInv, UNCHANGED edgeVars
    PROVE  RInv'
<1>1. UNCHANGED <<requests, roles, active>>
  BY DEF edgeVars
<1> QED BY <1>1 DEF RInv

LEMMA StepKeepsIInv ==
    ASSUME IInv, [Next]_vars
    PROVE  IInv'
<1>1. ASSUME NEW r \in Requests, RequestStep(r)
      PROVE  SInv' /\ RInv'
  <2>1. ASSUME RequireAnyPermission(r) \/ Forward(r) \/ Require(r) \/ Serve(r) \/ Receive(r)
                 \/ Release(r)
        PROVE  SInv' /\ RInv'
    <3>1. UNCHANGED sessionVars
      BY <2>1 DEF RequireAnyPermission, Forward, Require, Serve, Receive, Release
    <3>2. RInv'
      BY <2>1, RequireAnyPermissionStep, ForwardStep, RequireStep, ServeStep, ReceiveStep,
         ReleaseStep
    <3> QED BY <3>1, <3>2, SessionsStay DEF IInv
  <2> QED BY <1>1, <2>1, RequireSessionStep, ClearCookiesStep DEF RequestStep
<1>2. ASSUME NEW r \in Requests, Send(r)
      PROVE  SInv' /\ RInv'
  BY <1>2, SendStep, SessionsStay DEF Send, IInv
<1>3. ASSUME NEW newRoles, NEW isActive, Administer(newRoles, isActive)
      PROVE  SInv' /\ RInv'
  BY <1>3, AdministerStep, SessionsStay DEF Administer, IInv
<1>4. CASE UNCHANGED vars
  BY <1>4, SessionsStay, RequestsStay, TenantStays DEF vars, IInv
<1>5. CASE SessionsNext /\ UNCHANGED edgeVars
  BY <1>5, SessionsStep, RequestsStay, TenantStays DEF IInv
<1>6. CASE \E r \in Requests : RequestStep(r)
  BY <1>1, <1>6, TenantStays DEF IInv
<1>7. CASE \E r \in Requests : Send(r)
  BY <1>2, <1>7, TenantStays DEF IInv
<1>8. CASE \E u \in Users : roles[u] # None /\ Administer([roles EXCEPT ![u] = None], active)
  BY <1>3, <1>8, TenantStays DEF IInv
<1>9. CASE active /\ Administer(roles, FALSE)
  BY <1>3, <1>9, TenantStays DEF IInv
<1> QED BY <1>4, <1>5, <1>6, <1>7, <1>8, <1>9 DEF Next

LEMMA InitHasIInv ==
    ASSUME EdgeInit
    PROVE  IInv
<1>1. SInv
  BY SessionsStart DEF EdgeInit
<1>2. RInv
  BY DEF EdgeInit, RInv, SoundRequest, RequestForms, Free
<1>3. TenantOK
  BY EdgeAssumption DEF EdgeInit, TenantOK
<1> QED BY <1>1, <1>2, <1>3 DEF IInv

\* The inductive invariant holds in every reachable state.
THEOREM InvariantHolds == Spec => []IInv
<1>1. EdgeInit => IInv
  BY InitHasIInv
<1>2. IInv /\ [Next]_vars => IInv'
  BY StepKeepsIInv
<1> QED BY <1>1, <1>2, PTL DEF Spec

\* Every variable of logins and of the tenant keeps its type; in
\* particular no more users are made than callbacks are answered
\* (createUser, repository.go).
THEOREM TypeCorrect == Spec => []EdgeTypeOK
<1>1. ASSUME IInv PROVE EdgeTypeOK
  <2>1. SInv /\ TenantOK
    BY <1>1 DEF IInv
  <2>2. users \in Nat /\ users <= Cardinality(Callbacks) /\ Cardinality(Callbacks) \in Nat
    <3>1. Used \subseteq Callbacks
      BY DEF Used
    <3>2. /\ Cardinality(Used) <= Cardinality(Callbacks)
          /\ Cardinality(Used) \in Nat /\ Cardinality(Callbacks) \in Nat
      BY <3>1, FS_Subset, FS_CardinalityType, SessionsAssumption
    <3>3. users \in Nat /\ users <= Cardinality(Used)
      BY <2>1 DEF SInv, StoreOK, UsersSound
    <3> QED BY <3>2, <3>3
  <2>3. \A n \in Nat : n <= users => n \in Users \cup {0}
    BY <2>2 DEF Users
  <2>4. sessions \in [Callbacks -> [entry : Entries, user : Users \cup {0}]]
    <3>1. ASSUME NEW c \in Callbacks PROVE sessions[c] \in [entry : Entries, user : Users \cup {0}]
      <4>1. sessions[c] \in SessionRecords /\ sessions[c].user <= users
        BY <2>1 DEF SInv, StoreOK, UsersSound
      <4>2. sessions[c].user \in Users \cup {0}
        BY <2>3, <4>1 DEF SessionRecords
      <4> QED BY <4>1, <4>2 DEF SessionRecords
    <3> QED BY <2>1, <3>1 DEF SInv, StoreOK
  <2>5. callbacks \in [Callbacks ->
          [step : Steps, browser : Browsers \cup {None},
           state : Logins \cup {None}, code : Logins \cup {None},
           binding : Logins \cup {None}, identity : Identities \cup {None},
           user : Users \cup {0}, ok : BOOLEAN]]
    <3>1. ASSUME NEW c \in Callbacks
          PROVE  callbacks[c] \in
            [step : Steps, browser : Browsers \cup {None},
             state : Logins \cup {None}, code : Logins \cup {None},
             binding : Logins \cup {None}, identity : Identities \cup {None},
             user : Users \cup {0}, ok : BOOLEAN]
      <4>1. callbacks[c] \in CallbackRecords /\ callbacks[c].user <= users
        BY <2>1 DEF SInv, StoreOK, UsersSound
      <4>2. callbacks[c].user \in Users \cup {0}
        BY <2>3, <4>1 DEF CallbackRecords
      <4> QED BY <4>1, <4>2 DEF CallbackRecords
    <3> QED BY <2>1, <3>1 DEF SInv, StoreOK
  <2>6. identityUser \in [Identities -> Users \cup {0}]
    BY <2>1, <2>3 DEF SInv, StoreOK, UsersSound
  <2>7. users \in Users \cup {0}
    BY <2>2, <2>3
  <2>8. SessionsTypeOK
    BY <2>1, <2>4, <2>5, <2>6, <2>7 DEF SInv, StoreOK, Cookies, SessionsTypeOK
  <2> QED BY <2>1, <2>8 DEF TenantOK, EdgeTypeOK
<1> QED BY <1>1, InvariantHolds, PTL

\* A browser holds only sessions of a person who authenticated in a login
\* this browser began, however many logins and callbacks run at once
\* (CompleteLogin, service.go).
THEOREM EarnedSessions == Spec => []SessionsAreEarned
<1>1. ASSUME IInv PROVE SessionsAreEarned
  <2>1. ASSUME NEW b \in Browsers, jar[b].session # None PROVE Earned(b, jar[b].session)
    BY <1>1, <2>1 DEF IInv, SInv, JarsSound, JarSound
  <2> QED BY <2>1 DEF Earned, SessionsAreEarned
<1> QED BY <1>1, InvariantHolds, PTL

\* Racing first logins of one person make one user, and no user is left
\* that no identity leads to (ResolveUser, repository.go).
THEOREM UsersAreUnique == Spec => []OneUserPerIdentity
<1>1. ASSUME IInv PROVE OneUserPerIdentity
  BY <1>1 DEF IInv, SInv, UsersSound, Known, OneUserPerIdentity
<1> QED BY <1>1, InvariantHolds, PTL

LEMMA ForwardedCalls ==
    ASSUME IInv, NEW r \in Forwarded
    PROVE  requests[r] \in CallRequests /\ SoundCall(requests[r], roles, active)
  BY Forms DEF IInv, RInv, Forwarded

\* No service is asked to change anything for a page that is not the web
\* application's: for every route of the edge (RequireCSRF,
\* middleware.go).
THEOREM ChangesAreIntended == Spec => []MutationsAreIntended
<1>1. ASSUME IInv PROVE MutationsAreIntended
  BY <1>1, ForwardedCalls DEF MutationsAreIntended, SoundCall
<1> QED BY <1>1, InvariantHolds, PTL

\* A service works only for a user who held the permission at some moment
\* after the service had the call, for any number of requests and any
\* revocations in between (Require in each service); but it works for the
\* author of a comment, whatever has been revoked (collaboration.go
\* authorizeCommentMutation).
THEOREM RevocationsCount == Spec => []RevokedIsRefused
<1>1. ASSUME IInv PROVE RevokedIsRefused
  BY <1>1, ForwardedCalls DEF RevokedIsRefused, SoundCall, Entitled
<1> QED BY <1>1, InvariantHolds, PTL

\* A success or a client error that a browser was told stays true, for
\* every service's table of errors and every handler's table of statuses
\* (writeGRPCError); a client error of the two handlers whose calls are
\* worked off in stages says no more than that the call was not finished
\* (byok.go CreateBYOKConnection, RotateBYOKCredential).
THEOREM AnswersAreTrue == Spec => []FinalAnswersAreTrue
<1>1. ASSUME IInv PROVE FinalAnswersAreTrue
  BY <1>1, ForwardedCalls DEF FinalAnswersAreTrue, SoundCall
<1> QED BY <1>1, InvariantHolds, PTL
=============================================================================
