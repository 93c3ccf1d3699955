------------------------------ MODULE History ------------------------------
(***************************************************************************)
(* What a service promises to those who read its events: the life of an    *)
(* aggregate is a sequence of versions, and nothing about it changes but   *)
(* by the transaction that takes the next version and announces it.        *)
(* Requests, what they have read and when they decided are not seen.       *)
(*                                                                         *)
(* Membership implements this specification, and Work does as long as no   *)
(* client names a version later than the row that is read for it.  What    *)
(* follows from it (VersionsGrow) is why Projection may keep the newest    *)
(* version of an entity and forget the others.                             *)
(***************************************************************************)
EXTENDS Naturals, Sequences

CONSTANT Entities      \* identifiers of the aggregates

VARIABLES
    content,           \* what the service keeps of each
    version,           \* the version of its row
    announced          \* the versions in its events, in the order of commits

historyVars == <<content, version, announced>>

\* An aggregate that is there already may have announced its version here, or
\* elsewhere before.
HistoryInit ==
    /\ version \in [Entities -> Nat]
    /\ announced \in [Entities -> Seq(Nat)]
    /\ \A x \in Entities : announced[x] \in {<< >>, <<version[x]>>}

\* The transaction of one change: the row, its version and its event.
ChangeAndAnnounce(x) ==
    /\ version' = [version EXCEPT ![x] = @ + 1]
    /\ announced' = [announced EXCEPT ![x] = Append(@, version[x] + 1)]
    /\ \A y \in Entities \ {x} : content'[y] = content[y]

HistoryNext == \E x \in Entities : ChangeAndAnnounce(x)

HistorySpec == HistoryInit /\ [][HistoryNext]_historyVars

-----------------------------------------------------------------------------
(* The events of an aggregate have growing versions, and the last one that *)
(* was announced is the version of the row: who has seen it has seen the   *)
(* row as it is (insertOutbox of the services).                            *)
VersionsGrow ==
    \A x \in Entities :
       LET told == announced[x] IN
       /\ \A j, k \in DOMAIN told : j < k => told[j] < told[k]
       /\ told # << >> => told[Len(told)] = version[x]
=============================================================================
