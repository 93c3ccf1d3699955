------------------------------- MODULE Paging -------------------------------
(***************************************************************************)
(* The paged lists of the services, and a client that reads one from its   *)
(* first page to its last while rows are added, leave and move.            *)
(*                                                                         *)
(* A page is a query: the rows beyond the cursor, in the list's order, up  *)
(* to a limit.  The answer carries a token that stands for the key of its  *)
(* last row, and the client sends it with the next request until an answer *)
(* has none.  Nothing is kept between two requests.  The lists differ in   *)
(* their order, in how they find out that there is more, in what they      *)
(* answer at the end, and in whether their tokens can be read back.        *)
(*                                                                         *)
(* A row is its identifier; keys are pairs of a time (the rank, for the    *)
(* search) and an identifier, with time 0 where the list is ordered by     *)
(* identifier alone.                                                       *)
(***************************************************************************)
EXTENDS Integers, FiniteSets

CONSTANTS
    Rows,         \* the identifiers of the rows
    Times,        \* the times a row may carry
    Sizes,        \* the page sizes a client may ask for
    DefaultSize,  \* the page size where the client names none
    MaxSize,      \* the largest page size
    MaxChanges    \* bound: changes of the table during the walk

ASSUME PagingAssumption ==
    /\ Rows \subseteq Nat /\ IsFiniteSet(Rows)
    /\ Times \subseteq Nat \ {0}
    /\ Sizes \subseteq Int
    /\ DefaultSize \in Nat \ {0} /\ MaxSize \in Nat \ {0}
    /\ MaxChanges \in Nat

NoCursor == <<>>

(***************************************************************************)
(* The queries: the order of the rows, whether their place in it changes,  *)
(* and whether a row may leave the list (archived, deleted or removed).    *)
(***************************************************************************)
ById(order) == [timed |-> FALSE, order |-> order, moves |-> FALSE, leaves |-> TRUE]
ByTime(order) == [timed |-> TRUE, order |-> order, moves |-> FALSE, leaves |-> FALSE]

queryTenants     == ById("descending")
queryMembers     == ById("ascending")
queryCompanies   == ById("ascending")
queryAgents      == ById("ascending")
queryGoals       == ById("ascending")
queryProjects    == ById("ascending")
queryTasks       == ById("ascending")
queryPolicies    == ById("ascending")
queryConnections == ById("ascending")
queryOfferings   == [ById("ascending") EXCEPT !.leaves = FALSE]
queryDecisions   == ByTime("descending")

\* An agent moves to the front whenever an event about it is projected; a
\* search document moves whenever its text or its time changes.
queryAgentOverviews == [ByTime("descending") EXCEPT !.moves = TRUE]
queryTaskActivity   == ByTime("descending")
querySearch         == [ByTime("mixed") EXCEPT !.moves = TRUE, !.leaves = TRUE]

(***************************************************************************)
(* The services: a token is given when the page is full, when one row more *)
(* than the page was found, or when the page is not empty.                 *)
(***************************************************************************)
List(name, query, more) ==
    [name |-> name, query |-> query, more |-> more, repeats |-> FALSE,
     readable |-> TRUE]

ListTenants        == List("tenants", queryTenants, "extra")
ListMembers        == List("members", queryMembers, "extra")
ListCompanies      == List("companies", queryCompanies, "full")
ListAgents         == List("agents", queryAgents, "full")
ListGoals          == List("goals", queryGoals, "full")
ListProjects       == List("projects", queryProjects, "full")
ListTasks          == List("tasks", queryTasks, "full")
ListConnections    == List("connections", queryConnections, "extra")
ListModelOfferings == List("offerings", queryOfferings, "extra")
ListDecisions      == List("decisions", queryDecisions, "any")

\* The policy token is written as a bare identifier and read as JSON.
ListPolicies == [List("policies", queryPolicies, "any") EXCEPT !.readable = FALSE]

\* At the end the read models answer with the cursor they were asked with.
RepeatsLast(list) == [list EXCEPT !.repeats = TRUE]

ListAgentOverviews == RepeatsLast(List("agent overviews", queryAgentOverviews, "extra"))
ListTaskActivity   == RepeatsLast(List("task activity", queryTaskActivity, "extra"))
Search             == RepeatsLast(List("search", querySearch, "extra"))

Lists == {ListTenants, ListMembers, ListCompanies, ListAgents, ListGoals,
          ListProjects, ListTasks, ListPolicies, ListDecisions,
          ListConnections, ListModelOfferings, ListAgentOverviews,
          ListTaskActivity, Search}

\* A walk is "reading", or "repeating" the last page, until it ends.
Going == {"reading", "repeating"}

VARIABLES
    list,      \* the list the client reads
    listed,    \* the rows that match the query now
    times,     \* the time of each row
    changes,   \* how often the table changed (bounded)
    state,     \* the walk, and whether the last page was reached
    cursor,    \* the key the client's token stands for
    count,     \* how often each row was returned: 0, 1, or 2 for more
    steady     \* history: rows that were in the list, at their place, since the walk began

table == <<listed, times, changes, steady>>
walk == <<state, cursor, count>>
pagingVars == <<list, table, walk>>

Keys == (Times \cup {0}) \X Rows

PagingTypeOK ==
    /\ list \in Lists
    /\ listed \subseteq Rows
    /\ times \in [Rows -> Times]
    /\ changes \in 0 .. MaxChanges
    /\ state \in Going \cup {"done", "refused"}
    /\ cursor \in Keys \cup {NoCursor}
    /\ count \in [Rows -> 0 .. 2]
    /\ steady \subseteq listed

PagingInit ==
    /\ list \in Lists
    /\ listed \in SUBSET Rows
    /\ times \in [Rows -> Times]
    /\ list.query.timed \/ \A r, s \in Rows : times[r] = times[s]
    /\ changes = 0
    /\ state = "reading"
    /\ cursor = NoCursor
    /\ count = [r \in Rows |-> 0]
    /\ steady = listed

(***************************************************************************)
(* One page.                                                               *)
(***************************************************************************)
Key(r) == <<IF list.query.timed THEN times[r] ELSE 0, r>>

Less(k, m) == k[1] < m[1] \/ (k[1] = m[1] /\ k[2] < m[2])

\* ORDER BY.
Precedes(k, m) ==
    CASE list.query.order = "ascending"  -> Less(k, m)
      [] list.query.order = "descending" -> Less(m, k)
      [] list.query.order = "mixed"      -> m[1] < k[1] \/ (m[1] = k[1] /\ k[2] < m[2])

\* WHERE: the search compares all columns downwards although it sorts its
\* last ones upwards.
Follows(k, at) == IF list.query.order = "ascending" THEN Less(at, k) ELSE Less(k, at)

Matching == {r \in listed : cursor = NoCursor \/ Follows(Key(r), cursor)}

\* LIMIT.
Limited(limit) ==
    {r \in Matching :
        Cardinality({s \in Matching : Precedes(Key(s), Key(r))}) < limit}

LastOf(page) == CHOOSE r \in page : \A s \in page : s = r \/ Precedes(Key(s), Key(r))

normalizePageSize(size) ==
    IF size <= 0 THEN DefaultSize ELSE IF size > MaxSize THEN MaxSize ELSE size

HasMore(limit) ==
    CASE list.more = "full"  -> Cardinality(Limited(limit)) = limit
      [] list.more = "extra" -> Cardinality(Limited(limit + 1)) > limit
      [] list.more = "any"   -> Limited(limit) # {}

\* Mutant: the token is made of the extra row that only shows there is more.
TokenOfExtra(limit) ==
    IF HasMore(limit) THEN Key(LastOf(Limited(limit + 1)))
    ELSE IF list.repeats THEN cursor ELSE NoCursor

\* Mutant: every list answers at its end as the read models do.
RepeatsAlways(limit) ==
    IF HasMore(limit) THEN Key(LastOf(Limited(limit))) ELSE cursor

NextToken(limit) ==
    IF HasMore(limit) THEN Key(LastOf(Limited(limit)))
    ELSE IF list.repeats THEN cursor ELSE NoCursor

\* The token of the request is decoded first; a page is one transaction.
ReadPage(size) ==
    LET limit == normalizePageSize(size) IN
    /\ state \in Going
    /\ cursor = NoCursor \/ list.readable
    /\ cursor' = NextToken(limit)
    /\ state' = IF cursor' = NoCursor THEN "done"
                ELSE IF HasMore(limit) THEN "reading" ELSE "repeating"
    /\ count' = [r \in Rows |->
          IF r \in Limited(limit) /\ count[r] < 2 THEN count[r] + 1 ELSE count[r]]
    /\ UNCHANGED <<list, table>>

RefusePage ==
    /\ state \in Going
    /\ cursor # NoCursor /\ ~list.readable
    /\ state' = "refused"
    /\ UNCHANGED <<list, table, cursor, count>>

(***************************************************************************)
(* Meanwhile, in the table.                                                *)
(***************************************************************************)
Change ==
    /\ state \in Going
    /\ changes < MaxChanges
    /\ changes' = changes + 1
    /\ UNCHANGED <<list, walk>>

\* A row is added, with a time that may lie before that of rows already
\* there: it is taken before the transaction commits.
AddRow(r, t) ==
    /\ Change
    /\ r \notin listed
    /\ list.query.timed \/ t = times[r]
    /\ listed' = listed \cup {r}
    /\ times' = [times EXCEPT ![r] = t]
    /\ UNCHANGED steady

RemoveRow(r) ==
    /\ Change
    /\ list.query.leaves
    /\ r \in listed
    /\ listed' = listed \ {r}
    /\ steady' = steady \ {r}
    /\ UNCHANGED times

MoveRow(r, t) ==
    /\ Change
    /\ list.query.moves
    /\ r \in listed
    /\ t > times[r]
    /\ times' = [times EXCEPT ![r] = t]
    /\ steady' = steady \ {r}
    /\ UNCHANGED listed

PagingNext ==
    \/ \E size \in Sizes : ReadPage(size)
    \/ RefusePage
    \/ \E r \in Rows, t \in Times : AddRow(r, t) \/ MoveRow(r, t)
    \/ \E r \in Rows : RemoveRow(r)

\* The client goes on as long as it is given a token.
PagingSpec == PagingInit /\ [][PagingNext]_pagingVars
             /\ WF_pagingVars((\E size \in Sizes : ReadPage(size)) \/ RefusePage)

(***************************************************************************)
(* Properties.                                                             *)
(***************************************************************************)
\* A walk that reached the last page has returned every row that was in
\* the list all the time, and one that came to its end has returned it
\* once, whatever was added, left or moved meanwhile, and whatever page
\* sizes the client asked for (ListGoals and the other List methods).  The
\* search is left out: its comparison does not follow its order, so it
\* skips rows of equal rank and time.
EveryRowIsListed ==
    state \in {"done", "repeating"} /\ list # Search =>
        \A r \in steady : count[r] > 0 /\ (state = "done" => count[r] = 1)

\* A client that asks for the next page as long as it is given a token
\* comes to an end once rows stop changing, on every list but the three
\* read models of the projection, which repeat their last page
\* (projection/internal/adapters/postgres/queries.go:585).
WalksEnd == ~list.repeats ~> state \notin Going
=============================================================================
