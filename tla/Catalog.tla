---- MODULE Catalog ----
(***************************************************************************)
(* The model catalog of the model access service and the bindings of       *)
(* agents to its offerings: connections that become active ask for a       *)
(* refresh, catalog workers claim refreshes under a lease, discover the    *)
(* models of the provider and replace the connection's offerings; owners   *)
(* bind an agent to offerings; the gateway resolves the binding into the   *)
(* routes of an inference plan.  Every transaction, and every statement of *)
(* the read-committed plan query, is a step of its own.                    *)
(*                                                                         *)
(* Offerings are told apart by connection and model; names, modalities and *)
(* prices are left out.  One tenant and one agent: no statement touches    *)
(* two.  The credential life of a BYOK connection is module Credentials.   *)
(***************************************************************************)
EXTENDS Naturals, Sequences, SequencesExt, FiniteSets, TLC

CONSTANTS
    Connections,     \* connections of the tenant
    TypeOf,          \* connection type of each
    Models,          \* models a provider may offer
    UsableModels,    \* those an agent can run on
    Pools,           \* provider pools: key, regions, priority
    Region,          \* region of the tenant
    Refreshes,       \* refreshes that can be asked for, by idempotency key
    Workers,         \* catalog workers
    Granted,         \* permissions of each actor
    MaxVersion,      \* bound: versions of the binding
    RowsFit          \* whether the rows the code inserts suit their tables

ASSUME ConnectionsAssumption ==
    TypeOf \in [Connections -> {"platform_managed", "byok", "private_endpoint"}]
ASSUME ModelsAssumption == UsableModels \subseteq Models
ASSUME PoolsAssumption ==
    Pools \subseteq [key : Nat \ {0}, regions : SUBSET STRING, priority : Nat]
ASSUME CatalogBoundAssumption == MaxVersion \in Nat /\ RowsFit \in BOOLEAN

None == "none"
AnyRegion == "*"
NoOffering == <<>>
Offerings == Connections \X Models
MaxFallbacks == 5

VARIABLES
    connection,      \* model_access_connections: status, pool
    offering,        \* model_access_model_offerings: status
    generation,      \* model_access_catalog_states
    refresh,         \* model_access_catalog_refreshes
    queue,           \* model_access_catalog_refresh_queue: refreshes that wait
    worker,          \* catalog workers
    binding,         \* model_access_agent_bindings with its fallbacks
    revisions,       \* model_access_agent_binding_revisions
    setter,          \* a SetAgentModelBinding in progress
    plan             \* a ResolveInferencePlan in progress

catalog == <<connection, offering, generation, refresh, queue>>
bindings == <<binding, revisions, setter>>
vars == <<catalog, worker, bindings, plan>>

NoBinding == [status |-> None, primary |-> NoOffering, fast |-> NoOffering,
              fallbacks |-> <<>>, version |-> 0]
NoPlan == [pc |-> "idle", todo |-> <<>>, routes |-> <<>>,
           archived |-> {}]
NoWork == [pc |-> "idle", refresh |-> None, found |-> {}]
NoInput == [pc |-> "idle", input |-> NoBinding, unchecked |-> <<>>]

OptionalOfferings == Offerings \cup {NoOffering}
Bindings == [status : {None, "active", "removed"}, primary : OptionalOfferings,
             fast : OptionalOfferings, fallbacks : Seq(Offerings), version : Nat]

TypeOK ==
    /\ connection \in [Connections -> [status : {None, "draft", "active", "archived"},
                                       pool : Nat]]
    /\ offering \in [Offerings -> {None, "available", "unavailable"}]
    /\ generation \in [Connections -> Nat]
    /\ refresh \in [Refreshes -> [status : {None, "pending", "succeeded", "failed"},
                                  connection : Connections \cup {None}, generation : Nat]]
    /\ queue \subseteq Refreshes
    /\ worker \in [Workers -> [pc : {"idle", "read", "inactive", "discover", "apply", "fail"},
                               refresh : Refreshes \cup {None}, found : SUBSET Models]]
    /\ binding \in Bindings
    /\ revisions \in Seq(Bindings)
    /\ setter \in [pc : {"idle", "check", "write"}, input : Bindings, unchecked : Seq(Offerings)]
    /\ plan \in [pc : {"idle", "primary", "fast", "fallbacks"},
                 todo : Seq(Offerings), routes : Seq(Offerings), archived : SUBSET Connections]

Init ==
    /\ connection = [c \in Connections |-> [status |-> None, pool |-> 0]]
    /\ offering = [o \in Offerings |-> None]
    /\ generation = [c \in Connections |-> 0]
    /\ refresh = [r \in Refreshes |-> [status |-> None, connection |-> None, generation |-> 0]]
    /\ queue = {}
    /\ worker = [w \in Workers |-> NoWork]
    /\ binding = NoBinding
    /\ revisions = <<>>
    /\ setter = NoInput
    /\ plan = NoPlan

-----------------------------------------------------------------------------
(* Authorization: the tenant service is asked for the actor's permissions. *)

Require(actor, permission) == permission \in Granted[actor]

\* Platform-managed models need the entitlement beside the permission.
RequireWithContext(actor, permission) ==
    Require(actor, permission) /\ "platform_managed_models" \in Granted[actor]

Somebody(permission) == \E actor \in DOMAIN Granted : Require(actor, permission)

-----------------------------------------------------------------------------
(* Connections. *)

\* A refresh row and its queue row.
EnqueueCatalogRefresh(r, c) ==
    /\ refresh' = [refresh EXCEPT ![r] = [status |-> "pending", connection |-> c, generation |-> 0]]
    /\ queue' = queue \cup {r}

\* A connection that becomes active asks for its first refresh.
EnqueueOnActivation(c) ==
    \E r \in Refreshes : refresh[r].status = None /\ EnqueueCatalogRefresh(r, c)

Serves(pool) == pool.regions \cap {Region, AnyRegion} # {}
Exact(pool) == Region \in pool.regions
Precedes(p, q) ==
    \/ Exact(p) /\ ~Exact(q)
    \/ Exact(p) = Exact(q) /\ p.priority > q.priority
    \/ Exact(p) = Exact(q) /\ p.priority = q.priority /\ p.key <= q.key

\* Exact region first, then the highest priority, then the key.
selectPlatformManagedPool ==
    LET eligible == {p \in Pools : Serves(p)}
    IN  {p \in eligible : \A q \in eligible : Precedes(p, q)}

\* The transaction: a platform-managed connection is active at once, any
\* other waits as a draft.
InsertConnection(c) ==
    IF TypeOf[c] = "platform_managed"
      THEN /\ RowsFit
           /\ \E p \in selectPlatformManagedPool :
                connection' = [connection EXCEPT ![c] = [status |-> "active", pool |-> p.key]]
           /\ EnqueueOnActivation(c)
      ELSE /\ connection' = [connection EXCEPT ![c].status = "draft"]
           /\ UNCHANGED <<refresh, queue>>

CreateConnection(c) ==
    /\ connection[c].status = None
    /\ \E actor \in DOMAIN Granted :
         IF TypeOf[c] = "platform_managed"
           THEN RequireWithContext(actor, "connection_create")
           ELSE Require(actor, "connection_create")
    /\ InsertConnection(c)
    /\ UNCHANGED <<offering, generation, worker, bindings, plan>>

\* The end of module Credentials' verification, as the catalog sees it.
ActivateBYOK(c) ==
    /\ RowsFit
    /\ TypeOf[c] = "byok"
    /\ connection[c].status = "draft"
    /\ connection' = [connection EXCEPT ![c].status = "active"]
    /\ EnqueueOnActivation(c)
    /\ UNCHANGED <<offering, generation, worker, bindings, plan>>

\* UPDATE of the connection's available offerings.
Unavailable(c) ==
    [o \in Offerings |-> IF o[1] = c /\ offering[o] = "available" THEN "unavailable" ELSE offering[o]]

ArchiveConnection(c) ==
    /\ Somebody("connection_archive")
    /\ connection[c].status \in {"draft", "active"}
    /\ connection' = [connection EXCEPT ![c].status = "archived"]
    /\ offering' = Unavailable(c)
    /\ UNCHANGED <<generation, refresh, queue, worker, bindings, plan>>

-----------------------------------------------------------------------------
(* Refreshing the catalog of a connection. *)

\* A repeated key finds its refresh, so a key asks once.
RefreshModelCatalog(r, c) ==
    /\ Somebody("catalog_refresh")
    /\ connection[c].status = "active"
    /\ refresh[r].status = None
    /\ EnqueueCatalogRefresh(r, c)
    /\ UNCHANGED <<connection, offering, generation, worker, bindings, plan>>

Step(w, pc) == worker' = [worker EXCEPT ![w].pc = pc]
ConnectionOf(w) == refresh[worker[w].refresh].connection

\* The row is free, or the lease of whoever claimed it has lapsed, which a
\* slow worker does not notice: two workers can hold the same refresh.
ClaimCatalogRefresh(w) ==
    \E r \in queue :
       worker' = [worker EXCEPT ![w] = [pc |-> "read", refresh |-> r, found |-> {}]]

ProcessBatch(w) ==
    /\ worker[w].pc = "idle"
    /\ ClaimCatalogRefresh(w)
    /\ UNCHANGED <<catalog, bindings, plan>>

\* The worker reads the connection once and works on what it read.
ReadConnection(w) ==
    /\ worker[w].pc = "read"
    /\ Step(w, IF connection[ConnectionOf(w)].status = "active" THEN "discover" ELSE "inactive")
    /\ UNCHANGED <<catalog, bindings, plan>>

\* The connection is gone: a transaction of its own takes its offerings away.
MarkConnectionOfferingsUnavailable(w) ==
    /\ worker[w].pc = "inactive"
    /\ offering' = Unavailable(ConnectionOf(w))
    /\ Step(w, "fail")
    /\ UNCHANGED <<connection, generation, refresh, queue, bindings, plan>>

\* The curated offerings of the platform.
LoadPlatformOfferings == {Models}

\* Whatever the provider lists today.
DiscoverModels == SUBSET Models

Discover(w) ==
    /\ worker[w].pc = "discover"
    /\ \E found \in IF TypeOf[ConnectionOf(w)] = "platform_managed"
                      THEN LoadPlatformOfferings ELSE DiscoverModels :
         worker' = [worker EXCEPT ![w].pc = "apply", ![w].found = found]
    /\ UNCHANGED <<catalog, bindings, plan>>

DiscoveryFails(w) ==
    /\ worker[w].pc = "discover"
    /\ Step(w, "fail")
    /\ UNCHANGED <<catalog, bindings, plan>>

\* Mutant: every refresh takes itself for the first.
FirstGeneration(c) == 1

\* The generation under the row lock of the catalog state.
NextGeneration(c) == generation[c] + 1

\* Discovered models become available, disappeared ones unavailable.
Upserted(c, found) ==
    [o \in Offerings |->
        IF o[1] = c /\ o[2] \in found THEN "available" ELSE Unavailable(c)[o]]

ApplyCatalogRefresh(r, c, found) ==
    /\ generation' = [generation EXCEPT ![c] = NextGeneration(c)]
    /\ offering' = Upserted(c, found)
    /\ refresh' = [refresh EXCEPT ![r].status = "succeeded", ![r].generation = NextGeneration(c)]
    /\ queue' = queue \ {r}
    /\ UNCHANGED connection

Apply(w) ==
    /\ worker[w].pc = "apply"
    /\ ApplyCatalogRefresh(worker[w].refresh, ConnectionOf(w), worker[w].found)
    /\ worker' = [worker EXCEPT ![w] = NoWork]
    /\ UNCHANGED <<bindings, plan>>

FailCatalogRefresh(w) ==
    /\ worker[w].pc = "fail"
    /\ refresh' = [refresh EXCEPT ![worker[w].refresh].status = "failed"]
    /\ queue' = queue \ {worker[w].refresh}
    /\ worker' = [worker EXCEPT ![w] = NoWork]
    /\ UNCHANGED <<connection, offering, generation, bindings, plan>>

\* The error of any call, or a crash: the row, if it is still there, can be
\* claimed again.  An error message too long for error_code is one, so a
\* discovery that fails may be retried instead of reported.
ReleaseCatalogRefresh(w) ==
    /\ worker[w].pc # "idle"
    /\ worker' = [worker EXCEPT ![w] = NoWork]
    /\ UNCHANGED <<catalog, bindings, plan>>

-----------------------------------------------------------------------------
(* Binding an agent to offerings. *)

\* What a request may ask for, with the version of the binding its client
\* has read; an older one would be refused.
Inputs ==
    [status : {None}, primary : Offerings, fast : OptionalOfferings,
     fallbacks : {<<>>} \cup {<<o>> : o \in Offerings}, version : {binding.version}]

Named(input) ==
    <<input.primary>> \o (IF input.fast = NoOffering THEN <<>> ELSE <<input.fast>>) \o input.fallbacks

\* External: the status the organization service answers for the agent.
GetAgent == {"active", "deleting", "deleted"}

\* The agent's status is read once.  No offering may be named twice, and
\* fallbacks are at most five.
SetAgentModelBinding ==
    /\ setter.pc = "idle"
    /\ Somebody("binding_update")
    /\ \E status \in GetAgent : status \notin {"deleting", "deleted"}
    /\ \E input \in Inputs :
         /\ IsInjective(Named(input))
         /\ Len(input.fallbacks) <= MaxFallbacks
         /\ setter' = [pc |-> "check", input |-> input, unchecked |-> Named(input)]
    /\ UNCHANGED <<catalog, worker, binding, revisions, plan>>

\* Each offering is read in a transaction of its own, before the write.
GetOffering ==
    /\ setter.pc = "check"
    /\ LET o == Head(setter.unchecked)
       IN  setter' = IF offering[o] = "available" /\ o[2] \in UsableModels
                       THEN [setter EXCEPT !.unchecked = Tail(@),
                                           !.pc = IF Len(setter.unchecked) = 1 THEN "write" ELSE @]
                       ELSE NoInput
    /\ UNCHANGED <<catalog, worker, binding, revisions, plan>>

Revise(next) ==
    /\ binding' = next
    /\ revisions' = Append(revisions, next)

\* Optimistic concurrency: a version that is not the expected one answers an
\* error, and so does an empty list the driver sends as NULL.
SetAgentBinding ==
    /\ setter.pc = "write"
    /\ setter' = NoInput
    /\ IF /\ setter.input.version = binding.version
          /\ binding.version < MaxVersion
          /\ RowsFit \/ setter.input.fallbacks # <<>>
         THEN Revise([setter.input EXCEPT !.status = "active", !.version = binding.version + 1])
         ELSE UNCHANGED <<binding, revisions>>
    /\ UNCHANGED <<catalog, worker, plan>>

\* Mutant: the fallback rows outlive the binding.
KeepFallbacks ==
    /\ binding.status = "active"
    /\ binding.version < MaxVersion
    /\ RowsFit
    /\ binding' = [binding EXCEPT !.status = "removed", !.version = @ + 1]
    /\ revisions' = Append(revisions, [binding' EXCEPT !.fallbacks = <<>>])

\* The revision of a removal lists no fallbacks: the row read does not hold
\* them, and their table is emptied.
RemoveAgentBinding ==
    /\ binding.status = "active"
    /\ binding.version < MaxVersion
    /\ RowsFit
    /\ Revise([binding EXCEPT !.status = "removed", !.fallbacks = <<>>, !.version = @ + 1])

RemoveAgentModelBinding ==
    /\ Somebody("binding_remove")
    /\ RemoveAgentBinding
    /\ UNCHANGED <<catalog, worker, setter, plan>>

-----------------------------------------------------------------------------
(* Resolving an inference plan: one read-committed transaction, each of     *)
(* whose statements sees what is committed when it runs.                    *)

\* Mutant: the route is judged by its offering alone.
fetchOffering(o) == offering[o] = "available" /\ o[2] \in UsableModels

\* The join of an offering with its connection.
fetchRoute(o) ==
    /\ offering[o] = "available"
    /\ o[2] \in UsableModels
    /\ connection[o[1]].status = "active"

Archived == {c \in Connections : connection[c].status = "archived"}

ResolveInferencePlan ==
    /\ plan.pc = "idle"
    /\ binding.status = "active"
    /\ plan' = [pc |-> "primary",
                todo |-> Named([binding EXCEPT !.fallbacks = <<>>]),
                routes |-> <<>>, archived |-> Archived]
    /\ UNCHANGED <<catalog, worker, bindings>>

\* Without its primary route there is no plan.
FetchPrimaryRoute ==
    /\ plan.pc = "primary"
    /\ plan' = IF fetchRoute(Head(plan.todo))
                 THEN [plan EXCEPT !.pc = "fast", !.todo = Tail(@), !.routes = <<Head(plan.todo)>>]
                 ELSE NoPlan
    /\ UNCHANGED <<catalog, worker, bindings>>

\* The other routes are left out when they cannot be served.
FetchRoute(pc) ==
    /\ plan.pc = pc
    /\ plan.todo # <<>>
    /\ LET o == Head(plan.todo)
       IN  plan' = [plan EXCEPT !.todo = Tail(@),
                                !.routes = IF fetchRoute(o) THEN Append(@, o) ELSE @]
    /\ UNCHANGED <<catalog, worker, bindings>>

\* The fallback rows are those of the binding at this moment.
ReadFallbacks ==
    /\ plan.pc = "fast"
    /\ plan.todo = <<>>
    /\ plan' = [plan EXCEPT !.pc = "fallbacks", !.todo = binding.fallbacks]
    /\ UNCHANGED <<catalog, worker, bindings>>

PlanReturned ==
    /\ plan.pc = "fallbacks"
    /\ plan.todo = <<>>
    /\ plan' = NoPlan
    /\ UNCHANGED <<catalog, worker, bindings>>

-----------------------------------------------------------------------------
WorkerStep(w) ==
    \/ ReadConnection(w)
    \/ MarkConnectionOfferingsUnavailable(w)
    \/ Discover(w)
    \/ DiscoveryFails(w)
    \/ Apply(w)
    \/ FailCatalogRefresh(w)
    \/ ReleaseCatalogRefresh(w)

Next ==
    \/ \E c \in Connections :
         \/ CreateConnection(c)
         \/ ActivateBYOK(c)
         \/ ArchiveConnection(c)
         \/ \E r \in Refreshes : RefreshModelCatalog(r, c)
    \/ \E w \in Workers : ProcessBatch(w) \/ WorkerStep(w)
    \/ SetAgentModelBinding
    \/ GetOffering
    \/ SetAgentBinding
    \/ RemoveAgentModelBinding
    \/ ResolveInferencePlan
    \/ FetchPrimaryRoute
    \/ FetchRoute("fast")
    \/ ReadFallbacks
    \/ FetchRoute("fallbacks")
    \/ PlanReturned

Spec == Init /\ [][Next]_vars

-----------------------------------------------------------------------------
(* Properties. *)

\* Every generation of a connection's catalog belongs to one refresh: no two
\* refreshes, however their leases overlap, report the same one, and none
\* reports one the catalog has not reached.
GenerationsAreDistinct ==
    \A r, s \in Refreshes :
       /\ refresh[r].generation > 0
       /\ refresh[r].connection = refresh[s].connection
       => /\ refresh[r].generation <= generation[refresh[r].connection]
          /\ r # s => refresh[r].generation # refresh[s].generation

\* The revisions are the whole history of the binding: one for every
\* version, the last being what the tables hold, fallback rows included.
RevisionsTellTheBinding ==
    /\ Len(revisions) = binding.version
    /\ \A v \in DOMAIN revisions : revisions[v].version = v
    /\ revisions # <<>> => Last(revisions) = binding

\* A plan never routes to a connection that was archived before the plan was
\* asked for, even where a late refresh has made the archived connection's
\* offerings available again.
PlanAvoidsArchived ==
    \A i \in DOMAIN plan.routes : plan.routes[i][1] \notin plan.archived
====
