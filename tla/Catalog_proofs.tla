-------------------------- MODULE Catalog_proofs --------------------------
(***************************************************************************)
(* What the catalog keeps for any number of connections, refreshes and     *)
(* workers: no two refreshes report the same generation, the revisions are *)
(* the history of the binding, and a plan leaves out what was archived     *)
(* before it was asked for.                                                *)
(*                                                                         *)
(* Three invariants, for three groups of tables.  RefreshInv: a row that   *)
(* waits or that a worker holds, perhaps beside another worker, was asked  *)
(* for and names its connection.  BindingInv: an active binding, and an    *)
(* input that is being checked, have a primary offering.  PlanInv: what    *)
(* was archived when the plan began is archived still.                     *)
(***************************************************************************)
EXTENDS Catalog, SequenceTheorems, TLAPS

Statuses == {None, "pending", "succeeded", "failed"}
RefreshRows == [status : Statuses, connection : Connections \cup {None}, generation : Nat]
WorkerRows == [pc : {"idle", "read", "inactive", "discover", "apply", "fail"},
               refresh : Refreshes \cup {None}, found : SUBSET Models]
ConnectionRows == [status : {None, "draft", "active", "archived"}, pool : Nat]
SetterRows == [pc : {"idle", "check", "write"}, input : Bindings, unchecked : Seq(Offerings)]
PlanRows == [pc : {"idle", "primary", "fast", "fallbacks"},
             todo : Seq(Offerings), routes : Seq(Offerings), archived : SUBSET Connections]

\* A refresh that was asked for names a connection; one that was not has
\* produced nothing.
SoundRefresh(row) ==
    IF row.status = None THEN row.generation = 0 ELSE row.connection \in Connections

\* Work is on a refresh that was asked for.
SoundWork(row, refreshes) ==
    row.pc # "idle" => row.refresh \in Refreshes /\ refreshes[row.refresh].status # None

RefreshInv ==
    /\ generation \in [Connections -> Nat]
    /\ refresh \in [Refreshes -> RefreshRows]
    /\ queue \subseteq Refreshes
    /\ worker \in [Workers -> WorkerRows]
    /\ \A r \in Refreshes : SoundRefresh(refresh[r])
    /\ \A r \in queue : refresh[r].status # None
    /\ \A w \in Workers : SoundWork(worker[w], refresh)
    /\ GenerationsAreDistinct

TablesInv ==
    /\ connection \in [Connections -> ConnectionRows]
    /\ offering \in [Offerings -> {None, "available", "unavailable"}]

BindingInv ==
    /\ binding \in Bindings
    /\ revisions \in Seq(Bindings)
    /\ setter \in SetterRows
    /\ binding.status = "active" => binding.primary \in Offerings
    /\ setter.pc # "idle" => setter.input.primary \in Offerings
    /\ setter.pc = "check" => setter.unchecked # <<>>
    /\ RevisionsTellTheBinding

PlanInv ==
    /\ plan \in PlanRows
    /\ plan.archived \subseteq Archived
    /\ plan.pc = "primary" => plan.todo # <<>>
    /\ PlanAvoidsArchived

IInv == TablesInv /\ RefreshInv /\ BindingInv /\ PlanInv

-----------------------------------------------------------------------------
(* Refreshes. *)

LEMMA EnqueueKeeps ==
    ASSUME RefreshInv, NEW r \in Refreshes, refresh[r].status = None, NEW c \in Connections,
           EnqueueCatalogRefresh(r, c), UNCHANGED <<generation, worker>>
    PROVE  RefreshInv'
<1> DEFINE row == [status |-> "pending", connection |-> c, generation |-> 0]
<1>1. row \in RefreshRows /\ row.status = "pending" /\ row.connection = c /\ row.generation = 0
  BY DEF RefreshRows, Statuses
<1>2. refresh' = [refresh EXCEPT ![r] = row] /\ queue' = queue \cup {r}
  BY DEF EnqueueCatalogRefresh
<1> HIDE DEF row
<1>3. /\ refresh' \in [Refreshes -> RefreshRows] /\ queue' \subseteq Refreshes
      /\ refresh'[r] = row /\ \A s \in Refreshes \ {r} : refresh'[s] = refresh[s]
  BY <1>1, <1>2 DEF RefreshInv
<1>4. ASSUME NEW s \in Refreshes PROVE SoundRefresh(refresh'[s])
  BY <1>1, <1>3 DEF RefreshInv, SoundRefresh, None
<1>5. ASSUME NEW s \in queue' PROVE refresh'[s].status # None
  BY <1>1, <1>2, <1>3 DEF RefreshInv, None
<1>6. ASSUME NEW w \in Workers PROVE SoundWork(worker'[w], refresh')
  BY <1>1, <1>3 DEF RefreshInv, SoundWork, None
<1>7. GenerationsAreDistinct'
  <2> SUFFICES ASSUME NEW s \in Refreshes, NEW t \in Refreshes,
                      refresh'[s].generation > 0,
                      refresh'[s].connection = refresh'[t].connection
               PROVE  /\ refresh'[s].generation <= generation'[refresh'[s].connection]
                      /\ s # t => refresh'[s].generation # refresh'[t].generation
    BY DEF GenerationsAreDistinct
  <2>1. s # r /\ refresh'[s] = refresh[s] /\ refresh[s].generation \in Nat
    BY <1>1, <1>3 DEF RefreshInv, RefreshRows
  <2>2. refresh[s].generation <= generation[refresh[s].connection]
    BY <2>1 DEF RefreshInv, GenerationsAreDistinct
  <2>3. CASE t = r
    BY <1>1, <1>3, <2>1, <2>2, <2>3
  <2>4. CASE t # r
    BY <1>3, <2>1, <2>2, <2>4 DEF RefreshInv, GenerationsAreDistinct
  <2> QED BY <2>3, <2>4
<1> QED BY <1>3, <1>4, <1>5, <1>6, <1>7 DEF RefreshInv

LEMMA WorkKeeps ==
    ASSUME RefreshInv, UNCHANGED <<generation, refresh, queue>>, NEW w \in Workers,
           NEW row \in WorkerRows, worker' = [worker EXCEPT ![w] = row],
           SoundWork(row, refresh)
    PROVE  RefreshInv'
<1>1. worker' \in [Workers -> WorkerRows]
  BY DEF RefreshInv
<1>2. ASSUME NEW x \in Workers PROVE SoundWork(worker'[x], refresh')
  BY DEF RefreshInv
<1> QED BY <1>1, <1>2 DEF RefreshInv, GenerationsAreDistinct

LEMMA NoWorkIsSound == NoWork \in WorkerRows /\ \A refreshes : SoundWork(NoWork, refreshes)
  BY DEF NoWork, WorkerRows, SoundWork

LEMMA StepKeeps ==
    ASSUME RefreshInv, UNCHANGED <<generation, refresh, queue>>, NEW w \in Workers,
           NEW pc \in {"idle", "read", "inactive", "discover", "apply", "fail"},
           Step(w, pc), worker[w].pc # "idle"
    PROVE  RefreshInv'
<1> DEFINE row == [worker[w] EXCEPT !.pc = pc]
<1>1. worker[w] \in WorkerRows /\ SoundWork(worker[w], refresh)
  BY DEF RefreshInv
<1>2. row \in WorkerRows /\ row.refresh = worker[w].refresh
  BY <1>1 DEF WorkerRows
<1>3. SoundWork(row, refresh)
  BY <1>1, <1>2 DEF SoundWork
<1>4. worker' = [worker EXCEPT ![w] = row]
  BY DEF Step
<1> HIDE DEF row
<1> QED BY <1>2, <1>3, <1>4, WorkKeeps

\* A refresh that is finished, by any of the workers that hold it.
LEMMA FinishKeeps ==
    ASSUME RefreshInv, NEW w \in Workers, worker[w].pc # "idle",
           NEW r, r = worker[w].refresh,
           NEW row \in RefreshRows, row.status # None,
           row.connection = refresh[r].connection,
           refresh' = [refresh EXCEPT ![r] = row], queue' = queue \ {r},
           worker' = [worker EXCEPT ![w] = NoWork],
           \/ generation' = generation /\ row.generation = refresh[r].generation
           \/ /\ generation' = [generation EXCEPT ![refresh[r].connection] = @ + 1]
              /\ row.generation = generation[refresh[r].connection] + 1
    PROVE  RefreshInv'
<1> DEFINE c == refresh[r].connection
<1>1. r \in Refreshes /\ refresh[r].status # None /\ c \in Connections /\ refresh[r] \in RefreshRows
  BY DEF RefreshInv, SoundWork, SoundRefresh
<1>2. /\ refresh' \in [Refreshes -> RefreshRows] /\ queue' \subseteq Refreshes
      /\ refresh'[r] = row /\ \A s \in Refreshes \ {r} : refresh'[s] = refresh[s]
  BY <1>1 DEF RefreshInv
<1>3. worker' \in [Workers -> WorkerRows]
  BY NoWorkIsSound DEF RefreshInv
<1>4. ASSUME NEW s \in Refreshes PROVE SoundRefresh(refresh'[s])
  BY <1>1, <1>2 DEF RefreshInv, SoundRefresh
<1>5. ASSUME NEW s \in queue' PROVE refresh'[s].status # None
  BY <1>2 DEF RefreshInv
<1>6. ASSUME NEW x \in Workers PROVE SoundWork(worker'[x], refresh')
  <2>1. CASE x = w
    BY <2>1, NoWorkIsSound DEF RefreshInv
  <2>2. CASE x # w
    <3>1. worker'[x] = worker[x] /\ SoundWork(worker[x], refresh)
      BY <2>2 DEF RefreshInv
    <3> QED BY <1>2, <3>1 DEF SoundWork
  <2> QED BY <2>1, <2>2
<1>7. /\ generation' \in [Connections -> Nat] /\ row.generation \in Nat
      /\ \A x \in Connections : /\ generation[x] \in Nat /\ generation'[x] \in Nat
                                /\ generation[x] <= generation'[x]
  BY <1>1 DEF RefreshInv, RefreshRows
<1>8. ASSUME NEW s \in Refreshes
      PROVE  /\ refresh[s].generation \in Nat
             /\ refresh[s].generation > 0 =>
                  /\ refresh[s].connection \in Connections
                  /\ refresh[s].generation <= generation[refresh[s].connection]
  BY DEF RefreshInv, RefreshRows, SoundRefresh, GenerationsAreDistinct
<1>9. GenerationsAreDistinct'
  <2> SUFFICES ASSUME NEW s \in Refreshes, NEW t \in Refreshes,
                      refresh'[s].generation > 0,
                      refresh'[s].connection = refresh'[t].connection
               PROVE  /\ refresh'[s].generation <= generation'[refresh'[s].connection]
                      /\ s # t => refresh'[s].generation # refresh'[t].generation
    BY DEF GenerationsAreDistinct
  <2>1. refresh'[s].connection = refresh[s].connection /\ refresh'[t].connection = refresh[t].connection
    BY <1>2
  <2>2. CASE generation' = generation /\ row.generation = refresh[r].generation
    <3>1. refresh'[s].generation = refresh[s].generation /\ refresh'[t].generation = refresh[t].generation
      BY <1>2, <2>2
    <3> QED BY <2>1, <2>2, <3>1 DEF RefreshInv, GenerationsAreDistinct
  <2>3. CASE /\ generation' = [generation EXCEPT ![refresh[r].connection] = @ + 1]
             /\ row.generation = generation[refresh[r].connection] + 1
    <3>1. generation'[c] = generation[c] + 1 /\ generation[c] \in Nat /\ row.generation = generation'[c]
      BY <1>1, <2>3 DEF RefreshInv
    <3>2. CASE s = r
      <4>1. ASSUME t # r PROVE refresh'[t].generation # row.generation
        BY <1>2, <1>8, <2>1, <3>1, <3>2, <4>1
      <4> QED BY <1>2, <2>1, <3>1, <3>2, <4>1
    <3>3. CASE s # r
      <4>1. refresh'[s] = refresh[s] /\ refresh[s].generation <= generation[refresh[s].connection]
            /\ refresh[s].connection \in Connections /\ refresh[s].generation \in Nat
        BY <1>2, <1>8, <3>3
      <4>2. refresh'[s].generation <= generation'[refresh'[s].connection]
        BY <1>7, <4>1
      <4>3. CASE t = r
        BY <1>2, <2>1, <3>1, <4>1, <4>2, <4>3
      <4>4. CASE t # r
        BY <1>2, <2>1, <4>1, <4>2, <4>4 DEF RefreshInv, GenerationsAreDistinct
      <4> QED BY <4>3, <4>4
    <3> QED BY <3>2, <3>3
  <2> QED BY <2>2, <2>3
<1> QED BY <1>2, <1>3, <1>4, <1>5, <1>6, <1>7, <1>9 DEF RefreshInv

LEMMA ApplyKeeps ==
    ASSUME RefreshInv, NEW w \in Workers, Apply(w)
    PROVE  RefreshInv'
<1> DEFINE r == worker[w].refresh
           c == refresh[r].connection
           some == [refresh[r] EXCEPT !.status = "succeeded"]
           row == [some EXCEPT !.generation = generation[c] + 1]
<1>1. /\ worker[w].pc = "apply" /\ worker' = [worker EXCEPT ![w] = NoWork] /\ queue' = queue \ {r}
      /\ generation' = [generation EXCEPT ![c] = generation[c] + 1]
      /\ refresh' = [refresh EXCEPT ![r].status = "succeeded", ![r].generation = generation[c] + 1]
  BY DEF Apply, ApplyCatalogRefresh, ConnectionOf, NextGeneration
<1>2. r \in Refreshes /\ refresh[r].status # None /\ c \in Connections /\ refresh[r] \in RefreshRows
  BY <1>1 DEF RefreshInv, SoundWork, SoundRefresh
<1>3. generation[c] \in Nat /\ generation[c] + 1 \in Nat
  BY <1>2 DEF RefreshInv
<1>4. /\ some \in RefreshRows /\ some.status = "succeeded" /\ some.connection = c
  BY <1>2 DEF RefreshRows, Statuses
<1>5. refresh' = [refresh EXCEPT ![r] = row]
  BY <1>1, <1>2 DEF RefreshInv
<1>6. row \in RefreshRows /\ row.status = "succeeded" /\ row.connection = c
      /\ row.generation = generation[c] + 1
  <2> HIDE DEF some
  <2> QED BY <1>3, <1>4 DEF RefreshRows
<1> HIDE DEF row
<1>7. row.status # None
  BY <1>6 DEF None
<1> QED BY <1>1, <1>5, <1>6, <1>7, FinishKeeps

LEMMA FailKeeps ==
    ASSUME RefreshInv, NEW w \in Workers, FailCatalogRefresh(w)
    PROVE  RefreshInv'
<1> DEFINE r == worker[w].refresh
           row == [refresh[r] EXCEPT !.status = "failed"]
<1>1. /\ worker[w].pc = "fail" /\ worker' = [worker EXCEPT ![w] = NoWork] /\ queue' = queue \ {r}
      /\ generation' = generation
      /\ refresh' = [refresh EXCEPT ![r] = row]
  BY DEF FailCatalogRefresh
<1>2. r \in Refreshes /\ refresh[r] \in RefreshRows
  BY <1>1 DEF RefreshInv, SoundWork
<1>3. /\ row \in RefreshRows /\ row.status = "failed" /\ row.connection = refresh[r].connection
      /\ row.generation = refresh[r].generation
  BY <1>2 DEF RefreshRows, Statuses
<1> HIDE DEF row
<1>4. row.status # None
  BY <1>3 DEF None
<1> QED BY <1>1, <1>3, <1>4, FinishKeeps

LEMMA RefreshStays ==
    ASSUME RefreshInv, UNCHANGED <<generation, refresh, queue, worker>>
    PROVE  RefreshInv'
  BY DEF RefreshInv, GenerationsAreDistinct

LEMMA WorkersKeep ==
    ASSUME RefreshInv, NEW w \in Workers, ProcessBatch(w) \/ WorkerStep(w)
    PROVE  RefreshInv'
<1>1. CASE ProcessBatch(w)
  <2>1. PICK r \in queue :
          worker' = [worker EXCEPT ![w] = [pc |-> "read", refresh |-> r, found |-> {}]]
    BY <1>1 DEF ProcessBatch, ClaimCatalogRefresh
  <2> DEFINE row == [pc |-> "read", refresh |-> r, found |-> {}]
  <2>2. row \in WorkerRows /\ SoundWork(row, refresh)
    BY DEF RefreshInv, WorkerRows, SoundWork
  <2> HIDE DEF row
  <2> QED BY <1>1, <2>1, <2>2, WorkKeeps DEF ProcessBatch, catalog, row
<1>2. CASE ReadConnection(w)
  BY <1>2, StepKeeps DEF ReadConnection, catalog
<1>3. CASE MarkConnectionOfferingsUnavailable(w)
  BY <1>3, StepKeeps DEF MarkConnectionOfferingsUnavailable
<1>4. CASE Discover(w)
  <2>1. PICK found \in SUBSET Models :
          worker' = [worker EXCEPT ![w].pc = "apply", ![w].found = found]
    BY <1>4 DEF Discover, LoadPlatformOfferings, DiscoverModels
  <2> DEFINE some == [worker[w] EXCEPT !.pc = "apply"]
             row == [some EXCEPT !.found = found]
  <2>2. worker[w] \in WorkerRows /\ SoundWork(worker[w], refresh) /\ worker[w].pc = "discover"
    BY <1>4 DEF RefreshInv, Discover
  <2>3. some \in WorkerRows /\ some.refresh = worker[w].refresh
    BY <2>2 DEF WorkerRows
  <2>4. worker' = [worker EXCEPT ![w] = row]
    BY <2>1 DEF RefreshInv
  <2>5. row \in WorkerRows /\ row.refresh = worker[w].refresh
    <3> HIDE DEF some
    <3> QED BY <2>3 DEF WorkerRows
  <2> HIDE DEF row
  <2>6. SoundWork(row, refresh)
    BY <2>2, <2>5 DEF SoundWork
  <2> QED BY <1>4, <2>4, <2>5, <2>6, WorkKeeps DEF Discover, catalog
<1>5. CASE DiscoveryFails(w)
  BY <1>5, StepKeeps DEF DiscoveryFails, catalog
<1>6. CASE Apply(w)
  BY <1>6, ApplyKeeps
<1>7. CASE FailCatalogRefresh(w)
  BY <1>7, FailKeeps
<1>8. CASE ReleaseCatalogRefresh(w)
  BY <1>8, WorkKeeps, NoWorkIsSound DEF ReleaseCatalogRefresh, catalog
<1> QED BY <1>1, <1>2, <1>3, <1>4, <1>5, <1>6, <1>7, <1>8 DEF WorkerStep

LEMMA ConnectionsKeep ==
    ASSUME RefreshInv, NEW c \in Connections,
           \/ CreateConnection(c) \/ ActivateBYOK(c) \/ ArchiveConnection(c)
           \/ \E r \in Refreshes : RefreshModelCatalog(r, c)
    PROVE  RefreshInv'
<1>1. ASSUME EnqueueOnActivation(c), UNCHANGED <<generation, worker>> PROVE RefreshInv'
  BY <1>1, EnqueueKeeps DEF EnqueueOnActivation
<1>2. CASE CreateConnection(c)
  BY <1>1, <1>2, RefreshStays DEF CreateConnection, InsertConnection
<1>3. CASE ActivateBYOK(c)
  BY <1>1, <1>3 DEF ActivateBYOK
<1>4. CASE ArchiveConnection(c)
  BY <1>4, RefreshStays DEF ArchiveConnection
<1>5. ASSUME NEW r \in Refreshes, RefreshModelCatalog(r, c) PROVE RefreshInv'
  BY <1>5, EnqueueKeeps DEF RefreshModelCatalog
<1> QED BY <1>2, <1>3, <1>4, <1>5

-----------------------------------------------------------------------------
(* The tables of connections and offerings. *)

\* What is archived stays archived.
LEMMA TablesKeep ==
    ASSUME TablesInv, [Next]_vars
    PROVE  TablesInv' /\ Archived \subseteq Archived'
<1>0. \A c : Unavailable(c) \in [Offerings -> {None, "available", "unavailable"}]
  BY DEF TablesInv, Unavailable
<1>1. ASSUME UNCHANGED <<connection, offering>> PROVE TablesInv' /\ Archived \subseteq Archived'
  BY <1>1 DEF TablesInv, Archived
<1>2. ASSUME connection' = connection,
             offering' \in [Offerings -> {None, "available", "unavailable"}]
      PROVE  TablesInv' /\ Archived \subseteq Archived'
  BY <1>2 DEF TablesInv, Archived
<1>3. ASSUME NEW c \in Connections, connection[c].status # "archived",
             NEW row \in ConnectionRows, connection' = [connection EXCEPT ![c] = row],
             offering' \in [Offerings -> {None, "available", "unavailable"}]
      PROVE  TablesInv' /\ Archived \subseteq Archived'
  BY <1>3 DEF TablesInv, Archived
<1>4. ASSUME NEW c \in Connections, connection[c].status # "archived",
             NEW status \in {None, "draft", "active", "archived"},
             connection' = [connection EXCEPT ![c].status = status],
             offering' \in [Offerings -> {None, "available", "unavailable"}]
      PROVE  TablesInv' /\ Archived \subseteq Archived'
  <2> DEFINE row == [connection[c] EXCEPT !.status = status]
  <2>1. row \in ConnectionRows /\ connection' = [connection EXCEPT ![c] = row]
    BY <1>4 DEF TablesInv, ConnectionRows
  <2> HIDE DEF row
  <2> QED BY <1>3, <1>4, <2>1
<1>5. ASSUME NEW c \in Connections, CreateConnection(c)
      PROVE  TablesInv' /\ Archived \subseteq Archived'
  <2>1. connection[c].status # "archived" /\ offering' = offering
    BY <1>5 DEF CreateConnection, None
  <2>2. CASE TypeOf[c] = "platform_managed"
    <3>1. PICK p \in selectPlatformManagedPool :
            connection' = [connection EXCEPT ![c] = [status |-> "active", pool |-> p.key]]
      BY <1>5, <2>2 DEF CreateConnection, InsertConnection
    <3> DEFINE row == [status |-> "active", pool |-> p.key]
    <3>2. p \in Pools /\ p.key \in Nat
      BY <3>1, PoolsAssumption DEF selectPlatformManagedPool
    <3>3. row \in ConnectionRows
      BY <3>2 DEF ConnectionRows
    <3>4. connection' = [connection EXCEPT ![c] = row]
      BY <3>1
    <3> HIDE DEF row
    <3> QED BY <1>3, <2>1, <3>3, <3>4 DEF TablesInv
  <2>3. CASE TypeOf[c] # "platform_managed"
    BY <1>4, <1>5, <2>1, <2>3 DEF CreateConnection, InsertConnection, TablesInv
  <2> QED BY <2>2, <2>3
<1>6. ASSUME NEW c \in Connections, ActivateBYOK(c)
      PROVE  TablesInv' /\ Archived \subseteq Archived'
  BY <1>4, <1>6 DEF ActivateBYOK, TablesInv
<1>7. ASSUME NEW c \in Connections, ArchiveConnection(c)
      PROVE  TablesInv' /\ Archived \subseteq Archived'
  BY <1>0, <1>4, <1>7 DEF ArchiveConnection
<1>8. ASSUME NEW c \in Connections, NEW r \in Refreshes, RefreshModelCatalog(r, c)
      PROVE  TablesInv' /\ Archived \subseteq Archived'
  BY <1>1, <1>8 DEF RefreshModelCatalog
<1>9. ASSUME NEW w \in Workers, ProcessBatch(w) \/ WorkerStep(w)
      PROVE  TablesInv' /\ Archived \subseteq Archived'
  <2>1. \/ UNCHANGED <<connection, offering>>
        \/ MarkConnectionOfferingsUnavailable(w)
        \/ Apply(w)
    BY <1>9 DEF ProcessBatch, WorkerStep, ReadConnection, Discover, DiscoveryFails,
                FailCatalogRefresh, ReleaseCatalogRefresh, catalog
  <2>2. CASE MarkConnectionOfferingsUnavailable(w)
    BY <1>0, <1>2, <2>2 DEF MarkConnectionOfferingsUnavailable
  <2>3. CASE Apply(w)
    <3>1. connection' = connection /\ offering' = Upserted(ConnectionOf(w), worker[w].found)
      BY <2>3 DEF Apply, ApplyCatalogRefresh
    <3>2. offering' \in [Offerings -> {None, "available", "unavailable"}]
      BY <1>0, <3>1 DEF Upserted
    <3> QED BY <1>2, <3>1, <3>2
  <2> QED BY <1>1, <2>1, <2>2, <2>3
<1>10. \/ UNCHANGED <<connection, offering>>
       \/ \E c \in Connections :
            \/ CreateConnection(c) \/ ActivateBYOK(c) \/ ArchiveConnection(c)
            \/ \E r \in Refreshes : RefreshModelCatalog(r, c)
       \/ \E w \in Workers : ProcessBatch(w) \/ WorkerStep(w)
  BY DEF Next, vars, catalog, SetAgentModelBinding, GetOffering, SetAgentBinding,
         RemoveAgentModelBinding, ResolveInferencePlan, FetchPrimaryRoute, FetchRoute,
         ReadFallbacks, PlanReturned
<1> QED BY <1>1, <1>5, <1>6, <1>7, <1>8, <1>9, <1>10

-----------------------------------------------------------------------------
(* Bindings. *)

LEMMA NoInputIsSound ==
    NoBinding \in Bindings /\ NoInput \in SetterRows /\ NoInput.pc = "idle"
  BY DEF NoBinding, NoInput, Bindings, SetterRows, OptionalOfferings, None

LEMMA InputFields ==
    ASSUME NEW i \in Bindings
    PROVE  /\ i.primary \in OptionalOfferings /\ i.fast \in OptionalOfferings
           /\ i.fallbacks \in Seq(Offerings) /\ i.version \in Nat
           /\ i.status \in {None, "active", "removed"}
  BY DEF Bindings

LEMMA NamedOfferings ==
    ASSUME NEW i \in Bindings, i.primary \in Offerings
    PROVE  Named(i) \in Seq(Offerings) /\ Named(i) # <<>>
<1> DEFINE first == <<i.primary>>
           second == IF i.fast = NoOffering THEN <<>> ELSE <<i.fast>>
<1>1. first \in Seq(Offerings) /\ Len(first) = 1
  OBVIOUS
<1>2. second \in Seq(Offerings)
  BY InputFields DEF OptionalOfferings
<1>3. i.fallbacks \in Seq(Offerings)
  BY InputFields
<1>4. Named(i) = (first \o second) \o i.fallbacks
  BY DEF Named
<1> DEFINE both == first \o second
           last == i.fallbacks
<1> HIDE DEF first, second
<1>5. both \in Seq(Offerings) /\ Len(both) > 0
  BY <1>1, <1>2
<1>6. Named(i) = both \o last /\ last \in Seq(Offerings)
  BY <1>3, <1>4
<1> HIDE DEF both, last
<1>7. both \o last \in Seq(Offerings) /\ Len(both \o last) > 0
  BY <1>5, <1>6
<1>8. Len(<<>>) = 0
  OBVIOUS
<1> QED BY <1>6, <1>7, <1>8

LEMMA InputsAreSound ==
    ASSUME BindingInv, NEW i \in Inputs
    PROVE  i \in Bindings /\ i.primary \in Offerings
<1>1. binding.version \in Nat
  BY InputFields DEF BindingInv
<1>2. /\ i.fallbacks \in {<<>>} \cup {<<o>> : o \in Offerings} /\ i.primary \in Offerings
      /\ i = [status |-> i.status, primary |-> i.primary, fast |-> i.fast,
              fallbacks |-> i.fallbacks, version |-> i.version]
      /\ i.status = None /\ i.fast \in OptionalOfferings /\ i.version = binding.version
  BY DEF Inputs
<1>3. i.fallbacks = <<>> \/ \E o \in Offerings : i.fallbacks = <<o>>
  BY <1>2
<1>4. <<>> \in Seq(Offerings) /\ \A o \in Offerings : <<o>> \in Seq(Offerings)
  OBVIOUS
<1>5. i.fallbacks \in Seq(Offerings)
  BY <1>3, <1>4
<1> QED BY <1>1, <1>2, <1>5 DEF Bindings, OptionalOfferings

LEMMA ReviseKeeps ==
    ASSUME BindingInv, NEW next \in Bindings, Revise(next), next.version = binding.version + 1,
           next.status = "active" => next.primary \in Offerings,
           setter' = setter \/ setter' = NoInput
    PROVE  BindingInv'
<1>1. binding' = next /\ revisions' = Append(revisions, next) /\ revisions \in Seq(Bindings)
  BY DEF Revise, BindingInv
<1>2. /\ revisions' \in Seq(Bindings) /\ Len(revisions') = Len(revisions) + 1
      /\ revisions'[Len(revisions')] = next
      /\ \A v \in 1 .. Len(revisions) : revisions'[v] = revisions[v]
      /\ DOMAIN revisions' = 1 .. Len(revisions) + 1
  BY <1>1
<1>3. RevisionsTellTheBinding'
  <2>1. Len(revisions) = binding.version
    BY DEF BindingInv, RevisionsTellTheBinding
  <2>2. Len(revisions') = binding'.version
    BY <1>1, <1>2, <2>1
  <2>3. ASSUME NEW v \in DOMAIN revisions' PROVE revisions'[v].version = v
    <3>1. CASE v \in 1 .. Len(revisions)
      BY <1>1, <1>2, <3>1 DEF BindingInv, RevisionsTellTheBinding
    <3>2. CASE v = Len(revisions) + 1
      BY <1>2, <2>1, <3>2
    <3> QED BY <1>2, <2>3, <3>1, <3>2
  <2>4. Last(revisions') = binding'
    BY <1>1, <1>2 DEF Last
  <2> QED BY <2>2, <2>3, <2>4 DEF RevisionsTellTheBinding
<1> QED BY <1>1, <1>2, <1>3, NoInputIsSound DEF BindingInv

LEMMA SetterKeeps ==
    ASSUME BindingInv, UNCHANGED <<binding, revisions>>, setter' \in SetterRows,
           setter'.pc # "idle" => setter'.input.primary \in Offerings,
           setter'.pc = "check" => setter'.unchecked # <<>>
    PROVE  BindingInv'
  BY DEF BindingInv, RevisionsTellTheBinding

LEMMA GetOfferingKeeps ==
    ASSUME BindingInv, GetOffering
    PROVE  BindingInv'
<1> DEFINE u == setter.unchecked
           step == IF Len(u) = 1 THEN "write" ELSE setter.pc
           some == [setter EXCEPT !.unchecked = Tail(u)]
           next == [some EXCEPT !.pc = step]
<1>1. /\ setter \in SetterRows /\ u \in Seq(Offerings) /\ u # <<>> /\ setter.pc = "check"
      /\ setter.input.primary \in Offerings /\ UNCHANGED <<binding, revisions>>
  BY DEF GetOffering, BindingInv, SetterRows
<1>2. setter' = next \/ setter' = NoInput
  BY <1>1 DEF GetOffering, SetterRows
<1>3. /\ Tail(u) \in Seq(Offerings)
      /\ Len(u) # 1 => Tail(u) # <<>>
  <2> HIDE DEF u
  <2>1. Len(u) \in Nat /\ Len(u) > 0 /\ Tail(u) \in Seq(Offerings) /\ Len(Tail(u)) = Len(u) - 1
    BY <1>1
  <2>2. Len(<<>>) = 0
    OBVIOUS
  <2> QED BY <2>1, <2>2
<1>4. step \in {"check", "write"} /\ (step = "check" => Len(u) # 1)
  BY <1>1
<1>5. some \in SetterRows /\ some.input = setter.input /\ some.unchecked = Tail(u)
  BY <1>1, <1>3 DEF SetterRows
<1> HIDE DEF u, step, some
<1>6. /\ next \in SetterRows /\ next.input = setter.input /\ next.unchecked = Tail(u)
      /\ next.pc = step
  BY <1>4, <1>5 DEF SetterRows
<1> HIDE DEF next
<1>7. CASE setter' = next
  BY <1>1, <1>3, <1>4, <1>6, <1>7, SetterKeeps
<1>8. CASE setter' = NoInput
  BY <1>1, <1>8, NoInputIsSound, SetterKeeps
<1> QED BY <1>2, <1>7, <1>8

LEMMA BindingsKeep ==
    ASSUME BindingInv, [Next]_vars
    PROVE  BindingInv'
<1>0. /\ binding \in Bindings /\ binding.version \in Nat /\ setter \in SetterRows
      /\ binding.version + 1 \in Nat
  BY InputFields DEF BindingInv
<1>1. CASE UNCHANGED bindings
  BY <1>1 DEF bindings, BindingInv, RevisionsTellTheBinding
<1>2. CASE SetAgentModelBinding
  <2>1. PICK input \in Inputs :
          setter' = [pc |-> "check", input |-> input, unchecked |-> Named(input)]
    BY <1>2 DEF SetAgentModelBinding
  <2>2. /\ input \in Bindings /\ input.primary \in Offerings
        /\ Named(input) \in Seq(Offerings) /\ Named(input) # <<>>
    BY <2>1, InputsAreSound, NamedOfferings
  <2>3. setter' \in SetterRows /\ setter'.input = input /\ setter'.unchecked = Named(input)
    BY <2>1, <2>2 DEF SetterRows
  <2> QED BY <1>2, <2>2, <2>3, SetterKeeps DEF SetAgentModelBinding
<1>3. CASE GetOffering
  BY <1>3, GetOfferingKeeps
<1>4. CASE SetAgentBinding
  <2> DEFINE some == [setter.input EXCEPT !.status = "active"]
             next == [some EXCEPT !.version = binding.version + 1]
  <2>1. setter.input \in Bindings /\ setter.input.primary \in Offerings /\ setter' = NoInput
    BY <1>0, <1>4 DEF SetAgentBinding, BindingInv, SetterRows
  <2>2. CASE UNCHANGED <<binding, revisions>>
    BY <2>1, <2>2, NoInputIsSound, SetterKeeps
  <2>3. CASE Revise([setter.input EXCEPT !.status = "active", !.version = binding.version + 1])
    <3>1. some \in Bindings /\ some.primary = setter.input.primary
      BY <2>1 DEF Bindings
    <3>2. Revise(next)
      BY <2>1, <2>3 DEF Bindings
    <3> HIDE DEF some
    <3>3. next \in Bindings /\ next.primary = some.primary /\ next.version = binding.version + 1
      BY <1>0, <3>1 DEF Bindings
    <3> HIDE DEF next
    <3> QED BY <2>1, <3>1, <3>2, <3>3, ReviseKeeps
  <2> QED BY <1>4, <2>2, <2>3 DEF SetAgentBinding
<1>5. CASE RemoveAgentModelBinding
  <2> DEFINE none == [binding EXCEPT !.status = "removed"]
             some == [none EXCEPT !.fallbacks = <<>>]
             next == [some EXCEPT !.version = binding.version + 1]
  <2>1. Revise([binding EXCEPT !.status = "removed", !.fallbacks = <<>>, !.version = @ + 1])
        /\ setter' = setter
    BY <1>5 DEF RemoveAgentModelBinding, RemoveAgentBinding
  <2>2. none \in Bindings /\ none.status = "removed"
    BY <1>0 DEF Bindings
  <2>3. Revise(next)
    BY <1>0, <2>1 DEF Bindings
  <2> HIDE DEF none
  <2>4. some \in Bindings /\ some.status = "removed"
    <3>1. <<>> \in Seq(Offerings)
      OBVIOUS
    <3> QED BY <2>2, <3>1 DEF Bindings
  <2> HIDE DEF some
  <2>5. next \in Bindings /\ next.status = "removed" /\ next.version = binding.version + 1
    BY <1>0, <2>4 DEF Bindings
  <2> HIDE DEF next
  <2> QED BY <2>1, <2>3, <2>5, ReviseKeeps
<1>6. \/ UNCHANGED bindings
      \/ SetAgentModelBinding \/ GetOffering \/ SetAgentBinding \/ RemoveAgentModelBinding
  BY DEF Next, vars, CreateConnection, ActivateBYOK, ArchiveConnection, RefreshModelCatalog,
         ProcessBatch, WorkerStep, ReadConnection, MarkConnectionOfferingsUnavailable,
         Discover, DiscoveryFails, Apply, FailCatalogRefresh, ReleaseCatalogRefresh,
         ResolveInferencePlan, FetchPrimaryRoute, FetchRoute, ReadFallbacks, PlanReturned
<1> QED BY <1>1, <1>2, <1>3, <1>4, <1>5, <1>6

-----------------------------------------------------------------------------
(* Plans. *)

LEMMA NoPlanIsSound ==
    /\ NoPlan \in PlanRows /\ NoPlan.pc = "idle" /\ NoPlan.archived = {}
    /\ DOMAIN NoPlan.routes = {}
<1>1. <<>> \in Seq(Offerings)
  OBVIOUS
<1>2. /\ NoPlan.routes = <<>> /\ NoPlan.todo = <<>> /\ NoPlan.pc = "idle" /\ NoPlan.archived = {}
  BY DEF NoPlan
<1>3. DOMAIN <<>> = {}
  OBVIOUS
<1> QED BY <1>1, <1>2, <1>3 DEF NoPlan, PlanRows

\* A route whose connection is active is no route to an archived one.
LEMMA RouteIsActive ==
    ASSUME TablesInv, PlanInv, NEW o \in Offerings, fetchRoute(o)
    PROVE  o[1] \notin plan.archived
  BY DEF fetchRoute, PlanInv, Archived

LEMMA PlanKeeps ==
    ASSUME NEW next \in PlanRows, plan' = next, Archived \subseteq Archived',
           next.archived \subseteq Archived, next.pc = "primary" => next.todo # <<>>,
           \A i \in DOMAIN next.routes : next.routes[i][1] \notin next.archived
    PROVE  PlanInv'
<1>1. plan'.archived \subseteq Archived'
  OBVIOUS
<1> QED BY <1>1 DEF PlanInv, PlanAvoidsArchived

LEMMA PlanFields ==
    ASSUME NEW p \in PlanRows
    PROVE  /\ p.todo \in Seq(Offerings) /\ p.routes \in Seq(Offerings)
           /\ p.archived \subseteq Connections
  BY DEF PlanRows

LEMMA PlanEnds ==
    ASSUME plan' = NoPlan, Archived \subseteq Archived'
    PROVE  PlanInv'
<1>1. /\ NoPlan.archived \subseteq Archived /\ NoPlan.pc # "primary"
      /\ \A i \in DOMAIN NoPlan.routes : NoPlan.routes[i][1] \notin NoPlan.archived
  BY NoPlanIsSound
<1> QED BY <1>1, NoPlanIsSound, PlanKeeps

LEMMA PlanStarts ==
    ASSUME TablesInv, BindingInv, ResolveInferencePlan, Archived \subseteq Archived'
    PROVE  PlanInv'
<1> DEFINE first == [binding EXCEPT !.fallbacks = <<>>]
           next == [pc |-> "primary", todo |-> Named(first), routes |-> <<>>, archived |-> Archived]
<1>1. <<>> \in Seq(Offerings) /\ DOMAIN <<>> = {}
  OBVIOUS
<1>2. first \in Bindings /\ first.primary \in Offerings
  BY <1>1 DEF ResolveInferencePlan, BindingInv, Bindings
<1>3. plan' = next
  BY DEF ResolveInferencePlan
<1> HIDE DEF first
<1>4. Named(first) \in Seq(Offerings) /\ Named(first) # <<>>
  BY <1>2, NamedOfferings
<1>5. Archived \subseteq Connections
  BY DEF Archived
<1>6. /\ next \in PlanRows /\ next.archived = Archived /\ next.todo = Named(first)
      /\ next.routes = <<>>
  BY <1>1, <1>4, <1>5 DEF PlanRows
<1> HIDE DEF next
<1>7. \A i \in DOMAIN next.routes : next.routes[i][1] \notin next.archived
  BY <1>1, <1>6
<1> QED BY <1>3, <1>4, <1>6, <1>7, PlanKeeps

LEMMA PrimaryKeeps ==
    ASSUME TablesInv, PlanInv, FetchPrimaryRoute, Archived \subseteq Archived'
    PROVE  PlanInv'
<1> DEFINE o == Head(plan.todo)
           moved == [plan EXCEPT !.pc = "fast"]
           shorter == [moved EXCEPT !.todo = Tail(plan.todo)]
           next == [shorter EXCEPT !.routes = <<o>>]
<1>1. /\ plan \in PlanRows /\ plan.todo \in Seq(Offerings) /\ plan.todo # <<>>
      /\ plan.archived \subseteq Archived
  BY PlanFields DEF PlanInv, FetchPrimaryRoute
<1>2. o \in Offerings /\ Tail(plan.todo) \in Seq(Offerings)
  BY <1>1, HeadTailProperties
<1>3. (fetchRoute(o) /\ plan' = next) \/ plan' = NoPlan
  BY <1>1 DEF FetchPrimaryRoute, PlanRows
<1>4. CASE plan' = NoPlan
  BY <1>4, PlanEnds
<1>5. CASE fetchRoute(o) /\ plan' = next
  <2>1. o[1] \notin plan.archived
    BY <1>2, <1>5, RouteIsActive
  <2>2. moved \in PlanRows /\ moved.pc = "fast" /\ moved.archived = plan.archived
    BY <1>1 DEF PlanRows
  <2>3. plan' = next
    BY <1>5
  <2> HIDE DEF o, moved
  <2>4. shorter \in PlanRows /\ shorter.pc = "fast" /\ shorter.archived = plan.archived
    BY <1>2, <2>2 DEF PlanRows
  <2> HIDE DEF shorter
  <2>5. <<o>> \in Seq(Offerings) /\ DOMAIN <<o>> = {1} /\ <<o>>[1] = o
    BY <1>2
  <2>6. /\ next \in PlanRows /\ next.pc = "fast" /\ next.archived = plan.archived
        /\ next.routes = <<o>>
    BY <2>4, <2>5 DEF PlanRows
  <2> HIDE DEF next
  <2>7. \A i \in DOMAIN next.routes : next.routes[i][1] \notin next.archived
    BY <2>1, <2>5, <2>6
  <2> QED BY <1>1, <2>3, <2>6, <2>7, PlanKeeps
<1> QED BY <1>3, <1>4, <1>5

LEMMA RouteKeeps ==
    ASSUME TablesInv, PlanInv, NEW pc \in {"fast", "fallbacks"}, FetchRoute(pc),
           Archived \subseteq Archived'
    PROVE  PlanInv'
<1> DEFINE o == Head(plan.todo)
           routes == IF fetchRoute(o) THEN Append(plan.routes, o) ELSE plan.routes
           shorter == [plan EXCEPT !.todo = Tail(plan.todo)]
           next == [shorter EXCEPT !.routes = routes]
<1>1. /\ plan \in PlanRows /\ plan.todo \in Seq(Offerings) /\ plan.todo # <<>>
      /\ plan.archived \subseteq Archived /\ plan.routes \in Seq(Offerings) /\ plan.pc = pc
      /\ \A i \in DOMAIN plan.routes : plan.routes[i][1] \notin plan.archived
  BY PlanFields DEF PlanInv, FetchRoute, PlanAvoidsArchived
<1>2. o \in Offerings /\ Tail(plan.todo) \in Seq(Offerings)
  BY <1>1, HeadTailProperties
<1>3. plan' = next
  BY <1>1 DEF FetchRoute, PlanRows
<1>4. fetchRoute(o) => o[1] \notin plan.archived
  BY <1>2, RouteIsActive
<1>5. /\ routes \in Seq(Offerings)
      /\ \A i \in DOMAIN routes : routes[i][1] \notin plan.archived
  <2> HIDE DEF o
  <2>1. CASE fetchRoute(o)
    <3> DEFINE R == plan.routes
    <3>1. routes = Append(R, o) /\ R \in Seq(Offerings)
      BY <1>1, <2>1
    <3>2. \A i \in DOMAIN R : R[i][1] \notin plan.archived
      BY <1>1
    <3> HIDE DEF R, routes
    <3>3. /\ Append(R, o) \in Seq(Offerings) /\ DOMAIN Append(R, o) = 1 .. Len(R) + 1
          /\ DOMAIN R = 1 .. Len(R) /\ Len(R) \in Nat /\ Append(R, o)[Len(R) + 1] = o
          /\ \A i \in 1 .. Len(R) : Append(R, o)[i] = R[i]
      BY <1>2, <3>1
    <3>4. ASSUME NEW i \in 1 .. Len(R) + 1 PROVE Append(R, o)[i][1] \notin plan.archived
      <4>1. CASE i \in 1 .. Len(R)
        BY <3>2, <3>3, <4>1
      <4>2. CASE i = Len(R) + 1
        BY <1>4, <2>1, <3>3, <4>2
      <4> QED BY <3>3, <3>4, <4>1, <4>2
    <3> QED BY <3>1, <3>3, <3>4
  <2>2. CASE ~fetchRoute(o)
    BY <1>1, <2>2
  <2> QED BY <2>1, <2>2
<1>6. shorter \in PlanRows /\ shorter.pc = pc /\ shorter.archived = plan.archived
  BY <1>1, <1>2 DEF PlanRows
<1> HIDE DEF o, routes, shorter
<1>7. /\ next \in PlanRows /\ next.pc = pc /\ next.archived = plan.archived
      /\ next.routes = routes
  BY <1>5, <1>6 DEF PlanRows
<1> HIDE DEF next
<1>8. \A i \in DOMAIN next.routes : next.routes[i][1] \notin next.archived
  BY <1>5, <1>7
<1>9. next.pc # "primary"
  BY <1>7
<1> QED BY <1>1, <1>3, <1>7, <1>8, <1>9, PlanKeeps

LEMMA FallbacksKeep ==
    ASSUME BindingInv, PlanInv, ReadFallbacks, Archived \subseteq Archived'
    PROVE  PlanInv'
<1> DEFINE moved == [plan EXCEPT !.pc = "fallbacks"]
           next == [moved EXCEPT !.todo = binding.fallbacks]
<1>1. /\ plan \in PlanRows /\ plan.archived \subseteq Archived
      /\ \A i \in DOMAIN plan.routes : plan.routes[i][1] \notin plan.archived
  BY DEF PlanInv, PlanAvoidsArchived
<1>2. binding.fallbacks \in Seq(Offerings)
  BY InputFields DEF BindingInv
<1>3. plan' = next
  BY <1>1 DEF ReadFallbacks, PlanRows
<1>4. /\ moved \in PlanRows /\ moved.pc = "fallbacks" /\ moved.archived = plan.archived
      /\ moved.routes = plan.routes
  BY <1>1 DEF PlanRows
<1> HIDE DEF moved
<1>5. /\ next \in PlanRows /\ next.pc = "fallbacks" /\ next.archived = plan.archived
      /\ next.routes = plan.routes
  BY <1>2, <1>4 DEF PlanRows
<1> HIDE DEF next
<1>6. \A i \in DOMAIN next.routes : next.routes[i][1] \notin next.archived
  BY <1>1, <1>5
<1>7. next.pc # "primary"
  BY <1>5
<1> QED BY <1>1, <1>3, <1>5, <1>6, <1>7, PlanKeeps

LEMMA PlansKeep ==
    ASSUME TablesInv, BindingInv, PlanInv, [Next]_vars
    PROVE  PlanInv'
<1>0. Archived \subseteq Archived'
  BY TablesKeep
<1>1. CASE UNCHANGED plan
  BY <1>0, <1>1 DEF PlanInv, PlanAvoidsArchived
<1>2. CASE ResolveInferencePlan
  BY <1>0, <1>2, PlanStarts
<1>3. CASE FetchPrimaryRoute
  BY <1>0, <1>3, PrimaryKeeps
<1>4. ASSUME NEW pc \in {"fast", "fallbacks"}, FetchRoute(pc) PROVE PlanInv'
  BY <1>0, <1>4, RouteKeeps
<1>5. CASE ReadFallbacks
  BY <1>0, <1>5, FallbacksKeep
<1>6. CASE PlanReturned
  BY <1>0, <1>6, PlanEnds DEF PlanReturned
<1>7. \/ UNCHANGED plan
      \/ ResolveInferencePlan \/ FetchPrimaryRoute \/ FetchRoute("fast") \/ FetchRoute("fallbacks")
      \/ ReadFallbacks \/ PlanReturned
  BY DEF Next, vars, CreateConnection, ActivateBYOK, ArchiveConnection, RefreshModelCatalog,
         ProcessBatch, WorkerStep, ReadConnection, MarkConnectionOfferingsUnavailable,
         Discover, DiscoveryFails, Apply, FailCatalogRefresh, ReleaseCatalogRefresh,
         SetAgentModelBinding, GetOffering, SetAgentBinding, RemoveAgentModelBinding
<1> QED BY <1>1, <1>2, <1>3, <1>4, <1>5, <1>6, <1>7

-----------------------------------------------------------------------------
(* The specification. *)

LEMMA InitInv == Init => IInv
<1> SUFFICES ASSUME Init PROVE IInv
  OBVIOUS
<1>1. TablesInv
  BY DEF Init, TablesInv, ConnectionRows
<1>2. RefreshInv
  <2>1. ASSUME NEW r \in Refreshes
        PROVE  /\ refresh[r] \in RefreshRows /\ refresh[r].generation = 0 /\ refresh[r].status = None
    BY DEF Init, RefreshRows, Statuses
  <2>2. ASSUME NEW w \in Workers PROVE worker[w] = NoWork
    BY DEF Init
  <2>3. /\ generation \in [Connections -> Nat] /\ queue = {}
        /\ refresh \in [Refreshes -> RefreshRows]
    BY <2>1 DEF Init
  <2>4. worker \in [Workers -> WorkerRows]
    BY NoWorkIsSound DEF Init
  <2>5. GenerationsAreDistinct
    BY <2>1 DEF GenerationsAreDistinct
  <2>6. \A r \in Refreshes : SoundRefresh(refresh[r])
    BY <2>1 DEF SoundRefresh
  <2>7. \A w \in Workers : SoundWork(worker[w], refresh)
    BY <2>2, NoWorkIsSound
  <2> QED BY <2>3, <2>4, <2>5, <2>6, <2>7 DEF RefreshInv
<1>3. BindingInv
  <2>1. <<>> \in Seq(Bindings) /\ Len(<<>>) = 0 /\ DOMAIN <<>> = {}
    OBVIOUS
  <2>2. NoBinding.version = 0 /\ NoBinding.status # "active"
    BY DEF NoBinding, None
  <2>3. binding = NoBinding /\ revisions = <<>> /\ setter = NoInput
    BY DEF Init
  <2>4. RevisionsTellTheBinding
    BY <2>1, <2>2, <2>3 DEF RevisionsTellTheBinding
  <2> QED BY <2>1, <2>2, <2>3, <2>4, NoInputIsSound DEF BindingInv
<1>4. PlanInv
  BY NoPlanIsSound DEF Init, PlanInv, PlanAvoidsArchived
<1> QED BY <1>1, <1>2, <1>3, <1>4 DEF IInv

LEMMA RefreshesKeep ==
    ASSUME RefreshInv, [Next]_vars
    PROVE  RefreshInv'
<1>1. \/ UNCHANGED <<generation, refresh, queue, worker>>
      \/ \E c \in Connections :
            \/ CreateConnection(c) \/ ActivateBYOK(c) \/ ArchiveConnection(c)
            \/ \E r \in Refreshes : RefreshModelCatalog(r, c)
      \/ \E w \in Workers : ProcessBatch(w) \/ WorkerStep(w)
  BY DEF Next, vars, catalog, SetAgentModelBinding, GetOffering, SetAgentBinding,
         RemoveAgentModelBinding, ResolveInferencePlan, FetchPrimaryRoute, FetchRoute,
         ReadFallbacks, PlanReturned
<1> QED BY <1>1, RefreshStays, ConnectionsKeep, WorkersKeep

LEMMA InvariantHolds == Spec => []IInv
<1>1. IInv /\ [Next]_vars => IInv'
  BY TablesKeep, RefreshesKeep, BindingsKeep, PlansKeep DEF IInv
<1> QED BY <1>1, InitInv, PTL DEF Spec

(* The tables, the workers and the calls in progress stay well formed.     *)
THEOREM TypeCorrect == Spec => []TypeOK
<1>1. IInv => TypeOK
  BY DEF IInv, TablesInv, RefreshInv, BindingInv, PlanInv, TypeOK, ConnectionRows, RefreshRows,
         Statuses, WorkerRows, SetterRows, PlanRows
<1> QED BY <1>1, InvariantHolds, PTL

(* However many workers hold the same refresh after their leases lapsed,   *)
(* and however often one is applied, a generation of a connection's        *)
(* catalog is reported by one refresh (catalog.go ApplyCatalogRefresh).    *)
THEOREM GenerationsAreUnique == Spec => []GenerationsAreDistinct
<1>1. IInv => GenerationsAreDistinct
  BY DEF IInv, RefreshInv
<1> QED BY <1>1, InvariantHolds, PTL

(* Setting and removing a binding leave one revision for every version,    *)
(* and the last is what the tables hold (bindings.go SetAgentBinding,      *)
(* RemoveAgentBinding).                                                    *)
THEOREM RevisionsAreTheHistory == Spec => []RevisionsTellTheBinding
<1>1. IInv => RevisionsTellTheBinding
  BY DEF IInv, BindingInv
<1> QED BY <1>1, InvariantHolds, PTL

(* A plan that was asked for after a connection was archived does not      *)
(* route to it, although the statements of the plan see later commits and  *)
(* a late refresh may make its offerings available again (gateway.go       *)
(* ResolveInferencePlan).                                                  *)
THEOREM PlansAvoidArchived == Spec => []PlanAvoidsArchived
<1>1. IInv => PlanAvoidsArchived
  BY DEF IInv, PlanInv
<1> QED BY <1>1, InvariantHolds, PTL
=============================================================================
