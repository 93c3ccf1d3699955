# gereh: specifications and proofs

TLA+ models of the parts of gereh whose correctness depends on the order in
which independent processes act: the transactional outbox, the Kafka consumer
that builds the read model, tenant onboarding with its workflow, tenant
administration, companies and their agents, goals, projects and tasks, policies
and their evaluation, provider connections with their credentials and model
catalog, the model gateway, browser logins and the routes of the edge, and the
paged lists of all services. TLC checks each model on a small instance; TLAPS
proves their safety properties for instances of any size.

Paths below are relative to the repository (`src/`). `PROJECT.json` maps every
definition to the lines it stands for and lists runs, hazards and theorems.

- [Inventory](#inventory)
- [Modules](#modules)
- [Runs](#runs)
- [Bounds](#bounds)
- [Fairness](#fairness)
- [Proofs](#proofs)
- [Observed while modelling](#observed-while-modelling)
- [Not modelled](#not-modelled)
- [Plan](#plan)

## Inventory

gereh is a multi-tenant platform for companies of AI agents, written as Go
services. Each service owns a PostgreSQL database. A command changes rows and
inserts its events into an outbox table in the same transaction; a relay
publishes the outbox to Kafka; other services consume the topics. Long
operations run as Temporal workflows. Services call each other over gRPC.

| Component | State it keeps | Operations | What is hard | What makes it correct |
|---|---|---|---|---|
| **tenant: onboarding** `services/tenant/internal/{application,adapters/postgres}/onboarding.go` | tenant row, onboarding operation row, outbox | CreateTenant, MarkOnboardingRunning, CompleteOnboarding, FailOnboarding, ArchiveTenant | calls that the workflow gave up on still run; Complete and Fail read the operation without a lock and update later | rows agree, an outcome is final, events say what happened, an operation ends |
| **tenant: administration** `application/service.go`, `adapters/postgres/{tenant,membership}.go`, `domain/{policy,authorization}.go` | tenant row with optimistic version, memberships | UpdateTenant, ArchiveTenant, AddMember, UpdateMemberRole, RemoveMember | the actor is authorized in one transaction and the change is written in another | an owner remains, only owners make and unmake owners, archived is read-only, events replay to the table |
| **transactional outbox and relay** `adapters/outbox/relay.go`, `adapters/postgres/outbox.go` (same code in five services) | outbox rows: published, claimed, due | insertOutbox, ClaimOutbox, Publish, MarkOutboxPublished, ReleaseOutbox | leases run out while the relay works; mark and release do not ask who holds the claim; a publish may time out and succeed | at-least-once: nothing is dropped, nothing is invented, the table drains |
| **events/kafka** `platform/go/events/kafka` | consumer group offset, polled records | Producer.Publish, Consumer.Run | rebalances, zombie consumers, lost commits | no offset is committed before its record was handled |
| **projection: ingest** `services/projection/internal/adapters/{projection,postgres}` | read-model tables, consumed events, watermark, checkpoint | one decoder and one upsert per event kind, ApplyEvent | duplicates, reordering, restore from a backup | the read model never goes back, a duplicate changes nothing, every fact arrives |
| **projection: queries** `adapters/postgres/queries.go`, `application/reads.go` | none | lists, search, dashboard | cursors over rows that change | a walk meets every row and ends |
| **paged lists** of tenant, organization-agent, work-management, policy-approval, model-access | none; the token is the key of the last row | every List method | the table changes between two pages; page sizes are the client's | as above |
| **execution-orchestrator** `services/execution-orchestrator/internal/application` | Temporal workflow | trigger, ProvisionTenantWorkflow, activities | retries, timeouts, activities without an answer | see onboarding |
| **model-gateway** `services/model-gateway` | request journal, usage outbox, local state of each handler | Execute, ExecuteStream, AdmitRequest, CompleteRequest | retries with one request ID, clients that leave, streams that break, errors that are dropped | a request is served once, a stream keeps to one route, usage and journal agree |
| **model-access: credentials** `application/byok.go`, `adapters/postgres/byok.go`, `adapters/secrets` | connection, credential and operation rows, verification audit, secret in Vault, cleanup queue | BYOK create and rotate, update, archive, cleanup worker | two stores and a provider without a common transaction, retries that recover each other's half-done work | an active connection uses a key the provider accepted; a secret queued for destruction is destroyed |
| **model-access: catalog** `application/{catalog,bindings}*.go`, `adapters/postgres/{catalog,bindings,connections_crud}*.go` | refresh queue, offerings and generations, bindings with revisions | refresh, discovery workers, SetAgentModelBinding, RemoveAgentModelBinding, ResolveInferencePlan | leases that run out, connections archived under a running refresh, a plan read in several statements | generations do not repeat, revisions tell the binding, no plan leads to an archived connection |
| **work-management** `services/work-management` | goals, projects, tasks, dependencies, checklists, assignments, comments, artifacts, schedules | create, update, status changes with optimistic versions, dependency edges | concurrent edges that close a cycle, decisions on rows read in an earlier transaction | the graph has no cycle, status follows its transitions, events tell the rows |
| **organization-agent** `services/organization-agent` | companies, bootstrap record, agents with manager and version, agent revisions | EnsureDefaultCompany, create, update and archive companies; create, update, move, pause, resume and delete agents | the row is read in one transaction and written in another, callers choose the version they expect, onboarding retries overlap | managers form no cycle, history tells the table, archived companies are empty, one default company |
| **policy-approval** `services/policy-approval` | policy sets, immutable versions, bootstrap record, decisions | create, activate, archive, EnsureDefaultPolicies, Evaluate | policies change between the transactions of an evaluation; two evaluations of one request | one answer per request, at least as strict as every policy that stood throughout |
| **identity-access** `services/identity-access` | login transactions and sessions in Redis, users and identities | BeginLogin, CompleteLogin, GetSession, DeleteSession | tabs and browsers in parallel, replayed callbacks, expiry, racing first logins | a session belongs to who proved the identity, in the browser that began the login |
| **api-bff** `services/api-bff` | cookies of each browser | authentication routes; every tenant route: session, permission, CSRF, handler, error mapping | rights revoked between the checks of edge and service; calls that outlive the wait for them | no forged change, revoked rights end, a final status is true |
| **platform libraries** `platform/go` | pools, interceptors | | none of their own | |

How they interact: tenant, work-management, organization-agent, policy-approval,
model-access and model-gateway write to Kafka through their outboxes. Projection
reads from Kafka. Execution-orchestrator reads `tenant.onboarding_started` and
calls tenant, organization-agent and policy-approval. Model-gateway asks
model-access for the inference plan of an agent and reads secrets from Vault.

The hazards, each at its line and with the properties that address it, are in
`PROJECT.json`.

## Modules

```
EventLog  <--implements--  Outbox      <--extends--  Outbox_proofs
   ^
   +---------extends-----  Projection  <--extends--  Projection_proofs
History   <--implements--  Membership  <--extends--  Membership_proofs
Organization                           <--extends--  Organization_proofs
History   <--implements--  Work
Work      <--extends-----  TaskDetails <--extends--  Work_proofs
Sessions  <--extends-----  Edge        <--extends--  Edge_proofs
ModelGateway                           <--extends--  ModelGateway_proofs
Catalog                                <--extends--  Catalog_proofs
Onboarding                             <--extends--  Outbox_proofs
PolicyEngine  <--extends-  Policies    <--extends--  Membership_proofs
Credentials                            <--extends--  ModelGateway_proofs
Paging                                 <--extends--  Projection_proofs
History                                <--extends--  Projection_proofs
```

Four proof modules hold the proofs about a second specification beside the
first. The two share no variable and no constant; the second one has its
component in the names of its specification (`OnboardingSpec`, `PoliciesSpec`,
`CredentialsSpec`, `PagingSpec`), so that both can be extended. `History`, which
is abstract, stands beside the read model, whose versions it explains. Onboarding stands
beside the outbox that announces it, Policies, which decides what an agent may do, beside
Membership, which decides what a user may do, the credentials beside the gateway
that uses them, and the lists of all services beside the read model.

`MC*.tla` give each module small constants; the `.cfg` files select what is
checked. Operators named like a variant of another (`ClaimableUnclaimed`,
`UpsertRowUnguarded`) and commented *Mutant* are not used by any specification.
They are plausible slips in the code, kept to show that each property would
notice one. Properties commented *Not kept by the code* are in no run; they
state what one might expect and say in which instance TLC refutes it.

### EventLog

What consumers may rely on: a log that holds only committed facts, each of them
at least once. No promise about order or duplicates. It is the abstract
specification that `Outbox` implements and the environment of `Projection`.

### History

What consumers may rely on before the events reach the log: an aggregate lives
through consecutive versions, and nothing about it changes but by a transaction
that takes the next version and announces it in one event (`ChangeAndAnnounce`).
The requests, with what they read earlier, are not visible. `Work` implements it
for every goal, project and task (`RowsHaveAHistory`), `Membership` for the
tenant together with its members (`TenantHasAHistory`); in both, `Life` is the
refinement mapping, which takes the announced versions from the events
themselves. Events without an aggregate version (dependencies, checklists, what
hangs on tasks) are outside. Organization keeps its history as a set of
revisions, so the same is said there by `RevisionsTellTheTable`.

### Outbox

`row` is the table, reduced to what the statements of `outbox.go` test:
`published_at`, whether `claimed_at` is set and older than the lease, and
whether `available_at` has come. `batch` and `pc` are the local state of
`relay.go processBatch` in each replica; `log` is the partition.

| Action | Code |
|---|---|
| InsertOutbox | `repository.go insertOutbox`, committed in any order of its identity values |
| ClaimOutbox | `outbox.go ClaimOutbox`: the first rows by `outbox_id`, returned in any order (`UPDATE ... RETURNING`) |
| PublishAcked, PublishFailed | `Publish` returned; a failure may have reached the log |
| MarkOutboxPublished, ReleaseOutbox | the two statements, with their guards and without an owner check |
| StatementFailed | the error that `processBatch` logs before it goes on |
| Crash, LeaseExpires, RetryComesDue | a process that dies, and time |

### Projection

`db` is the projection database with one transaction per record (`ApplyEvent`):
inbox of consumed events, entity rows with versions, search documents,
relations, activity, watermark, checkpoint. Each `decode*` and each `Upsert*` of
the code is an operator on `db`. `groupOffset`, `owner`, `pc`, `pos` and `upto`
are the consumer group and `consumer.go Run` of each replica. A consumer may
lose the partition and go on handling what it polled; a commit of an offset may
fail, or take effect without an answer; `Restore` brings the database back to
`backup` and resets the group to `checkpoint + 1`, the recovery procedure in
`services/projection/README.md`.

Six entity tables share one shape, so the model keeps one version and one
"gone" mark per aggregate. Dependencies and assignments share `link`. The log is
any log that `EventLog` allows, in any order and with repeated records.
`DuplicatesAreHarmless` therefore takes the first records of the facts on the
log as the reference (`LinksOnLog`) and names the one way in which a document
may differ from its row (`Resurfaced`). The comparison of hashes for an event
that is in the inbox is left out: all records of a fact are copies of one
outbox row.

### Onboarding

`tenant` and `op` are the two rows, `outbox` the events of the tenant service.
`wf` is the activity that `ProvisionTenantWorkflow` is at, `attempt` its
attempt, and `call[a][n]` the n-th call of activity `a` at the server. Complete
and Fail take two steps each (`CompleteReads`, `CompleteUpdates`), since their
first SELECT takes no lock. The workflow may start the next attempt while
earlier calls are still running. `ExecutionTimeout` closes the workflow without
running any of its code.

### Membership

An active tenant with its members. A request is `ReadContext` (authorize, and
build the event), for some operations `ReadTarget`, and then the transaction
that writes. `Current` is the optimistic version test, `LastOwner` the owner
count under `FOR UPDATE`, `CanManageMember` and `RoleAllows` the role rules.

### ModelGateway

One record per handler holds the local variables of `Execute` and
`ExecuteStream` that decide the outcome: the chain of routes, `idx`,
`retryCount`, `lastErr`, `selectedRoute`, `clientDisconnected`. `journal` is
`model_gateway_request_journal`, `usage` the usage events in its outbox. The
context of the HTTP request ends when the client leaves; every later statement
then fails. What is history, not code: `from` (whose content the client
received), `end` of a handler and `ending` of an entry (how the answer of the
chosen route really ended: complete, cut off without an error, broken with one,
or refused by a client that had left) and `encodable` (whether the usage event
could be encoded). The adapters return no error where the body ends without its
terminal event (`openai.go:297`, `anthropic.go:270`), so `Stream` may return nil
for a stream that was cut; `createUsageEvent` returns nil when a text of the
request cannot be encoded, and the entry is then closed without usage.

### Organization

`companies`, `bootstrap`, `agents` and `revisions` are the tables of one tenant,
`companyLog` the company events in its outbox; the event of an agent has the
content of its revision, so `revisions` stands for both. `req[q]` is what a
request carries: the row it read with the change applied, the version of the
revision and event it will insert, and the version the caller expects.

| Action | Code |
|---|---|
| ReadAgent, ReadCompany, CreateAgent | the application layer up to the repository call: GetAgent or GetCompany, the status test, the new row and event |
| lockCompany | the start of the writing transaction: `SELECT ... FOR UPDATE` of an active company, then the check of the operation (`hierarchyWouldCycle`, the manager's company, direct reports, live agents) |
| InsertAgent, UpdateAgentRow, ArchiveCompanyRow | the statements that follow, and the commit |
| UpdateCompanyRow | its transaction, which takes no lock of its own but waits for the row |
| EnsureDefaultCompany, LockBootstrap, InsertDefaultCompany | the bootstrap: look for the operation, take the advisory lock and look for a default, insert |
| CreateCompany | one INSERT with its event |
| Rollback | any failing statement, commit or connection |

The row lock is held from `lockCompany` to the write (`RowLockFree`), the
advisory lock likewise. `hierarchyWouldCycle` says what the recursive query
computes, without recursion: the agent is in every set of live colleagues that
holds the manager and is closed under taking managers. The versions compared are
two different ones: the UPDATE compares the caller's, the primary key of the
revisions compares the one that was read.

### Credentials

One BYOK connection of one tenant. `connection`, `credential`, `operation`,
`audit` and `cleanup` are tables, `vault` the versions of its KV-v2 secret,
`request[r]` the local state of a create or rotate call. A key is its own
fingerprint.

| Action | Code |
|---|---|
| CreateBYOKMetadata, RotateBYOKCredential | the first transaction of `byok.go` create and rotate, with replays of an idempotency key |
| RequestStep | one call each: write to Vault, mark as stored, ask the provider, activate or fail, complete or fail the rotation; recovery of a half-done earlier attempt |
| Abort | the request ends after any call: a lost answer, a crash, a timeout |
| UpdateConnection, ArchiveConnection | the owner, at any time |
| ClaimSecretCleanup, CleanupOne, CompleteSecretCleanup, ReleaseSecretCleanup | the cleanup worker |

`RefreshRowFits` says whether the row that asks for a catalog refresh suits its
table; see [below](#observed-while-modelling).

### Catalog

Connections become active and ask for a refresh; workers claim refreshes under
a lease (`ProcessBatch`), ask the provider and replace the offerings
(`WorkerStep`, including a lease that runs out while the worker goes on).
`SetAgentModelBinding`, `GetOffering` and `SetAgentBinding` are the reads and
the write of a binding; each version has its row in `revisions`.
`ResolveInferencePlan` to `PlanReturned` are the statements of the plan query,
one step each, as READ COMMITTED gives each its own snapshot. `RowsFit` plays
the role of `RefreshRowFits`.

### Work and TaskDetails

`goal`, `project`, `task`, `item` and the dependency links are tables, `events`
the outbox per aggregate. A request (`GoalRequest`, `ProjectRequest`,
`TaskRequest`, `ItemRequest`) reads its row and decides by the transition
tables; the matching `...Step` is its writing transaction, statement by
statement: the checks that look at other rows lock nothing, except the project
row under which dependencies are added (`DependencyStep`). A client may name any
version, of a row it has seen or not; `ahead` in an event is history, and says
that the version named was later than the row the request had read.
`TaskDetails` adds assignments, comments, artifacts and
the schedule to the same interleaving.

### PolicyEngine and Policies

`PolicyEngine` is the evaluator as operators: matching of actions and
resources, conditions (the answer of CEL is data of a rule), severity, merging
of constraints, autonomy. `Policies` is the service: `policy` holds sets and
versions, `decision` the recorded decisions. CreatePolicy, CreateVersion,
ActivatePolicy and ArchivePolicy are one transaction each; an evaluation takes
`resolveSubject`, `FindDecisionByRequestID`, `ListActiveBundles` and
`RecordDecision` in transactions of their own; the bootstrap is
EnsureDefaultPolicies, EnsureDefaults and loadBootstrapPolicies. The hash of a
request covers the type, identifier and company of its subject and not the
autonomy. `Kept` is what the table keeps of a decision: its times without their
nanoseconds, so that the caller who made a decision and one who reads it back
see different times. History are `standing`, the versions that applied from the
first step to the last, and `answers`, what each caller asked and was given.

### Sessions and Edge

`Sessions` is the authentication routes of api-bff with identity-access behind
them: `transactions` and `sessions` in Redis, `codes` at the identity provider,
`jar` the cookies of each browser, `callbacks[c]` the request that completes a
login, in the steps between which other tabs run. ResolveUser runs under its
advisory lock. `begunIn` and `provedBy` are history.

`Edge` adds the tenant routes. `Routes` lists each with its permission, whether
RequireCSRF stands before it, its handler and the permissions the service asks
for. `RequestStep` takes a request through session, permission, CSRF, call and
answer. The service works on a call whether or not the handler still waits.
Roles may be taken away and the tenant archived at any point. `author` says that
the user wrote the comment a request is about, for whom work-management asks no
permission; `held` is history: the service found the permission held. A handler
that works in stages (createConnection, rotateBYOKCredential) may end `begun`:
with any error, and with rows stored. `Routes` is the table of the handlers'
`Register` functions as if they could be mounted together, see
[below](#observed-while-modelling).

### Paging

One walk over one of fourteen lists. Each list is a record of what its query
and its service do: the order, how it finds out that there is more, what it
answers at the end, whether its token can be read back. `ReadPage` is one
request with any page size, `AddRow`, `RemoveRow` and `MoveRow` the changes in
between; `steady` holds the rows that were there throughout.

## Runs

| Run | Shows |
|---|---|
| `outbox` | With crashes, lost leases and failing statements: a row marked published is on the log; Outbox implements `EventLog` including its fairness (`AtLeastOnce`), with duplicates on the log, and every committed event is eventually marked (`Drains`). |
| `projection` | Rebalances, zombies, lost commits, a repeated record, an unknown event type and a restore, on a log in any order: the offset never passes a record that is not in the read model, rows are the latest version consumed, documents and relations are as if every fact had come once, and the read model catches up again and again. |
| `onboarding` | Rows agree, an outcome is final, and an operation stays open only where the workflow timed out or its failure report was lost. |
| `membership` | An owner remains, only owners make and unmake owners also when authorization is stale, events replay to the table, archived tenants do not change. |
| `model_gateway` | One handler per admitted request, usage for exactly the closed entries that a provider answered and whose event could be encoded, no splicing of streams, a truthful outcome. |
| `organization` | Two requests interleaved between read, lock and write, with rollbacks and any expected version: managers form no cycle, there is one revision for each version and the last one is the row, archived companies have no live agents, overlapping bootstraps make one default company. |
| `credentials` | Creation, rotation, retries and archiving interleaved at every call: the version an active connection names never holds another key than the one that was verified, and every queued secret is destroyed. |
| `catalog` | Lapsed leases and archived connections: no two refreshes report one generation, revisions are the whole history of the binding, no plan leads to a connection archived before it was asked for, even where a late refresh has revived its offerings. |
| `work` | Overlapping dependency requests close no cycle; goals, projects and tasks change only along their transition tables although these are tested on an earlier read; events tell each row's life without gap or repetition, both but for changes whose client named a version later than that read; deleted comments and artifacts stay as they are. |
| `policies` | Two evaluations of one request, beside policy and autonomy changes: one answer up to the nanoseconds of its times, about the request that was asked, at least as strict as every version that stood throughout. |
| `edge` | Sessions belong to the person who proved the identity in the browser that began the login; racing first logins make one user; requests from foreign pages change nothing; a permission revoked before the service asks is honoured, except with the author of a comment; 2xx and 4xx are true, also later, except for 4xx of the two BYOK calls that work in stages. |
| `paging` | A walk meets every row that stayed, exactly once if it ended, and ends; the search and the lists of the projection are excepted where the comments say so. |

`CHECK_DEADLOCK FALSE` appears because finite histories end: all events
published, the workflow closed, the request or version bound reached. Where
progress matters a liveness property states it (`Drains`,
`EveryFactIsProjected`, `OperationEnds`, `CleanupIsDone`, `WalksEnd`).

## Bounds

- `outbox`: two relays, two rows, batches of two: a batch that is partly
  processed when its lease runs out, another relay on the same rows, and a row
  committed after the first claim. The log keeps two repeated records; a
  further one is absorbed (`MaxRepeats`). The safety properties are proved for any
  number of rows.
- `projection`: two consumers (one the zombie of the other) and two histories:
  an agent created and deleted with an event of unknown type, or a task assigned
  and unassigned, on the log in any order with one repeated record: the smallest
  in which a duplicate meets what a removal left. One restore; a second adds nothing that the first does not, since a
  restore forgets how the database got there.
- `onboarding`: two attempts per activity (the code configures 20 and 100). Two
  is the smallest number in which a call that was given up overlaps its
  successor and the failure path.
- `membership`: three users, two requests at a time, tenant versions up to 5,
  so up to four changes. Two owners who act against each other need two
  requests; the third user is a bystander or an admin.
- `model_gateway`: two handlers, two request IDs, chains of two routes, of which
  the second is the other alias or a fallback, so the same ID can be carried
  twice and the second route can fail too.
- `organization`: two agents, two companies, two requests; agents up to version
  3, companies up to version 2. Two moves that together close a cycle need two
  agents and two requests; version 3 lets a caller expect a version that does
  not exist yet when the row is read. Longer chains of managers and more
  requests are covered by the proof.
- `credentials`: two keys of which the provider accepts one, two requests at a
  time and three in all, one idempotency key, one cleanup worker, one update by
  the owner before the connection has changed otherwise: a creation, a
  retry that meets what it left, and a rotation, or two rotations at once.
- `catalog`: two connections (one BYOK), one model, three pools, two refreshes,
  two workers, two versions of the binding: a refresh that is claimed twice,
  and a binding that changes while it is read.
- `work`: one goal, one project and three tasks that are there, one more of
  each to create, two clients, three requests, versions up to 2. Two edges that close a cycle
  need two clients; the third request changes a status under them; version 2 is
  later than a row as it was created.
- `policies`: two evaluators with one request ID, four requests, three policy
  sets of which two have versions, an agent with two autonomy levels.
- `edge`: two browsers, two logins, two callbacks, two people, one request on
  any route, one change of rights. The constraint `LoginsAtRest` explores one
  of the orders of a request whose session is resolved and of logins that are
  still going on; they share no state.
- `paging`: four rows, two times, page sizes that mean default (2), one and
  maximum (3), two changes: walks of up to four pages, with ties in time.

`RefreshRowFits` and `RowsFit` are TRUE in the runs: they check the code as if
the rows it inserts suited their tables. At this commit they do not (see
[below](#observed-while-modelling)), the transactions concerned fail, and with
FALSE the models show just that; nothing then becomes active, and the
properties would hold for want of cases.

Symmetry is used in runs that check no liveness, for sets whose members nothing
in the model tells apart.

## Fairness

- **Outbox.** Each relay keeps stepping (`WF` on `RelayStep`): the poll loop
  has no exit but its context. Time passes (`WF` on `LeaseExpires`,
  `RetryComesDue`). Some replica claims when rows keep being claimable, and of
  the attempts at an event not all fail (`SF` on claim, acknowledged publish
  and mark): the supervisor restarts replicas, and neither broker nor database
  is down forever. Crashes are not limited.
- **Projection.** Weak fairness for the restart of a consumer and for leaving
  the commit step; strong fairness for assigning the partition, polling,
  handling by the owner and committing, taken over all consumers together. One
  consumer may be unlucky forever.
- **Onboarding.** Weak fairness for the trigger, the workflow and the call of
  the current attempt: Temporal delivers activities, and a call ends or times
  out. Calls that were given up may hang forever, and any call may fail.
- **Credentials.** Weak fairness for claiming an item, strong fairness for
  destroying it and for marking it done: the cleanup worker polls for as long
  as the service runs, and Vault and the database are not down forever.
  Requests have no fairness; they may hang or be lost.
- **Paging.** Weak fairness for the client's next request: it goes on as long
  as it is given a token.

## Proofs

`Outbox_proofs` (for any relays, any number of rows, any batch size, from
`OutboxAssumption`):

- `TypeCorrect`, `NoFactIsDropped`, `NoFactIsInvented`: `TypeOK`,
  `PublishedIsOnLog` and `OnlyCommittedFacts` are invariants.
  `PublishedIsOnLog` alone is not inductive: it says nothing about a relay that
  is about to mark a row. `IInv` adds `MarkedIsOnLog`, "the record at the head
  of the batch of a relay in `mark` is on the log", and `OnlyCommittedFacts`.
  No conjunct mentions claims, so the argument does not need leases at all:
  they save duplicates, not correctness.
- `PublishedIsFinal`: `PublishedStaysPublished`, from what a step can do to a
  row (`RowSteps`) and to a batch (`BatchSteps`).
- `ImplementsEventLog`: `Safety => Log!LogSafety` with
  `committed <- Committed`. An insert is a commit; a publish that reaches the
  log is a publish of a committed fact; everything else stutters.
- `OnboardingRowsAgree`, `OnboardingOutcomeIsFinal`: `RowsAgree` and
  `OutcomeIsFinal` of `Onboarding`, for any bounds and without assumptions. A
  CompleteOnboarding that is past its read has seen a running operation, and an
  operation never goes back to pending (`OnboardingInv`); so the write of a call
  that the workflow gave up on finds the operation running or closed, and its
  guards turn the second case into nothing.

`Membership_proofs` (for any users and requests, any version bound, from the
assumptions of `Membership`):

- `TypeCorrect`, and from it `OwnerAlwaysRemains`: the last-owner test and the
  write are one transaction, so the invariant is inductive once types are known.
- `OwnersManageOwners`, `ArchivedStaysReadOnly`: action properties. They hold
  because the version test in the writing transaction makes stale
  authorization harmless: a request carries the version it read, every write
  changes the version, so at the write the actor's role is the one that was
  read. The strengthening is `VersionsSeen`: no request in flight has seen a
  version later than the tenant's, and none has seen the version of the
  archived tenant.
- `ChangesAreVersioned`: the k-th event carries version `FirstVersion + k`.
- `TenantImplementsHistory`: `Spec => TenantHasAHistory`, a refinement of
  `History`. A transaction that writes found the version its request had read
  (`WriteTakesNextVersion`), so both the row and the event get the next one;
  every other step stutters.
- `EventsTellTheMembers`: `EventsTellTheTable`. The event of a change names the
  role that was read before the writing transaction. `TargetIsFresh` says that
  a request which carries the tenant's version knows its target as it is; a
  request with an older version is refused by the write.
- `PolicyAnswersAgree`: `AnswersAgree` of `Policies`, for any policies, agents
  and inputs, from `PolicyBoundAssumption`. What the table keeps of every answer
  is the row of `policy_decisions` (`DecisionsAreAnswers`), whose unique key lets
  no second one in; the hash, kept with the row, keeps the answer to one request
  from going to another (`FindingKeeps`, `RecordingKeeps`). What the evaluator
  computes plays no part.
- `DecisionsObeyPolicies`: `StandingPoliciesAreObeyed` of `Policies`, from
  `PolicyTablesAssumption`: policies are finitely many, and the rules of a
  version have distinct identifiers (the primary key of `policy_rules`). Two halves. The evaluator: the rules can be sorted
  (`RulesCanBeSorted`), so `ByPriority` lists them all; a turn of a loop keeps
  the result as strict as it was and makes it as strict as the rule or bundle it
  tries, or ends with a denial, which nothing exceeds, or with an error, after
  which nothing is recorded (`RuleIsObeyed`, `BundleIsObeyed`). The service:
  what an evaluation takes for active all the time is active, and once it has
  listed the bundles it is among them if it applies (`RunIsSound`), although
  policies change between the transactions.
- The induction theorems of the library have an operator as parameter, which the
  provers cannot instantiate. `SetInduction` has a set of numbers in its place.
  It is proved from the well-founded order of the naturals (`WFMin`) and gives
  the existence of the recursive functions in `TryBundle` and `EvaluateBundles`
  as well as what they compute.

`Organization_proofs` (for any agents, companies, requests and bounds, from
`OrganizationAssumption`):

- `TypeCorrect`, `HierarchyStaysAcyclic`, `ManagersStayColleagues`,
  `HistoryIsTrue`, `ArchivedStaysEmpty`, `BootstrapStaysIdempotent`,
  `DefaultStays`, and `DeletedStaysFinal` about steps. All follow from one
  inductive invariant, `IInv`, whose parts need each other.
- Requests in flight must be described, since they decide on old reads.
  `CheckSound` says that what was verified under a lock holds as long as the
  lock does. For a move it does not repeat the query's answer but gives its
  reason: a set of colleagues that holds the new manager, is closed under taking
  managers and misses the agent (`Misses`). Writes in other companies cannot
  touch such a set, because managers are colleagues, and writes in this company
  wait (`RequestsApart`). `MoveKeepsAcyclic` then shows that a cycle through the
  moved agent would have to lie in the set that misses it.
- `ReadSound` says that a request read some past of the row, and the present if
  its version is the next one. As revisions number all versions
  (`RevisionsTellTheTable`), a request with an older read finds its revision
  taken and is rolled back (`WriteIsFresh`). The comparison with the caller's
  version plays no part in the argument.

`Projection_proofs` (for any history, log in any order, consumers, repeated
records and restores, from `ProjectionAssumption` and `IdentifierAssumption`):

- `TypeCorrect`, `NothingIsSkipped`, `RowsShowTheNewest` and
  `EveryFactCountsOnce`: `TypeOK`, `CommittedIsProjected`, `RowsAreLatest` and
  `DuplicatesAreHarmless`.
- The invariant speaks of the database, of its backup and of every consumer.
  `SoundDb`: a database has consumed exactly the known facts of some prefix of
  the log, and that prefix reaches its checkpoint; so it holds of a backup too,
  and a restore with a reset to the checkpoint is no new case.
  `ConsumerSound`: a consumer at work has everything below its position in the
  database, whether it still owns the partition or not. Only an idle consumer
  that lost the partition may be ahead, and it is given the group's offset
  before it polls again.
- `TransactionIsSound` is the heart: a fact that is in the inbox changes
  nothing, and one that is not comes where the log has it first. `Agrees` says
  what the facts so far make of relations and documents. A relation that is
  added or removed by the new fact has no later one yet (`LinksStay`); a document
  follows its row, unless the row has a newer version and is gone, and then the
  new fact came after the deletion (`DocsAgreeStays`).
- `IdentifierAssumption` says that the identifier of a tenant identifies no other
  entity (UUIDs). Nothing is assumed of the order or the versions of facts.
- `HistoriesAreOrdered` says what the newest version is for services that
  implement `History`: `HistorySpec => []VersionsGrow`, the versions of an
  aggregate are announced in growing order, and the last is that of its row. With
  `TenantImplementsHistory` and `WorkImplementsHistory` this is so for active
  tenants, and for goals, projects and tasks while no client runs ahead. The
  events of onboarding and of UpdateCompany are exceptions
  ([below](#observed-while-modelling)).
- `WalksListEveryRow`: `EveryRowIsListed` of `Paging`, for any rows, keys and
  page sizes, from `PagingAssumption`. `CursorTells` says that the steady rows
  up to the cursor have been returned, once each, and those after it not yet;
  where a list repeats its last page, only that they have been returned. The
  order of a list is strict and total (`RowsAreOrdered`), a page is a beginning of what lies after the cursor
  (`PageIsBeginning`), and a page that is not the last one has a last row
  (`LastExists`, because a finite set of rows has no endless descent: `WFMin`).

`Work_proofs` (for any goals, projects, tasks, details, clients and bounds, from
the assumptions of `Work` and `TaskDetails`):

- `TypeCorrect`, `EventsAreTrue`, `StatusesFollowTransitions` and
  `DeletedStaysDeleted` rest on `RowsInv`. Its part `RequestsAreSound` says of a
  request under way that what it read is not newer than the row, and still true
  if the row has the same version; so the version test of the write makes the
  decision on the old read a decision on the present row, and the event made
  from it the next in line. A request that ran `ahead`, as its version is later
  than its read, passes that test over a newer row; the properties except its
  own change and event and nothing after it, so the requests that follow are
  again in line.
- `WorkImplementsHistory`: `DetailsSpec /\ []NobodyRanAhead => RowsHaveAHistory`,
  a refinement of `History` as long as no client names a version later than the
  row that is read for it. `StepsAnnounce` sorts the steps into those that leave rows and
  events alone and those that write one row and append one event; that the
  event carries the version which the row takes follows from
  `EventsTellTheRows` before and after the step.
- `TasksNeverWaitForThemselves`: `DependenciesAreAcyclic`, from `EdgeInv`. A
  dependency joins tasks of one project (`EdgesJoin`), a request that checks and
  inserts holds the lock of that project (`LocksHold`), and what the cycle check
  found is true until the insertion (`ChecksHold`). The recursive query is taken
  as a set of tasks that is closed under prerequisites and misses the task
  (`NoWay`); an insertion in another project leaves it closed, because no edge
  leaves a project.
- The assumptions added for the proofs say that identifiers of goals, projects
  and tasks are distinct (UUIDs) and that no client is called `None`.

`ModelGateway_proofs` (for any handlers, request IDs and plans, from
`GatewayAssumption`):

- `TypeCorrect`, `RequestsAreServedOnce`, `UsageIsExact`,
  `StreamsKeepTheirRoute`, `OutcomesAreTrue`. `HandlersAreSound` says phase by
  phase what a handler carries: nothing was forwarded before the stream began,
  and nothing but the content of the current route since. `UsageIsClosed` says
  that a usage event stands for a closed entry, so an admitted entry has none
  when it is completed.
- `ActiveCredentialsAreVerified`: `ActiveIsVerified` of `Credentials`, for any
  requests, keys and workers and without assumptions, from `CredentialInv`. The
  version that a request promotes was written by that request or compared with
  its key (`RequestsHoldTheirKeys`). Until the connection is archived a version
  in Vault can only become destroyed; the purge, after which the numbering
  starts again, is queued by the archiving transaction alone, and nothing
  becomes active after that (`PurgesAreLast`).

`Edge_proofs` (for any browsers, logins, callbacks, people and requests, from
`SessionsAssumption` and `EdgeAssumption`; the callbacks are finitely many):

- `TypeCorrect`, `EarnedSessions`, `UsersAreUnique` about logins, from `SInv`:
  `SoundCallback` gives for each step of a callback what the earlier ones have
  established, `JarsSound` the same for cookies, and what they refer to is
  written once (`Grows`). `UsersSound` counts: identities that have a user, and
  users, go together, because the advisory lock is held from the lookup to the
  insert.
- `ChangesAreIntended`, `RevocationsCount`, `AnswersAreTrue` about requests,
  from `RInv`: `SoundRequest` lists the forms a request has on its way, and
  `SoundCall` what is true of a call that a service got: its user held the
  permission at a moment the service could see, or wrote the comment (`Entitled`),
  and only a call of createConnection or rotateBYOKCredential ends `begun`. They use the tables of
  the edge: every route that changes something is behind `RequireCSRF`, and no
  status below 500 stands for an error that leaves the outcome open. The tables
  are definitions, so these are facts about the routes of the code.

`Catalog_proofs` (for any connections, models, refreshes, workers and bounds,
from the assumptions of `Catalog`):

- `TypeCorrect`, `GenerationsAreUnique`, `RevisionsAreTheHistory`,
  `PlansAvoidArchived`. Three invariants for three groups of tables.
  `RefreshInv`: a row that waits or that a worker holds, perhaps beside another
  worker, was asked for and names its connection; generations only grow under
  the row lock, so applying a refresh twice takes a new one each time.
  `BindingInv`: an active binding, and an input under check, have a primary
  offering. `PlanInv`: what was archived when the plan began still is
  (`TablesKeep`), so the join with the connection refuses it at every statement.

Some theorems hold for all instances and no run repeats them: those about
`TypeOK`, `OnlyCommittedFacts`, `PublishedStaysPublished`,
`EveryChangeHasItsVersion`, `ManagersAreColleagues`, `DefaultRemains`,
Organization's `DeletedIsFinal`, the type invariants `EdgeTypeOK` and
`DetailsTypeOK`, and the refinements `RowsHaveAHistory` and `TenantHasAHistory`.
TLC has checked `TenantHasAHistory` as a property of the instance of the run
`membership`, `RowsHaveAHistory` as one of the instance of `work` with two requests and
without steps that run ahead, and the inductive invariants of Projection, Paging,
Work, Catalog, Credentials and Policies as invariants of instances like those
of the runs.

Only model-checked: every liveness property and the fairness half of
`AtLeastOnce`, because the prover handles neither fairness nor `ENABLED`. Every
safety property that a run checks is proved.

## Observed while modelling

None of these has a run of its own. Where a property in a module states the
contrary it is named; TLC refutes it in a few steps.

Events and the read model:

- The upsert of a search document replaces a deleted document whatever its
  version (`activity.go:134`). An `agent.created` that arrives after
  `agent.deleted` makes the deleted agent searchable again;
  `services/projection/README.md:115` promises version guards.
  `DuplicatesAreHarmless` names this as its exception (`Resurfaced`).
- Dependencies and assignments in the read model have no version guard
  (`relations.go`). A removal that overtakes its addition leaves the relation
  for good, while the README of the service promises eventual consistency. The
  relay itself causes such reordering: after a failed publish it goes on with
  the next record. `DuplicatesAreHarmless` therefore says that relations are
  those of the order of the log, not of the source.
- `worker.go:111` says of an unknown event "checkpoint and ignore"; the code
  returns before it writes the checkpoint. The group offset does move, so
  nothing is lost.
- A record that cannot be decoded stops its partition for ever
  (`consumer.go Run` returns the error and meets the record again), while
  `contracts/events/README.md:30` asks for a dead-letter topic.
  `EveryFactIsProjected` fails on a log with a `malformed` record.
- The relay of the model gateway computes its backoff as `1 << attempts`
  seconds without the cap that the other relays have; the catalog worker does
  the same with `1 << job.Attempts`.

Tenant and organization:

- FailOnboarding (`onboarding.go:564`) reads without a lock and inserts its
  event whatever its updates changed, so it can announce the failure of a
  tenant that a late CompleteOnboarding has just activated (`FailureIsTrue`),
  and two attempts that both read before either writes announce it twice,
  although the comment calls the operation idempotent.
- Onboarding events carry a fixed aggregate version (`application/onboarding.go:184`)
  that archiving may already have used (`VersionsAreMonotonic`).
- CreateAgent and SetAgentManager look the manager up without its status
  (`agent.go:45`, `agent.go:380`). DeleteAgent refuses an agent with direct
  reports, but an agent can get reports after it was deleted
  (`DeletedHasNoReports`).
- UpdateCompany has no table of revisions that would refuse stale reads. A
  caller that expects a version later than the one read can update a company
  that was archived meanwhile, and the event then says "active" with a version
  that is already used. With `MaxCompanyVersion = 3` the model shows it.
- `GetHierarchy` (organization-agent, `postgres/agent.go:740`) scans each row
  twice, first into the columns of an agent and then into the depth alone, so
  neither scan matches the number of columns.
- No operation moves an agent out of `draft` but deletion, so PauseAgent and
  ResumeAgent refuse every agent at this commit.

Model gateway and model access:

- After a failed route, `lastErr` is never cleared (`service.go:315`): a
  complete stream from a fallback route is recorded as failed with
  `stream_interrupted`, charged as a provider error, and reported to the agent
  (`InterruptedIsTrue`).
- A stream whose body ends early, and in the Anthropic adapter one that carries
  an error event, is recorded as succeeded (`openai.go:297`, `anthropic.go:270`,
  `anthropic.go:306-342`): `OutcomeIsTrue` allows the ending `cut`.
- An entry whose usage event cannot be encoded, as when the correlation ID is not
  valid UTF-8, is closed as succeeded and nobody is charged
  (`service.go:450-453`, `repository.go:185`): `UsageMatchesJournal` names it.
- ActivateBYOK (`byok.go:659`), CompleteBYOKRotation (`byok.go:1449`) and
  CreateConnection (`connections_crud.go:165`) insert into a column
  `generation` that `model_access_catalog_refreshes` does not have, and leave
  out columns that are NOT NULL. The error is ignored but the transaction is
  aborted, so no connection becomes active; `byok_integration_test.go:92`
  expects one. `RefreshRowFits` and `RowsFit` set this aside.
- `fallback_offering_ids` is NOT NULL, but a nil slice is sent as NULL:
  RemoveAgentBinding always fails, and SetAgentBinding without fallbacks too
  (`RowsFit`; `catalog_and_bindings_integration_test.go:187` expects success).
- Of two overlapping rotations the one that completes late promotes again a
  version that the other retired and queued for destruction
  (`ActiveSecretIsKept`, with `MaxRequests = 4`). CompleteBYOKRotation does not
  compare the expected version again.
- A late FailInitialBYOKVerification has no test of the status, and
  MarkBYOKSecretStored none at all. A retry after a transient failure leaves
  the earlier Vault version; a write after archive and purge leaves a secret.
- A replayed rotation that had succeeded gets a version conflict. A rotation
  that crashed before it marked its secret blocks rotations with other keys.
- A refresh may apply after its connection was archived and leave available
  offerings behind; `PlanAvoidsArchived` holds because the plan asks for the
  status of the connection. A slow worker's FailCatalogRefresh can override
  `succeeded`. The text `discovery_failed: %v` may exceed its column.
- The statements of the plan may see different versions of the binding.

Work:

- The application never compares the version that a client names with the row it
  reads; only the UPDATE does (`task.go:328-407`, `goal.go:272-345`). A client
  that names a version which does not exist yet can pass the test of the
  transition on an old row and write over the new one, an illegal change, with an
  event whose version is taken. The model has such clients; `EventsTellTheRows` and
  `TransitionsAreLegal` except exactly these changes; without them
  (`NobodyRanAhead`) the refinement of `History` holds.
- The tests of open projects, open tasks, prerequisites and checklist items lock
  nothing, so a parent may be finished while a child is reopened
  (`FinishedIsFinished`). ChangeGoalStatus counts the open projects of the
  company, not of the goal (`goal.go:292`).
- Checklist positions may repeat, DeleteChecklistItem ignores the expected
  version, the answer and the event of a schedule always say version 1, and
  events of assignments, comments and artifacts carry version 0.

Policies:

- An empty intersection of allowed domains is an empty list, which means no
  restriction (`constraints.go:58-79`): two policies with disjoint domains
  together allow every domain (`StandingDomainsAreKept`, with
  `Stored <- MCDisjoint`).
- CreateVersion inserts version 0, which a CHECK refuses; the default rules have
  no identifier and no resource types, so EnsureDefaults fails (`RowsFit`);
  loadBootstrapPolicies selects a column that does not exist; the bootstrap
  inserts no events; ActivatePolicy and ArchivePolicy query after their commit
  and answer with an error although the change is made.
- The default policies only deny or ask for approval, and the strictest effect
  wins, so no request is ever simply allowed. A recorded decision is returned
  whether or not it has expired. Of two evaluations of one request that
  overlap, the later fails.
- A decision is signed over times with nanoseconds (`evaluation.go:120`,
  `signer.go`) and kept in columns that have microseconds; the signature of one
  that is read back does not verify (`SignaturesVerify`).
- The hash of a request leaves out the autonomy of its agent
  (`protoutil/mapping.go:101-107`), so a request that is evaluated again after
  the autonomy changed gets its old decision.

Logins and the edge:

- RequireSession clears the cookies on any error of identity-access, getSession
  only where there is no session. An answer that clears cookies may clear those
  of a newer login in another tab. Logout clears the cookies though the session
  survives when the token is wrong or the service cannot be reached. A login
  while logged in leaves the old session alive.
- Every login of a disabled user would add a row to `iam_users`, as the lookup
  asks for active users (`repository.go:140`); no operation disables one, so the
  model leaves the test out.
- The handlers of the projection answer 500 where others answer 409 or 422. A
  deadline is answered 503 while the call may still apply.
- createConnection and rotateBYOKCredential may answer 400 or 409 although a
  connection or operation row, an event and a secret have been stored
  (`byok.go:83`, `byok.go:286-302`): `FinalAnswersAreTrue` excepts them.
- work-management lets the author of a comment edit and delete it without asking
  for a permission (`collaboration.go:780-784`). The edit of a member who was
  removed, or whose tenant was archived, after the check of the edge is applied:
  `RevokedIsRefused` excepts it.
- api-bff registers its packages on one router (`main.go:402-423`), and five of
  them mount `/v1/tenants/{tenantID}`, which chi refuses with a panic the second
  time. At this commit it does not start with all of them; `Edge` has the routes
  of all `Register` functions.

Lists:

- The lists of the projection answer their last page with the previous cursor
  (`queries.go:585`, `:775`, `:1000`), so a client that goes on while it is
  given a token never ends.
- Search sorts some columns up and others down but compares them all in one
  direction (`queries.go:895-920`), and skips rows of equal rank and time.
- ListPolicies writes its token as a bare identifier and reads it as JSON
  (`pagination.go:17-52` of the transport): the second page is always refused.
- Agent overviews are ordered by a time that changes, so a row that moves may
  be missed; the watermark of an answer is read after its data, in a statement
  of its own.

## Not modelled

- The dashboard and the company overview of the projection: single reads.
- The relay of the model gateway: the cycle is the one of `Outbox`; its backoff
  is above.
- Platform libraries (interceptors, pools, tracing, supervision) and the web
  application: no protocol state of their own.
- Kafka, PostgreSQL, Redis, Vault, Temporal, the identity provider and the
  model providers are modelled from how the code uses them. A transaction at
  READ COMMITTED is split where the code reads without a lock and writes later,
  and is one step otherwise.
- Row-level security, token verification, TLS and cryptography.
- Contents of events, requests and answers beyond what a property tells apart.
- Generated code under `gen/`.
- audit, integration-gateway, notification-realtime, runtime-manager and
  usage-billing have no operations yet.

## Plan

Done: the models and runs above, and the proofs of every safety property that a
run checks. Liveness stays with TLC.
