---------------------------- MODULE Organization ----------------------------
(***************************************************************************)
(* The companies and agents of one tenant, as the organization-agent       *)
(* service keeps them: bootstrap of the default company, creation, update  *)
(* and archiving of companies, and the agents with their managers.         *)
(*                                                                         *)
(* A request on an existing row reads it in a first transaction, builds    *)
(* the new row, its revision and its event from what it read, and writes   *)
(* in a second one.  The second transaction of everything that concerns    *)
(* agents first locks the company row (lockCompany), then checks, then     *)
(* writes.  Requests interleave between the read, the check and the write. *)
(***************************************************************************)
EXTENDS Naturals

CONSTANTS
    Agents,       \* identities agents can get
    Companies,    \* identities companies can get
    Profiles,     \* name, role, objective, configuration of an agent, as one value
    Requests,     \* requests in flight at the same time
    None,         \* no manager, no company, or a request slot that is free
    MaxVersion,          \* bound: version up to which an agent is changed
    MaxCompanyVersion    \* bound: version up to which a company is changed

\* The statuses this service reads or writes.  Nothing in the repository
\* writes the ones between "draft" and "deleted" except PauseAgent and
\* ResumeAgent, which start from one of them.
Statuses == {"none", "draft", "ready", "degraded", "failed", "paused", "deleted"}
CompanyStatuses == {"none", "active", "archived"}

AgentChanges == {"UpdateAgent", "SetAgentManager", "PauseAgent", "ResumeAgent",
                 "DeleteAgent"}
CompanyChanges == {"UpdateCompany", "ArchiveCompany"}
Kinds == AgentChanges \cup CompanyChanges
            \cup {"CreateAgent", "EnsureDefaultCompany"}

\* The requests whose write transaction begins with lockCompany.
Locking == Kinds \ {"UpdateCompany", "EnsureDefaultCompany"}

\* What a request carries: the row it read with the change applied, the
\* version of its revision and event (the version read plus one), and the
\* version the caller expects the row to have.
RequestRecords ==
    [kind : Kinds, stage : {"ready", "checked"}, company : Companies \cup {None},
     agent : Agents \cup {None}, manager : Agents \cup {None},
     status : Statuses, profile : Profiles, version : Nat, expected : Nat]

Rows == [company : Companies \cup {None}, manager : Agents \cup {None},
         status : Statuses, profile : Profiles, version : Nat]

CompanyRows == [status : CompanyStatuses, isDefault : BOOLEAN, version : Nat]

CompanyEvents == [version : Nat, status : {"active", "archived"}]

Snapshots == [version : Nat, manager : Agents \cup {None}, status : Statuses,
              profile : Profiles]

ASSUME OrganizationAssumption ==
    /\ None \notin Agents
    /\ None \notin Companies
    /\ None \notin RequestRecords
    /\ Profiles # {}
    /\ MaxVersion \in Nat
    /\ MaxCompanyVersion \in Nat

VARIABLES
    companies,   \* organization_companies
    bootstrap,   \* organization_bootstrap_requests: company of the onboarding
    companyLog,  \* events of each company in organization_outbox
    agents,      \* organization_agents
    revisions,   \* organization_agent_revisions; the event that goes to
                 \* organization_outbox with each revision has the same content
    req          \* requests in flight

companyVars == <<companies, bootstrap, companyLog>>
agentVars == <<agents, revisions>>
vars == <<companyVars, agentVars, req>>

NoCompany == [status |-> "none", isDefault |-> FALSE, version |-> 0]
NoAgent == [company |-> None, manager |-> None, status |-> "none",
            profile |-> CHOOSE p \in Profiles : TRUE, version |-> 0]

Init ==
    /\ companies = [c \in Companies |-> NoCompany]
    /\ bootstrap = None
    /\ companyLog = [c \in Companies |-> {}]
    /\ agents = [a \in Agents |-> NoAgent]
    /\ revisions = [a \in Agents |-> {}]
    /\ req = [q \in Requests |-> None]

Exists(a) == agents[a].status # "none"
Live(a) == agents[a].status \notin {"none", "deleted"}
LiveAgents == {a \in Agents : Live(a)}

At(q, kinds, stage) ==
    /\ req[q] # None
    /\ req[q].kind \in kinds
    /\ req[q].stage = stage

\* The identities of rows that are not there and that no request in flight
\* will insert: NewV7 makes a fresh one for each request.
FreshCompanies ==
    {c \in Companies : /\ companies[c].status = "none"
                       /\ \A q \in Requests : req[q] = None \/ req[q].company # c}
FreshAgents ==
    {a \in Agents : /\ ~ Exists(a)
                    /\ \A q \in Requests : req[q] = None \/ req[q].agent # a}

\* External.  The tenant service authorizes members of an active tenant only,
\* and a tenant becomes active after its default company was ensured.
TenantActive == bootstrap # None

Finish(q) == req' = [req EXCEPT ![q] = None]
Checked(q) == req' = [req EXCEPT ![q].stage = "checked"]

-----------------------------------------------------------------------------
(* Bootstrap of the default company.                                       *)

CompanyEvent(version, status) == [version |-> version, status |-> status]

CompanyCreated == CompanyEvent(1, "active")

NewCompany(isDefault) ==
    [status |-> "active", isDefault |-> isDefault, version |-> 1]

insertCompany(c, isDefault) ==
    /\ companies' = [companies EXCEPT ![c] = NewCompany(isDefault)]
    /\ companyLog' = [companyLog EXCEPT ![c] = @ \cup {CompanyCreated}]

Defaults ==
    {c \in Companies : companies[c].isDefault /\ companies[c].status = "active"}

\* The call of the onboarding workflow, which may come again while an earlier
\* one still runs.  An operation that is on record answers with its company.
EnsureDefaultCompany(q) ==
    /\ req[q] = None
    /\ bootstrap = None
    /\ \E c \in FreshCompanies, p \in Profiles :
         req' = [req EXCEPT ![q] =
           [kind |-> "EnsureDefaultCompany", stage |-> "ready", company |-> c,
            agent |-> None, manager |-> None, status |-> "none", profile |-> p,
            version |-> 1, expected |-> 0]]
    /\ UNCHANGED <<companyVars, agentVars>>

\* Mutant: the calls of one tenant do not wait for one another.
AdvisoryLockIgnored == TRUE

\* pg_advisory_xact_lock of the tenant: no other call has passed it and is
\* still in its transaction.
AdvisoryLockFree == \A q \in Requests : ~ At(q, {"EnsureDefaultCompany"}, "checked")

\* The lock and the lookup that follows it: a default that is there is put
\* on record and returned.
LockBootstrap(q) ==
    /\ At(q, {"EnsureDefaultCompany"}, "ready")
    /\ AdvisoryLockFree
    /\ IF Defaults = {}
         THEN Checked(q) /\ UNCHANGED bootstrap
         ELSE /\ Finish(q)
              /\ bootstrap' = IF bootstrap = None THEN CHOOSE c \in Defaults : TRUE
                                                  ELSE bootstrap
    /\ UNCHANGED <<companies, companyLog, agentVars>>

\* The unique index on the tenant's default company refuses a second one.
InsertDefaultCompany(q) ==
    /\ At(q, {"EnsureDefaultCompany"}, "checked")
    /\ IF Defaults = {}
         THEN /\ insertCompany(req[q].company, TRUE)
              /\ bootstrap' = IF bootstrap = None THEN req[q].company ELSE bootstrap
         ELSE UNCHANGED companyVars
    /\ Finish(q)
    /\ UNCHANGED agentVars

-----------------------------------------------------------------------------
(* Requests of users: the first transaction.                               *)

CreateCompany ==
    /\ TenantActive
    /\ \E c \in FreshCompanies : insertCompany(c, FALSE)
    /\ UNCHANGED <<bootstrap, agentVars, req>>

\* Whether the status that was read allows the change.
Allowed(kind, status) ==
    CASE kind = "PauseAgent"  -> status \in {"ready", "degraded", "failed"}
      [] kind = "ResumeAgent" -> status = "paused"
      [] kind = "DeleteAgent" -> status \in {"draft", "paused", "failed"}
      [] OTHER                -> status # "deleted"

\* The status the change gives the row.
StatusAfter(kind, status) ==
    CASE kind = "PauseAgent"  -> "paused"
      [] kind = "ResumeAgent" -> "ready"
      [] kind = "DeleteAgent" -> "deleted"
      [] OTHER                -> status

\* The new row, revision and event, built from the row that was read.
ChangedAgent(k, a, m, p, e) ==
    [kind |-> k, stage |-> "ready", company |-> agents[a].company, agent |-> a,
     manager |-> m, status |-> StatusAfter(k, agents[a].status), profile |-> p,
     version |-> agents[a].version + 1, expected |-> e]

\* GetAgent.  The caller names the version e it expects; one below the version
\* read never matches later, so such a request ends as one rolled back.
ReadAgent(q) ==
    /\ req[q] = None
    /\ TenantActive
    /\ \E k \in AgentChanges, a \in Agents, m \in Agents \cup {None},
          p \in Profiles, e \in 1 .. MaxVersion - 1 :
         /\ Exists(a)
         /\ Allowed(k, agents[a].status)
         /\ e >= agents[a].version
         /\ IF k = "SetAgentManager" THEN m # a ELSE m = agents[a].manager
         /\ k = "UpdateAgent" \/ p = agents[a].profile
         /\ req' = [req EXCEPT ![q] = ChangedAgent(k, a, m, p, e)]
    /\ UNCHANGED <<companyVars, agentVars>>

\* CreateAgent before its transaction: a draft under a fresh identity.
CreateAgent(q) ==
    /\ req[q] = None
    /\ TenantActive
    /\ \E a \in FreshAgents, c \in Companies, m \in Agents \cup {None},
          p \in Profiles :
         req' = [req EXCEPT ![q] =
           [kind |-> "CreateAgent", stage |-> "ready", company |-> c,
            agent |-> a, manager |-> m, status |-> "draft", profile |-> p,
            version |-> 1, expected |-> 0]]
    /\ UNCHANGED <<companyVars, agentVars>>

Archivable(c) == ~ companies[c].isDefault

\* GetCompany.  The default company is not archived, an archived one not
\* changed; the version, as everywhere, is the one read plus one.
ReadCompany(q) ==
    /\ req[q] = None
    /\ TenantActive
    /\ \E k \in CompanyChanges, c \in Companies,
          e \in 1 .. MaxCompanyVersion - 1, p \in Profiles :
         /\ companies[c].status = "active"
         /\ e >= companies[c].version
         /\ k = "ArchiveCompany" => Archivable(c)
         /\ req' = [req EXCEPT ![q] =
              [kind |-> k, stage |-> "ready", company |-> c, agent |-> None,
               manager |-> None, status |-> "none", profile |-> p,
               version |-> companies[c].version + 1, expected |-> e]]
    /\ UNCHANGED <<companyVars, agentVars>>

-----------------------------------------------------------------------------
(* The second transaction: lock the company and check.                     *)

\* Mutant: lockCompany reads the row without locking it.
RowIsNeverLocked(c) == TRUE

\* No transaction holds the row lock that lockCompany takes.
RowLockFree(c) ==
    \A q \in Requests : ~ (At(q, Locking, "checked") /\ req[q].company = c)

\* Mutant: the lock does not ask for an active company.
CompanyThere(c) == companies[c].status # "none"

CompanyActive(c) == companies[c].status = "active"

Colleagues(c) == {x \in LiveAgents : agents[x].company = c}

\* The recursive query walks upward from the manager over agents of the company
\* that are not deleted: it finds the agents that are in every set of such
\* agents which holds the manager and, with an agent, its manager.
hierarchyWouldCycle(c, a, m) ==
    /\ m \in Colleagues(c)
    /\ \A S \in SUBSET Colleagues(c) :
         (/\ m \in S
          /\ \A x \in S : agents[x].manager \in Colleagues(c) => agents[x].manager \in S)
         => a \in S

\* queryAgent of the manager, whatever its status, and its company; the foreign
\* key organization_agents_manager_fk asks the same.
ManagerFound(r) ==
    \/ r.manager = None
    \/ Exists(r.manager) /\ agents[r.manager].company = r.company

HasReports(a) == \E x \in LiveAgents : agents[x].manager = a
HasAgents(c) == Colleagues(c) # {}

\* What each operation verifies while it holds the lock.
Verified(r) ==
    CASE r.kind = "CreateAgent"     -> ManagerFound(r)
      [] r.kind = "SetAgentManager" ->
           /\ ManagerFound(r)
           /\ r.manager # None => ~ hierarchyWouldCycle(r.company, r.agent, r.manager)
      [] r.kind = "DeleteAgent"     -> ~ HasReports(r.agent)
      [] r.kind = "ArchiveCompany"  -> ~ HasAgents(r.company)
      [] OTHER                      -> TRUE

lockCompany(q) ==
    /\ At(q, Locking, "ready")
    /\ RowLockFree(req[q].company)
    /\ IF CompanyActive(req[q].company) /\ Verified(req[q])
         THEN Checked(q)
         ELSE Finish(q)
    /\ UNCHANGED <<companyVars, agentVars>>

-----------------------------------------------------------------------------
(* The second transaction: write, and commit.                              *)

\* Mutant: revisions have no primary key.
RevisionAccepted(r) == TRUE

\* The primary key of organization_agent_revisions: a version that has its
\* revision takes no other, and the whole transaction is rolled back.
RevisionIsNew(r) == \A s \in revisions[r.agent] : s.version # r.version

Revision(r) == [version |-> r.version, manager |-> r.manager,
                status |-> r.status, profile |-> r.profile]

insertAgentRevision(r) ==
    revisions' = [revisions EXCEPT ![r.agent] = @ \cup {Revision(r)}]

InsertAgent(q) ==
    /\ At(q, {"CreateAgent"}, "checked")
    /\ LET r == req[q] IN
         /\ agents' = [agents EXCEPT ![r.agent] =
              [company |-> r.company, manager |-> r.manager, status |-> r.status,
               profile |-> r.profile, version |-> r.version]]
         /\ insertAgentRevision(r)
    /\ Finish(q)
    /\ UNCHANGED companyVars

\* The row after the statement of each operation, which sets its own columns
\* and leaves the others as they are now.
Written(r, row) ==
    [company |-> row.company,
     manager |-> IF r.kind = "SetAgentManager" THEN r.manager ELSE row.manager,
     status  |-> IF r.kind \in {"PauseAgent", "ResumeAgent", "DeleteAgent"}
                   THEN r.status ELSE row.status,
     profile |-> IF r.kind = "UpdateAgent" THEN r.profile ELSE row.profile,
     version |-> row.version + 1]

UpdateAgentRow(q) ==
    /\ At(q, AgentChanges, "checked")
    /\ LET r == req[q] IN
         IF agents[r.agent].version = r.expected /\ RevisionIsNew(r)
           THEN /\ agents' = [agents EXCEPT ![r.agent] = Written(r, @)]
                /\ insertAgentRevision(r)
           ELSE UNCHANGED agentVars
    /\ Finish(q)
    /\ UNCHANGED companyVars

insertCompanyEvent(r, status) ==
    companyLog' = [companyLog EXCEPT ![r.company] =
                     @ \cup {CompanyEvent(r.version, status)}]

ArchiveCompanyRow(q) ==
    /\ At(q, {"ArchiveCompany"}, "checked")
    /\ LET r == req[q] IN
         IF companies[r.company].version = r.expected
           THEN /\ companies' = [companies EXCEPT ![r.company] =
                     [status |-> "archived", isDefault |-> @.isDefault,
                      version |-> @.version + 1]]
                /\ insertCompanyEvent(r, "archived")
           ELSE UNCHANGED <<companies, companyLog>>
    /\ Finish(q)
    /\ UNCHANGED <<bootstrap, agentVars>>

\* UpdateCompany does not call lockCompany: its UPDATE waits for the row.
UpdateCompanyRow(q) ==
    /\ At(q, {"UpdateCompany"}, "ready")
    /\ RowLockFree(req[q].company)
    /\ LET r == req[q] IN
         IF companies[r.company].version = r.expected
           THEN /\ companies' = [companies EXCEPT ![r.company] =
                     [status |-> @.status, isDefault |-> @.isDefault,
                      version |-> @.version + 1]]
                /\ insertCompanyEvent(r, "active")
           ELSE UNCHANGED <<companies, companyLog>>
    /\ Finish(q)
    /\ UNCHANGED <<bootstrap, agentVars>>

\* A statement, the commit or the connection fails: the transaction is rolled
\* back and its locks are released.
Rollback(q) ==
    /\ req[q] # None
    /\ Finish(q)
    /\ UNCHANGED <<companyVars, agentVars>>

Next ==
    \/ CreateCompany
    \/ \E q \in Requests :
         \/ EnsureDefaultCompany(q) \/ LockBootstrap(q) \/ InsertDefaultCompany(q)
         \/ ReadAgent(q) \/ CreateAgent(q) \/ ReadCompany(q)
         \/ lockCompany(q)
         \/ InsertAgent(q) \/ UpdateAgentRow(q)
         \/ ArchiveCompanyRow(q) \/ UpdateCompanyRow(q)
         \/ Rollback(q)

Spec == Init /\ [][Next]_vars

-----------------------------------------------------------------------------
(* Properties.                                                             *)

\* Type correctness.
TypeOK ==
    /\ companies \in [Companies -> CompanyRows]
    /\ bootstrap \in Companies \cup {None}
    /\ companyLog \in [Companies -> SUBSET CompanyEvents]
    /\ agents \in [Agents -> Rows]
    /\ revisions \in [Agents -> SUBSET Snapshots]
    /\ req \in [Requests -> RequestRecords \cup {None}]

\* Managers of agents that are not deleted form no cycle, whatever two
\* requests that move agents at the same time have checked: there is no set
\* of agents in which everybody's manager is again in the set.
HierarchyIsAcyclic ==
    \A S \in SUBSET LiveAgents :
      (\A x \in S : agents[x].manager \in S) => S = {}

\* Manager and agent belong to one company.
ManagersAreColleagues ==
    \A a \in Agents :
      agents[a].manager # None =>
        /\ Exists(agents[a].manager)
        /\ agents[agents[a].manager].company = agents[a].company

\* The history of an agent is complete and true: there is one revision (and
\* one event) for each version the row has had, and the last one is the row,
\* although row and revision are computed from different reads and the
\* caller's expected version is compared with neither.
RevisionsTellTheTable ==
    \A a \in Agents :
      /\ \A v \in 1 .. agents[a].version :
           \E s \in revisions[a] :
             /\ s.version = v
             /\ \A t \in revisions[a] : t.version = v => t = s
      /\ \A s \in revisions[a] : s.version \in 1 .. agents[a].version
      /\ Exists(a) =>
           [version |-> agents[a].version, manager |-> agents[a].manager,
            status |-> agents[a].status, profile |-> agents[a].profile]
             \in revisions[a]

\* An archived company has no agent that is not deleted, also when an agent
\* is being created while the company is archived.
ArchivedIsEmpty ==
    \A a \in LiveAgents : companies[agents[a].company].status = "active"

\* A call of the onboarding workflow that is about to insert the default
\* company will not be refused: calls that overlap wait for one another and
\* find what the first one made.
BootstrapIsIdempotent ==
    \A q \in Requests :
      At(q, {"EnsureDefaultCompany"}, "checked") => Defaults = {} /\ bootstrap = None

\* Once bootstrapped, the tenant has one default company and it is active,
\* the one on record.
DefaultRemains == bootstrap # None => Defaults = {bootstrap}

\* A deleted agent is not changed any more, by a request that read it before
\* it was deleted either.
DeletedIsFinal ==
    [][\A a \in Agents : agents[a].status = "deleted" => agents'[a] = agents[a]]_vars

\* Not kept by the code: a deleted agent has no direct reports.  CreateAgent
\* and SetAgentManager do not ask for the status of the manager.
DeletedHasNoReports == \A a \in LiveAgents :
    agents[a].manager # None => Live(agents[a].manager)

=============================================================================
