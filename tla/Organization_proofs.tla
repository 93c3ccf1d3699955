------------------------- MODULE Organization_proofs -------------------------
(***************************************************************************)
(* Proofs about Organization, for any agents, companies and requests.      *)
(*                                                                         *)
(* The hierarchy stays free of cycles because the answer of                *)
(* hierarchyWouldCycle cannot become stale before the write: requests that *)
(* could change it wait for the lock of the company, and agents of other   *)
(* companies are not on the way.  The history of an agent is true because  *)
(* the primary key of the revisions refuses every write whose read is      *)
(* stale.  IInv says both.                                                 *)
(***************************************************************************)
EXTENDS Organization, FiniteSetTheorems, TLAPS

-----------------------------------------------------------------------------
(* The inductive invariant.                                                *)

\* Rows that are there have a company and a version; others are blank.
RowsSound ==
    \A a \in Agents :
      /\ Exists(a) => agents[a].company \in Companies /\ agents[a].version >= 1
      /\ ~ Exists(a) => agents[a] = NoAgent

\* The default company is the one on record.
DefaultOnRecord ==
    /\ bootstrap = None => Defaults = {}
    /\ bootstrap # None => Defaults = {bootstrap}

\* A set that holds the manager, lies in one company, is closed under taking
\* managers and misses the agent: why the walk did not find the agent.
Misses(S, a, m, c) ==
    /\ m \in S
    /\ a \notin S
    /\ \A x \in S : /\ agents[x].company = c
                    /\ agents[x].manager \in LiveAgents => agents[x].manager \in S

\* What a request read is the row's past, and its present when the versions
\* agree.
ReadSound(r) ==
    r.kind \in AgentChanges =>
      /\ r.agent \in Agents
      /\ Exists(r.agent)
      /\ r.company = agents[r.agent].company
      /\ r.version >= 2
      /\ r.version <= agents[r.agent].version + 1
      /\ r.version = agents[r.agent].version + 1 =>
           /\ Allowed(r.kind, agents[r.agent].status)
           /\ r.status = StatusAfter(r.kind, agents[r.agent].status)
           /\ r.kind # "SetAgentManager" => r.manager = agents[r.agent].manager
           /\ r.kind # "UpdateAgent" => r.profile = agents[r.agent].profile

CreateSound(r) ==
    r.kind = "CreateAgent" =>
      /\ r.agent \in Agents
      /\ ~ Exists(r.agent)
      /\ r.status = "draft"
      /\ r.version = 1

CompanySound(r) ==
    /\ r.kind \in CompanyChanges => companies[r.company].status # "none"
    /\ r.kind = "ArchiveCompany" => ~ companies[r.company].isDefault
    /\ r.kind = "EnsureDefaultCompany" => companies[r.company].status = "none"

\* What was verified under a lock still holds while the lock is held.
CheckSound(r) ==
    r.stage = "checked" =>
      /\ r.kind \in Locking => companies[r.company].status = "active"
      /\ r.kind \in {"CreateAgent", "SetAgentManager"} => ManagerFound(r)
      /\ r.kind = "SetAgentManager" /\ r.manager # None =>
           \/ ~ Live(r.manager)
           \/ \E S \in SUBSET LiveAgents : Misses(S, r.agent, r.manager, r.company)
      /\ r.kind = "ArchiveCompany" => ~ HasAgents(r.company)
      /\ r.kind = "EnsureDefaultCompany" => bootstrap = None

Sound(r) ==
    /\ r.company \in Companies
    /\ ReadSound(r)
    /\ CreateSound(r)
    /\ CompanySound(r)
    /\ CheckSound(r)

RequestsSound == \A q \in Requests : req[q] # None => Sound(req[q])

\* Two requests do not insert the same row nor hold the same lock.
Apart(r, s) ==
    /\ r.kind = "CreateAgent" /\ s.kind = "CreateAgent" => r.agent # s.agent
    /\ r.kind = "EnsureDefaultCompany" /\ s.kind = "EnsureDefaultCompany" =>
         /\ r.company # s.company
         /\ ~ (r.stage = "checked" /\ s.stage = "checked")
    /\ r.kind \in Locking /\ s.kind \in Locking
         /\ r.stage = "checked" /\ s.stage = "checked" => r.company # s.company

RequestsApart ==
    \A p, q \in Requests :
      p # q /\ req[p] # None /\ req[q] # None => Apart(req[p], req[q])

TablesSound ==
    /\ RowsSound
    /\ ManagersAreColleagues
    /\ RevisionsTellTheTable
    /\ HierarchyIsAcyclic
    /\ ArchivedIsEmpty
    /\ DefaultOnRecord

IInv == TypeOK /\ TablesSound /\ RequestsSound /\ RequestsApart

-----------------------------------------------------------------------------
(* Types.                                                                  *)

LEMMA NoAgentType == NoAgent \in Rows /\ NoAgent.status = "none"
                       /\ NoAgent.manager = None /\ NoAgent.version = 0
<1>1. (CHOOSE p \in Profiles : TRUE) \in Profiles
  BY OrganizationAssumption, Zenon
<1>2. QED
  BY <1>1 DEF NoAgent, Rows, Statuses

LEMMA RequestType ==
    ASSUME NEW r \in RequestRecords
    PROVE  /\ r # None
           /\ [r EXCEPT !.stage = "checked"] \in RequestRecords
  BY OrganizationAssumption DEF RequestRecords

LEMMA EventType ==
    /\ CompanyCreated \in CompanyEvents
    /\ \A v \in Nat : CompanyEvent(v, "active") \in CompanyEvents
                       /\ CompanyEvent(v, "archived") \in CompanyEvents
  BY DEF CompanyCreated, CompanyEvent, CompanyEvents

LEMMA TypeInit == Init => TypeOK
  BY NoAgentType DEF Init, TypeOK, NoCompany, CompanyRows, CompanyStatuses

\* What the end of a request does to the requests.
LEMMA Finishing ==
    ASSUME TypeOK, NEW q \in Requests, Finish(q)
    PROVE  /\ req' \in [Requests -> RequestRecords \cup {None}]
           /\ req'[q] = None
           /\ \A p \in Requests : p # q => req'[p] = req[p]
  BY DEF TypeOK, Finish

\* What passing a check does to the requests.
LEMMA Checking ==
    ASSUME TypeOK, NEW q \in Requests, req[q] # None, Checked(q)
    PROVE  /\ req' \in [Requests -> RequestRecords \cup {None}]
           /\ req'[q] \in RequestRecords
           /\ req'[q] = [req[q] EXCEPT !.stage = "checked"]
           /\ req'[q].stage = "checked"
           /\ req'[q].kind = req[q].kind
           /\ req'[q].company = req[q].company
           /\ req'[q].agent = req[q].agent
           /\ req'[q].manager = req[q].manager
           /\ req'[q].status = req[q].status
           /\ req'[q].profile = req[q].profile
           /\ req'[q].version = req[q].version
           /\ \A p \in Requests : p # q => req'[p] = req[p]
<1>1. req[q] \in RequestRecords
  BY DEF TypeOK
<1>2. /\ req'[q] = [req[q] EXCEPT !.stage = "checked"]
      /\ \A p \in Requests : p # q => req'[p] = req[p]
      /\ req' \in [Requests -> RequestRecords \cup {None}]
  <2>1. [req[q] EXCEPT !.stage = "checked"] \in RequestRecords
    BY <1>1, RequestType
  <2>2. QED
    BY <2>1 DEF TypeOK, Checked
<1>3. QED
  BY <1>1, <1>2, RequestType DEF RequestRecords

LEMMA TypeNext == TypeOK /\ [Next]_vars => TypeOK'
<1> SUFFICES ASSUME TypeOK, [Next]_vars PROVE TypeOK'
  OBVIOUS
<1> USE OrganizationAssumption
<1>1. CASE UNCHANGED vars
  BY <1>1 DEF TypeOK, vars, companyVars, agentVars
<1>2. CASE CreateCompany
  <2>1. NewCompany(FALSE) \in CompanyRows
    BY DEF NewCompany, CompanyRows, CompanyStatuses
  <2>2. companies' \in [Companies -> CompanyRows]
    BY <1>2, <2>1 DEF CreateCompany, insertCompany, TypeOK
  <2>3. companyLog' \in [Companies -> SUBSET CompanyEvents]
    <3>1. PICK c \in FreshCompanies :
            companyLog' = [companyLog EXCEPT ![c] = @ \cup {CompanyCreated}]
      BY <1>2 DEF CreateCompany, insertCompany
    <3>2. QED
      BY <3>1, EventType DEF TypeOK
  <2>4. QED
    BY <1>2, <2>2, <2>3 DEF CreateCompany, TypeOK, agentVars
<1>3. ASSUME NEW q \in Requests, EnsureDefaultCompany(q) PROVE TypeOK'
  <2>1. req' \in [Requests -> RequestRecords \cup {None}]
    BY <1>3 DEF EnsureDefaultCompany, TypeOK, RequestRecords, FreshCompanies,
       Kinds, Statuses
  <2>2. QED
    BY <1>3, <2>1 DEF EnsureDefaultCompany, TypeOK, companyVars, agentVars
<1>4. ASSUME NEW q \in Requests, LockBootstrap(q) PROVE TypeOK'
  <2>1. req' \in [Requests -> RequestRecords \cup {None}]
    BY <1>4, Finishing, Checking DEF LockBootstrap, At
  <2>2. bootstrap' \in Companies \cup {None}
    <3>1. ASSUME Defaults # {} PROVE (CHOOSE c \in Defaults : TRUE) \in Companies
      BY <3>1 DEF Defaults
    <3>2. QED
      BY <1>4, <3>1 DEF LockBootstrap, TypeOK
  <2>3. QED
    BY <1>4, <2>1, <2>2 DEF LockBootstrap, TypeOK, agentVars
<1>5. ASSUME NEW q \in Requests, InsertDefaultCompany(q) PROVE TypeOK'
  <2>1. req[q].company \in Companies \cup {None}
    BY <1>5 DEF InsertDefaultCompany, At, TypeOK, RequestRecords
  <2>2. companies' \in [Companies -> CompanyRows]
    <3>1. NewCompany(TRUE) \in CompanyRows
      BY DEF NewCompany, CompanyRows, CompanyStatuses
    <3>2. QED
      BY <1>5, <3>1 DEF InsertDefaultCompany, insertCompany, TypeOK, companyVars
  <2>3. bootstrap' \in Companies \cup {None}
    BY <1>5, <2>1 DEF InsertDefaultCompany, TypeOK, companyVars
  <2>4. companyLog' \in [Companies -> SUBSET CompanyEvents]
    <3>1. CASE companyLog' = [companyLog EXCEPT ![req[q].company] =
                                @ \cup {CompanyCreated}]
      BY <3>1, EventType DEF TypeOK
    <3>2. CASE companyLog' = companyLog
      BY <3>2 DEF TypeOK
    <3>3. QED
      BY <1>5, <3>1, <3>2 DEF InsertDefaultCompany, insertCompany, companyVars
  <2>5. req' \in [Requests -> RequestRecords \cup {None}]
    BY <1>5, Finishing DEF InsertDefaultCompany
  <2>6. QED
    BY <1>5, <2>2, <2>3, <2>4, <2>5 DEF InsertDefaultCompany, TypeOK, agentVars
<1>6. ASSUME NEW q \in Requests, ReadAgent(q) PROVE TypeOK'
  <2>1. PICK k \in AgentChanges, a \in Agents, m \in Agents \cup {None},
            p \in Profiles, e \in 1 .. MaxVersion - 1 :
          req' = [req EXCEPT ![q] = ChangedAgent(k, a, m, p, e)]
    BY <1>6 DEF ReadAgent
  <2>2. agents[a] \in Rows
    BY DEF TypeOK
  <2>3. StatusAfter(k, agents[a].status) \in Statuses
    BY <2>2 DEF StatusAfter, Statuses, Rows
  <2>4. ChangedAgent(k, a, m, p, e) \in RequestRecords
    BY <2>2, <2>3 DEF ChangedAgent, RequestRecords, Kinds, Rows
  <2>5. QED
    BY <1>6, <2>1, <2>4 DEF ReadAgent, TypeOK, companyVars, agentVars
<1>7. ASSUME NEW q \in Requests, CreateAgent(q) PROVE TypeOK'
  <2>1. req' \in [Requests -> RequestRecords \cup {None}]
    BY <1>7 DEF CreateAgent, TypeOK, RequestRecords, FreshAgents, Kinds, Statuses
  <2>2. QED
    BY <1>7, <2>1 DEF CreateAgent, TypeOK, companyVars, agentVars
<1>8. ASSUME NEW q \in Requests, ReadCompany(q) PROVE TypeOK'
  <2>1. req' \in [Requests -> RequestRecords \cup {None}]
    BY <1>8 DEF ReadCompany, TypeOK, RequestRecords, CompanyRows, Kinds, Statuses
  <2>2. QED
    BY <1>8, <2>1 DEF ReadCompany, TypeOK, companyVars, agentVars
<1>9. ASSUME NEW q \in Requests, lockCompany(q) PROVE TypeOK'
  <2>1. req' \in [Requests -> RequestRecords \cup {None}]
    BY <1>9, Finishing, Checking DEF lockCompany, At
  <2>2. QED
    BY <1>9, <2>1 DEF lockCompany, TypeOK, companyVars, agentVars
<1>10. ASSUME NEW q \in Requests, InsertAgent(q) PROVE TypeOK'
  <2>1. req[q] \in RequestRecords
    BY <1>10 DEF InsertAgent, At, TypeOK
  <2>2. agents' \in [Agents -> Rows]
    BY <1>10, <2>1 DEF InsertAgent, TypeOK, RequestRecords, Rows
  <2>3. revisions' \in [Agents -> SUBSET Snapshots]
    <3>1. Revision(req[q]) \in Snapshots
      BY <2>1 DEF Revision, RequestRecords, Snapshots
    <3>2. QED
      BY <1>10, <3>1 DEF InsertAgent, insertAgentRevision, TypeOK
  <2>4. req' \in [Requests -> RequestRecords \cup {None}]
    BY <1>10, Finishing DEF InsertAgent
  <2>5. QED
    BY <1>10, <2>2, <2>3, <2>4 DEF InsertAgent, TypeOK, companyVars
<1>11. ASSUME NEW q \in Requests, UpdateAgentRow(q) PROVE TypeOK'
  <2>1. req[q] \in RequestRecords
    BY <1>11 DEF UpdateAgentRow, At, TypeOK
  <2>2. agents' \in [Agents -> Rows]
    <3>1. \A row \in Rows :
            Written(req[q], row) \in Rows
      BY <2>1 DEF Written, Rows, RequestRecords
    <3>2. QED
      BY <1>11, <3>1 DEF UpdateAgentRow, TypeOK, agentVars
  <2>3. revisions' \in [Agents -> SUBSET Snapshots]
    <3>1. Revision(req[q]) \in Snapshots
      BY <2>1 DEF Revision, RequestRecords, Snapshots
    <3>2. QED
      BY <1>11, <3>1 DEF UpdateAgentRow, insertAgentRevision, TypeOK, agentVars
  <2>4. req' \in [Requests -> RequestRecords \cup {None}]
    BY <1>11, Finishing DEF UpdateAgentRow
  <2>5. QED
    BY <1>11, <2>2, <2>3, <2>4 DEF UpdateAgentRow, TypeOK, companyVars
<1>12. ASSUME NEW q \in Requests, ArchiveCompanyRow(q) \/ UpdateCompanyRow(q)
       PROVE TypeOK'
  <2>1. req[q] \in RequestRecords
    BY <1>12 DEF ArchiveCompanyRow, UpdateCompanyRow, At, TypeOK
  <2>2. companies' \in [Companies -> CompanyRows]
    BY <1>12 DEF ArchiveCompanyRow, UpdateCompanyRow, TypeOK, CompanyRows,
       CompanyStatuses
  <2>3. companyLog' \in [Companies -> SUBSET CompanyEvents]
    <3>1. req[q].version \in Nat
      BY <2>1 DEF RequestRecords
    <3>2. QED
      BY <1>12, <3>1, EventType DEF ArchiveCompanyRow, UpdateCompanyRow,
         insertCompanyEvent, TypeOK
  <2>4. req' \in [Requests -> RequestRecords \cup {None}]
    BY <1>12, Finishing DEF ArchiveCompanyRow, UpdateCompanyRow
  <2>5. QED
    BY <1>12, <2>2, <2>3, <2>4 DEF ArchiveCompanyRow, UpdateCompanyRow, TypeOK,
       agentVars
<1>13. ASSUME NEW q \in Requests, Rollback(q) PROVE TypeOK'
  BY <1>13, Finishing DEF Rollback, TypeOK, companyVars, agentVars
<1>14. QED
  BY <1>1, <1>2, <1>3, <1>4, <1>5, <1>6, <1>7, <1>8, <1>9, <1>10, <1>11, <1>12,
     <1>13 DEF Next

-----------------------------------------------------------------------------
(* Managers without a cycle, as a fact about sets and functions.           *)

\* No set of members of L holds, with everybody, the one that M gives.
NoCycle(L, M) == \A T \in SUBSET L : (\A x \in T : M[x] \in T) => T = {}

\* A set of members of L holds m, is closed under M within L and misses a.
Escapes(L, M, a, m) ==
    \E W \in SUBSET L : /\ m \in W
                        /\ a \notin W
                        /\ \A x \in W : M[x] \in L => M[x] \in W

\* Moving agent a below m closes no cycle if m does not count, or if some set
\* that holds m and is closed under taking managers misses a.
LEMMA MoveKeepsAcyclic ==
    ASSUME NEW L, NEW M, NEW N, NEW a \in L, NEW m,
           \A x \in L : x # a => N[x] = M[x],
           N[a] = m,
           NoCycle(L, M),
           m \notin L \/ Escapes(L, M, a, m)
    PROVE  NoCycle(L, N)
<1> SUFFICES ASSUME NEW S \in SUBSET L, \A x \in S : N[x] \in S
             PROVE  S = {}
  BY DEF NoCycle
<1>1. CASE a \notin S
  BY <1>1 DEF NoCycle
<1>2. CASE a \in S
  <2>1. m \in S
    BY <1>2
  <2>2. PICK W \in SUBSET L : /\ m \in W
                              /\ a \notin W
                              /\ \A x \in W : M[x] \in L => M[x] \in W
    BY <2>1 DEF Escapes
  <2>3. \A x \in S \cap W : M[x] \in S \cap W
    BY <2>2
  <2>4. S \cap W = {}
    BY <2>3 DEF NoCycle
  <2>5. QED
    BY <2>1, <2>2, <2>4
<1>3. QED
  BY <1>1, <1>2

\* A new agent that nobody reports to closes no cycle.
LEMMA NewKeepsAcyclic ==
    ASSUME NEW L, NEW M, NEW N, NEW a,
           \A x \in L : N[x] = M[x] /\ M[x] # a,
           N[a] # a,
           NoCycle(L, M)
    PROVE  NoCycle(L \cup {a}, N)
<1> SUFFICES ASSUME NEW S \in SUBSET (L \cup {a}), \A x \in S : N[x] \in S
             PROVE  S = {}
  BY DEF NoCycle
<1>1. S \ {a} \in SUBSET L
  OBVIOUS
<1>2. \A x \in S \ {a} : M[x] \in S \ {a}
  OBVIOUS
<1>3. S \ {a} = {}
  BY <1>1, <1>2 DEF NoCycle
<1>4. QED
  BY <1>3

\* Without its cycles, a part has none either.
LEMMA PartKeepsAcyclic ==
    ASSUME NEW L, NEW K \in SUBSET L, NEW M, NEW N,
           \A x \in K : N[x] = M[x],
           NoCycle(L, M)
    PROVE  NoCycle(K, N)
<1> SUFFICES ASSUME NEW S \in SUBSET K, \A x \in S : N[x] \in S
             PROVE  S = {}
  BY DEF NoCycle
<1>1. S \in SUBSET L /\ \A x \in S : M[x] \in S
  OBVIOUS
<1>2. QED
  BY <1>1 DEF NoCycle

ManagersOf == [x \in Agents |-> agents[x].manager]

\* HierarchyIsAcyclic in these terms.
LEMMA AcyclicIsNoCycle == HierarchyIsAcyclic <=> NoCycle(LiveAgents, ManagersOf)
<1>1. \A x \in LiveAgents : x \in Agents
  BY DEF LiveAgents
<1>2. \A x \in Agents : ManagersOf[x] = agents[x].manager
  BY DEF ManagersOf
<1>3. QED
  BY <1>1, <1>2 DEF HierarchyIsAcyclic, NoCycle

-----------------------------------------------------------------------------
(* What a write to an agent leaves alone.                                  *)

LEMMA LockingKinds ==
    /\ AgentChanges \subseteq Locking
    /\ "CreateAgent" \in Locking
    /\ "ArchiveCompany" \in Locking
    /\ "EnsureDefaultCompany" \notin Locking
    /\ "UpdateCompany" \notin Locking
    /\ "SetAgentManager" \in AgentChanges
    /\ AgentChanges \cap {"CreateAgent", "EnsureDefaultCompany", "UpdateCompany",
                          "ArchiveCompany"} = {}
  BY DEF Locking, Kinds, AgentChanges, CompanyChanges

\* A request that holds the lock of a company writes row to agent a of that
\* company: what other requests read and verified stays sound.
LEMMA AgentWriteKeepsOthers ==
    ASSUME IInv,
           NEW q \in Requests, At(q, AgentChanges \cup {"CreateAgent"}, "checked"),
           companies' = companies, bootstrap' = bootstrap,
           NEW a \in Agents, NEW row \in Rows,
           agents' = [agents EXCEPT ![a] = row],
           row.status # "none",
           row.company = req[q].company,
           Exists(a) => /\ agents[a].company = req[q].company
                        /\ row.version = agents[a].version + 1,
           NEW p \in Requests, p # q, req[p] # None,
           req[p].kind = "CreateAgent" => req[p].agent # a,
           NEW r, r = req[p]
    PROVE  Sound(r)'
<1> USE OrganizationAssumption
<1>1. /\ r \in RequestRecords
      /\ Sound(r)
      /\ Apart(req[q], r)
      /\ \A x \in Agents : agents[x] \in Rows
      /\ agents'[a] = row
      /\ \A x \in Agents : x # a => agents'[x] = agents[x]
  BY DEF IInv, TypeOK, RequestsSound, RequestsApart, At
<1>2. /\ \A x \in Agents : Exists(x) => Exists(x)'
      /\ \A x \in Agents : x # a => (Exists(x)' <=> Exists(x))
      /\ \A x \in Agents : x # a => (Live(x)' <=> Live(x))
      /\ \A x \in Agents : Exists(x) => agents'[x].company = agents[x].company
  BY <1>1 DEF Exists, Live
<1>3. r.kind \in Locking /\ r.stage = "checked" => r.company # req[q].company
  BY <1>1, LockingKinds DEF At, Apart
<1>4. ReadSound(r)'
  <2> SUFFICES ASSUME r.kind \in AgentChanges PROVE ReadSound(r)'
    BY DEF ReadSound
  <2>1. CASE r.agent = a
    BY <1>1, <1>2, <2>1 DEF Sound, ReadSound, Rows, RequestRecords
  <2>2. CASE r.agent # a
    BY <1>1, <1>2, <2>2 DEF Sound, ReadSound
  <2>3. QED
    BY <2>1, <2>2
<1>5. CreateSound(r)'
  BY <1>1, <1>2 DEF Sound, CreateSound
<1>6. CompanySound(r)'
  BY <1>1 DEF Sound, CompanySound
<1>7. CheckSound(r)'
  <2> SUFFICES ASSUME r.stage = "checked" PROVE CheckSound(r)'
    BY DEF CheckSound
  <2>1. r.kind \in Locking => companies'[r.company].status = "active"
    BY <1>1 DEF Sound, CheckSound
  <2>2. r.kind \in {"CreateAgent", "SetAgentManager"} => ManagerFound(r)'
    BY <1>1, <1>2 DEF Sound, CheckSound, ManagerFound, RequestRecords
  <2>3. ASSUME r.kind = "SetAgentManager", r.manager # None, Live(r.manager)'
        PROVE  \E S \in SUBSET LiveAgents' :
                 Misses(S, r.agent, r.manager, r.company)'
    <3>1. r.company # req[q].company
      BY <1>3, <2>3, LockingKinds
    <3>2. r.manager \in Agents /\ Exists(r.manager)
            /\ agents[r.manager].company = r.company
      BY <1>1, <2>3 DEF Sound, CheckSound, ManagerFound, RequestRecords
    <3>3. r.manager # a
      BY <3>1, <3>2
    <3>4. PICK S \in SUBSET LiveAgents : Misses(S, r.agent, r.manager, r.company)
      BY <1>1, <1>2, <2>3, <3>2, <3>3 DEF Sound, CheckSound
    <3>5. \A x \in S : x \in Agents /\ Live(x) /\ agents[x].company = r.company
      BY <3>4 DEF Misses, LiveAgents
    <3>6. a \notin S
      BY <3>1, <3>5 DEF Live, Exists
    <3>7. S \in SUBSET LiveAgents'
      BY <1>2, <3>5, <3>6 DEF LiveAgents
    <3>8. \A x \in S : agents[x].manager \in Agents =>
                         agents[x].manager # a
      <4>1. SUFFICES ASSUME NEW x \in S, agents[x].manager = a PROVE FALSE
        OBVIOUS
      <4>2. Exists(a) /\ agents[a].company = r.company
        BY <3>5, <4>1 DEF IInv, TablesSound, ManagersAreColleagues
      <4>3. QED
        BY <3>1, <4>2
    <3>9. Misses(S, r.agent, r.manager, r.company)'
      BY <1>1, <1>2, <3>4, <3>5, <3>6, <3>8 DEF Misses, LiveAgents
    <3>10. QED
      BY <3>7, <3>9
  <2>4. r.kind = "ArchiveCompany" => ~ HasAgents(r.company)'
    <3> SUFFICES ASSUME r.kind = "ArchiveCompany",
                        NEW x \in Agents, Live(x)', agents'[x].company = r.company
                 PROVE  FALSE
      BY DEF HasAgents, Colleagues, LiveAgents
    <3>1. x # a
      BY <1>1, <1>3, LockingKinds
    <3>2. QED
      BY <1>1, <1>2, <3>1 DEF Sound, CheckSound, HasAgents, Colleagues, LiveAgents
  <2>5. r.kind = "EnsureDefaultCompany" => bootstrap' = None
    BY <1>1 DEF Sound, CheckSound
  <2>6. QED
    BY <2>1, <2>2, <2>3, <2>4, <2>5 DEF CheckSound
<1>8. QED
  BY <1>1, <1>4, <1>5, <1>6, <1>7 DEF Sound

-----------------------------------------------------------------------------
(* Steps that change requests only.                                        *)

\* When a request ends and the others stay sound, the requests stay sound.
LEMMA FinishKeeps ==
    ASSUME TypeOK, RequestsApart, NEW q \in Requests, Finish(q),
           \A p \in Requests : p # q /\ req[p] # None =>
              \A r : r = req[p] => Sound(r)'
    PROVE  RequestsSound' /\ RequestsApart'
<1>1. /\ req'[q] = None
      /\ \A p \in Requests : p # q => req'[p] = req[p]
  BY Finishing
<1>2. RequestsSound'
  BY <1>1 DEF RequestsSound
<1>3. RequestsApart'
  BY <1>1 DEF RequestsApart
<1>4. QED
  BY <1>2, <1>3

\* While the tables stay as they are, so does what is sound.
LEMMA TablesKeep ==
    ASSUME UNCHANGED <<companyVars, agentVars>>
    PROVE  /\ TablesSound => TablesSound'
           /\ \A r : Sound(r) => Sound(r)'
<1>1. TablesSound => TablesSound'
  BY DEF companyVars, agentVars, TablesSound, RowsSound, ManagersAreColleagues,
     RevisionsTellTheTable, HierarchyIsAcyclic, ArchivedIsEmpty, DefaultOnRecord,
     Defaults, LiveAgents, Live, Exists
<1>2. ASSUME NEW r, Sound(r) PROVE Sound(r)'
  BY <1>2 DEF companyVars, agentVars, Sound, ReadSound, CreateSound, CompanySound,
     CheckSound, ManagerFound, HasAgents, Colleagues, Misses, LiveAgents, Live, Exists
<1>3. QED
  BY <1>1, <1>2

\* A request comes in, or passes its check.
LEMMA RequestStep ==
    ASSUME TypeOK, TablesSound, RequestsSound, RequestsApart,
           UNCHANGED <<companyVars, agentVars>>,
           NEW q \in Requests,
           \A p \in Requests : p # q => req'[p] = req[p],
           req'[q] # None => Sound(req'[q]),
           \A p \in Requests : p # q /\ req[p] # None /\ req'[q] # None =>
              Apart(req[p], req'[q]) /\ Apart(req'[q], req[p])
    PROVE  TablesSound' /\ RequestsSound' /\ RequestsApart'
<1>1. RequestsSound'
  BY TablesKeep DEF RequestsSound
<1>2. RequestsApart'
  BY DEF RequestsApart
<1>3. QED
  BY <1>1, <1>2, TablesKeep

LEMMA RollbackStep ==
    ASSUME IInv, NEW q \in Requests, Finish(q), UNCHANGED <<companyVars, agentVars>>
    PROVE  TablesSound' /\ RequestsSound' /\ RequestsApart'
  BY Finishing, RequestStep DEF IInv

LEMMA ReadAgentStep ==
    ASSUME IInv, NEW q \in Requests, ReadAgent(q)
    PROVE  TablesSound' /\ RequestsSound' /\ RequestsApart'
<1>1. PICK k \in AgentChanges, a \in Agents, m \in Agents \cup {None},
          p \in Profiles, e \in 1 .. MaxVersion - 1 :
        /\ Exists(a)
        /\ Allowed(k, agents[a].status)
        /\ IF k = "SetAgentManager" THEN m # a ELSE m = agents[a].manager
        /\ k = "UpdateAgent" \/ p = agents[a].profile
        /\ req' = [req EXCEPT ![q] = ChangedAgent(k, a, m, p, e)]
  BY DEF ReadAgent
<1> DEFINE r == ChangedAgent(k, a, m, p, e)
<1>2. /\ r.kind = k /\ r.stage = "ready" /\ r.agent = a /\ r.manager = m
      /\ r.company = agents[a].company /\ r.profile = p
      /\ r.status = StatusAfter(k, agents[a].status)
      /\ r.version = agents[a].version + 1
  BY DEF ChangedAgent
<1>3. /\ req'[q] = r
      /\ \A p2 \in Requests : p2 # q => req'[p2] = req[p2]
  BY <1>1 DEF IInv, TypeOK
<1>4. agents[a] \in Rows /\ agents[a].version >= 1 /\ agents[a].company \in Companies
  BY <1>1 DEF IInv, TypeOK, TablesSound, RowsSound
<1> HIDE DEF r
<1>5. ReadSound(r)
  BY <1>1, <1>2, <1>4 DEF ReadSound, Rows
<1>6. Sound(r)
  BY <1>2, <1>4, <1>5, LockingKinds DEF Sound, CreateSound, CompanySound,
     CheckSound, CompanyChanges
<1>7. \A s : Apart(s, r) /\ Apart(r, s)
  BY <1>2, LockingKinds DEF Apart
<1>8. QED
  BY <1>3, <1>6, <1>7, RequestStep DEF IInv, ReadAgent

LEMMA CreateAgentStep ==
    ASSUME IInv, NEW q \in Requests, CreateAgent(q)
    PROVE  TablesSound' /\ RequestsSound' /\ RequestsApart'
<1>1. PICK a \in FreshAgents, c \in Companies, m \in Agents \cup {None},
          p \in Profiles :
        req' = [req EXCEPT ![q] =
           [kind |-> "CreateAgent", stage |-> "ready", company |-> c,
            agent |-> a, manager |-> m, status |-> "draft", profile |-> p,
            version |-> 1, expected |-> 0]]
  BY DEF CreateAgent
<1>2. PICK r : r = req'[q]
  OBVIOUS
<1>3. /\ r.kind = "CreateAgent" /\ r.stage = "ready" /\ r.agent = a
      /\ r.company = c /\ r.status = "draft" /\ r.version = 1
      /\ \A p2 \in Requests : p2 # q => req'[p2] = req[p2]
  BY <1>1, <1>2 DEF IInv, TypeOK
<1>4. a \in Agents /\ ~ Exists(a)
        /\ \A p2 \in Requests : req[p2] = None \/ req[p2].agent # a
  BY DEF FreshAgents
<1>5. Sound(r)
  BY <1>3, <1>4, LockingKinds DEF Sound, ReadSound, CreateSound, CompanySound,
     CheckSound, CompanyChanges
<1>6. \A p2 \in Requests : req[p2] # None =>
         Apart(req[p2], r) /\ Apart(r, req[p2])
  BY <1>3, <1>4 DEF Apart
<1>7. QED
  BY <1>2, <1>3, <1>5, <1>6, RequestStep DEF IInv, CreateAgent

LEMMA ReadCompanyStep ==
    ASSUME IInv, NEW q \in Requests, ReadCompany(q)
    PROVE  TablesSound' /\ RequestsSound' /\ RequestsApart'
<1>1. PICK k \in CompanyChanges, c \in Companies,
          e \in 1 .. MaxCompanyVersion - 1, p \in Profiles :
         /\ companies[c].status = "active"
         /\ e >= companies[c].version
         /\ k = "ArchiveCompany" => Archivable(c)
         /\ req' = [req EXCEPT ![q] =
              [kind |-> k, stage |-> "ready", company |-> c, agent |-> None,
               manager |-> None, status |-> "none", profile |-> p,
               version |-> companies[c].version + 1, expected |-> e]]
  BY DEF ReadCompany
<1>2. PICK r : r = req'[q]
  OBVIOUS
<1>3. /\ r.kind = k /\ r.stage = "ready" /\ r.company = c
      /\ \A p2 \in Requests : p2 # q => req'[p2] = req[p2]
  BY <1>1, <1>2 DEF IInv, TypeOK
<1>4. Sound(r)
  BY <1>1, <1>3, LockingKinds DEF Sound, ReadSound, CreateSound, CompanySound,
     CheckSound, CompanyChanges, Archivable
<1>5. \A s : Apart(s, r) /\ Apart(r, s)
  BY <1>3 DEF Apart, CompanyChanges
<1>6. QED
  BY <1>2, <1>3, <1>4, <1>5, RequestStep DEF IInv, ReadCompany

LEMMA EnsureStep ==
    ASSUME IInv, NEW q \in Requests, EnsureDefaultCompany(q)
    PROVE  TablesSound' /\ RequestsSound' /\ RequestsApart'
<1>1. PICK c \in FreshCompanies, p \in Profiles :
         req' = [req EXCEPT ![q] =
           [kind |-> "EnsureDefaultCompany", stage |-> "ready", company |-> c,
            agent |-> None, manager |-> None, status |-> "none", profile |-> p,
            version |-> 1, expected |-> 0]]
  BY DEF EnsureDefaultCompany
<1>2. PICK r : r = req'[q]
  OBVIOUS
<1>3. /\ r.kind = "EnsureDefaultCompany" /\ r.stage = "ready" /\ r.company = c
      /\ \A p2 \in Requests : p2 # q => req'[p2] = req[p2]
  BY <1>1, <1>2 DEF IInv, TypeOK
<1>4. companies[c].status = "none" /\ c \in Companies
        /\ \A p2 \in Requests : req[p2] = None \/ req[p2].company # c
  BY DEF FreshCompanies
<1>5. Sound(r)
  BY <1>3, <1>4, LockingKinds DEF Sound, ReadSound, CreateSound, CompanySound,
     CheckSound, CompanyChanges
<1>6. \A p2 \in Requests : req[p2] # None =>
         Apart(req[p2], r) /\ Apart(r, req[p2])
  BY <1>3, <1>4 DEF Apart
<1>7. QED
  BY <1>2, <1>3, <1>5, <1>6, RequestStep DEF IInv, EnsureDefaultCompany

-----------------------------------------------------------------------------
(* Locks and checks.                                                       *)

LEMMA LockBootstrapStep ==
    ASSUME IInv, NEW q \in Requests, LockBootstrap(q)
    PROVE  TablesSound' /\ RequestsSound' /\ RequestsApart'
<1>1. CASE Defaults # {}
  <2>1. bootstrap' = bootstrap
    BY <1>1 DEF LockBootstrap, IInv, TablesSound, DefaultOnRecord
  <2>2. QED
    BY <1>1, <2>1, RollbackStep DEF LockBootstrap, companyVars, agentVars
<1>2. CASE Defaults = {}
  <2>1. req[q] # None /\ req[q].kind = "EnsureDefaultCompany" /\ Checked(q)
          /\ UNCHANGED <<companyVars, agentVars>>
    BY <1>2 DEF LockBootstrap, At, companyVars, agentVars
  <2>2. PICK r : r = req'[q]
    OBVIOUS
  <2>3. /\ r.kind = "EnsureDefaultCompany" /\ r.stage = "checked"
        /\ r.company = req[q].company
        /\ \A p \in Requests : p # q => req'[p] = req[p]
    BY <2>1, <2>2, Checking DEF IInv
  <2>4. bootstrap = None
    BY <1>2 DEF IInv, TablesSound, DefaultOnRecord
  <2>5. Sound(r)
    <3>1. companies[r.company].status = "none" /\ r.company \in Companies
      BY <2>1, <2>3 DEF IInv, RequestsSound, Sound, CompanySound
    <3>2. QED
      BY <2>3, <2>4, <3>1, LockingKinds DEF Sound, ReadSound, CreateSound,
         CompanySound, CheckSound, CompanyChanges
  <2>6. ASSUME NEW p \in Requests, p # q, req[p] # None
        PROVE  Apart(req[p], r) /\ Apart(r, req[p])
    <3>1. Apart(req[p], req[q]) /\ Apart(req[q], req[p])
      BY <2>1, <2>6 DEF IInv, RequestsApart
    <3>2. req[p].kind = "EnsureDefaultCompany" => req[p].stage # "checked"
      BY <2>6 DEF LockBootstrap, AdvisoryLockFree, At
    <3>3. QED
      BY <2>1, <2>3, <3>1, <3>2, LockingKinds DEF Apart
  <2>7. QED
    BY <2>1, <2>2, <2>3, <2>5, <2>6, RequestStep DEF IInv
<1>3. QED
  BY <1>1, <1>2

\* The walk that does not meet the agent leaves a set that misses it: within a
\* company, managers are found in the company.
LEMMA NoCycleMisses ==
    ASSUME IInv, NEW a \in Agents, NEW m \in Agents, Live(m),
           NEW c, agents[m].company = c,
           ~ hierarchyWouldCycle(c, a, m)
    PROVE  \E S \in SUBSET LiveAgents : Misses(S, a, m, c)
<1>1. PICK S \in SUBSET Colleagues(c) :
        /\ m \in S
        /\ \A x \in S : agents[x].manager \in Colleagues(c) => agents[x].manager \in S
        /\ a \notin S
  BY DEF hierarchyWouldCycle, Colleagues, LiveAgents
<1>2. ASSUME NEW x \in S
      PROVE  /\ x \in LiveAgents
             /\ agents[x].company = c
             /\ agents[x].manager \in LiveAgents => agents[x].manager \in S
  <2>1. x \in LiveAgents /\ x \in Agents /\ agents[x].company = c
    BY DEF Colleagues, LiveAgents
  <2>2. ASSUME agents[x].manager \in LiveAgents PROVE agents[x].manager \in S
    <3>1. agents[x].manager \in Agents /\ agents[x].manager # None
      BY <2>2, OrganizationAssumption DEF LiveAgents
    <3>2. agents[agents[x].manager].company = c
      BY <2>1, <3>1 DEF IInv, TablesSound, ManagersAreColleagues
    <3>3. QED
      BY <1>1, <2>2, <3>2 DEF Colleagues
  <2>3. QED
    BY <2>1, <2>2
<1>3. S \in SUBSET LiveAgents /\ Misses(S, a, m, c)
  BY <1>1, <1>2 DEF Misses
<1>4. QED
  BY <1>3

LEMMA lockCompanyStep ==
    ASSUME IInv, NEW q \in Requests, lockCompany(q)
    PROVE  TablesSound' /\ RequestsSound' /\ RequestsApart'
<1>1. CASE Finish(q)
  BY <1>1, RollbackStep DEF lockCompany
<1>2. CASE Checked(q) /\ CompanyActive(req[q].company) /\ Verified(req[q])
  <2>1. req[q] # None /\ req[q].kind \in Locking /\ req[q] \in RequestRecords
    BY DEF lockCompany, At, IInv, TypeOK
  <2>2. PICK r : r = req'[q]
    OBVIOUS
  <2>3. /\ r \in RequestRecords
        /\ r.stage = "checked"
        /\ r.kind = req[q].kind /\ r.company = req[q].company
        /\ r.agent = req[q].agent /\ r.manager = req[q].manager
        /\ r.status = req[q].status /\ r.profile = req[q].profile
        /\ r.version = req[q].version
        /\ \A p \in Requests : p # q => req'[p] = req[p]
    BY <1>2, <2>1, <2>2, Checking DEF IInv
  <2>4. Sound(req[q])
    BY <2>1 DEF IInv, RequestsSound
  <2>5. r.company \in Companies /\ ReadSound(r) /\ CreateSound(r) /\ CompanySound(r)
    BY <2>3, <2>4 DEF Sound, ReadSound, CreateSound, CompanySound
  <2>6. CheckSound(r)
    <3>1. companies[r.company].status = "active"
      BY <1>2, <2>3 DEF CompanyActive
    <3>2. r.kind \in {"CreateAgent", "SetAgentManager"} => ManagerFound(r)
      BY <1>2, <2>3 DEF Verified, ManagerFound
    <3>3. ASSUME r.kind = "SetAgentManager", r.manager # None, Live(r.manager)
          PROVE  \E S \in SUBSET LiveAgents :
                    Misses(S, r.agent, r.manager, r.company)
      <4>1. r.manager \in Agents /\ r.agent \in Agents
        BY <2>3, <2>5, <3>3, LockingKinds DEF ReadSound, RequestRecords
      <4>2. ~ hierarchyWouldCycle(r.company, r.agent, r.manager)
        BY <1>2, <2>3, <3>3 DEF Verified
      <4>3. agents[r.manager].company = r.company
        BY <3>2, <3>3 DEF ManagerFound
      <4>4. QED
        BY <3>3, <4>1, <4>2, <4>3, NoCycleMisses
    <3>4. r.kind = "ArchiveCompany" => ~ HasAgents(r.company)
      BY <1>2, <2>3 DEF Verified
    <3>5. r.kind # "EnsureDefaultCompany"
      BY <2>1, <2>3, LockingKinds
    <3>6. QED
      BY <3>1, <3>2, <3>3, <3>4, <3>5 DEF CheckSound
  <2>7. ASSUME NEW p \in Requests, p # q, req[p] # None
        PROVE  Apart(req[p], r) /\ Apart(r, req[p])
    <3>1. Apart(req[p], req[q]) /\ Apart(req[q], req[p])
      BY <2>1, <2>7 DEF IInv, RequestsApart
    <3>2. req[p].kind \in Locking /\ req[p].stage = "checked" =>
            req[p].company # req[q].company
      BY <2>7 DEF lockCompany, RowLockFree, At
    <3>3. QED
      BY <2>1, <2>3, <3>1, <3>2, LockingKinds DEF Apart
  <2>8. QED
    BY <2>2, <2>3, <2>5, <2>6, <2>7, RequestStep DEF IInv, lockCompany, Sound
<1>3. QED
  BY <1>1, <1>2 DEF lockCompany

-----------------------------------------------------------------------------
(* Writes to companies.                                                    *)

\* A company appears, or its row changes without it becoming the default or
\* being archived under agents: what concerns agents does not notice.
LEMMA CompanyWriteKeepsAgents ==
    ASSUME TablesSound, UNCHANGED agentVars, ArchivedIsEmpty', DefaultOnRecord'
    PROVE  TablesSound'
  BY DEF agentVars, TablesSound, RowsSound, ManagersAreColleagues,
     RevisionsTellTheTable, HierarchyIsAcyclic, LiveAgents, Live, Exists

\* The same for what a request read and verified.
LEMMA CompanyWriteKeepsRequest ==
    ASSUME UNCHANGED agentVars, NEW r, Sound(r), CompanySound(r)',
           r.stage = "checked" =>
             /\ r.kind \in Locking => companies'[r.company].status = "active"
             /\ r.kind = "EnsureDefaultCompany" => bootstrap' = None
    PROVE  Sound(r)'
<1>1. ReadSound(r)' /\ CreateSound(r)'
  BY DEF agentVars, Sound, ReadSound, CreateSound, Exists
<1>2. CheckSound(r)'
  BY DEF agentVars, Sound, CheckSound, ManagerFound, HasAgents, Colleagues, Misses, LiveAgents,
     Live, Exists
<1>3. QED
  BY <1>1, <1>2 DEF Sound

LEMMA CreateCompanyStep ==
    ASSUME IInv, CreateCompany
    PROVE  TablesSound' /\ RequestsSound' /\ RequestsApart'
<1>1. PICK c \in FreshCompanies :
        companies' = [companies EXCEPT ![c] = NewCompany(FALSE)]
  BY DEF CreateCompany, insertCompany
<1>2. c \in Companies /\ companies[c].status = "none"
        /\ \A q \in Requests : req[q] = None \/ req[q].company # c
  BY DEF FreshCompanies
<1>3. /\ companies'[c].status = "active" /\ companies'[c].isDefault = FALSE
      /\ \A d \in Companies : d # c => companies'[d] = companies[d]
  BY <1>1, <1>2 DEF IInv, TypeOK, NewCompany
<1>4. UNCHANGED <<bootstrap, agents, revisions, req>>
  BY DEF CreateCompany, agentVars
<1>5. ArchivedIsEmpty'
  BY <1>2, <1>3, <1>4 DEF IInv, TablesSound, ArchivedIsEmpty, RowsSound, LiveAgents,
     Live, Exists
<1>6. Defaults' = Defaults
  BY <1>2, <1>3 DEF Defaults
<1>7. TablesSound'
  <2>1. DefaultOnRecord'
    BY <1>4, <1>6 DEF IInv, TablesSound, DefaultOnRecord
  <2>2. QED
    BY <1>4, <1>5, <2>1, CompanyWriteKeepsAgents DEF IInv, agentVars
<1>8. ASSUME NEW q \in Requests, req[q] # None, NEW r, r = req[q]
      PROVE  Sound(r)'
  <2>1. Sound(r) /\ r.company # c
    BY <1>2, <1>8 DEF IInv, RequestsSound
  <2>2. CompanySound(r)'
    BY <1>3, <2>1 DEF Sound, CompanySound, CompanyChanges
  <2>3. r.stage = "checked" /\ r.kind \in Locking =>
          companies'[r.company].status = "active"
    BY <1>3, <2>1 DEF Sound, CheckSound
  <2>4. r.stage = "checked" /\ r.kind = "EnsureDefaultCompany" => bootstrap' = None
    BY <1>4, <2>1 DEF Sound, CheckSound
  <2>5. QED
    BY <1>4, <2>1, <2>2, <2>3, <2>4, CompanyWriteKeepsRequest DEF agentVars
<1>9. RequestsSound'
  BY <1>4, <1>8 DEF RequestsSound
<1>10. RequestsApart'
  BY <1>4 DEF IInv, RequestsApart
<1>11. QED
  BY <1>7, <1>9, <1>10

LEMMA InsertDefaultStep ==
    ASSUME IInv, NEW q \in Requests, InsertDefaultCompany(q)
    PROVE  TablesSound' /\ RequestsSound' /\ RequestsApart'
<1>1. PICK c : c = req[q].company
  OBVIOUS
<1>2. /\ req[q] # None /\ req[q].kind = "EnsureDefaultCompany"
      /\ req[q].stage = "checked" /\ Sound(req[q])
  BY DEF InsertDefaultCompany, At, IInv, RequestsSound
<1>3. c \in Companies /\ companies[c].status = "none" /\ bootstrap = None
        /\ Defaults = {}
  BY <1>1, <1>2 DEF Sound, CompanySound, CheckSound, IInv, TablesSound,
     DefaultOnRecord
<1>4. /\ bootstrap' = c
      /\ UNCHANGED agentVars
  BY <1>1, <1>3 DEF InsertDefaultCompany, insertCompany
<1>5. /\ companies'[c].status = "active" /\ companies'[c].isDefault = TRUE
      /\ \A d \in Companies : d # c => companies'[d] = companies[d]
  <2>1. companies' = [companies EXCEPT ![c] = NewCompany(TRUE)]
    BY <1>1, <1>3 DEF InsertDefaultCompany, insertCompany
  <2>2. QED
    BY <1>3, <2>1 DEF IInv, TypeOK, NewCompany
<1>6. Defaults' = {c}
  BY <1>3, <1>5 DEF Defaults
<1>7. DefaultOnRecord'
  BY <1>3, <1>4, <1>6, OrganizationAssumption DEF DefaultOnRecord
<1>8. ArchivedIsEmpty'
  BY <1>3, <1>4, <1>5 DEF IInv, TablesSound, ArchivedIsEmpty, RowsSound, LiveAgents,
     Live, Exists, agentVars
<1>9. ASSUME NEW p \in Requests, p # q, req[p] # None, NEW r, r = req[p]
      PROVE  Sound(r)'
  <2>1. Sound(r) /\ Apart(r, req[q])
    BY <1>2, <1>9 DEF IInv, RequestsSound, RequestsApart
  <2>2. r.kind \in CompanyChanges \cup {"EnsureDefaultCompany"} => r.company # c
    BY <1>1, <1>2, <1>3, <2>1 DEF Sound, CompanySound, Apart
  <2>3. CompanySound(r)'
    BY <1>5, <2>1, <2>2 DEF Sound, CompanySound, CompanyChanges
  <2>4. r.stage = "checked" /\ r.kind \in Locking =>
          companies'[r.company].status = "active"
    BY <1>5, <2>1 DEF Sound, CheckSound
  <2>5. r.stage = "checked" => r.kind # "EnsureDefaultCompany"
    BY <1>2, <2>1 DEF Apart
  <2>6. QED
    BY <1>4, <2>1, <2>3, <2>4, <2>5, CompanyWriteKeepsRequest
<1>10. TablesSound'
  BY <1>4, <1>7, <1>8, CompanyWriteKeepsAgents DEF IInv
<1>11. QED
  BY <1>9, <1>10, FinishKeeps DEF IInv, InsertDefaultCompany

LEMMA ArchiveStep ==
    ASSUME IInv, NEW q \in Requests, ArchiveCompanyRow(q)
    PROVE  TablesSound' /\ RequestsSound' /\ RequestsApart'
<1>1. PICK c : c = req[q].company
  OBVIOUS
<1>2. /\ req[q] # None /\ req[q].kind = "ArchiveCompany"
      /\ req[q].stage = "checked" /\ Sound(req[q])
  BY DEF ArchiveCompanyRow, At, IInv, RequestsSound
<1>3. /\ c \in Companies /\ companies[c].status = "active"
      /\ ~ companies[c].isDefault /\ ~ HasAgents(c)
  BY <1>1, <1>2, LockingKinds DEF Sound, CompanySound, CheckSound, CompanyChanges
<1>4. CASE UNCHANGED <<companies, companyLog>>
  BY <1>4, RollbackStep DEF ArchiveCompanyRow, companyVars
<1>5. CASE companies' = [companies EXCEPT ![c] =
                [status |-> "archived", isDefault |-> companies[c].isDefault,
                 version |-> companies[c].version + 1]]
  <2>1. /\ companies'[c].status = "archived"
        /\ companies'[c].isDefault = companies[c].isDefault
        /\ \A d \in Companies : d # c => companies'[d] = companies[d]
        /\ UNCHANGED <<bootstrap, agentVars>>
    BY <1>3, <1>5 DEF IInv, TypeOK, ArchiveCompanyRow
  <2>2. Defaults' = Defaults
    BY <1>3, <2>1 DEF Defaults
  <2>3. ArchivedIsEmpty'
    BY <1>3, <2>1 DEF IInv, TablesSound, ArchivedIsEmpty, RowsSound, HasAgents, Colleagues,
       LiveAgents, Live, Exists, agentVars
  <2>4. TablesSound'
    <3>1. DefaultOnRecord'
      BY <2>1, <2>2 DEF IInv, TablesSound, DefaultOnRecord
    <3>2. QED
      BY <2>1, <2>3, <3>1, CompanyWriteKeepsAgents DEF IInv
  <2>5. ASSUME NEW p \in Requests, p # q, req[p] # None, NEW r, r = req[p]
        PROVE  Sound(r)'
    <3>1. Sound(r) /\ Apart(r, req[q])
      BY <1>2, <2>5 DEF IInv, RequestsSound, RequestsApart
    <3>2. r.stage = "checked" /\ r.kind \in Locking => r.company # c
      BY <1>1, <1>2, <3>1, LockingKinds DEF Apart
    <3>3. CompanySound(r)'
      BY <1>3, <2>1, <3>1 DEF Sound, CompanySound, CompanyChanges
    <3>4. r.stage = "checked" /\ r.kind \in Locking =>
            companies'[r.company].status = "active"
      BY <2>1, <3>1, <3>2 DEF Sound, CheckSound
    <3>5. r.stage = "checked" /\ r.kind = "EnsureDefaultCompany" => bootstrap' = None
      BY <2>1, <3>1 DEF Sound, CheckSound
    <3>6. QED
      BY <2>1, <3>1, <3>3, <3>4, <3>5, CompanyWriteKeepsRequest
  <2>6. QED
    BY <2>4, <2>5, FinishKeeps DEF IInv, ArchiveCompanyRow
<1>6. QED
  BY <1>1, <1>4, <1>5 DEF ArchiveCompanyRow

LEMMA UpdateCompanyStep ==
    ASSUME IInv, NEW q \in Requests, UpdateCompanyRow(q)
    PROVE  TablesSound' /\ RequestsSound' /\ RequestsApart'
<1>1. PICK c : c = req[q].company
  OBVIOUS
<1>2. /\ req[q] # None /\ req[q].kind = "UpdateCompany" /\ Sound(req[q])
  BY DEF UpdateCompanyRow, At, IInv, RequestsSound
<1>3. c \in Companies
  BY <1>1, <1>2 DEF Sound, CompanySound, CompanyChanges
<1>4. CASE UNCHANGED <<companies, companyLog>>
  BY <1>4, RollbackStep DEF UpdateCompanyRow, companyVars
<1>5. CASE companies' = [companies EXCEPT ![c] =
                [status |-> companies[c].status, isDefault |-> companies[c].isDefault,
                 version |-> companies[c].version + 1]]
  <2>1. /\ \A d \in Companies : /\ companies'[d].status = companies[d].status
                                 /\ companies'[d].isDefault = companies[d].isDefault
        /\ UNCHANGED <<bootstrap, agentVars>>
    BY <1>3, <1>5 DEF IInv, TypeOK, UpdateCompanyRow
  <2>2. Defaults' = Defaults
    BY <2>1 DEF Defaults
  <2>3. ArchivedIsEmpty'
    BY <2>1 DEF IInv, TablesSound, ArchivedIsEmpty, RowsSound, LiveAgents, Live,
       Exists, agentVars
  <2>4. TablesSound'
    <3>1. DefaultOnRecord'
      BY <2>1, <2>2 DEF IInv, TablesSound, DefaultOnRecord
    <3>2. QED
      BY <2>1, <2>3, <3>1, CompanyWriteKeepsAgents DEF IInv
  <2>5. ASSUME NEW p \in Requests, p # q, req[p] # None, NEW r, r = req[p]
        PROVE  Sound(r)'
    <3>1. Sound(r)
      BY <2>5 DEF IInv, RequestsSound
    <3>2. CompanySound(r)'
      BY <2>1, <3>1 DEF Sound, CompanySound, CompanyChanges
    <3>3. r.stage = "checked" /\ r.kind \in Locking =>
            companies'[r.company].status = "active"
      BY <2>1, <3>1 DEF Sound, CheckSound
    <3>4. r.stage = "checked" /\ r.kind = "EnsureDefaultCompany" => bootstrap' = None
      BY <2>1, <3>1 DEF Sound, CheckSound
    <3>5. QED
      BY <2>1, <3>1, <3>2, <3>3, <3>4, CompanyWriteKeepsRequest
  <2>6. QED
    BY <2>4, <2>5, FinishKeeps DEF IInv, UpdateCompanyRow
<1>6. QED
  BY <1>1, <1>4, <1>5 DEF UpdateCompanyRow

-----------------------------------------------------------------------------
(* Writes to agents.                                                       *)

\* A row and the revision with the next version are written together.
LEMMA WriteTellsTheTable ==
    ASSUME TypeOK, RevisionsTellTheTable, NEW a \in Agents, NEW row \in Rows,
           NEW s \in Snapshots,
           s = [version |-> row.version, manager |-> row.manager,
                status |-> row.status, profile |-> row.profile],
           row.version = agents[a].version + 1,
           agents' = [agents EXCEPT ![a] = row],
           revisions' = [revisions EXCEPT ![a] = @ \cup {s}]
    PROVE  RevisionsTellTheTable'
<1>1. /\ agents'[a] = row
      /\ revisions'[a] = revisions[a] \cup {s}
      /\ s.version = row.version
      /\ agents[a].version \in Nat
      /\ \A t \in revisions[a] : t \in Snapshots
      /\ \A b \in Agents : b # a => agents'[b] = agents[b] /\ revisions'[b] = revisions[b]
  BY DEF TypeOK, Rows
<1>2. SUFFICES ASSUME NEW b \in Agents
      PROVE  /\ \A v \in 1 .. agents'[b].version :
                  \E u \in revisions'[b] :
                    /\ u.version = v
                    /\ \A t \in revisions'[b] : t.version = v => t = u
             /\ \A u \in revisions'[b] : u.version \in 1 .. agents'[b].version
             /\ Exists(b)' =>
                  [version |-> agents'[b].version, manager |-> agents'[b].manager,
                   status |-> agents'[b].status, profile |-> agents'[b].profile]
                     \in revisions'[b]
  BY DEF RevisionsTellTheTable
<1>3. CASE b # a
  BY <1>1, <1>3 DEF RevisionsTellTheTable, Exists
<1>4. CASE b = a
  <2>1. \A t \in revisions[a] : t.version \in 1 .. agents[a].version
    BY DEF RevisionsTellTheTable
  <2>2. \A u \in revisions'[a] : u.version \in 1 .. row.version
    BY <1>1, <2>1
  <2>3. ASSUME NEW v \in 1 .. row.version
        PROVE  \E u \in revisions'[a] :
                 /\ u.version = v
                 /\ \A t \in revisions'[a] : t.version = v => t = u
    <3>1. CASE v = row.version
      BY <1>1, <2>1, <3>1
    <3>2. CASE v # row.version
      <4>1. v \in 1 .. agents[a].version
        BY <1>1, <3>2
      <4>2. PICK u \in revisions[a] :
              u.version = v /\ \A t \in revisions[a] : t.version = v => t = u
        BY <4>1 DEF RevisionsTellTheTable
      <4>3. QED
        BY <1>1, <3>2, <4>2
    <3>3. QED
      BY <3>1, <3>2
  <2>4. [version |-> row.version, manager |-> row.manager,
         status |-> row.status, profile |-> row.profile] \in revisions'[a]
    BY <1>1
  <2>5. QED
    BY <1>1, <1>4, <2>2, <2>3, <2>4
<1>5. QED
  BY <1>3, <1>4

LEMMA InsertAgentStep ==
    ASSUME IInv, NEW q \in Requests, InsertAgent(q)
    PROVE  TablesSound' /\ RequestsSound' /\ RequestsApart'
<1> USE OrganizationAssumption
<1>1. PICK r : r = req[q]
  OBVIOUS
<1>2. /\ req[q] # None /\ r.kind = "CreateAgent" /\ r.stage = "checked"
      /\ Sound(r) /\ r \in RequestRecords
  BY <1>1 DEF InsertAgent, At, IInv, RequestsSound, TypeOK
<1>3. PICK a : a = r.agent
  OBVIOUS
<1>4. /\ a \in Agents /\ ~ Exists(a) /\ agents[a].version = 0
      /\ r.status = "draft" /\ r.version = 1
      /\ r.company \in Companies /\ companies[r.company].status = "active"
      /\ ManagerFound(r)
  BY <1>2, <1>3, NoAgentType, LockingKinds DEF Sound, CreateSound, CheckSound, IInv,
     TablesSound, RowsSound
<1>5. PICK row : row = [company |-> r.company, manager |-> r.manager,
                        status |-> r.status, profile |-> r.profile,
                        version |-> r.version]
  OBVIOUS
<1>6. /\ row \in Rows
      /\ row.company = r.company /\ row.manager = r.manager
      /\ row.status = "draft" /\ row.version = 1
  BY <1>2, <1>4, <1>5 DEF Rows, RequestRecords
<1>7. /\ agents' = [agents EXCEPT ![a] = row]
      /\ revisions' = [revisions EXCEPT ![a] = @ \cup {Revision(r)}]
      /\ UNCHANGED companyVars
  BY <1>1, <1>3, <1>5 DEF InsertAgent, insertAgentRevision
<1>8. /\ agents'[a] = row
      /\ \A x \in Agents : x # a => agents'[x] = agents[x]
      /\ companies' = companies /\ bootstrap' = bootstrap
  BY <1>4, <1>7 DEF IInv, TypeOK, companyVars
<1>9. r.manager # None => r.manager \in Agents /\ Exists(r.manager) /\ r.manager # a
                           /\ agents[r.manager].company = r.company
  BY <1>2, <1>4 DEF ManagerFound, RequestRecords
<1>10. /\ Exists(a)' /\ Live(a)'
       /\ \A x \in Agents : x # a => (Exists(x)' <=> Exists(x))
       /\ LiveAgents' = LiveAgents \cup {a}
       /\ a \notin LiveAgents
  BY <1>4, <1>6, <1>8 DEF Exists, Live, LiveAgents
<1>11. \A x \in Agents : agents[x].manager # a
  BY <1>4 DEF IInv, TablesSound, ManagersAreColleagues
<1>12. RowsSound'
  BY <1>4, <1>6, <1>8, <1>10 DEF IInv, TablesSound, RowsSound
<1>13. ManagersAreColleagues'
  <2>1. ASSUME NEW x \in Agents, NEW m, m = agents'[x].manager, m # None
        PROVE  Exists(m)' /\ agents'[m].company = agents'[x].company
    <3>1. CASE x = a
      <4>1. m = r.manager /\ agents'[x].company = r.company
        BY <1>6, <1>8, <2>1, <3>1
      <4>2. QED
        BY <1>8, <1>9, <1>10, <2>1, <4>1
    <3>2. CASE x # a
      <4>1. agents'[x] = agents[x] /\ m = agents[x].manager
        BY <1>8, <2>1, <3>2
      <4>2. m \in Agents /\ m # a
        BY <1>11, <2>1, <4>1 DEF IInv, TypeOK, Rows
      <4>3. Exists(m) /\ agents[m].company = agents[x].company
        BY <2>1, <4>1 DEF IInv, TablesSound, ManagersAreColleagues
      <4>4. QED
        BY <1>8, <1>10, <4>1, <4>2, <4>3
    <3>3. QED
      BY <3>1, <3>2
  <2>2. QED
    BY <2>1 DEF ManagersAreColleagues, Exists
<1>14. RevisionsTellTheTable'
  <2>1. PICK s : s = Revision(r)
    OBVIOUS
  <2>2. /\ s \in Snapshots
        /\ s = [version |-> row.version, manager |-> row.manager,
                status |-> row.status, profile |-> row.profile]
    <3>1. /\ row.version = r.version /\ row.manager = r.manager
          /\ row.status = r.status /\ row.profile = r.profile
      BY <1>5
    <3>2. Revision(r) \in Snapshots
      BY <1>2 DEF Revision, Snapshots, RequestRecords
    <3>3. QED
      BY <2>1, <3>1, <3>2 DEF Revision
  <2>3. revisions' = [revisions EXCEPT ![a] = @ \cup {s}]
    BY <1>7, <2>1
  <2>4. row.version = agents[a].version + 1
    BY <1>4, <1>6
  <2>5. QED
    BY <1>4, <1>6, <1>7, <2>2, <2>3, <2>4, WriteTellsTheTable DEF IInv, TablesSound
<1>15. HierarchyIsAcyclic'
  <2>1. PICK L, M, N : L = LiveAgents /\ M = ManagersOf /\ N = ManagersOf'
    OBVIOUS
  <2>2. NoCycle(L, M)
    BY <2>1, AcyclicIsNoCycle DEF IInv, TablesSound
  <2>3. \A x \in L : N[x] = M[x] /\ M[x] # a
    BY <1>8, <1>10, <1>11, <2>1 DEF LiveAgents, ManagersOf
  <2>4. N[a] # a
    BY <1>4, <1>6, <1>8, <1>9, <2>1 DEF ManagersOf
  <2>5. NoCycle(L \cup {a}, N)
    BY <2>2, <2>3, <2>4, NewKeepsAcyclic
  <2>6. NoCycle(LiveAgents, ManagersOf)'
    BY <1>10, <2>1, <2>5 DEF NoCycle
  <2>7. QED
    BY <2>6, AcyclicIsNoCycle, PTL
<1>16. ArchivedIsEmpty'
  BY <1>4, <1>6, <1>8, <1>10 DEF IInv, TablesSound, ArchivedIsEmpty, LiveAgents
<1>17. DefaultOnRecord'
  BY <1>8 DEF IInv, TablesSound, DefaultOnRecord, Defaults
<1>18. ASSUME NEW p \in Requests, p # q, req[p] # None, NEW s, s = req[p]
       PROVE  Sound(s)'
  <2>1. req[p].kind = "CreateAgent" => req[p].agent # a
    BY <1>1, <1>2, <1>3, <1>18 DEF IInv, RequestsApart, Apart
  <2>2. At(q, AgentChanges \cup {"CreateAgent"}, "checked")
    BY <1>1, <1>2 DEF At
  <2>3. QED
    BY <1>1, <1>4, <1>6, <1>7, <1>8, <1>18, <2>1, <2>2, AgentWriteKeepsOthers
<1>19. RequestsSound' /\ RequestsApart'
  BY <1>18, FinishKeeps DEF IInv, InsertAgent
<1>20. QED
  BY <1>12, <1>13, <1>14, <1>15, <1>16, <1>17, <1>19 DEF TablesSound

\* The primary key of the revisions lets a request write only if nobody wrote
\* the agent since it was read, and then the row becomes what was built.
LEMMA WriteIsFresh ==
    ASSUME IInv, NEW r \in RequestRecords, r.kind \in AgentChanges, Sound(r),
           RevisionIsNew(r), NEW row, row = Written(r, agents[r.agent])
    PROVE  /\ r.version = agents[r.agent].version + 1
           /\ row \in Rows
           /\ row.company = r.company /\ row.manager = r.manager
           /\ row.status = r.status /\ row.profile = r.profile
           /\ row.version = r.version
           /\ r.status # "none"
           /\ agents[r.agent].status \notin {"none", "deleted"}
<1>1. PICK a : a = r.agent
  OBVIOUS
<1>2. /\ a \in Agents /\ Exists(a) /\ agents[a] \in Rows
      /\ r.version \in Nat /\ agents[a].version \in Nat
      /\ r.version >= 2 /\ r.version <= agents[a].version + 1
      /\ r.company = agents[a].company
  BY <1>1 DEF Sound, ReadSound, IInv, TypeOK, Rows, RequestRecords
<1>3. r.version = agents[a].version + 1
  <2>1. SUFFICES ASSUME r.version \in 1 .. agents[a].version PROVE FALSE
    BY <1>2
  <2>2. \E s \in revisions[a] : s.version = r.version
    <3>1. \A v \in 1 .. agents[a].version : \E s \in revisions[a] : s.version = v
      <4>1. TAKE v \in 1 .. agents[a].version
      <4>2. \E s \in revisions[a] :
              s.version = v /\ \A t \in revisions[a] : t.version = v => t = s
        BY <1>2 DEF IInv, TablesSound, RevisionsTellTheTable
      <4>3. QED
        BY <4>2
    <3>2. QED
      BY <2>1, <3>1
  <2>3. QED
    BY <1>1, <2>2 DEF RevisionIsNew
<1>4. /\ Allowed(r.kind, agents[a].status)
      /\ r.status = StatusAfter(r.kind, agents[a].status)
      /\ r.kind # "SetAgentManager" => r.manager = agents[a].manager
      /\ r.kind # "UpdateAgent" => r.profile = agents[a].profile
  BY <1>1, <1>3 DEF Sound, ReadSound
<1>5. agents[a].status \notin {"none", "deleted"}
  BY <1>2, <1>4 DEF Allowed, AgentChanges, Exists
<1>6. /\ r.status # "none"
      /\ r.kind \notin {"PauseAgent", "ResumeAgent", "DeleteAgent"} =>
           r.status = agents[a].status
  BY <1>4, <1>5 DEF StatusAfter, AgentChanges
<1>7. /\ row.company = agents[a].company
      /\ row.manager = IF r.kind = "SetAgentManager" THEN r.manager
                                                     ELSE agents[a].manager
      /\ row.status = IF r.kind \in {"PauseAgent", "ResumeAgent", "DeleteAgent"}
                        THEN r.status ELSE agents[a].status
      /\ row.profile = IF r.kind = "UpdateAgent" THEN r.profile
                                                 ELSE agents[a].profile
      /\ row.version = agents[a].version + 1
  BY <1>1 DEF Written
<1>8. row \in Rows
  BY <1>1, <1>2 DEF Written, Rows, RequestRecords
<1>9. QED
  BY <1>1, <1>2, <1>3, <1>4, <1>5, <1>6, <1>7, <1>8

LEMMA UpdateAgentStep ==
    ASSUME IInv, NEW q \in Requests, UpdateAgentRow(q)
    PROVE  TablesSound' /\ RequestsSound' /\ RequestsApart'
<1> USE OrganizationAssumption
<1>1. PICK r : r = req[q]
  OBVIOUS
<1>2. /\ req[q] # None /\ r.kind \in AgentChanges /\ r.stage = "checked"
      /\ Sound(r) /\ r \in RequestRecords
  BY <1>1 DEF UpdateAgentRow, At, IInv, RequestsSound, TypeOK
<1>3. CASE UNCHANGED agentVars
  BY <1>3, RollbackStep DEF UpdateAgentRow, companyVars
<1>4. CASE ~ UNCHANGED agentVars
  <2>1. PICK a, row : a = r.agent /\ row = Written(r, agents[a])
    OBVIOUS
  <2>2. /\ RevisionIsNew(r)
        /\ agents' = [agents EXCEPT ![a] = row]
        /\ revisions' = [revisions EXCEPT ![a] = @ \cup {Revision(r)}]
        /\ UNCHANGED companyVars
    BY <1>1, <1>4, <2>1 DEF UpdateAgentRow, insertAgentRevision
  <2>3. /\ a \in Agents /\ Exists(a) /\ Live(a)
        /\ r.version = agents[a].version + 1
        /\ row \in Rows
        /\ row.company = r.company /\ row.manager = r.manager
        /\ row.status = r.status /\ row.profile = r.profile
        /\ row.version = r.version
        /\ r.status # "none"
        /\ r.company = agents[a].company
    BY <1>2, <2>1, <2>2, WriteIsFresh DEF Sound, ReadSound, Live, Exists
  <2>4. /\ agents'[a] = row
        /\ \A x \in Agents : x # a => agents'[x] = agents[x]
        /\ companies' = companies /\ bootstrap' = bootstrap
    BY <2>2, <2>3 DEF IInv, TypeOK, companyVars
  <2>5. /\ Exists(a)'
        /\ \A x \in Agents : Exists(x)' <=> Exists(x)
        /\ \A x \in Agents : agents'[x].company = agents[x].company
        /\ \A x \in Agents : Live(x)' => Live(x)
        /\ LiveAgents' \subseteq LiveAgents
    BY <2>3, <2>4 DEF Exists, Live, LiveAgents
  <2>6. r.kind # "SetAgentManager" => row.manager = agents[a].manager
    BY <2>1 DEF Written
  <2>7. RowsSound'
    <3>1. a \in Agents /\ agents'[a].company \in Companies /\ agents'[a].version >= 1
      BY <1>2, <2>3, <2>4 DEF Sound, IInv, TypeOK, Rows
    <3>2. \A x \in Agents : x # a => agents'[x] = agents[x]
      BY <2>4
    <3>3. QED
      BY <2>5, <3>1, <3>2 DEF IInv, TablesSound, RowsSound
  <2>8. ManagersAreColleagues'
    <3>1. ASSUME NEW x \in Agents, NEW m, m = agents'[x].manager, m # None
          PROVE  Exists(m)' /\ agents'[m].company = agents'[x].company
      <4>1. m \in Agents
        BY <2>3, <2>4, <3>1 DEF IInv, TypeOK, Rows
      <4>2. CASE x = a /\ r.kind = "SetAgentManager"
        <5>1. m = r.manager
          BY <2>3, <2>4, <3>1, <4>2
        <5>2. Exists(m) /\ agents[m].company = r.company
          BY <1>2, <3>1, <4>2, <5>1 DEF Sound, CheckSound, ManagerFound
        <5>3. QED
          BY <2>3, <2>5, <4>1, <4>2, <5>2
      <4>3. CASE ~ (x = a /\ r.kind = "SetAgentManager")
        <5>1. m = agents[x].manager
          BY <2>4, <2>6, <3>1, <4>3
        <5>2. Exists(m) /\ agents[m].company = agents[x].company
          BY <3>1, <5>1 DEF IInv, TablesSound, ManagersAreColleagues
        <5>3. QED
          BY <2>5, <4>1, <5>2
      <4>4. QED
        BY <4>2, <4>3
    <3>2. QED
      BY <3>1 DEF ManagersAreColleagues, Exists
  <2>9. RevisionsTellTheTable'
    <3>1. PICK s : s = Revision(r)
      OBVIOUS
    <3>2. /\ s \in Snapshots
          /\ s = [version |-> row.version, manager |-> row.manager,
                  status |-> row.status, profile |-> row.profile]
      <4>1. Revision(r) \in Snapshots
        BY <1>2 DEF Revision, Snapshots, RequestRecords
      <4>2. QED
        BY <2>3, <3>1, <4>1 DEF Revision
    <3>3. revisions' = [revisions EXCEPT ![a] = @ \cup {s}]
      BY <2>2, <3>1
    <3>4. row.version = agents[a].version + 1
      BY <2>3
    <3>5. QED
      BY <2>2, <2>3, <3>2, <3>3, <3>4, WriteTellsTheTable DEF IInv, TablesSound
  <2>10. HierarchyIsAcyclic'
    <3>1. PICK L, K, M, N : /\ L = LiveAgents /\ K = LiveAgents'
                            /\ M = ManagersOf /\ N = ManagersOf'
      OBVIOUS
    <3>2. NoCycle(L, M)
      BY <3>1, AcyclicIsNoCycle DEF IInv, TablesSound
    <3>3. /\ K \in SUBSET L /\ L \in SUBSET Agents /\ a \in L
          /\ \A x \in L : x # a => N[x] = M[x]
          /\ N[a] = row.manager /\ M[a] = agents[a].manager
      BY <2>3, <2>4, <2>5, <3>1 DEF LiveAgents, ManagersOf
    <3>4. NoCycle(L, N)
      <4>1. CASE r.kind = "SetAgentManager"
        <5>1. PICK m : m = r.manager
          OBVIOUS
        <5>2. N[a] = m
          BY <2>3, <3>3, <5>1
        <5>3. m \notin L \/ Escapes(L, M, a, m)
          <6>1. CASE m = None \/ ~ Live(m)
            BY <3>1, <6>1 DEF LiveAgents
          <6>2. CASE m # None /\ Live(m)
            <7>1. PICK S \in SUBSET LiveAgents : Misses(S, a, m, r.company)
              BY <1>2, <2>1, <4>1, <5>1, <6>2 DEF Sound, CheckSound
            <7>2. /\ S \in SUBSET L /\ m \in S /\ a \notin S
                  /\ \A x \in S : M[x] \in L => M[x] \in S
              BY <3>1, <3>3, <7>1 DEF Misses, ManagersOf
            <7>3. QED
              BY <7>2 DEF Escapes
          <6>3. QED
            BY <6>1, <6>2
        <5>4. QED
          BY <3>2, <3>3, <5>2, <5>3, MoveKeepsAcyclic
      <4>2. CASE r.kind # "SetAgentManager"
        <5>1. \A x \in L : N[x] = M[x]
          BY <2>6, <3>3, <4>2
        <5>2. QED
          BY <3>2, <5>1, PartKeepsAcyclic
      <4>3. QED
        BY <4>1, <4>2
    <3>5. NoCycle(K, N)
      BY <3>3, <3>4, PartKeepsAcyclic
    <3>6. NoCycle(LiveAgents, ManagersOf)'
      BY <3>1, <3>5 DEF NoCycle
    <3>7. QED
      BY <3>6, AcyclicIsNoCycle, PTL
  <2>11. ArchivedIsEmpty'
    BY <2>4, <2>5 DEF IInv, TablesSound, ArchivedIsEmpty, LiveAgents
  <2>12. DefaultOnRecord'
    BY <2>4 DEF IInv, TablesSound, DefaultOnRecord, Defaults
  <2>13. ASSUME NEW p \in Requests, p # q, req[p] # None, NEW s, s = req[p]
         PROVE  Sound(s)'
    <3>1. req[p].kind = "CreateAgent" => req[p].agent # a
      BY <2>3, <2>13 DEF IInv, RequestsSound, Sound, CreateSound
    <3>2. At(q, AgentChanges \cup {"CreateAgent"}, "checked")
      BY <1>1, <1>2 DEF At
    <3>3. /\ row.status # "none" /\ row.company = req[q].company
          /\ agents[a].company = req[q].company
          /\ row.version = agents[a].version + 1
      BY <1>1, <2>3
    <3>4. QED
      BY <2>2, <2>3, <2>4, <2>13, <3>1, <3>2, <3>3, AgentWriteKeepsOthers
  <2>14. RequestsSound' /\ RequestsApart'
    BY <2>13, FinishKeeps DEF IInv, UpdateAgentRow
  <2>15. QED
    BY <2>7, <2>8, <2>9, <2>10, <2>11, <2>12, <2>14 DEF TablesSound
<1>5. QED
  BY <1>3, <1>4

-----------------------------------------------------------------------------
(* The theorems.                                                           *)

LEMMA InitInv == Init => IInv
<1> SUFFICES ASSUME Init PROVE IInv
  OBVIOUS
<1>1. TypeOK
  BY TypeInit
<1>2. \A a \in Agents : agents[a] = NoAgent /\ ~ Exists(a) /\ revisions[a] = {}
  BY NoAgentType DEF Init, Exists
<1>3. LiveAgents = {} /\ Defaults = {} /\ bootstrap = None
  BY <1>2 DEF Init, LiveAgents, Live, Exists, Defaults, NoCompany
<1>4. RowsSound /\ ManagersAreColleagues
  BY <1>2, NoAgentType DEF RowsSound, ManagersAreColleagues
<1>5. RevisionsTellTheTable
  <2>1. \A a \in Agents : agents[a].version = 0
    BY <1>2, NoAgentType
  <2>2. \A a \in Agents : \A v \in 1 .. agents[a].version : FALSE
    <3>1. \A v \in 1 .. 0 : FALSE
      OBVIOUS
    <3>2. QED
      BY <2>1, <3>1
  <2>3. QED
    BY <1>2, <2>2 DEF RevisionsTellTheTable
<1>6. HierarchyIsAcyclic /\ ArchivedIsEmpty /\ DefaultOnRecord
  BY <1>3 DEF HierarchyIsAcyclic, ArchivedIsEmpty, DefaultOnRecord
<1>7. RequestsSound /\ RequestsApart
  BY DEF Init, RequestsSound, RequestsApart
<1>8. QED
  BY <1>1, <1>4, <1>5, <1>6, <1>7 DEF IInv, TablesSound

LEMMA NextInv == IInv /\ [Next]_vars => IInv'
<1> SUFFICES ASSUME IInv, [Next]_vars PROVE IInv'
  OBVIOUS
<1>1. TypeOK'
  BY TypeNext DEF IInv
<1> SUFFICES TablesSound' /\ RequestsSound' /\ RequestsApart'
  BY <1>1 DEF IInv
<1>2. CASE UNCHANGED vars
  <2>1. UNCHANGED <<companyVars, agentVars>> /\ req' = req
    BY <1>2 DEF vars
  <2>2. TablesSound'
    BY <2>1, TablesKeep DEF IInv
  <2>3. RequestsSound'
    BY <2>1, TablesKeep DEF IInv, RequestsSound
  <2>4. RequestsApart'
    BY <2>1 DEF IInv, RequestsApart
  <2>5. QED
    BY <2>2, <2>3, <2>4
<1>3. CASE CreateCompany
  BY <1>3, CreateCompanyStep
<1>4. CASE \E q \in Requests : EnsureDefaultCompany(q)
  BY <1>4, EnsureStep
<1>5. CASE \E q \in Requests : LockBootstrap(q)
  BY <1>5, LockBootstrapStep
<1>6. CASE \E q \in Requests : InsertDefaultCompany(q)
  BY <1>6, InsertDefaultStep
<1>7. CASE \E q \in Requests : ReadAgent(q)
  BY <1>7, ReadAgentStep
<1>8. CASE \E q \in Requests : CreateAgent(q)
  BY <1>8, CreateAgentStep
<1>9. CASE \E q \in Requests : ReadCompany(q)
  BY <1>9, ReadCompanyStep
<1>10. CASE \E q \in Requests : lockCompany(q)
  BY <1>10, lockCompanyStep
<1>11. CASE \E q \in Requests : InsertAgent(q)
  BY <1>11, InsertAgentStep
<1>12. CASE \E q \in Requests : UpdateAgentRow(q)
  BY <1>12, UpdateAgentStep
<1>13. CASE \E q \in Requests : ArchiveCompanyRow(q)
  BY <1>13, ArchiveStep
<1>14. CASE \E q \in Requests : UpdateCompanyRow(q)
  BY <1>14, UpdateCompanyStep
<1>15. CASE \E q \in Requests : Rollback(q)
  BY <1>15, RollbackStep DEF Rollback
<1>16. QED
  BY <1>2, <1>3, <1>4, <1>5, <1>6, <1>7, <1>8, <1>9, <1>10, <1>11, <1>12, <1>13,
     <1>14, <1>15 DEF Next

\* IInv holds in every reachable state of the organization service.
THEOREM OrganizationInvariant == Spec => []IInv
  BY InitInv, NextInv, PTL DEF Spec

\* Every table and every request in flight keeps its type.
THEOREM TypeCorrect == Spec => []TypeOK
<1>1. IInv => TypeOK
  BY DEF IInv
<1>2. QED
  BY <1>1, OrganizationInvariant, PTL

\* Whatever moves, creations and deletions overlap, the managers of agents that
\* are not deleted form no cycle: the answer of hierarchyWouldCycle is still
\* right when SetAgentManager writes.
THEOREM HierarchyStaysAcyclic == Spec => []HierarchyIsAcyclic
<1>1. IInv => HierarchyIsAcyclic
  BY DEF IInv, TablesSound
<1>2. QED
  BY <1>1, OrganizationInvariant, PTL

\* An agent and its manager are in the same company, in every reachable state.
THEOREM ManagersStayColleagues == Spec => []ManagersAreColleagues
<1>1. IInv => ManagersAreColleagues
  BY DEF IInv, TablesSound
<1>2. QED
  BY <1>1, OrganizationInvariant, PTL

\* The revisions and events of an agent number its versions without gap or
\* repetition and end with the row, for any versions the callers expect.
THEOREM HistoryIsTrue == Spec => []RevisionsTellTheTable
<1>1. IInv => RevisionsTellTheTable
  BY DEF IInv, TablesSound
<1>2. QED
  BY <1>1, OrganizationInvariant, PTL

\* No agent is created in, or left in, a company that is archived meanwhile.
THEOREM ArchivedStaysEmpty == Spec => []ArchivedIsEmpty
<1>1. IInv => ArchivedIsEmpty
  BY DEF IInv, TablesSound
<1>2. QED
  BY <1>1, OrganizationInvariant, PTL

\* A call of EnsureDefaultCompany that got past the lookup under the advisory
\* lock is never refused by the unique index of the default company.
THEOREM BootstrapStaysIdempotent == Spec => []BootstrapIsIdempotent
<1>1. IInv => BootstrapIsIdempotent
  BY DEF IInv, TablesSound, DefaultOnRecord, BootstrapIsIdempotent, At,
     RequestsSound, Sound, CheckSound
<1>2. QED
  BY <1>1, OrganizationInvariant, PTL

\* The default company on record stays the only one and stays active.
THEOREM DefaultStays == Spec => []DefaultRemains
<1>1. IInv => DefaultRemains
  BY DEF IInv, TablesSound, DefaultOnRecord, DefaultRemains
<1>2. QED
  BY <1>1, OrganizationInvariant, PTL

\* No request changes a deleted agent, however old its read: only a request
\* whose read is the present row gets past the revisions' primary key, and its
\* status then forbade the change.
THEOREM DeletedStaysFinal == Spec => DeletedIsFinal
<1>1. ASSUME IInv, [Next]_vars
      PROVE  [\A a \in Agents :
                agents[a].status = "deleted" => agents'[a] = agents[a]]_vars
  <2>1. CASE UNCHANGED agents
    BY <2>1
  <2>2. ASSUME NEW q \in Requests, InsertAgent(q)
        PROVE  \A a \in Agents :
                 agents[a].status = "deleted" => agents'[a] = agents[a]
    <3>1. /\ req[q] # None /\ req[q].kind = "CreateAgent" /\ Sound(req[q])
      BY <1>1, <2>2 DEF InsertAgent, At, IInv, RequestsSound
    <3>2. agents[req[q].agent].status = "none"
      BY <3>1 DEF Sound, CreateSound, Exists
    <3>3. \A a \in Agents : a # req[q].agent => agents'[a] = agents[a]
      BY <1>1, <2>2 DEF InsertAgent, IInv, TypeOK
    <3>4. QED
      BY <3>2, <3>3
  <2>3. ASSUME NEW q \in Requests, UpdateAgentRow(q), ~ UNCHANGED agents
        PROVE  \A a \in Agents :
                 agents[a].status = "deleted" => agents'[a] = agents[a]
    <3>1. PICK r, row : r = req[q] /\ row = Written(r, agents[r.agent])
      OBVIOUS
    <3>2. /\ r \in RequestRecords /\ r.kind \in AgentChanges /\ Sound(r)
      BY <1>1, <2>3, <3>1 DEF UpdateAgentRow, At, IInv, RequestsSound, TypeOK
    <3>3. RevisionIsNew(r)
      BY <2>3, <3>1 DEF UpdateAgentRow, agentVars
    <3>4. agents[r.agent].status # "deleted"
      BY <1>1, <3>1, <3>2, <3>3, WriteIsFresh
    <3>5. \A a \in Agents : a # r.agent => agents'[a] = agents[a]
      <4>1. agents' = [agents EXCEPT ![r.agent] = row]
        BY <2>3, <3>1 DEF UpdateAgentRow, agentVars
      <4>2. QED
        BY <1>1, <4>1 DEF IInv, TypeOK
    <3>6. QED
      BY <3>4, <3>5
  <2>4. CASE \A q \in Requests : ~ InsertAgent(q) /\ ~ UpdateAgentRow(q)
    <3>1. UNCHANGED agents
      BY <1>1, <2>4 DEF Next, vars, agentVars, CreateCompany, EnsureDefaultCompany,
         LockBootstrap, InsertDefaultCompany, ReadAgent, CreateAgent, ReadCompany,
         lockCompany, ArchiveCompanyRow, UpdateCompanyRow, Rollback
    <3>2. QED
      BY <3>1
  <2>5. QED
    BY <2>1, <2>2, <2>3, <2>4
<1>2. QED
  BY <1>1, OrganizationInvariant, PTL DEF Spec, DeletedIsFinal
=============================================================================
