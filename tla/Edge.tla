-------------------------------- MODULE Edge --------------------------------
(***************************************************************************)
(* The tenant routes of api-bff: how a browser's request becomes a call of *)
(* a service, and what the browser is told.                                *)
(*                                                                         *)
(* A request passes RequireSession (identity-access resolves the session   *)
(* cookie), the permission middleware of the route (the tenant service is  *)
(* asked), RequireCSRF on the routes that change something, and the        *)
(* handler, which calls the service as the session's user.  The service    *)
(* binds the actor, asks the tenant service again and does the work.  Each *)
(* of these is a remote call, between which the browser may log out or log *)
(* in, and an administrator may change the user's role or archive the      *)
(* tenant.  The handler waits for a bounded time: the service may finish a *)
(* call nobody waits for any more.                                         *)
(*                                                                         *)
(* One tenant is modelled: every handler forwards the tenant of the path,  *)
(* the one the middleware asked about.  The routes are those that each     *)
(* package registers; main.go registers all on one router, which refuses   *)
(* to mount "/v1/tenants/{tenantID}" a second time.                        *)
(***************************************************************************)
EXTENDS Sessions

CONSTANTS
    Requests,      \* requests to tenant routes in flight at the same time
    InitialRoles,  \* the roles users may start with
    MaxChanges     \* bound: changes of roles or of the tenant's status

Roles == {"owner", "admin", "member", "viewer"}

ASSUME EdgeAssumption ==
    /\ InitialRoles \subseteq [Users -> Roles \cup {None}]
    /\ MaxChanges \in Nat

(***************************************************************************)
(* Permissions of the tenant service.                                      *)
(***************************************************************************)
viewerPermissions ==
    {"TENANT_READ", "ENTITLEMENT_READ", "COMPANY_READ", "AGENT_READ",
     "WORK_READ", "MODEL_PROVIDER_READ", "MODEL_CATALOG_READ",
     "MODEL_BINDING_READ"}

memberPermissions == viewerPermissions \cup
    {"MEMBER_LIST", "TASK_CREATE", "TASK_UPDATE", "TASK_STATUS_UPDATE",
     "TASK_ASSIGN", "TASK_DEPENDENCY_MANAGE", "TASK_COMMENT_CREATE",
     "TASK_ARTIFACT_MANAGE", "TASK_CHECKLIST_MANAGE", "TASK_SCHEDULE_MANAGE"}

IsMutationPermission(p) ==
    p \notin viewerPermissions \cup {"MEMBER_LIST", "POLICY_READ",
             "POLICY_DECISION_READ", "MODEL_CONNECTION_READ"}

\* The roles that grant a permission: the owner has all, the administrator
\* all but archiving the tenant.
PermissionsForRole(p) ==
    {"owner"} \cup (IF p = "TENANT_ARCHIVE" THEN {} ELSE {"admin"})
              \cup (IF p \in memberPermissions THEN {"member"} ELSE {})
              \cup (IF p \in viewerPermissions THEN {"viewer"} ELSE {})

\* What a request needs of the tenant: one of these roles, and an active
\* tenant for what changes state.  Routes of the user alone need nothing.
Anyone == [roles |-> Roles \cup {None}, active |-> FALSE]
Needs(p) == [roles |-> PermissionsForRole(p), active |-> IsMutationPermission(p)]

(***************************************************************************)
(* Handlers: the service a handler calls, the permission that service      *)
(* itself requires (own: the author of a comment needs none), whether the  *)
(* call changes anything, in one transaction or in stages, and whether the *)
(* handler reads a body, a version or an idempotency key that it may find  *)
(* malformed.                                                              *)
(***************************************************************************)
Reads(service, need) ==
    [service |-> service, need |-> need, own |-> FALSE,
     changes |-> FALSE, staged |-> FALSE, input |-> FALSE]
Changes(service, need) ==
    [service |-> service, need |-> need, own |-> FALSE,
     changes |-> TRUE, staged |-> FALSE, input |-> TRUE]
NoInput(handler) == [handler EXCEPT !.input = FALSE]
OrOwn(handler) == [handler EXCEPT !.own = TRUE]
InStages(handler) == [handler EXCEPT !.staged = TRUE]

createTenant     == Changes("tenant", Anyone)
getOperation     == Reads("tenant", Anyone)
listTenants      == Reads("tenant", Anyone)
getTenant        == Reads("tenant", Needs("TENANT_READ"))
updateTenant     == Changes("tenant", Needs("TENANT_UPDATE"))
archiveTenant    == Changes("tenant", Needs("TENANT_ARCHIVE"))
listMembers      == Reads("tenant", Needs("MEMBER_LIST"))
addMember        == Changes("tenant", Needs("MEMBER_ADD"))
updateMemberRole == Changes("tenant", Needs("MEMBER_UPDATE_ROLE"))
removeMember     == Changes("tenant", Needs("MEMBER_REMOVE"))

createCompany     == Changes("organization", Needs("COMPANY_CREATE"))
getCompany        == Reads("organization", Needs("COMPANY_READ"))
listCompanies     == Reads("organization", Needs("COMPANY_READ"))
updateCompany     == Changes("organization", Needs("COMPANY_UPDATE"))
archiveCompany    == Changes("organization", Needs("COMPANY_ARCHIVE"))
createAgent       == Changes("organization", Needs("AGENT_CREATE"))
getAgent          == Reads("organization", Needs("AGENT_READ"))
listAgents        == Reads("organization", Needs("AGENT_READ"))
updateAgent       == Changes("organization", Needs("AGENT_UPDATE"))
setAgentManager   == Changes("organization", Needs("AGENT_HIERARCHY_MANAGE"))
pauseAgent        == Changes("organization", Needs("AGENT_LIFECYCLE_MANAGE"))
resumeAgent       == Changes("organization", Needs("AGENT_LIFECYCLE_MANAGE"))
deleteAgent       == Changes("organization", Needs("AGENT_DELETE"))
getAgentHierarchy == Reads("organization", Needs("AGENT_READ"))

createGoal          == Changes("work", Needs("GOAL_CREATE"))
getGoal             == Reads("work", Needs("WORK_READ"))
listGoals           == Reads("work", Needs("WORK_READ"))
updateGoal          == Changes("work", Needs("GOAL_UPDATE"))
changeGoalStatus    == Changes("work", Needs("GOAL_UPDATE"))
createProject       == Changes("work", Needs("PROJECT_CREATE"))
getProject          == Reads("work", Needs("WORK_READ"))
listProjects        == Reads("work", Needs("WORK_READ"))
updateProject       == Changes("work", Needs("PROJECT_UPDATE"))
changeProjectStatus == Changes("work", Needs("PROJECT_UPDATE"))
createTask          == Changes("work", Needs("TASK_CREATE"))
getTask             == Reads("work", Needs("WORK_READ"))
listTasks           == Reads("work", Needs("WORK_READ"))
updateTask          == Changes("work", Needs("TASK_UPDATE"))
changeTaskStatus    == Changes("work", Needs("TASK_STATUS_UPDATE"))

addTaskDependency    == Changes("work", Needs("TASK_DEPENDENCY_MANAGE"))
removeTaskDependency == NoInput(Changes("work", Needs("TASK_DEPENDENCY_MANAGE")))
assignTask           == Changes("work", Needs("TASK_ASSIGN"))
unassignTask         == NoInput(Changes("work", Needs("TASK_ASSIGN")))
addComment           == Changes("work", Needs("TASK_COMMENT_CREATE"))
updateComment        == OrOwn(Changes("work", Needs("TASK_COMMENT_MODERATE")))
deleteComment        == OrOwn(Changes("work", Needs("TASK_COMMENT_MODERATE")))
addArtifact          == Changes("work", Needs("TASK_ARTIFACT_MANAGE"))
deleteArtifact       == NoInput(Changes("work", Needs("TASK_ARTIFACT_MANAGE")))
addChecklistItem     == Changes("work", Needs("TASK_CHECKLIST_MANAGE"))
updateChecklistItem  == Changes("work", Needs("TASK_CHECKLIST_MANAGE"))
deleteChecklistItem  == Changes("work", Needs("TASK_CHECKLIST_MANAGE"))
upsertTaskSchedule   == Changes("work", Needs("TASK_SCHEDULE_MANAGE"))
deleteTaskSchedule   == NoInput(Changes("work", Needs("TASK_SCHEDULE_MANAGE")))

createPolicy        == Changes("policy", Needs("POLICY_CREATE"))
getPolicy           == Reads("policy", Needs("POLICY_READ"))
listPolicies        == Reads("policy", Needs("POLICY_READ"))
createPolicyVersion == Changes("policy", Needs("POLICY_UPDATE"))
activatePolicy      == Changes("policy", Needs("POLICY_ACTIVATE"))
archivePolicy       == Changes("policy", Needs("POLICY_ARCHIVE"))
getDecision         == Reads("policy", Needs("POLICY_DECISION_READ"))
listDecisions       == Reads("policy", Needs("POLICY_DECISION_READ"))

listProviders           == Reads("model", Needs("MODEL_PROVIDER_READ"))
listConnections         == Reads("model", Needs("MODEL_CONNECTION_READ"))
createConnection        == InStages(Changes("model", Needs("MODEL_CONNECTION_CREATE")))
getConnection           == Reads("model", Needs("MODEL_CONNECTION_READ"))
updateConnection        == Changes("model", Needs("MODEL_CONNECTION_UPDATE"))
archiveConnection       == Changes("model", Needs("MODEL_CONNECTION_ARCHIVE"))
rotateBYOKCredential    == InStages(Changes("model", Needs("MODEL_CONNECTION_UPDATE")))
listModelOfferings      == Reads("model", Needs("MODEL_CATALOG_READ"))
refreshModelCatalog     == Changes("model", Needs("MODEL_CATALOG_REFRESH"))
getModelCatalogRefresh  == Reads("model", Needs("MODEL_CATALOG_READ"))
getAgentModelBinding    == Reads("model", Needs("MODEL_BINDING_READ"))
setAgentModelBinding    == Changes("model", Needs("MODEL_BINDING_UPDATE"))
removeAgentModelBinding == Changes("model", Needs("MODEL_BINDING_REMOVE"))

dashboard          == Reads("projection", Needs("TENANT_READ"))
companyOverview    == Reads("projection", Needs("TENANT_READ"))
listAgentOverviews == Reads("projection", Needs("TENANT_READ"))
listTaskActivity   == Reads("projection", Needs("TENANT_READ"))
search             == Reads("projection", Needs("TENANT_READ"))

(***************************************************************************)
(* Routes: the permissions the middleware accepts, whether RequireCSRF     *)
(* stands before the handler, and the handler.                             *)
(***************************************************************************)
Get(permissions, handler) ==
    [any |-> {Needs(p) : p \in permissions}, csrf |-> FALSE, handler |-> handler]
WithCSRF(route) == [route EXCEPT !.csrf = TRUE]
Post(permissions, handler) == WithCSRF(Get(permissions, handler))

tenantRoutes ==
    {Post({}, createTenant), Get({}, getOperation), Get({}, listTenants),
     Get({"TENANT_READ"}, getTenant), Post({"TENANT_UPDATE"}, updateTenant),
     Post({"TENANT_ARCHIVE"}, archiveTenant), Get({"MEMBER_LIST"}, listMembers),
     Post({"MEMBER_ADD"}, addMember),
     Post({"MEMBER_UPDATE_ROLE"}, updateMemberRole),
     Post({"MEMBER_REMOVE"}, removeMember)}

organizationRoutes ==
    {Post({"COMPANY_CREATE"}, createCompany), Get({"COMPANY_READ"}, listCompanies),
     Get({"COMPANY_READ"}, getCompany), Post({"COMPANY_UPDATE"}, updateCompany),
     Post({"COMPANY_ARCHIVE"}, archiveCompany), Post({"AGENT_CREATE"}, createAgent),
     Get({"AGENT_READ"}, listAgents), Get({"AGENT_READ"}, getAgentHierarchy),
     Get({"AGENT_READ"}, getAgent), Post({"AGENT_UPDATE"}, updateAgent),
     Post({"AGENT_HIERARCHY_MANAGE"}, setAgentManager),
     Post({"AGENT_LIFECYCLE_MANAGE"}, pauseAgent),
     Post({"AGENT_LIFECYCLE_MANAGE"}, resumeAgent),
     Post({"AGENT_DELETE"}, deleteAgent)}

registerGoalRoutes ==
    {Post({"GOAL_CREATE"}, createGoal), Get({"WORK_READ"}, listGoals),
     Get({"WORK_READ"}, getGoal), Post({"GOAL_UPDATE"}, updateGoal),
     Post({"GOAL_UPDATE"}, changeGoalStatus)}

registerProjectRoutes ==
    {Post({"PROJECT_CREATE"}, createProject), Get({"WORK_READ"}, listProjects),
     Get({"WORK_READ"}, getProject), Post({"PROJECT_UPDATE"}, updateProject),
     Post({"PROJECT_UPDATE"}, changeProjectStatus)}

\* Mutant: RequireCSRF is left out before changeTaskStatus.
StatusWithoutCSRF ==
    {Post({"TASK_CREATE"}, createTask), Get({"TASK_STATUS_UPDATE"}, changeTaskStatus)}

registerTaskRoutes ==
    {Post({"TASK_CREATE"}, createTask), Get({"WORK_READ"}, listTasks),
     Get({"WORK_READ"}, getTask), Post({"TASK_UPDATE"}, updateTask),
     Post({"TASK_STATUS_UPDATE"}, changeTaskStatus)}

registerCollaborationRoutes ==
    {Post({"TASK_DEPENDENCY_MANAGE"}, addTaskDependency),
     Post({"TASK_DEPENDENCY_MANAGE"}, removeTaskDependency),
     Post({"TASK_ASSIGN"}, assignTask), Post({"TASK_ASSIGN"}, unassignTask),
     Post({"TASK_COMMENT_CREATE"}, addComment),
     Post({"TASK_COMMENT_CREATE", "TASK_COMMENT_MODERATE"}, updateComment),
     Post({"TASK_COMMENT_CREATE", "TASK_COMMENT_MODERATE"}, deleteComment),
     Post({"TASK_ARTIFACT_MANAGE"}, addArtifact),
     Post({"TASK_ARTIFACT_MANAGE"}, deleteArtifact),
     Post({"TASK_CHECKLIST_MANAGE"}, addChecklistItem),
     Post({"TASK_CHECKLIST_MANAGE"}, updateChecklistItem),
     Post({"TASK_CHECKLIST_MANAGE"}, deleteChecklistItem),
     Post({"TASK_SCHEDULE_MANAGE"}, upsertTaskSchedule),
     Post({"TASK_SCHEDULE_MANAGE"}, deleteTaskSchedule)}

registerPolicyRoutes ==
    {Post({"POLICY_CREATE"}, createPolicy), Get({"POLICY_READ"}, listPolicies),
     Get({"POLICY_READ"}, getPolicy), Post({"POLICY_UPDATE"}, createPolicyVersion),
     Post({"POLICY_ACTIVATE"}, activatePolicy),
     Post({"POLICY_ARCHIVE"}, archivePolicy)}

registerDecisionRoutes ==
    {Get({"POLICY_DECISION_READ"}, listDecisions),
     Get({"POLICY_DECISION_READ"}, getDecision)}

modelAccessRoutes ==
    {Get({"MODEL_PROVIDER_READ"}, listProviders),
     Get({"MODEL_CONNECTION_READ"}, listConnections),
     Post({"MODEL_CONNECTION_CREATE"}, createConnection),
     Get({"MODEL_CONNECTION_READ"}, getConnection),
     Post({"MODEL_CONNECTION_UPDATE"}, updateConnection),
     Post({"MODEL_CONNECTION_ARCHIVE"}, archiveConnection),
     Post({"MODEL_CONNECTION_UPDATE"}, rotateBYOKCredential),
     Get({"MODEL_CATALOG_READ"}, listModelOfferings),
     Post({"MODEL_CATALOG_REFRESH"}, refreshModelCatalog),
     Get({"MODEL_CATALOG_READ"}, getModelCatalogRefresh),
     Get({"MODEL_BINDING_READ"}, getAgentModelBinding),
     Post({"MODEL_BINDING_UPDATE"}, setAgentModelBinding),
     Post({"MODEL_BINDING_REMOVE"}, removeAgentModelBinding)}

projectionRoutes ==
    {Get({"TENANT_READ"}, handler) : handler \in
        {dashboard, companyOverview, listAgentOverviews, listTaskActivity, search}}

Routes == tenantRoutes \cup organizationRoutes \cup registerGoalRoutes
    \cup registerProjectRoutes \cup registerTaskRoutes
    \cup registerCollaborationRoutes \cup registerPolicyRoutes
    \cup registerDecisionRoutes \cup modelAccessRoutes \cup projectionRoutes

(***************************************************************************)
(* Answers.  A service maps its domain errors to gRPC codes (mapError),    *)
(* and each handler maps codes to HTTP statuses (writeGRPCError).          *)
(***************************************************************************)
Errors == {"invalid", "missing", "forbidden", "inactive", "version", "exists",
           "state", "busy", "other"}

organizationErrors ==
    [invalid |-> "InvalidArgument", missing |-> "NotFound",
     forbidden |-> "PermissionDenied", inactive |-> "FailedPrecondition",
     version |-> "Aborted", exists |-> "AlreadyExists",
     state |-> "FailedPrecondition", busy |-> "Internal", other |-> "Internal"]
tenantErrors == organizationErrors
workErrors == [organizationErrors EXCEPT !.inactive = "PermissionDenied",
                                         !.exists = "FailedPrecondition"]
policyErrors == [organizationErrors EXCEPT !.state = "AlreadyExists",
                    !.busy = "ResourceExhausted", !.other = "Unknown"]
modelErrors == [organizationErrors EXCEPT !.busy = "Unavailable"]
projectionErrors == [organizationErrors EXCEPT !.version = "Unknown",
                        !.exists = "Unknown", !.state = "Unknown",
                        !.busy = "Unknown", !.other = "Unknown"]

mapError(service) ==
    [tenant |-> tenantErrors, organization |-> organizationErrors,
     work |-> workErrors, policy |-> policyErrors, model |-> modelErrors,
     projection |-> projectionErrors][service]

Codes == {"InvalidArgument", "NotFound", "PermissionDenied", "Unauthenticated",
          "AlreadyExists", "Aborted", "FailedPrecondition", "Unavailable",
          "DeadlineExceeded", "ResourceExhausted", "Internal", "Unknown"}

\* The statuses a handler names, and 500 for every other code.
Statuses(named) ==
    [code \in Codes |-> IF code \in DOMAIN named THEN named[code] ELSE 500]

organizationStatus == Statuses(
    [InvalidArgument |-> 400, NotFound |-> 404, PermissionDenied |-> 403,
     AlreadyExists |-> 409, Aborted |-> 409, FailedPrecondition |-> 409,
     Unavailable |-> 503, DeadlineExceeded |-> 503])
tenantStatus == [organizationStatus EXCEPT !.FailedPrecondition = 422]

\* Mutant: a deadline is answered as a conflict.
TimeoutIsConflict == [organizationStatus EXCEPT !.DeadlineExceeded = 409]

workStatus == organizationStatus
policyStatus == organizationStatus
modelStatus == [organizationStatus EXCEPT !.Unauthenticated = 403]
projectionStatus == [organizationStatus EXCEPT !.AlreadyExists = 500,
                        !.Aborted = 500, !.FailedPrecondition = 500]

writeGRPCError(service) ==
    [tenant |-> tenantStatus, organization |-> organizationStatus,
     work |-> workStatus, policy |-> policyStatus, model |-> modelStatus,
     projection |-> projectionStatus][service]

(***************************************************************************)
(* Requests.                                                               *)
(***************************************************************************)
VARIABLES
    requests,   \* the requests to tenant routes
    roles,      \* the tenant's memberships
    active,     \* whether the tenant is active
    changes     \* how often roles or the tenant changed (bounded)

edgeVars == <<requests, roles, active, changes>>
tenantVars == <<roles, active, changes>>
vars == <<sessionVars, edgeVars>>

\* A request carries from step to step what the next ones still use.
FreeRequest == [step |-> "free"]

Become(r, request) == requests' = [requests EXCEPT ![r] = request]

\* The edge answers without having called the service.
Refuse(r) == Become(r, FreeRequest)

\* The tenant service's EvaluateAuthorization.
EvaluateAuthorization(u, need, role, isActive) ==
    /\ role[u] \in need.roles
    /\ need.active => isActive

Allowed(u, need) == EvaluateAuthorization(u, need, roles, active)

EdgeInit ==
    /\ SessionsInit
    /\ requests = [r \in Requests |-> FreeRequest]
    /\ roles \in InitialRoles
    /\ active = TRUE
    /\ changes = 0

\* A browser sends a request with its cookies.  It comes from a page of the
\* web application, which knows the CSRF token, or from another page (a
\* read from another page is the same request: the answer differs only in
\* whether the browser shows it).  Without a session cookie it is refused
\* and changes nothing.
Send(r) ==
    /\ requests[r].step = "free"
    /\ \E b \in Browsers :
          /\ jar[b].session # None
          /\ \E route \in Routes, ownPage \in BOOLEAN :
                /\ ownPage \/ route.handler.changes
                /\ Become(r, [step |-> "session", browser |-> b, cookie |-> jar[b].session,
                              route |-> route, ownPage |-> ownPage])
    /\ UNCHANGED <<sessionVars, tenantVars>>

\* An error of any kind, also of an identity service that could not be
\* asked, makes the answer clear the session cookies.
RequireSession(r) ==
    LET q == requests[r]
        u == GetSession(q.cookie)
    IN
    /\ q.step = "session"
    /\ UNCHANGED <<loginVars, storeVars, jar, callbacks, tenantVars>>
    /\ \/ /\ u # 0
          /\ Become(r, [step |-> "permission", user |-> u, route |-> q.route,
                        ownPage |-> q.ownPage])
          /\ UNCHANGED sessions
       \/ /\ Become(r, [step |-> "clear", browser |-> q.browser])
          /\ \/ u = 0 /\ sessions' = DropExpired(q.cookie)
             \/ UNCHANGED sessions

\* The answer that clears the cookies reaches the browser, whose cookies
\* may be those of a newer session by then.
ClearCookies(r) ==
    /\ requests[r].step = "clear"
    /\ jar' = clearSessionCookies(jar, requests[r].browser)
    /\ Refuse(r)
    /\ UNCHANGED <<loginVars, storeVars, sessions, callbacks, tenantVars>>

\* The middleware asks the tenant service about each permission in turn;
\* a denial, or an answer it could not get, ends the request.
RequireAnyPermission(r) ==
    LET q == requests[r] IN
    /\ q.step = "permission"
    /\ \/ /\ q.route.any = {} \/ \E need \in q.route.any : Allowed(q.user, need)
          /\ Become(r, [q EXCEPT !.step = "handler"])
       \/ /\ q.route.any # {}
          /\ Refuse(r)
    /\ UNCHANGED <<sessionVars, tenantVars>>

\* The origin must be the web application's and the header must repeat the
\* CSRF cookie, which only its own pages can read.
RequireCSRF(q) == q.route.csrf => q.ownPage

\* The handler reads its input, which may be malformed, and calls the
\* service as the session's user, who may be the author of the comment.
Forward(r) ==
    LET q == requests[r] IN
    /\ q.step = "handler"
    /\ \/ \E author \in IF q.route.handler.own THEN BOOLEAN ELSE {FALSE} :
          /\ RequireCSRF(q)
          /\ Become(r, [step |-> "waiting", user |-> q.user, status |-> 0,
                        handler |-> q.route.handler, ownPage |-> q.ownPage,
                        call |-> "received", answer |-> 0,
                        held |-> Allowed(q.user, q.route.handler.need),
                        author |-> author])
       \/ /\ ~RequireCSRF(q) \/ q.route.handler.input
          /\ Refuse(r)
    /\ UNCHANGED <<sessionVars, tenantVars>>

(***************************************************************************)
(* The service.  It goes on when the handler no longer waits.              *)
(***************************************************************************)
Called(r, call) ==
    /\ requests[r].step \in {"waiting", "done"}
    /\ requests[r].call = call

\* The status the handler makes of a domain error of the service.
Told(q, error) ==
    writeGRPCError(q.handler.service)[mapError(q.handler.service)[error]]

\* Mutant: the service trusts the check of the edge.
TrustTheEdge(r) ==
    /\ Called(r, "received")
    /\ Become(r, [requests[r] EXCEPT !.call = "allowed"])
    /\ UNCHANGED <<sessionVars, tenantVars>>

\* The service's own check.  For the author of a comment it asks nobody.
Require(r) ==
    LET q == requests[r]
        need == q.handler.need
    IN
    /\ Called(r, "received")
    /\ \/ /\ Allowed(q.user, need) /\ ~q.author
          /\ Become(r, [q EXCEPT !.call = "allowed"])
       \/ /\ q.author
          /\ Become(r, [q EXCEPT !.call = "allowed"])
       \/ /\ ~Allowed(q.user, need) /\ ~q.author
          /\ Become(r, [q EXCEPT !.call = "refused",
                !.answer = Told(q, IF need.active /\ ~active THEN "inactive"
                                   ELSE "forbidden")])
       \/ Become(r, [q EXCEPT !.call = "refused", !.answer = Told(q, "other")])
    /\ UNCHANGED <<sessionVars, tenantVars>>

\* The service does the work, refuses it, or fails before or after it.  Work
\* that is done in stages may end with any error after the first of them:
\* the connection or the operation is there, and the provider has refused
\* the key, or a later statement has met another request.
Serve(r) ==
    LET q == requests[r] IN
    /\ Called(r, "allowed")
    /\ \/ \E answer \in {200, Told(q, "other")} :
             Become(r, [q EXCEPT !.call = "applied", !.answer = answer])
       \/ \E e \in Errors, end \in {"refused"} \cup (IF q.handler.staged THEN {"begun"} ELSE {}) :
             Become(r, [q EXCEPT !.call = end, !.answer = Told(q, e)])
    /\ UNCHANGED <<sessionVars, tenantVars>>

\* The service has finished with a call.
Finished(q) == q.call \in {"applied", "begun", "refused"}

\* The handler answers: what the service answered, or that the time it
\* waits is over, or that the connection is lost.
Receive(r) ==
    LET q == requests[r] IN
    /\ q.step = "waiting"
    /\ \/ /\ Finished(q)
          /\ Become(r, [q EXCEPT !.step = "done", !.status = q.answer, !.answer = 0])
       \/ \E code \in {"DeadlineExceeded", "Unavailable"} :
             Become(r, [q EXCEPT !.step = "done", !.answer = 0,
                            !.status = writeGRPCError(q.handler.service)[code]])
    /\ UNCHANGED <<sessionVars, tenantVars>>

Release(r) ==
    /\ requests[r].step = "done"
    /\ Finished(requests[r])
    /\ Become(r, FreeRequest)
    /\ UNCHANGED <<sessionVars, tenantVars>>

\* The tenant's administration (module Membership) removes a member or
\* archives the tenant.
Administer(newRoles, isActive) ==
    /\ changes < MaxChanges
    /\ roles' = newRoles
    /\ active' = isActive
    /\ changes' = changes + 1
    /\ requests' = [r \in Requests |->
          LET q == requests[r] IN
          IF ~Called(r, "received") THEN q
          ELSE [q EXCEPT !.held = @ \/ EvaluateAuthorization(
                                          q.user, q.handler.need, newRoles, isActive)]]
    /\ UNCHANGED sessionVars

RequestStep(r) ==
    \/ RequireSession(r) \/ ClearCookies(r) \/ RequireAnyPermission(r) \/ Forward(r)
    \/ Require(r) \/ Serve(r) \/ Receive(r) \/ Release(r)

Next ==
    \/ SessionsNext /\ UNCHANGED edgeVars
    \/ \E r \in Requests : Send(r) \/ RequestStep(r)
    \/ \E u \in Users :
          roles[u] # None /\ Administer([roles EXCEPT ![u] = None], active)
    \/ active /\ Administer(roles, FALSE)

Spec == EdgeInit /\ [][Next]_vars

(***************************************************************************)
(* Properties.                                                             *)
(***************************************************************************)
EdgeTypeOK ==
    /\ SessionsTypeOK
    /\ roles \in [Users -> Roles \cup {None}]
    /\ active \in BOOLEAN
    /\ changes \in 0 .. MaxChanges

\* The requests a service has been called for.
Forwarded == {r \in Requests : requests[r].step \in {"waiting", "done"}}

\* No service is asked to change anything on a request that did not come
\* from a page of the web application: every route whose handler calls a
\* changing method stands behind RequireCSRF (middleware.go:89).
MutationsAreIntended ==
    \A r \in Forwarded : requests[r].handler.changes => requests[r].ownPage

\* A role taken away, or a tenant archived, while a request is on its way
\* is honoured: the service works only for a user who held the permission
\* at some moment after the service had the call, whatever the edge was
\* told before (tenant/middleware.go:24, Require in each service).  The one
\* exception is the author of a comment, for whom work-management asks
\* nobody (collaboration.go:780): the edit of a member who was removed, or
\* whose tenant was archived, after the edge had asked, is applied.
RevokedIsRefused ==
    \A r \in Forwarded :
        LET q == requests[r] IN
        q.call \in {"allowed", "begun", "applied"} =>
            q.held \/ (q.author /\ q.handler \in {updateComment, deleteComment})

\* A browser that is told the change was made or was refused is told the
\* truth, also later: a call whose answer was not waited for, or that
\* failed on the way, is never answered as a client error
\* (writeGRPCError of each handler).  The exception are the two calls that
\* model access works off in stages (byok.go): they may be answered 400 or
\* 409 when a connection, an operation and a secret have been stored.
FinalAnswersAreTrue ==
    \A r \in Forwarded :
        LET q == requests[r] IN
        /\ q.status = 200 => q.call = "applied"
        /\ q.status \in 400 .. 499 =>
            \/ q.call = "refused"
            \/ q.call = "begun" /\ q.handler \in {createConnection, rotateBYOKCredential}
=============================================================================
