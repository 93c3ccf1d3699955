---- MODULE Work ----
(***************************************************************************)
(* Goals, projects, tasks, task dependencies and checklists of the work    *)
(* management service.  A request reads the row it changes in one          *)
(* transaction, decides on what it read, and writes in another, where the  *)
(* checks that look at other rows are statements of their own: read        *)
(* committed, and nothing they read is locked, except the project row      *)
(* under which dependencies are added.                                     *)
(*                                                                         *)
(* Titles, descriptions, priorities and times are left out.  One tenant:   *)
(* row level security keeps every statement within it.                     *)
(***************************************************************************)
EXTENDS Naturals, Sequences

CONSTANTS
    Companies,         \* companies of the tenant
    ActiveCompanies,   \* those the organization service calls active
    Goals, Projects, Tasks, Items,
    Stored,            \* rows that are there at the start
    Clients,           \* requests that can be under way together
    MaxRequests,       \* bound: requests that are started
    MaxVersion         \* bound: versions a client names

ASSUME CompaniesAssumption == ActiveCompanies \subseteq Companies
ASSUME RowsAssumption ==
    /\ Stored \subseteq Goals \cup Projects \cup Tasks
    /\ Goals \cap Projects = {} /\ Goals \cap Tasks = {} /\ Projects \cap Tasks = {}
ASSUME BoundsAssumption == MaxRequests \in Nat /\ MaxVersion \in Nat

None == "none"

ASSUME ClientsAssumption == None \notin Clients

GoalStatuses == {"active", "completed", "canceled", "archived"}
ProjectStatuses == {"planned", "active", "on_hold", "completed", "canceled", "archived"}
OpenTaskStatuses == {"backlog", "ready", "in_progress", "waiting_approval"}
TaskStatuses == OpenTaskStatuses \cup {"completed", "canceled"}
Statuses == GoalStatuses \cup ProjectStatuses \cup TaskStatuses \cup {None}

\* The tables; version 0 stands for a row that is not there.
GoalRows == [status : GoalStatuses \cup {None}, version : Nat,
             company : Companies \cup {None}]
ProjectRows == [status : ProjectStatuses \cup {None}, version : Nat,
                company : Companies \cup {None}, goal : Goals \cup {None}]
TaskRows == [status : TaskStatuses \cup {None}, version : Nat,
             project : Projects \cup {None}, parent : Tasks \cup {None}]
ItemRows == [task : Tasks \cup {None}, completed : BOOLEAN, version : Nat]

Aggregates == Goals \cup Projects \cup Tasks

VARIABLES
    goal, project, task,   \* work_goals, work_projects, work_tasks
    dependency,            \* work_task_dependencies: <<task, prerequisite>>
    item,                  \* work_checklist_items
    events,                \* work_outbox, by aggregate
    lock,                  \* who holds the row lock of a project
    request,               \* requests under way
    left                   \* requests that can still be started

rows == <<goal, project, task>>
links == <<dependency, item, lock>>
vars == <<rows, links, events, request, left>>

\* What a request carries from one transaction to the next: the rows it is
\* about, the status read and the status to come, the version of its event
\* and the version the client expects.
Request(op, step, id, other, from, to, version, expected) ==
    [op |-> op, step |-> step, id |-> id, other |-> other,
     from |-> from, to |-> to, version |-> version, expected |-> expected]

Idle == Request(None, None, None, None, None, None, 0, 0)

\* ahead is history: the client named a version later than the row that was
\* read, which is not compared with it.
Event == [version : Nat, previous : Statuses, status : Statuses, ahead : BOOLEAN]

TypeOK ==
    /\ goal \in [Goals -> GoalRows]
    /\ project \in [Projects -> ProjectRows]
    /\ task \in [Tasks -> TaskRows]
    /\ dependency \subseteq Tasks \X Tasks
    /\ item \in [Items -> ItemRows]
    /\ events \in [Aggregates -> Seq(Event)]
    /\ lock \in [Projects -> Clients \cup {None}]
    /\ left \in 0 .. MaxRequests

Created(status) ==
    [version |-> 1, previous |-> None, status |-> status, ahead |-> FALSE]
NoItem == [task |-> None, completed |-> FALSE, version |-> 0]

\* The stored rows: active goals of a company, planned projects of a goal,
\* tasks in the backlog of a project.
Init ==
    /\ \E company \in Companies :
        goal = [g \in Goals |-> IF g \in Stored
                THEN [status |-> "active", version |-> 1, company |-> company]
                ELSE [status |-> None, version |-> 0, company |-> None]]
    /\ \E g \in Goals \cap Stored :
        project = [p \in Projects |-> IF p \in Stored
                   THEN [status |-> "planned", version |-> 1,
                         company |-> goal[g].company, goal |-> g]
                   ELSE [status |-> None, version |-> 0, company |-> None, goal |-> None]]
    /\ \E p \in Projects \cap Stored :
        task = [t \in Tasks |-> IF t \in Stored
                THEN [status |-> "backlog", version |-> 1, project |-> p, parent |-> None]
                ELSE [status |-> None, version |-> 0, project |-> None, parent |-> None]]
    /\ dependency = {}
    /\ item = [i \in Items |-> NoItem]
    /\ events = [x \in Aggregates |->
                    IF x \notin Stored THEN <<>>
                    ELSE << Created(IF x \in Goals THEN "active"
                                    ELSE IF x \in Projects THEN "planned" ELSE "backlog") >>]
    /\ lock = [p \in Projects |-> None]
    /\ request = [c \in Clients |-> Idle]
    /\ left = MaxRequests

-----------------------------------------------------------------------------
(* Requests. *)

\* A client without a request under way may start one.
Free(c) == request[c] = Idle /\ left > 0

\* A request starts, with what it has read.
Begin(c, r) ==
    /\ Free(c)
    /\ request' = [request EXCEPT ![c] = r]
    /\ left' = left - 1

\* The answer, a value or an error.
End(c) ==
    /\ request' = [request EXCEPT ![c] = Idle]
    /\ UNCHANGED left

GoOn(c, step) ==
    /\ request' = [request EXCEPT ![c].step = step]
    /\ UNCHANGED left

At(c, op, step) == request[c].op = op /\ request[c].step = step

\* A request that changes row x, read as row.  The version that the client
\* expects is compared by the UPDATE alone.
Change(op, step, x, row, status, expected) ==
    Request(op, step, x, None, row.status, status, row.version + 1, expected)

\* A request that makes row x with this status.
Create(op, step, x, other, status) == Request(op, step, x, other, None, status, 1, 0)

\* A request whose event carries no aggregate version.
Touch(op, step, x, other, expected) ==
    Request(op, step, x, other, None, None, 0, expected)

EnsureCompanyActive(k) == k \in ActiveCompanies

\* The envelope of a change is made before the write, from what was read.
newOutboxEvent(r) ==
    [version |-> r.version, previous |-> r.from, status |-> r.to,
     ahead |-> r.expected >= r.version]

insertOutbox(c) ==
    events' = [events EXCEPT ![request[c].id] = Append(@, newOutboxEvent(request[c]))]

\* UPDATE ... SET version = version + 1 WHERE version = expected.
VersionMatches(c, row) == row.version = request[c].expected

-----------------------------------------------------------------------------
(* Goals. *)

goalCanTransition(current, next) ==
    \/ current = next
    \/ current = "active" /\ next \in {"completed", "canceled", "archived"}
    \/ current \in {"completed", "canceled"} /\ next \in {"active", "archived"}

CreateGoal(c, g, k) ==
    /\ goal[g].version = 0
    /\ EnsureCompanyActive(k)
    /\ Begin(c, Create("CreateGoal", "write", g, k, "active"))
    /\ UNCHANGED <<rows, links, events>>

insertGoal(c) ==
    LET r == request[c] IN
    /\ At(c, "CreateGoal", "write")
    /\ goal[r.id].version = 0
    /\ goal' = [goal EXCEPT ![r.id] = [status |-> r.to, version |-> 1, company |-> r.other]]
    /\ insertOutbox(c)
    /\ End(c)
    /\ UNCHANGED <<project, task, links>>

UpdateGoal(c, g, expected) ==
    /\ goal[g].version > 0
    /\ goal[g].status # "archived"
    /\ Begin(c, Change("UpdateGoal", "write", g, goal[g], goal[g].status, expected))
    /\ UNCHANGED <<rows, links, events>>

ChangeGoalStatus(c, g, status, expected) ==
    /\ goal[g].version > 0
    /\ goalCanTransition(goal[g].status, status)
    /\ Begin(c, Change("ChangeGoalStatus", "check", g, goal[g], status, expected))
    /\ UNCHANGED <<rows, links, events>>

\* The check asks for open projects of the goal's company.
OpenProjects(g) ==
    {p \in Projects : /\ project[p].version > 0
                      /\ project[p].company = goal[g].company
                      /\ project[p].status \notin {"completed", "canceled", "archived"}}

CheckOpenProjects(c) ==
    LET r == request[c] IN
    /\ At(c, "ChangeGoalStatus", "check")
    /\ IF r.to \in {"completed", "archived"} /\ OpenProjects(r.id) # {}
       THEN End(c)
       ELSE GoOn(c, "write")
    /\ UNCHANGED <<rows, links, events>>

WriteGoal(c) ==
    LET r == request[c] IN
    /\ r.op \in {"UpdateGoal", "ChangeGoalStatus"} /\ r.step = "write"
    /\ VersionMatches(c, goal[r.id])
    /\ goal' = [goal EXCEPT ![r.id].version = @ + 1,
                            ![r.id].status = IF r.op = "UpdateGoal" THEN @ ELSE r.to]
    /\ insertOutbox(c)
    /\ End(c)
    /\ UNCHANGED <<project, task, links>>

rejectGoalVersionOrMissing(c) ==
    /\ request[c].op \in {"UpdateGoal", "ChangeGoalStatus"} /\ request[c].step = "write"
    /\ ~ VersionMatches(c, goal[request[c].id])
    /\ End(c)
    /\ UNCHANGED <<rows, links, events>>

-----------------------------------------------------------------------------
(* Projects. *)

OpenProjectStatuses == {"planned", "active", "on_hold"}

projectCanTransition(current, next) ==
    \/ current = next
    \/ current \in OpenProjectStatuses
    \/ current = "completed" /\ next \in {"planned", "active", "canceled", "archived"}
    \/ current = "canceled" /\ next \in {"planned", "active", "archived"}

CreateProject(c, p, g, k) ==
    /\ project[p].version = 0
    /\ EnsureCompanyActive(k)
    /\ goal[g].version > 0 /\ goal[g].company = k
    /\ goal[g].status # "archived"
    /\ Begin(c, Create("CreateProject", "write", p, g, "planned"))
    /\ UNCHANGED <<rows, links, events>>

insertProject(c) ==
    LET r == request[c] IN
    /\ At(c, "CreateProject", "write")
    /\ project[r.id].version = 0
    /\ project' = [project EXCEPT ![r.id] = [status |-> r.to, version |-> 1,
                                             company |-> goal[r.other].company, goal |-> r.other]]
    /\ insertOutbox(c)
    /\ End(c)
    /\ UNCHANGED <<goal, task, links>>

UpdateProject(c, p, expected) ==
    /\ project[p].version > 0
    /\ project[p].status # "archived"
    /\ Begin(c, Change("UpdateProject", "write", p, project[p], project[p].status, expected))
    /\ UNCHANGED <<rows, links, events>>

ChangeProjectStatus(c, p, status, expected) ==
    /\ project[p].version > 0
    /\ projectCanTransition(project[p].status, status)
    /\ Begin(c, Change("ChangeProjectStatus", "check", p, project[p], status, expected))
    /\ UNCHANGED <<rows, links, events>>

OpenTasks(p) ==
    {t \in Tasks : task[t].project = p /\ task[t].status \notin {"completed", "canceled"}}

CheckOpenTasks(c) ==
    LET r == request[c] IN
    /\ At(c, "ChangeProjectStatus", "check")
    /\ IF r.to \in {"completed", "archived"} /\ OpenTasks(r.id) # {}
       THEN End(c)
       ELSE GoOn(c, "write")
    /\ UNCHANGED <<rows, links, events>>

\* The row lock of AddDependency keeps the update waiting.
WriteProject(c) ==
    LET r == request[c] IN
    /\ r.op \in {"UpdateProject", "ChangeProjectStatus"} /\ r.step = "write"
    /\ lock[r.id] = None
    /\ VersionMatches(c, project[r.id])
    /\ project' = [project EXCEPT ![r.id].version = @ + 1,
                                  ![r.id].status = IF r.op = "UpdateProject" THEN @ ELSE r.to]
    /\ insertOutbox(c)
    /\ End(c)
    /\ UNCHANGED <<goal, task, links>>

rejectProjectVersionOrMissing(c) ==
    /\ request[c].op \in {"UpdateProject", "ChangeProjectStatus"} /\ request[c].step = "write"
    /\ ~ VersionMatches(c, project[request[c].id])
    /\ End(c)
    /\ UNCHANGED <<rows, links, events>>

-----------------------------------------------------------------------------
(* Tasks. *)

taskCanTransition(current, next) ==
    \/ current = next
    \/ current \in OpenTaskStatuses
    \/ current = "completed" /\ next \in {"backlog", "canceled"}
    \/ current = "canceled" /\ next \in {"backlog", "ready", "in_progress"}

\* A parent is a task of the same project.
validateTaskParent(p, parent) ==
    parent # None => task[parent].project = p

CreateTask(c, t, p, parent) ==
    /\ task[t].version = 0
    /\ project[p].version > 0
    /\ EnsureCompanyActive(project[p].company)
    /\ project[p].status # "archived"
    /\ validateTaskParent(p, parent)
    /\ Begin(c, Create("CreateTask", parent, t, p, "backlog"))
    /\ UNCHANGED <<rows, links, events>>

insertTask(c) ==
    LET r == request[c] IN
    /\ r.op = "CreateTask"
    /\ task[r.id].version = 0
    /\ lock[r.other] = None
    /\ task' = [task EXCEPT ![r.id] = [status |-> r.to, version |-> 1,
                                       project |-> r.other, parent |-> r.step]]
    /\ insertOutbox(c)
    /\ End(c)
    /\ UNCHANGED <<goal, project, links>>

UpdateTask(c, t, expected) ==
    /\ task[t].version > 0
    /\ task[t].status \notin {"completed", "canceled"}
    /\ Begin(c, Change("UpdateTask", "write", t, task[t], task[t].status, expected))
    /\ UNCHANGED <<rows, links, events>>

ChangeTaskStatus(c, t, status, expected) ==
    /\ task[t].version > 0
    /\ taskCanTransition(task[t].status, status)
    /\ Begin(c, Change("ChangeTaskStatus", "check", t, task[t], status, expected))
    /\ UNCHANGED <<rows, links, events>>

Prerequisites(t) == {q \in Tasks : <<t, q>> \in dependency}

\* What a task view calls blocked.
deriveBlocked(t) == \E q \in Prerequisites(t) : task[q].status # "completed"

CheckDependencies(c) ==
    LET r == request[c] IN
    /\ At(c, "ChangeTaskStatus", "check")
    /\ IF r.to \in {"completed", "in_progress", "waiting_approval"} /\ deriveBlocked(r.id)
       THEN End(c)
       ELSE GoOn(c, IF r.to = "completed" THEN "checklist" ELSE "write")
    /\ UNCHANGED <<rows, links, events>>

OpenItems(t) == {i \in Items : item[i].task = t /\ ~ item[i].completed}

CheckChecklist(c) ==
    /\ At(c, "ChangeTaskStatus", "checklist")
    /\ IF OpenItems(request[c].id) # {} THEN End(c) ELSE GoOn(c, "write")
    /\ UNCHANGED <<rows, links, events>>

\* Mutant: the update forgets AND version = expected.
WriteAnyVersion(c) ==
    LET r == request[c] IN
    /\ r.op \in {"UpdateTask", "ChangeTaskStatus"} /\ r.step = "write"
    /\ task' = [task EXCEPT ![r.id].version = @ + 1,
                            ![r.id].status = IF r.op = "UpdateTask" THEN @ ELSE r.to]
    /\ insertOutbox(c)
    /\ End(c)
    /\ UNCHANGED <<goal, project, links>>

WriteTask(c) ==
    LET r == request[c] IN
    /\ r.op \in {"UpdateTask", "ChangeTaskStatus"} /\ r.step = "write"
    /\ VersionMatches(c, task[r.id])
    /\ task' = [task EXCEPT ![r.id].version = @ + 1,
                            ![r.id].status = IF r.op = "UpdateTask" THEN @ ELSE r.to]
    /\ insertOutbox(c)
    /\ End(c)
    /\ UNCHANGED <<goal, project, links>>

\* Mutant: no row is affected, and the event is inserted all the same.
RejectedIsAnnounced(c) ==
    /\ request[c].op \in {"UpdateTask", "ChangeTaskStatus"} /\ request[c].step = "write"
    /\ ~ VersionMatches(c, task[request[c].id])
    /\ insertOutbox(c)
    /\ End(c)
    /\ UNCHANGED <<rows, links>>

rejectTaskVersionOrMissing(c) ==
    /\ request[c].op \in {"UpdateTask", "ChangeTaskStatus"} /\ request[c].step = "write"
    /\ ~ VersionMatches(c, task[request[c].id])
    /\ End(c)
    /\ UNCHANGED <<rows, links, events>>

-----------------------------------------------------------------------------
(* Dependencies.  Their events carry no aggregate version. *)

AddTaskDependency(c, t, q) ==
    /\ t # q
    /\ task[t].version > 0
    /\ Begin(c, Touch("AddDependency", "lock", t, q, 0))
    /\ UNCHANGED <<rows, links, events>>

sharedProject(t, q) == task[q].version > 0 /\ task[t].project = task[q].project

\* Mutant: the project row is read without FOR UPDATE.
ReadProject(c) ==
    LET r == request[c] IN
    /\ At(c, "AddDependency", "lock")
    /\ IF sharedProject(r.id, r.other) THEN GoOn(c, "cycle") ELSE End(c)
    /\ UNCHANGED <<rows, links, events>>

\* SELECT ... FROM work_projects ... FOR UPDATE.
LockProject(c) ==
    LET r == request[c] IN
    /\ At(c, "AddDependency", "lock")
    /\ IF sharedProject(r.id, r.other)
       THEN /\ lock[task[r.id].project] = None
            /\ lock' = [lock EXCEPT ![task[r.id].project] = c]
            /\ GoOn(c, "cycle")
       ELSE End(c) /\ UNCHANGED lock
    /\ UNCHANGED <<rows, dependency, item, events>>

Unlock(c) == lock' = [p \in Projects |-> IF lock[p] = c THEN None ELSE lock[p]]

\* Closed sets contain the prerequisites of their members.
Closed(S) == \A x \in S : Prerequisites(x) \subseteq S

\* WITH RECURSIVE: t is in the least closed set over the prerequisites of q.
dependencyCycleExists(q, t) ==
    \A S \in SUBSET Tasks : Closed(S) /\ Prerequisites(q) \subseteq S => t \in S

CheckCycle(c) ==
    LET r == request[c] IN
    /\ At(c, "AddDependency", "cycle")
    /\ IF dependencyCycleExists(r.other, r.id)
       THEN End(c) /\ Unlock(c)
       ELSE GoOn(c, "insert") /\ UNCHANGED lock
    /\ UNCHANGED <<rows, dependency, item, events>>

\* A dependency that is there already is a duplicate key: rolled back.
AddDependency(c) ==
    LET r == request[c] IN
    /\ At(c, "AddDependency", "insert")
    /\ dependency' = dependency \cup {<<r.id, r.other>>}
    /\ Unlock(c)
    /\ End(c)
    /\ UNCHANGED <<rows, item, events>>

RemoveTaskDependency(c, t, q) ==
    /\ task[t].version > 0
    /\ Begin(c, Touch("RemoveDependency", "write", t, q, 0))
    /\ UNCHANGED <<rows, links, events>>

RemoveDependency(c) ==
    LET r == request[c] IN
    /\ At(c, "RemoveDependency", "write")
    /\ dependency' = dependency \ {<<r.id, r.other>>}
    /\ End(c)
    /\ UNCHANGED <<rows, item, lock, events>>

-----------------------------------------------------------------------------
(* Checklists; the order of the items is left out. *)

AddChecklistItem(c, i, t) ==
    /\ item[i].version = 0
    /\ task[t].version > 0
    /\ Begin(c, Touch("AddItem", "write", i, t, 0))
    /\ UNCHANGED <<rows, links, events>>

insertChecklistItem(c) ==
    LET r == request[c] IN
    /\ At(c, "AddItem", "write")
    /\ item[r.id].version = 0
    /\ item' = [item EXCEPT ![r.id] = [task |-> r.other, completed |-> FALSE, version |-> 1]]
    /\ End(c)
    /\ UNCHANGED <<rows, dependency, lock, events>>

\* An update without a new value of completed writes the one it has read.
UpdateChecklistItem(c, i, completed, expected) ==
    /\ item[i].version > 0
    /\ Begin(c, Touch(IF completed THEN "CheckItem" ELSE "UncheckItem",
                      "write", i, None, expected))
    /\ UNCHANGED <<rows, links, events>>

\* The item may be deleted by now, or have another version.
WriteChecklistItem(c) ==
    LET r == request[c] IN
    /\ r.op \in {"CheckItem", "UncheckItem"}
    /\ item' = IF VersionMatches(c, item[r.id])
               THEN [item EXCEPT ![r.id].completed = (r.op = "CheckItem"), ![r.id].version = @ + 1]
               ELSE item
    /\ End(c)
    /\ UNCHANGED <<rows, dependency, lock, events>>

\* The expected version of the client is not looked at.
DeleteChecklistItem(c, i) ==
    /\ item[i].version > 0
    /\ Begin(c, Touch("DeleteItem", "write", i, None, 0))
    /\ UNCHANGED <<rows, links, events>>

RemoveChecklistItem(c) ==
    /\ At(c, "DeleteItem", "write")
    /\ item' = [item EXCEPT ![request[c].id] = NoItem]
    /\ End(c)
    /\ UNCHANGED <<rows, dependency, lock, events>>

-----------------------------------------------------------------------------

\* The connection is lost, the process ends: the transaction is rolled back.
Abort(c) ==
    /\ request[c] # Idle
    /\ Unlock(c)
    /\ End(c)
    /\ UNCHANGED <<rows, dependency, item, events>>

-----------------------------------------------------------------------------

\* A client may name any version, of a row that it has seen or not.
Versions == 1 .. MaxVersion

GoalRequest(c) ==
    /\ Free(c)
    /\ \E g \in Goals :
           \/ \E k \in Companies : CreateGoal(c, g, k)
           \/ \E expected \in Versions :
               \/ UpdateGoal(c, g, expected)
               \/ \E status \in GoalStatuses : ChangeGoalStatus(c, g, status, expected)

ProjectRequest(c) ==
    /\ Free(c)
    /\ \E p \in Projects :
           \/ \E g \in Goals, k \in Companies : CreateProject(c, p, g, k)
           \/ \E expected \in Versions :
               \/ UpdateProject(c, p, expected)
               \/ \E status \in ProjectStatuses : ChangeProjectStatus(c, p, status, expected)

TaskRequest(c) ==
    /\ Free(c)
    /\ \E t \in Tasks :
           \/ \E p \in Projects, parent \in Tasks \cup {None} : CreateTask(c, t, p, parent)
           \/ \E expected \in Versions :
               \/ UpdateTask(c, t, expected)
               \/ \E status \in TaskStatuses : ChangeTaskStatus(c, t, status, expected)
           \/ \E q \in Tasks : AddTaskDependency(c, t, q) \/ RemoveTaskDependency(c, t, q)

ItemRequest(c) ==
    /\ Free(c)
    /\ \E i \in Items :
           \/ \E t \in Tasks : AddChecklistItem(c, i, t)
           \/ \E completed \in BOOLEAN, expected \in Versions :
               UpdateChecklistItem(c, i, completed, expected)
           \/ DeleteChecklistItem(c, i)

GoalStep(c) ==
    insertGoal(c) \/ CheckOpenProjects(c) \/ WriteGoal(c) \/ rejectGoalVersionOrMissing(c)
ProjectStep(c) ==
    insertProject(c) \/ CheckOpenTasks(c) \/ WriteProject(c) \/ rejectProjectVersionOrMissing(c)
TaskStep(c) ==
    insertTask(c) \/ CheckDependencies(c) \/ CheckChecklist(c) \/ WriteTask(c)
    \/ rejectTaskVersionOrMissing(c)
DependencyStep(c) == LockProject(c) \/ CheckCycle(c) \/ AddDependency(c) \/ RemoveDependency(c)
ItemStep(c) == insertChecklistItem(c) \/ WriteChecklistItem(c) \/ RemoveChecklistItem(c)

Next ==
    \E c \in Clients :
        \/ GoalRequest(c) \/ GoalStep(c)
        \/ ProjectRequest(c) \/ ProjectStep(c)
        \/ TaskRequest(c) \/ TaskStep(c) \/ DependencyStep(c)
        \/ ItemRequest(c) \/ ItemStep(c)
        \/ Abort(c)

Spec == Init /\ [][Next]_vars

-----------------------------------------------------------------------------

\* No task comes to depend on itself, however requests that add dependencies
\* overlap: the cycle check of one must see the edge of the other
\* (dependency.go, AddDependency).  Every set of tasks has a task that
\* depends on none of the set.
DependenciesAreAcyclic ==
    \A S \in (SUBSET Tasks) \ {{}} : \E t \in S : Prerequisites(t) \cap S = {}

Tells(history, row) ==
    /\ Len(history) = row.version
    /\ row.version > 0 /\ ~ history[row.version].ahead =>
            history[row.version].status = row.status
    /\ \A n \in 1 .. Len(history) :
        IF history[n].ahead
        THEN history[n].version < n
        ELSE /\ history[n].version = n
             /\ n > 1 /\ ~ history[n - 1].ahead =>
                    history[n].previous = history[n - 1].status

\* There is one event for each version of a goal, project or task.  It bears
\* that version and names the status that was replaced, although it is made
\* from a read in an earlier transaction; only where the client named a
\* version later than that read, and was right by the time of the update,
\* it bears a version that was announced before (task.go, ChangeTaskStatus).
EventsTellTheRows ==
    /\ \A g \in Goals : Tells(events[g], goal[g])
    /\ \A p \in Projects : Tells(events[p], project[p])
    /\ \A t \in Tasks : Tells(events[t], task[t])

\* The last change of a row was asked for with a version later than the row
\* that was read for it.
RanAhead(history) == history[Len(history)].ahead

\* A status only changes along the transitions of the application, which
\* are checked on a row read before the write: archived goals and projects
\* stay archived whatever is under way (task.go, taskCanTransition).  What is
\* excepted is the change itself that was asked for with a version later
\* than the row read.
TransitionsAreLegal ==
    [][ /\ \A g \in Goals : goal[g].version > 0 /\ ~ RanAhead(events'[g]) =>
                goalCanTransition(goal[g].status, goal'[g].status)
        /\ \A p \in Projects : project[p].version > 0 /\ ~ RanAhead(events'[p]) =>
                projectCanTransition(project[p].status, project'[p].status)
        /\ \A t \in Tasks : task[t].version > 0 /\ ~ RanAhead(events'[t]) =>
                taskCanTransition(task[t].status, task'[t].status) ]_vars

\* Not kept: the checks of open projects, tasks and prerequisites are not
\* under a lock, and a prerequisite may be reopened.
FinishedIsFinished ==
    /\ \A p \in Projects : project[p].status \in {"completed", "archived"} => OpenTasks(p) = {}
    /\ \A t \in Tasks : task[t].status = "completed" => ~ deriveBlocked(t)

Row(x) == IF x \in Goals THEN goal[x] ELSE IF x \in Projects THEN project[x] ELSE task[x]

\* Goals, projects and tasks as the consumers of their events see them.
Life == INSTANCE History WITH
           Entities <- Aggregates,
           content <- [x \in Aggregates |-> Row(x)],
           version <- [x \in Aggregates |-> Row(x).version],
           announced <- [x \in Aggregates |-> [n \in DOMAIN events[x] |-> events[x][n].version]]

\* No client named a version later than the row that was read for it.
NobodyRanAhead ==
    \A x \in Aggregates : \A n \in DOMAIN events[x] : ~ events[x][n].ahead

\* Whatever requests overlap, every step that is visible outside changes one
\* goal, project or task, to its next version, and announces that version once;
\* nothing of a row changes unannounced (insertOutbox in the transactions of
\* goal.go, project.go and task.go).  It holds as long as NobodyRanAhead.
RowsHaveAHistory == Life!HistorySpec
====
