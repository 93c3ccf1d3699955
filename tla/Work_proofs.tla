---------------------------- MODULE Work_proofs ----------------------------
(***************************************************************************)
(* What the work management service guarantees for any number of goals,    *)
(* projects, tasks and requests that overlap: its events tell the rows,    *)
(* statuses follow the transitions, what is deleted stays as it is, and    *)
(* tasks never come to depend on themselves.  The service implements       *)
(* History.                                                                *)
(*                                                                         *)
(* The invariant speaks of the requests under way.  What a request read is *)
(* not newer than the row, and still true of a row of the same version.    *)
(* A request that adds a dependency holds the lock of the project of both  *)
(* tasks, and what its cycle check found still holds when it inserts.      *)
(***************************************************************************)
EXTENDS TaskDetails, SequenceTheorems, TLAPS

Ids == Aggregates \cup Items \cup Assignments \cup Comments \cup Artifacts \cup {None}
Others == Goals \cup Projects \cup Tasks \cup Companies \cup {None}

Steps == {"check", "checklist", "cycle", "insert", "lock", "write", None}
Ops == {"CreateGoal", "UpdateGoal", "ChangeGoalStatus",
        "CreateProject", "UpdateProject", "ChangeProjectStatus",
        "CreateTask", "UpdateTask", "ChangeTaskStatus",
        "AddDependency", "RemoveDependency",
        "AddItem", "CheckItem", "UncheckItem", "DeleteItem",
        "Unassign", "UpdateComment", "DeleteComment", "DeleteArtifact",
        "DeleteSchedule", None}

RequestRecords ==
    [op : Ops, step : Steps \cup Tasks, id : Ids, other : Others,
     from : Statuses, to : Statuses, version : Nat, expected : Nat]

\* What request r read of a row is not newer than the row, and true of it
\* as long as the row has the version that was read, r.version - 1.
Read(r, row) ==
    /\ 1 < r.version
    /\ r.version <= row.version + 1
    /\ r.version = row.version + 1 => r.from = row.status

GoalChanges == {"UpdateGoal", "ChangeGoalStatus"}
ProjectChanges == {"UpdateProject", "ChangeProjectStatus"}
TaskChanges == {"UpdateTask", "ChangeTaskStatus"}

\* The requests on goals, on projects and on tasks, given the tables.
SoundGoal(r, G) ==
    /\ r.op = "CreateGoal" =>
         /\ r.id \in Goals /\ r.other \in Companies /\ r.version = 1
         /\ r.to = "active" /\ r.expected = 0
    /\ r.op \in GoalChanges =>
         /\ r.id \in Goals /\ Read(r, G[r.id])
         /\ goalCanTransition(r.from, r.to)
         /\ r.op = "UpdateGoal" => r.to = r.from
         /\ r.op = "ChangeGoalStatus" => r.to \in GoalStatuses

SoundProject(r, P) ==
    /\ r.op = "CreateProject" =>
         /\ r.id \in Projects /\ r.other \in Goals /\ r.version = 1
         /\ r.to = "planned" /\ r.expected = 0
    /\ r.op \in ProjectChanges =>
         /\ r.id \in Projects /\ Read(r, P[r.id])
         /\ projectCanTransition(r.from, r.to)
         /\ r.op = "UpdateProject" => r.to = r.from
         /\ r.op = "ChangeProjectStatus" => r.to \in ProjectStatuses

SoundTask(r, T) ==
    /\ r.op = "CreateTask" =>
         /\ r.id \in Tasks /\ r.other \in Projects /\ r.version = 1
         /\ r.to = "backlog" /\ r.expected = 0 /\ r.step \in Tasks \cup {None}
    /\ r.op \in TaskChanges =>
         /\ r.id \in Tasks /\ Read(r, T[r.id])
         /\ taskCanTransition(r.from, r.to)
         /\ r.op = "UpdateTask" => r.to = r.from
         /\ r.op = "ChangeTaskStatus" => r.to \in TaskStatuses
    /\ r.op \in {"AddDependency", "RemoveDependency"} =>
         r.id \in Tasks /\ r.other \in Tasks
    /\ r.op = "AddItem" => r.other \in Tasks

SoundRow(r, G, P, T) == SoundGoal(r, G) /\ SoundProject(r, P) /\ SoundTask(r, T)

RequestsAreSound ==
    /\ request \in [Clients -> RequestRecords]
    /\ \A c \in Clients : SoundRow(request[c], goal, project, task)

RowsInv == DetailsTypeOK /\ RequestsAreSound /\ EventsTellTheRows

\* A task that is there is a task of a project.
TasksHaveProjects == \A t \in Tasks : task[t].version > 0 => task[t].project \in Projects

-----------------------------------------------------------------------------
(* Requests. *)

LEMMA IdleIsSound ==
    ASSUME NEW G, NEW P, NEW T
    PROVE  Idle \in RequestRecords /\ SoundRow(Idle, G, P, T)
  BY DEF Idle, Request, RequestRecords, Ids, Others, None, Ops, Steps, Statuses, SoundRow, SoundGoal,
     SoundProject, SoundTask, GoalChanges, ProjectChanges, TaskChanges

\* A request that changes a row, and what it read.
LEMMA ChangeIsRecord ==
    ASSUME NEW op \in Ops, NEW step \in Steps, NEW x \in Ids, NEW row,
           row.status \in Statuses, row.version \in Nat,
           NEW status \in Statuses, NEW expected \in Nat, row.version > 0
    PROVE  LET r == Change(op, step, x, row, status, expected) IN
           /\ r \in RequestRecords /\ Read(r, row)
           /\ r.op = op /\ r.step = step /\ r.id = x
           /\ r.from = row.status /\ r.to = status
  BY DEF Change, Request, RequestRecords, Others, Read

LEMMA CreateIsRecord ==
    ASSUME NEW op \in Ops, NEW step \in Steps \cup Tasks, NEW x \in Ids,
           NEW other \in Others, NEW status \in Statuses
    PROVE  LET r == Create(op, step, x, other, status) IN
           /\ r \in RequestRecords
           /\ r.op = op /\ r.step = step /\ r.id = x /\ r.other = other
           /\ r.to = status /\ r.version = 1 /\ r.expected = 0
  BY DEF Create, Request, RequestRecords, Statuses

LEMMA TouchIsRecord ==
    ASSUME NEW op \in Ops, NEW step \in Steps, NEW x \in Ids,
           NEW other \in Others, NEW expected \in Nat
    PROVE  LET r == Touch(op, step, x, other, expected) IN
           /\ r \in RequestRecords
           /\ r.op = op /\ r.step = step /\ r.id = x /\ r.other = other
           /\ r.version = 0
  BY DEF Touch, Request, RequestRecords, Statuses

\* What a request that adds a dependency can rely on: the tasks exist; once
\* it has the lock they are of one project; once its check is done there is
\* no way back from the prerequisite to the task.
SoundEdge(c, r, T, L) ==
    r.op = "AddDependency" =>
       /\ r.id # r.other
       /\ T[r.id].version > 0
       /\ r.step \in {"lock", "cycle", "insert"}
       /\ r.step \in {"cycle", "insert"} =>
            /\ T[r.other].version > 0
            /\ T[r.other].project = T[r.id].project
            /\ L[T[r.id].project] = c

\* A request starts, and nothing else happens.
Starts(c, r) ==
    /\ r \in RequestRecords
    /\ SoundRow(r, goal, project, task)
    /\ SoundEdge(c, r, task, lock)
    /\ r.op = "AddDependency" => r.step = "lock"
    /\ Begin(c, r)
    /\ UNCHANGED <<rows, links, events>>

LEMMA RowStatuses ==
    ASSUME TypeOK
    PROVE  /\ \A g \in Goals : goal[g].status \in Statuses /\ goal[g].version \in Nat
           /\ \A p \in Projects : project[p].status \in Statuses /\ project[p].version \in Nat
           /\ \A t \in Tasks : task[t].status \in Statuses /\ task[t].version \in Nat
           /\ \A i \in Items : item[i].version \in Nat
  BY DEF TypeOK, GoalRows, ProjectRows, TaskRows, ItemRows, Statuses

LEMMA GoalRequestStarts ==
    ASSUME TypeOK, NEW c \in Clients, GoalRequest(c)
    PROVE  \E r \in RequestRecords : Starts(c, r)
<1> USE DEF SoundRow, SoundGoal, SoundProject, SoundTask, SoundEdge, GoalChanges,
            ProjectChanges, TaskChanges
<1>1. PICK g \in Goals :
        \/ \E k \in Companies : CreateGoal(c, g, k)
        \/ \E expected \in Versions :
            \/ UpdateGoal(c, g, expected)
            \/ \E status \in GoalStatuses : ChangeGoalStatus(c, g, status, expected)
  BY DEF GoalRequest
<1>2. g \in Ids /\ goal[g].status \in Statuses /\ goal[g].version \in Nat
  BY RowStatuses DEF Ids, Aggregates
<1>3. ASSUME NEW k \in Companies, CreateGoal(c, g, k)
      PROVE  \E r \in RequestRecords : Starts(c, r)
  <2> DEFINE r == Create("CreateGoal", "write", g, k, "active")
  <2>0. /\ "CreateGoal" \in Ops /\ "write" \in Steps \cup Tasks /\ "active" \in Statuses
        /\ k \in Others
    BY DEF Ops, Steps, Others, Statuses, GoalStatuses, ProjectStatuses, TaskStatuses,
       OpenTaskStatuses
  <2>1. /\ r \in RequestRecords /\ r.op = "CreateGoal" /\ r.id = g /\ r.other = k
        /\ r.version = 1 /\ r.to = "active" /\ r.expected = 0 /\ r.step = "write"
    BY <1>2, <2>0, CreateIsRecord
  <2>2. Begin(c, r) /\ UNCHANGED <<rows, links, events>>
    BY <1>3 DEF CreateGoal
  <2> HIDE DEF r
  <2>3. Starts(c, r)
    BY <2>1, <2>2 DEF Starts
  <2> QED BY <2>1, <2>3
<1>4. ASSUME NEW expected \in Versions, UpdateGoal(c, g, expected)
      PROVE  \E r \in RequestRecords : Starts(c, r)
  <2> DEFINE r == Change("UpdateGoal", "write", g, goal[g], goal[g].status, expected)
  <2>0. /\ "UpdateGoal" \in Ops /\ "write" \in Steps /\ goal[g].status \in Statuses
        /\ expected \in Nat /\ goal[g].version > 0
    BY <1>2, <1>4 DEF Ops, Steps, Versions, Statuses, UpdateGoal
  <2>1. /\ r \in RequestRecords /\ Read(r, goal[g]) /\ r.op = "UpdateGoal" /\ r.id = g
        /\ r.from = r.to /\ r.step = "write"
    BY <1>2, <2>0, ChangeIsRecord
  <2>2. Begin(c, r) /\ UNCHANGED <<rows, links, events>>
    BY <1>4 DEF UpdateGoal
  <2> HIDE DEF r
  <2>3. Starts(c, r)
    BY <2>1, <2>2 DEF Starts, goalCanTransition
  <2> QED BY <2>1, <2>3
<1>5. ASSUME NEW expected \in Versions, NEW status \in GoalStatuses,
             ChangeGoalStatus(c, g, status, expected)
      PROVE  \E r \in RequestRecords : Starts(c, r)
  <2> DEFINE r == Change("ChangeGoalStatus", "check", g, goal[g], status, expected)
  <2>0. /\ "ChangeGoalStatus" \in Ops /\ "check" \in Steps /\ status \in Statuses
        /\ expected \in Nat /\ goal[g].version > 0
    BY <1>2, <1>5 DEF Ops, Steps, Versions, Statuses, ChangeGoalStatus
  <2>1. /\ r \in RequestRecords /\ Read(r, goal[g]) /\ r.op = "ChangeGoalStatus"
        /\ r.id = g /\ r.from = goal[g].status /\ r.to = status /\ r.step = "check"
    BY <1>2, <2>0, ChangeIsRecord
  <2>2. /\ goalCanTransition(goal[g].status, status)
        /\ Begin(c, r) /\ UNCHANGED <<rows, links, events>>
    BY <1>5 DEF ChangeGoalStatus
  <2> HIDE DEF r
  <2>3. Starts(c, r)
    BY <2>1, <2>2 DEF Starts
  <2> QED BY <2>1, <2>3
<1> QED BY <1>1, <1>3, <1>4, <1>5

LEMMA ProjectRequestStarts ==
    ASSUME TypeOK, NEW c \in Clients, ProjectRequest(c)
    PROVE  \E r \in RequestRecords : Starts(c, r)
<1> USE DEF SoundRow, SoundGoal, SoundProject, SoundTask, SoundEdge, GoalChanges,
            ProjectChanges, TaskChanges
<1>1. PICK p \in Projects :
        \/ \E g \in Goals, k \in Companies : CreateProject(c, p, g, k)
        \/ \E expected \in Versions :
            \/ UpdateProject(c, p, expected)
            \/ \E status \in ProjectStatuses : ChangeProjectStatus(c, p, status, expected)
  BY DEF ProjectRequest
<1>2. p \in Ids /\ project[p].status \in Statuses /\ project[p].version \in Nat
  BY RowStatuses DEF Ids, Aggregates
<1>3. ASSUME NEW g \in Goals, NEW k \in Companies, CreateProject(c, p, g, k)
      PROVE  \E r \in RequestRecords : Starts(c, r)
  <2> DEFINE r == Create("CreateProject", "write", p, g, "planned")
  <2>0. /\ "CreateProject" \in Ops /\ "write" \in Steps \cup Tasks /\ "planned" \in Statuses
        /\ g \in Others
    BY DEF Ops, Steps, Others, Statuses, GoalStatuses, ProjectStatuses, TaskStatuses,
       OpenTaskStatuses
  <2>1. /\ r \in RequestRecords /\ r.op = "CreateProject" /\ r.id = p /\ r.other = g
        /\ r.version = 1 /\ r.to = "planned" /\ r.expected = 0 /\ r.step = "write"
    BY <1>2, <2>0, CreateIsRecord
  <2>2. Begin(c, r) /\ UNCHANGED <<rows, links, events>>
    BY <1>3 DEF CreateProject
  <2> HIDE DEF r
  <2>3. Starts(c, r)
    BY <2>1, <2>2 DEF Starts
  <2> QED BY <2>1, <2>3
<1>4. ASSUME NEW expected \in Versions, UpdateProject(c, p, expected)
      PROVE  \E r \in RequestRecords : Starts(c, r)
  <2> DEFINE r == Change("UpdateProject", "write", p, project[p], project[p].status, expected)
  <2>0. /\ "UpdateProject" \in Ops /\ "write" \in Steps /\ project[p].status \in Statuses
        /\ expected \in Nat /\ project[p].version > 0
    BY <1>2, <1>4 DEF Ops, Steps, Versions, Statuses, UpdateProject
  <2>1. /\ r \in RequestRecords /\ Read(r, project[p]) /\ r.op = "UpdateProject"
        /\ r.id = p /\ r.from = r.to /\ r.step = "write"
    BY <1>2, <2>0, ChangeIsRecord
  <2>2. Begin(c, r) /\ UNCHANGED <<rows, links, events>>
    BY <1>4 DEF UpdateProject
  <2> HIDE DEF r
  <2>3. Starts(c, r)
    BY <2>1, <2>2 DEF Starts, projectCanTransition
  <2> QED BY <2>1, <2>3
<1>5. ASSUME NEW expected \in Versions, NEW status \in ProjectStatuses,
             ChangeProjectStatus(c, p, status, expected)
      PROVE  \E r \in RequestRecords : Starts(c, r)
  <2> DEFINE r == Change("ChangeProjectStatus", "check", p, project[p], status, expected)
  <2>0. /\ "ChangeProjectStatus" \in Ops /\ "check" \in Steps /\ status \in Statuses
        /\ expected \in Nat /\ project[p].version > 0
    BY <1>2, <1>5 DEF Ops, Steps, Versions, Statuses, ChangeProjectStatus
  <2>1. /\ r \in RequestRecords /\ Read(r, project[p]) /\ r.op = "ChangeProjectStatus"
        /\ r.id = p /\ r.from = project[p].status /\ r.to = status /\ r.step = "check"
    BY <1>2, <2>0, ChangeIsRecord
  <2>2. /\ projectCanTransition(project[p].status, status)
        /\ Begin(c, r) /\ UNCHANGED <<rows, links, events>>
    BY <1>5 DEF ChangeProjectStatus
  <2> HIDE DEF r
  <2>3. Starts(c, r)
    BY <2>1, <2>2 DEF Starts
  <2> QED BY <2>1, <2>3
<1> QED BY <1>1, <1>3, <1>4, <1>5

LEMMA TaskRequestStarts ==
    ASSUME TypeOK, NEW c \in Clients, TaskRequest(c)
    PROVE  \E r \in RequestRecords : Starts(c, r)
<1> USE DEF SoundRow, SoundGoal, SoundProject, SoundTask, SoundEdge, GoalChanges,
            ProjectChanges, TaskChanges
<1>1. PICK t \in Tasks :
        \/ \E p \in Projects, parent \in Tasks \cup {None} : CreateTask(c, t, p, parent)
        \/ \E expected \in Versions :
            \/ UpdateTask(c, t, expected)
            \/ \E status \in TaskStatuses : ChangeTaskStatus(c, t, status, expected)
        \/ \E q \in Tasks : AddTaskDependency(c, t, q) \/ RemoveTaskDependency(c, t, q)
  BY DEF TaskRequest
<1>2. t \in Ids /\ task[t].status \in Statuses /\ task[t].version \in Nat
  BY RowStatuses DEF Ids, Aggregates
<1>3. ASSUME NEW p \in Projects, NEW parent \in Tasks \cup {None}, CreateTask(c, t, p, parent)
      PROVE  \E r \in RequestRecords : Starts(c, r)
  <2> DEFINE r == Create("CreateTask", parent, t, p, "backlog")
  <2>0. /\ "CreateTask" \in Ops /\ parent \in Steps \cup Tasks /\ "backlog" \in Statuses
        /\ p \in Others
    BY DEF Ops, Steps, Others, Statuses, GoalStatuses, ProjectStatuses, TaskStatuses,
       OpenTaskStatuses
  <2>1. /\ r \in RequestRecords /\ r.op = "CreateTask" /\ r.id = t /\ r.other = p
        /\ r.version = 1 /\ r.to = "backlog" /\ r.expected = 0 /\ r.step = parent
    BY <1>2, <2>0, CreateIsRecord
  <2>2. Begin(c, r) /\ UNCHANGED <<rows, links, events>>
    BY <1>3 DEF CreateTask
  <2> HIDE DEF r
  <2>3. Starts(c, r)
    BY <2>1, <2>2 DEF Starts
  <2> QED BY <2>1, <2>3
<1>4. ASSUME NEW expected \in Versions, UpdateTask(c, t, expected)
      PROVE  \E r \in RequestRecords : Starts(c, r)
  <2> DEFINE r == Change("UpdateTask", "write", t, task[t], task[t].status, expected)
  <2>0. /\ "UpdateTask" \in Ops /\ "write" \in Steps /\ task[t].status \in Statuses
        /\ expected \in Nat /\ task[t].version > 0
    BY <1>2, <1>4 DEF Ops, Steps, Versions, Statuses, UpdateTask
  <2>1. /\ r \in RequestRecords /\ Read(r, task[t]) /\ r.op = "UpdateTask"
        /\ r.id = t /\ r.from = r.to /\ r.step = "write"
    BY <1>2, <2>0, ChangeIsRecord
  <2>2. Begin(c, r) /\ UNCHANGED <<rows, links, events>>
    BY <1>4 DEF UpdateTask
  <2> HIDE DEF r
  <2>3. Starts(c, r)
    BY <2>1, <2>2 DEF Starts, taskCanTransition
  <2> QED BY <2>1, <2>3
<1>5. ASSUME NEW expected \in Versions, NEW status \in TaskStatuses,
             ChangeTaskStatus(c, t, status, expected)
      PROVE  \E r \in RequestRecords : Starts(c, r)
  <2> DEFINE r == Change("ChangeTaskStatus", "check", t, task[t], status, expected)
  <2>0. /\ "ChangeTaskStatus" \in Ops /\ "check" \in Steps /\ status \in Statuses
        /\ expected \in Nat /\ task[t].version > 0
    BY <1>2, <1>5 DEF Ops, Steps, Versions, Statuses, ChangeTaskStatus
  <2>1. /\ r \in RequestRecords /\ Read(r, task[t]) /\ r.op = "ChangeTaskStatus"
        /\ r.id = t /\ r.from = task[t].status /\ r.to = status /\ r.step = "check"
    BY <1>2, <2>0, ChangeIsRecord
  <2>2. /\ taskCanTransition(task[t].status, status)
        /\ Begin(c, r) /\ UNCHANGED <<rows, links, events>>
    BY <1>5 DEF ChangeTaskStatus
  <2> HIDE DEF r
  <2>3. Starts(c, r)
    BY <2>1, <2>2 DEF Starts
  <2> QED BY <2>1, <2>3
<1>6. ASSUME NEW q \in Tasks, AddTaskDependency(c, t, q)
      PROVE  \E r \in RequestRecords : Starts(c, r)
  <2> DEFINE r == Touch("AddDependency", "lock", t, q, 0)
  <2>0. "AddDependency" \in Ops /\ "lock" \in Steps /\ q \in Others /\ 0 \in Nat
    BY <1>6 DEF Ops, Steps, Others
  <2>1. /\ r \in RequestRecords /\ r.op = "AddDependency" /\ r.step = "lock"
        /\ r.id = t /\ r.other = q
    BY <1>2, <2>0, TouchIsRecord
  <2>2. /\ t # q /\ task[t].version > 0
        /\ Begin(c, r) /\ UNCHANGED <<rows, links, events>>
    BY <1>6 DEF AddTaskDependency
  <2> HIDE DEF r
  <2>3. Starts(c, r)
    BY <2>1, <2>2 DEF Starts
  <2> QED BY <2>1, <2>3
<1>7. ASSUME NEW q \in Tasks, RemoveTaskDependency(c, t, q)
      PROVE  \E r \in RequestRecords : Starts(c, r)
  <2> DEFINE r == Touch("RemoveDependency", "write", t, q, 0)
  <2>0. "RemoveDependency" \in Ops /\ "write" \in Steps /\ q \in Others /\ 0 \in Nat
    BY <1>7 DEF Ops, Steps, Others
  <2>1. /\ r \in RequestRecords /\ r.op = "RemoveDependency" /\ r.step = "write"
        /\ r.id = t /\ r.other = q
    BY <1>2, <2>0, TouchIsRecord
  <2>2. Begin(c, r) /\ UNCHANGED <<rows, links, events>>
    BY <1>7 DEF RemoveTaskDependency
  <2> HIDE DEF r
  <2>3. Starts(c, r)
    BY <2>1, <2>2 DEF Starts
  <2> QED BY <2>1, <2>3
<1> QED BY <1>1, <1>3, <1>4, <1>5, <1>6, <1>7

LEMMA ItemRequestStarts ==
    ASSUME TypeOK, NEW c \in Clients, ItemRequest(c)
    PROVE  \E r \in RequestRecords : Starts(c, r)
<1> USE DEF SoundRow, SoundGoal, SoundProject, SoundTask, SoundEdge, GoalChanges,
            ProjectChanges, TaskChanges
<1>1. PICK i \in Items :
        \/ \E t \in Tasks : AddChecklistItem(c, i, t)
        \/ \E completed \in BOOLEAN, expected \in Versions :
            UpdateChecklistItem(c, i, completed, expected)
        \/ DeleteChecklistItem(c, i)
  BY DEF ItemRequest
<1>2. i \in Ids /\ item[i].version \in Nat /\ None \in Others
  BY RowStatuses DEF Ids, Others
<1>3. ASSUME NEW t \in Tasks, AddChecklistItem(c, i, t)
      PROVE  \E r \in RequestRecords : Starts(c, r)
  <2> DEFINE r == Touch("AddItem", "write", i, t, 0)
  <2>1. "AddItem" \in Ops /\ "write" \in Steps /\ t \in Others
    BY DEF Ops, Steps, Others
  <2>2. r \in RequestRecords /\ r.op = "AddItem" /\ r.other = t
    BY <1>2, <2>1, TouchIsRecord
  <2>3. Begin(c, r) /\ UNCHANGED <<rows, links, events>>
    BY <1>3 DEF AddChecklistItem
  <2> HIDE DEF r
  <2>4. Starts(c, r)
    BY <2>2, <2>3 DEF Starts
  <2> QED BY <2>2, <2>4
<1>4. ASSUME NEW completed \in BOOLEAN, NEW expected \in Versions,
             UpdateChecklistItem(c, i, completed, expected)
      PROVE  \E r \in RequestRecords : Starts(c, r)
  <2> DEFINE op == IF completed THEN "CheckItem" ELSE "UncheckItem"
             r == Touch(op, "write", i, None, expected)
  <2>1. /\ op \in Ops /\ op \in {"CheckItem", "UncheckItem"} /\ "write" \in Steps
        /\ expected \in Nat
    BY <1>2, <1>4 DEF Ops, Steps, Versions
  <2>2. Begin(c, r) /\ UNCHANGED <<rows, links, events>>
    BY <1>4 DEF UpdateChecklistItem
  <2> HIDE DEF op
  <2>3. r \in RequestRecords /\ r.op = op
    BY <1>2, <2>1, TouchIsRecord
  <2> HIDE DEF r
  <2>4. Starts(c, r)
    BY <2>1, <2>2, <2>3 DEF Starts
  <2> QED BY <2>3, <2>4
<1>5. ASSUME DeleteChecklistItem(c, i)
      PROVE  \E r \in RequestRecords : Starts(c, r)
  <2> DEFINE r == Touch("DeleteItem", "write", i, None, 0)
  <2>1. "DeleteItem" \in Ops /\ "write" \in Steps
    BY DEF Ops, Steps
  <2>2. r \in RequestRecords /\ r.op = "DeleteItem"
    BY <1>2, <2>1, TouchIsRecord
  <2>3. Begin(c, r) /\ UNCHANGED <<rows, links, events>>
    BY <1>5 DEF DeleteChecklistItem
  <2> HIDE DEF r
  <2>4. Starts(c, r)
    BY <2>2, <2>3 DEF Starts
  <2> QED BY <2>2, <2>4
<1> QED BY <1>1, <1>3, <1>4, <1>5

DetailOps == {"Unassign", "UpdateComment", "DeleteComment", "DeleteArtifact", "DeleteSchedule"}

\* A request on what hangs on a task.
LEMMA DetailStarts ==
    ASSUME NEW c \in Clients, NEW op \in DetailOps, NEW x \in Ids, NEW expected \in Nat,
           Begin(c, Touch(op, None, x, None, expected)), UNCHANGED <<rows, links, events>>
    PROVE  \E r \in RequestRecords : Starts(c, r)
<1> DEFINE r == Touch(op, None, x, None, expected)
<1>1. op \in Ops /\ None \in Steps /\ None \in Others
  BY DEF Ops, Steps, Others, DetailOps
<1>2. r \in RequestRecords /\ r.op = op
  BY <1>1, TouchIsRecord
<1>3. Begin(c, r)
  OBVIOUS
<1> HIDE DEF r
<1>4. Starts(c, r)
  BY <1>2, <1>3 DEF Starts, SoundRow, SoundGoal, SoundProject, SoundTask, SoundEdge,
     GoalChanges, ProjectChanges, TaskChanges, DetailOps
<1> QED BY <1>2, <1>4

\* A request of one transaction leaves the work as it is.
AtOnceOnly(c) == UNCHANGED <<work, request>> /\ left > 0 /\ left' = left - 1

LEMMA DetailsRequestStarts ==
    ASSUME DetailsTypeOK, NEW c \in Clients, DetailsRequest(c)
    PROVE  \/ /\ \E r \in RequestRecords : Starts(c, r)
              /\ UNCHANGED details
           \/ AtOnceOnly(c)
<1> DEFINE Fine == \/ /\ \E r \in RequestRecords : Starts(c, r)
                      /\ UNCHANGED details
                   \/ AtOnceOnly(c)
<1>1. ASSUME NEW a \in Assignments, UnassignTask(c, a) PROVE Fine
  <2>1. a \in Ids /\ "Unassign" \in DetailOps
    BY DEF Ids, DetailOps
  <2> QED BY <1>1, <2>1, DetailStarts DEF UnassignTask, work
<1>2. ASSUME NEW m \in Comments, NEW actor \in Users, NEW expected \in Versions,
             UpdateComment(c, m, actor, expected) \/ DeleteComment(c, m, actor, expected)
      PROVE  Fine
  <2>1. m \in Ids /\ {"UpdateComment", "DeleteComment"} \subseteq DetailOps
    BY DEF Ids, DetailOps
  <2>2. expected \in Nat
    BY <1>2 DEF Versions, DetailsTypeOK, CommentRows
  <2> QED BY <1>2, <2>1, <2>2, DetailStarts DEF UpdateComment, DeleteComment, work
<1>3. ASSUME NEW f \in Artifacts, DeleteArtifact(c, f) PROVE Fine
  <2>1. f \in Ids /\ "DeleteArtifact" \in DetailOps
    BY DEF Ids, DetailOps
  <2> QED BY <1>3, <2>1, DetailStarts DEF DeleteArtifact, work
<1>4. ASSUME NEW t \in Tasks, DeleteTaskSchedule(c, t) PROVE Fine
  <2>1. t \in Ids /\ "DeleteSchedule" \in DetailOps
    BY DEF Ids, DetailOps, Aggregates
  <2> QED BY <1>4, <2>1, DetailStarts DEF DeleteTaskSchedule, work
<1>5. ASSUME NEW a \in Assignments, NEW t \in Tasks, NEW who \in Users \cup Agents,
             NEW role \in Roles, AssignTask(c, a, t, who, role)
      PROVE  Fine
  BY <1>5 DEF AssignTask, AtOnce, AtOnceOnly
<1>6. ASSUME NEW m \in Comments, NEW actor \in Users, NEW t \in Tasks,
             NEW author \in Users \cup Agents, AddComment(c, m, t, actor, author)
      PROVE  Fine
  BY <1>6 DEF AddComment, AtOnce, AtOnceOnly
<1>7. ASSUME NEW f \in Artifacts, NEW t \in Tasks, NEW key \in ObjectKeys,
             AddArtifact(c, f, t, key)
      PROVE  Fine
  BY <1>7 DEF AddArtifact, AtOnce, AtOnceOnly
<1>8. ASSUME NEW t \in Tasks, UpsertTaskSchedule(c, t) PROVE Fine
  BY <1>8 DEF UpsertTaskSchedule, AtOnce, AtOnceOnly
<1> HIDE DEF Fine
<1>9. Fine
  BY <1>1, <1>2, <1>3, <1>4, <1>5, <1>6, <1>7, <1>8 DEF DetailsRequest
<1> QED BY <1>9 DEF Fine

-----------------------------------------------------------------------------
(* What a step does to the requests. *)

\* A row changes only together with its version, and a task stays in its
\* project.
Grows(row, row2) == row2 = row \/ row2.version > row.version
RowsGrow ==
    /\ \A g \in Goals : Grows(goal[g], goal'[g])
    /\ \A p \in Projects : Grows(project[p], project'[p])
    /\ \A t \in Tasks : /\ Grows(task[t], task'[t])
                        /\ task[t].version > 0 => task'[t].project = task[t].project

LEMMA ReadStays ==
    ASSUME NEW r \in RequestRecords, NEW row, NEW row2,
           row.version \in Nat, row2.version \in Nat, Read(r, row), Grows(row, row2)
    PROVE  Read(r, row2)
  BY DEF Read, Grows, RequestRecords

\* What a request under way can rely on survives the writes of the others.
LEMMA SoundStays ==
    ASSUME TypeOK, TypeOK', RowsGrow, NEW r \in RequestRecords,
           SoundRow(r, goal, project, task)
    PROVE  SoundRow(r, goal', project', task')
<1>1. /\ \A g \in Goals : goal[g].version \in Nat /\ goal'[g].version \in Nat
      /\ \A p \in Projects : project[p].version \in Nat /\ project'[p].version \in Nat
      /\ \A t \in Tasks : task[t].version \in Nat /\ task'[t].version \in Nat
  BY DEF TypeOK, GoalRows, ProjectRows, TaskRows
<1>2. SoundGoal(r, goal')
  BY <1>1, ReadStays DEF SoundRow, SoundGoal, RowsGrow
<1>3. SoundProject(r, project')
  BY <1>1, ReadStays DEF SoundRow, SoundProject, RowsGrow
<1>4. SoundTask(r, task')
  BY <1>1, ReadStays DEF SoundRow, SoundTask, RowsGrow
<1> QED BY <1>2, <1>3, <1>4 DEF SoundRow

LEMMA OneRequestChanges ==
    ASSUME TypeOK, TypeOK', RowsGrow, RequestsAreSound, NEW c \in Clients,
           NEW r \in RequestRecords, SoundRow(r, goal', project', task'),
           request' = [request EXCEPT ![c] = r]
    PROVE  RequestsAreSound'
<1>1. request' \in [Clients -> RequestRecords]
  BY DEF RequestsAreSound
<1>2. ASSUME NEW d \in Clients PROVE SoundRow(request'[d], goal', project', task')
  <2>1. CASE d = c
    BY <2>1 DEF RequestsAreSound
  <2>2. CASE d # c
    <3>1. request'[d] = request[d] /\ request[d] \in RequestRecords
      BY <2>2 DEF RequestsAreSound
    <3>2. SoundRow(request[d], goal, project, task)
      BY DEF RequestsAreSound
    <3> QED BY <3>1, <3>2, SoundStays
  <2> QED BY <2>1, <2>2
<1> QED BY <1>1, <1>2 DEF RequestsAreSound

LEMMA NothingGrows == ASSUME UNCHANGED rows PROVE RowsGrow
  BY DEF rows, RowsGrow, Grows

\* A request starts, ends, or goes on to its next statement.
LEMMA StartKeepsRequests ==
    ASSUME TypeOK, TypeOK', RequestsAreSound, NEW c \in Clients, NEW r, Starts(c, r)
    PROVE  RequestsAreSound'
<1>1. /\ RowsGrow /\ r \in RequestRecords /\ SoundRow(r, goal', project', task')
      /\ request' = [request EXCEPT ![c] = r]
  BY NothingGrows DEF Starts, Begin, Free, rows
<1> QED BY <1>1, OneRequestChanges

LEMMA EndKeepsRequests ==
    ASSUME TypeOK, TypeOK', RowsGrow, RequestsAreSound, NEW c \in Clients, End(c)
    PROVE  RequestsAreSound'
  BY OneRequestChanges, IdleIsSound DEF End

LEMMA GoOnKeepsRequests ==
    ASSUME TypeOK, TypeOK', UNCHANGED rows, RequestsAreSound, NEW c \in Clients,
           NEW step \in Steps, request[c].op # "CreateTask", GoOn(c, step)
    PROVE  RequestsAreSound'
<1> DEFINE r == [request[c] EXCEPT !.step = step]
<1>1. /\ request[c] \in RequestRecords
      /\ SoundRow(request[c], goal, project, task)
  BY DEF RequestsAreSound
<1>2. /\ r \in RequestRecords
      /\ r.op = request[c].op /\ r.id = request[c].id /\ r.other = request[c].other
      /\ r.from = request[c].from /\ r.to = request[c].to
      /\ r.version = request[c].version /\ r.expected = request[c].expected
  BY <1>1 DEF RequestRecords
<1>3. request' = [request EXCEPT ![c] = r]
  BY DEF GoOn, RequestsAreSound
<1> HIDE DEF r
<1>4. SoundRow(r, goal, project, task)
  BY <1>1, <1>2 DEF SoundRow, SoundGoal, SoundProject, SoundTask, Read
<1>5. SoundRow(r, goal', project', task')
  BY <1>4 DEF rows
<1> QED BY <1>2, <1>3, <1>5, NothingGrows, OneRequestChanges

\* The steps that change no goal, project or task.
QuietStep(c) ==
    /\ UNCHANGED <<rows, events>>
    /\ \/ End(c)
       \/ /\ request[c].op # "CreateTask"
          /\ \E step \in Steps : GoOn(c, step)

Checks(c) ==
    \/ CheckOpenProjects(c) \/ rejectGoalVersionOrMissing(c)
    \/ CheckOpenTasks(c) \/ rejectProjectVersionOrMissing(c)
    \/ CheckDependencies(c) \/ CheckChecklist(c) \/ rejectTaskVersionOrMissing(c)

LEMMA ChecksAreQuiet ==
    ASSUME NEW c \in Clients, Checks(c)
    PROVE  QuietStep(c) /\ UNCHANGED links
<1>1. ASSUME CheckOpenProjects(c) PROVE QuietStep(c) /\ UNCHANGED links
  BY <1>1 DEF CheckOpenProjects, QuietStep, At, Steps
<1>2. ASSUME CheckOpenTasks(c) PROVE QuietStep(c) /\ UNCHANGED links
  BY <1>2 DEF CheckOpenTasks, QuietStep, At, Steps
<1>3. ASSUME CheckDependencies(c) PROVE QuietStep(c) /\ UNCHANGED links
  BY <1>3 DEF CheckDependencies, QuietStep, At, Steps
<1>4. ASSUME CheckChecklist(c) PROVE QuietStep(c) /\ UNCHANGED links
  BY <1>4 DEF CheckChecklist, QuietStep, At, Steps
<1>5. ASSUME \/ rejectGoalVersionOrMissing(c) \/ rejectProjectVersionOrMissing(c)
             \/ rejectTaskVersionOrMissing(c)
      PROVE  QuietStep(c) /\ UNCHANGED links
  BY <1>5 DEF rejectGoalVersionOrMissing, rejectProjectVersionOrMissing,
     rejectTaskVersionOrMissing, QuietStep
<1> QED BY <1>1, <1>2, <1>3, <1>4, <1>5 DEF Checks

LEMMA LinkStepsAreQuiet ==
    ASSUME NEW c \in Clients, DependencyStep(c) \/ ItemStep(c) \/ Abort(c)
    PROVE  QuietStep(c)
<1>1. ASSUME LockProject(c) PROVE QuietStep(c)
  BY <1>1 DEF LockProject, QuietStep, At, Steps
<1>2. ASSUME CheckCycle(c) PROVE QuietStep(c)
  BY <1>2 DEF CheckCycle, QuietStep, At, Steps
<1>3. ASSUME AddDependency(c) \/ RemoveDependency(c) PROVE QuietStep(c)
  BY <1>3 DEF AddDependency, RemoveDependency, QuietStep
<1>4. ASSUME ItemStep(c) PROVE QuietStep(c)
  BY <1>4 DEF ItemStep, insertChecklistItem, WriteChecklistItem, RemoveChecklistItem,
     QuietStep
<1>5. ASSUME Abort(c) PROVE QuietStep(c)
  BY <1>5 DEF Abort, QuietStep
<1> QED BY <1>1, <1>2, <1>3, <1>4, <1>5 DEF DependencyStep

LEMMA QuietKeepsRequests ==
    ASSUME TypeOK, TypeOK', RequestsAreSound, NEW c \in Clients, QuietStep(c)
    PROVE  RequestsAreSound'
  BY NothingGrows, EndKeepsRequests, GoOnKeepsRequests DEF QuietStep

-----------------------------------------------------------------------------
(* Types. *)

LEMMA LeftStays ==
    ASSUME TypeOK, NEW c \in Clients, End(c) \/ (\E step \in Steps : GoOn(c, step))
    PROVE  left' \in 0 .. MaxRequests
  BY DEF TypeOK, End, GoOn

LEMMA StartTypes ==
    ASSUME TypeOK, NEW c \in Clients, NEW r, Starts(c, r)
    PROVE  TypeOK'
<1>1. left' \in 0 .. MaxRequests
  BY BoundsAssumption DEF TypeOK, Starts, Begin, Free
<1> QED BY <1>1 DEF TypeOK, Starts, rows, links

LEMMA UnlockType ==
    ASSUME TypeOK, NEW c \in Clients, Unlock(c)
    PROVE  lock' \in [Projects -> Clients \cup {None}]
  BY DEF TypeOK, Unlock

LEMMA QuietTypes ==
    ASSUME TypeOK, RequestsAreSound, NEW c \in Clients,
           Checks(c) \/ DependencyStep(c) \/ ItemStep(c) \/ Abort(c)
    PROVE  TypeOK'
<1> DEFINE r == request[c]
<1>1. QuietStep(c) /\ UNCHANGED <<rows, events>>
  BY ChecksAreQuiet, LinkStepsAreQuiet DEF QuietStep
<1>2. left' \in 0 .. MaxRequests
  BY <1>1, LeftStays DEF QuietStep
<1>3. r \in RequestRecords /\ SoundTask(r, task)
  BY DEF RequestsAreSound, SoundRow
<1>4. /\ dependency' \subseteq Tasks \X Tasks
      /\ item' \in [Items -> ItemRows]
      /\ lock' \in [Projects -> Clients \cup {None}]
  <2>1. CASE Checks(c)
    BY <2>1, ChecksAreQuiet DEF links, TypeOK
  <2>2. CASE LockProject(c)
    BY <2>2 DEF LockProject, TypeOK
  <2>3. CASE CheckCycle(c)
    BY <2>3, UnlockType DEF CheckCycle, TypeOK
  <2>4. CASE AddDependency(c)
    <3>1. r.id \in Tasks /\ r.other \in Tasks
      BY <1>3, <2>4 DEF AddDependency, At, SoundTask
    <3> QED BY <2>4, <3>1, UnlockType DEF AddDependency, TypeOK
  <2>5. CASE RemoveDependency(c)
    BY <2>5 DEF RemoveDependency, TypeOK
  <2>6. CASE insertChecklistItem(c)
    <3>1. [task |-> r.other, completed |-> FALSE, version |-> 1] \in ItemRows
      BY <1>3, <2>6 DEF insertChecklistItem, At, SoundTask, ItemRows
    <3> QED BY <2>6, <3>1 DEF insertChecklistItem, TypeOK
  <2>7. CASE WriteChecklistItem(c)
    <3> DEFINE it == item[r.id]
               done == (r.op = "CheckItem")
               checked == [it EXCEPT !.completed = done]
               next == [checked EXCEPT !.version = @ + 1]
    <3>1. CASE r.id \in Items /\ item' # item
      <4>1. it \in ItemRows
        BY <3>1 DEF TypeOK
      <4>2. item' = [item EXCEPT ![r.id] = next]
        BY <2>7, <3>1 DEF WriteChecklistItem, TypeOK
      <4>3. next \in ItemRows
        <5>1. done \in BOOLEAN
          OBVIOUS
        <5> HIDE DEF done
        <5>2. checked \in ItemRows
          BY <4>1, <5>1 DEF ItemRows
        <5> HIDE DEF checked
        <5> QED BY <5>2 DEF ItemRows
      <4> HIDE DEF next
      <4> QED BY <2>7, <4>2, <4>3 DEF TypeOK, WriteChecklistItem
    <3>2. CASE r.id \notin Items \/ item' = item
      <4>1. item' \in [Items -> ItemRows]
        BY <2>7, <3>2 DEF WriteChecklistItem, TypeOK
      <4> QED BY <2>7, <4>1 DEF TypeOK, WriteChecklistItem
    <3> QED BY <3>1, <3>2
  <2>8. CASE RemoveChecklistItem(c)
    BY <2>8 DEF RemoveChecklistItem, TypeOK, ItemRows, NoItem
  <2>9. CASE Abort(c)
    BY <2>9, UnlockType DEF Abort, TypeOK
  <2> QED BY <2>1, <2>2, <2>3, <2>4, <2>5, <2>6, <2>7, <2>8, <2>9
        DEF DependencyStep, ItemStep
<1> QED BY <1>1, <1>2, <1>4 DEF TypeOK, rows

-----------------------------------------------------------------------------
(* The writes. *)

\* The event e of a change from row to row2.
Follows(e, row, row2) ==
    /\ row2.version = row.version + 1
    /\ IF e.ahead
       THEN e.version < row2.version
       ELSE /\ e.version = row2.version /\ e.status = row2.status
            /\ row.version > 0 => e.previous = row.status

\* A history that tells its row goes on with the event of a change.
LEMMA TellsOn ==
    ASSUME NEW history \in Seq(Event), NEW row, NEW row2, NEW e \in Event,
           row.version \in Nat, Tells(history, row), Follows(e, row, row2)
    PROVE  Tells(Append(history, e), row2)
<1> DEFINE n == Len(history)
           h == Append(history, e)
           Told(s, k) == IF s[k].ahead
                         THEN s[k].version < k
                         ELSE /\ s[k].version = k
                              /\ k > 1 /\ ~ s[k - 1].ahead => s[k].previous = s[k - 1].status
<1>1. /\ n = row.version /\ n \in Nat
      /\ Len(h) = n + 1 /\ h[n + 1] = e /\ \A k \in 1 .. n : h[k] = history[k]
  BY DEF Tells
<1> HIDE DEF n, h
<1>2. ASSUME NEW k \in 1 .. n + 1 PROVE Told(h, k)
  <2>1. CASE k \in 1 .. n
    <3>1. Told(history, k)
      BY <2>1 DEF Tells, n
    <3>2. k > 1 => k - 1 \in 1 .. n
      BY <1>1, <2>1
    <3> QED BY <1>1, <2>1, <3>1, <3>2
  <2>2. CASE k = n + 1
    <3>1. k > 1 => n \in 1 .. n /\ n > 0 /\ k - 1 = n
      BY <1>1, <2>2
    <3>2. n > 0 /\ ~ history[n].ahead => history[n].status = row.status
      BY <1>1 DEF Tells
    <3> QED BY <1>1, <2>2, <3>1, <3>2 DEF Follows
  <2> QED BY <1>1, <2>1, <2>2
<1>3. Tells(h, row2)
  <2>1. /\ Len(h) = row2.version /\ row2.version = n + 1
        /\ ~ h[row2.version].ahead => h[row2.version].status = row2.status
    BY <1>1 DEF Follows
  <2> QED BY <1>1, <1>2, <2>1 DEF Tells
<1> QED BY <1>3 DEF h

\* The event of a request.
LEMMA EventOfRequest ==
    ASSUME NEW r \in RequestRecords
    PROVE  /\ newOutboxEvent(r) \in Event
           /\ newOutboxEvent(r).version = r.version
           /\ newOutboxEvent(r).previous = r.from
           /\ newOutboxEvent(r).status = r.to
           /\ newOutboxEvent(r).ahead <=> r.expected >= r.version
<1>1. /\ r.version \in Nat /\ r.expected \in Nat
      /\ r.from \in Statuses /\ r.to \in Statuses
  BY DEF RequestRecords
<1>2. (r.expected >= r.version) \in BOOLEAN
  BY <1>1
<1> QED BY <1>1, <1>2 DEF newOutboxEvent, Event

LEMMA LastOfAppend ==
    ASSUME TypeOK, NEW x \in Aggregates, NEW e \in Event,
           events' = [events EXCEPT ![x] = Append(@, e)]
    PROVE  RanAhead(events'[x]) <=> e.ahead
<1>1. events[x] \in Seq(Event) /\ events'[x] = Append(events[x], e)
  BY DEF TypeOK
<1>2. Len(events'[x]) = Len(events[x]) + 1 /\ events'[x][Len(events[x]) + 1] = e
  BY <1>1
<1> QED BY <1>2 DEF RanAhead

\* One goal is written, with its event.
LEMMA GoalIsWritten ==
    ASSUME TypeOK, EventsTellTheRows, NEW x \in Goals, NEW row \in GoalRows, NEW e \in Event,
           goal' = [goal EXCEPT ![x] = row], UNCHANGED <<project, task>>,
           events' = [events EXCEPT ![x] = Append(@, e)],
           Follows(e, goal[x], row)
    PROVE  RowsGrow /\ EventsTellTheRows' /\ goal' \in [Goals -> GoalRows]
           /\ events' \in [Aggregates -> Seq(Event)]
<1>1. x \in Aggregates /\ events[x] \in Seq(Event) /\ goal[x].version \in Nat
  BY DEF Aggregates, TypeOK, GoalRows
<1>2. Append(events[x], e) \in Seq(Event)
  BY <1>1
<1>3. Tells(Append(events[x], e), row)
  <2>1. Tells(events[x], goal[x])
    BY DEF EventsTellTheRows
  <2> QED BY <1>1, <2>1, TellsOn
<1>4. /\ events' \in [Aggregates -> Seq(Event)]
      /\ events'[x] = Append(events[x], e)
      /\ \A y \in Aggregates : y # x => events'[y] = events[y]
  BY <1>1, <1>2 DEF TypeOK
<1>5. /\ goal' \in [Goals -> GoalRows] /\ goal'[x] = row
      /\ \A y \in Goals : y # x => goal'[y] = goal[y]
  BY DEF TypeOK
<1>6. ASSUME NEW y \in Goals PROVE Tells(events'[y], goal'[y])
  BY <1>3, <1>4, <1>5 DEF EventsTellTheRows, Aggregates
<1>7. /\ \A y \in Projects : Tells(events'[y], project'[y])
      /\ \A y \in Tasks : Tells(events'[y], task'[y])
  BY <1>4, RowsAssumption DEF EventsTellTheRows, Aggregates
<1>8. RowsGrow
  BY <1>1, <1>5 DEF RowsGrow, Grows, Follows
<1> QED BY <1>4, <1>5, <1>6, <1>7, <1>8 DEF EventsTellTheRows

LEMMA GoalWrites ==
    ASSUME TypeOK, RequestsAreSound, EventsTellTheRows, NEW c \in Clients,
           insertGoal(c) \/ WriteGoal(c)
    PROVE  /\ RowsGrow /\ TypeOK' /\ EventsTellTheRows'
           /\ \A x \in Goals : goal[x].version > 0 /\ ~ RanAhead(events'[x]) =>
                goalCanTransition(goal[x].status, goal'[x].status)
<1> DEFINE r == request[c]
           x == r.id
           e == newOutboxEvent(r)
<1>1. /\ r \in RequestRecords /\ SoundGoal(r, goal)
      /\ e \in Event /\ e.version = r.version /\ e.previous = r.from /\ e.status = r.to
      /\ e.ahead <=> r.expected >= r.version
  BY EventOfRequest DEF RequestsAreSound, SoundRow
<1>2. /\ End(c) /\ UNCHANGED <<project, task, links>>
      /\ events' = [events EXCEPT ![x] = Append(@, e)]
  BY DEF insertGoal, WriteGoal, insertOutbox
<1>3. left' \in 0 .. MaxRequests
  BY <1>2, LeftStays
<1> HIDE DEF e
<1>4. CASE insertGoal(c)
  <2> DEFINE row == [status |-> r.to, version |-> 1, company |-> r.other]
  <2>1. /\ x \in Goals /\ r.version = 1 /\ r.to = "active"
        /\ goal[x].version = 0 /\ r.expected = 0 /\ r.other \in Companies
    BY <1>1, <1>4 DEF insertGoal, At, SoundGoal
  <2>2. row \in GoalRows /\ row.version = 1 /\ row.status = r.to
    BY <1>1, <2>1 DEF GoalRows, GoalStatuses, TypeOK
  <2>3. goal' = [goal EXCEPT ![x] = row]
    BY <1>4 DEF insertGoal
  <2> HIDE DEF row
  <2>4. /\ RowsGrow /\ EventsTellTheRows' /\ goal' \in [Goals -> GoalRows]
        /\ events' \in [Aggregates -> Seq(Event)]
    <3>1. Follows(e, goal[x], row)
      BY <1>1, <2>1, <2>2 DEF Follows
    <3> HIDE DEF x
    <3> QED BY <1>1, <1>2, <2>1, <2>2, <2>3, <3>1, GoalIsWritten
  <2>5. ASSUME NEW y \in Goals, goal[y].version > 0
        PROVE  goalCanTransition(goal[y].status, goal'[y].status)
    BY <2>1, <2>3, <2>5 DEF goalCanTransition, TypeOK
  <2> QED BY <1>2, <1>3, <2>2, <2>3, <2>4, <2>5 DEF TypeOK, links
<1>5. CASE WriteGoal(c)
  <2> DEFINE grown == [goal[x] EXCEPT !.version = @ + 1]
             row == [grown EXCEPT !.status = IF r.op = "UpdateGoal" THEN @ ELSE r.to]
  <2>1. /\ x \in Goals /\ Read(r, goal[x]) /\ goalCanTransition(r.from, r.to)
        /\ r.op \in {"UpdateGoal", "ChangeGoalStatus"}
        /\ r.op = "UpdateGoal" => r.to = r.from
        /\ r.op = "ChangeGoalStatus" => r.to \in GoalStatuses
    BY <1>1, <1>5 DEF WriteGoal, SoundGoal, GoalChanges
  <2>2. goal[x] \in GoalRows /\ goal[x].version \in Nat
    BY <2>1 DEF TypeOK, GoalRows
  <2>3. IF e.ahead THEN r.version < goal[x].version + 1
        ELSE r.version = goal[x].version + 1 /\ r.from = goal[x].status
    BY <1>1, <1>5, <2>1, <2>2 DEF WriteGoal, VersionMatches, Read, RequestRecords
  <2>4. goal' = [goal EXCEPT ![x] = row]
    BY <1>5, <2>1, <2>2 DEF WriteGoal, TypeOK, GoalRows
  <2>5. /\ grown \in GoalRows /\ grown.version = goal[x].version + 1
        /\ grown.status = goal[x].status
    BY <2>2, <2>3 DEF GoalRows
  <2> HIDE DEF grown
  <2>6. /\ row \in GoalRows /\ row.version = goal[x].version + 1
        /\ ~ e.ahead => row.status = r.to
    BY <2>1, <2>3, <2>5 DEF GoalRows
  <2> HIDE DEF row
  <2>7. /\ RowsGrow /\ EventsTellTheRows' /\ goal' \in [Goals -> GoalRows]
        /\ events' \in [Aggregates -> Seq(Event)]
    <3>1. Follows(e, goal[x], row)
      BY <1>1, <2>3, <2>6 DEF Follows
    <3> HIDE DEF x
    <3> QED BY <1>1, <1>2, <2>1, <2>4, <2>6, <3>1, GoalIsWritten
  <2>8. ASSUME NEW y \in Goals, ~ RanAhead(events'[y])
        PROVE  goalCanTransition(goal[y].status, goal'[y].status)
    <3>1. CASE y = x
      <4>1. x \in Aggregates
        BY <2>1 DEF Aggregates
      <4>2. ~ e.ahead
        <5> HIDE DEF x
        <5> QED BY <1>1, <1>2, <2>8, <3>1, <4>1, LastOfAppend
      <4> QED BY <2>1, <2>3, <2>4, <2>6, <3>1, <4>2 DEF TypeOK
    <3>2. CASE y # x
      BY <2>4, <3>2 DEF goalCanTransition, TypeOK
    <3> QED BY <3>1, <3>2
  <2> QED BY <1>2, <1>3, <2>4, <2>6, <2>7, <2>8 DEF TypeOK, links
<1> QED BY <1>4, <1>5

\* One project is written, with its event.
LEMMA ProjectIsWritten ==
    ASSUME TypeOK, EventsTellTheRows, NEW x \in Projects, NEW row \in ProjectRows, NEW e \in Event,
           project' = [project EXCEPT ![x] = row], UNCHANGED <<goal, task>>,
           events' = [events EXCEPT ![x] = Append(@, e)],
           Follows(e, project[x], row)
    PROVE  RowsGrow /\ EventsTellTheRows' /\ project' \in [Projects -> ProjectRows]
           /\ events' \in [Aggregates -> Seq(Event)]
<1>1. x \in Aggregates /\ events[x] \in Seq(Event) /\ project[x].version \in Nat
  BY DEF Aggregates, TypeOK, ProjectRows
<1>2. Append(events[x], e) \in Seq(Event)
  BY <1>1
<1>3. Tells(Append(events[x], e), row)
  <2>1. Tells(events[x], project[x])
    BY DEF EventsTellTheRows
  <2> QED BY <1>1, <2>1, TellsOn
<1>4. /\ events' \in [Aggregates -> Seq(Event)]
      /\ events'[x] = Append(events[x], e)
      /\ \A y \in Aggregates : y # x => events'[y] = events[y]
  BY <1>1, <1>2 DEF TypeOK
<1>5. /\ project' \in [Projects -> ProjectRows] /\ project'[x] = row
      /\ \A y \in Projects : y # x => project'[y] = project[y]
  BY DEF TypeOK
<1>6. ASSUME NEW y \in Projects PROVE Tells(events'[y], project'[y])
  BY <1>3, <1>4, <1>5 DEF EventsTellTheRows, Aggregates
<1>7. /\ \A y \in Goals : Tells(events'[y], goal'[y])
      /\ \A y \in Tasks : Tells(events'[y], task'[y])
  BY <1>4, RowsAssumption DEF EventsTellTheRows, Aggregates
<1>8. RowsGrow
  BY <1>1, <1>5 DEF RowsGrow, Grows, Follows
<1> QED BY <1>4, <1>5, <1>6, <1>7, <1>8 DEF EventsTellTheRows

LEMMA ProjectWrites ==
    ASSUME TypeOK, RequestsAreSound, EventsTellTheRows, NEW c \in Clients,
           insertProject(c) \/ WriteProject(c)
    PROVE  /\ RowsGrow /\ TypeOK' /\ EventsTellTheRows'
           /\ \A x \in Projects : project[x].version > 0 /\ ~ RanAhead(events'[x]) =>
                projectCanTransition(project[x].status, project'[x].status)
<1> DEFINE r == request[c]
           x == r.id
           e == newOutboxEvent(r)
<1>1. /\ r \in RequestRecords /\ SoundProject(r, project)
      /\ e \in Event /\ e.version = r.version /\ e.previous = r.from /\ e.status = r.to
      /\ e.ahead <=> r.expected >= r.version
  BY EventOfRequest DEF RequestsAreSound, SoundRow
<1>2. /\ End(c) /\ UNCHANGED <<goal, task, links>>
      /\ events' = [events EXCEPT ![x] = Append(@, e)]
  BY DEF insertProject, WriteProject, insertOutbox
<1>3. left' \in 0 .. MaxRequests
  BY <1>2, LeftStays
<1> HIDE DEF e
<1>4. CASE insertProject(c)
  <2> DEFINE row == [status |-> r.to, version |-> 1,
                    company |-> goal[r.other].company, goal |-> r.other]
  <2>1. /\ x \in Projects /\ r.version = 1 /\ r.to = "planned"
        /\ project[x].version = 0 /\ r.expected = 0 /\ r.other \in Goals
    BY <1>1, <1>4 DEF insertProject, At, SoundProject
  <2>2. row \in ProjectRows /\ row.version = 1 /\ row.status = r.to
    BY <1>1, <2>1 DEF ProjectRows, ProjectStatuses, TypeOK, GoalRows
  <2>3. project' = [project EXCEPT ![x] = row]
    BY <1>4 DEF insertProject
  <2> HIDE DEF row
  <2>4. /\ RowsGrow /\ EventsTellTheRows' /\ project' \in [Projects -> ProjectRows]
        /\ events' \in [Aggregates -> Seq(Event)]
    <3>1. Follows(e, project[x], row)
      BY <1>1, <2>1, <2>2 DEF Follows
    <3> HIDE DEF x
    <3> QED BY <1>1, <1>2, <2>1, <2>2, <2>3, <3>1, ProjectIsWritten
  <2>5. ASSUME NEW y \in Projects, project[y].version > 0
        PROVE  projectCanTransition(project[y].status, project'[y].status)
    BY <2>1, <2>3, <2>5 DEF projectCanTransition, TypeOK
  <2> QED BY <1>2, <1>3, <2>2, <2>3, <2>4, <2>5 DEF TypeOK, links
<1>5. CASE WriteProject(c)
  <2> DEFINE grown == [project[x] EXCEPT !.version = @ + 1]
             row == [grown EXCEPT !.status = IF r.op = "UpdateProject" THEN @ ELSE r.to]
  <2>1. /\ x \in Projects /\ Read(r, project[x]) /\ projectCanTransition(r.from, r.to)
        /\ r.op \in {"UpdateProject", "ChangeProjectStatus"}
        /\ r.op = "UpdateProject" => r.to = r.from
        /\ r.op = "ChangeProjectStatus" => r.to \in ProjectStatuses
    BY <1>1, <1>5 DEF WriteProject, SoundProject, ProjectChanges
  <2>2. project[x] \in ProjectRows /\ project[x].version \in Nat
    BY <2>1 DEF TypeOK, ProjectRows
  <2>3. IF e.ahead THEN r.version < project[x].version + 1
        ELSE r.version = project[x].version + 1 /\ r.from = project[x].status
    BY <1>1, <1>5, <2>1, <2>2 DEF WriteProject, VersionMatches, Read, RequestRecords
  <2>4. project' = [project EXCEPT ![x] = row]
    BY <1>5, <2>1, <2>2 DEF WriteProject, TypeOK, ProjectRows
  <2>5. /\ grown \in ProjectRows /\ grown.version = project[x].version + 1
        /\ grown.status = project[x].status
    BY <2>2, <2>3 DEF ProjectRows
  <2> HIDE DEF grown
  <2>6. /\ row \in ProjectRows /\ row.version = project[x].version + 1
        /\ ~ e.ahead => row.status = r.to
    BY <2>1, <2>3, <2>5 DEF ProjectRows
  <2> HIDE DEF row
  <2>7. /\ RowsGrow /\ EventsTellTheRows' /\ project' \in [Projects -> ProjectRows]
        /\ events' \in [Aggregates -> Seq(Event)]
    <3>1. Follows(e, project[x], row)
      BY <1>1, <2>3, <2>6 DEF Follows
    <3> HIDE DEF x
    <3> QED BY <1>1, <1>2, <2>1, <2>4, <2>6, <3>1, ProjectIsWritten
  <2>8. ASSUME NEW y \in Projects, ~ RanAhead(events'[y])
        PROVE  projectCanTransition(project[y].status, project'[y].status)
    <3>1. CASE y = x
      <4>1. x \in Aggregates
        BY <2>1 DEF Aggregates
      <4>2. ~ e.ahead
        <5> HIDE DEF x
        <5> QED BY <1>1, <1>2, <2>8, <3>1, <4>1, LastOfAppend
      <4> QED BY <2>1, <2>3, <2>4, <2>6, <3>1, <4>2 DEF TypeOK
    <3>2. CASE y # x
      BY <2>4, <3>2 DEF projectCanTransition, TypeOK
    <3> QED BY <3>1, <3>2
  <2> QED BY <1>2, <1>3, <2>4, <2>6, <2>7, <2>8 DEF TypeOK, links
<1> QED BY <1>4, <1>5

\* One task is written, with its event.
LEMMA TaskIsWritten ==
    ASSUME TypeOK, EventsTellTheRows, NEW x \in Tasks, NEW row \in TaskRows, NEW e \in Event,
           task' = [task EXCEPT ![x] = row], UNCHANGED <<goal, project>>,
           events' = [events EXCEPT ![x] = Append(@, e)],
           Follows(e, task[x], row),
           task[x].version > 0 => row.project = task[x].project
    PROVE  RowsGrow /\ EventsTellTheRows' /\ task' \in [Tasks -> TaskRows]
           /\ events' \in [Aggregates -> Seq(Event)]
<1>1. x \in Aggregates /\ events[x] \in Seq(Event) /\ task[x].version \in Nat
  BY DEF Aggregates, TypeOK, TaskRows
<1>2. Append(events[x], e) \in Seq(Event)
  BY <1>1
<1>3. Tells(Append(events[x], e), row)
  <2>1. Tells(events[x], task[x])
    BY DEF EventsTellTheRows
  <2> QED BY <1>1, <2>1, TellsOn
<1>4. /\ events' \in [Aggregates -> Seq(Event)]
      /\ events'[x] = Append(events[x], e)
      /\ \A y \in Aggregates : y # x => events'[y] = events[y]
  BY <1>1, <1>2 DEF TypeOK
<1>5. /\ task' \in [Tasks -> TaskRows] /\ task'[x] = row
      /\ \A y \in Tasks : y # x => task'[y] = task[y]
  BY DEF TypeOK
<1>6. ASSUME NEW y \in Tasks PROVE Tells(events'[y], task'[y])
  BY <1>3, <1>4, <1>5 DEF EventsTellTheRows, Aggregates
<1>7. /\ \A y \in Goals : Tells(events'[y], goal'[y])
      /\ \A y \in Projects : Tells(events'[y], project'[y])
  BY <1>4, RowsAssumption DEF EventsTellTheRows, Aggregates
<1>8. RowsGrow
  BY <1>1, <1>5 DEF RowsGrow, Grows, Follows
<1> QED BY <1>4, <1>5, <1>6, <1>7, <1>8 DEF EventsTellTheRows

LEMMA TaskWrites ==
    ASSUME TypeOK, RequestsAreSound, EventsTellTheRows, NEW c \in Clients,
           insertTask(c) \/ WriteTask(c)
    PROVE  /\ RowsGrow /\ TypeOK' /\ EventsTellTheRows'
           /\ \A x \in Tasks : task[x].version > 0 /\ ~ RanAhead(events'[x]) =>
                taskCanTransition(task[x].status, task'[x].status)
<1> DEFINE r == request[c]
           x == r.id
           e == newOutboxEvent(r)
<1>1. /\ r \in RequestRecords /\ SoundTask(r, task)
      /\ e \in Event /\ e.version = r.version /\ e.previous = r.from /\ e.status = r.to
      /\ e.ahead <=> r.expected >= r.version
  BY EventOfRequest DEF RequestsAreSound, SoundRow
<1>2. /\ End(c) /\ UNCHANGED <<goal, project, links>>
      /\ events' = [events EXCEPT ![x] = Append(@, e)]
  BY DEF insertTask, WriteTask, insertOutbox
<1>3. left' \in 0 .. MaxRequests
  BY <1>2, LeftStays
<1> HIDE DEF e
<1>4. CASE insertTask(c)
  <2> DEFINE row == [status |-> r.to, version |-> 1, project |-> r.other, parent |-> r.step]
  <2>1. /\ x \in Tasks /\ r.version = 1 /\ r.to = "backlog"
        /\ task[x].version = 0 /\ r.expected = 0 /\ r.other \in Projects
        /\ r.step \in Tasks \cup {None}
    BY <1>1, <1>4 DEF insertTask, At, SoundTask
  <2>2. row \in TaskRows /\ row.version = 1 /\ row.status = r.to
    BY <1>1, <2>1 DEF TaskRows, TaskStatuses, TypeOK, OpenTaskStatuses
  <2>3. task' = [task EXCEPT ![x] = row]
    BY <1>4 DEF insertTask
  <2> HIDE DEF row
  <2>4. /\ RowsGrow /\ EventsTellTheRows' /\ task' \in [Tasks -> TaskRows]
        /\ events' \in [Aggregates -> Seq(Event)]
    <3>1. Follows(e, task[x], row)
      BY <1>1, <2>1, <2>2 DEF Follows
    <3>2. ~ (task[x].version > 0)
      BY <2>1
    <3> HIDE DEF x
    <3> QED BY <1>1, <1>2, <2>1, <2>2, <2>3, <3>1, <3>2, TaskIsWritten
  <2>5. ASSUME NEW y \in Tasks, task[y].version > 0
        PROVE  taskCanTransition(task[y].status, task'[y].status)
    BY <2>1, <2>3, <2>5 DEF taskCanTransition, TypeOK
  <2> QED BY <1>2, <1>3, <2>2, <2>3, <2>4, <2>5 DEF TypeOK, links
<1>5. CASE WriteTask(c)
  <2> DEFINE grown == [task[x] EXCEPT !.version = @ + 1]
             row == [grown EXCEPT !.status = IF r.op = "UpdateTask" THEN @ ELSE r.to]
  <2>1. /\ x \in Tasks /\ Read(r, task[x]) /\ taskCanTransition(r.from, r.to)
        /\ r.op \in {"UpdateTask", "ChangeTaskStatus"}
        /\ r.op = "UpdateTask" => r.to = r.from
        /\ r.op = "ChangeTaskStatus" => r.to \in TaskStatuses
    BY <1>1, <1>5 DEF WriteTask, SoundTask, TaskChanges
  <2>2. task[x] \in TaskRows /\ task[x].version \in Nat
    BY <2>1 DEF TypeOK, TaskRows
  <2>3. IF e.ahead THEN r.version < task[x].version + 1
        ELSE r.version = task[x].version + 1 /\ r.from = task[x].status
    BY <1>1, <1>5, <2>1, <2>2 DEF WriteTask, VersionMatches, Read, RequestRecords
  <2>4. task' = [task EXCEPT ![x] = row]
    BY <1>5, <2>1, <2>2 DEF WriteTask, TypeOK, TaskRows
  <2>5. /\ grown \in TaskRows /\ grown.version = task[x].version + 1
        /\ grown.status = task[x].status /\ grown.project = task[x].project
    BY <2>2, <2>3 DEF TaskRows
  <2> HIDE DEF grown
  <2>6. /\ row \in TaskRows /\ row.version = task[x].version + 1
        /\ ~ e.ahead => row.status = r.to
        /\ row.project = task[x].project
    BY <2>1, <2>3, <2>5 DEF TaskRows
  <2> HIDE DEF row
  <2>7. /\ RowsGrow /\ EventsTellTheRows' /\ task' \in [Tasks -> TaskRows]
        /\ events' \in [Aggregates -> Seq(Event)]
    <3>1. Follows(e, task[x], row)
      BY <1>1, <2>3, <2>6 DEF Follows
    <3> HIDE DEF x
    <3> QED BY <1>1, <1>2, <2>1, <2>4, <2>6, <3>1, TaskIsWritten
  <2>8. ASSUME NEW y \in Tasks, ~ RanAhead(events'[y])
        PROVE  taskCanTransition(task[y].status, task'[y].status)
    <3>1. CASE y = x
      <4>1. x \in Aggregates
        BY <2>1 DEF Aggregates
      <4>2. ~ e.ahead
        <5> HIDE DEF x
        <5> QED BY <1>1, <1>2, <2>8, <3>1, <4>1, LastOfAppend
      <4> QED BY <2>1, <2>3, <2>4, <2>6, <3>1, <4>2 DEF TypeOK
    <3>2. CASE y # x
      BY <2>4, <3>2 DEF taskCanTransition, TypeOK
    <3> QED BY <3>1, <3>2
  <2> QED BY <1>2, <1>3, <2>4, <2>6, <2>7, <2>8 DEF TypeOK, links
<1> QED BY <1>4, <1>5

-----------------------------------------------------------------------------
(* The invariant of the rows. *)

\* A step that starts a request, or changes no row.
LEMMA StartKeepsRows ==
    ASSUME TypeOK, RequestsAreSound, EventsTellTheRows, NEW c \in Clients,
           \E r \in RequestRecords : Starts(c, r)
    PROVE  TypeOK' /\ RequestsAreSound' /\ EventsTellTheRows' /\ UNCHANGED rows
<1>1. PICK r \in RequestRecords : Starts(c, r)
  OBVIOUS
<1>2. TypeOK' /\ UNCHANGED <<rows, events>>
  BY <1>1, StartTypes DEF Starts
<1>3. RequestsAreSound'
  BY <1>1, <1>2, StartKeepsRequests
<1> QED BY <1>2, <1>3 DEF EventsTellTheRows, rows

LEMMA QuietKeepsRows ==
    ASSUME TypeOK, RequestsAreSound, EventsTellTheRows, NEW c \in Clients,
           Checks(c) \/ DependencyStep(c) \/ ItemStep(c) \/ Abort(c)
    PROVE  TypeOK' /\ RequestsAreSound' /\ EventsTellTheRows' /\ UNCHANGED rows
<1>1. TypeOK' /\ QuietStep(c)
  BY QuietTypes, ChecksAreQuiet, LinkStepsAreQuiet
<1>2. RequestsAreSound'
  BY <1>1, QuietKeepsRequests
<1> QED BY <1>1, <1>2 DEF QuietStep, EventsTellTheRows, rows

\* The statuses that a step may lead to.
LegalStep ==
    /\ \A g \in Goals : goal[g].version > 0 /\ ~ RanAhead(events'[g]) =>
            goalCanTransition(goal[g].status, goal'[g].status)
    /\ \A p \in Projects : project[p].version > 0 /\ ~ RanAhead(events'[p]) =>
            projectCanTransition(project[p].status, project'[p].status)
    /\ \A t \in Tasks : task[t].version > 0 /\ ~ RanAhead(events'[t]) =>
            taskCanTransition(task[t].status, task'[t].status)

LEMMA SameRowsAreLegal == ASSUME UNCHANGED rows PROVE LegalStep
  BY DEF rows, LegalStep, goalCanTransition, projectCanTransition, taskCanTransition

LEMMA WritesKeepRows ==
    ASSUME TypeOK, RequestsAreSound, EventsTellTheRows, NEW c \in Clients,
           \/ insertGoal(c) \/ WriteGoal(c) \/ insertProject(c) \/ WriteProject(c)
           \/ insertTask(c) \/ WriteTask(c)
    PROVE  TypeOK' /\ RequestsAreSound' /\ EventsTellTheRows' /\ LegalStep
<1>1. CASE insertGoal(c) \/ WriteGoal(c)
  <2>1. RowsGrow /\ TypeOK' /\ EventsTellTheRows'
    BY <1>1, GoalWrites
  <2>2. End(c) /\ UNCHANGED <<project, task>>
    BY <1>1 DEF insertGoal, WriteGoal
  <2>3. RequestsAreSound'
    BY <2>1, <2>2, EndKeepsRequests
  <2>4. LegalStep
    BY <1>1, <2>2, GoalWrites DEF LegalStep, projectCanTransition, taskCanTransition
  <2> QED BY <2>1, <2>3, <2>4
<1>2. CASE insertProject(c) \/ WriteProject(c)
  <2>1. RowsGrow /\ TypeOK' /\ EventsTellTheRows'
    BY <1>2, ProjectWrites
  <2>2. End(c) /\ UNCHANGED <<goal, task>>
    BY <1>2 DEF insertProject, WriteProject
  <2>3. RequestsAreSound'
    BY <2>1, <2>2, EndKeepsRequests
  <2>4. LegalStep
    BY <1>2, <2>2, ProjectWrites DEF LegalStep, goalCanTransition, taskCanTransition
  <2> QED BY <2>1, <2>3, <2>4
<1>3. CASE insertTask(c) \/ WriteTask(c)
  <2>1. RowsGrow /\ TypeOK' /\ EventsTellTheRows'
    BY <1>3, TaskWrites
  <2>2. End(c) /\ UNCHANGED <<goal, project>>
    BY <1>3 DEF insertTask, WriteTask
  <2>3. RequestsAreSound'
    BY <2>1, <2>2, EndKeepsRequests
  <2>4. LegalStep
    BY <1>3, <2>2, TaskWrites DEF LegalStep, goalCanTransition, projectCanTransition
  <2> QED BY <2>1, <2>3, <2>4
<1> QED BY <1>1, <1>2, <1>3

LEMMA DetailsKeepRows ==
    ASSUME DetailsTypeOK, RequestsAreSound, EventsTellTheRows, NEW c \in Clients,
           DetailsRequest(c) \/ DetailsStep(c)
    PROVE  TypeOK' /\ RequestsAreSound' /\ EventsTellTheRows' /\ UNCHANGED rows
<1>1. CASE \E r \in RequestRecords : Starts(c, r)
  BY <1>1, StartKeepsRows DEF DetailsTypeOK
<1>2. CASE AtOnceOnly(c)
  <2>1. left' \in 0 .. MaxRequests
    BY <1>2, BoundsAssumption DEF AtOnceOnly, DetailsTypeOK, TypeOK
  <2>2. TypeOK' /\ UNCHANGED rows
    BY <1>2, <2>1 DEF AtOnceOnly, work, rows, links, DetailsTypeOK, TypeOK
  <2>3. RequestsAreSound'
    BY <1>2 DEF AtOnceOnly, work, rows, RequestsAreSound
  <2> QED BY <1>2, <2>2, <2>3 DEF AtOnceOnly, work, rows, EventsTellTheRows
<1>3. CASE DetailsStep(c)
  <2>1. UNCHANGED work /\ End(c)
    BY <1>3 DEF DetailsStep, deleteAssignment, updateCommentRow, deleteCommentRow,
       rejectCommentVersionOrMissing, deleteArtifactRow, deleteScheduleRow
  <2>2. left' \in 0 .. MaxRequests
    BY <2>1, LeftStays DEF DetailsTypeOK
  <2>3. TypeOK' /\ UNCHANGED rows
    BY <2>1, <2>2 DEF work, rows, links, DetailsTypeOK, TypeOK
  <2>4. RequestsAreSound'
    BY <2>1, <2>3, NothingGrows, EndKeepsRequests DEF DetailsTypeOK
  <2> QED BY <2>1, <2>3, <2>4 DEF work, rows, EventsTellTheRows
<1> QED BY <1>1, <1>2, <1>3, DetailsRequestStarts

LEMMA RowsStay ==
    ASSUME DetailsTypeOK, RequestsAreSound, EventsTellTheRows, [DetailsNext]_allVars
    PROVE  TypeOK' /\ RequestsAreSound' /\ EventsTellTheRows' /\ LegalStep
<1> DEFINE Kept == TypeOK' /\ RequestsAreSound' /\ EventsTellTheRows' /\ LegalStep
<1>0. TypeOK
  BY DEF DetailsTypeOK
<1>1. ASSUME NEW c \in Clients,
             GoalRequest(c) \/ ProjectRequest(c) \/ TaskRequest(c) \/ ItemRequest(c)
      PROVE  Kept
  <2>1. \E r \in RequestRecords : Starts(c, r)
    BY <1>0, <1>1, GoalRequestStarts, ProjectRequestStarts, TaskRequestStarts,
       ItemRequestStarts
  <2> QED BY <1>0, <2>1, StartKeepsRows, SameRowsAreLegal
<1>2. ASSUME NEW c \in Clients, GoalStep(c) \/ ProjectStep(c) \/ TaskStep(c)
      PROVE  Kept
  <2>1. \/ Checks(c)
        \/ insertGoal(c) \/ WriteGoal(c) \/ insertProject(c) \/ WriteProject(c)
        \/ insertTask(c) \/ WriteTask(c)
    BY <1>2 DEF GoalStep, ProjectStep, TaskStep, Checks
  <2> QED BY <1>0, <2>1, QuietKeepsRows, WritesKeepRows, SameRowsAreLegal
<1>3. ASSUME NEW c \in Clients, DependencyStep(c) \/ ItemStep(c) \/ Abort(c)
      PROVE  Kept
  BY <1>0, <1>3, QuietKeepsRows, SameRowsAreLegal
<1>4. ASSUME NEW c \in Clients, DetailsRequest(c) \/ DetailsStep(c)
      PROVE  Kept
  BY <1>4, DetailsKeepRows, SameRowsAreLegal
<1>5. CASE UNCHANGED allVars
  <2>1. UNCHANGED <<rows, links, events, request, left>>
    BY <1>5 DEF allVars, vars
  <2>2. TypeOK' /\ LegalStep
    BY <1>0, <2>1, SameRowsAreLegal DEF TypeOK, rows, links
  <2> QED BY <2>1, <2>2 DEF rows, RequestsAreSound, EventsTellTheRows
<1> HIDE DEF Kept
<1>6. CASE Next
  <2>1. PICK c \in Clients :
          \/ GoalRequest(c) \/ GoalStep(c)
          \/ ProjectRequest(c) \/ ProjectStep(c)
          \/ TaskRequest(c) \/ TaskStep(c) \/ DependencyStep(c)
          \/ ItemRequest(c) \/ ItemStep(c)
          \/ Abort(c)
    BY <1>6 DEF Next
  <2>2. Kept
    BY <1>1, <1>2, <1>3, <2>1
  <2> QED BY <2>2 DEF Kept
<1>7. CASE DetailsNext
  <2>1. CASE \E c \in Clients : DetailsRequest(c) \/ DetailsStep(c)
    BY <1>4, <2>1 DEF Kept
  <2> QED BY <1>6, <1>7, <2>1 DEF DetailsNext
<1> QED BY <1>5, <1>7 DEF Kept

-----------------------------------------------------------------------------
(* What hangs on the tasks. *)

DetailTypes ==
    /\ assignment \in [Assignments -> AssignmentRows]
    /\ comment \in [Comments -> CommentRows]
    /\ artifact \in [Artifacts -> ArtifactRows]
    /\ schedule \in [Tasks -> Nat]

\* What is deleted is left alone.
DeletedStays ==
    /\ \A m \in Comments : comment[m].deleted => comment'[m] = comment[m]
    /\ \A f \in Artifacts : artifact[f].deleted => artifact'[f] = artifact[f]

LEMMA SameDetails ==
    ASSUME DetailTypes, UNCHANGED details
    PROVE  DetailTypes' /\ DeletedStays
  BY DEF details, DetailTypes, DeletedStays

LEMMA DetailRequestsKeep ==
    ASSUME DetailTypes, NEW c \in Clients, DetailsRequest(c)
    PROVE  DetailTypes' /\ DeletedStays
<1> DEFINE Kept == DetailTypes' /\ DeletedStays
<1>1. ASSUME NEW a \in Assignments, NEW t \in Tasks, NEW who \in Users \cup Agents,
             NEW role \in Roles, AssignTask(c, a, t, who, role)
      PROVE  Kept
  BY <1>1 DEF AssignTask, insertAssignment, DetailTypes, DeletedStays, AssignmentRows
<1>2. ASSUME NEW m \in Comments, NEW actor \in Users, NEW t \in Tasks,
             NEW author \in Users \cup Agents, AddComment(c, m, t, actor, author)
      PROVE  Kept
  <2> DEFINE row == [task |-> t, author |-> author, body |-> 1, version |-> 1,
                     deleted |-> FALSE]
  <2>1. row \in CommentRows
    BY DEF CommentRows
  <2>2. /\ comment' = [comment EXCEPT ![m] = row] /\ ~comment[m].deleted
        /\ UNCHANGED <<assignment, artifact, schedule>>
    BY <1>2 DEF AddComment, insertComment, NoComment
  <2> HIDE DEF row
  <2> QED BY <2>1, <2>2 DEF DetailTypes, DeletedStays
<1>3. ASSUME NEW f \in Artifacts, NEW t \in Tasks, NEW key \in ObjectKeys,
             AddArtifact(c, f, t, key)
      PROVE  Kept
  <2> DEFINE row == [task |-> t, key |-> key, deleted |-> FALSE]
  <2>1. row \in ArtifactRows
    BY DEF ArtifactRows
  <2>2. /\ artifact' = [artifact EXCEPT ![f] = row] /\ ~artifact[f].deleted
        /\ UNCHANGED <<assignment, comment, schedule>>
    BY <1>3 DEF AddArtifact, insertArtifact, NoArtifact
  <2> HIDE DEF row
  <2> QED BY <2>1, <2>2 DEF DetailTypes, DeletedStays
<1>4. ASSUME NEW t \in Tasks, UpsertTaskSchedule(c, t) PROVE Kept
  BY <1>4 DEF UpsertTaskSchedule, upsertScheduleRow, DetailTypes, DeletedStays
<1>5. CASE UNCHANGED details
  BY <1>5, SameDetails
<1> HIDE DEF Kept
<1>6. Kept
  BY <1>1, <1>2, <1>3, <1>4, <1>5 DEF DetailsRequest, UnassignTask, UpdateComment,
     DeleteComment, DeleteArtifact, DeleteTaskSchedule, Kept
<1> QED BY <1>6 DEF Kept

LEMMA DetailStepsKeep ==
    ASSUME DetailTypes, NEW c \in Clients, DetailsStep(c)
    PROVE  DetailTypes' /\ DeletedStays
<1> DEFINE x == request[c].id
<1>1. CASE deleteAssignment(c)
  BY <1>1 DEF deleteAssignment, DetailTypes, DeletedStays, AssignmentRows, NoAssignment
<1>2. CASE updateCommentRow(c) \/ deleteCommentRow(c)
  <2>1. UNCHANGED <<assignment, artifact, schedule>>
    BY <1>2 DEF updateCommentRow, deleteCommentRow
  <2>2. CASE x \notin Comments
    <3>1. comment' = comment
      BY <1>2, <2>2 DEF updateCommentRow, deleteCommentRow, DetailTypes
    <3> QED BY <2>1, <3>1 DEF DetailTypes, DeletedStays
  <2>3. CASE x \in Comments
    <3> DEFINE grown == [comment[x] EXCEPT !.version = @ + 1]
               edited == [grown EXCEPT !.body = comment[x].version + 1]
               deleted == [grown EXCEPT !.deleted = TRUE]
    <3>1. comment[x] \in CommentRows /\ ~comment[x].deleted
      BY <1>2, <2>3 DEF DetailTypes, updateCommentRow, deleteCommentRow, CommentMatches
    <3>2. \/ comment' = [comment EXCEPT ![x] = edited]
          \/ comment' = [comment EXCEPT ![x] = deleted]
      BY <1>2, <2>3, <3>1 DEF updateCommentRow, deleteCommentRow, DetailTypes, CommentRows
    <3>3. grown \in CommentRows
      BY <3>1 DEF CommentRows
    <3> HIDE DEF grown
    <3>4. edited \in CommentRows /\ deleted \in CommentRows
      <4>1. comment[x].version + 1 \in Nat
        BY <3>1 DEF CommentRows
      <4>2. edited \in CommentRows
        BY <3>3, <4>1 DEF CommentRows
      <4>3. deleted \in CommentRows
        BY <3>3 DEF CommentRows
      <4> QED BY <4>2, <4>3
    <3> HIDE DEF edited, deleted
    <3> QED BY <2>1, <2>3, <3>1, <3>2, <3>4 DEF DetailTypes, DeletedStays
  <2> QED BY <2>2, <2>3
<1>3. CASE rejectCommentVersionOrMissing(c)
  BY <1>3, SameDetails DEF rejectCommentVersionOrMissing
<1>4. CASE deleteArtifactRow(c)
  <2> DEFINE deleted == [artifact[x] EXCEPT !.deleted = TRUE]
  <2>1. UNCHANGED <<assignment, comment, schedule>>
    BY <1>4 DEF deleteArtifactRow
  <2>2. CASE x \notin Artifacts
    <3>1. artifact' = artifact
      BY <1>4, <2>2 DEF deleteArtifactRow, DetailTypes
    <3> QED BY <2>1, <3>1 DEF DetailTypes, DeletedStays
  <2>3. CASE x \in Artifacts
    <3>1. artifact[x] \in ArtifactRows /\ artifact' = [artifact EXCEPT ![x] = deleted]
      BY <1>4, <2>3 DEF DetailTypes, deleteArtifactRow
    <3>2. deleted \in ArtifactRows /\ (artifact[x].deleted => deleted = artifact[x])
      BY <3>1 DEF ArtifactRows
    <3> HIDE DEF deleted
    <3> QED BY <2>1, <2>3, <3>1, <3>2 DEF DetailTypes, DeletedStays
  <2> QED BY <2>2, <2>3
<1>5. CASE deleteScheduleRow(c)
  BY <1>5 DEF deleteScheduleRow, DetailTypes, DeletedStays
<1> QED BY <1>1, <1>2, <1>3, <1>4, <1>5 DEF DetailsStep

LEMMA DetailsStay ==
    ASSUME DetailTypes, [DetailsNext]_allVars
    PROVE  DetailTypes' /\ DeletedStays
<1>1. CASE UNCHANGED details
  BY <1>1, SameDetails
<1>2. ASSUME NEW c \in Clients, DetailsRequest(c) \/ DetailsStep(c)
      PROVE  DetailTypes' /\ DeletedStays
  BY <1>2, DetailRequestsKeep, DetailStepsKeep
<1> QED BY <1>1, <1>2 DEF DetailsNext, allVars

-----------------------------------------------------------------------------

\* The stored rows, and what they announced.
LEMMA InitRows == DetailsInit => RowsInv
<1> SUFFICES ASSUME DetailsInit PROVE RowsInv
  OBVIOUS
<1>1. PICK company \in Companies :
        goal = [g \in Goals |-> IF g \in Stored
                THEN [status |-> "active", version |-> 1, company |-> company]
                ELSE [status |-> None, version |-> 0, company |-> None]]
  BY DEF DetailsInit, Init
<1>2. PICK g0 \in Goals \cap Stored :
        project = [p \in Projects |-> IF p \in Stored
                   THEN [status |-> "planned", version |-> 1,
                         company |-> goal[g0].company, goal |-> g0]
                   ELSE [status |-> None, version |-> 0, company |-> None, goal |-> None]]
  BY DEF DetailsInit, Init
<1>3. PICK p0 \in Projects \cap Stored :
        task = [t \in Tasks |-> IF t \in Stored
                THEN [status |-> "backlog", version |-> 1, project |-> p0, parent |-> None]
                ELSE [status |-> None, version |-> 0, project |-> None, parent |-> None]]
  BY DEF DetailsInit, Init
<1>4. goal \in [Goals -> GoalRows]
  BY <1>1 DEF GoalRows, GoalStatuses
<1>5. project \in [Projects -> ProjectRows]
  <2>1. goal[g0].company \in Companies \cup {None}
    BY <1>4 DEF GoalRows
  <2> QED BY <1>2, <2>1 DEF ProjectRows, ProjectStatuses
<1>6. task \in [Tasks -> TaskRows]
  BY <1>3 DEF TaskRows, TaskStatuses, OpenTaskStatuses
<1>7. \A s \in {"active", "planned", "backlog"} : Created(s) \in Event
  BY DEF Created, Event, Statuses, GoalStatuses, ProjectStatuses, TaskStatuses,
     OpenTaskStatuses
<1>8. events \in [Aggregates -> Seq(Event)]
  <2>1. ASSUME NEW x \in Aggregates PROVE events[x] \in Seq(Event)
    BY <1>7 DEF DetailsInit, Init
  <2> QED BY <2>1 DEF DetailsInit, Init
<1>9. TypeOK
  <2>1. left \in 0 .. MaxRequests
    BY BoundsAssumption DEF DetailsInit, Init
  <2>2. item \in [Items -> ItemRows] /\ lock \in [Projects -> Clients \cup {None}]
    BY DEF DetailsInit, Init, NoItem, ItemRows
  <2>3. dependency \subseteq Tasks \X Tasks
    BY DEF DetailsInit, Init
  <2> QED BY <1>4, <1>5, <1>6, <1>8, <2>1, <2>2, <2>3 DEF TypeOK
<1>10. DetailsTypeOK
  BY <1>9 DEF DetailsTypeOK, DetailsInit, AssignmentRows, NoAssignment, CommentRows,
     NoComment, ArtifactRows, NoArtifact
<1>11. RequestsAreSound
  BY IdleIsSound DEF DetailsInit, Init, RequestsAreSound
<1>12. ASSUME NEW s \in {"active", "planned", "backlog"}, NEW row, row.version = 1,
              row.status = s
       PROVE  Tells(<<Created(s)>>, row)
  BY <1>12 DEF Tells, Created
<1>13. ASSUME NEW row, row.version = 0 PROVE Tells(<<>>, row)
  BY <1>13 DEF Tells
<1>14. EventsTellTheRows
  <2>1. ASSUME NEW g \in Goals PROVE Tells(events[g], goal[g])
    <3>1. events[g] = IF g \in Stored THEN << Created("active") >> ELSE <<>>
      BY DEF DetailsInit, Init, Aggregates
    <3> QED BY <1>1, <1>12, <1>13, <3>1
  <2>2. ASSUME NEW p \in Projects PROVE Tells(events[p], project[p])
    <3>1. events[p] = IF p \in Stored THEN << Created("planned") >> ELSE <<>>
      BY RowsAssumption DEF DetailsInit, Init, Aggregates
    <3> QED BY <1>2, <1>12, <1>13, <3>1
  <2>3. ASSUME NEW t \in Tasks PROVE Tells(events[t], task[t])
    <3>1. events[t] = IF t \in Stored THEN << Created("backlog") >> ELSE <<>>
      BY RowsAssumption DEF DetailsInit, Init, Aggregates
    <3> QED BY <1>3, <1>12, <1>13, <3>1
  <2> QED BY <2>1, <2>2, <2>3 DEF EventsTellTheRows
<1> QED BY <1>10, <1>11, <1>14 DEF RowsInv

LEMMA NextRows == RowsInv /\ [DetailsNext]_allVars => RowsInv' /\ LegalStep /\ DeletedStays
<1> SUFFICES ASSUME RowsInv, [DetailsNext]_allVars
             PROVE  RowsInv' /\ LegalStep /\ DeletedStays
  OBVIOUS
<1>1. TypeOK' /\ RequestsAreSound' /\ EventsTellTheRows' /\ LegalStep
  BY RowsStay DEF RowsInv
<1>2. DetailTypes' /\ DeletedStays
  BY DetailsStay DEF RowsInv, DetailsTypeOK, DetailTypes
<1> QED BY <1>1, <1>2 DEF RowsInv, DetailsTypeOK, DetailTypes

LEMMA RowsInvariant == DetailsSpec => []RowsInv
<1>1. RowsInv /\ [DetailsNext]_allVars => RowsInv'
  BY NextRows
<1> QED BY <1>1, InitRows, PTL DEF DetailsSpec

(* The rows of the work management service stay well formed.               *)
THEOREM TypeCorrect == DetailsSpec => []DetailsTypeOK
<1>1. RowsInv => DetailsTypeOK
  BY DEF RowsInv
<1> QED BY <1>1, RowsInvariant, PTL

(* The outbox has one event for each version of every goal, project and    *)
(* task, which bears this version and names the status it replaced,        *)
(* although it was made from a row read in an earlier transaction, but for *)
(* changes whose client named a version later than the row that was read:  *)
(* their events bear an earlier version (task.go, ChangeTaskStatus;        *)
(* repository.go, newOutboxEvent).                                         *)
THEOREM EventsAreTrue == DetailsSpec => []EventsTellTheRows
<1>1. RowsInv => EventsTellTheRows
  BY DEF RowsInv
<1> QED BY <1>1, RowsInvariant, PTL

(* Every status change is one the application allows for the status that   *)
(* is replaced, not only for the one that was read, whatever version the   *)
(* client named, unless that is later than the row that was read (task.go, *)
(* taskCanTransition).                                                     *)
THEOREM StatusesFollowTransitions == DetailsSpec => TransitionsAreLegal
<1>1. RowsInv /\ [DetailsNext]_allVars => [LegalStep]_vars
  BY NextRows
<1> QED BY <1>1, RowsInvariant, PTL DEF DetailsSpec, TransitionsAreLegal, LegalStep

(* A comment or artifact that is deleted is never changed again, not by a  *)
(* request that read it before (comment.go, UpdateComment, DeleteComment). *)
THEOREM DeletedStaysDeleted == DetailsSpec => DeletedIsFinal
<1>1. RowsInv /\ [DetailsNext]_allVars => [DeletedStays]_allVars
  BY NextRows
<1> QED BY <1>1, RowsInvariant, PTL DEF DetailsSpec, DeletedIsFinal, DeletedStays

-----------------------------------------------------------------------------
(* Goals, projects and tasks as their consumers see them. *)

\* The step of one aggregate: its row changes, and it announces something.
Announces(x) ==
    /\ \E e \in Event : events' = [events EXCEPT ![x] = Append(@, e)]
    /\ \A y \in Aggregates \ {x} : Row(y)' = Row(y)

LEMMA WritesAnnounce ==
    ASSUME TypeOK, RequestsAreSound, NEW c \in Clients,
           \/ insertGoal(c) \/ WriteGoal(c) \/ insertProject(c) \/ WriteProject(c)
           \/ insertTask(c) \/ WriteTask(c)
    PROVE  \E x \in Aggregates : Announces(x)
<1> DEFINE r == request[c]
           x == r.id
           e == newOutboxEvent(r)
<1>1. r \in RequestRecords /\ SoundGoal(r, goal) /\ SoundProject(r, project) /\ SoundTask(r, task)
  BY DEF RequestsAreSound, SoundRow
<1>2. e \in Event /\ events' = [events EXCEPT ![x] = Append(@, e)]
  BY <1>1, EventOfRequest
     DEF insertGoal, WriteGoal, insertProject, WriteProject, insertTask, WriteTask, insertOutbox
<1>3. CASE insertGoal(c) \/ WriteGoal(c)
  <2>1. x \in Goals
    BY <1>1, <1>3 DEF insertGoal, WriteGoal, At, SoundGoal, GoalChanges
  <2>2. UNCHANGED <<project, task>> /\ \A y \in Goals \ {x} : goal'[y] = goal[y]
    BY <1>3 DEF insertGoal, WriteGoal, TypeOK
  <2>3. \A y \in Aggregates \ {x} : Row(y)' = Row(y)
    BY <2>2 DEF Row
  <2> QED BY <1>2, <2>1, <2>3 DEF Announces, Aggregates
<1>4. CASE insertProject(c) \/ WriteProject(c)
  <2>1. x \in Projects
    BY <1>1, <1>4 DEF insertProject, WriteProject, At, SoundProject, ProjectChanges
  <2>2. UNCHANGED <<goal, task>> /\ \A y \in Projects \ {x} : project'[y] = project[y]
    BY <1>4 DEF insertProject, WriteProject, TypeOK
  <2>3. \A y \in Aggregates \ {x} : Row(y)' = Row(y)
    BY <2>2 DEF Row
  <2> QED BY <1>2, <2>1, <2>3 DEF Announces, Aggregates
<1>5. CASE insertTask(c) \/ WriteTask(c)
  <2>1. x \in Tasks
    BY <1>1, <1>5 DEF insertTask, WriteTask, At, SoundTask, TaskChanges
  <2>2. UNCHANGED <<goal, project>> /\ \A y \in Tasks \ {x} : task'[y] = task[y]
    BY <1>5 DEF insertTask, WriteTask, TypeOK
  <2>3. \A y \in Aggregates \ {x} : Row(y)' = Row(y)
    BY <2>2 DEF Row, Aggregates
  <2> QED BY <1>2, <2>1, <2>3 DEF Announces, Aggregates
<1> QED BY <1>3, <1>4, <1>5

LEMMA StepsAnnounce ==
    ASSUME RowsInv, [DetailsNext]_allVars
    PROVE  UNCHANGED <<rows, events>> \/ \E x \in Aggregates : Announces(x)
<1> DEFINE Shown == UNCHANGED <<rows, events>> \/ \E x \in Aggregates : Announces(x)
<1>0. TypeOK /\ DetailsTypeOK /\ RequestsAreSound
  BY DEF RowsInv, DetailsTypeOK
<1>1. CASE UNCHANGED allVars
  BY <1>1 DEF allVars, vars
<1>2. ASSUME NEW c \in Clients, \E r \in RequestRecords : Starts(c, r) PROVE Shown
  BY <1>2 DEF Starts
<1>3. ASSUME NEW c \in Clients, Checks(c) \/ DependencyStep(c) \/ ItemStep(c) \/ Abort(c)
      PROVE  Shown
  BY <1>3, ChecksAreQuiet, LinkStepsAreQuiet DEF QuietStep
<1>4. ASSUME NEW c \in Clients,
             GoalRequest(c) \/ ProjectRequest(c) \/ TaskRequest(c) \/ ItemRequest(c)
      PROVE  Shown
  <2>1. \E r \in RequestRecords : Starts(c, r)
    BY <1>0, <1>4, GoalRequestStarts, ProjectRequestStarts, TaskRequestStarts,
       ItemRequestStarts
  <2> QED BY <1>2, <2>1
<1>5. ASSUME NEW c \in Clients, GoalStep(c) \/ ProjectStep(c) \/ TaskStep(c)
      PROVE  Shown
  <2>1. \/ Checks(c)
        \/ insertGoal(c) \/ WriteGoal(c) \/ insertProject(c) \/ WriteProject(c)
        \/ insertTask(c) \/ WriteTask(c)
    BY <1>5 DEF GoalStep, ProjectStep, TaskStep, Checks
  <2> QED BY <1>0, <1>3, <2>1, WritesAnnounce
<1>6. ASSUME NEW c \in Clients, DetailsRequest(c) \/ DetailsStep(c) PROVE Shown
  <2>1. CASE \E r \in RequestRecords : Starts(c, r)
    BY <1>2, <2>1
  <2>2. CASE AtOnceOnly(c)
    BY <2>2 DEF AtOnceOnly, work
  <2>3. CASE DetailsStep(c)
    BY <2>3 DEF DetailsStep, deleteAssignment, updateCommentRow, deleteCommentRow,
       rejectCommentVersionOrMissing, deleteArtifactRow, deleteScheduleRow, work
  <2> QED BY <1>0, <1>6, <2>1, <2>2, <2>3, DetailsRequestStarts
<1> HIDE DEF Shown
<1>7. CASE Next
  <2>1. PICK c \in Clients :
          \/ GoalRequest(c) \/ GoalStep(c)
          \/ ProjectRequest(c) \/ ProjectStep(c)
          \/ TaskRequest(c) \/ TaskStep(c) \/ DependencyStep(c)
          \/ ItemRequest(c) \/ ItemStep(c)
          \/ Abort(c)
    BY <1>7 DEF Next
  <2>2. Shown
    BY <1>3, <1>4, <1>5, <2>1
  <2> QED BY <2>2 DEF Shown
<1>8. CASE \E c \in Clients : DetailsRequest(c) \/ DetailsStep(c)
  BY <1>6, <1>8 DEF Shown
<1> QED BY <1>1, <1>7, <1>8 DEF DetailsNext

\* The versions of a sequence of events.
VersionsOf(s) == [n \in DOMAIN s |-> s[n].version]

LEMMA VersionsOfAppend ==
    ASSUME NEW s \in Seq(Event), NEW e \in Event
    PROVE  VersionsOf(Append(s, e)) = Append(VersionsOf(s), e.version)
<1> DEFINE told == VersionsOf(s)
           next == VersionsOf(Append(s, e))
<1>1. /\ Len(s) \in Nat /\ DOMAIN s = 1 .. Len(s)
      /\ Append(s, e) \in Seq(Event) /\ DOMAIN Append(s, e) = 1 .. Len(s) + 1
      /\ Append(s, e)[Len(s) + 1] = e
      /\ \A k \in 1 .. Len(s) : Append(s, e)[k] = s[k] /\ s[k] \in Event
  BY AppendProperties, LenProperties, ElementOfSeq
<1>2. told \in Seq(Nat) /\ Len(told) = Len(s)
  <2>1. told \in [1 .. Len(s) -> Nat]
    BY <1>1 DEF Event, VersionsOf
  <2> QED BY <1>1, <2>1, SeqDef
<1>3. e.version \in Nat
  BY DEF Event
<1>4. /\ Append(told, e.version) = [k \in 1 .. Len(s) + 1 |-> Append(told, e.version)[k]]
      /\ Append(told, e.version)[Len(s) + 1] = e.version
      /\ \A k \in 1 .. Len(s) : Append(told, e.version)[k] = told[k]
  BY <1>1, <1>2, <1>3, AppendProperties, LenProperties
<1>5. /\ next = [k \in 1 .. Len(s) + 1 |-> next[k]]
      /\ next[Len(s) + 1] = e.version
      /\ \A k \in 1 .. Len(s) : next[k] = told[k]
  BY <1>1 DEF VersionsOf
<1> HIDE DEF next, told
<1>6. ASSUME NEW k \in 1 .. Len(s) + 1 PROVE next[k] = Append(told, e.version)[k]
  <2>1. k \in 1 .. Len(s) \/ k = Len(s) + 1
    BY <1>1
  <2> QED BY <1>4, <1>5, <2>1
<1>7. next = Append(told, e.version)
  BY <1>4, <1>5, <1>6
<1> QED BY <1>7 DEF next, told

LEMMA RowsAreTold ==
    ASSUME RowsInv, NEW x \in Aggregates
    PROVE  Tells(events[x], Row(x)) /\ events[x] \in Seq(Event) /\ Row(x).version = Len(events[x])
<1>1. Tells(events[x], Row(x))
  BY DEF RowsInv, EventsTellTheRows, Row, Aggregates
<1>2. events[x] \in Seq(Event)
  BY DEF RowsInv, DetailsTypeOK, TypeOK
<1> QED BY <1>1, <1>2 DEF Tells

(* As long as no client names a version later than the row that is read for *)
(* its request, the work service implements History: however requests       *)
(* overlap, a visible step changes one goal, project or task to its next    *)
(* version and announces that version once; no row changes unannounced      *)
(* (insertOutbox in the transactions of goal.go, project.go and task.go).   *)
THEOREM WorkImplementsHistory == DetailsSpec /\ []NobodyRanAhead => RowsHaveAHistory
<1> DEFINE contents == [x \in Aggregates |-> Row(x)]
           versions == [x \in Aggregates |-> Row(x).version]
           told == [x \in Aggregates |-> VersionsOf(events[x])]
<1>1. DetailsInit => Life!HistoryInit
  <2> SUFFICES ASSUME DetailsInit, NEW x \in Aggregates
               PROVE  /\ Row(x).version \in Nat
                      /\ VersionsOf(events[x]) \in Seq(Nat)
                      /\ VersionsOf(events[x]) \in {<< >>, <<Row(x).version>>}
    BY DEF Life!HistoryInit, VersionsOf
  <2>1. Tells(events[x], Row(x)) /\ events[x] \in Seq(Event) /\ Row(x).version = Len(events[x])
    BY InitRows, RowsAreTold
  <2>2. events[x] = << >> \/ \E status : events[x] = << Created(status) >>
    BY DEF DetailsInit, Init
  <2>3. CASE events[x] = << >>
    BY <2>1, <2>3 DEF VersionsOf
  <2>4. CASE events[x] # << >>
    <3>1. PICK status : events[x] = << Created(status) >>
      BY <2>2, <2>4
    <3>2. VersionsOf(events[x]) = << 1 >>
      BY <3>1 DEF VersionsOf, Created
    <3>3. Row(x).version = 1
      BY <2>1, <3>1
    <3> QED BY <3>2, <3>3
  <2> QED BY <2>3, <2>4
<1>2. RowsInv /\ NobodyRanAhead' /\ [DetailsNext]_allVars => [Life!HistoryNext]_(Life!historyVars)
  <2> SUFFICES ASSUME RowsInv, NobodyRanAhead', [DetailsNext]_allVars
               PROVE  [Life!HistoryNext]_(Life!historyVars)
    OBVIOUS
  <2>1. CASE UNCHANGED <<rows, events>>
    BY <2>1 DEF rows, Row, Life!historyVars
  <2>2. ASSUME NEW x \in Aggregates, Announces(x) PROVE Life!HistoryNext
    <3>1. PICK e \in Event : events' = [events EXCEPT ![x] = Append(@, e)]
      BY <2>2 DEF Announces
    <3>2. /\ Tells(events[x], Row(x)) /\ events[x] \in Seq(Event)
          /\ Row(x).version = Len(events[x])
      BY RowsAreTold
    <3>3. RowsInv'
      BY NextRows
    <3>4. Tells(events'[x], Row(x)') /\ Row(x)'.version = Len(events'[x])
      <4>1. Tells(events'[x], Row(x)')
        BY <3>3 DEF RowsInv, EventsTellTheRows, Row, Aggregates
      <4> QED BY <4>1 DEF Tells
    <3>5. events \in [Aggregates -> Seq(Event)]
      BY DEF RowsInv, DetailsTypeOK, TypeOK
    <3>6. /\ events'[x] = Append(events[x], e)
          /\ \A y \in Aggregates \ {x} : events'[y] = events[y]
      BY <3>1, <3>5
    <3>7. Len(events'[x]) = Row(x).version + 1 /\ events'[x][Row(x).version + 1] = e
      BY <3>2, <3>6, AppendProperties, LenProperties
    <3>8. e.version = Row(x).version + 1 /\ Row(x)'.version = Row(x).version + 1
      <4>1. ~ e.ahead
        BY <3>2, <3>6, <3>7, AppendProperties, LenProperties DEF NobodyRanAhead
      <4> QED BY <3>2, <3>4, <3>7, <4>1, LenProperties DEF Tells
    <3>9. versions' = [versions EXCEPT ![x] = @ + 1]
      BY <2>2, <3>8 DEF Announces
    <3>10. VersionsOf(events'[x]) = Append(VersionsOf(events[x]), Row(x).version + 1)
      BY <3>2, <3>6, <3>8, VersionsOfAppend
    <3>11. told' = [told EXCEPT ![x] = Append(@, versions[x] + 1)]
      BY <3>6, <3>10
    <3>12. \A y \in Aggregates \ {x} : contents'[y] = contents[y]
      BY <2>2 DEF Announces
    <3>13. Life!ChangeAndAnnounce(x)
      BY <3>9, <3>11, <3>12 DEF Life!ChangeAndAnnounce, VersionsOf
    <3> QED BY <3>13 DEF Life!HistoryNext
  <2> QED BY <2>1, <2>2, StepsAnnounce
<1> QED BY <1>1, <1>2, RowsInvariant, PTL DEF DetailsSpec, RowsHaveAHistory, Life!HistorySpec

-----------------------------------------------------------------------------
(* Dependencies, as a relation D between tasks. *)

\* There is no way along D from q to t: a set that D does not leave holds
\* what q needs, and not t.
NoWay(D, q, t) ==
    \E S \in SUBSET Tasks :
       /\ \A x \in S : \A y \in Tasks : <<x, y>> \in D => y \in S
       /\ \A y \in Tasks : <<q, y>> \in D => y \in S
       /\ t \notin S

Acyclic(D) == \A S \in (SUBSET Tasks) \ {{}} : \E t \in S : \A y \in S : <<t, y>> \notin D

LEMMA CycleCheck ==
    ASSUME NEW q \in Tasks, NEW t \in Tasks
    PROVE  ~dependencyCycleExists(q, t) <=> NoWay(dependency, q, t)
<1>1. ASSUME NEW S \in SUBSET Tasks
      PROVE  /\ Closed(S) <=> \A x \in S : \A y \in Tasks : <<x, y>> \in dependency => y \in S
             /\ Prerequisites(q) \subseteq S <=>
                  \A y \in Tasks : <<q, y>> \in dependency => y \in S
  BY DEF Closed, Prerequisites
<1> QED BY <1>1 DEF dependencyCycleExists, NoWay

LEMMA AcyclicDependencies == DependenciesAreAcyclic <=> Acyclic(dependency)
<1>1. ASSUME NEW S \in SUBSET Tasks, NEW t \in S
      PROVE  Prerequisites(t) \cap S = {} <=> \A y \in S : <<t, y>> \notin dependency
  BY DEF Prerequisites
<1> QED BY <1>1 DEF DependenciesAreAcyclic, Acyclic

\* An edge whose end does not lead back to its start closes no cycle: of
\* the tasks of S that can be reached from q, one needs none of them.
LEMMA InsertKeepsAcyclic ==
    ASSUME NEW D, Acyclic(D), NEW t \in Tasks, NEW q \in Tasks, t # q, NoWay(D, q, t)
    PROVE  Acyclic(D \cup {<<t, q>>})
<1> SUFFICES ASSUME NEW S \in SUBSET Tasks, S # {}
             PROVE  \E x \in S : \A y \in S : <<x, y>> \notin D \cup {<<t, q>>}
  BY DEF Acyclic
<1>1. CASE t \notin S \/ q \notin S
  <2>1. PICK x \in S : \A y \in S : <<x, y>> \notin D
    BY DEF Acyclic
  <2>2. \A y \in S : <<x, y>> # <<t, q>>
    BY <1>1
  <2> QED BY <2>1, <2>2
<1>2. CASE t \in S /\ q \in S
  <2>1. PICK C \in SUBSET Tasks :
          /\ \A x \in C : \A y \in Tasks : <<x, y>> \in D => y \in C
          /\ \A y \in Tasks : <<q, y>> \in D => y \in C
          /\ t \notin C
    BY DEF NoWay
  <2> DEFINE R == S \cap (C \cup {q})
  <2>2. R \in SUBSET Tasks /\ R # {}
    BY <1>2
  <2>3. PICK x \in R : \A y \in R : <<x, y>> \notin D
    BY <2>2 DEF Acyclic
  <2>4. x \in S /\ x # t
    BY <2>1, <2>3
  <2>5. ASSUME NEW y \in S, <<x, y>> \in D PROVE FALSE
    <3>1. y \in C
      BY <2>1, <2>3, <2>5
    <3> QED BY <2>3, <2>5, <3>1
  <2>6. \A y \in S : <<x, y>> # <<t, q>>
    BY <2>4
  <2> QED BY <2>4, <2>5, <2>6
<1> QED BY <1>1, <1>2

\* Without an edge there are fewer ways.
LEMMA RemoveKeepsAcyclic ==
    ASSUME NEW D, NEW E, E \subseteq D
    PROVE  /\ Acyclic(D) => Acyclic(E)
           /\ \A q \in Tasks, t \in Tasks : NoWay(D, q, t) => NoWay(E, q, t)
<1>1. Acyclic(D) => Acyclic(E)
  BY DEF Acyclic
<1>2. ASSUME NEW q \in Tasks, NEW t \in Tasks, NoWay(D, q, t) PROVE NoWay(E, q, t)
  BY <1>2 DEF NoWay
<1> QED BY <1>1, <1>2

\* An edge between tasks of another project opens no way between tasks of
\* the project whose tasks are W.
LEMMA ElsewhereKeepsNoWay ==
    ASSUME NEW D, NEW W \in SUBSET Tasks, NEW q \in W, NEW t \in Tasks,
           \A x \in W : \A y \in Tasks : <<x, y>> \in D => y \in W,
           NEW t2 \in Tasks \ W, NEW q2 \in Tasks, NoWay(D, q, t)
    PROVE  NoWay(D \cup {<<t2, q2>>}, q, t)
<1>1. PICK S \in SUBSET Tasks :
        /\ \A x \in S : \A y \in Tasks : <<x, y>> \in D => y \in S
        /\ \A y \in Tasks : <<q, y>> \in D => y \in S
        /\ t \notin S
  BY DEF NoWay
<1> DEFINE R == S \cap W
<1>2. ASSUME NEW x \in R, NEW y \in Tasks, <<x, y>> \in D \cup {<<t2, q2>>} PROVE y \in R
  <2>1. <<x, y>> # <<t2, q2>>
    OBVIOUS
  <2> QED BY <1>1, <1>2, <2>1
<1>3. ASSUME NEW y \in Tasks, <<q, y>> \in D \cup {<<t2, q2>>} PROVE y \in R
  <2>1. <<q, y>> # <<t2, q2>>
    OBVIOUS
  <2> QED BY <1>1, <1>3, <2>1
<1>4. R \in SUBSET Tasks /\ t \notin R
  BY <1>1
<1> HIDE DEF R
<1> QED BY <1>2, <1>3, <1>4 DEF NoWay

-----------------------------------------------------------------------------
(* The invariant of the dependencies. *)

\* A dependency joins two tasks of one project.
EdgesJoin ==
    \A t \in Tasks, q \in Tasks : <<t, q>> \in dependency =>
       /\ task[t].version > 0 /\ task[q].version > 0
       /\ task[t].project = task[q].project

Inserting(c) == request[c].op = "AddDependency" /\ request[c].step = "insert"

\* What the cycle check found is true until the insertion.
ChecksHold ==
    \A c \in Clients : Inserting(c) =>
       NoWay(dependency, request[c].other, request[c].id)

LocksHold == \A c \in Clients : SoundEdge(c, request[c], task, lock)

EdgeInv ==
    /\ TasksHaveProjects
    /\ EdgesJoin
    /\ LocksHold
    /\ ChecksHold
    /\ Acyclic(dependency)

\* Tasks that are there stay there, in their project.
TasksStand ==
    \A t \in Tasks : task[t].version > 0 =>
       task'[t].version > 0 /\ task'[t].project = task[t].project

\* The step is client c's, and the others keep their locks.
OthersStand(c) ==
    \A d \in Clients \ {c} :
       /\ request'[d] = request[d]
       /\ \A p \in Projects : lock[p] = d => lock'[p] = d

LEMMA LocksStand ==
    ASSUME RequestsAreSound, EdgeInv, TasksStand, NEW c \in Clients, OthersStand(c),
           NEW d \in Clients \ {c}
    PROVE  SoundEdge(d, request'[d], task', lock')
<1> DEFINE r == request[d]
<1>1. /\ request'[d] = r /\ SoundTask(r, task) /\ SoundEdge(d, r, task, lock)
      /\ \A p \in Projects : lock[p] = d => lock'[p] = d
  BY DEF OthersStand, RequestsAreSound, SoundRow, EdgeInv, LocksHold
<1>2. r.op = "AddDependency" => r.id \in Tasks /\ r.other \in Tasks
  BY <1>1 DEF SoundTask
<1> HIDE DEF r
<1>3. SoundEdge(d, r, task', lock')
  BY <1>1, <1>2 DEF SoundEdge, TasksStand, EdgeInv, TasksHaveProjects
<1> QED BY <1>1, <1>3

\* What a step has to keep, when client c makes it.
LEMMA EdgesStand ==
    ASSUME RequestsAreSound, EdgeInv, TasksStand, NEW c \in Clients, OthersStand(c),
           TasksHaveProjects', EdgesJoin', Acyclic(dependency'),
           SoundEdge(c, request'[c], task', lock'),
           Inserting(c)' => NoWay(dependency', request'[c].other, request'[c].id),
           \A d \in Clients \ {c} : Inserting(d) =>
              NoWay(dependency', request[d].other, request[d].id)
    PROVE  EdgeInv'
<1>1. LocksHold'
  BY LocksStand DEF LocksHold
<1>2. ASSUME NEW d \in Clients \ {c}, Inserting(d)'
      PROVE  NoWay(dependency', request'[d].other, request'[d].id)
  <2>1. request'[d] = request[d]
    BY DEF OthersStand
  <2> QED BY <1>2, <2>1 DEF Inserting
<1>3. ChecksHold'
  BY <1>2 DEF ChecksHold
<1> QED BY <1>1, <1>3 DEF EdgeInv

\* A step that leaves the dependencies alone.
LEMMA SameEdges ==
    ASSUME RequestsAreSound, EdgeInv, TasksStand, NEW c \in Clients, OthersStand(c),
           TasksHaveProjects', dependency' = dependency,
           SoundEdge(c, request'[c], task', lock'),
           Inserting(c)' => NoWay(dependency, request'[c].other, request'[c].id)
    PROVE  EdgeInv'
<1>1. EdgesJoin'
  BY DEF EdgesJoin, EdgeInv, TasksStand
<1>2. Acyclic(dependency') /\ \A d \in Clients \ {c} : Inserting(d) =>
              NoWay(dependency', request[d].other, request[d].id)
  BY DEF EdgeInv, ChecksHold
<1> QED BY <1>1, <1>2, EdgesStand

LEMMA SameTasksStand ==
    ASSUME EdgeInv, task' = task
    PROVE  TasksStand /\ TasksHaveProjects'
  BY DEF TasksStand, EdgeInv, TasksHaveProjects

\* The client starts or ends a request that is no insertion, or goes on with
\* another kind of request.
LEMMA OtherRequest ==
    ASSUME RequestsAreSound, EdgeInv, TasksStand, TasksHaveProjects', NEW c \in Clients,
           UNCHANGED <<dependency, lock>>,
           \A d \in Clients \ {c} : request'[d] = request[d],
           SoundEdge(c, request'[c], task', lock'), ~Inserting(c)'
    PROVE  EdgeInv'
<1>1. OthersStand(c)
  BY DEF OthersStand
<1> QED BY <1>1, SameEdges

LEMMA NotAdding ==
    ASSUME NEW c, NEW r, NEW T, NEW L, r.op # "AddDependency"
    PROVE  SoundEdge(c, r, T, L)
  BY DEF SoundEdge

LEMMA StartKeepsEdges ==
    ASSUME RequestsAreSound, EdgeInv, NEW c \in Clients, NEW r, Starts(c, r)
    PROVE  EdgeInv'
<1>1. /\ task' = task /\ UNCHANGED <<dependency, lock>>
      /\ \A d \in Clients \ {c} : request'[d] = request[d]
      /\ request'[c] = r
  BY DEF Starts, Begin, Free, rows, links, RequestsAreSound
<1>2. SoundEdge(c, request'[c], task', lock') /\ ~Inserting(c)'
  BY <1>1 DEF Starts, Inserting
<1> QED BY <1>1, <1>2, SameTasksStand, OtherRequest

LEMMA EndKeepsEdges ==
    ASSUME RequestsAreSound, EdgeInv, TasksStand, TasksHaveProjects', NEW c \in Clients,
           End(c), UNCHANGED <<dependency, lock>>
    PROVE  EdgeInv'
<1>1. /\ \A d \in Clients \ {c} : request'[d] = request[d]
      /\ request'[c] = Idle
  BY DEF End, RequestsAreSound
<1>2. Idle.op # "AddDependency"
  BY DEF Idle, Request, None
<1>3. SoundEdge(c, request'[c], task', lock') /\ ~Inserting(c)'
  BY <1>1, <1>2, NotAdding DEF Inserting
<1> QED BY <1>1, <1>3, OtherRequest

LEMMA CheckKeepsEdges ==
    ASSUME RequestsAreSound, EdgeInv, NEW c \in Clients, Checks(c)
    PROVE  EdgeInv'
<1>1. task' = task /\ UNCHANGED <<dependency, lock>> /\ QuietStep(c)
  BY ChecksAreQuiet DEF QuietStep, rows, links
<1>2. CASE End(c)
  BY <1>1, <1>2, SameTasksStand, EndKeepsEdges
<1>3. ASSUME NEW step \in Steps, GoOn(c, step) PROVE EdgeInv'
  <2>1. CASE End(c)
    BY <1>2, <2>1
  <2>2. CASE ~End(c)
    <3>1. request[c].op # "AddDependency"
      BY <2>2 DEF Checks, CheckOpenProjects, CheckOpenTasks, CheckDependencies, CheckChecklist,
         rejectGoalVersionOrMissing, rejectProjectVersionOrMissing,
         rejectTaskVersionOrMissing, At
    <3>2. /\ \A d \in Clients \ {c} : request'[d] = request[d]
          /\ request'[c].op = request[c].op
      BY <1>3 DEF GoOn, RequestsAreSound, RequestRecords
    <3>3. SoundEdge(c, request'[c], task', lock') /\ ~Inserting(c)'
      BY <3>1, <3>2, NotAdding DEF Inserting
    <3> QED BY <1>1, <3>2, <3>3, SameTasksStand, OtherRequest
  <2> QED BY <2>1, <2>2
<1> QED BY <1>1, <1>2, <1>3 DEF QuietStep

\* The writes of rows: a new task gets the project it was made for.
LEMMA WriteKeepsEdges ==
    ASSUME TypeOK, RequestsAreSound, EventsTellTheRows, EdgeInv, NEW c \in Clients,
           \/ insertGoal(c) \/ WriteGoal(c) \/ insertProject(c) \/ WriteProject(c)
           \/ insertTask(c) \/ WriteTask(c)
    PROVE  EdgeInv'
<1>1. End(c) /\ UNCHANGED <<dependency, lock>>
  BY DEF insertGoal, WriteGoal, insertProject, WriteProject, insertTask, WriteTask, links
<1>2. CASE task' = task
  BY <1>1, <1>2, SameTasksStand, EndKeepsEdges
<1>3. CASE insertTask(c) \/ WriteTask(c)
  <2>1. RowsGrow /\ TypeOK'
    BY <1>3, TaskWrites
  <2>2. \A t \in Tasks : task[t].version \in Nat /\ task'[t].version \in Nat
    BY <2>1 DEF TypeOK, TaskRows
  <2>3. TasksStand
    BY <2>1, <2>2 DEF TasksStand, RowsGrow, Grows
  <2>4. ASSUME NEW t \in Tasks, task'[t].version > 0 PROVE task'[t].project \in Projects
    <3>1. CASE task[t].version > 0
      BY <2>3, <3>1 DEF TasksStand, EdgeInv, TasksHaveProjects
    <3>2. CASE ~(task[t].version > 0) /\ insertTask(c)
      <4>1. request[c].other \in Projects
        BY <3>2 DEF insertTask, RequestsAreSound, SoundRow, SoundTask
      <4>2. task'[t] # task[t]
        BY <2>2, <2>4, <3>2
      <4> QED BY <3>2, <4>1, <4>2 DEF insertTask, TypeOK
    <3>3. CASE ~(task[t].version > 0) /\ WriteTask(c)
      <4>1. task[t].version = 0 /\ task'[t] # task[t]
        BY <2>2, <2>4, <3>3
      <4>2. request[c].id = t
        BY <3>3, <4>1 DEF WriteTask, TypeOK
      <4>3. Read(request[c], task[t]) /\ request[c] \in RequestRecords
        BY <3>3, <4>2 DEF WriteTask, RequestsAreSound, SoundRow, SoundTask, TaskChanges
      <4>4. /\ request[c].version \in Nat
            /\ request[c].version <= 1 /\ 1 < request[c].version
        BY <4>1, <4>3 DEF Read, RequestRecords
      <4> QED BY <4>4
    <3> QED BY <1>3, <3>1, <3>2, <3>3
  <2>5. TasksHaveProjects'
    BY <2>4 DEF TasksHaveProjects
  <2> QED BY <1>1, <2>3, <2>5, EndKeepsEdges
<1> QED BY <1>2, <1>3 DEF insertGoal, WriteGoal, insertProject, WriteProject

\* Unlocking leaves the locks of the others.
LEMMA UnlockLeavesOthers ==
    ASSUME RequestsAreSound, NEW c \in Clients, Unlock(c), End(c)
    PROVE  OthersStand(c) /\ SoundEdge(c, request'[c], task', lock') /\ ~Inserting(c)'
<1>1. OthersStand(c) /\ request'[c] = Idle
  BY DEF OthersStand, Unlock, End, RequestsAreSound
<1>2. Idle.op # "AddDependency"
  BY DEF Idle, Request, None
<1> QED BY <1>1, <1>2, NotAdding DEF Inserting

LEMMA LockKeepsEdges ==
    ASSUME TypeOK, RequestsAreSound, EdgeInv, NEW c \in Clients, LockProject(c)
    PROVE  EdgeInv'
<1> DEFINE r == request[c]
           p == task[r.id].project
<1>1. task' = task /\ dependency' = dependency
  BY DEF LockProject, rows
<1>2. CASE End(c) /\ UNCHANGED lock
  BY <1>1, <1>2, SameTasksStand, EndKeepsEdges
<1>3. CASE /\ sharedProject(r.id, r.other) /\ lock[p] = None
           /\ lock' = [lock EXCEPT ![p] = c] /\ GoOn(c, "cycle")
  <2>1. /\ r \in RequestRecords /\ r.op = "AddDependency" /\ r.id \in Tasks /\ r.other \in Tasks
        /\ SoundEdge(c, r, task, lock)
    BY DEF LockProject, At, RequestsAreSound, SoundRow, SoundTask, EdgeInv, LocksHold
  <2>2. p \in Projects /\ task[r.id].version > 0 /\ r.id # r.other
    BY <2>1 DEF SoundEdge, EdgeInv, TasksHaveProjects
  <2>3. OthersStand(c)
    BY <1>3, <2>2, ClientsAssumption DEF OthersStand, GoOn, RequestsAreSound, TypeOK
  <2>4. /\ request'[c].op = r.op /\ request'[c].id = r.id /\ request'[c].other = r.other
        /\ request'[c].step = "cycle"
    BY <1>3, <2>1 DEF GoOn, RequestsAreSound, RequestRecords
  <2>5. lock'[p] = c /\ task[r.other].version > 0 /\ task[r.other].project = p
    BY <1>3, <2>2 DEF sharedProject, TypeOK
  <2> HIDE DEF r
  <2>6. SoundEdge(c, request'[c], task', lock') /\ ~Inserting(c)'
    BY <1>1, <2>1, <2>2, <2>4, <2>5 DEF SoundEdge, Inserting
  <2> QED BY <1>1, <2>3, <2>6, SameTasksStand, SameEdges
<1> QED BY <1>2, <1>3 DEF LockProject

LEMMA CycleCheckKeepsEdges ==
    ASSUME TypeOK, RequestsAreSound, EdgeInv, NEW c \in Clients, CheckCycle(c)
    PROVE  EdgeInv'
<1> DEFINE r == request[c]
<1>1. task' = task /\ dependency' = dependency
  BY DEF CheckCycle, rows
<1>2. /\ r \in RequestRecords /\ r.op = "AddDependency" /\ r.id \in Tasks /\ r.other \in Tasks
      /\ SoundEdge(c, r, task, lock) /\ r.step = "cycle"
  BY DEF CheckCycle, At, RequestsAreSound, SoundRow, SoundTask, EdgeInv, LocksHold
<1>3. CASE End(c) /\ Unlock(c)
  BY <1>1, <1>3, SameTasksStand, UnlockLeavesOthers, SameEdges
<1>4. CASE ~dependencyCycleExists(r.other, r.id) /\ GoOn(c, "insert") /\ UNCHANGED lock
  <2>1. /\ request'[c].op = r.op /\ request'[c].id = r.id /\ request'[c].other = r.other
        /\ request'[c].step = "insert"
    BY <1>2, <1>4 DEF GoOn, RequestsAreSound, RequestRecords
  <2>2. OthersStand(c)
    BY <1>4 DEF OthersStand, GoOn, RequestsAreSound
  <2>3. NoWay(dependency, request'[c].other, request'[c].id)
    BY <1>2, <1>4, <2>1, CycleCheck
  <2> HIDE DEF r
  <2>4. SoundEdge(c, request'[c], task', lock')
    BY <1>1, <1>2, <1>4, <2>1 DEF SoundEdge
  <2> QED BY <1>1, <2>2, <2>3, <2>4, SameTasksStand, SameEdges
<1> QED BY <1>3, <1>4 DEF CheckCycle

\* The insertion: the tasks of its project are not those of any other
\* insertion that has been checked, since each holds the project's lock.
LEMMA InsertKeepsEdges ==
    ASSUME TypeOK, RequestsAreSound, EdgeInv, NEW c \in Clients, AddDependency(c)
    PROVE  EdgeInv'
<1> DEFINE r == request[c]
           t2 == r.id
           q2 == r.other
<1>1. /\ task' = task /\ dependency' = dependency \cup {<<t2, q2>>}
      /\ End(c) /\ Unlock(c) /\ Inserting(c)
  BY DEF AddDependency, rows, At, Inserting
<1>2. /\ t2 \in Tasks /\ q2 \in Tasks /\ t2 # q2
      /\ task[t2].version > 0 /\ task[q2].version > 0
      /\ task[q2].project = task[t2].project
      /\ lock[task[t2].project] = c
      /\ NoWay(dependency, q2, t2)
  BY <1>1 DEF Inserting, RequestsAreSound, SoundRow, SoundTask, EdgeInv, LocksHold,
     SoundEdge, ChecksHold
<1> HIDE DEF t2, q2
<1>3. Acyclic(dependency')
  BY <1>1, <1>2, InsertKeepsAcyclic DEF EdgeInv
<1>4. EdgesJoin'
  BY <1>1, <1>2 DEF EdgesJoin, EdgeInv
<1>5. ASSUME NEW d \in Clients \ {c}, Inserting(d)
      PROVE  NoWay(dependency', request[d].other, request[d].id)
  <2> DEFINE q == request[d].other
             t == request[d].id
             p == task[t].project
             W == {x \in Tasks : task[x].version > 0 /\ task[x].project = p}
  <2>1. /\ t \in Tasks /\ q \in Tasks /\ NoWay(dependency, q, t)
        /\ task[q].version > 0 /\ task[q].project = p /\ lock[p] = d
    BY <1>5 DEF Inserting, RequestsAreSound, SoundRow, SoundTask, EdgeInv, LocksHold,
       SoundEdge, ChecksHold
  <2> HIDE DEF q, t, p
  <2>2. q \in W /\ W \in SUBSET Tasks /\ t2 \in Tasks \ W
    BY <1>2, <2>1
  <2>3. \A x \in W : \A y \in Tasks : <<x, y>> \in dependency => y \in W
    BY DEF EdgeInv, EdgesJoin
  <2> HIDE DEF W
  <2>4. NoWay(dependency \cup {<<t2, q2>>}, q, t)
    BY <1>2, <2>1, <2>2, <2>3, ElsewhereKeepsNoWay
  <2> QED BY <1>1, <2>4 DEF q, t
<1> QED BY <1>1, <1>3, <1>4, <1>5, SameTasksStand, UnlockLeavesOthers, EdgesStand

LEMMA RemoveKeepsEdges ==
    ASSUME TypeOK, RequestsAreSound, EdgeInv, NEW c \in Clients, RemoveDependency(c)
    PROVE  EdgeInv'
<1>1. task' = task /\ lock' = lock /\ dependency' \subseteq dependency /\ End(c)
  BY DEF RemoveDependency, rows
<1>2. Acyclic(dependency') /\ EdgesJoin'
  BY <1>1, RemoveKeepsAcyclic DEF EdgeInv, EdgesJoin
<1>3. ASSUME NEW d \in Clients \ {c}, Inserting(d)
      PROVE  NoWay(dependency', request[d].other, request[d].id)
  <2>1. /\ request[d].other \in Tasks /\ request[d].id \in Tasks
        /\ NoWay(dependency, request[d].other, request[d].id)
    BY <1>3 DEF Inserting, RequestsAreSound, SoundRow, SoundTask, EdgeInv, ChecksHold
  <2> QED BY <1>1, <2>1, RemoveKeepsAcyclic
<1>4. /\ OthersStand(c) /\ request'[c] = Idle
  BY <1>1 DEF OthersStand, End, RequestsAreSound
<1>5. Idle.op # "AddDependency"
  BY DEF Idle, Request, None
<1>6. SoundEdge(c, request'[c], task', lock') /\ ~Inserting(c)'
  BY <1>4, <1>5, NotAdding DEF Inserting
<1> QED BY <1>1, <1>2, <1>3, <1>4, <1>6, SameTasksStand, EdgesStand

LEMMA AbortKeepsEdges ==
    ASSUME RequestsAreSound, EdgeInv, NEW c \in Clients, Abort(c)
    PROVE  EdgeInv'
<1>1. task' = task /\ dependency' = dependency /\ End(c) /\ Unlock(c)
  BY DEF Abort, rows
<1> QED BY <1>1, SameTasksStand, UnlockLeavesOthers, SameEdges

LEMMA DetailsKeepEdges ==
    ASSUME DetailsTypeOK, RequestsAreSound, EdgeInv, NEW c \in Clients,
           DetailsRequest(c) \/ DetailsStep(c)
    PROVE  EdgeInv'
<1>1. CASE \E r \in RequestRecords : Starts(c, r)
  BY <1>1, StartKeepsEdges
<1>2. CASE UNCHANGED <<work, request>>
  <2>1. task' = task /\ UNCHANGED <<dependency, lock, request>>
    BY <1>2 DEF work, rows, links
  <2> QED BY <2>1 DEF EdgeInv, TasksHaveProjects, EdgesJoin, LocksHold, ChecksHold, Inserting
<1>3. CASE DetailsStep(c)
  <2>1. UNCHANGED work /\ End(c)
    BY <1>3 DEF DetailsStep, deleteAssignment, updateCommentRow, deleteCommentRow,
       rejectCommentVersionOrMissing, deleteArtifactRow, deleteScheduleRow
  <2>2. task' = task /\ UNCHANGED <<dependency, lock>>
    BY <2>1 DEF work, rows, links
  <2> QED BY <2>1, <2>2, SameTasksStand, EndKeepsEdges
<1> QED BY <1>1, <1>2, <1>3, DetailsRequestStarts DEF AtOnceOnly

LEMMA NextEdges == RowsInv /\ EdgeInv /\ [DetailsNext]_allVars => EdgeInv'
<1> SUFFICES ASSUME RowsInv, EdgeInv, [DetailsNext]_allVars PROVE EdgeInv'
  OBVIOUS
<1>0. DetailsTypeOK /\ TypeOK /\ RequestsAreSound /\ EventsTellTheRows
  BY DEF RowsInv, DetailsTypeOK
<1>1. ASSUME NEW c \in Clients,
             GoalRequest(c) \/ ProjectRequest(c) \/ TaskRequest(c) \/ ItemRequest(c)
      PROVE  EdgeInv'
  <2>1. \E r \in RequestRecords : Starts(c, r)
    BY <1>0, <1>1, GoalRequestStarts, ProjectRequestStarts, TaskRequestStarts,
       ItemRequestStarts
  <2> QED BY <1>0, <2>1, StartKeepsEdges
<1>2. ASSUME NEW c \in Clients, GoalStep(c) \/ ProjectStep(c) \/ TaskStep(c)
      PROVE  EdgeInv'
  <2>1. \/ Checks(c)
        \/ insertGoal(c) \/ WriteGoal(c) \/ insertProject(c) \/ WriteProject(c)
        \/ insertTask(c) \/ WriteTask(c)
    BY <1>2 DEF GoalStep, ProjectStep, TaskStep, Checks
  <2> QED BY <1>0, <2>1, CheckKeepsEdges, WriteKeepsEdges
<1>3. ASSUME NEW c \in Clients, DependencyStep(c) \/ Abort(c) PROVE EdgeInv'
  BY <1>0, <1>3, LockKeepsEdges, CycleCheckKeepsEdges, InsertKeepsEdges, RemoveKeepsEdges,
     AbortKeepsEdges DEF DependencyStep
<1>4. ASSUME NEW c \in Clients, ItemStep(c) PROVE EdgeInv'
  <2>1. task' = task /\ UNCHANGED <<dependency, lock>> /\ End(c)
    BY <1>4 DEF ItemStep, insertChecklistItem, WriteChecklistItem, RemoveChecklistItem, rows
  <2> QED BY <1>0, <2>1, SameTasksStand, EndKeepsEdges
<1>5. CASE UNCHANGED allVars
  <2>1. task' = task /\ UNCHANGED <<dependency, lock, request>>
    BY <1>5 DEF allVars, vars, rows, links
  <2> QED BY <2>1 DEF EdgeInv, TasksHaveProjects, EdgesJoin, LocksHold, ChecksHold, Inserting
<1>6. CASE Next
  <2>1. PICK c \in Clients :
          \/ GoalRequest(c) \/ GoalStep(c)
          \/ ProjectRequest(c) \/ ProjectStep(c)
          \/ TaskRequest(c) \/ TaskStep(c) \/ DependencyStep(c)
          \/ ItemRequest(c) \/ ItemStep(c)
          \/ Abort(c)
    BY <1>6 DEF Next
  <2> QED BY <1>1, <1>2, <1>3, <1>4, <2>1
<1>7. CASE \E c \in Clients : DetailsRequest(c) \/ DetailsStep(c)
  BY <1>0, <1>7, DetailsKeepEdges
<1> QED BY <1>5, <1>6, <1>7 DEF DetailsNext

LEMMA InitEdges == DetailsInit => EdgeInv
<1> SUFFICES ASSUME DetailsInit PROVE EdgeInv
  OBVIOUS
<1>1. TasksHaveProjects
  BY DEF DetailsInit, Init, TasksHaveProjects
<1>2. EdgesJoin /\ Acyclic(dependency)
  <2>1. dependency = {}
    BY DEF DetailsInit, Init
  <2>2. EdgesJoin
    BY <2>1 DEF EdgesJoin
  <2>3. ASSUME NEW S \in (SUBSET Tasks) \ {{}}
        PROVE  \E t \in S : \A y \in S : <<t, y>> \notin dependency
    <3>1. \E t : t \in S
      BY <2>3
    <3> QED BY <2>1, <3>1
  <2> QED BY <2>2, <2>3 DEF Acyclic
<1>3. \A c \in Clients : request[c] = Idle
  BY DEF DetailsInit, Init
<1>4. Idle.op # "AddDependency"
  BY DEF Idle, Request, None
<1>5. LocksHold /\ ChecksHold
  BY <1>3, <1>4, NotAdding DEF LocksHold, ChecksHold, Inserting
<1> QED BY <1>1, <1>2, <1>5 DEF EdgeInv

(* Tasks never come to depend on themselves, over any number of tasks and  *)
(* of requests that add dependencies at the same time: each of them checks *)
(* and inserts under the lock of the project of both tasks, and a          *)
(* dependency never leaves its project (dependency.go, AddDependency).     *)
THEOREM TasksNeverWaitForThemselves == DetailsSpec => []DependenciesAreAcyclic
<1>1. RowsInv /\ EdgeInv /\ [DetailsNext]_allVars => EdgeInv'
  BY NextEdges
<1>2. EdgeInv => DependenciesAreAcyclic
  BY AcyclicDependencies DEF EdgeInv
<1> QED BY <1>1, <1>2, InitEdges, RowsInvariant, PTL DEF DetailsSpec
=============================================================================
