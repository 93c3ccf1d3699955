---- MODULE TaskDetails ----
(***************************************************************************)
(* What hangs on a task: assignments, comments, artifacts and a schedule.  *)
(* A change of something that exists reads it in one transaction and       *)
(* writes in another, like the requests of module Work, with which these   *)
(* requests are interleaved.  Tasks are never deleted, so a task that was  *)
(* found is there for the rest of the request.  Events of these changes    *)
(* carry no aggregate version and are left out, as are texts and files.    *)
(***************************************************************************)
EXTENDS Work

CONSTANTS
    Users, Agents,   \* who may be assigned to a task and write comments
    Moderators,      \* users that hold TASK_COMMENT_MODERATE
    Assignments,     \* assignment ids
    Comments,        \* comment ids
    Artifacts,       \* artifact ids
    ObjectKeys       \* keys of stored objects

ASSUME UsersAssumption == Moderators \subseteq Users /\ Users \cap Agents = {}

VARIABLES
    assignment,      \* work_task_assignments
    comment,         \* work_comments
    artifact,        \* work_artifacts
    schedule         \* work_task_schedules: version, 0 when there is none

work == <<rows, links, events>>
details == <<assignment, comment, artifact, schedule>>
allVars == <<vars, details>>

Roles == {"primary", "collaborator", "reviewer"}
AssignmentRows == [task : Tasks \cup {None}, assignee : Users \cup Agents \cup {None},
                   role : Roles \cup {None}]
CommentRows == [task : Tasks \cup {None}, author : Users \cup Agents \cup {None},
                body : Nat, version : Nat, deleted : BOOLEAN]
ArtifactRows == [task : Tasks \cup {None}, key : ObjectKeys \cup {None}, deleted : BOOLEAN]

NoAssignment == [task |-> None, assignee |-> None, role |-> None]
NoComment == [task |-> None, author |-> None, body |-> 0, version |-> 0, deleted |-> FALSE]
NoArtifact == [task |-> None, key |-> None, deleted |-> FALSE]

DetailsTypeOK ==
    /\ TypeOK
    /\ assignment \in [Assignments -> AssignmentRows]
    /\ comment \in [Comments -> CommentRows]
    /\ artifact \in [Artifacts -> ArtifactRows]
    /\ schedule \in [Tasks -> Nat]

DetailsInit ==
    /\ Init
    /\ assignment = [a \in Assignments |-> NoAssignment]
    /\ comment = [m \in Comments |-> NoComment]
    /\ artifact = [f \in Artifacts |-> NoArtifact]
    /\ schedule = [t \in Tasks |-> 0]

\* A request of one transaction.
AtOnce(c) ==
    /\ request[c] = Idle
    /\ left > 0
    /\ left' = left - 1
    /\ UNCHANGED request

taskExists(t) == task[t].version > 0

-----------------------------------------------------------------------------
(* Assignments. *)

\* The unique indexes: an assignee once per task, one primary per task.
AssignmentFits(t, who, role) ==
    \A a \in Assignments : assignment[a].task = t =>
        /\ assignment[a].assignee # who
        /\ ~ (role = "primary" /\ assignment[a].role = "primary")

insertAssignment(a, t, who, role) ==
    /\ taskExists(t)
    /\ AssignmentFits(t, who, role)
    /\ assignment' = [assignment EXCEPT ![a] = [task |-> t, assignee |-> who, role |-> role]]

AssignTask(c, a, t, who, role) ==
    /\ assignment[a] = NoAssignment
    /\ insertAssignment(a, t, who, role)
    /\ AtOnce(c)
    /\ UNCHANGED <<work, comment, artifact, schedule>>

UnassignTask(c, a) ==
    /\ assignment[a] # NoAssignment
    /\ Begin(c, Touch("Unassign", None, a, None, 0))
    /\ UNCHANGED <<work, details>>

\* Deleting an assignment that is gone already is an error without effect.
deleteAssignment(c) ==
    /\ request[c].op = "Unassign"
    /\ assignment' = [assignment EXCEPT ![request[c].id] = NoAssignment]
    /\ End(c)
    /\ UNCHANGED <<work, comment, artifact, schedule>>

-----------------------------------------------------------------------------
(* Comments. *)

insertComment(m, t, author) ==
    /\ taskExists(t)
    /\ comment' = [comment EXCEPT ![m] = [task |-> t, author |-> author, body |-> 1,
                                          version |-> 1, deleted |-> FALSE]]

\* A user writes in the own name, or in the name of an agent.
AddComment(c, m, t, actor, author) ==
    /\ comment[m] = NoComment
    /\ author \in {actor} \cup Agents
    /\ insertComment(m, t, author)
    /\ AtOnce(c)
    /\ UNCHANGED <<work, assignment, artifact, schedule>>

authorizeCommentMutation(actor, m) ==
    comment[m].author = actor \/ actor \in Moderators

\* Deleted comments are found, too.
UpdateComment(c, m, actor, expected) ==
    /\ comment[m] # NoComment
    /\ authorizeCommentMutation(actor, m)
    /\ Begin(c, Touch("UpdateComment", None, m, None, expected))
    /\ UNCHANGED <<work, details>>

DeleteComment(c, m, actor, expected) ==
    /\ comment[m] # NoComment
    /\ authorizeCommentMutation(actor, m)
    /\ Begin(c, Touch("DeleteComment", None, m, None, expected))
    /\ UNCHANGED <<work, details>>

\* Mutant: the update forgets AND deleted_at IS NULL.
MayBeDeleted(c) == VersionMatches(c, comment[request[c].id])

\* WHERE version = expected AND deleted_at IS NULL.
CommentMatches(c) ==
    LET m == request[c].id IN VersionMatches(c, comment[m]) /\ ~ comment[m].deleted

updateCommentRow(c) ==
    LET m == request[c].id IN
    /\ request[c].op = "UpdateComment" /\ CommentMatches(c)
    /\ comment' = [comment EXCEPT ![m].version = @ + 1, ![m].body = comment[m].version + 1]
    /\ End(c)
    /\ UNCHANGED <<work, assignment, artifact, schedule>>

deleteCommentRow(c) ==
    LET m == request[c].id IN
    /\ request[c].op = "DeleteComment" /\ CommentMatches(c)
    /\ comment' = [comment EXCEPT ![m].version = @ + 1, ![m].deleted = TRUE]
    /\ End(c)
    /\ UNCHANGED <<work, assignment, artifact, schedule>>

rejectCommentVersionOrMissing(c) ==
    /\ request[c].op \in {"UpdateComment", "DeleteComment"} /\ ~ CommentMatches(c)
    /\ End(c)
    /\ UNCHANGED <<work, details>>

-----------------------------------------------------------------------------
(* Artifacts: a key is used once, by deleted artifacts, too. *)

insertArtifact(f, t, key) ==
    /\ taskExists(t)
    /\ \A other \in Artifacts : artifact[other].key # key
    /\ artifact' = [artifact EXCEPT ![f] = [task |-> t, key |-> key, deleted |-> FALSE]]

AddArtifact(c, f, t, key) ==
    /\ artifact[f] = NoArtifact
    /\ insertArtifact(f, t, key)
    /\ AtOnce(c)
    /\ UNCHANGED <<work, assignment, comment, schedule>>

DeleteArtifact(c, f) ==
    /\ artifact[f] # NoArtifact
    /\ Begin(c, Touch("DeleteArtifact", None, f, None, 0))
    /\ UNCHANGED <<work, details>>

deleteArtifactRow(c) ==
    /\ request[c].op = "DeleteArtifact"
    /\ artifact' = [artifact EXCEPT ![request[c].id].deleted = TRUE]
    /\ End(c)
    /\ UNCHANGED <<work, assignment, comment, schedule>>

-----------------------------------------------------------------------------
(* Schedules.  The answer and the event of an upsert say version 1. *)

upsertScheduleRow(t) == schedule' = [schedule EXCEPT ![t] = @ + 1]

UpsertTaskSchedule(c, t) ==
    /\ taskExists(t)
    /\ upsertScheduleRow(t)
    /\ AtOnce(c)
    /\ UNCHANGED <<work, assignment, comment, artifact>>

DeleteTaskSchedule(c, t) ==
    /\ schedule[t] > 0
    /\ Begin(c, Touch("DeleteSchedule", None, t, None, 0))
    /\ UNCHANGED <<work, details>>

deleteScheduleRow(c) ==
    /\ request[c].op = "DeleteSchedule"
    /\ schedule' = [schedule EXCEPT ![request[c].id] = 0]
    /\ End(c)
    /\ UNCHANGED <<work, assignment, comment, artifact>>

-----------------------------------------------------------------------------

DetailsRequest(c) ==
    /\ Free(c)
    /\ \/ \E a \in Assignments :
           \/ \E t \in Tasks, who \in Users \cup Agents, role \in Roles :
               AssignTask(c, a, t, who, role)
           \/ UnassignTask(c, a)
       \/ \E m \in Comments, actor \in Users :
           \/ \E t \in Tasks, author \in Users \cup Agents : AddComment(c, m, t, actor, author)
           \/ \E expected \in Versions :
               UpdateComment(c, m, actor, expected) \/ DeleteComment(c, m, actor, expected)
       \/ \E f \in Artifacts :
           \/ \E t \in Tasks, key \in ObjectKeys : AddArtifact(c, f, t, key)
           \/ DeleteArtifact(c, f)
       \/ \E t \in Tasks : UpsertTaskSchedule(c, t) \/ DeleteTaskSchedule(c, t)

DetailsStep(c) ==
    \/ deleteAssignment(c)
    \/ updateCommentRow(c) \/ deleteCommentRow(c) \/ rejectCommentVersionOrMissing(c)
    \/ deleteArtifactRow(c)
    \/ deleteScheduleRow(c)

DetailsNext ==
    \/ Next /\ UNCHANGED details
    \/ \E c \in Clients : DetailsRequest(c) \/ DetailsStep(c)

DetailsSpec == DetailsInit /\ [][DetailsNext]_allVars

-----------------------------------------------------------------------------

\* A deleted comment or artifact stays as it was deleted, with the edits of
\* it that were under way, or that name the version it was deleted with
\* (comment.go, UpdateComment and DeleteComment).
DeletedIsFinal ==
    [][ /\ \A m \in Comments : comment[m].deleted => comment'[m] = comment[m]
        /\ \A f \in Artifacts : artifact[f].deleted => artifact'[f] = artifact[f] ]_allVars
====
