----------------------------- MODULE Projection -----------------------------
(***************************************************************************)
(* The projection service: a Kafka consumer group (platform/go/events/     *)
(* kafka) whose handler writes the tenant read models in one database      *)
(* transaction per record.  Its input is the at-least-once channel of      *)
(* EventLog, so records arrive duplicated and in any order.                *)
(*                                                                         *)
(* The database and the consumer group fail separately: a consumer may die *)
(* or lose the partition between the transaction and the offset commit, a  *)
(* commit may be lost or take effect without an answer, and the database   *)
(* may be restored from a backup that is older than the committed offset.  *)
(***************************************************************************)
EXTENDS EventLog

CONSTANTS
    Consumers,    \* replicas of the projection worker
    NoConsumer,   \* nobody owns the partition
    Aggregates,   \* identifiers of the projected entities and relations
    Meta,         \* Meta[e]: the envelope of fact e
    Histories,    \* the facts that the sources commit, in one case or another
    MaxRestores   \* bound: database restores

TenantKinds == {"tenant_context", "tenant"}
HideableKinds == {"company", "agent", "agent_deleted"}
SearchedKinds == HideableKinds \cup {"goal", "project", "task"}
EntityKinds == TenantKinds \cup SearchedKinds
AddedKinds == {"dependency_added", "assigned"}
RemovedKinds == {"dependency_removed", "unassigned"}
ActivityKinds == {"comment", "artifact_added", "activity_only"}
Kinds == EntityKinds \cup AddedKinds \cup RemovedKinds \cup ActivityKinds
           \cup {"unknown", "malformed"}

\* ver: aggregate_version; gone: the entity is archived or deleted in this
\* version; at: occurred_at, which is the order of the source's commits.
Envelopes == [kind : Kinds, agg : Aggregates, ver : Nat, gone : BOOLEAN, at : Nat]

ASSUME ProjectionAssumption ==
    /\ Meta \in [Events -> Envelopes]
    /\ \A e \in Events :
         /\ Meta[e].ver > 0
         /\ Meta[e].gone => Meta[e].kind \in HideableKinds
         /\ Meta[e].kind = "agent_deleted" => Meta[e].gone
    /\ Histories \subseteq SUBSET Events
    /\ NoConsumer \notin Consumers
    /\ MaxRestores \in Nat

\* What is a tenant's identifier identifies no other entity.
ASSUME IdentifierAssumption ==
    \A e, f \in Events :
       Meta[e].agg = Meta[f].agg /\ Meta[e].kind \in TenantKinds
         => Meta[f].kind \notin SearchedKinds

VARIABLES
    db,           \* projection_db
    backup,       \* the last backup of projection_db
    restores,     \* database restores so far
    groupOffset,  \* the offset the consumer group resumes from
    owner,        \* the group member the partition is assigned to
    pc,           \* pc[c]: where consumer c is in Consumer.Run
    pos,          \* pos[c]: the offset c works on next
    upto          \* upto[c]: the last offset of the records c polled

readVars == <<db, backup, restores, groupOffset>>
groupVars == <<owner, pc, pos, upto>>
vars == <<committed, log, readVars, groupVars>>

Versioned == [ver : Nat, gone : BOOLEAN]

(* inbox: projection_consumed_events; row: the six entity tables; doc:     *)
(* projection_search_documents; link: the two relation tables.             *)
Databases == [inbox : SUBSET Events, row : [Aggregates -> Versioned],
              doc : [Aggregates -> Versioned], link : SUBSET Aggregates,
              activity : SUBSET Events, watermark : Nat, checkpoint : Nat]

Absent == [ver |-> 0, gone |-> FALSE]

EmptyDb ==
    [inbox |-> {}, row |-> [a \in Aggregates |-> Absent],
     doc |-> [a \in Aggregates |-> Absent], link |-> {},
     activity |-> {}, watermark |-> 0, checkpoint |-> 0]

\* The order in which the source services committed the facts.
Before(e, f) == Meta[e].at < Meta[f].at

Init ==
    /\ LogInit
    /\ db = EmptyDb
    /\ backup = EmptyDb
    /\ restores = 0
    /\ groupOffset = 1
    /\ owner = NoConsumer
    /\ pc = [c \in Consumers |-> "down"]
    /\ pos = [c \in Consumers |-> 1]
    /\ upto = [c \in Consumers |-> 0]

-----------------------------------------------------------------------------
(* The apply functions of the decoders: one database after another.        *)

Snapshot(e) == [ver |-> Meta[e].ver, gone |-> Meta[e].gone]

\* Mutant: an upsert without the version guard.
UpsertRowUnguarded(d, e) == [d EXCEPT !.row[Meta[e].agg] = Snapshot(e)]

\* ON CONFLICT DO UPDATE ... WHERE source_version < EXCLUDED.source_version
UpsertRow(d, e) ==
    IF d.row[Meta[e].agg].ver < Meta[e].ver
      THEN [d EXCEPT !.row[Meta[e].agg] = Snapshot(e)]
      ELSE d

\* ... WHERE deleted OR source_version < EXCLUDED.source_version
UpsertSearchDocument(d, e) ==
    IF d.doc[Meta[e].agg].gone \/ d.doc[Meta[e].agg].ver < Meta[e].ver
      THEN [d EXCEPT !.doc[Meta[e].agg] = Snapshot(e)]
      ELSE d

UpsertDependency(d, e) == [d EXCEPT !.link = @ \cup {Meta[e].agg}]

DeleteDependency(d, e) == [d EXCEPT !.link = @ \ {Meta[e].agg}]

UpsertAssignment(d, e) == [d EXCEPT !.link = @ \cup {Meta[e].agg}]

DeleteAssignment(d, e) == [d EXCEPT !.link = @ \ {Meta[e].agg}]

\* The primary key is the event: ON CONFLICT DO NOTHING.
AppendActivity(d, e) == [d EXCEPT !.activity = @ \cup {e}]

UpsertTenant(d, e) == UpsertRow(d, e)
UpsertCompany(d, e) == UpsertRow(d, e)
UpsertAgent(d, e) == UpsertRow(d, e)
UpsertGoal(d, e) == UpsertRow(d, e)
UpsertProject(d, e) == UpsertRow(d, e)
UpsertTask(d, e) == UpsertRow(d, e)

decodeTenantContextEvent(d, e) == UpsertTenant(d, e)

decodeTenantEvent(d, e) == UpsertTenant(d, e)

decodeCompanyEvent(d, e) == UpsertSearchDocument(UpsertCompany(d, e), e)

decodeAgentEvent(d, e) == UpsertSearchDocument(UpsertAgent(d, e), e)

decodeAgentDeletedEvent(d, e) == UpsertSearchDocument(UpsertAgent(d, e), e)

decodeGoalEvent(d, e) == UpsertSearchDocument(UpsertGoal(d, e), e)

decodeProjectEvent(d, e) == UpsertSearchDocument(UpsertProject(d, e), e)

decodeTaskEvent(d, e) ==
    AppendActivity(UpsertSearchDocument(UpsertTask(d, e), e), e)

decodeDependencyAddedEvent(d, e) == AppendActivity(UpsertDependency(d, e), e)

decodeDependencyRemovedEvent(d, e) == AppendActivity(DeleteDependency(d, e), e)

decodeAssignedEvent(d, e) == AppendActivity(UpsertAssignment(d, e), e)

decodeUnassignedEvent(d, e) == AppendActivity(DeleteAssignment(d, e), e)

decodeCommentEvent(d, e) == AppendActivity(d, e)

decodeArtifactAddedEvent(d, e) == AppendActivity(d, e)

decodeActivityOnlyEvent(d, e) == AppendActivity(d, e)

decodeEvent(d, e) ==
    LET kind == Meta[e].kind IN
    CASE kind = "tenant_context"     -> decodeTenantContextEvent(d, e)
      [] kind = "tenant"             -> decodeTenantEvent(d, e)
      [] kind = "company"            -> decodeCompanyEvent(d, e)
      [] kind = "agent"              -> decodeAgentEvent(d, e)
      [] kind = "agent_deleted"      -> decodeAgentDeletedEvent(d, e)
      [] kind = "goal"               -> decodeGoalEvent(d, e)
      [] kind = "project"            -> decodeProjectEvent(d, e)
      [] kind = "task"               -> decodeTaskEvent(d, e)
      [] kind = "dependency_added"   -> decodeDependencyAddedEvent(d, e)
      [] kind = "dependency_removed" -> decodeDependencyRemovedEvent(d, e)
      [] kind = "assigned"           -> decodeAssignedEvent(d, e)
      [] kind = "unassigned"         -> decodeUnassignedEvent(d, e)
      [] kind = "comment"            -> decodeCommentEvent(d, e)
      [] kind = "artifact_added"     -> decodeArtifactAddedEvent(d, e)
      [] OTHER                       -> decodeActivityOnlyEvent(d, e)

updateWatermark(d, e) ==
    [d EXCEPT !.watermark = IF @ < Meta[e].at THEN Meta[e].at ELSE @]

updateCheckpoint(d, offset) ==
    [d EXCEPT !.checkpoint = IF @ < offset THEN offset ELSE @]

\* Mutant: the inbox is written and never asked.
ApplyEventAgain(d, e, offset) ==
    updateCheckpoint(
      updateWatermark(decodeEvent([d EXCEPT !.inbox = @ \cup {e}], e), e), offset)

\* One transaction: a fact already in the inbox only moves the checkpoint.
\* All records of a fact are copies of one outbox row, so that the hash kept in
\* the inbox is that of the record (ErrEventIdentityConflict does not occur).
ApplyEvent(d, e, offset) ==
    IF e \in d.inbox
      THEN updateCheckpoint(d, offset)
      ELSE updateCheckpoint(
             updateWatermark(
               decodeEvent([d EXCEPT !.inbox = @ \cup {e}], e), e), offset)

-----------------------------------------------------------------------------
(* The consumer.                                                           *)

\* Run returned or the process died, with what it had polled; the group drops
\* the member.
Stop(c) ==
    /\ pc' = [pc EXCEPT ![c] = "down"]
    /\ owner' = IF owner = c THEN NoConsumer ELSE owner
    /\ pos' = [pos EXCEPT ![c] = 1]
    /\ upto' = [upto EXCEPT ![c] = 0]

Restart(c) ==
    /\ pc[c] = "down"
    /\ pc' = [pc EXCEPT ![c] = "idle"]
    /\ UNCHANGED <<committed, log, readVars, owner, pos, upto>>

\* Mutant: a member starts at the end of the log, not at the group's offset.
AssignAtEnd(c) ==
    /\ pc[c] = "idle"
    /\ owner # c
    /\ owner' = c
    /\ pos' = [pos EXCEPT ![c] = Len(log) + 1]
    /\ UNCHANGED <<committed, log, readVars, pc, upto>>

\* The broker gives the partition to a member between two of its polls.  A
\* member that had it keeps the records it polled, without knowing.
Assign(c) ==
    /\ pc[c] = "idle"
    /\ owner # c
    /\ owner' = c
    /\ pos' = [pos EXCEPT ![c] = groupOffset]
    /\ UNCHANGED <<committed, log, readVars, pc, upto>>

PollRecords(c) ==
    /\ pc[c] = "idle"
    /\ owner = c
    /\ \E n \in pos[c] .. Len(log) : upto' = [upto EXCEPT ![c] = n]
    /\ pc' = [pc EXCEPT ![c] = "handle"]
    /\ UNCHANGED <<committed, log, readVars, owner, pos>>

\* worker.handle: an unknown event returns before the transaction.
Handle(c) ==
    /\ pc[c] = "handle"
    /\ LET e == log[pos[c]] IN
         /\ Meta[e].kind # "malformed"
         /\ db' = IF Meta[e].kind = "unknown" THEN db
                                              ELSE ApplyEvent(db, e, pos[c])
    /\ pc' = [pc EXCEPT ![c] = "commit"]
    /\ UNCHANGED <<committed, log, backup, restores, groupOffset, owner, pos, upto>>

\* Mutant: the error of the handler is logged and the record is committed.
HandleFailedCommits(c) ==
    /\ pc[c] = "handle"
    /\ pc' = [pc EXCEPT ![c] = "commit"]
    /\ UNCHANGED <<committed, log, readVars, owner, pos, upto>>

\* A record that cannot be decoded or names another tenant, or a database
\* error: nothing is written and Run returns the error.
HandleFailed(c) ==
    /\ pc[c] = "handle"
    /\ Stop(c)
    /\ UNCHANGED <<committed, log, readVars>>

CommitRecords(c) ==
    /\ pc[c] = "commit"
    /\ owner = c
    /\ groupOffset' = pos[c] + 1
    /\ pos' = [pos EXCEPT ![c] = @ + 1]
    /\ IF pos[c] = upto[c]
       THEN pc' = [pc EXCEPT ![c] = "idle"] /\ upto' = [upto EXCEPT ![c] = 0]
       ELSE pc' = [pc EXCEPT ![c] = "handle"] /\ UNCHANGED upto
    /\ UNCHANGED <<committed, log, db, backup, restores, owner>>

\* The broker refuses a member that lost the partition; otherwise the
\* commit may have taken effect although its answer is lost.
CommitFailed(c) ==
    /\ pc[c] = "commit"
    /\ \/ UNCHANGED groupOffset
       \/ owner = c /\ groupOffset' = pos[c] + 1
    /\ Stop(c)
    /\ UNCHANGED <<committed, log, db, backup, restores>>

Crash(c) ==
    /\ pc[c] # "down"
    /\ Stop(c)
    /\ UNCHANGED <<committed, log, readVars>>

-----------------------------------------------------------------------------
(* The operator: a backup is taken at any time; a restore is followed by   *)
(* resetting the group to the checkpoint before a consumer resumes.        *)
TakeBackup ==
    /\ restores < MaxRestores
    /\ backup' = db
    /\ UNCHANGED <<committed, log, db, restores, groupOffset, groupVars>>

Restore ==
    /\ restores < MaxRestores
    /\ \A c \in Consumers : pc[c] = "down"
    /\ db' = backup
    /\ groupOffset' = backup.checkpoint + 1
    /\ restores' = restores + 1
    /\ UNCHANGED <<committed, log, backup, groupVars>>

\* The facts of one aggregate are committed in the order of their times.
Source ==
    /\ \E e \in Events :
         \/ /\ \A f \in Events \ committed :
                 Meta[f].agg = Meta[e].agg => ~Before(f, e)
            /\ \E history \in Histories : committed \cup {e} \subseteq history
            /\ Commit(e)
         \/ Publish(e)
    /\ UNCHANGED <<readVars, groupVars>>

ConsumerStep(c) ==
    \/ Restart(c)
    \/ Assign(c)
    \/ PollRecords(c)
    \/ Handle(c)
    \/ HandleFailed(c)
    \/ CommitRecords(c)
    \/ CommitFailed(c)
    \/ Crash(c)

Next ==
    \/ Source
    \/ \E c \in Consumers : ConsumerStep(c)
    \/ TakeBackup
    \/ Restore

Safety == Init /\ [][Next]_vars

(***************************************************************************)
(* The source keeps its promise (EventLog).  The supervisor restarts a     *)
(* stopped worker, the broker assigns an unowned partition, an owner keeps *)
(* polling; the database accepts a record that is tried again and again,   *)
(* and the broker a commit that is.                                        *)
(***************************************************************************)
Fairness ==
    /\ \A e \in Events : WF_vars(FirstPublish(e) /\ UNCHANGED <<readVars, groupVars>>)
    /\ \A c \in Consumers :
         /\ WF_vars(Restart(c))
         /\ WF_vars(CommitRecords(c) \/ CommitFailed(c))
    /\ SF_vars(\E c \in Consumers : owner = NoConsumer /\ Assign(c))
    /\ SF_vars(\E c \in Consumers : PollRecords(c))
    /\ SF_vars(\E c \in Consumers : owner = c /\ Handle(c))
    /\ SF_vars(\E c \in Consumers : CommitRecords(c))

Spec == Safety /\ Fairness

-----------------------------------------------------------------------------
TypeOK ==
    /\ committed \subseteq Events
    /\ log \in Seq(Events)
    /\ db \in Databases
    /\ backup \in Databases
    /\ restores \in 0 .. MaxRestores
    /\ groupOffset \in 1 .. Len(log) + 1
    /\ owner \in Consumers \cup {NoConsumer}
    /\ pc \in [Consumers -> {"down", "idle", "handle", "commit"}]
    /\ pos \in [Consumers -> Nat \ {0}]
    /\ upto \in [Consumers -> Nat]

\* A record that needs no further work from the consumer group.
Done(d, k) == Meta[log[k]].kind = "unknown" \/ log[k] \in d.inbox

(* Every record below the group's offset is in the inbox or of an unknown  *)
(* type, whoever committed it and whatever crashed, was reassigned or was  *)
(* restored in between: resuming from the offset loses nothing             *)
(* (consumer.go Run: commit after the handler; README Recovery).           *)
CommittedIsProjected ==
    \A k \in 1 .. groupOffset - 1 : Done(db, k)

(* A row shows the newest version among the consumed facts of its          *)
(* aggregate, in whatever order they came (entities.go: the guard          *)
(* source_version < EXCLUDED.source_version).                              *)
RowsAreLatest ==
    \A a \in Aggregates :
       LET facts == {e \in db.inbox : /\ Meta[e].agg = a
                                      /\ Meta[e].kind \in EntityKinds}
       IN /\ \A e \in facts : Meta[e].ver <= db.row[a].ver
          /\ db.row[a] # Absent => \E e \in facts : db.row[a] = Snapshot(e)

-----------------------------------------------------------------------------
(* The read model and the log. *)

\* The log has a record of e before any of f.
Sooner(e, f) == \E k \in DOMAIN log : log[k] = e /\ \A j \in 1 .. k : log[j] # f

\* The facts about a that are in the read model.
Consumed(a, kinds) == {e \in db.inbox : Meta[e].agg = a /\ Meta[e].kind \in kinds}

\* The relations that one fact adds and no fact after it removes, where every
\* fact is where the log has it first.
LinksOnLog ==
    {a \in Aggregates :
       \E e \in Consumed(a, AddedKinds) :
          \A f \in Consumed(a, RemovedKinds) : Sooner(f, e)}

\* The row of a is gone, and search shows a fact that reached the log after the
\* one that deleted it: an older version, as the row did not take it.
Resurfaced(a) ==
    \E e, f \in Consumed(a, SearchedKinds) :
       /\ Meta[e].gone /\ db.row[a] = Snapshot(e)
       /\ db.doc[a] = Snapshot(f) /\ Meta[f].ver <= Meta[e].ver
       /\ Sooner(e, f)

(* Whatever the order of the log, any number of duplicates, redeliveries,  *)
(* rebalances and restores leaves the relations and the search documents   *)
(* as if every fact had come once, where the log has it first (worker.go,  *)
(* repository.go ApplyEvent).  A document agrees with its row, but for one *)
(* case: a deletion overtook an earlier version of the entity, which then  *)
(* shows again (activity.go UpsertSearchDocument).                         *)
DuplicatesAreHarmless ==
    /\ db.link = LinksOnLog
    /\ \A a \in Aggregates : Consumed(a, SearchedKinds) # {} =>
          db.doc[a] = db.row[a] \/ Resurfaced(a)

\* Every committed fact of a known type is in the read model.
CaughtUp == \A e \in committed : e \in db.inbox \/ Meta[e].kind = "unknown"

(* The read model catches up again and again: every committed fact of a    *)
(* known type is eventually in it, although consumers crash, lose the      *)
(* partition and restart, and although the database is restored from a     *)
(* backup (consumer.go Run, worker.go handle).  A record that cannot be    *)
(* decoded stops the partition; the histories checked here have none.      *)
EveryFactIsProjected == []<>CaughtUp
=============================================================================
