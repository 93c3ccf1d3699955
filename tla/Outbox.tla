------------------------------- MODULE Outbox -------------------------------
(***************************************************************************)
(* The transactional outbox of the tenant service and the relays that      *)
(* drain it.  The organization-agent, work-management and policy-approval  *)
(* services run the same code on their own tables, and model-access claims *)
(* rows by the same statement.  Every replica of a service runs one relay; *)
(* replicas share the table and the broker, and nothing else.              *)
(*                                                                         *)
(* Time is abstract: a lease may run out at any moment after it is taken,  *)
(* a retry becomes due at any moment after it is scheduled.                *)
(***************************************************************************)
EXTENDS Naturals, Sequences, FiniteSets

CONSTANTS
    Relays,     \* service replicas
    NumEvents,  \* bound: rows ever inserted into the outbox
    BatchSize,  \* Config.BatchSize
    MaxRepeats  \* bound: records that repeat an earlier one of the log

ASSUME OutboxAssumption ==
    /\ NumEvents \in Nat
    /\ BatchSize \in Nat \ {0}
    /\ MaxRepeats \in Nat

\* outbox_id is an identity column.
Ids == 1 .. NumEvents

VARIABLES
    row,        \* the table: row[i] is the outbox row with outbox_id i
    batch,      \* batch[r]: records relay r claimed and has not finished
    pc,         \* pc[r]: what relay r does with the head of its batch
    log         \* the Kafka partition the rows are published to

vars == <<row, batch, pc, log>>

\* published_at, claimed_at and available_at of a row, seen from now.
Rows == [state : {"absent", "pending", "published"},
         claim : {"none", "leased", "expired"},
         due   : BOOLEAN]

Phases == {"idle", "publish", "mark", "release"}

Committed == {i \in Ids : row[i].state # "absent"}

Log == INSTANCE EventLog WITH
           Events <- Ids, committed <- Committed, log <- log

NoRow == [state |-> "absent", claim |-> "none", due |-> TRUE]

Init ==
    /\ row = [i \in Ids |-> NoRow]
    /\ batch = [r \in Relays |-> << >>]
    /\ pc = [r \in Relays |-> "idle"]
    /\ log = << >>

-----------------------------------------------------------------------------

(* The business transaction.  Identity values are drawn before the commit, *)
(* so rows become visible in any order.                                    *)
InsertOutbox(i) ==
    /\ row[i].state = "absent"
    /\ row' = [row EXCEPT ![i].state = "pending"]
    /\ UNCHANGED <<batch, pc, log>>

-----------------------------------------------------------------------------
(* The relay.                                                              *)

\* Mutant: a lease that ran out is not taken over.
ClaimableUnclaimed == {i \in Ids : /\ row[i].state = "pending"
                                   /\ row[i].due
                                   /\ row[i].claim = "none"}

Claimable == {i \in Ids : /\ row[i].state = "pending"
                          /\ row[i].due
                          /\ row[i].claim # "leased"}

\* ORDER BY outbox_id LIMIT BatchSize
FirstClaimable(S) ==
    /\ S \subseteq Claimable
    /\ \A i \in S : \A j \in Claimable \ S : i < j
    /\ \/ Cardinality(S) = BatchSize
       \/ Cardinality(S) < BatchSize /\ S = Claimable

\* UPDATE ... RETURNING gives the rows back in any order.
Arrangements(S) ==
    {s \in [1 .. Cardinality(S) -> S] :
        \A m, n \in 1 .. Cardinality(S) : s[m] = s[n] => m = n}

ClaimOutbox(r) ==
    /\ pc[r] = "idle"
    /\ \E S \in SUBSET Claimable :
         /\ S # {}
         /\ FirstClaimable(S)
         /\ row' = [i \in Ids |->
                      IF i \in S THEN [row[i] EXCEPT !.claim = "leased"]
                                 ELSE row[i]]
         /\ \E s \in Arrangements(S) : batch' = [batch EXCEPT ![r] = s]
    /\ pc' = [pc EXCEPT ![r] = "publish"]
    /\ UNCHANGED log

\* What remains of r's batch once its head is dealt with.
Advance(r) ==
    /\ batch' = [batch EXCEPT ![r] = Tail(@)]
    /\ pc' = [pc EXCEPT ![r] = IF Len(batch[r]) = 1 THEN "idle" ELSE "publish"]

\* Publish returned nil: the record is replicated on the log.
PublishAcked(r) ==
    /\ pc[r] = "publish"
    /\ Log!AppendRecord(Head(batch[r]))
    /\ pc' = [pc EXCEPT ![r] = "mark"]
    /\ UNCHANGED <<row, batch>>

\* Mutant: the error of Publish is dropped.
PublishFailedMarks(r) ==
    /\ pc[r] = "publish"
    /\ \/ UNCHANGED log
       \/ Log!AppendRecord(Head(batch[r]))
    /\ pc' = [pc EXCEPT ![r] = "mark"]
    /\ UNCHANGED <<row, batch>>

\* Publish (or decoding the envelope) returned an error.  A delivery that
\* timed out may have reached the log nevertheless.
PublishFailed(r) ==
    /\ pc[r] = "publish"
    /\ \/ UNCHANGED log
       \/ Log!AppendRecord(Head(batch[r]))
    /\ pc' = [pc EXCEPT ![r] = "release"]
    /\ UNCHANGED <<row, batch>>

\* The statement does not ask who holds the claim.
MarkOutboxPublished(r) ==
    /\ pc[r] = "mark"
    /\ row' = [row EXCEPT ![Head(batch[r])] =
                 [@ EXCEPT !.state = "published", !.claim = "none"]]
    /\ Advance(r)
    /\ UNCHANGED log

\* Only a row that is not published is rescheduled; any claim on it is dropped.
ReleaseOutbox(r) ==
    /\ pc[r] = "release"
    /\ row' = [row EXCEPT ![Head(batch[r])] =
                 IF @.state = "pending"
                   THEN [@ EXCEPT !.claim = "none", !.due = FALSE]
                   ELSE @]
    /\ Advance(r)
    /\ UNCHANGED log

\* Both statements may fail; the error is logged and the batch goes on.
StatementFailed(r) ==
    /\ pc[r] \in {"mark", "release"}
    /\ Advance(r)
    /\ UNCHANGED <<row, log>>

\* The process dies and its replacement starts with an empty batch.
Crash(r) ==
    /\ pc[r] # "idle"
    /\ batch' = [batch EXCEPT ![r] = << >>]
    /\ pc' = [pc EXCEPT ![r] = "idle"]
    /\ UNCHANGED <<row, log>>

-----------------------------------------------------------------------------
(* Time.                                                                   *)
LeaseExpires(i) ==
    /\ row[i].claim = "leased"
    /\ row' = [row EXCEPT ![i].claim = "expired"]
    /\ UNCHANGED <<batch, pc, log>>

RetryComesDue(i) ==
    /\ ~row[i].due
    /\ row' = [row EXCEPT ![i].due = TRUE]
    /\ UNCHANGED <<batch, pc, log>>

RelayStep(r) ==
    \/ ClaimOutbox(r)
    \/ PublishAcked(r)
    \/ PublishFailed(r)
    \/ MarkOutboxPublished(r)
    \/ ReleaseOutbox(r)
    \/ StatementFailed(r)

Next ==
    \/ \E i \in Ids : InsertOutbox(i) \/ LeaseExpires(i) \/ RetryComesDue(i)
    \/ \E r \in Relays : RelayStep(r) \/ Crash(r)

Safety == Init /\ [][Next]_vars

WorksOn(r, i) == pc[r] # "idle" /\ Head(batch[r]) = i

(***************************************************************************)
(* Time passes, and a relay that is not stopped keeps working.  Some       *)
(* replica keeps polling, and neither the broker nor the database fails    *)
(* forever: of the attempts the replicas make at an event, infinitely many *)
(* never all fail.  Relays may crash infinitely often.                     *)
(***************************************************************************)
Fairness ==
    /\ \A r \in Relays : WF_vars(RelayStep(r))
    /\ SF_vars(\E r \in Relays : ClaimOutbox(r))
    /\ \A i \in Ids :
         /\ WF_vars(LeaseExpires(i))
         /\ WF_vars(RetryComesDue(i))
         /\ SF_vars(\E r \in Relays : WorksOn(r, i) /\ PublishAcked(r))
         /\ SF_vars(\E r \in Relays : WorksOn(r, i) /\ MarkOutboxPublished(r))

Spec == Safety /\ Fairness

-----------------------------------------------------------------------------
\* A relay works on a record exactly while its batch is not empty.
TypeOK ==
    /\ row \in [Ids -> Rows]
    /\ batch \in [Relays -> Seq(Ids)]
    /\ pc \in [Relays -> Phases]
    /\ log \in Seq(Ids)
    /\ \A r \in Relays : pc[r] = "idle" <=> batch[r] = << >>

(* A row is marked published only when its event is on the log: whatever   *)
(* leases run out and whichever relay marks it, the relay drops no fact    *)
(* (relay.go processBatch, outbox.go MarkOutboxPublished).                 *)
PublishedIsOnLog ==
    \A i \in Ids : row[i].state = "published" => Log!OnLog(i)

(* Neither the log nor the batch of a relay holds a record whose           *)
(* transaction did not commit (ClaimOutbox reads committed rows only).     *)
OnlyCommittedFacts ==
    /\ \A k \in DOMAIN log : log[k] \in Committed
    /\ \A r \in Relays : \A k \in DOMAIN batch[r] : batch[r][k] \in Committed

(* A relay that lost its lease and then fails to publish cannot bring a    *)
(* row that another relay marked back (the published_at guard of           *)
(* ReleaseOutbox), and no claim hands a published row out again.           *)
PublishedStaysPublished ==
    [][\A i \in Ids : row[i].state = "published" =>
          /\ row'[i].state = "published"
          /\ \A r \in Relays : (pc[r] = "idle" /\ pc'[r] = "publish")
                => \A k \in DOMAIN batch'[r] : batch'[r][k] # i]_vars

(* The relays together with the table are an at-least-once channel         *)
(* (platform/go/events/kafka/README.md: "At-least-once delivery").         *)
AtLeastOnce == Log!LogSpec

(* Every committed event is eventually marked published, so the table      *)
(* drains although any relay may die between publishing and marking.       *)
Drains == \A i \in Ids : row[i].state = "pending" ~> row[i].state = "published"
=============================================================================
