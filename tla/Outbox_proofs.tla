---------------------------- MODULE Outbox_proofs ----------------------------
(***************************************************************************)
(* What Outbox guarantees for any number of relays and rows and any batch  *)
(* size, and that it implements the safety part of EventLog.               *)
(*                                                                         *)
(* The invariant adds to the properties what a relay knows when it marks a *)
(* row: the record at the head of its batch is on the log.  The claim on   *)
(* the row plays no part, which is why losing a lease is harmless.         *)
(*                                                                         *)
(* The last part is about Onboarding, whose transactions write the facts:  *)
(* its rows agree and its outcome is final for any number of attempts.     *)
(***************************************************************************)
EXTENDS Outbox, Onboarding, FiniteSetTheorems, SequenceTheorems, TLAPS

\* A relay that is about to mark a row has seen its record acknowledged.
MarkedIsOnLog ==
    \A r \in Relays : pc[r] = "mark" => Log!OnLog(Head(batch[r]))

IInv == TypeOK /\ OnlyCommittedFacts /\ MarkedIsOnLog /\ PublishedIsOnLog

-----------------------------------------------------------------------------
\* A busy relay has a record at the head of its batch.
LEMMA BusyHasHead ==
    ASSUME TypeOK, NEW r \in Relays, pc[r] # "idle"
    PROVE  /\ batch[r] \in Seq(Ids)
           /\ batch[r] # << >>
           /\ 1 \in DOMAIN batch[r]
           /\ Head(batch[r]) = batch[r][1]
           /\ Head(batch[r]) \in Ids
  BY DEF TypeOK

\* The next record of a batch is one of the records that were claimed.
LEMMA AdvanceKeepsRecords ==
    ASSUME TypeOK, NEW r \in Relays, pc[r] # "idle", Advance(r)
    PROVE  /\ batch' \in [Relays -> Seq(Ids)]
           /\ pc' \in [Relays -> Phases]
           /\ \A s \in Relays : pc'[s] = "idle" <=> batch'[s] = << >>
           /\ pc'[r] # "mark"
           /\ \A s \in Relays \ {r} : batch'[s] = batch[s] /\ pc'[s] = pc[s]
           /\ \A k \in DOMAIN batch'[r] :
                k + 1 \in DOMAIN batch[r] /\ batch'[r][k] = batch[r][k + 1]
<1>1. batch[r] \in Seq(Ids) /\ batch[r] # << >>
  BY BusyHasHead
<1>2. /\ batch' = [batch EXCEPT ![r] = Tail(batch[r])]
      /\ pc' = [pc EXCEPT ![r] = IF Len(batch[r]) = 1 THEN "idle" ELSE "publish"]
  BY DEF Advance
<1>3. /\ Tail(batch[r]) \in Seq(Ids)
      /\ Len(Tail(batch[r])) = Len(batch[r]) - 1
      /\ \A k \in 1 .. Len(batch[r]) - 1 : Tail(batch[r])[k] = batch[r][k + 1]
  BY <1>1
<1>4. Len(batch[r]) = 1 <=> Tail(batch[r]) = << >>
  <2> DEFINE t == Tail(batch[r])
  <2>1. t \in Seq(Ids) /\ Len(t) = Len(batch[r]) - 1 /\ Len(batch[r]) \in Nat
    BY <1>1, <1>3
  <2> HIDE DEF t
  <2>2. t = << >> => Len(t) = 0
    BY EmptySeq
  <2>3. t # << >> => Len(t) # 0
    <3>1. \A q \in Seq(Ids) : q # << >> => Len(q) \in Nat \ {0}
      BY EmptySeq, Zenon
    <3>2. t # << >> => Len(t) \in Nat \ {0}
      BY <2>1, <3>1, Zenon
    <3> QED BY <3>2
  <2>4. Len(t) = 0 <=> Len(batch[r]) = 1
    BY <2>1
  <2> QED BY <2>2, <2>3, <2>4 DEF t
<1>5. batch'[r] = Tail(batch[r]) /\ pc'[r] \in {"idle", "publish"}
  BY <1>2 DEF TypeOK
<1>6. \A s \in Relays \ {r} : batch'[s] = batch[s] /\ pc'[s] = pc[s]
  BY <1>2 DEF TypeOK
<1>7. batch' \in [Relays -> Seq(Ids)] /\ pc' \in [Relays -> Phases]
  BY <1>2, <1>3 DEF TypeOK, Phases
<1>8. \A s \in Relays : pc'[s] = "idle" <=> batch'[s] = << >>
  BY <1>2, <1>4, <1>5, <1>6 DEF TypeOK
<1>9. ASSUME NEW k \in DOMAIN batch'[r]
      PROVE  k + 1 \in DOMAIN batch[r] /\ batch'[r][k] = batch[r][k + 1]
  BY <1>1, <1>3, <1>5
<1> QED BY <1>5, <1>6, <1>7, <1>8, <1>9

\* An arrangement of a set of rows is a sequence of these rows.
LEMMA ArrangementIsBatch ==
    ASSUME NEW S \in SUBSET Ids, S # {}, NEW s \in Arrangements(S)
    PROVE  /\ s \in Seq(Ids)
           /\ s # << >>
           /\ \A k \in DOMAIN s : s[k] \in S
<1>1. IsFiniteSet(S)
  <2>1. IsFiniteSet(Ids)
    BY FS_Interval, OutboxAssumption DEF Ids
  <2> QED BY <2>1, FS_Subset
<1>2. Cardinality(S) \in Nat /\ Cardinality(S) # 0
  BY <1>1, FS_CardinalityType, FS_EmptySet
<1>3. s \in [1 .. Cardinality(S) -> S]
  BY DEF Arrangements
<1>4. s \in Seq(S)
  BY <1>2, <1>3
<1> QED BY <1>2, <1>3, <1>4

\* A record is on the log after it was appended, also when the copies the
\* model keeps are all there.
LEMMA AppendedIsOnLog ==
    ASSUME TypeOK, NEW e \in Ids, Log!AppendRecord(e)
    PROVE  /\ log' \in Seq(Ids)
           /\ Log!OnLog(e)'
           /\ \A k \in DOMAIN log : k \in DOMAIN log' /\ log'[k] = log[k]
           /\ \A k \in DOMAIN log' : log'[k] = e \/ (k \in DOMAIN log /\ log'[k] = log[k])
<1>1. log \in Seq(Ids)
  BY DEF TypeOK
<1>2. CASE log' = Append(log, e)
  <2>1. /\ Len(log') = Len(log) + 1
        /\ log' \in Seq(Ids)
        /\ \A k \in 1 .. Len(log) : log'[k] = log[k]
        /\ log'[Len(log) + 1] = e
    BY <1>1, <1>2
  <2> QED BY <1>1, <2>1 DEF Log!OnLog
<1>3. CASE log' = log /\ Log!OnLog(e)
  BY <1>1, <1>3 DEF Log!OnLog
<1> QED BY <1>2, <1>3 DEF Log!AppendRecord

\* A record that is on the log stays there when another one is appended.
LEMMA LogGrows ==
    ASSUME TypeOK, NEW e \in Ids,
           \/ UNCHANGED log
           \/ \E f \in Ids : Log!AppendRecord(f),
           Log!OnLog(e)
    PROVE  Log!OnLog(e)'
<1>1. CASE UNCHANGED log
  BY <1>1 DEF Log!OnLog
<1>2. ASSUME NEW f \in Ids, Log!AppendRecord(f) PROVE Log!OnLog(e)'
  <2>1. \A k \in DOMAIN log : k \in DOMAIN log' /\ log'[k] = log[k]
    BY <1>2, AppendedIsOnLog
  <2> QED BY <2>1 DEF Log!OnLog
<1> QED BY <1>1, <1>2

-----------------------------------------------------------------------------
\* Nothing is claimed, published or on the log at the start.
LEMMA InitIInv == Init => IInv
<1> SUFFICES ASSUME Init PROVE IInv
  OBVIOUS
<1>1. TypeOK
  BY DEF Init, TypeOK, NoRow, Rows, Phases
<1>2. OnlyCommittedFacts
  BY DEF Init, OnlyCommittedFacts
<1>3. MarkedIsOnLog /\ PublishedIsOnLog
  BY DEF Init, MarkedIsOnLog, PublishedIsOnLog, NoRow
<1> QED BY <1>1, <1>2, <1>3 DEF IInv

\* Every step of the relays, of the services and of time preserves the types.
LEMMA NextType == IInv /\ [Next]_vars => TypeOK'
<1> SUFFICES ASSUME IInv, [Next]_vars PROVE TypeOK'
  OBVIOUS
<1>0. TypeOK
  BY DEF IInv
<1>1. ASSUME NEW i \in Ids, InsertOutbox(i) PROVE TypeOK'
  BY <1>0, <1>1 DEF InsertOutbox, TypeOK, Rows
<1>2. ASSUME NEW i \in Ids, LeaseExpires(i) PROVE TypeOK'
  BY <1>0, <1>2 DEF LeaseExpires, TypeOK, Rows
<1>3. ASSUME NEW i \in Ids, RetryComesDue(i) PROVE TypeOK'
  BY <1>0, <1>3 DEF RetryComesDue, TypeOK, Rows
<1>4. ASSUME NEW r \in Relays, ClaimOutbox(r) PROVE TypeOK'
  <2>1. PICK S \in SUBSET Claimable :
          /\ S # {}
          /\ row' = [i \in Ids |-> IF i \in S THEN [row[i] EXCEPT !.claim = "leased"]
                                              ELSE row[i]]
          /\ \E s \in Arrangements(S) : batch' = [batch EXCEPT ![r] = s]
    BY <1>4 DEF ClaimOutbox
  <2>2. PICK s \in Arrangements(S) : batch' = [batch EXCEPT ![r] = s]
    BY <2>1
  <2>3. s \in Seq(Ids) /\ s # << >>
    BY <2>1, <2>2, ArrangementIsBatch DEF Claimable
  <2>4. row' \in [Ids -> Rows]
    BY <1>0, <2>1 DEF TypeOK, Rows
  <2>5. pc' = [pc EXCEPT ![r] = "publish"] /\ log' = log
    BY <1>4 DEF ClaimOutbox
  <2> QED BY <1>0, <2>2, <2>3, <2>4, <2>5 DEF TypeOK, Phases
<1>5. ASSUME NEW r \in Relays, PublishAcked(r) PROVE TypeOK'
  <2>1. log' \in Seq(Ids)
    BY <1>0, <1>5, BusyHasHead, AppendedIsOnLog DEF PublishAcked
  <2> QED BY <1>0, <1>5, <2>1 DEF PublishAcked, TypeOK, Phases
<1>6. ASSUME NEW r \in Relays, PublishFailed(r) PROVE TypeOK'
  <2>1. log' \in Seq(Ids)
    BY <1>0, <1>6, BusyHasHead, AppendedIsOnLog DEF PublishFailed, TypeOK
  <2> QED BY <1>0, <1>6, <2>1 DEF PublishFailed, TypeOK, Phases
<1>7. ASSUME NEW r \in Relays, MarkOutboxPublished(r) PROVE TypeOK'
  <2>1. Head(batch[r]) \in Ids
    BY <1>0, <1>7, BusyHasHead DEF MarkOutboxPublished
  <2>2. row' \in [Ids -> Rows]
    BY <1>0, <1>7, <2>1 DEF MarkOutboxPublished, TypeOK, Rows
  <2> QED BY <1>0, <1>7, <2>2, AdvanceKeepsRecords DEF MarkOutboxPublished, TypeOK
<1>8. ASSUME NEW r \in Relays, ReleaseOutbox(r) PROVE TypeOK'
  <2>1. Head(batch[r]) \in Ids
    BY <1>0, <1>8, BusyHasHead DEF ReleaseOutbox
  <2>2. row' \in [Ids -> Rows]
    BY <1>0, <1>8, <2>1 DEF ReleaseOutbox, TypeOK, Rows
  <2> QED BY <1>0, <1>8, <2>2, AdvanceKeepsRecords DEF ReleaseOutbox, TypeOK
<1>9. ASSUME NEW r \in Relays, StatementFailed(r) PROVE TypeOK'
  BY <1>0, <1>9, AdvanceKeepsRecords DEF StatementFailed, TypeOK
<1>10. ASSUME NEW r \in Relays, Crash(r) PROVE TypeOK'
  BY <1>0, <1>10 DEF Crash, TypeOK, Phases
<1>11. CASE UNCHANGED vars
  BY <1>0, <1>11 DEF TypeOK, vars
<1> QED BY <1>1, <1>2, <1>3, <1>4, <1>5, <1>6, <1>7, <1>8, <1>9, <1>10, <1>11
      DEF Next, RelayStep

-----------------------------------------------------------------------------
\* What a step does to the log: nothing, or it appends the record at the head
\* of the batch of a relay that publishes.
LEMMA LogSteps ==
    ASSUME TypeOK, [Next]_vars
    PROVE  \/ UNCHANGED log
           \/ /\ row' = row /\ batch' = batch
              /\ \E r \in Relays : pc[r] = "publish" /\ Log!AppendRecord(Head(batch[r]))
<1>1. CASE UNCHANGED vars
  BY <1>1 DEF vars
<1>2. ASSUME NEW i \in Ids, InsertOutbox(i) \/ LeaseExpires(i) \/ RetryComesDue(i)
      PROVE  UNCHANGED log
  BY <1>2 DEF InsertOutbox, LeaseExpires, RetryComesDue
<1>3. ASSUME NEW r \in Relays,
             \/ ClaimOutbox(r) \/ MarkOutboxPublished(r) \/ ReleaseOutbox(r)
             \/ StatementFailed(r) \/ Crash(r)
      PROVE  UNCHANGED log
  BY <1>3 DEF ClaimOutbox, MarkOutboxPublished, ReleaseOutbox, StatementFailed, Crash
<1>4. ASSUME NEW r \in Relays, PublishAcked(r) \/ PublishFailed(r)
      PROVE  \/ UNCHANGED log
             \/ /\ row' = row /\ batch' = batch
                /\ pc[r] = "publish" /\ Log!AppendRecord(Head(batch[r]))
  BY <1>4 DEF PublishAcked, PublishFailed
<1> QED BY <1>1, <1>2, <1>3, <1>4 DEF Next, RelayStep

\* What a step does to the state of a row.  It is inserted, it is marked by a
\* relay that has its record at hand, or it stays what it is.
LEMMA RowSteps ==
    ASSUME TypeOK, [Next]_vars, NEW i \in Ids
    PROVE  \/ row'[i].state = row[i].state
           \/ /\ InsertOutbox(i)
              /\ row[i].state = "absent" /\ row'[i].state = "pending"
           \/ /\ row'[i].state = "published"
              /\ \E r \in Relays : pc[r] = "mark" /\ Head(batch[r]) = i
<1>1. CASE UNCHANGED vars
  BY <1>1 DEF vars
<1>2. ASSUME NEW j \in Ids, InsertOutbox(j)
      PROVE  \/ row'[i].state = row[i].state
             \/ /\ InsertOutbox(i)
                /\ row[i].state = "absent" /\ row'[i].state = "pending"
  BY <1>2 DEF InsertOutbox, TypeOK, Rows
<1>3. ASSUME NEW j \in Ids, LeaseExpires(j) \/ RetryComesDue(j)
      PROVE  row'[i].state = row[i].state
  <2>1. CASE LeaseExpires(j)
    BY <2>1 DEF LeaseExpires, TypeOK, Rows
  <2>2. CASE RetryComesDue(j)
    BY <2>2 DEF RetryComesDue, TypeOK, Rows
  <2> QED BY <1>3, <2>1, <2>2
<1>4. ASSUME NEW r \in Relays, ClaimOutbox(r) PROVE row'[i].state = row[i].state
  <2>1. PICK S \in SUBSET Claimable :
          row' = [j \in Ids |-> IF j \in S THEN [row[j] EXCEPT !.claim = "leased"]
                                           ELSE row[j]]
    BY <1>4 DEF ClaimOutbox
  <2> QED BY <2>1 DEF TypeOK, Rows
<1>5. ASSUME NEW r \in Relays, MarkOutboxPublished(r)
      PROVE  \/ row'[i].state = row[i].state
             \/ /\ row'[i].state = "published"
                /\ pc[r] = "mark" /\ Head(batch[r]) = i
  <2>1. Head(batch[r]) \in Ids
    BY <1>5, BusyHasHead DEF MarkOutboxPublished
  <2> QED BY <1>5, <2>1 DEF MarkOutboxPublished, TypeOK, Rows
<1>6. ASSUME NEW r \in Relays, ReleaseOutbox(r) PROVE row'[i].state = row[i].state
  <2>1. Head(batch[r]) \in Ids
    BY <1>6, BusyHasHead DEF ReleaseOutbox
  <2> QED BY <1>6, <2>1 DEF ReleaseOutbox, TypeOK, Rows
<1>7. ASSUME NEW r \in Relays,
             PublishAcked(r) \/ PublishFailed(r) \/ StatementFailed(r) \/ Crash(r)
      PROVE  row'[i].state = row[i].state
  BY <1>7 DEF PublishAcked, PublishFailed, StatementFailed, Crash
<1> QED BY <1>1, <1>2, <1>3, <1>4, <1>5, <1>6, <1>7 DEF Next, RelayStep

\* What a step does to the batch of relay r: it is emptied, it shrinks or
\* stays, or it is claimed anew from pending rows.
LEMMA BatchSteps ==
    ASSUME TypeOK, [Next]_vars, NEW r \in Relays
    PROVE  \/ batch'[r] = batch[r]
           \/ batch'[r] = << >>
           \/ \A k \in DOMAIN batch'[r] :
                 k + 1 \in DOMAIN batch[r] /\ batch'[r][k] = batch[r][k + 1]
           \/ \A k \in DOMAIN batch'[r] : batch'[r][k] \in Claimable
<1>1. CASE UNCHANGED vars
  BY <1>1 DEF vars
<1>2. ASSUME NEW i \in Ids, InsertOutbox(i) \/ LeaseExpires(i) \/ RetryComesDue(i)
      PROVE  batch'[r] = batch[r]
  BY <1>2 DEF InsertOutbox, LeaseExpires, RetryComesDue
<1>3. ASSUME NEW s \in Relays, ClaimOutbox(s)
      PROVE  \/ batch'[r] = batch[r]
             \/ \A k \in DOMAIN batch'[r] : batch'[r][k] \in Claimable
  <2>1. PICK S \in SUBSET Claimable :
          S # {} /\ \E t \in Arrangements(S) : batch' = [batch EXCEPT ![s] = t]
    BY <1>3 DEF ClaimOutbox
  <2>2. PICK t \in Arrangements(S) : batch' = [batch EXCEPT ![s] = t]
    BY <2>1
  <2>3. \A k \in DOMAIN t : t[k] \in S
    BY <2>1, <2>2, ArrangementIsBatch DEF Claimable
  <2> QED BY <2>1, <2>2, <2>3 DEF TypeOK
<1>4. ASSUME NEW s \in Relays,
             MarkOutboxPublished(s) \/ ReleaseOutbox(s) \/ StatementFailed(s)
      PROVE  \/ batch'[r] = batch[r]
             \/ \A k \in DOMAIN batch'[r] :
                   k + 1 \in DOMAIN batch[r] /\ batch'[r][k] = batch[r][k + 1]
  <2>1. pc[s] # "idle" /\ Advance(s)
    BY <1>4 DEF MarkOutboxPublished, ReleaseOutbox, StatementFailed
  <2> QED BY <2>1, AdvanceKeepsRecords
<1>5. ASSUME NEW s \in Relays, Crash(s)
      PROVE  batch'[r] = batch[r] \/ batch'[r] = << >>
  BY <1>5 DEF Crash, TypeOK
<1>6. ASSUME NEW s \in Relays, PublishAcked(s) \/ PublishFailed(s)
      PROVE  batch'[r] = batch[r]
  BY <1>6 DEF PublishAcked, PublishFailed
<1> QED BY <1>1, <1>2, <1>3, <1>4, <1>5, <1>6 DEF Next, RelayStep

\* A row that was inserted stays in the table.
LEMMA CommittedGrows ==
    ASSUME TypeOK, [Next]_vars PROVE Committed \subseteq Committed'
<1> SUFFICES ASSUME NEW i \in Committed PROVE i \in Committed'
  OBVIOUS
<1>1. i \in Ids /\ row[i].state # "absent"
  BY DEF Committed
<1>2. row'[i].state # "absent"
  BY <1>1, RowSteps
<1> QED BY <1>1, <1>2 DEF Committed

\* Whatever is claimed or appended was committed before.
LEMMA NextCommitted == IInv /\ [Next]_vars => OnlyCommittedFacts'
<1> SUFFICES ASSUME IInv, [Next]_vars PROVE OnlyCommittedFacts'
  OBVIOUS
<1>1. TypeOK /\ OnlyCommittedFacts /\ Committed \subseteq Committed'
  BY CommittedGrows DEF IInv
<1>2. ASSUME NEW k \in DOMAIN log' PROVE log'[k] \in Committed
  <2>1. CASE UNCHANGED log
    BY <1>1, <1>2, <2>1 DEF OnlyCommittedFacts
  <2>2. ASSUME NEW r \in Relays, pc[r] = "publish", Log!AppendRecord(Head(batch[r]))
        PROVE  log'[k] \in Committed
    <3>1. Head(batch[r]) \in Ids /\ Head(batch[r]) \in Committed
      BY <1>1, <2>2, BusyHasHead DEF OnlyCommittedFacts
    <3>2. log'[k] = Head(batch[r]) \/ (k \in DOMAIN log /\ log'[k] = log[k])
      BY <1>1, <1>2, <2>2, <3>1, AppendedIsOnLog
    <3> QED BY <1>1, <3>1, <3>2 DEF OnlyCommittedFacts
  <2> QED BY <1>1, <2>1, <2>2, LogSteps
<1>3. ASSUME NEW r \in Relays, NEW k \in DOMAIN batch'[r]
      PROVE  batch'[r][k] \in Committed
  <2>1. Claimable \subseteq Committed
    BY DEF Claimable, Committed
  <2>2. CASE batch'[r] = batch[r]
    BY <1>1, <1>3, <2>2 DEF OnlyCommittedFacts
  <2>3. CASE batch'[r] = << >>
    BY <1>3, <2>3
  <2>4. CASE \A l \in DOMAIN batch'[r] :
               l + 1 \in DOMAIN batch[r] /\ batch'[r][l] = batch[r][l + 1]
    BY <1>1, <1>3, <2>4 DEF OnlyCommittedFacts
  <2>5. CASE \A l \in DOMAIN batch'[r] : batch'[r][l] \in Claimable
    BY <1>3, <2>1, <2>5
  <2> QED BY <1>1, <2>2, <2>3, <2>4, <2>5, BatchSteps
<1> QED BY <1>1, <1>2, <1>3 DEF OnlyCommittedFacts

\* Nothing that is on the log leaves it.
LEMMA OnLogStays ==
    ASSUME TypeOK, [Next]_vars, NEW e \in Ids, Log!OnLog(e) PROVE Log!OnLog(e)'
<1>1. \/ UNCHANGED log
      \/ \E f \in Ids : Log!AppendRecord(f)
  <2>1. ASSUME NEW r \in Relays, pc[r] = "publish" PROVE Head(batch[r]) \in Ids
    BY <2>1, BusyHasHead
  <2> QED BY <2>1, LogSteps
<1> QED BY <1>1, LogGrows

\* A relay reaches "mark" only through an acknowledged publication, and keeps
\* the head of its batch until it has marked it.
LEMMA NextMarked == IInv /\ [Next]_vars => MarkedIsOnLog'
<1> SUFFICES ASSUME IInv, [Next]_vars, NEW r \in Relays, pc'[r] = "mark"
             PROVE  Log!OnLog(Head(batch[r]))'
  BY DEF MarkedIsOnLog
<1>1. TypeOK /\ MarkedIsOnLog
  BY DEF IInv
<1>2. CASE pc[r] = "mark" /\ batch'[r] = batch[r]
  <2>1. Head(batch[r]) \in Ids /\ Log!OnLog(Head(batch[r]))
    BY <1>1, <1>2, BusyHasHead DEF MarkedIsOnLog
  <2>2. \E k \in DOMAIN log' : log'[k] = Head(batch[r])
    BY <1>1, <2>1, OnLogStays DEF Log!OnLog
  <2> QED BY <1>2, <2>2 DEF Log!OnLog
<1>3. CASE PublishAcked(r)
  <2>1. Head(batch[r]) \in Ids /\ Log!AppendRecord(Head(batch[r])) /\ batch' = batch
    BY <1>1, <1>3, BusyHasHead DEF PublishAcked
  <2>2. \E k \in DOMAIN log' : log'[k] = Head(batch[r])
    BY <1>1, <2>1, AppendedIsOnLog DEF Log!OnLog
  <2> QED BY <2>1, <2>2 DEF Log!OnLog
<1>4. PublishAcked(r) \/ (pc[r] = "mark" /\ batch'[r] = batch[r])
  <2>1. CASE UNCHANGED vars
    BY <2>1 DEF vars
  <2>2. ASSUME NEW i \in Ids, InsertOutbox(i) \/ LeaseExpires(i) \/ RetryComesDue(i)
        PROVE  pc[r] = "mark" /\ batch'[r] = batch[r]
    BY <2>2 DEF InsertOutbox, LeaseExpires, RetryComesDue
  <2>3. ASSUME NEW s \in Relays, ClaimOutbox(s)
        PROVE  pc[r] = "mark" /\ batch'[r] = batch[r]
    <3>1. pc' = [pc EXCEPT ![s] = "publish"]
      BY <2>3 DEF ClaimOutbox
    <3>2. s # r
      BY <1>1, <3>1 DEF TypeOK
    <3>3. PICK t : batch' = [batch EXCEPT ![s] = t]
      BY <2>3 DEF ClaimOutbox
    <3> QED BY <1>1, <3>1, <3>2, <3>3 DEF TypeOK
  <2>4. ASSUME NEW s \in Relays, PublishAcked(s)
        PROVE  PublishAcked(r) \/ (pc[r] = "mark" /\ batch'[r] = batch[r])
    BY <1>1, <2>4 DEF PublishAcked, TypeOK
  <2>5. ASSUME NEW s \in Relays, PublishFailed(s)
        PROVE  pc[r] = "mark" /\ batch'[r] = batch[r]
    BY <1>1, <2>5 DEF PublishFailed, TypeOK
  <2>6. ASSUME NEW s \in Relays,
               MarkOutboxPublished(s) \/ ReleaseOutbox(s) \/ StatementFailed(s)
        PROVE  pc[r] = "mark" /\ batch'[r] = batch[r]
    <3>1. pc[s] # "idle" /\ Advance(s)
      BY <2>6 DEF MarkOutboxPublished, ReleaseOutbox, StatementFailed
    <3> QED BY <1>1, <3>1, AdvanceKeepsRecords
  <2>7. ASSUME NEW s \in Relays, Crash(s)
        PROVE  pc[r] = "mark" /\ batch'[r] = batch[r]
    BY <1>1, <2>7 DEF Crash, TypeOK
  <2> QED BY <2>1, <2>2, <2>3, <2>4, <2>5, <2>6, <2>7 DEF Next, RelayStep
<1> QED BY <1>2, <1>3, <1>4

\* A row is marked by a relay whose record is on the log.
LEMMA NextPublished == IInv /\ [Next]_vars => PublishedIsOnLog'
<1> SUFFICES ASSUME IInv, [Next]_vars, NEW i \in Ids, row'[i].state = "published"
             PROVE  Log!OnLog(i)'
  BY DEF PublishedIsOnLog
<1>1. TypeOK /\ MarkedIsOnLog /\ PublishedIsOnLog
  BY DEF IInv
<1>2. Log!OnLog(i)
  BY <1>1, RowSteps DEF MarkedIsOnLog, PublishedIsOnLog
<1> QED BY <1>1, <1>2, OnLogStays

-----------------------------------------------------------------------------
\* The invariant is inductive.
LEMMA Invariance == Safety => []IInv
<1>1. IInv /\ [Next]_vars => IInv'
  BY NextType, NextCommitted, NextMarked, NextPublished DEF IInv
<1> QED BY InitIInv, <1>1, PTL DEF Safety

(* A relay works on a record exactly while its batch is not empty, and the *)
(* table, the batches and the log stay well formed (relay.go processBatch  *)
(* runs through its batch to the end and no further).                      *)
THEOREM TypeCorrect == Safety => []TypeOK
<1>1. IInv => TypeOK
  BY DEF IInv
<1> QED BY Invariance, <1>1, PTL

(* For any number of relays, leases lost at any moment, failing statements *)
(* and crashes, a row marked published has its event on the log (relay.go  *)
(* processBatch, outbox.go MarkOutboxPublished).                           *)
THEOREM NoFactIsDropped == Safety => []PublishedIsOnLog
<1>1. IInv => PublishedIsOnLog
  BY DEF IInv
<1> QED BY Invariance, <1>1, PTL

(* Nothing is claimed or published that no transaction committed           *)
(* (repository.go insertOutbox, outbox.go ClaimOutbox).                    *)
THEOREM NoFactIsInvented == Safety => []OnlyCommittedFacts
<1>1. IInv => OnlyCommittedFacts
  BY DEF IInv
<1> QED BY Invariance, <1>1, PTL

\* One step of PublishedStaysPublished.
LEMMA PublishedStep ==
    ASSUME IInv, [Next]_vars, NEW i \in Ids, row[i].state = "published"
    PROVE  /\ row'[i].state = "published"
           /\ \A r \in Relays : (pc[r] = "idle" /\ pc'[r] = "publish")
                 => \A k \in DOMAIN batch'[r] : batch'[r][k] # i
<1>1. TypeOK
  BY DEF IInv
<1>2. row'[i].state = "published"
  BY <1>1, RowSteps
<1>3. ASSUME NEW r \in Relays, pc[r] = "idle", NEW k \in DOMAIN batch'[r]
      PROVE  batch'[r][k] # i
  <2>1. batch[r] = << >> /\ DOMAIN batch[r] = {}
    BY <1>1, <1>3 DEF TypeOK
  <2>2. i \notin Claimable
    BY DEF Claimable
  <2> QED BY <1>1, <1>3, <2>1, <2>2, BatchSteps
<1> QED BY <1>2, <1>3

(* A relay that lost its lease cannot bring a published row back, and no   *)
(* claim hands a published row out (outbox.go ReleaseOutbox, ClaimOutbox). *)
THEOREM PublishedIsFinal == Safety => PublishedStaysPublished
<1> DEFINE Step == \A i \in Ids : row[i].state = "published" =>
              /\ row'[i].state = "published"
              /\ \A r \in Relays : (pc[r] = "idle" /\ pc'[r] = "publish")
                    => \A k \in DOMAIN batch'[r] : batch'[r][k] # i
<1>1. IInv /\ [Next]_vars => [Step]_vars
  BY PublishedStep
<1>2. Safety => [][Step]_vars
  BY Invariance, <1>1, PTL DEF Safety
<1> QED BY <1>2 DEF PublishedStaysPublished

-----------------------------------------------------------------------------
\* A step commits one fact and leaves the log alone, or commits none.
LEMMA CommittedSteps ==
    ASSUME IInv, [Next]_vars
    PROVE  \/ Committed' = Committed
           \/ \E i \in Ids : /\ i \notin Committed
                             /\ Committed' = Committed \cup {i}
                             /\ log' = log
<1>0. TypeOK /\ OnlyCommittedFacts
  BY DEF IInv
<1>1. ASSUME NEW i \in Ids, InsertOutbox(i)
      PROVE  i \notin Committed /\ Committed' = Committed \cup {i} /\ log' = log
  <2>1. i \notin Committed /\ log' = log
    BY <1>1 DEF InsertOutbox, Committed
  <2>2. \A j \in Ids : row'[j].state # "absent" <=> (j = i \/ row[j].state # "absent")
    BY <1>0, <1>1 DEF InsertOutbox, TypeOK, Rows
  <2>3. Committed' = Committed \cup {i}
    BY <2>2 DEF Committed
  <2> QED BY <2>1, <2>3
<1>2. CASE \A i \in Ids : ~ InsertOutbox(i)
  <2>1. ASSUME NEW i \in Ids, i \in Committed' PROVE i \in Committed
    <3>1. ASSUME NEW r \in Relays, pc[r] = "mark", Head(batch[r]) = i
          PROVE  i \in Committed
      BY <1>0, <3>1, BusyHasHead DEF OnlyCommittedFacts
    <3> QED BY <1>0, <1>2, <2>1, <3>1, RowSteps DEF Committed
  <2>2. Committed' \subseteq Committed
    BY <2>1 DEF Committed
  <2> QED BY <1>0, <2>2, CommittedGrows
<1> QED BY <1>1, <1>2

(* The relays and the table implement the channel that consumers rely on:  *)
(* a fact is committed once, and only committed facts are appended to the  *)
(* log (relay.go processBatch under every interleaving and failure).       *)
THEOREM ImplementsEventLog == Safety => Log!LogSafety
<1>1. Init => Log!LogInit
  BY DEF Init, Log!LogInit, Committed, NoRow
<1>2. ASSUME IInv, [Next]_vars PROVE [Log!LogNext]_(Log!logVars)
  <2>0. TypeOK /\ OnlyCommittedFacts
    BY <1>2 DEF IInv
  <2>1. CASE \E i \in Ids : /\ i \notin Committed
                           /\ Committed' = Committed \cup {i}
                           /\ log' = log
    BY <2>1 DEF Log!LogNext, Log!Commit
  <2>2. CASE Committed' = Committed /\ UNCHANGED log
    BY <2>2 DEF Log!logVars
  <2>3. CASE /\ Committed' = Committed
             /\ \E r \in Relays : pc[r] = "publish" /\ Log!AppendRecord(Head(batch[r]))
    <3>1. PICK r \in Relays : pc[r] = "publish" /\ Log!AppendRecord(Head(batch[r]))
      BY <2>3
    <3>2. Head(batch[r]) \in Ids /\ Head(batch[r]) \in Committed
      BY <2>0, <3>1, BusyHasHead DEF OnlyCommittedFacts
    <3>3. Log!Publish(Head(batch[r]))
      BY <2>3, <3>1, <3>2 DEF Log!Publish
    <3> QED BY <3>2, <3>3 DEF Log!LogNext
  <2> QED BY <1>2, <2>0, <2>1, <2>2, <2>3, CommittedSteps, LogSteps
<1> QED BY Invariance, <1>1, <1>2, PTL DEF Safety, Log!LogSafety

-----------------------------------------------------------------------------
(* Onboarding, in the service whose outbox is modelled, for any number of  *)
(* attempts.  What makes the rows agree is that a CompleteOnboarding past  *)
(* its read has seen a running operation, and an operation that runs never *)
(* waits again (CompletesHaveRun).                                         *)

CallsAreCalls == call \in [Activities -> [1 .. MaxAttempts -> CallStates]]

CompletesHaveRun ==
    \A n \in 1 .. MaxAttempts :
       call["Complete"][n] = "read" => op \in {"running", "succeeded", "failed"}

OnboardingInv ==
    /\ CallsAreCalls
    /\ tenant.status = "none" => op = "none"
    /\ CompletesHaveRun
    /\ RowsAgree

\* A step that changes one call, and leaves the operation or moves it on.
LEMMA CallStep ==
    ASSUME CallsAreCalls, CompletesHaveRun,
           NEW a, NEW n, NEW result \in CallStates,
           call' = [call EXCEPT ![a][n] = result],
           result = "read" /\ a = "Complete" => op = "running",
           op' = op \/ op' \in {"running", "succeeded", "failed"}
    PROVE  CallsAreCalls' /\ CompletesHaveRun'
<1>1. "Complete" \in Activities
  BY DEF Activities, Ensures
<1>2. CallsAreCalls'
  BY DEF CallsAreCalls
<1>3. ASSUME NEW k \in 1 .. MaxAttempts, call'["Complete"][k] = "read"
      PROVE  op' \in {"running", "succeeded", "failed"}
  <2>1. call'["Complete"][k] = call["Complete"][k] \/ (a = "Complete" /\ call'["Complete"][k] = result)
    BY <1>1 DEF CallsAreCalls
  <2>2. op \in {"running", "succeeded", "failed"}
    BY <1>3, <2>1 DEF CompletesHaveRun
  <2> QED BY <2>2
<1> QED BY <1>2, <1>3 DEF CompletesHaveRun

\* OutcomeIsFinal, of a step.
FinalStep ==
    /\ op \in {"succeeded", "failed"} => op' = op
    /\ tenant.status = "archived" => tenant' = tenant
    /\ tenant.status = "active" => tenant'.status \in {"active", "archived"}

\* A step at the server that changes no row.
LEMMA RowsStay ==
    ASSUME OnboardingInv, UNCHANGED <<tenant, op>>, CallsAreCalls' /\ CompletesHaveRun'
    PROVE  OnboardingInv' /\ FinalStep
  BY DEF OnboardingInv, FinalStep, RowsAgree

LEMMA ServerKeeps ==
    ASSUME OnboardingInv, Server
    PROVE  OnboardingInv' /\ FinalStep
<1>0. CallsAreCalls /\ CompletesHaveRun /\ RowsAgree /\ (tenant.status = "none" => op = "none")
  BY DEF OnboardingInv
<1>1. PICK n \in 1 .. MaxAttempts :
        \/ MarkOnboardingRunning(n)
        \/ CompleteReads(n)
        \/ CompleteUpdates(n)
        \/ FailReads(n)
        \/ FailUpdates(n)
        \/ \E a \in Ensures : Ensure(a, n)
        \/ \E a \in Activities : CallFails(a, n)
  BY DEF Server
<1>2. /\ "ok" \in CallStates /\ "error" \in CallStates /\ "read" \in CallStates
      /\ "Complete" \in Activities
  BY DEF CallStates, Activities
<1>3. ASSUME NEW a, Fails(a, n) PROVE OnboardingInv' /\ FinalStep
  <2>1. call' = [call EXCEPT ![a][n] = "error"] /\ UNCHANGED <<tenant, op>>
    BY <1>3 DEF Fails, Reply, rowVars
  <2> QED BY <1>0, <1>2, <2>1, CallStep, RowsStay
<1>4. CASE MarkOnboardingRunning(n)
  <2>1. CASE op = "pending" /\ op' = "running" /\ UNCHANGED tenant /\ Reply("MarkRunning", n, "ok")
    <3>1. CallsAreCalls' /\ CompletesHaveRun'
      BY <1>0, <1>2, <2>1, CallStep DEF Reply
    <3> QED BY <1>0, <2>1, <3>1 DEF OnboardingInv, FinalStep, RowsAgree
  <2>2. CASE Reply("MarkRunning", n, "ok") /\ UNCHANGED rowVars
    BY <1>0, <1>2, <2>2, CallStep, RowsStay DEF Reply, rowVars
  <2>3. CASE Fails("MarkRunning", n)
    BY <1>3, <2>3
  <2> QED BY <1>4, <2>1, <2>2, <2>3 DEF MarkOnboardingRunning
<1>5. CASE CompleteReads(n)
  <2> DEFINE result == CASE op = "succeeded" -> "ok" [] op = "running" -> "read" [] OTHER -> "error"
  <2>1. result \in CallStates /\ (result = "read" => op = "running")
    BY <1>2
  <2>2. call' = [call EXCEPT !["Complete"][n] = result] /\ UNCHANGED <<tenant, op>>
    BY <1>5 DEF CompleteReads, rowVars
  <2> HIDE DEF result
  <2> QED BY <1>0, <2>1, <2>2, CallStep, RowsStay
<1>6. CASE CompleteUpdates(n)
  <2>1. call["Complete"][n] = "read" /\ op \in {"running", "succeeded", "failed"}
    BY <1>0, <1>1, <1>6 DEF CompleteUpdates, CompletesHaveRun
  <2>2. CASE /\ tenant.status = "provisioning"
             /\ tenant' = [status |-> "active", version |-> tenant.version + 1]
             /\ op' = IF op = "running" THEN "succeeded" ELSE op
             /\ Reply("Complete", n, "ok")
    <3>1. op = "running" /\ op' = "succeeded"
      BY <1>0, <2>1, <2>2 DEF RowsAgree
    <3>2. CallsAreCalls' /\ CompletesHaveRun'
      BY <1>0, <1>2, <2>2, <3>1, CallStep DEF Reply
    <3>3. tenant'.status = "active"
      BY <2>2
    <3> QED BY <2>2, <3>1, <3>2, <3>3 DEF OnboardingInv, FinalStep, RowsAgree
  <2>3. CASE Fails("Complete", n)
    BY <1>3, <2>3
  <2> QED BY <1>6, <2>2, <2>3 DEF CompleteUpdates
<1>7. CASE FailReads(n)
  <2> DEFINE result == CASE op = "failed" -> "ok" [] op = "succeeded" -> "error" [] OTHER -> "read"
  <2>1. result \in CallStates
    BY <1>2
  <2>2. call' = [call EXCEPT !["Fail"][n] = result] /\ UNCHANGED <<tenant, op>>
    BY <1>7 DEF FailReads, rowVars
  <2> HIDE DEF result
  <2> QED BY <1>0, <2>1, <2>2, CallStep, RowsStay
<1>8. CASE FailUpdates(n)
  <2>1. /\ tenant' = IF tenant.status = "provisioning"
                          THEN [status |-> "provisioning_failed", version |-> tenant.version + 1]
                          ELSE tenant
        /\ op' = IF op \in {"pending", "running"} THEN "failed" ELSE op
        /\ call' = [call EXCEPT !["Fail"][n] = "ok"]
    BY <1>8 DEF FailUpdates, Reply
  <2>2. CallsAreCalls' /\ CompletesHaveRun'
    BY <1>0, <1>2, <2>1, CallStep
  <2>3. \/ tenant.status = "provisioning" /\ tenant'.status = "provisioning_failed"
        \/ tenant.status # "provisioning" /\ tenant' = tenant
    BY <2>1
  <2> QED BY <1>0, <2>1, <2>2, <2>3 DEF OnboardingInv, FinalStep, RowsAgree
<1>9. ASSUME NEW a \in Ensures, Ensure(a, n) PROVE OnboardingInv' /\ FinalStep
  BY <1>0, <1>2, <1>9, CallStep, RowsStay DEF Ensure, Reply, rowVars
<1>10. ASSUME NEW a \in Activities, CallFails(a, n) PROVE OnboardingInv' /\ FinalStep
  BY <1>3, <1>10 DEF CallFails
<1> QED BY <1>1, <1>4, <1>5, <1>6, <1>7, <1>8, <1>9, <1>10

LEMMA OnboardingKeeps ==
    ASSUME OnboardingInv, [OnboardingNext]_onboardingVars
    PROVE  OnboardingInv' /\ [FinalStep]_onboardingVars
<1>0. CallsAreCalls /\ CompletesHaveRun /\ RowsAgree /\ (tenant.status = "none" => op = "none")
  BY DEF OnboardingInv
<1>1. CASE UNCHANGED onboardingVars
  BY <1>1 DEF onboardingVars, rowVars, OnboardingInv, CallsAreCalls, CompletesHaveRun, RowsAgree
<1>2. CASE CreateTenant
  <2>1. /\ tenant.status = "none" /\ op = "none" /\ op' = "pending" /\ call' = call
        /\ tenant'.status = "provisioning"
    BY <1>0, <1>2 DEF CreateTenant, NewTenant
  <2> QED BY <1>0, <2>1
        DEF OnboardingInv, CallsAreCalls, CompletesHaveRun, FinalStep, RowsAgree
<1>3. CASE ArchiveTenant
  <2>1. /\ tenant.status \notin {"none", "archived"} /\ op' = op /\ call' = call
        /\ tenant'.status = "archived"
    BY <1>3 DEF ArchiveTenant
  <2> QED BY <1>0, <2>1
        DEF OnboardingInv, CallsAreCalls, CompletesHaveRun, FinalStep, RowsAgree
<1>4. CASE Server
  BY <1>4, ServerKeeps
<1>5. CASE StartAttempt
  <2>1. call' = [call EXCEPT ![wf][attempt + 1] = "sent"] /\ UNCHANGED <<tenant, op>>
    BY <1>5 DEF StartAttempt, rowVars
  <2>2. "sent" \in CallStates
    BY DEF CallStates
  <2> QED BY <1>0, <2>1, <2>2, CallStep, RowsStay
<1>6. ASSUME UNCHANGED <<tenant, op, call>> PROVE OnboardingInv' /\ FinalStep
  BY <1>0, <1>6, RowsStay DEF CallsAreCalls, CompletesHaveRun
<1>7. \/ StartAttempt \/ CreateTenant \/ ArchiveTenant \/ Server
      \/ UNCHANGED onboardingVars \/ UNCHANGED <<tenant, op, call>>
  BY DEF OnboardingNext, Workflow, TriggerHandle, ActivityCompletes, ActivityFailsForGood,
         AttemptsExhausted, ExecutionTimeout, rowVars
<1> QED BY <1>1, <1>2, <1>3, <1>4, <1>5, <1>6, <1>7

LEMMA OnboardingInvariant == OnboardingSafety => []OnboardingInv
<1>1. OnboardingInit => OnboardingInv
  <2> SUFFICES ASSUME OnboardingInit PROVE OnboardingInv
    OBVIOUS
  <2>1. tenant.status = "none" /\ op = "none"
    BY DEF OnboardingInit
  <2>2. /\ call \in [Activities -> [1 .. MaxAttempts -> CallStates]]
        /\ \A n \in 1 .. MaxAttempts : call["Complete"][n] = "unsent"
    BY DEF OnboardingInit, CallStates, Activities
  <2> QED BY <2>1, <2>2 DEF OnboardingInv, CallsAreCalls, CompletesHaveRun, RowsAgree
<1>2. OnboardingInv /\ [OnboardingNext]_onboardingVars => OnboardingInv'
  BY OnboardingKeeps
<1> QED BY <1>1, <1>2, PTL DEF OnboardingSafety

(* The tenant row and the operation row tell the same story, however many  *)
(* attempts of Complete and Fail the workflow gave up on and left running  *)
(* (onboarding.go CompleteOnboarding, FailOnboarding).                     *)
THEOREM OnboardingRowsAgree == OnboardingSafety => []RowsAgree
<1>1. OnboardingInv => RowsAgree
  BY DEF OnboardingInv
<1> QED BY <1>1, OnboardingInvariant, PTL

(* No late attempt reopens or overturns an operation, or brings back a     *)
(* tenant that its owner archived (onboarding.go, tenant.go                *)
(* ArchiveTenant).                                                         *)
THEOREM OnboardingOutcomeIsFinal == OnboardingSafety => OutcomeIsFinal
<1>1. OnboardingInv /\ [OnboardingNext]_onboardingVars => [FinalStep]_onboardingVars
  BY OnboardingKeeps
<1> QED BY <1>1, OnboardingInvariant, PTL DEF OnboardingSafety, OutcomeIsFinal, FinalStep
=============================================================================
