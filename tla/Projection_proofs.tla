------------------------- MODULE Projection_proofs -------------------------
(***************************************************************************)
(* What the projection keeps for any history of facts, any number of       *)
(* consumers, copies and restores: nothing below the group's offset is     *)
(* missing, a row is the newest version consumed, and in whatever order    *)
(* and however often facts come, the relations and the search documents    *)
(* are as if each had come once, where the log has it first.               *)
(*                                                                         *)
(* The invariant is about the database, its backup and every consumer.  A  *)
(* database has consumed exactly the known facts of a prefix of the log,   *)
(* and that prefix reaches its checkpoint.  A consumer at work has         *)
(* everything below its position in the database, whether it still owns    *)
(* the partition or not; only an idle consumer that lost it may be wrong,  *)
(* and it starts from the group's offset before it polls again.            *)
(*                                                                         *)
(* Then comes History, for what the newest version of an entity means.     *)
(*                                                                         *)
(* The last part is about Paging, the lists of the read models and of the  *)
(* services: a walk lists every row that stays, for any rows and pages.    *)
(***************************************************************************)
EXTENDS Projection, History, Paging, SequenceTheorems, FiniteSetTheorems, WellFoundedInduction, TLAPS

Known(e) == Meta[e].kind # "unknown"

\* The known facts of the first n records of log L are in the inbox.
Covers(L, inbox, n) == \A k \in 1 .. n : ~Known(L[k]) \/ L[k] \in inbox

\* The inbox holds exactly the known facts of some prefix of the log.
PrefixOf(L, inbox) ==
    \E n \in 0 .. Len(L) :
       inbox = {e \in Events : Known(e) /\ \E k \in 1 .. n : L[k] = e}

\* RowsAreLatest, of a database.
Facts(inbox, a) == {e \in inbox : Meta[e].agg = a /\ Meta[e].kind \in EntityKinds}
Latest(d) ==
    \A a \in Aggregates :
       /\ \A e \in Facts(d.inbox, a) : Meta[e].ver <= d.row[a].ver
       /\ d.row[a] # Absent => \E e \in Facts(d.inbox, a) : d.row[a] = Snapshot(e)

\* Sooner, of a log.
SoonerOn(L, e, f) == \E k \in 1 .. Len(L) : L[k] = e /\ \A j \in 1 .. k : L[j] # f

\* The relations that the facts in the inbox leave, in the order of the log.
AddsTo(f, a) == Meta[f].agg = a /\ Meta[f].kind \in AddedKinds
RemovesFrom(f, a) == Meta[f].agg = a /\ Meta[f].kind \in RemovedKinds
Links(L, inbox) ==
    {a \in Aggregates :
       \E e \in inbox :
          /\ AddsTo(e, a)
          /\ \A f \in inbox : RemovesFrom(f, a) => SoonerOn(L, f, e)}

\* The document of a: none, that of the row, or one that came after a deletion.
Searched(inbox, a) == {e \in inbox : Meta[e].agg = a /\ Meta[e].kind \in SearchedKinds}
Rises(L, d, a) ==
    \E e, f \in Searched(d.inbox, a) :
       /\ Meta[e].gone /\ d.row[a] = Snapshot(e)
       /\ d.doc[a] = Snapshot(f) /\ Meta[f].ver <= Meta[e].ver
       /\ SoonerOn(L, e, f)
DocAgrees(L, d, a) ==
    IF Searched(d.inbox, a) = {} THEN d.doc[a] = Absent
    ELSE d.doc[a] = d.row[a] \/ Rises(L, d, a)

Agrees(L, d) ==
    /\ d.link = Links(L, d.inbox)
    /\ \A a \in Aggregates : DocAgrees(L, d, a)

SoundDb(L, d) ==
    /\ d.checkpoint <= Len(L)
    /\ Covers(L, d.inbox, d.checkpoint)
    /\ PrefixOf(L, d.inbox)
    /\ Latest(d)
    /\ Agrees(L, d)

ConsumerSound(c) ==
    /\ pc[c] = "down" => owner # c
    /\ (pc[c] = "idle" /\ owner = c) =>
         pos[c] <= Len(log) + 1 /\ Covers(log, db.inbox, pos[c] - 1)
    /\ pc[c] \in {"handle", "commit"} =>
         /\ pos[c] <= upto[c] /\ upto[c] <= Len(log)
         /\ Covers(log, db.inbox, pos[c] - 1)
    /\ pc[c] = "commit" => Covers(log, db.inbox, pos[c])

IInv ==
    /\ TypeOK
    /\ SoundDb(log, db)
    /\ SoundDb(log, backup)
    /\ Covers(log, db.inbox, groupOffset - 1)
    /\ \A c \in Consumers : ConsumerSound(c)

-----------------------------------------------------------------------------
(* The log grows. *)

LogGrows(L, L2) == Len(L) <= Len(L2) /\ \A k \in 1 .. Len(L) : L2[k] = L[k]

LEMMA CoversStays ==
    ASSUME NEW L \in Seq(Events), NEW L2 \in Seq(Events), LogGrows(L, L2),
           NEW inbox, NEW inbox2, inbox \subseteq inbox2,
           NEW n \in Nat, n <= Len(L), Covers(L, inbox, n)
    PROVE  Covers(L2, inbox2, n)
  BY DEF Covers, LogGrows, Known

LEMMA PrefixStays ==
    ASSUME NEW L \in Seq(Events), NEW L2 \in Seq(Events), LogGrows(L, L2),
           NEW inbox, PrefixOf(L, inbox)
    PROVE  PrefixOf(L2, inbox)
<1>1. PICK n \in 0 .. Len(L) :
        inbox = {e \in Events : Known(e) /\ \E k \in 1 .. n : L[k] = e}
  BY DEF PrefixOf
<1>2. \A k \in 1 .. n : L2[k] = L[k]
  BY DEF LogGrows
<1>3. n \in 0 .. Len(L2)
  BY DEF LogGrows
<1>4. inbox = {e \in Events : Known(e) /\ \E k \in 1 .. n : L2[k] = e}
  BY <1>1, <1>2
<1> QED BY <1>3, <1>4 DEF PrefixOf

\* What is in an inbox has its place on the log, which does not change.
LEMMA SoonerStays ==
    ASSUME NEW L \in Seq(Events), NEW L2 \in Seq(Events), LogGrows(L, L2),
           NEW inbox, PrefixOf(L, inbox), NEW e, NEW f \in inbox
    PROVE  SoonerOn(L, e, f) <=> SoonerOn(L2, e, f)
<1>1. PICK n \in 0 .. Len(L) :
        inbox = {g \in Events : Known(g) /\ \E k \in 1 .. n : L[k] = g}
  BY DEF PrefixOf
<1>2. PICK m \in 1 .. n : L[m] = f
  BY <1>1
<1>3. /\ Len(L) \in Nat /\ Len(L2) \in Nat /\ Len(L) <= Len(L2) /\ m \in 1 .. Len(L)
      /\ \A k \in 1 .. Len(L) : L2[k] = L[k]
  BY <1>2 DEF LogGrows
<1>4. ASSUME SoonerOn(L, e, f) PROVE SoonerOn(L2, e, f)
  <2>1. PICK k \in 1 .. Len(L) : L[k] = e /\ \A j \in 1 .. k : L[j] # f
    BY <1>4 DEF SoonerOn
  <2>2. k \in 1 .. Len(L2) /\ L2[k] = e /\ \A j \in 1 .. k : L2[j] # f
    BY <1>3, <2>1
  <2> QED BY <2>2 DEF SoonerOn
<1>5. ASSUME SoonerOn(L2, e, f) PROVE SoonerOn(L, e, f)
  <2>1. PICK k \in 1 .. Len(L2) : L2[k] = e /\ \A j \in 1 .. k : L2[j] # f
    BY <1>5 DEF SoonerOn
  <2>2. L2[m] = f
    BY <1>2, <1>3
  <2>3. m \notin 1 .. k
    BY <2>1, <2>2
  <2>4. k < m
    BY <1>3, <2>3
  <2>5. k \in 1 .. Len(L) /\ L[k] = e /\ \A j \in 1 .. k : L[j] # f
    BY <1>3, <2>1, <2>4
  <2> QED BY <2>5 DEF SoonerOn
<1> QED BY <1>4, <1>5

LEMMA AgreesStays ==
    ASSUME NEW L \in Seq(Events), NEW L2 \in Seq(Events), LogGrows(L, L2),
           NEW d \in Databases, PrefixOf(L, d.inbox), Agrees(L, d)
    PROVE  Agrees(L2, d)
<1>1. \A e \in d.inbox, f \in d.inbox : SoonerOn(L, e, f) <=> SoonerOn(L2, e, f)
  BY SoonerStays
<1>2. Links(L2, d.inbox) = Links(L, d.inbox)
  BY <1>1 DEF Links
<1>3. ASSUME NEW a \in Aggregates PROVE DocAgrees(L2, d, a)
  <2>1. Searched(d.inbox, a) \subseteq d.inbox
    BY DEF Searched
  <2>2. Rises(L, d, a) => Rises(L2, d, a)
    BY <1>1, <2>1 DEF Rises
  <2> QED BY <2>2 DEF Agrees, DocAgrees
<1> QED BY <1>2, <1>3 DEF Agrees

LEMMA DbStays ==
    ASSUME NEW L \in Seq(Events), NEW L2 \in Seq(Events), LogGrows(L, L2),
           NEW d \in Databases, SoundDb(L, d)
    PROVE  SoundDb(L2, d)
<1>1. d.checkpoint \in Nat /\ d.checkpoint <= Len(L) /\ d.checkpoint <= Len(L2)
  BY DEF Databases, SoundDb, LogGrows
<1>2. Covers(L2, d.inbox, d.checkpoint)
  BY <1>1, CoversStays DEF SoundDb
<1> QED BY <1>1, <1>2, PrefixStays, AgreesStays DEF SoundDb

-----------------------------------------------------------------------------
(* The apply functions. *)

LEMMA EnvelopeTypes ==
    ASSUME NEW e \in Events
    PROVE  /\ Meta[e].agg \in Aggregates /\ Meta[e].ver \in Nat /\ Meta[e].ver > 0
           /\ Meta[e].at \in Nat /\ Meta[e].kind \in Kinds
           /\ Snapshot(e) \in Versioned /\ Snapshot(e).ver = Meta[e].ver
           /\ Snapshot(e) # Absent
<1>1. Meta[e] \in Envelopes /\ Meta[e].ver > 0
  BY ProjectionAssumption
<1>2. /\ Meta[e].agg \in Aggregates /\ Meta[e].ver \in Nat /\ Meta[e].at \in Nat
      /\ Meta[e].kind \in Kinds /\ Meta[e].gone \in BOOLEAN
  BY <1>1 DEF Envelopes
<1>3. Snapshot(e) \in Versioned /\ Snapshot(e).ver = Meta[e].ver
  BY <1>2 DEF Snapshot, Versioned
<1>4. Absent.ver = 0
  BY DEF Absent
<1> QED BY <1>1, <1>2, <1>3, <1>4

LEMMA DatabaseFields ==
    ASSUME NEW d \in Databases
    PROVE  /\ d.inbox \in SUBSET Events /\ d.row \in [Aggregates -> Versioned]
           /\ d.doc \in [Aggregates -> Versioned] /\ d.link \in SUBSET Aggregates
           /\ d.activity \in SUBSET Events /\ d.watermark \in Nat /\ d.checkpoint \in Nat
  BY DEF Databases

\* Everything but the rows, but the documents, and so on, stays.
SameButRow(d, d2) ==
    /\ d2.inbox = d.inbox /\ d2.doc = d.doc /\ d2.link = d.link
    /\ d2.watermark = d.watermark /\ d2.checkpoint = d.checkpoint
SameButDoc(d, d2) ==
    /\ d2.inbox = d.inbox /\ d2.row = d.row /\ d2.link = d.link
    /\ d2.watermark = d.watermark /\ d2.checkpoint = d.checkpoint
SameButLink(d, d2) ==
    /\ d2.inbox = d.inbox /\ d2.row = d.row /\ d2.doc = d.doc
    /\ d2.watermark = d.watermark /\ d2.checkpoint = d.checkpoint

NextRow(d, e) ==
    IF d.row[Meta[e].agg].ver < Meta[e].ver
      THEN [d.row EXCEPT ![Meta[e].agg] = Snapshot(e)] ELSE d.row
NextDoc(d, e) ==
    IF d.doc[Meta[e].agg].gone \/ d.doc[Meta[e].agg].ver < Meta[e].ver
      THEN [d.doc EXCEPT ![Meta[e].agg] = Snapshot(e)] ELSE d.doc

LEMMA RowUpsert ==
    ASSUME NEW d \in Databases, NEW e \in Events
    PROVE  /\ UpsertRow(d, e) \in Databases
           /\ SameButRow(d, UpsertRow(d, e)) /\ UpsertRow(d, e).row = NextRow(d, e)
<1> DEFINE rows == [d.row EXCEPT ![Meta[e].agg] = Snapshot(e)]
           d2 == [d EXCEPT !.row = rows]
<1>1. rows \in [Aggregates -> Versioned]
  BY EnvelopeTypes, DatabaseFields
<1>2. [d EXCEPT !.row[Meta[e].agg] = Snapshot(e)] = d2
  BY DatabaseFields DEF Databases
<1> HIDE DEF rows
<1>3. d2 \in Databases /\ SameButRow(d, d2) /\ d2.row = rows
  BY <1>1 DEF Databases, SameButRow
<1> HIDE DEF d2
<1>4. SameButRow(d, d)
  BY DEF SameButRow
<1> QED BY <1>2, <1>3, <1>4 DEF UpsertRow, NextRow, rows

LEMMA DocUpsert ==
    ASSUME NEW d \in Databases, NEW e \in Events
    PROVE  /\ UpsertSearchDocument(d, e) \in Databases
           /\ SameButDoc(d, UpsertSearchDocument(d, e))
           /\ UpsertSearchDocument(d, e).doc = NextDoc(d, e)
<1> DEFINE docs == [d.doc EXCEPT ![Meta[e].agg] = Snapshot(e)]
           d2 == [d EXCEPT !.doc = docs]
<1>1. docs \in [Aggregates -> Versioned]
  BY EnvelopeTypes, DatabaseFields
<1>2. [d EXCEPT !.doc[Meta[e].agg] = Snapshot(e)] = d2
  BY DatabaseFields DEF Databases
<1> HIDE DEF docs
<1>3. d2 \in Databases /\ SameButDoc(d, d2) /\ d2.doc = docs
  BY <1>1 DEF Databases, SameButDoc
<1> HIDE DEF d2
<1>4. SameButDoc(d, d)
  BY DEF SameButDoc
<1> QED BY <1>2, <1>3, <1>4 DEF UpsertSearchDocument, NextDoc, docs

LEMMA LinkChange ==
    ASSUME NEW d \in Databases, NEW e \in Events
    PROVE  /\ UpsertDependency(d, e) \in Databases /\ DeleteDependency(d, e) \in Databases
           /\ SameButLink(d, UpsertDependency(d, e)) /\ SameButLink(d, DeleteDependency(d, e))
           /\ UpsertDependency(d, e).link = d.link \cup {Meta[e].agg}
           /\ DeleteDependency(d, e).link = d.link \ {Meta[e].agg}
           /\ UpsertAssignment(d, e) = UpsertDependency(d, e)
           /\ DeleteAssignment(d, e) = DeleteDependency(d, e)
  BY EnvelopeTypes DEF Databases, SameButLink, UpsertDependency, DeleteDependency,
     UpsertAssignment, DeleteAssignment

LEMMA ActivityAppended ==
    ASSUME NEW d \in Databases, NEW e \in Events
    PROVE  LET d2 == AppendActivity(d, e) IN
           /\ d2 \in Databases
           /\ SameButLink(d, d2) /\ d2.link = d.link
  BY DEF Databases, SameButLink, AppendActivity

\* What a fact changes, by its kind.
Decoded(d, d2, e) ==
    /\ d2 \in Databases
    /\ d2.inbox = d.inbox /\ d2.watermark = d.watermark /\ d2.checkpoint = d.checkpoint
    /\ d2.row = IF Meta[e].kind \in EntityKinds THEN NextRow(d, e) ELSE d.row
    /\ d2.doc = IF Meta[e].kind \in EntityKinds \ TenantKinds THEN NextDoc(d, e) ELSE d.doc
    /\ d2.link = IF Meta[e].kind \in AddedKinds THEN d.link \cup {Meta[e].agg}
                 ELSE IF Meta[e].kind \in RemovedKinds THEN d.link \ {Meta[e].agg}
                 ELSE d.link

LEMMA DecodeEffect ==
    ASSUME NEW d \in Databases, NEW e \in Events
    PROVE  Decoded(d, decodeEvent(d, e), e)
<1> DEFINE k == Meta[e].kind
           u == UpsertRow(d, e)
           s == UpsertSearchDocument(u, e)
<1>1. /\ u \in Databases /\ SameButRow(d, u) /\ u.row = NextRow(d, e)
      /\ s \in Databases /\ SameButDoc(u, s) /\ s.doc = NextDoc(u, e)
  BY RowUpsert, DocUpsert
<1>2. NextDoc(u, e) = NextDoc(d, e)
  BY <1>1 DEF NextDoc, SameButRow
<1> HIDE DEF u, s
<1>3. CASE k \in TenantKinds
  <2>1. decodeEvent(d, e) = u
    BY <1>3 DEF decodeEvent, TenantKinds, decodeTenantContextEvent, decodeTenantEvent,
       UpsertTenant, u
  <2>2. k \in EntityKinds /\ k \notin AddedKinds /\ k \notin RemovedKinds
    BY <1>3 DEF EntityKinds, TenantKinds, AddedKinds, RemovedKinds
  <2> QED BY <1>1, <1>3, <2>1, <2>2 DEF Decoded, SameButRow
<1>4. CASE k \in {"company", "agent", "agent_deleted", "goal", "project"}
  <2>1. decodeEvent(d, e) = s
    BY <1>4 DEF decodeEvent, decodeCompanyEvent, decodeAgentEvent, decodeAgentDeletedEvent,
       decodeGoalEvent, decodeProjectEvent, UpsertCompany, UpsertAgent, UpsertGoal,
       UpsertProject, u, s
  <2>2. k \in EntityKinds \ TenantKinds /\ k \notin AddedKinds /\ k \notin RemovedKinds
    BY <1>4 DEF EntityKinds, TenantKinds, SearchedKinds, HideableKinds, AddedKinds, RemovedKinds
  <2> QED BY <1>1, <1>2, <2>1, <2>2 DEF Decoded, SameButRow, SameButDoc
<1>5. CASE k = "task"
  <2>1. decodeEvent(d, e) = AppendActivity(s, e)
    BY <1>5 DEF decodeEvent, decodeTaskEvent, UpsertTask, u, s
  <2>2. k \in EntityKinds \ TenantKinds /\ k \notin AddedKinds /\ k \notin RemovedKinds
    BY <1>5 DEF EntityKinds, TenantKinds, SearchedKinds, HideableKinds, AddedKinds, RemovedKinds
  <2>3. /\ AppendActivity(s, e) \in Databases /\ SameButLink(s, AppendActivity(s, e))
        /\ AppendActivity(s, e).link = s.link
    BY <1>1, ActivityAppended
  <2> QED BY <1>1, <1>2, <2>1, <2>2, <2>3 DEF Decoded, SameButRow, SameButDoc, SameButLink
<1>6. CASE k \in AddedKinds
  <2> DEFINE l == UpsertDependency(d, e)
  <2>1. decodeEvent(d, e) = AppendActivity(l, e)
    BY <1>6, LinkChange DEF decodeEvent, AddedKinds, decodeDependencyAddedEvent,
       decodeAssignedEvent
  <2>2. k \notin EntityKinds /\ k \notin TenantKinds
    BY <1>6 DEF EntityKinds, TenantKinds, SearchedKinds, HideableKinds, AddedKinds
  <2>3. l \in Databases /\ SameButLink(d, l) /\ l.link = d.link \cup {Meta[e].agg}
    BY LinkChange
  <2> HIDE DEF l
  <2>4. /\ AppendActivity(l, e) \in Databases /\ SameButLink(l, AppendActivity(l, e))
        /\ AppendActivity(l, e).link = l.link
    BY <2>3, ActivityAppended
  <2> QED BY <1>6, <2>1, <2>2, <2>3, <2>4 DEF Decoded, SameButLink
<1>7. CASE k \in RemovedKinds
  <2> DEFINE l == DeleteDependency(d, e)
  <2>1. decodeEvent(d, e) = AppendActivity(l, e)
    BY <1>7, LinkChange DEF decodeEvent, RemovedKinds, decodeDependencyRemovedEvent,
       decodeUnassignedEvent
  <2>2. k \notin EntityKinds /\ k \notin TenantKinds /\ k \notin AddedKinds
    BY <1>7 DEF EntityKinds, TenantKinds, SearchedKinds, HideableKinds, RemovedKinds, AddedKinds
  <2>3. l \in Databases /\ SameButLink(d, l) /\ l.link = d.link \ {Meta[e].agg}
    BY LinkChange
  <2> HIDE DEF l
  <2>4. /\ AppendActivity(l, e) \in Databases /\ SameButLink(l, AppendActivity(l, e))
        /\ AppendActivity(l, e).link = l.link
    BY <2>3, ActivityAppended
  <2> QED BY <1>7, <2>1, <2>2, <2>3, <2>4 DEF Decoded, SameButLink
<1>8. CASE k \notin EntityKinds \cup AddedKinds \cup RemovedKinds
  <2>1. decodeEvent(d, e) = AppendActivity(d, e)
    BY <1>8 DEF decodeEvent, EntityKinds, TenantKinds, SearchedKinds, HideableKinds, AddedKinds,
       RemovedKinds, decodeCommentEvent, decodeArtifactAddedEvent, decodeActivityOnlyEvent
  <2>2. /\ AppendActivity(d, e) \in Databases /\ SameButLink(d, AppendActivity(d, e))
        /\ AppendActivity(d, e).link = d.link
    BY ActivityAppended
  <2> QED BY <1>8, <2>1, <2>2 DEF Decoded, SameButLink
<1> QED BY <1>3, <1>4, <1>5, <1>6, <1>7, <1>8 DEF EntityKinds, SearchedKinds, HideableKinds

\* The transaction of a fact that is new, or already in the inbox.
Applied(d, d2, e, n) ==
    /\ d2 \in Databases
    /\ d2.inbox = d.inbox \cup {e}
    /\ d2.checkpoint \in {d.checkpoint, n}
    /\ IF e \in d.inbox
         THEN d2.row = d.row /\ d2.doc = d.doc /\ d2.link = d.link
         ELSE /\ d2.row = IF Meta[e].kind \in EntityKinds THEN NextRow(d, e) ELSE d.row
              /\ d2.doc = IF Meta[e].kind \in EntityKinds \ TenantKinds
                            THEN NextDoc(d, e) ELSE d.doc
              /\ d2.link = IF Meta[e].kind \in AddedKinds THEN d.link \cup {Meta[e].agg}
                           ELSE IF Meta[e].kind \in RemovedKinds THEN d.link \ {Meta[e].agg}
                           ELSE d.link

LEMMA CheckpointMoves ==
    ASSUME NEW d \in Databases, NEW n \in Nat
    PROVE  LET d2 == updateCheckpoint(d, n) IN
           /\ d2 \in Databases /\ d2.checkpoint \in {d.checkpoint, n}
           /\ d2.inbox = d.inbox /\ d2.row = d.row /\ d2.doc = d.doc /\ d2.link = d.link
  BY DEF updateCheckpoint, Databases

LEMMA WatermarkMoves ==
    ASSUME NEW d \in Databases, NEW e \in Events
    PROVE  LET d2 == updateWatermark(d, e) IN
           /\ d2 \in Databases /\ d2.checkpoint = d.checkpoint
           /\ d2.inbox = d.inbox /\ d2.row = d.row /\ d2.doc = d.doc /\ d2.link = d.link
  BY EnvelopeTypes DEF updateWatermark, Databases

LEMMA ApplyEffect ==
    ASSUME NEW d \in Databases, NEW e \in Events, NEW n \in Nat
    PROVE  Applied(d, ApplyEvent(d, e, n), e, n)
<1>1. CASE e \in d.inbox
  <2>1. d.inbox = d.inbox \cup {e}
    BY <1>1
  <2> QED BY <1>1, <2>1, CheckpointMoves DEF ApplyEvent, Applied
<1>2. CASE e \notin d.inbox
  <2> DEFINE i == [d EXCEPT !.inbox = @ \cup {e}]
             x == decodeEvent(i, e)
             w == updateWatermark(x, e)
             z == updateCheckpoint(w, n)
  <2>1. ApplyEvent(d, e, n) = z
    BY <1>2 DEF ApplyEvent
  <2>2. /\ i \in Databases /\ i.inbox = d.inbox \cup {e} /\ i.row = d.row /\ i.doc = d.doc
        /\ i.link = d.link /\ i.checkpoint = d.checkpoint
    BY DEF Databases
  <2>3. NextRow(i, e) = NextRow(d, e) /\ NextDoc(i, e) = NextDoc(d, e)
    BY <2>2 DEF NextRow, NextDoc
  <2> HIDE DEF i
  <2>4. Decoded(i, x, e)
    BY <2>2, DecodeEffect
  <2> HIDE DEF x
  <2>5. x \in Databases
    BY <2>4 DEF Decoded
  <2>6. /\ w \in Databases /\ w.checkpoint = x.checkpoint
        /\ w.inbox = x.inbox /\ w.row = x.row /\ w.doc = x.doc /\ w.link = x.link
    BY <2>5, WatermarkMoves
  <2> HIDE DEF w
  <2>7. /\ z \in Databases /\ z.checkpoint \in {w.checkpoint, n}
        /\ z.inbox = w.inbox /\ z.row = w.row /\ z.doc = w.doc /\ z.link = w.link
    BY <2>6, CheckpointMoves
  <2> HIDE DEF z
  <2>8. Applied(d, z, e, n)
    BY <1>2, <2>2, <2>3, <2>4, <2>6, <2>7 DEF Applied, Decoded
  <2> QED BY <2>1, <2>8
<1> QED BY <1>1, <1>2

-----------------------------------------------------------------------------
(* A transaction keeps a database sound. *)

\* A new row, a new document.
LEMMA RowTaken ==
    ASSUME NEW d \in Databases, NEW e \in Events, NEW a \in Aggregates
    PROVE  /\ NextRow(d, e)[a] = IF a = Meta[e].agg /\ d.row[a].ver < Meta[e].ver
                                   THEN Snapshot(e) ELSE d.row[a]
           /\ (a # Meta[e].agg => NextDoc(d, e)[a] = d.doc[a])
           /\ (a = Meta[e].agg /\ d.doc[a].ver < Meta[e].ver => NextDoc(d, e)[a] = Snapshot(e))
           /\ NextDoc(d, e)[a] # d.doc[a] => a = Meta[e].agg
           /\ d.row[a].ver \in Nat /\ d.doc[a].ver \in Nat
  BY EnvelopeTypes, DatabaseFields DEF NextRow, NextDoc, Versioned

LEMMA LatestStays ==
    ASSUME NEW d \in Databases, NEW d2, NEW e \in Events, NEW n \in Nat,
           Applied(d, d2, e, n), Latest(d)
    PROVE  Latest(d2)
<1>1. CASE e \in d.inbox
  <2>1. d2.inbox = d.inbox /\ d2.row = d.row
    BY <1>1 DEF Applied
  <2> QED BY <2>1 DEF Latest
<1>2. CASE e \notin d.inbox /\ Meta[e].kind \notin EntityKinds
  <2>1. d2.row = d.row /\ d2.inbox = d.inbox \cup {e}
    BY <1>2 DEF Applied
  <2>2. \A a \in Aggregates : Facts(d2.inbox, a) = Facts(d.inbox, a)
    BY <1>2, <2>1 DEF Facts
  <2> QED BY <2>1, <2>2 DEF Latest
<1>3. CASE e \notin d.inbox /\ Meta[e].kind \in EntityKinds
  <2>1. d2.row = NextRow(d, e) /\ d2.inbox = d.inbox \cup {e}
    BY <1>3 DEF Applied
  <2> SUFFICES ASSUME NEW a \in Aggregates
               PROVE  /\ \A f \in Facts(d2.inbox, a) : Meta[f].ver <= d2.row[a].ver
                      /\ d2.row[a] # Absent =>
                           \E f \in Facts(d2.inbox, a) : d2.row[a] = Snapshot(f)
    BY DEF Latest
  <2>2. /\ \A f \in Facts(d.inbox, a) : Meta[f].ver <= d.row[a].ver /\ f \in Events
        /\ d.row[a] # Absent => \E f \in Facts(d.inbox, a) : d.row[a] = Snapshot(f)
    BY DatabaseFields DEF Latest, Facts
  <2>3. Facts(d2.inbox, a) = IF a = Meta[e].agg THEN Facts(d.inbox, a) \cup {e}
                                                ELSE Facts(d.inbox, a)
    BY <1>3, <2>1 DEF Facts
  <2>4. d.row[a].ver \in Nat /\ Meta[e].ver \in Nat /\ Snapshot(e).ver = Meta[e].ver
    BY RowTaken, EnvelopeTypes
  <2>5. \A f \in Facts(d.inbox, a) : Meta[f].ver \in Nat
    BY <2>2, EnvelopeTypes
  <2>6. CASE a = Meta[e].agg /\ d.row[a].ver < Meta[e].ver
    <3>1. d2.row[a] = Snapshot(e)
      BY <2>1, <2>6, RowTaken
    <3> QED BY <2>2, <2>3, <2>4, <2>5, <2>6, <3>1
  <2>7. CASE ~(a = Meta[e].agg /\ d.row[a].ver < Meta[e].ver)
    <3>1. d2.row[a] = d.row[a]
      BY <2>1, <2>7, RowTaken
    <3> QED BY <2>2, <2>3, <2>4, <2>5, <2>7, <3>1
  <2> QED BY <2>6, <2>7
<1> QED BY <1>1, <1>2, <1>3

\* A fact that is new to the database has its place on the log after all the
\* facts that are in it.
LEMMA NewIsLater ==
    ASSUME NEW L \in Seq(Events), NEW inbox \in SUBSET Events, PrefixOf(L, inbox),
           NEW n \in 1 .. Len(L), L[n] \notin inbox, Known(L[n]), NEW f \in inbox
    PROVE  SoonerOn(L, f, L[n]) /\ ~ SoonerOn(L, L[n], f)
<1> DEFINE e == L[n]
<1>1. PICK m \in 0 .. Len(L) :
        inbox = {g \in Events : Known(g) /\ \E k \in 1 .. m : L[k] = g}
  BY DEF PrefixOf
<1>2. e \in Events
  OBVIOUS
<1>3. PICK j \in 1 .. m : L[j] = f
  BY <1>1
<1>4. ASSUME NEW i \in 1 .. m PROVE L[i] # e
  BY <1>1, <1>2, <1>4
<1>5. j \in 1 .. Len(L) /\ \A i \in 1 .. j : i \in 1 .. m
  BY <1>3
<1>6. SoonerOn(L, f, e)
  <2>1. L[j] = f /\ \A i \in 1 .. j : L[i] # e
    BY <1>3, <1>4, <1>5
  <2> QED BY <1>5, <2>1 DEF SoonerOn
<1>7. ~ SoonerOn(L, e, f)
  <2> SUFFICES ASSUME NEW k \in 1 .. Len(L), L[k] = e, \A i \in 1 .. k : L[i] # f
               PROVE  FALSE
    BY DEF SoonerOn
  <2>1. k \notin 1 .. m
    BY <1>4
  <2>2. j \in 1 .. k
    BY <1>3, <2>1
  <2> QED BY <1>3, <2>2
<1> QED BY <1>6, <1>7

\* A row is one of the facts about it; a document that differs from it is older.
LEMMA DocIsNotNewer ==
    ASSUME NEW L, NEW d \in Databases, Latest(d), NEW a \in Aggregates, DocAgrees(L, d, a)
    PROVE  d.doc[a].ver <= d.row[a].ver
<1>0. d.doc[a].ver \in Nat /\ d.row[a].ver \in Nat /\ d.inbox \in SUBSET Events
  BY DatabaseFields DEF Versioned
<1>1. CASE d.doc[a] = Absent
  BY <1>0, <1>1 DEF Absent
<1>2. CASE d.doc[a] = d.row[a]
  BY <1>0, <1>2
<1>3. CASE Rises(L, d, a)
  <2>1. PICK e, f \in Searched(d.inbox, a) :
          /\ d.row[a] = Snapshot(e) /\ d.doc[a] = Snapshot(f)
          /\ Meta[f].ver <= Meta[e].ver
    BY <1>3 DEF Rises
  <2>2. e \in Events /\ f \in Events
    BY <1>0, <2>1 DEF Searched
  <2> QED BY <2>1, <2>2, EnvelopeTypes
<1> QED BY <1>1, <1>2, <1>3 DEF DocAgrees

\* Where facts are searched, no tenant fact makes the row.
LEMMA RowIsSearched ==
    ASSUME NEW d \in Databases, Latest(d), NEW a \in Aggregates, NEW e \in Events,
           Meta[e].agg = a, Meta[e].kind \in SearchedKinds, d.row[a] # Absent
    PROVE  \E g \in Searched(d.inbox, a) : d.row[a] = Snapshot(g)
<1>1. PICK g \in Facts(d.inbox, a) : d.row[a] = Snapshot(g)
  BY DEF Latest
<1>2. g \in d.inbox /\ g \in Events /\ Meta[g].agg = a /\ Meta[g].kind \in EntityKinds
  BY <1>1, DatabaseFields DEF Facts
<1>3. Meta[g].kind \notin TenantKinds
  BY <1>2, IdentifierAssumption
<1>4. g \in Searched(d.inbox, a)
  BY <1>2, <1>3 DEF Searched, EntityKinds
<1> QED BY <1>1, <1>4

LEMMA DocsAgreeStays ==
    ASSUME NEW L \in Seq(Events), NEW d \in Databases, PrefixOf(L, d.inbox),
           NEW n \in 1 .. Len(L), Known(L[n]), NEW d2, Applied(d, d2, L[n], n),
           L[n] \notin d.inbox, Latest(d), NEW a \in Aggregates, DocAgrees(L, d, a)
    PROVE  DocAgrees(L, d2, a)
<1> DEFINE e == L[n]
<1>0. e \in Events /\ d.inbox \in SUBSET Events /\ d2.inbox = d.inbox \cup {e}
  BY DatabaseFields DEF Applied
<1>1. CASE ~(Meta[e].agg = a /\ Meta[e].kind \in EntityKinds)
  <2>1. d2.doc[a] = d.doc[a] /\ d2.row[a] = d.row[a]
    BY <1>0, <1>1, RowTaken DEF Applied
  <2>2. Searched(d2.inbox, a) = Searched(d.inbox, a)
    BY <1>0, <1>1 DEF Searched, EntityKinds
  <2> QED BY <2>1, <2>2 DEF DocAgrees, Rises
<1>2. CASE Meta[e].agg = a /\ Meta[e].kind \in TenantKinds
  <2>1. Searched(d2.inbox, a) = {} /\ Searched(d.inbox, a) = {}
    BY <1>0, <1>2, IdentifierAssumption DEF Searched
  <2>2. Meta[e].kind \notin EntityKinds \ TenantKinds
    BY <1>2
  <2>3. d2.doc = d.doc
    BY <1>0, <2>2 DEF Applied
  <2> QED BY <2>1, <2>3 DEF DocAgrees
<1>3. CASE Meta[e].agg = a /\ Meta[e].kind \in SearchedKinds
  <2>1. Meta[e].kind \in EntityKinds /\ Meta[e].kind \in EntityKinds \ TenantKinds
    BY <1>3 DEF EntityKinds, SearchedKinds, HideableKinds, TenantKinds
  <2>2. d2.row = NextRow(d, e) /\ d2.doc = NextDoc(d, e)
    BY <1>0, <2>1 DEF Applied
  <2>3. /\ Searched(d2.inbox, a) = Searched(d.inbox, a) \cup {e}
        /\ e \in Searched(d2.inbox, a) /\ Searched(d2.inbox, a) # {}
    BY <1>0, <1>3 DEF Searched
  <2>4. /\ d.doc[a].ver \in Nat /\ d.row[a].ver \in Nat /\ Meta[e].ver \in Nat
        /\ d.doc[a].ver <= d.row[a].ver
    BY <1>0, RowTaken, EnvelopeTypes, DocIsNotNewer
  <2>5. /\ d2.row[a] = IF d.row[a].ver < Meta[e].ver THEN Snapshot(e) ELSE d.row[a]
        /\ d2.doc[a] = IF d.doc[a].gone \/ d.doc[a].ver < Meta[e].ver
                         THEN Snapshot(e) ELSE d.doc[a]
    BY <1>0, <1>3, <2>2, DatabaseFields DEF NextRow, NextDoc
  <2>6. CASE d.row[a].ver < Meta[e].ver
    <3>1. d.doc[a].ver < Meta[e].ver
      BY <2>4, <2>6
    <3> QED BY <2>3, <2>5, <2>6, <3>1 DEF DocAgrees
  <2>7. CASE ~(d.row[a].ver < Meta[e].ver)
    <3>1. d2.row[a] = d.row[a] /\ Meta[e].ver <= d.row[a].ver /\ d.row[a] # Absent
      BY <1>0, <2>4, <2>5, <2>7, EnvelopeTypes DEF Absent
    <3>2. PICK g \in Searched(d.inbox, a) : d.row[a] = Snapshot(g)
      BY <1>0, <1>3, <3>1, RowIsSearched
    <3>3. /\ g \in d.inbox /\ g \in Events /\ g \in Searched(d2.inbox, a)
          /\ Searched(d.inbox, a) # {}
      BY <1>0, <2>3, <3>2 DEF Searched
    <3>4. SoonerOn(L, g, e)
      BY <1>0, <3>3, NewIsLater
    <3>5. Snapshot(g).ver = Meta[g].ver /\ Snapshot(g).gone = Meta[g].gone
      BY DEF Snapshot
    <3>6. CASE ~(d.doc[a].gone \/ d.doc[a].ver < Meta[e].ver)
      <4>1. d2.doc[a] = d.doc[a]
        BY <2>5, <3>6
      <4>2. Rises(L, d, a) => Rises(L, d2, a)
        BY <2>3, <3>1, <4>1 DEF Rises
      <4> QED BY <2>3, <3>1, <3>3, <4>1, <4>2 DEF DocAgrees
    <3>7. CASE d.doc[a].gone \/ d.doc[a].ver < Meta[e].ver
      <4>1. d2.doc[a] = Snapshot(e)
        BY <2>5, <3>7
      <4>2. \E h \in Searched(d.inbox, a) : Meta[h].gone /\ d.row[a] = Snapshot(h)
        <5>1. CASE d.doc[a] = d.row[a]
          <6>1. Meta[g].gone
            BY <2>4, <2>7, <3>2, <3>5, <3>7, <5>1
          <6> QED BY <3>2, <6>1
        <5>2. CASE Rises(L, d, a)
          BY <5>2 DEF Rises
        <5> QED BY <3>3, <5>1, <5>2 DEF DocAgrees
      <4>3. PICK h \in Searched(d.inbox, a) : Meta[h].gone /\ d.row[a] = Snapshot(h)
        BY <4>2
      <4>4. h \in d.inbox /\ h \in Events /\ h \in Searched(d2.inbox, a)
        BY <1>0, <2>3, <4>3 DEF Searched
      <4>5. SoonerOn(L, h, e) /\ Meta[e].ver <= Meta[h].ver
        BY <1>0, <3>1, <4>3, <4>4, NewIsLater, EnvelopeTypes
      <4>6. Rises(L, d2, a)
        BY <2>3, <3>1, <4>1, <4>3, <4>4, <4>5 DEF Rises
      <4> QED BY <2>3, <4>6 DEF DocAgrees
    <3> QED BY <3>6, <3>7
  <2> QED BY <2>6, <2>7
<1> QED BY <1>1, <1>2, <1>3 DEF EntityKinds

LEMMA LinksStay ==
    ASSUME NEW L \in Seq(Events), NEW d \in Databases, PrefixOf(L, d.inbox),
           NEW n \in 1 .. Len(L), Known(L[n]), NEW d2, Applied(d, d2, L[n], n),
           L[n] \notin d.inbox, d.link = Links(L, d.inbox)
    PROVE  d2.link = Links(L, d2.inbox)
<1> DEFINE e == L[n]
           b == Meta[e].agg
<1>0. /\ e \in Events /\ d.inbox \in SUBSET Events /\ d2.inbox = d.inbox \cup {e}
      /\ b \in Aggregates
  BY DatabaseFields, EnvelopeTypes DEF Applied
<1>1. \A a \in Aggregates :
        /\ a \in Links(L, d.inbox) <=>
             \E g \in d.inbox : /\ AddsTo(g, a)
                                /\ \A f \in d.inbox : RemovesFrom(f, a) => SoonerOn(L, f, g)
        /\ a \in Links(L, d2.inbox) <=>
             \E g \in d2.inbox : /\ AddsTo(g, a)
                                 /\ \A f \in d2.inbox : RemovesFrom(f, a) => SoonerOn(L, f, g)
  BY DEF Links
<1>2. Links(L, d.inbox) \in SUBSET Aggregates /\ Links(L, d2.inbox) \in SUBSET Aggregates
  BY DEF Links
<1>3. ASSUME NEW a \in Aggregates, ~AddsTo(e, a), ~RemovesFrom(e, a)
      PROVE  a \in Links(L, d2.inbox) <=> a \in Links(L, d.inbox)
  BY <1>0, <1>1, <1>3
<1>4. ASSUME NEW f \in d.inbox PROVE SoonerOn(L, f, e) /\ ~ SoonerOn(L, e, f)
  BY <1>0, NewIsLater
<1>5. \A a \in Aggregates : a # b => (a \in Links(L, d2.inbox) <=> a \in Links(L, d.inbox))
  BY <1>3 DEF AddsTo, RemovesFrom
<1>6. CASE Meta[e].kind \in AddedKinds
  <2>1. d2.link = d.link \cup {b} /\ AddsTo(e, b) /\ ~RemovesFrom(e, b)
    BY <1>6 DEF Applied, AddedKinds, RemovedKinds, EntityKinds, TenantKinds, HideableKinds,
                SearchedKinds, AddsTo, RemovesFrom
  <2>2. b \in Links(L, d2.inbox)
    <3>1. ASSUME NEW f \in d2.inbox, RemovesFrom(f, b) PROVE SoonerOn(L, f, e)
      <4>1. f # e
        BY <2>1, <3>1
      <4> QED BY <1>0, <1>4, <4>1
    <3>2. e \in d2.inbox /\ AddsTo(e, b)
      BY <1>0, <2>1
    <3> QED BY <1>0, <3>1, <3>2 DEF Links
  <2>3. \A a \in Aggregates : a \in d2.link <=> a \in Links(L, d2.inbox)
    BY <1>5, <2>1, <2>2
  <2>4. d2.link \in SUBSET Aggregates
    BY <1>0, <1>2, <2>1
  <2> QED BY <1>2, <2>3, <2>4
<1>7. CASE Meta[e].kind \in RemovedKinds
  <2>1. d2.link = d.link \ {b} /\ RemovesFrom(e, b) /\ ~AddsTo(e, b)
    BY <1>7 DEF Applied, AddedKinds, RemovedKinds, EntityKinds, TenantKinds, HideableKinds,
                SearchedKinds, AddsTo, RemovesFrom
  <2>2. b \notin Links(L, d2.inbox)
    <3>1. ASSUME NEW g \in d2.inbox, AddsTo(g, b) PROVE ~ SoonerOn(L, e, g)
      <4>1. g # e
        BY <2>1, <3>1
      <4> QED BY <1>0, <1>4, <4>1
    <3>2. e \in d2.inbox /\ RemovesFrom(e, b)
      BY <1>0, <2>1
    <3> QED BY <3>1, <3>2 DEF Links
  <2> QED BY <1>2, <1>5, <2>1, <2>2
<1>8. CASE Meta[e].kind \notin AddedKinds \cup RemovedKinds
  <2>1. d2.link = d.link
    BY <1>8 DEF Applied
  <2>2. \A a \in Aggregates : a \in Links(L, d2.inbox) <=> a \in Links(L, d.inbox)
    BY <1>3, <1>8 DEF AddsTo, RemovesFrom
  <2> QED BY <1>2, <2>1, <2>2
<1> QED BY <1>6, <1>7, <1>8

\* The transaction of the record at n, when all before it are done.
LEMMA TransactionIsSound ==
    ASSUME NEW L \in Seq(Events), NEW d \in Databases, SoundDb(L, d),
           NEW n \in 1 .. Len(L), Known(L[n]), Covers(L, d.inbox, n - 1)
    PROVE  LET d2 == ApplyEvent(d, L[n], n) IN
           /\ d2 \in Databases /\ SoundDb(L, d2)
           /\ d.inbox \subseteq d2.inbox /\ Covers(L, d2.inbox, n)
<1> DEFINE e == L[n]
           d2 == ApplyEvent(d, e, n)
<1>1. e \in Events /\ n \in Nat /\ Len(L) \in Nat /\ Applied(d, d2, e, n)
  BY ApplyEffect
<1> HIDE DEF d2
<1>2. d2 \in Databases /\ d2.inbox = d.inbox \cup {e} /\ d2.checkpoint \in {d.checkpoint, n}
  BY <1>1 DEF Applied
<1>3. Covers(L, d2.inbox, n)
  BY <1>1, <1>2 DEF Covers
<1>4. Covers(L, d2.inbox, d2.checkpoint) /\ d2.checkpoint <= Len(L)
  <2>1. Covers(L, d2.inbox, d.checkpoint)
    BY <1>2 DEF SoundDb, Covers
  <2> QED BY <1>2, <1>3, <2>1 DEF SoundDb
<1>5. PrefixOf(L, d2.inbox)
  <2>1. CASE e \in d.inbox
    <3>1. d2.inbox = d.inbox
      BY <1>2, <2>1
    <3> QED BY <3>1 DEF SoundDb
  <2>2. CASE e \notin d.inbox
    <3>1. PICK m \in 0 .. Len(L) :
            d.inbox = {g \in Events : Known(g) /\ \E k \in 1 .. m : L[k] = g}
      BY DEF SoundDb, PrefixOf
    <3>2. n \notin 1 .. m
      BY <1>1, <2>2, <3>1
    <3>3. ASSUME NEW g \in Events, Known(g), NEW k \in 1 .. n, L[k] = g
          PROVE  g \in d2.inbox
      BY <1>2, <1>3, <3>3 DEF Covers
    <3>4. ASSUME NEW g \in d2.inbox
          PROVE  g \in Events /\ Known(g) /\ \E k \in 1 .. n : L[k] = g
      <4>1. CASE g = e
        BY <1>1, <4>1
      <4>2. CASE g \in d.inbox
        <5>1. PICK k \in 1 .. m : L[k] = g
          BY <3>1, <4>2
        <5>2. k \in 1 .. n
          BY <3>2, <5>1
        <5> QED BY <3>1, <4>2, <5>1, <5>2
      <4> QED BY <1>2, <4>1, <4>2
    <3>5. d2.inbox = {g \in Events : Known(g) /\ \E k \in 1 .. n : L[k] = g}
      BY <3>3, <3>4
    <3> QED BY <3>5 DEF PrefixOf
  <2> QED BY <2>1, <2>2
<1>6. Latest(d2)
  BY <1>1, LatestStays DEF SoundDb
<1>7. Agrees(L, d2)
  <2>1. Agrees(L, d) /\ PrefixOf(L, d.inbox) /\ Latest(d)
    BY DEF SoundDb
  <2>2. CASE e \in d.inbox
    <3>1. d2.inbox = d.inbox /\ d2.row = d.row /\ d2.doc = d.doc /\ d2.link = d.link
      BY <1>1, <2>2 DEF Applied
    <3> QED BY <2>1, <3>1 DEF Agrees, DocAgrees, Rises
  <2>3. CASE e \notin d.inbox
    <3>1. d2.link = Links(L, d2.inbox)
      BY <1>1, <2>1, <2>3, LinksStay DEF Agrees
    <3>2. ASSUME NEW a \in Aggregates PROVE DocAgrees(L, d2, a)
      BY <1>1, <2>1, <2>3, DocsAgreeStays DEF Agrees
    <3> QED BY <3>1, <3>2 DEF Agrees
  <2> QED BY <2>2, <2>3
<1>8. SoundDb(L, d2)
  BY <1>4, <1>5, <1>6, <1>7 DEF SoundDb
<1> QED BY <1>2, <1>3, <1>8 DEF d2

-----------------------------------------------------------------------------
(* The steps. *)

LEMMA InitInv == Init => IInv
<1> SUFFICES ASSUME Init PROVE IInv
  OBVIOUS
<1>1. EmptyDb \in Databases
  BY DEF EmptyDb, Databases, Absent, Versioned
<1>2. log = << >> /\ Len(log) = 0 /\ log \in Seq(Events)
  BY DEF Init, LogInit
<1>3. TypeOK
  BY <1>1, <1>2, ProjectionAssumption DEF Init, LogInit, TypeOK
<1>4. /\ EmptyDb.inbox = {} /\ EmptyDb.checkpoint = 0 /\ EmptyDb.link = {}
      /\ \A a \in Aggregates : EmptyDb.row[a] = Absent /\ EmptyDb.doc[a] = Absent
  BY DEF EmptyDb
<1>5. PrefixOf(log, {})
  <2>1. 0 \in 0 .. Len(log) /\ {} = {e \in Events : Known(e) /\ \E k \in 1 .. 0 : log[k] = e}
    BY <1>2
  <2> QED BY <2>1 DEF PrefixOf
<1>6. /\ Links(log, {}) = {}
      /\ \A a \in Aggregates : Facts({}, a) = {} /\ Searched({}, a) = {}
  BY DEF Links, Facts, Searched
<1>7. SoundDb(log, EmptyDb)
  BY <1>2, <1>4, <1>5, <1>6 DEF SoundDb, Covers, Latest, Agrees, DocAgrees
<1>8. ASSUME NEW c \in Consumers PROVE ConsumerSound(c)
  BY ProjectionAssumption DEF Init, ConsumerSound
<1>9. Covers(log, db.inbox, groupOffset - 1)
  BY DEF Init, Covers
<1> QED BY <1>3, <1>7, <1>8, <1>9 DEF IInv, Init

\* What a consumer relies on survives the steps of the others.
LEMMA ConsumerStays ==
    ASSUME TypeOK, log' \in Seq(Events), LogGrows(log, log'), db.inbox \subseteq db'.inbox,
           NEW c \in Consumers, ConsumerSound(c),
           pc'[c] = pc[c], pos'[c] = pos[c], upto'[c] = upto[c],
           owner' = c => owner = c
    PROVE  ConsumerSound(c)'
<1>1. /\ pos[c] \in Nat /\ pos[c] > 0 /\ pos[c] - 1 \in Nat /\ upto[c] \in Nat
      /\ log \in Seq(Events) /\ Len(log) \in Nat /\ Len(log') \in Nat
      /\ Len(log) <= Len(log')
  BY DEF TypeOK, LogGrows
<1>2. ASSUME pos[c] - 1 <= Len(log), Covers(log, db.inbox, pos[c] - 1)
      PROVE  Covers(log', db'.inbox, pos[c] - 1)
  BY <1>1, <1>2, CoversStays
<1>3. ASSUME pos[c] <= Len(log), Covers(log, db.inbox, pos[c])
      PROVE  Covers(log', db'.inbox, pos[c])
  BY <1>1, <1>3, CoversStays
<1> QED BY <1>1, <1>2, <1>3 DEF ConsumerSound

LEMMA SameLog == ASSUME TypeOK, log' = log PROVE log' \in Seq(Events) /\ LogGrows(log, log')
  BY DEF TypeOK, LogGrows

\* Steps of a consumer that change neither database nor log.
LEMMA GroupStep ==
    ASSUME IInv, TypeOK', UNCHANGED <<log, db, backup>>, NEW c \in Consumers,
           \A x \in Consumers \ {c} :
              /\ pc'[x] = pc[x] /\ pos'[x] = pos[x] /\ upto'[x] = upto[x]
              /\ owner' = x => owner = x,
           ConsumerSound(c)', Covers(log, db.inbox, groupOffset' - 1)
    PROVE  IInv'
<1>1. ASSUME NEW x \in Consumers \ {c} PROVE ConsumerSound(x)'
  BY <1>1, SameLog, ConsumerStays DEF IInv
<1>2. Covers(log', db'.inbox, groupOffset' - 1) /\ SoundDb(log', db') /\ SoundDb(log', backup')
  BY DEF IInv
<1> QED BY <1>1, <1>2 DEF IInv

LEMMA StopKeeps ==
    ASSUME IInv, NEW c \in Consumers, Stop(c), UNCHANGED <<committed, log, db, backup, restores>>,
           groupOffset' \in 1 .. Len(log) + 1, Covers(log, db.inbox, groupOffset' - 1)
    PROVE  IInv'
<1>1. TypeOK'
  BY DEF IInv, TypeOK, Stop
<1>2. ASSUME NEW x \in Consumers \ {c}
      PROVE  /\ pc'[x] = pc[x] /\ pos'[x] = pos[x] /\ upto'[x] = upto[x]
             /\ owner' = x => owner = x
  BY <1>2, ProjectionAssumption DEF Stop, IInv, TypeOK
<1>3. ConsumerSound(c)'
  BY ProjectionAssumption DEF Stop, ConsumerSound, IInv, TypeOK
<1> QED BY <1>1, <1>2, <1>3, GroupStep

LEMMA SourceKeeps ==
    ASSUME IInv, Source
    PROVE  IInv'
<1>1. UNCHANGED <<db, backup, restores, groupOffset, owner, pc, pos, upto>>
  BY DEF Source, readVars, groupVars
<1>2. PICK e \in Events : Commit(e) \/ Publish(e)
  BY DEF Source
<1>3. committed' \subseteq Events
  BY <1>2 DEF Commit, Publish, IInv, TypeOK
<1>4. log' \in Seq(Events) /\ LogGrows(log, log')
  <2>1. log \in Seq(Events) /\ (log' = log \/ log' = Append(log, e))
    BY <1>2 DEF Commit, Publish, AppendRecord, IInv, TypeOK
  <2>2. CASE log' = log
    BY <2>2, SameLog DEF IInv
  <2>3. CASE log' = Append(log, e)
    BY <2>1, <2>3 DEF LogGrows
  <2> QED BY <2>1, <2>2, <2>3
<1>5. TypeOK'
  <2>1. groupOffset \in 1 .. Len(log') + 1
    BY <1>4 DEF LogGrows, IInv, TypeOK
  <2> QED BY <1>1, <1>3, <1>4, <2>1 DEF IInv, TypeOK
<1>6. ASSUME NEW c \in Consumers PROVE ConsumerSound(c)'
  BY <1>1, <1>4, ConsumerStays DEF IInv
<1>7. Covers(log', db'.inbox, groupOffset' - 1)
  <2>1. groupOffset - 1 \in Nat /\ groupOffset - 1 <= Len(log) /\ log \in Seq(Events)
    BY DEF IInv, TypeOK
  <2> QED BY <1>1, <1>4, <2>1, CoversStays DEF IInv
<1>8. SoundDb(log', db') /\ SoundDb(log', backup')
  BY <1>1, <1>4, DbStays DEF IInv, TypeOK
<1> QED BY <1>5, <1>6, <1>7, <1>8 DEF IInv

LEMMA HandleKeeps ==
    ASSUME IInv, NEW c \in Consumers, Handle(c)
    PROVE  IInv'
<1> DEFINE n == pos[c]
           e == log[n]
<1>1. /\ UNCHANGED <<committed, log, backup, restores, groupOffset, owner, pos, upto>>
      /\ pc[c] = "handle" /\ pc' = [pc EXCEPT ![c] = "commit"]
      /\ db' = IF Meta[e].kind = "unknown" THEN db ELSE ApplyEvent(db, e, n)
  BY DEF Handle
<1>2. /\ log \in Seq(Events) /\ Len(log) \in Nat /\ n \in 1 .. Len(log) /\ db \in Databases
      /\ n <= upto[c] /\ upto[c] <= Len(log) /\ Covers(log, db.inbox, n - 1)
  BY <1>1 DEF IInv, TypeOK, ConsumerSound
<1>3. /\ db' \in Databases /\ SoundDb(log, db') /\ db.inbox \subseteq db'.inbox
      /\ Covers(log, db'.inbox, n)
  <2>1. CASE Known(e)
    BY <1>1, <1>2, <2>1, TransactionIsSound DEF IInv, Known
  <2>2. CASE ~Known(e)
    <3>1. Covers(log, db.inbox, n)
      BY <1>2, <2>2 DEF Covers
    <3> QED BY <1>1, <1>2, <2>2, <3>1 DEF IInv, Known
  <2> QED BY <2>1, <2>2
<1> HIDE DEF n, e
<1>4. TypeOK'
  BY <1>1, <1>3 DEF IInv, TypeOK
<1>5. ASSUME NEW x \in Consumers, x # c PROVE ConsumerSound(x)'
  <2>1. pc'[x] = pc[x]
    BY <1>1, <1>5 DEF IInv, TypeOK
  <2> QED BY <1>1, <1>3, <2>1, SameLog, ConsumerStays DEF IInv
<1>6. ConsumerSound(c)'
  <2>1. pc'[c] = "commit" /\ pos'[c] = n /\ upto'[c] = upto[c]
    BY <1>1 DEF IInv, TypeOK, n
  <2>2. Covers(log', db'.inbox, n - 1)
    BY <1>1, <1>2, <1>3 DEF Covers
  <2> QED BY <1>1, <1>2, <1>3, <2>1, <2>2 DEF ConsumerSound
<1>7. Covers(log', db'.inbox, groupOffset' - 1)
  BY <1>1, <1>3 DEF IInv, Covers
<1> QED BY <1>1, <1>3, <1>4, <1>5, <1>6, <1>7 DEF IInv

LEMMA CommitKeeps ==
    ASSUME IInv, NEW c \in Consumers, CommitRecords(c)
    PROVE  IInv'
<1> DEFINE n == pos[c]
<1>1. /\ UNCHANGED <<committed, log, db, backup, restores, owner>>
      /\ pc[c] = "commit" /\ owner = c /\ groupOffset' = n + 1
      /\ pos' = [pos EXCEPT ![c] = n + 1]
      /\ pc' = [pc EXCEPT ![c] = IF n = upto[c] THEN "idle" ELSE "handle"]
      /\ upto' = [upto EXCEPT ![c] = IF n = upto[c] THEN 0 ELSE @]
  BY DEF CommitRecords, IInv, TypeOK
<1>2. /\ log \in Seq(Events) /\ Len(log) \in Nat /\ n \in 1 .. Len(log)
      /\ n <= upto[c] /\ upto[c] <= Len(log) /\ upto[c] \in Nat /\ Covers(log, db.inbox, n)
  BY <1>1 DEF IInv, TypeOK, ConsumerSound
<1> HIDE DEF n
<1>3. TypeOK'
  BY <1>1, <1>2 DEF IInv, TypeOK
<1>4. ASSUME NEW x \in Consumers \ {c}
      PROVE  /\ pc'[x] = pc[x] /\ pos'[x] = pos[x] /\ upto'[x] = upto[x]
             /\ owner' = x => owner = x
  BY <1>1, <1>4 DEF IInv, TypeOK
<1>5. n + 1 - 1 = n
  BY <1>2
<1>6. ConsumerSound(c)'
  <2>1. /\ pos'[c] = n + 1
        /\ IF n = upto[c] THEN pc'[c] = "idle"
           ELSE pc'[c] = "handle" /\ upto'[c] = upto[c]
    BY <1>1 DEF IInv, TypeOK
  <2>2. Covers(log', db'.inbox, pos'[c] - 1)
    <3>1. pos'[c] - 1 = n
      BY <1>2, <2>1
    <3>2. Covers(log, db.inbox, pos'[c] - 1)
      BY <1>2, <3>1
    <3> QED BY <1>1, <3>2
  <2> QED BY <1>1, <1>2, <2>1, <2>2 DEF ConsumerSound
<1>7. Covers(log, db.inbox, groupOffset' - 1)
  BY <1>1, <1>2, <1>5
<1> QED BY <1>1, <1>3, <1>4, <1>6, <1>7, GroupStep

LEMMA ConsumerKeeps ==
    ASSUME IInv, NEW c \in Consumers, ConsumerStep(c)
    PROVE  IInv'
<1>0. /\ TypeOK /\ ConsumerSound(c) /\ Covers(log, db.inbox, groupOffset - 1)
      /\ groupOffset \in 1 .. Len(log) + 1 /\ log \in Seq(Events) /\ Len(log) \in Nat
  BY DEF IInv, TypeOK
<1>1. CASE Restart(c)
  <2>1. TypeOK'
    BY <1>0, <1>1 DEF Restart, readVars, TypeOK
  <2>2. ASSUME NEW x \in Consumers \ {c}
        PROVE  /\ pc'[x] = pc[x] /\ pos'[x] = pos[x] /\ upto'[x] = upto[x]
               /\ owner' = x => owner = x
    BY <1>0, <1>1, <2>2 DEF Restart, TypeOK
  <2>3. ConsumerSound(c)'
    BY <1>0, <1>1 DEF Restart, TypeOK, ConsumerSound
  <2> QED BY <1>0, <1>1, <2>1, <2>2, <2>3, GroupStep DEF Restart, readVars
<1>2. CASE Assign(c)
  <2>1. TypeOK'
    BY <1>0, <1>2 DEF Assign, readVars, TypeOK
  <2>2. ASSUME NEW x \in Consumers \ {c}
        PROVE  /\ pc'[x] = pc[x] /\ pos'[x] = pos[x] /\ upto'[x] = upto[x]
               /\ owner' = x => owner = x
    BY <1>0, <1>2, <2>2 DEF Assign, TypeOK
  <2>3. ConsumerSound(c)'
    BY <1>0, <1>2 DEF Assign, readVars, TypeOK, ConsumerSound
  <2> QED BY <1>0, <1>2, <2>1, <2>2, <2>3, GroupStep DEF Assign, readVars
<1>3. CASE PollRecords(c)
  <2>1. PICK n \in pos[c] .. Len(log) : upto' = [upto EXCEPT ![c] = n]
    BY <1>3 DEF PollRecords
  <2>2. pos[c] \in Nat /\ pos[c] > 0 /\ n \in Nat /\ n <= Len(log) /\ pos[c] <= n
    BY <1>0, <2>1 DEF TypeOK
  <2>3. TypeOK'
    BY <1>0, <1>3, <2>1, <2>2 DEF PollRecords, readVars, TypeOK
  <2>4. ASSUME NEW x \in Consumers \ {c}
        PROVE  /\ pc'[x] = pc[x] /\ pos'[x] = pos[x] /\ upto'[x] = upto[x]
               /\ owner' = x => owner = x
    BY <1>0, <1>3, <2>1, <2>4 DEF PollRecords, TypeOK
  <2>5. ConsumerSound(c)'
    BY <1>0, <1>3, <2>1, <2>2 DEF PollRecords, readVars, TypeOK, ConsumerSound
  <2> QED BY <1>0, <1>3, <2>3, <2>4, <2>5, GroupStep DEF PollRecords, readVars
<1>4. CASE Handle(c)
  BY <1>4, HandleKeeps
<1>5. CASE HandleFailed(c) \/ Crash(c)
  BY <1>0, <1>5, StopKeeps DEF HandleFailed, Crash, readVars
<1>6. CASE CommitRecords(c)
  BY <1>6, CommitKeeps
<1>7. CASE CommitFailed(c)
  <2>1. groupOffset' \in 1 .. Len(log) + 1 /\ Covers(log, db.inbox, groupOffset' - 1)
    <3>1. CASE groupOffset' = groupOffset
      BY <1>0, <3>1
    <3>2. CASE groupOffset' = pos[c] + 1
      <4>1. /\ pos[c] \in 1 .. Len(log) /\ Covers(log, db.inbox, pos[c])
            /\ groupOffset' - 1 = pos[c]
        BY <1>0, <1>7, <3>2 DEF CommitFailed, ConsumerSound, TypeOK
      <4> QED BY <1>0, <3>2, <4>1
    <3> QED BY <1>7, <3>1, <3>2 DEF CommitFailed
  <2> QED BY <1>7, <2>1, StopKeeps DEF CommitFailed
<1> QED BY <1>1, <1>2, <1>3, <1>4, <1>5, <1>6, <1>7 DEF ConsumerStep

LEMMA OperatorKeeps ==
    ASSUME IInv, TakeBackup \/ Restore
    PROVE  IInv'
<1>1. CASE TakeBackup
  <2>1. TypeOK'
    BY <1>1 DEF TakeBackup, groupVars, IInv, TypeOK
  <2>2. UNCHANGED <<log, db, groupOffset, owner, pc, pos, upto>> /\ backup' = db
    BY <1>1 DEF TakeBackup, groupVars
  <2> QED BY <2>1, <2>2 DEF IInv, ConsumerSound
<1>2. CASE Restore
  <2>1. /\ UNCHANGED <<committed, log, backup, owner, pc, pos, upto>> /\ db' = backup
        /\ groupOffset' = backup.checkpoint + 1 /\ restores' = restores + 1
        /\ \A c \in Consumers : pc[c] = "down"
    BY <1>2 DEF Restore, groupVars
  <2>2. /\ backup \in Databases /\ backup.checkpoint \in Nat
        /\ backup.checkpoint <= Len(log) /\ Covers(log, backup.inbox, backup.checkpoint)
    BY DatabaseFields DEF IInv, TypeOK, SoundDb
  <2>3. groupOffset' - 1 = backup.checkpoint /\ groupOffset' \in 1 .. Len(log) + 1
    BY <2>1, <2>2 DEF IInv, TypeOK
  <2>4. restores' \in 0 .. MaxRestores
    BY <1>2, ProjectionAssumption DEF Restore, IInv, TypeOK
  <2>5. TypeOK'
    BY <2>1, <2>2, <2>3, <2>4 DEF IInv, TypeOK
  <2>6. ASSUME NEW c \in Consumers PROVE ConsumerSound(c)'
    BY <2>1 DEF IInv, ConsumerSound
  <2> QED BY <2>1, <2>2, <2>3, <2>5, <2>6 DEF IInv
<1> QED BY <1>1, <1>2

LEMMA InvariantHolds == Safety => []IInv
<1>1. IInv /\ [Next]_vars => IInv'
  <2> SUFFICES ASSUME IInv, [Next]_vars PROVE IInv'
    OBVIOUS
  <2>1. CASE UNCHANGED vars
    <3>1. UNCHANGED <<committed, log, db, backup, restores, groupOffset, owner, pc, pos, upto>>
      BY <2>1 DEF vars, readVars, groupVars
    <3>2. TypeOK'
      BY <3>1 DEF IInv, TypeOK
    <3> QED BY <3>1, <3>2 DEF IInv, ConsumerSound
  <2> QED BY <2>1, SourceKeeps, ConsumerKeeps, OperatorKeeps DEF Next
<1> QED BY <1>1, InitInv, PTL DEF Safety

(* The database and the group's state stay well formed, and the offset     *)
(* never passes the end of the log.                                        *)
THEOREM TypeCorrect == Safety => []TypeOK
<1>1. IInv => TypeOK
  BY DEF IInv
<1> QED BY <1>1, InvariantHolds, PTL

(* Resuming from the group's offset loses nothing: whoever committed it,   *)
(* everything below is in the database, also after a restore from a backup *)
(* that is older than the offset was (consumer.go Run; repository.go       *)
(* ApplyEvent, updateCheckpoint).                                          *)
THEOREM NothingIsSkipped == Safety => []CommittedIsProjected
<1>1. IInv => CommittedIsProjected
  BY DEF IInv, Covers, Known, CommittedIsProjected, Done
<1> QED BY <1>1, InvariantHolds, PTL

(* Every row shows the newest consumed version of its entity, in whatever  *)
(* order and however often the facts came (entities.go, the guard          *)
(* source_version < EXCLUDED.source_version).                              *)
THEOREM RowsShowTheNewest == Safety => []RowsAreLatest
<1>1. IInv => RowsAreLatest
  BY DEF IInv, SoundDb, Latest, Facts, RowsAreLatest
<1> QED BY <1>1, InvariantHolds, PTL

(* Duplicates, redeliveries, rebalances and restores leave no trace, for   *)
(* any log: the relations and the search documents are as if every fact    *)
(* had come once, where the log has it first, and a document differs from  *)
(* its row only where a deletion overtook an earlier version of the entity *)
(* (worker.go, repository.go ApplyEvent; activity.go, relations.go).       *)
THEOREM EveryFactCountsOnce == Safety => []DuplicatesAreHarmless
<1>1. IInv => DuplicatesAreHarmless
  <2> SUFFICES ASSUME IInv PROVE DuplicatesAreHarmless
    OBVIOUS
  <2>1. DOMAIN log = 1 .. Len(log) /\ Agrees(log, db)
    BY DEF IInv, TypeOK, SoundDb
  <2>2. \A e, f : SoonerOn(log, e, f) <=> Sooner(e, f)
    BY <2>1 DEF Sooner, SoonerOn
  <2>3. db.link = LinksOnLog
    BY <2>1, <2>2 DEF Agrees, Links, LinksOnLog, Consumed, AddsTo, RemovesFrom
  <2>4. ASSUME NEW a \in Aggregates, Consumed(a, SearchedKinds) # {}
        PROVE  db.doc[a] = db.row[a] \/ Resurfaced(a)
    <3>1. Searched(db.inbox, a) = Consumed(a, SearchedKinds)
      BY DEF Searched, Consumed
    <3>2. db.doc[a] = db.row[a] \/ Rises(log, db, a)
      BY <2>1, <2>4, <3>1 DEF Agrees, DocAgrees
    <3> QED BY <2>2, <3>1, <3>2 DEF Rises, Resurfaced
  <2> QED BY <2>3, <2>4 DEF DuplicatesAreHarmless
<1> QED BY <1>1, InvariantHolds, PTL

-----------------------------------------------------------------------------
(* Where the histories of the facts come from: any service that implements *)
(* History commits the facts of an aggregate in the order of its versions. *)

HistoryTypeOK ==
    /\ version \in [Entities -> Nat]
    /\ announced \in [Entities -> Seq(Nat)]

\* One more version is announced after those that are not greater than n.
LEMMA LaterVersion ==
    ASSUME NEW told \in Seq(Nat), NEW n \in Nat,
           \A j, k \in DOMAIN told : j < k => told[j] < told[k],
           told # << >> => told[Len(told)] = n
    PROVE  LET next == Append(told, n + 1) IN
           /\ next \in Seq(Nat)
           /\ \A j, k \in DOMAIN next : j < k => next[j] < next[k]
           /\ next[Len(next)] = n + 1
<1> DEFINE next == Append(told, n + 1)
<1>1. /\ Len(told) \in Nat /\ DOMAIN told = 1 .. Len(told)
      /\ \A k \in DOMAIN told : told[k] \in Nat
  BY LenProperties, ElementOfSeq
<1>2. /\ next \in Seq(Nat) /\ Len(next) = Len(told) + 1 /\ DOMAIN next = 1 .. Len(told) + 1
      /\ next[Len(told) + 1] = n + 1
      /\ \A k \in DOMAIN told : next[k] = told[k]
  BY <1>1, AppendProperties, LenProperties
<1>3. ASSUME NEW k \in DOMAIN told PROVE told[k] <= n
  <2>1. told # << >> /\ told[Len(told)] = n /\ Len(told) \in DOMAIN told
    BY <1>1, <1>3
  <2>2. k = Len(told) \/ k < Len(told)
    BY <1>1
  <2> QED BY <1>1, <2>1, <2>2
<1> HIDE DEF next
<1>4. ASSUME NEW j \in DOMAIN next, NEW k \in DOMAIN next, j < k PROVE next[j] < next[k]
  <2>1. j \in DOMAIN told
    BY <1>1, <1>2, <1>4
  <2>2. CASE k \in DOMAIN told
    BY <1>2, <1>4, <2>1, <2>2
  <2>3. CASE k = Len(told) + 1
    <3>1. next[j] <= n /\ next[j] \in Nat
      BY <1>1, <1>2, <1>3, <2>1
    <3> QED BY <1>2, <2>3, <3>1
  <2> QED BY <1>1, <1>2, <2>2, <2>3
<1> QED BY <1>2, <1>4 DEF next

(* The events of an aggregate carry growing versions in the order in which *)
(* their transactions commit, and the last one carries the version of the  *)
(* row: of a service that implements History the newest version consumed,  *)
(* which RowsAreLatest shows, is the last of the row (insertOutbox of the  *)
(* services).                                                              *)
THEOREM HistoriesAreOrdered == HistorySpec => []VersionsGrow
<1>1. HistoryInit => HistoryTypeOK /\ VersionsGrow
  <2> SUFFICES ASSUME HistoryInit, NEW x \in Entities
               PROVE  /\ \A j, k \in DOMAIN announced[x] : j < k => announced[x][j] < announced[x][k]
                      /\ announced[x] # << >> => announced[x][Len(announced[x])] = version[x]
    BY DEF HistoryInit, HistoryTypeOK, VersionsGrow
  <2>1. announced[x] = << >> \/ announced[x] = <<version[x]>>
    BY DEF HistoryInit
  <2>2. CASE announced[x] = << >>
    BY <2>2
  <2>3. CASE announced[x] = <<version[x]>>
    BY <2>3
  <2> QED BY <2>1, <2>2, <2>3
<1>2. HistoryTypeOK /\ VersionsGrow /\ [HistoryNext]_historyVars => HistoryTypeOK' /\ VersionsGrow'
  <2> SUFFICES ASSUME HistoryTypeOK, VersionsGrow, [HistoryNext]_historyVars
               PROVE  HistoryTypeOK' /\ VersionsGrow'
    OBVIOUS
  <2>1. CASE UNCHANGED historyVars
    BY <2>1 DEF historyVars, HistoryTypeOK, VersionsGrow
  <2>2. ASSUME NEW x \in Entities, ChangeAndAnnounce(x)
        PROVE  HistoryTypeOK' /\ VersionsGrow'
    <3> DEFINE next == Append(announced[x], version[x] + 1)
    <3>1. announced[x] \in Seq(Nat) /\ version[x] \in Nat
      BY DEF HistoryTypeOK
    <3>2. /\ next \in Seq(Nat)
          /\ \A j, k \in DOMAIN next : j < k => next[j] < next[k]
          /\ next[Len(next)] = version[x] + 1
      <4>1. /\ \A j, k \in DOMAIN announced[x] : j < k => announced[x][j] < announced[x][k]
            /\ announced[x] # << >> => announced[x][Len(announced[x])] = version[x]
        BY DEF VersionsGrow
      <4> QED BY <3>1, <4>1, LaterVersion
    <3> HIDE DEF next
    <3>3. /\ version' = [version EXCEPT ![x] = version[x] + 1]
          /\ announced' = [announced EXCEPT ![x] = next]
      BY <2>2 DEF ChangeAndAnnounce, next
    <3>4. HistoryTypeOK'
      BY <3>1, <3>2, <3>3 DEF HistoryTypeOK
    <3>5. ASSUME NEW y \in Entities
          PROVE  /\ \A j, k \in DOMAIN announced'[y] : j < k => announced'[y][j] < announced'[y][k]
                 /\ announced'[y] # << >> => announced'[y][Len(announced'[y])] = version'[y]
      <4>1. CASE y = x
        <5>1. announced'[y] = next /\ version'[y] = version[x] + 1
          BY <3>3, <4>1 DEF HistoryTypeOK
        <5> QED BY <3>2, <5>1
      <4>2. CASE y # x
        <5>1. announced'[y] = announced[y] /\ version'[y] = version[y]
          BY <3>3, <4>2 DEF HistoryTypeOK
        <5> QED BY <5>1 DEF VersionsGrow
      <4> QED BY <4>1, <4>2
    <3> QED BY <3>4, <3>5 DEF VersionsGrow
  <2> QED BY <2>1, <2>2 DEF HistoryNext
<1> QED BY <1>1, <1>2, PTL DEF HistorySpec

-----------------------------------------------------------------------------
(***************************************************************************)
(* The lists of the read model, and those of the services, are read page   *)
(* by page (Paging).  A page is what the query returns at one moment, so   *)
(* the proof is about two things: that a page is a piece of the list       *)
(* without gaps, whatever the limit, and that what lies before the cursor  *)
(* was returned.  The search is left out, as in the property: its WHERE    *)
(* does not follow its ORDER BY.                                           *)
(***************************************************************************)
\* A row that stayed at its place was returned, and once unless the list
\* repeats its last page, exactly when the cursor has passed it.
CursorTells ==
    /\ state \in Going /\ cursor = NoCursor =>
          state = "reading" /\ \A r \in steady : count[r] = 0
    /\ state \in Going /\ cursor # NoCursor =>
          \A r \in steady :
             /\ ~Follows(Key(r), cursor) =>
                   count[r] > 0 /\ (list.repeats \/ count[r] = 1)
             /\ Follows(Key(r), cursor) => list.repeats \/ count[r] = 0
    /\ state = "repeating" => \A r \in steady : count[r] > 0
    /\ state = "done" => \A r \in steady : count[r] = 1

WalkInv == PagingTypeOK /\ (list # Search => CursorTells)

-----------------------------------------------------------------------------
(* The order of a list.                                                    *)

\* What is known of every list.
LEMMA ListsAreOrdered ==
    ASSUME list \in Lists
    PROVE  /\ list.query.order \in {"ascending", "descending", "mixed"}
           /\ list # Search => list.query.order # "mixed"
           /\ list.more \in {"full", "extra", "any"}
           /\ list.repeats \in BOOLEAN
<1> USE DEF List, ById, ByTime, RepeatsLast
<1>1. CASE list = ListTenants
  BY <1>1 DEF ListTenants, queryTenants
<1>2. CASE list = ListMembers
  BY <1>2 DEF ListMembers, queryMembers
<1>3. CASE list = ListCompanies
  BY <1>3 DEF ListCompanies, queryCompanies
<1>4. CASE list = ListAgents
  BY <1>4 DEF ListAgents, queryAgents
<1>5. CASE list = ListGoals
  BY <1>5 DEF ListGoals, queryGoals
<1>6. CASE list = ListProjects
  BY <1>6 DEF ListProjects, queryProjects
<1>7. CASE list = ListTasks
  BY <1>7 DEF ListTasks, queryTasks
<1>8. CASE list = ListPolicies
  BY <1>8 DEF ListPolicies, queryPolicies
<1>9. CASE list = ListDecisions
  BY <1>9 DEF ListDecisions, queryDecisions
<1>10. CASE list = ListConnections
  BY <1>10 DEF ListConnections, queryConnections
<1>11. CASE list = ListModelOfferings
  BY <1>11 DEF ListModelOfferings, queryOfferings
<1>12. CASE list = ListAgentOverviews
  BY <1>12 DEF ListAgentOverviews, queryAgentOverviews
<1>13. CASE list = ListTaskActivity
  BY <1>13 DEF ListTaskActivity, queryTaskActivity
<1>14. CASE list = Search
  BY <1>14 DEF Search, querySearch
<1> QED BY <1>1, <1>2, <1>3, <1>4, <1>5, <1>6, <1>7, <1>8, <1>9, <1>10, <1>11, <1>12, <1>13, <1>14
        DEF Lists

\* ORDER BY is a strict order of the keys, and WHERE follows it but for the
\* search.
LEMMA KeysAreOrdered ==
    ASSUME list.query.order \in {"ascending", "descending", "mixed"}
    PROVE  /\ \A k \in Keys : ~Precedes(k, k)
           /\ \A k, m \in Keys : k = m \/ Precedes(k, m) \/ Precedes(m, k)
           /\ \A k, m, n \in Keys : Precedes(k, m) /\ Precedes(m, n) => Precedes(k, n)
           /\ list.query.order # "mixed" =>
                 \A k, m \in Keys : Follows(k, m) <=> Precedes(m, k)
<1> DEFINE Pairs == Nat \X Nat
           Mixed(k, m) == m[1] < k[1] \/ (m[1] = k[1] /\ k[2] < m[2])
<1>1. Keys \subseteq Pairs
  <2>1. Times \cup {0} \subseteq Nat /\ Rows \subseteq Nat
    BY PagingAssumption
  <2> QED BY <2>1 DEF Keys
<1>2. /\ \A k \in Pairs : ~Less(k, k)
      /\ \A k, m \in Pairs : k = m \/ Less(k, m) \/ Less(m, k)
      /\ \A k, m, n \in Pairs : Less(k, m) /\ Less(m, n) => Less(k, n)
  BY DEF Less
<1>3. /\ \A k \in Pairs : ~Mixed(k, k)
      /\ \A k, m \in Pairs : k = m \/ Mixed(k, m) \/ Mixed(m, k)
      /\ \A k, m, n \in Pairs : Mixed(k, m) /\ Mixed(m, n) => Mixed(k, n)
  OBVIOUS
<1>4. \A k, m :
         /\ list.query.order = "ascending" =>
               (Precedes(k, m) <=> Less(k, m)) /\ (Follows(k, m) <=> Less(m, k))
         /\ list.query.order = "descending" =>
               (Precedes(k, m) <=> Less(m, k)) /\ (Follows(k, m) <=> Less(k, m))
         /\ list.query.order = "mixed" => (Precedes(k, m) <=> Mixed(k, m))
  BY DEF Precedes, Follows
<1> HIDE DEF Pairs, Mixed
<1>5. CASE list.query.order = "ascending"
  BY <1>1, <1>2, <1>4, <1>5
<1>6. CASE list.query.order = "descending"
  BY <1>1, <1>2, <1>4, <1>6
<1>7. CASE list.query.order = "mixed"
  BY <1>1, <1>3, <1>4, <1>7
<1> QED BY <1>5, <1>6, <1>7

LEMMA KeysOfRows ==
    ASSUME times \in [Rows -> Times]
    PROVE  /\ \A r \in Rows : Key(r) \in Keys /\ Key(r) # NoCursor
           /\ \A r, s \in Rows : Key(r) = Key(s) => r = s
  BY DEF Key, Keys, NoCursor

\* Row s stands before row r.
RowBefore(s, r) == Precedes(Key(s), Key(r))

LEMMA RowsAreOrdered ==
    ASSUME PagingTypeOK
    PROVE  /\ \A r \in Rows : ~RowBefore(r, r)
           /\ \A r, s \in Rows : r = s \/ RowBefore(r, s) \/ RowBefore(s, r)
           /\ \A r, s, t \in Rows : RowBefore(r, s) /\ RowBefore(s, t) => RowBefore(r, t)
  BY ListsAreOrdered, KeysAreOrdered, KeysOfRows DEF PagingTypeOK, RowBefore

-----------------------------------------------------------------------------
(* What a page holds.                                                      *)

\* A set of rows that is not empty has a last one and a first one: a chain
\* of ever smaller sets of rows ends.
LEMMA LastExists ==
    ASSUME PagingTypeOK,
           NEW S \in SUBSET Rows, S # {}
    PROVE  /\ \E r \in S : \A s \in S : s = r \/ RowBefore(s, r)
           /\ \E r \in S : \A s \in S : s = r \/ RowBefore(r, s)
<1> DEFINE Behind(r) == {s \in Rows : RowBefore(r, s)}
           Ahead(r) == {s \in Rows : RowBefore(s, r)}
<1>1. IsWellFoundedOn(StrictSubsetOrdering(Rows), SUBSET Rows)
  BY FS_StrictSubsetOrderingWellFounded, FS_FiniteSubsetsOfFinite, PagingAssumption
<1>2. \A U, V \in SUBSET Rows : U \subseteq V /\ U # V => <<U, V>> \in StrictSubsetOrdering(Rows)
  BY DEF StrictSubsetOrdering
<1>3. ASSUME NEW r \in S, NEW s \in S, RowBefore(r, s)
      PROVE  /\ Behind(s) \subseteq Behind(r) /\ Behind(s) # Behind(r)
             /\ Ahead(r) \subseteq Ahead(s) /\ Ahead(r) # Ahead(s)
  <2>1. s \in Behind(r) /\ s \notin Behind(s) /\ r \in Ahead(s) /\ r \notin Ahead(r)
    BY <1>3, RowsAreOrdered
  <2>2. Behind(s) \subseteq Behind(r) /\ Ahead(r) \subseteq Ahead(s)
    BY <1>3, RowsAreOrdered
  <2> QED BY <2>1, <2>2
<1>4. \E r \in S : \A s \in S : s = r \/ RowBefore(s, r)
  <2> DEFINE T == {Behind(r) : r \in S}
  <2>1. T \subseteq SUBSET Rows /\ T # {}
    OBVIOUS
  <2>2. PICK U \in T : \A V \in T : ~(<<V, U>> \in StrictSubsetOrdering(Rows))
    <3> HIDE DEF T
    <3> QED BY <1>1, <2>1, WFMin
  <2>3. PICK r \in S : U = Behind(r)
    BY <2>2
  <2>4. ASSUME NEW s \in S, s # r, ~RowBefore(s, r) PROVE FALSE
    <3>1. RowBefore(r, s)
      BY <2>4, RowsAreOrdered
    <3>2. Behind(s) \in T /\ Behind(s) \in SUBSET Rows /\ U \in SUBSET Rows
      BY <2>3
    <3> QED BY <1>2, <1>3, <2>2, <2>3, <3>1, <3>2
  <2> QED BY <2>4
<1>5. \E r \in S : \A s \in S : s = r \/ RowBefore(r, s)
  <2> DEFINE T == {Ahead(r) : r \in S}
  <2>1. T \subseteq SUBSET Rows /\ T # {}
    OBVIOUS
  <2>2. PICK U \in T : \A V \in T : ~(<<V, U>> \in StrictSubsetOrdering(Rows))
    <3> HIDE DEF T
    <3> QED BY <1>1, <2>1, WFMin
  <2>3. PICK r \in S : U = Ahead(r)
    BY <2>2
  <2>4. ASSUME NEW s \in S, s # r, ~RowBefore(r, s) PROVE FALSE
    <3>1. RowBefore(s, r)
      BY <2>4, RowsAreOrdered
    <3>2. Ahead(s) \in T /\ Ahead(s) \in SUBSET Rows /\ U \in SUBSET Rows
      BY <2>3
    <3> QED BY <1>2, <1>3, <2>2, <2>3, <3>1, <3>2
  <2> QED BY <2>4
<1> QED BY <1>4, <1>5

\* The rows of the query that stand before row r.
AheadOf(r) == {s \in Matching : RowBefore(s, r)}

LEMMA MatchingIsFinite ==
    ASSUME PagingTypeOK
    PROVE  /\ Matching \in SUBSET Rows /\ IsFiniteSet(Matching)
           /\ \A r : IsFiniteSet(AheadOf(r)) /\ Cardinality(AheadOf(r)) \in Nat
           /\ \A n : /\ Limited(n) \subseteq Matching /\ IsFiniteSet(Limited(n))
                    /\ Cardinality(Limited(n)) \in Nat
                    /\ \A r \in Matching : r \in Limited(n) <=> Cardinality(AheadOf(r)) < n
<1>1. Matching \in SUBSET Rows
  BY DEF Matching, PagingTypeOK
<1>2. \A S \in SUBSET Rows : IsFiniteSet(S) /\ Cardinality(S) \in Nat
  BY FS_Subset, FS_CardinalityType, PagingAssumption
<1>3. \A r : AheadOf(r) \in SUBSET Rows
  BY <1>1 DEF AheadOf
<1>4. ASSUME NEW n
      PROVE  /\ Limited(n) \subseteq Matching
             /\ \A r \in Matching : r \in Limited(n) <=> Cardinality(AheadOf(r)) < n
  BY DEF Limited, AheadOf, RowBefore
<1> QED BY <1>1, <1>2, <1>3, <1>4

\* A page is the beginning of what is left of the list, and as long as the
\* limit unless it is all that is left.
LEMMA PageIsBeginning ==
    ASSUME PagingTypeOK, NEW n \in Nat \ {0}
    PROVE  /\ \A r \in Limited(n), s \in Matching : RowBefore(s, r) => s \in Limited(n)
           /\ Limited(n) # Matching => Cardinality(Limited(n)) = n
<1> DEFINE M == Matching
           L == Limited(n)
<1>1. /\ M \in SUBSET Rows /\ L \subseteq M /\ IsFiniteSet(L) /\ Cardinality(L) \in Nat
      /\ \A r : IsFiniteSet(AheadOf(r)) /\ Cardinality(AheadOf(r)) \in Nat
      /\ \A r \in M : r \in L <=> Cardinality(AheadOf(r)) < n
  BY MatchingIsFinite
<1>2. ASSUME NEW r \in M, NEW s \in M, RowBefore(s, r)
      PROVE  Cardinality(AheadOf(s)) <= Cardinality(AheadOf(r))
  <2>1. AheadOf(s) \in SUBSET AheadOf(r)
    BY <1>1, <1>2, RowsAreOrdered DEF AheadOf
  <2> QED BY <1>1, <2>1, FS_Subset
<1> HIDE DEF M, L
<1>3. \A r \in L, s \in M : RowBefore(s, r) => s \in L
  BY <1>1, <1>2
<1>4. ASSUME L # M PROVE Cardinality(L) = n
  <2>1. M \ L \in SUBSET Rows /\ M \ L # {}
    BY <1>1, <1>4
  <2>2. PICK r \in M \ L : \A s \in M \ L : s = r \/ RowBefore(r, s)
    BY <2>1, LastExists
  <2>3. L = AheadOf(r)
    <3>1. ASSUME NEW s \in L PROVE s \in AheadOf(r)
      <4>1. s # r /\ ~RowBefore(r, s)
        BY <1>1, <1>3, <2>2
      <4> QED BY <1>1, <2>2, <4>1, RowsAreOrdered DEF AheadOf, M
    <3>2. ASSUME NEW s \in AheadOf(r) PROVE s \in L
      <4>1. s \in M /\ RowBefore(s, r) /\ s \in Rows /\ r \in Rows
        BY <1>1, <2>2 DEF AheadOf, M
      <4>2. s # r /\ ~RowBefore(r, s)
        BY <4>1, RowsAreOrdered
      <4> QED BY <2>2, <4>1, <4>2
    <3> QED BY <3>1, <3>2
  <2>4. Cardinality(L) >= n
    BY <1>1, <2>2, <2>3
  <2>5. L \in SUBSET Rows /\ L # {}
    BY <1>1, <2>4, FS_EmptySet
  <2>6. PICK l \in L : \A s \in L : s = l \/ RowBefore(s, l)
    BY <2>5, LastExists
  <2>7. AheadOf(l) = L \ {l}
    <3>1. ASSUME NEW s \in AheadOf(l) PROVE s \in L /\ s # l
      <4>1. s \in M /\ RowBefore(s, l) /\ l \in Rows
        BY <1>1, <2>6 DEF AheadOf, M
      <4> QED BY <1>3, <2>6, <4>1, RowsAreOrdered
    <3>2. ASSUME NEW s \in L, s # l PROVE s \in AheadOf(l)
      BY <1>1, <2>6, <3>2 DEF AheadOf, M
    <3> QED BY <3>1, <3>2
  <2>8. Cardinality(AheadOf(l)) = Cardinality(L) - 1
    BY <1>1, <2>6, <2>7, FS_RemoveElement
  <2>9. Cardinality(AheadOf(l)) < n
    BY <1>1, <2>6
  <2> QED BY <1>1, <2>4, <2>8, <2>9
<1> QED BY <1>3, <1>4 DEF L, M

\* Without a token everything that is left is on the page, in whichever way
\* the list looks for more.
LEMMA NoMoreIsAll ==
    ASSUME PagingTypeOK, NEW n \in Nat \ {0}, ~HasMore(n)
    PROVE  Limited(n) = Matching
<1>0. list.more \in {"full", "extra", "any"}
  BY ListsAreOrdered DEF PagingTypeOK
<1>1. CASE list.more = "full"
  BY <1>1, PageIsBeginning DEF HasMore
<1>2. CASE list.more = "extra"
  <2>1. ~(Cardinality(Limited(n + 1)) > n)
    BY <1>2 DEF HasMore
  <2>2. n + 1 \in Nat \ {0} /\ Cardinality(Limited(n + 1)) \in Nat
    BY MatchingIsFinite
  <2>3. Limited(n + 1) = Matching
    BY <2>1, <2>2, PageIsBeginning
  <2>4. ASSUME NEW r \in Matching PROVE r \in Limited(n)
    <3>1. AheadOf(r) \in SUBSET Matching /\ r \notin AheadOf(r)
      BY MatchingIsFinite, RowsAreOrdered DEF AheadOf
    <3>2. /\ Cardinality(AheadOf(r)) <= Cardinality(Matching)
          /\ Cardinality(Matching) # Cardinality(AheadOf(r))
      BY <3>1, MatchingIsFinite, FS_Subset
    <3>3. Cardinality(AheadOf(r)) \in Nat
      BY MatchingIsFinite
    <3>4. Cardinality(AheadOf(r)) < n
      BY <2>1, <2>2, <2>3, <3>2, <3>3
    <3> QED BY <3>4, MatchingIsFinite
  <2> QED BY <2>4, MatchingIsFinite
<1>3. CASE list.more = "any"
  <2>1. Limited(n) = {}
    BY <1>3 DEF HasMore
  <2> QED BY <2>1, PageIsBeginning, FS_EmptySet
<1> QED BY <1>0, <1>1, <1>2, <1>3

\* With a token the page has a last row, which the token names.
LEMMA MoreHasLast ==
    ASSUME PagingTypeOK, NEW n \in Nat \ {0}, HasMore(n)
    PROVE  /\ LastOf(Limited(n)) \in Limited(n)
           /\ \A s \in Limited(n) :
                 s = LastOf(Limited(n)) \/ RowBefore(s, LastOf(Limited(n)))
<1>0. list.more \in {"full", "extra", "any"}
  BY ListsAreOrdered DEF PagingTypeOK
<1>1. Limited(n) # {}
  <2> SUFFICES ASSUME Limited(n) = {} PROVE FALSE
    OBVIOUS
  <2>1. Matching = {} /\ Cardinality({}) = 0
    BY PageIsBeginning, FS_EmptySet
  <2>2. Limited(n + 1) = {}
    BY <2>1, MatchingIsFinite
  <2>3. /\ list.more = "full" => 0 = n
        /\ list.more = "extra" => 0 > n
        /\ list.more = "any" => FALSE
    BY <2>1, <2>2 DEF HasMore
  <2> QED BY <1>0, <2>3
<1>2. Limited(n) \in SUBSET Rows
  BY MatchingIsFinite
<1>3. \E r \in Limited(n) : \A s \in Limited(n) : s = r \/ RowBefore(s, r)
  BY <1>1, <1>2, LastExists
<1> QED BY <1>3 DEF LastOf, RowBefore

-----------------------------------------------------------------------------
(* The walk.                                                               *)

\* Whatever size is asked for, a page has room for a row.
LEMMA PagesHaveRoom ==
    ASSUME NEW size \in Sizes
    PROVE  normalizePageSize(size) \in Nat \ {0}
  BY PagingAssumption DEF normalizePageSize

\* What a page of at most n rows does to the cursor and to the counts.
PageStep(n) ==
    /\ count' = [r \in Rows |-> IF r \in Limited(n) /\ count[r] < 2
                                  THEN count[r] + 1 ELSE count[r]]
    /\ cursor' = NextToken(n)
    /\ state' = IF cursor' = NoCursor THEN "done"
                ELSE IF HasMore(n) THEN "reading" ELSE "repeating"
    /\ state \in Going
    /\ UNCHANGED <<list, listed, times, changes, steady>>

LEMMA PageSteps ==
    ASSUME PagingTypeOK, NEW size \in Sizes, ReadPage(size)
    PROVE  \E n \in Nat \ {0} : PageStep(n) /\ cursor' \in Keys \cup {NoCursor}
<1> DEFINE n == normalizePageSize(size)
<1>1. n \in Nat \ {0}
  BY PagesHaveRoom
<1>2. PageStep(n)
  BY DEF ReadPage, table, PageStep
<1> HIDE DEF n
<1>3. NextToken(n) \in Keys \cup {NoCursor}
  <2>1. CASE HasMore(n)
    <3>1. LastOf(Limited(n)) \in Rows
      BY <1>1, <2>1, MoreHasLast, MatchingIsFinite
    <3> QED BY <2>1, <3>1, KeysOfRows DEF NextToken, PagingTypeOK
  <2>2. CASE ~HasMore(n)
    BY <2>2 DEF NextToken, PagingTypeOK
  <2> QED BY <2>1, <2>2
<1> QED BY <1>1, <1>2, <1>3 DEF PageStep

LEMMA WalkTypes ==
    ASSUME PagingTypeOK, [PagingNext]_pagingVars
    PROVE  PagingTypeOK'
<1>1. CASE UNCHANGED pagingVars
  BY <1>1 DEF pagingVars, table, walk, PagingTypeOK, Keys
<1>2. ASSUME NEW size \in Sizes, ReadPage(size) PROVE PagingTypeOK'
  <2>1. PICK n \in Nat \ {0} : PageStep(n) /\ cursor' \in Keys \cup {NoCursor}
    BY <1>2, PageSteps
  <2>2. count' \in [Rows -> 0 .. 2]
    BY <2>1 DEF PagingTypeOK, PageStep
  <2>3. state' \in Going \cup {"done", "refused"}
    BY <2>1 DEF Going, PageStep
  <2> QED BY <2>1, <2>2, <2>3 DEF PagingTypeOK, Keys, PageStep
<1>3. CASE RefusePage
  BY <1>3 DEF RefusePage, PagingTypeOK, Keys, table
<1>4. ASSUME NEW r \in Rows, NEW t \in Times, AddRow(r, t) \/ MoveRow(r, t) PROVE PagingTypeOK'
  <2>1. changes' \in 0 .. MaxChanges /\ UNCHANGED <<list, state, cursor, count>>
    BY <1>4, PagingAssumption DEF AddRow, MoveRow, Change, PagingTypeOK, walk
  <2>2. times' = [times EXCEPT ![r] = t]
    BY <1>4 DEF AddRow, MoveRow
  <2>3. times' \in [Rows -> Times]
    BY <2>2 DEF PagingTypeOK
  <2>4. listed' \subseteq Rows /\ steady' \subseteq listed'
    BY <1>4 DEF AddRow, MoveRow, PagingTypeOK
  <2> QED BY <2>1, <2>3, <2>4 DEF PagingTypeOK, Keys
<1>5. ASSUME NEW r \in Rows, RemoveRow(r) PROVE PagingTypeOK'
  <2>1. /\ changes' \in 0 .. MaxChanges /\ times' \in [Rows -> Times]
        /\ listed' \subseteq Rows /\ steady' \subseteq listed'
        /\ UNCHANGED <<list, state, cursor, count>>
    BY <1>5, PagingAssumption DEF RemoveRow, Change, PagingTypeOK, walk
  <2> QED BY <2>1 DEF PagingTypeOK, Keys
<1> QED BY <1>1, <1>2, <1>3, <1>4, <1>5 DEF PagingNext

\* A change of the table leaves the steady rows where they are.
LEMMA TableTells ==
    ASSUME CursorTells, UNCHANGED <<list, state, cursor, count>>,
           steady' \subseteq steady, \A r \in steady' : times'[r] = times[r]
    PROVE  CursorTells'
<1>1. \A r \in steady' : Key(r)' = Key(r)
  BY DEF Key
<1>2. \A r \in steady' : Follows(Key(r), cursor)' <=> Follows(Key(r), cursor)
  BY <1>1 DEF Follows, Less
<1> QED BY <1>2 DEF CursorTells, Going

\* A page returns the steady rows from the cursor to the next one, and no other.
LEMMA PageTells ==
    ASSUME PagingTypeOK, list # Search, CursorTells,
           NEW n \in Nat \ {0}, PageStep(n)
    PROVE  CursorTells'
<1> DEFINE Passed(r) == cursor # NoCursor /\ ~Follows(Key(r), cursor)
           Page == Limited(n)
<1>1. /\ \A r \in steady : r \in Rows /\ (Passed(r) \/ r \in Matching)
      /\ \A r \in Matching : ~Passed(r) /\ r \in Rows
  BY DEF Matching, PagingTypeOK
<1>2. Page \subseteq Matching
  BY MatchingIsFinite
<1>3. ASSUME NEW r \in steady, Passed(r)
      PROVE  r \notin Page /\ count'[r] = count[r] /\ count[r] > 0 /\ (list.repeats \/ count[r] = 1)
  <2>1. r \notin Page
    BY <1>1, <1>2, <1>3
  <2>2. count'[r] = count[r]
    BY <1>1, <2>1 DEF PageStep
  <2>3. count[r] > 0 /\ (list.repeats \/ count[r] = 1)
    BY <1>3 DEF CursorTells, PageStep
  <2> QED BY <2>1, <2>2, <2>3
<1>4. ASSUME NEW r \in steady, ~Passed(r)
      PROVE  /\ list.repeats \/ count[r] = 0
             /\ cursor = NoCursor => count[r] = 0
             /\ r \in Page => /\ count'[r] > 0
                              /\ count[r] = 0 => count'[r] = 1
             /\ r \notin Page => count'[r] = count[r]
  <2>1. /\ list.repeats \/ count[r] = 0
        /\ cursor = NoCursor => count[r] = 0
    BY <1>4 DEF CursorTells, PageStep
  <2>2. count[r] \in 0 .. 2 /\ r \in Rows
    BY <1>1 DEF PagingTypeOK
  <2>3. count'[r] = IF r \in Page /\ count[r] < 2 THEN count[r] + 1 ELSE count[r]
    BY <2>2 DEF PageStep
  <2> QED BY <2>1, <2>2, <2>3
<1>5. \A r \in Rows : Key(r)' = Key(r)
  BY DEF Key, PageStep
<1>6. steady' = steady /\ list' = list
  BY DEF PageStep
<1>7. \A r \in Rows : Follows(Key(r), cursor)' <=> Follows(Key(r), cursor')
  BY <1>5, <1>6 DEF Follows, Less
<1>8. /\ \A r \in Rows : Key(r) \in Keys /\ Key(r) # NoCursor
      /\ \A k, m \in Keys : Follows(k, m) <=> Precedes(m, k)
      /\ \A k, m \in Keys : k = m \/ Precedes(k, m) \/ Precedes(m, k)
      /\ \A k, m, p \in Keys : Precedes(k, m) /\ Precedes(m, p) => Precedes(k, p)
  BY KeysOfRows, ListsAreOrdered, KeysAreOrdered DEF PagingTypeOK
<1>9. cursor \in Keys \cup {NoCursor}
  BY DEF PagingTypeOK
<1> HIDE DEF Passed, Page
<1>10. CASE HasMore(n)
  <2> DEFINE last == LastOf(Page)
  <2>1. last \in Page /\ \A s \in Page : s = last \/ RowBefore(s, last)
    BY <1>10, MoreHasLast DEF Page
  <2> HIDE DEF last
  <2>2. last \in Rows /\ last \in Matching
    BY <1>1, <1>2, <2>1
  <2>3. cursor' = Key(last) /\ cursor' # NoCursor /\ state' = "reading"
    BY <1>8, <1>10, <2>2 DEF PageStep, NextToken, last, Page
  <2>4. \A r \in steady : Follows(Key(r), cursor)' <=> RowBefore(last, r)
    BY <1>1, <1>7, <1>8, <2>2, <2>3 DEF RowBefore
  <2>5. ASSUME NEW r \in steady, ~RowBefore(last, r)
        PROVE  count'[r] > 0 /\ (list.repeats \/ count'[r] = 1)
    <3>1. CASE Passed(r)
      BY <1>3, <3>1
    <3>2. CASE ~Passed(r)
      <4>1. r \in Matching /\ (r = last \/ RowBefore(r, last))
        BY <1>1, <2>2, <2>5, <3>2, RowsAreOrdered
      <4>2. r \in Page
        BY <2>1, <4>1, PageIsBeginning DEF Page
      <4> QED BY <1>4, <3>2, <4>2
    <3> QED BY <3>1, <3>2
  <2>6. ASSUME NEW r \in steady, RowBefore(last, r) PROVE list.repeats \/ count'[r] = 0
    <3>1. r \notin Page
      BY <1>1, <2>1, <2>2, <2>6, RowsAreOrdered
    <3>2. ~Passed(r)
      <4> SUFFICES ASSUME Passed(r) PROVE FALSE
        OBVIOUS
      <4>1. cursor \in Keys /\ ~Follows(Key(r), cursor)
        BY <1>9 DEF Passed
      <4>2. Follows(Key(last), cursor)
        BY <1>1, <2>2, <4>1 DEF Passed
      <4>3. RowBefore(r, last)
        BY <1>1, <1>8, <2>2, <4>1, <4>2 DEF RowBefore
      <4> QED BY <1>1, <2>2, <2>6, <4>3, RowsAreOrdered
    <3> QED BY <1>4, <3>1, <3>2
  <2> QED BY <1>6, <2>3, <2>4, <2>5, <2>6 DEF CursorTells
<1>11. CASE ~HasMore(n)
  <2>1. Page = Matching
    BY <1>11, NoMoreIsAll DEF Page
  <2>2. \A r \in steady : /\ count'[r] > 0
                          /\ list.repeats \/ count'[r] = 1
                          /\ cursor = NoCursor => count'[r] = 1
    BY <1>1, <1>3, <1>4, <2>1 DEF Passed
  <2>3. cursor' = IF list.repeats THEN cursor ELSE NoCursor
    BY <1>11 DEF PageStep, NextToken
  <2>4. CASE cursor' = NoCursor
    <3>1. state' = "done"
      BY <2>4 DEF PageStep
    <3> QED BY <1>6, <2>2, <2>3, <2>4, <3>1 DEF CursorTells, Going
  <2>5. CASE cursor' # NoCursor
    <3>1. state' = "repeating" /\ list.repeats
      BY <1>11, <2>3, <2>5 DEF PageStep
    <3> QED BY <1>6, <2>2, <2>5, <3>1 DEF CursorTells, Going
  <2> QED BY <2>4, <2>5
<1> QED BY <1>10, <1>11

LEMMA WalkKeeps ==
    ASSUME WalkInv, [PagingNext]_pagingVars
    PROVE  WalkInv'
<1>1. PagingTypeOK /\ PagingTypeOK'
  BY WalkTypes DEF WalkInv
<1>2. list' = list
  BY DEF PagingNext, ReadPage, RefusePage, AddRow, RemoveRow, MoveRow, Change, pagingVars
<1>3. SUFFICES ASSUME list # Search PROVE CursorTells'
  BY <1>1, <1>2 DEF WalkInv, Search, RepeatsLast, List, querySearch, ByTime
<1>4. CursorTells
  BY <1>3 DEF WalkInv
<1>5. CASE UNCHANGED pagingVars
  BY <1>4, <1>5, TableTells DEF pagingVars, table, walk
<1>6. ASSUME NEW size \in Sizes, ReadPage(size) PROVE CursorTells'
  BY <1>1, <1>3, <1>4, <1>6, PageSteps, PageTells
<1>7. CASE RefusePage
  BY <1>7 DEF RefusePage, CursorTells, Going
<1>8. ASSUME NEW r \in Rows, NEW t \in Times, AddRow(r, t) \/ MoveRow(r, t)
      PROVE  CursorTells'
  <2>1. /\ times' = [times EXCEPT ![r] = t] /\ UNCHANGED <<list, state, cursor, count>>
        /\ steady' \subseteq steady /\ r \notin steady'
    BY <1>1, <1>8 DEF AddRow, MoveRow, Change, walk, PagingTypeOK
  <2>2. \A s \in steady' : times'[s] = times[s]
    BY <1>1, <2>1 DEF PagingTypeOK
  <2> QED BY <1>4, <2>1, <2>2, TableTells
<1>9. ASSUME NEW r \in Rows, RemoveRow(r) PROVE CursorTells'
  BY <1>4, <1>9, TableTells DEF RemoveRow, Change, walk
<1> QED BY <1>5, <1>6, <1>7, <1>8, <1>9 DEF PagingNext

(* Whatever is added, leaves or moves during a walk, for any rows and any  *)
(* page sizes: at the last page every row that was there all the time has  *)
(* been returned, and once where the walk ends, although no request knows  *)
(* of the one before and each of the services looks for more in its own    *)
(* way (the List methods, and the queries of the projection).              *)
THEOREM WalksListEveryRow == PagingSpec => []EveryRowIsListed
<1>1. PagingInit => WalkInv
  <2> SUFFICES ASSUME PagingInit PROVE WalkInv
    OBVIOUS
  <2>1. PagingTypeOK
    BY PagingAssumption DEF PagingInit, PagingTypeOK, Going
  <2>2. CursorTells
    BY DEF PagingInit, CursorTells, Going
  <2> QED BY <2>1, <2>2 DEF WalkInv
<1>2. WalkInv /\ [PagingNext]_pagingVars => WalkInv'
  BY WalkKeeps
<1>3. WalkInv => EveryRowIsListed
  BY DEF WalkInv, CursorTells, EveryRowIsListed, PagingTypeOK
<1> QED BY <1>1, <1>2, <1>3, PTL DEF PagingSpec
=============================================================================
