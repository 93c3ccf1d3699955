------------------------------ MODULE EventLog ------------------------------
(***************************************************************************)
(* What the transactional outbox promises to the consumers of a topic: the *)
(* Kafka log holds only facts whose transaction committed, and every       *)
(* committed fact reaches the log at least once.  Nothing is promised      *)
(* about order or about duplicates.  Outbox implements this specification; *)
(* Projection takes it as the description of its input.                    *)
(***************************************************************************)
EXTENDS Naturals, Sequences, FiniteSets

CONSTANTS
    Events,     \* the facts the services of the platform may commit
    MaxRepeats  \* bound: records that repeat an earlier one of the log

ASSUME MaxRepeatsAssumption == MaxRepeats \in Nat

VARIABLES
    committed,  \* facts whose database transaction committed
    log         \* one Kafka partition: a sequence of facts

logVars == <<committed, log>>

OnLog(e) == \E k \in DOMAIN log : log[k] = e

\* The records of the partition that carry a fact once more.
Repeats == {k \in DOMAIN log : \E j \in 1 .. k - 1 : log[j] = log[k]}

\* A record beyond MaxRepeats that repeats one already present is left out.
AppendRecord(e) ==
    log' = IF OnLog(e) /\ Cardinality(Repeats) >= MaxRepeats THEN log ELSE Append(log, e)

LogInit ==
    /\ committed = {}
    /\ log = << >>

Commit(e) ==
    /\ e \notin committed
    /\ committed' = committed \cup {e}
    /\ UNCHANGED log

Publish(e) ==
    /\ e \in committed
    /\ AppendRecord(e)
    /\ UNCHANGED committed

FirstPublish(e) == ~OnLog(e) /\ Publish(e)

LogNext == \E e \in Events : Commit(e) \/ Publish(e)

LogSafety == LogInit /\ [][LogNext]_logVars

LogFairness == \A e \in Events : WF_logVars(FirstPublish(e))

LogSpec == LogSafety /\ LogFairness
=============================================================================
