---------------------------- MODULE MCProjection ----------------------------
(***************************************************************************)
(* Small histories for Projection.  Facts are numbered in the order in     *)
(* which the source services commit them.                                  *)
(***************************************************************************)
EXTENDS Projection, TLC

CONSTANTS c1, c2, a1, a2

Fact(kind, agg, ver, gone, at) ==
    [kind |-> kind, agg |-> agg, ver |-> ver, gone |-> gone, at |-> at]

\* An agent is created and deleted, and an event type comes that the consumer
\* ignores; or a task is assigned and unassigned.
SmallMeta ==
    (1 :> Fact("agent", a1, 1, FALSE, 1)) @@
    (2 :> Fact("agent_deleted", a1, 2, TRUE, 2)) @@
    (3 :> Fact("unknown", a1, 1, FALSE, 3)) @@
    (4 :> Fact("assigned", a2, 1, FALSE, 1)) @@
    (5 :> Fact("unassigned", a2, 1, FALSE, 2))

FactIds == 1 .. 5

SmallHistories == {{1, 2, 3}, {4, 5}}
=============================================================================
