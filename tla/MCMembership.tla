---------------------------- MODULE MCMembership ----------------------------
EXTENDS Membership, TLC

CONSTANTS u1, u2, u3, q1, q2

Symmetry == Permutations({u1, u2, u3}) \cup Permutations({q1, q2})

=============================================================================
