--------------------------- MODULE MCOrganization ---------------------------
EXTENDS Organization, TLC

CONSTANTS a1, a2, c1, c2, q1, q2

Symmetry == Permutations({a1, a2}) \cup Permutations({c1, c2})
              \cup Permutations({q1, q2})

=============================================================================
