---- MODULE MCCredentials ----
EXTENDS Credentials, TLC

CONSTANTS k1, k2, r1, r2, i1, w1

RequestSymmetry == Permutations(Requests)
====
