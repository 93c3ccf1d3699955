---- MODULE MCWork ----
EXTENDS TaskDetails, TLC

\* Requests are alike, and so are the stored tasks.
Interchangeable == Permutations(Clients) \cup Permutations(Tasks \cap Stored)
====
