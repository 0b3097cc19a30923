----------------------------- MODULE MCTaskPool ------------------------------
(* TaskPool for TLC: threads and tasks are interchangeable.                  *)
EXTENDS TaskPool, TLC

Symmetry == Permutations(Tasks) \cup Permutations(Workers) \cup Permutations(Clients)
=============================================================================
