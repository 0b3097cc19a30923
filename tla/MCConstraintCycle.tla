--------------------------- MODULE MCConstraintCycle ---------------------------
(* ConstraintCycle for TLC: submaps, nodes and callbacks are interchangeable. *)
EXTENDS ConstraintCycle, TLC

Symmetry ==
  Permutations(Submaps) \cup Permutations(Nodes) \cup Permutations(Callbacks)
=============================================================================
