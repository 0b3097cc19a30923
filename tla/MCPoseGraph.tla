------------------------------ MODULE MCPoseGraph ------------------------------
(* PoseGraph for TLC: the threads of the pool are interchangeable.           *)
EXTENDS PoseGraph, TLC

Symmetry == Permutations(Workers)
=============================================================================
