------------------------- MODULE MCTrajectoryServices -------------------------
(* TrajectoryServices for TLC. *)
EXTENDS TrajectoryServices
=============================================================================
