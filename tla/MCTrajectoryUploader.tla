------------------------- MODULE MCTrajectoryUploader --------------------------
\* Two trajectories one after another, submaps of two range data.
EXTENDS TrajectoryUploader
=============================================================================
