\* Two trajectories with up to two sensors, one OrderedMultiQueue.
SPECIFICATION Spec
CONSTANTS
  Trajectories = {1, 2}
  Sensors = {1, 2}
  CollateByTrajectory = FALSE
  LateStart = FALSE
  Horizon = 3
  MaxWaiting = 4
  None = None
INVARIANTS
  NoCheckFails
  StartIsCovered
  NothingStranded
\* The system stops when all trajectories are finished, or when a CHECK fails.
CHECK_DEADLOCK FALSE
