\* The collator that all trajectories share, as on the car; topic 1 is common to
\* all of them; a frozen state.
SPECIFICATION LiveSpec
CONSTANTS
  Trajectories = {0, 1, 2}
  Sensors = {1, 2}
  CollateByTrajectory = FALSE
  RangeSensors = {1, 2}
  SensorSets = {{1}, {1, 2}}
  DefaultTopics = {}
  Loaded = "frozen"
  Trimmer = TRUE
  Skew = FALSE
  Horizon = 2
  MaxQueue = 2
  None = None
INVARIANTS
  NoCheckFails
  TopicsInUse
  ShutdownIsClean
PROPERTIES
  FinishTakesEffect
\* The node stops after the shutdown.
CHECK_DEADLOCK FALSE
