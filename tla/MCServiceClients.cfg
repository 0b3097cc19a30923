\* Both modes; when mapping, the node may come up after the script; when
\* localizing, the user waits until the pose is set.
SPECIFICATION LiveClientsSpec
CONSTANTS
  Trajectories = {0, 1, 2, 3, 4}
  Sensors = {1, 2}
  CollateByTrajectory = FALSE
  RangeSensors = {1}
  SensorSets = {{1, 2}}
  DefaultTopics = {1, 2}
  Loaded = "frozen"
  Trimmer = TRUE
  None = None
  LateNode = TRUE
  Patient = TRUE
  MaxClicks = 3
INVARIANTS
  NumberIsCurrent
PROPERTIES
  SavedIfServed
  LastPoseIsSet
\* The script ends, and every click has been answered.
CHECK_DEADLOCK FALSE
