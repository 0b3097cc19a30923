SPECIFICATION LiveSpec
CONSTANTS
  Fresh = 3
  JoyDelay = 1
  DriveDelay = 0
  CmdDelay = 0
  Ahead = 1
INVARIANTS SilenceStops HumanOverrides ReleaseStops
PROPERTIES CarFollowsKey
