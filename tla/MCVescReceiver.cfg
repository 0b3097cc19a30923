SPECIFICATION LiveReceiverSpec
CONSTANTS
  Base = 4
  MaxPayload = 10
  Data = {0, 2, 3}
  MaxLine = 2
  MaxNoise = 1
INVARIANTS CutsDoNotMatter
PROPERTIES TelemetryFlows
\* The node ends.
CHECK_DEADLOCK FALSE
