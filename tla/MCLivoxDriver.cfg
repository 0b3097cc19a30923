SPECIFICATION LiveSpec
CONSTANTS
  QueueSize = 2
  IndexRange = 4
  Frames = 4
  MaxImu = 2
INVARIANTS NothingForgotten
PROPERTIES ImplementsFrameFifo StreamFlows DestructorReturns
