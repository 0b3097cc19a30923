SPECIFICATION LiveSpec
CONSTANTS
  NumTrajectories = 2
  NumRangeData = 2
  Indices = 3
  BatchSize = 2
  MaxQueue = 1
  ShortOutages = TRUE
  None = None
INVARIANTS NoCheckFails NothingLeftOut
PROPERTIES UploadResumes ShutdownReturns
