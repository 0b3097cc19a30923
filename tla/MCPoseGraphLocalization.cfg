\* A frozen map from a file, localization in it, and its deletion; no symmetry.
SPECIFICATION LiveSpec
CONSTANTS
  Trajs = {1, 2}
  Localizing = {2}
  Loaded = {1}
  MayDelete = {1}
  Patient = TRUE
  Workers = {w1, w2}
  NumRangeData = 1
  OptimizeEvery = 1
  SubmapsToKeep = 2
  MaxNodes = 2
  MaxAllNodes = 2
  MaxData = 0
  MaxFinals = 1
  None = None
INVARIANTS
  SearchesReachable
  ReferencesResolve
PROPERTIES
  CallsReturn
