\* Two trajectories of SLAM: the first may be deleted, a trimmer keeps two submaps
\* of the second, which has up to three.
SPECIFICATION Spec
CONSTANTS
  Trajs = {1, 2}
  Localizing = {2}
  Loaded = {}
  MayDelete = {1}
  Patient = TRUE
  Workers = {w1, w2}
  NumRangeData = 1
  OptimizeEvery = 1
  SubmapsToKeep = 2
  MaxNodes = 3
  MaxAllNodes = 4
  MaxData = 0
  MaxFinals = 0
  None = None
SYMMETRY Symmetry
INVARIANTS
  NoCheckFails
  OneDrainer
  EveryPairOnce
  ReferencesResolve
PROPERTIES
  SolveUndisturbed
