\* Two submaps, two nodes, two ends of node in any number of cycles; no symmetry.
SPECIFICATION LiveCycleSpec
CONSTANTS
  Submaps = {s1, s2}
  Nodes = {n1, n2}
  Callbacks = {cb1}
  MaxEnds = 2
  NoCallback = NoCallback
INVARIANTS
  NoDanglingPointer
PROPERTIES
  CalledWithEverything
  CallbackCalled
