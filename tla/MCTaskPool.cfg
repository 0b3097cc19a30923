\* Three tasks, two threads, two concurrent clients; no symmetry, for liveness.
SPECIFICATION Spec
CONSTANTS
  Tasks = {t1, t2, t3}
  Workers = {w1, w2}
  Clients = {c1, c2}
  None = None
INVARIANTS
  NoCheckFails
  RunsAfterDependencies
  DrainedWhenJoined
PROPERTIES
  ImplementsTaskGraph
