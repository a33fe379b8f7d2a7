\* Two workers and two jobs: every request, every interleaving.
SPECIFICATION Spec
CONSTANTS
  Worker = {w1, w2}
  None = None
  WorkerTimeout = 1
  MaxSequence = 2
  MaxUrgent = 1
  MaxPosition = 3
  MaxBatch = 2
SYMMETRY WorkerSymmetry
INVARIANTS
  TypeOK
  AssignmentsAgree
  RunDetailsMatch
  CancelReachesHolder
PROPERTIES
  PauseRespected
  ImplementsLifecycle
  WaitingOrderKept
