\* Two daemons and one job that one of them may lose to the other.
SPECIFICATION PairSpec
CONSTANTS
  Worker = {w1, w2}
  None = None
  WorkerTimeout = 1
  MaxSequence = 1
  MaxUrgent = 0
  MaxPosition = 3
  MaxBatch = 1
  MaxStarts = 2
  MaxRuns = 3
  MaxLate = 0
SYMMETRY WorkerSymmetry
INVARIANTS
  OutcomesAreReal
