\* One daemon started twice, one job, a network that fails and recovers: what
\* reports record, and what must happen in the end.
SPECIFICATION FairSpec
CONSTANTS
  Worker = {w1}
  None = None
  WorkerTimeout = 1
  MaxSequence = 1
  MaxUrgent = 0
  MaxPosition = 2
  MaxBatch = 1
  MaxStarts = 2
  MaxRuns = 2
  MaxLate = 0
INVARIANTS
  OutcomesAreReal
PROPERTIES
  AssignmentsProceed
  CancellationTakesEffect
  ReportsSettle
