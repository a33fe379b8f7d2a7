SPECIFICATION SystemSpec
CONSTANTS
  Worker = {w1}
  None = None
  WorkerTimeout = 1
  MaxSequence = 1
  MaxUrgent = 0
  MaxPosition = 2
  MaxBatch = 1
  MaxStarts = 1
  MaxRuns = 2
  MaxLate = 0
INVARIANT CancelledOnlyWhenAsked
