SPECIFICATION OrderSpec
CONSTANTS
  Worker = {w1}
  None = None
  WorkerTimeout = 1
  MaxSequence = 3
  MaxUrgent = 2
  MaxPosition = 6
  MaxBatch = 3
PROPERTY SubmittedJobsWaitLast
