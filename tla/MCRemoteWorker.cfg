\* One daemon started twice, one job: every loss, delay, stop and crash.
SPECIFICATION SystemSpec
CONSTANTS
  Worker = {w1}
  None = None
  WorkerTimeout = 1
  MaxSequence = 1
  MaxUrgent = 0
  MaxPosition = 2
  MaxBatch = 1
  MaxStarts = 2
  MaxRuns = 2
  MaxLate = 1
INVARIANTS
  DaemonTypeOK
  LaunchedOnce
