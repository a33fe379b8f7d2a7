\* Two jobs on pages of one and a worker that takes them, or four workers.
SPECIFICATION SmallCliSpec
CONSTANTS
  Worker <- SmallIds
  None = None
  WorkerTimeout = 1
  MaxSequence = 2
  MaxUrgent = 1
  MaxPosition = 3
  MaxBatch = 1
  PageSize = 1
  MinLabel = 1
INVARIANTS
  CliTypeOK
  HandledOnce
PROPERTIES
  ListingIsFaithful
  ActsOnSelected
  LabelsAreSafe
CHECK_DEADLOCK FALSE
