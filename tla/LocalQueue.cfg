\* Two jobs in a database file: every request, stop, crash and restart.
SPECIFICATION LocalFairSpec
CONSTANTS
  LocalPersist = TRUE
  MaxLocal = 2
  MaxPlace = 3
  MaxAhead = 0
  MaxHandlers = 1
INVARIANTS
  LocalTypeOK
  LoopOwnsRunning
  NeverReplayed
  LocalSuccessIsReal
PROPERTIES
  LocalFifo
  LocalImplementsLifecycle
  StopCompletes
