SPECIFICATION LocalSpec
CONSTANTS
  LocalPersist = FALSE
  MaxLocal = 2
  MaxPlace = 2
  MaxAhead = 0
  MaxHandlers = 1
INVARIANT CancellationRemembered
