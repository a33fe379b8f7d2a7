\* Two places for requests, two variables and room for one of them.
SPECIFICATION AccessSpec
CONSTANTS
  Worker = {w1}
  None = None
  WorkerTimeout = 1
  MaxSequence = 1
  MaxUrgent = 0
  MaxPosition = 1
  MaxBatch = 1
  Request = {r1, r2}
  Name = {a, b}
  MaxVariables = 1
  Key = {k1, k2}
  EncryptionKey = {k1}
  MaxSeconds = 2
  MaxTime = 2
  MaxTokens = 2
SYMMETRY AccessSymmetry
INVARIANTS
  AccessTypeOK
  LimitKept
  ValuesOnlyOverHttps
  TokensLastAsAsked
PROPERTIES
  EnvironmentIsSnapshot
  AssignedWithEnvironment
  ObservedExpiryIsReal
