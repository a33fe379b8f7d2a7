\* Three invocations in any order and overlap.
SPECIFICATION FairSpec
CONSTANTS
  Invocation = {i1, i2, i3}
  None = None
INVARIANTS
  ManagementTypeOK
  OneDaemon
  SocketLeadsToWorker
  OneIdentity
  StopIsComplete
PROPERTIES
  CommandsReturn
  FailedStartLeavesNothing
CHECK_DEADLOCK FALSE
