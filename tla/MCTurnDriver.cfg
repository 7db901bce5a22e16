SPECIFICATION FairSpec
CONSTANTS
  Stream = FALSE
  MaxTransmissions = 1
  MaxNonceRetries = 1
  MaxChannelFailures = 2
  EventCapacity = 64
INVARIANTS
  TransientsArePending
  KnownIsReleased
  ViewFollowsCore
  EndIsReported
PROPERTIES
  DriverEnds
  ImplementsPhase
  MismatchIsNamed
CHECK_DEADLOCK FALSE
