SPECIFICATION FairSpec
CONSTANTS
  Host = host
  NetMonitor = net
  WakeMonitor = wake
  Connections = {c1}
  Routines = {r1, r2}
  FailThreshold = 1
  MaxRecycles = 1
  Builds <- MCBuilds
  MaxEvents = 2
INVARIANTS
  RecycleIsExclusive
  InFlightIsWatched
  PauseIsWatched
PROPERTY
  NetbackNotNeeded
CHECK_DEADLOCK FALSE
