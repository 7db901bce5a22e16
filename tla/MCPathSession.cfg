SPECIFICATION Spec
CONSTANTS
  Total = 2
  Keep = 1
  Injectors = {i1}
  ExitPackets = 2
  ExitSyns = 2
  MaxEnters = 0
  Attempts = 2
  MaxGen = 2
  MaxRebinds = 1
  MaxPauses = 1
INVARIANTS
  ConnectSeesRebind
  ReannounceCatchesUp
PROPERTY
  LossClosesOwnEpoch
CHECK_DEADLOCK FALSE
