SPECIFICATION Spec
CONSTANTS
  Total = 2
  Keep = 1
  Injectors = {i1}
  ExitPackets = 1
  ExitSyns = 1
  MaxEnters = 1
  Attempts = 1
  MaxGen = 0
  MaxRebinds = 0
  MaxPauses = 0
INVARIANTS
  ReannounceCatchesUp
  ModeAgreesSequentially
CHECK_DEADLOCK FALSE
