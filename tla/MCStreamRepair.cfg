SPECIFICATION RepairSpec
CONSTANTS
  Readers = {r1, r2}
  MaxSeq = 3
  MaxSessions = 2
SYMMETRY Symmetry
INVARIANTS
  OneRestartPerSequence
  EscalationBeforeRestart
CHECK_DEADLOCK FALSE
