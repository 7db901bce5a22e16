SPECIFICATION Spec
CONSTANTS
  Window = 3
  Half = 6
  First = 7
  Last = 16
  Reorder = 4
  Burst = 5
INVARIANTS
  AcceptedOnceIfClean
PROPERTY
  FreshIsAccepted
