SPECIFICATION Spec
CONSTANTS
  Workers = {w1, w2}
  Values = {v1, v2}
  NoValue = none
  PerCredential = 2
  Ladder = 1
  MaxGen = 2
  MaxHolds = 2
SYMMETRY Symmetry
INVARIANTS
  AllocationsAreCounted
  OneRotationPerGeneration
  ParkingKeepsCredential
  FlightHasOwner
PROPERTY
  RejectedIsNotServed
CHECK_DEADLOCK FALSE
