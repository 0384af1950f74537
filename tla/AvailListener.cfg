SPECIFICATION Spec
CONSTANTS
  FromBlocks = {0, 1}
  L1ReadDelay = 1
  L1Lag = 1
  MaxTime = 3
  MaxL1 = 2
  MaxAvail = 3
  MaxFaults = 2
INVARIANTS
  TypeOK
  OrderIsCanonical
PROPERTIES
  EventuallyStored
CHECK_DEADLOCK FALSE
