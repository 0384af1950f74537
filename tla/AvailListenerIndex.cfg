SPECIFICATION Spec
CONSTANTS
  FromBlocks = {1}
  L1ReadDelay = 1
  L1Lag = 1
  MaxTime = 3
  MaxL1 = 2
  MaxAvail = 3
  MaxFaults = 0
INVARIANTS
  IndexFromGenesis
CHECK_DEADLOCK FALSE
