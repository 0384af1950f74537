SPECIFICATION Spec
CONSTANTS
  Senders = {s1}
  FromBlocks = {1}
  FromBlocksL1 = {0}
  FirstHeight = 1
  FirstL1 = 1
  MaxNonce = 1
  MaxBlocks = 4
  MaxFaults = 1
INVARIANTS
  FailedFetchIsRetried
CHECK_DEADLOCK FALSE
