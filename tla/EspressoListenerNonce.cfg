SPECIFICATION Spec
CONSTANTS
  Senders = {s1}
  FromBlocks = {1}
  FromBlocksL1 = {0}
  FirstHeight = 1
  FirstL1 = 1
  MaxNonce = 1
  MaxBlocks = 4
  MaxFaults = 0
INVARIANTS
  CommentedNoncesAreStored
CHECK_DEADLOCK FALSE
