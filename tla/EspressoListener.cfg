SPECIFICATION Spec
CONSTANTS
  Senders = {s1}
  FromBlocks = {0, 1}
  FromBlocksL1 = {0, 1}
  FirstHeight = 1
  FirstL1 = 2
  MaxNonce = 1
  MaxBlocks = 4
  MaxFaults = 2
INVARIANTS
  TypeOK
  OrderIsCanonical
  NothingLost
  L1WithoutHoles
  NoncesInOrder
  
PROPERTIES
  EventuallyStored
CHECK_DEADLOCK FALSE
