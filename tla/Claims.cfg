SPECIFICATION Spec
CONSTANTS
  Height = 2
  EpochBlocks = 2
  MaxBlocks = 4
  MaxOutputs = 3
  MaxFailures = 1
INVARIANTS
  TypeOK
  ProofsLeadToClaims
  ClaimsAreRoots
  OneClaimPerEpoch
PROPERTIES
  AllProven
CHECK_DEADLOCK FALSE
