SPECIFICATION Spec
CONSTANTS
  InputBoxBlock = 0
  MaxBlocks = 3
  MaxFailures = 2
INVARIANTS
  TypeOK
  NoSkip
  WillBeRead
PROPERTIES
  AllStored
CHECK_DEADLOCK FALSE
