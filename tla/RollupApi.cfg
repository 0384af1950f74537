SPECIFICATION Spec
CONSTANTS
  Unreadable = {1}
  FinishRetries = 2
  MaxInputs = 2
  MaxInspects = 1
  MaxDeaths = 1
  MaxTimeouts = 1
INVARIANTS
  TypeOK
  VerdictIsRecorded
  OutputsGoHome
PROPERTIES
  AllProcessed
