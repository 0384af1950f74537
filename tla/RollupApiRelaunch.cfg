SPECIFICATION Spec
CONSTANTS
  Unreadable = {}
  FinishRetries = 2
  MaxInputs = 1
  MaxInspects = 0
  MaxDeaths = 1
  MaxTimeouts = 0
PROPERTIES
  FirstFinishIgnored
