SPECIFICATION Spec
CONSTANTS
  Handlers = {}
  MaxWork = 1
  MaxOutputs = 2
  MaxDbErrors = 1
  MaxCrashes = 0
CHECK_DEADLOCK FALSE
INVARIANT RejectedPublishesNothing
