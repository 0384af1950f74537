SPECIFICATION Spec
CONSTANTS
  Handlers = {h1}
  MaxWork = 2
  MaxOutputs = 2
  MaxDbErrors = 1
  MaxCrashes = 1
INVARIANTS
  TypeOK
  OnlyAcceptedPublish
  OutputsAreDistinct
  OneInFlight
  DeliveredInOrder
  RealTimeOrder
  AnswerIsWhole
PROPERTIES
  AcceptedIsComplete
  FinalOnce
  ImplementsLifecycle
