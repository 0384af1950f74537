SPECIFICATION Spec
INVARIANTS
  TypeOK
  NeedsMet
  ReadyMeansReady
PROPERTIES
  EndsInTime
  HangsOnlyIfBlocked
CHECK_DEADLOCK FALSE
