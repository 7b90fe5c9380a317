CONSTANTS
  MaxRequests = 3
  Spurious = TRUE
SPECIFICATION FairSpec
INVARIANTS
  TypeOK
  RunnableOutlivesThread
  ReturnsServed
PROPERTIES
  TerminationIsFinal
  RequestReturns
  ReleaseReturns
CHECK_DEADLOCK FALSE
