CONSTANTS
  AutoAcknowledge = TRUE
  AutoHome = FALSE
  MaxConnection = 2
SPECIFICATION FairSpec
INVARIANTS
  TypeOK
  ReadyIsConfigured
  AcceptedIsConfigured
  DiagnosticsAreTrue
  ExecutorIsNotHeldUp
PROPERTIES
  EveryConnectionGetsItsAttempt
  DestructorReturns
CHECK_DEADLOCK FALSE
