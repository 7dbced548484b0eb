CONSTANTS
  AutoAcknowledge = FALSE
  AutoHome = FALSE
  MaxConnection = 2
SPECIFICATION Spec
INVARIANTS
  StartupConfigures
CHECK_DEADLOCK FALSE
