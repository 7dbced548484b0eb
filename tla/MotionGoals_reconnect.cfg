CONSTANTS
  g1 = g1  g2 = g2  home = home  stop = stop  tare = tare
  None = None
  Goal = {g1, g2}
  Grasp = {}
  HomeRequest = {}
  StopRequest = {}
  OtherRequest = {}
  MaxConnection = 2
SPECIFICATION Spec
INVARIANTS
  MotionIsNotResumed
CHECK_DEADLOCK FALSE
