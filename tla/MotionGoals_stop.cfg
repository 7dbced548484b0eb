CONSTANTS
  g1 = g1  g2 = g2  home = home  stop = stop  tare = tare
  None = None
  Goal = {g1}
  Grasp = {}
  HomeRequest = {}
  StopRequest = {}
  OtherRequest = {}
  MaxConnection = 1
SPECIFICATION Spec
PROPERTIES
  StopIsFinal
CHECK_DEADLOCK FALSE
