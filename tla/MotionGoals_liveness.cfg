CONSTANTS
  g1 = g1  g2 = g2  home = home  stop = stop  tare = tare
  None = None
  Goal = {g1, g2}
  Grasp = {}
  HomeRequest = {home}
  StopRequest = {stop}
  OtherRequest = {}
  MaxConnection = 1
SPECIFICATION FairSpec
INVARIANTS
  TypeOK
PROPERTIES
  StopFollows
  GoalsEnd
  ExecutorComesFree
  DestructorReturns
CHECK_DEADLOCK FALSE
