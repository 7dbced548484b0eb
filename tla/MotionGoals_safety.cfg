CONSTANTS
  g1 = g1  g2 = g2  home = home  stop = stop  tare = tare
  None = None
  Goal = {g1, g2}
  Grasp = {g2}
  HomeRequest = {home}
  StopRequest = {}
  OtherRequest = {tare}
  MaxConnection = 2
SPECIFICATION Spec
INVARIANTS
  OneMotionAtATime
  NewerGoalSilencesOlder
  NothingOutlivesNode
CHECK_DEADLOCK FALSE
