CONSTANTS
  c1 = c1  c2 = c2  c3 = c3  c4 = c4
  MOVE = MOVE  STOP = STOP  s40 = s40  s43 = s43
  None = None
  CommandId = {MOVE, STOP, s40, s43}
  ClientId <- MCClientId
  SystemStateId = s40
  OpeningId = s43
  StreamSeq <- MCStream
  Client = {c1}
  Priority = {}
  AllowPending = {c1}
  Oversize = {}
  MaxGeneration = 2
  MaxRx = 1
SPECIFICATION Spec
PROPERTIES
  FailureClearsState
