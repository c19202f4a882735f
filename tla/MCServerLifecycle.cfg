SPECIFICATION FairLifeSpec
CONSTANTS
  s1 = s1  s2 = s2  c1 = c1  c2 = c2  None = None
  Servers = {s1, s2}
  MaxStarts = 2
  Conns = {c1, c2}
INVARIANTS LifeTypeOK CarefulUserSurvives FileIsFreed
PROPERTIES EveryoneIsAccepted StoppedServersEnd
CHECK_DEADLOCK FALSE
