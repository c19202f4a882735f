SPECIFICATION FairSpec
CONSTANTS
  c1 = c1  c2 = c2  g1 = g1  g2 = g2  u1 = u1  u2 = u2  u3 = u3
  a = a  b = b  x = x  y = y  v1 = v1  v2 = v2  s1 = s1  s2 = s2  None = None
  Clients = {c1}
  Groups = {g1}
  Units = {u1, u2}
  GroupIds = {a}
  UnitIds = {x, y}
  OwnerOf <- OneOwner
  GroupOf <- MCGroupOf
  GroupId <- MCGroupId
  UnitId <- MCUnitId
  Outcomes = {"ok"}
  MayStop = FALSE
  Visitors = {v1, v2}
  Slots = {s1, s2}
  Kinds = {"http"}
  StoreMayFail = FALSE
  ServerMayCrash = FALSE
  Epoch = 2000
  MaxNow = 2000
  Steps = {}
  ArmFirst = TRUE
INVARIANTS FetchTypeOK NoVisitLost
PROPERTY VisitIsReported
