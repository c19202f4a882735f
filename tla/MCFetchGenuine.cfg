SPECIFICATION Spec
CONSTANTS
  c1 = c1  c2 = c2  g1 = g1  g2 = g2  u1 = u1  u2 = u2  u3 = u3
  a = a  b = b  x = x  y = y  v1 = v1  v2 = v2  s1 = s1  s2 = s2  None = None
  Clients = {c1, c2}
  Groups = {g1}
  Units = {u1, u2}
  GroupIds = {a}
  UnitIds = {x, y}
  OwnerOf <- TwoOwners
  GroupOf <- MCGroupOf
  GroupId <- MCGroupId
  UnitId <- MCUnitId
  Outcomes = {"ok", "err"}
  MayStop = FALSE
  Visitors = {v1}
  Slots = {s1}
  Kinds = {"http"}
  StoreMayFail = FALSE
  ServerMayCrash = TRUE
  Epoch = 2000
  MaxNow = 2700
  Steps = {700}
  ArmFirst = FALSE
INVARIANT ReportsAreGenuine
PROPERTY FreshEventsStay
