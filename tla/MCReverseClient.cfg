SPECIFICATION ClientSpec
CONSTANTS
  c1 = c1  g1 = g1  g2 = g2  g3 = g3
  u1 = u1  u2 = u2  u3 = u3
  a = a  b = b  x = x  y = y  None = None
  Clients = {c1}
  Groups = {g1, g2, g3}
  Units = {u1, u2, u3}
  GroupIds = {a, b}
  UnitIds = {x, y}
  OwnerOf <- MCOwnerOf
  GroupOf <- MCGroupOf
  GroupId <- MCGroupId
  UnitId <- MCUnitId
  Outcomes = {"ok", "err"}
  MayStop = TRUE
INVARIANTS ClientTypeOK RegisteredUntilReported
PROPERTY OneReportPerGroup
