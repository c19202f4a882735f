SPECIFICATION WaitSpec
CONSTANTS
  c1 = c1  g1 = g1  u1 = u1  u2 = u2
  a = a  x = x  y = y  None = None
  Clients = {c1}
  Groups = {g1}
  Units = {u1}
  GroupIds = {a}
  UnitIds = {x}
  OwnerOf <- MCOwnerOf
  GroupOf <- MCGroupOf
  GroupId <- MCGroupId
  UnitId <- OneUnitId
  Outcomes = {"ok"}
  MayStop = FALSE
  Timeouts = {5}
  DefaultExpire = 60
PROPERTY VisitIsNoticed
