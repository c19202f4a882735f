SPECIFICATION WaitSpec
CONSTANTS
  c1 = c1  g1 = g1  u1 = u1  u2 = u2
  a = a  x = x  y = y  None = None
  Clients = {c1}
  Groups = {g1}
  Units = {u1, u2}
  GroupIds = {a}
  UnitIds = {x, y}
  OwnerOf <- MCOwnerOf
  GroupOf <- MCGroupOf
  GroupId <- MCGroupId
  UnitId <- MCUnitId
  Outcomes = {"ok", "err"}
  MayStop = TRUE
  Timeouts <- MCTimeouts
  DefaultExpire = 2
INVARIANTS WaitTypeOK WaitIsCapped
PROPERTIES WaitNoticesSuccess CancelStopsClient
