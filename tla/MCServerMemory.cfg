SPECIFICATION ServerSpec
CONSTANTS
  a = a  b = b  x = x  v1 = v1  v2 = v2  s1 = s1  s2 = s2  None = None
  GroupIds = {a, b}
  UnitIds = {x}
  Visitors = {v1}
  Slots = {s1}
  Kinds = {"http", "public", "rmi", "ldap"}
  StoreMayFail = TRUE
  ServerMayCrash = TRUE
  Epoch = 0
  MaxNow = 700
  Steps = {700}
INVARIANTS ServerTypeOK PublicStaysOut
PROPERTY FailedStoreIsHarmless
