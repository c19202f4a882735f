SPECIFICATION FairServerSpec
CONSTANTS
  a = a  b = b  x = x  v1 = v1  v2 = v2  s1 = s1  s2 = s2  None = None
  GroupIds = {a}
  UnitIds = {x}
  Visitors = {v1}
  Slots = {s1}
  Kinds = {"http"}
  StoreMayFail = TRUE
  ServerMayCrash = FALSE
  Epoch = 2000
  MaxNow = 3400
  Steps = {700}
PROPERTY OldEventsGo
