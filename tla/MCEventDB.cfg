SPECIFICATION FairDbSpec
CONSTANTS
  e1 = e1  e2 = e2  e3 = e3  e4 = e4  newest = newest  oldest = oldest  None = None
  Types = {"http", "rmi"}
  Events = {e1, e2, e3, e4}
  EventType <- MCEventType
  Readers = {newest, oldest}
  ReadType <- MCReadType
  Action <- MCAction
  PageSizes = {0, 1, 2}
  MayFail = TRUE
  MayCrash = TRUE
INVARIANTS DbTypeOK LogIsDense StoredStays PagesAreExact
PROPERTIES StoreEnds StoresAreAtomic
CHECK_DEADLOCK FALSE
