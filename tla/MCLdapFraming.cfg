SPECIFICATION FramingSpec
CONSTANTS
  None = None
  Unasked = Unasked
  Values <- MCValues
  Lower <- MCLower
  Operations = {"BindRequest", "SearchRequest", "ExtendedRequest", "AddRequest"}
  Requests <- MCRequests
  Sessions <- MCSessions
  BufSize = 5
INVARIANTS FramingTypeOK ReaderInBounds FramesAreMessages LengthIsExact ClosestRoute
CHECK_DEADLOCK FALSE
