SPECIFICATION FairSessionSpec
CONSTANTS
  None = None
  Requests <- MCRequests
  MsgIds = {1, 2}
  Kind <- MCKind
  MessageID <- MCMessageID
  Abandons <- MCAbandons
  SentBefore <- MCSentBefore
  MayStop = TRUE
  MayReject = TRUE
INVARIANTS SessionTypeOK NoAnswerAfterClose AnswersAreWritten AbandonsDoNotWait
PROPERTIES SessionEnds StopEnds
CHECK_DEADLOCK FALSE
