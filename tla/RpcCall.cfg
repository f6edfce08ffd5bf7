CONSTANTS
  m_service_map <- MCServices
  Requests <- MCRequests
  RequestLen = 2
  SendRoom = 3
  MaxReplies = 2
SPECIFICATION FairSpec
INVARIANTS TypeOK ReplyAwaited
PROPERTIES
  OutcomeSpec
  CallSettles
  RequestWritten
CHECK_DEADLOCK FALSE
