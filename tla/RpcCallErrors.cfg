CONSTANTS
  m_service_map <- MCServices
  Requests <- MCRequests
  RequestLen = 2
  SendRoom = 3
  MaxReplies = 1
SPECIFICATION Spec
INVARIANT ErrorTold
CHECK_DEADLOCK FALSE
