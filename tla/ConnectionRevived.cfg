CONSTANTS
  BufferSize = 20
  Requests = 1
  RequestLen = 8
  Payload <- PlainPayload
  ReplyLen = 8
  SendRoom = 100
  Cuts <- AllCuts
  MaxSent = 100
  Closing = TRUE
SPECIFICATION FairSpec
PROPERTY GetsClosed
CHECK_DEADLOCK FALSE
