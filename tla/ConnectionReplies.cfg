CONSTANTS
  BufferSize = 20
  Requests = 2
  RequestLen = 8
  Payload <- PlainPayload
  ReplyLen = 8
  SendRoom = 100
  Cuts <- AllCuts
  MaxSent = 100
  Closing = FALSE
SPECIFICATION Spec
INVARIANT RepliesOnce
CHECK_DEADLOCK FALSE
