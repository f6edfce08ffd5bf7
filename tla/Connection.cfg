CONSTANTS
  BufferSize = 30
  Requests = 3
  RequestLen = 14
  Payload <- MCPayload
  ReplyLen = 8
  SendRoom = 16
  Cuts = {1, 2, 13, 14, 16, 24, 28, 29, 30, 37, 42}
  MaxSent = 400
  Closing = TRUE
SPECIFICATION FairSpec
INVARIANTS
  TypeOK
  InBufferNeverFull
  DecodedInOrder
  ClosedIsQuiet
  DecodeConsumes
PROPERTIES
  LostOnlyToFullBuffer
  Answered
  WatchedGetsClosed
CHECK_DEADLOCK FALSE
