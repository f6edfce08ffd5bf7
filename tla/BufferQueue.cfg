CONSTANTS
  Bytes <- TwoValues
  BufferSize = 6
  MaxRun = 2
  MaxSize = 12
SPECIFICATION Spec
INVARIANT IndexesInside
PROPERTY QueueButForThree
