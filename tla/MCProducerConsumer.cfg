SPECIFICATION FairSpec
CONSTANTS
  BUFFER_SIZE = 2
  PRODUCER_NUM = 2
  CONSUMER_NUM = 1
  Items = {i1, i2}
  NoItem = NoItem
  PrintfCancels = TRUE
INVARIANTS PermitsMatchSlots NoErrorReported InductiveInvariant
PROPERTIES ImplementsBoundedBuffer ExitsUnlessDiedInPrintf BufferTurnsOver
CHECK_DEADLOCK FALSE
