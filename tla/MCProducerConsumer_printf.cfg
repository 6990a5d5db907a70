SPECIFICATION FairSpec
CONSTANTS
  BUFFER_SIZE = 2
  PRODUCER_NUM = 1
  CONSUMER_NUM = 1
  Items = {i1}
  NoItem = NoItem
  PrintfCancels = TRUE
PROPERTY ExitsAfterSleep
CHECK_DEADLOCK FALSE
