SPECIFICATION BothSpec
CONSTANTS
  N_TLB_ENTRY = 2
  N_PAGE_TABLE_ENTRY = 5
  N_FRAME = 3
  PAGE_FRAME_SIZE = 2
  LOGIC_MEMORY <- DistinctBytes
  MaxInstructions = 8
INVARIANTS PrintsBackingStore TablesAgree StatisticsAddUp FramesHoldTheirPages SameTlb
PROPERTIES SameValues TlbIsFifo FramesAreFifo
