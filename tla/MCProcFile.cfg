SPECIFICATION Spec
CONSTANTS
  Processes = {p1, p2}
  Nobody = Nobody
  Numbers = {1, 12}
  WIDTH = 24
  INT_WIDTH = 6
  MSEC = 3
  HZ = 2
  FirstJiffies = 21
  MaxTicks = 8
  MaxLoads = 2
INVARIANTS EndedFilesAreReset OneTextAlone TimeIsExact
PROPERTY ReadsEnd
CHECK_DEADLOCK FALSE
