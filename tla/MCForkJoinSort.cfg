SPECIFICATION Spec
CONSTANTS
  MaxSize = 5
  Values = {1, 2, 3}
  THRESHOLD = 2
INVARIANTS RangesAreExclusive FinishedRangesAreSorted
