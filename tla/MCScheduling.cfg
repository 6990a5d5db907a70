SPECIFICATION Spec
CONSTANTS
  MaxTasks = 4
  Names = {T1, T2, T3, T4}
  Priorities = {1, 2}
  Bursts = {2, 3, 5}
  QUANTUM = 2
  DistinctNames = TRUE
SYMMETRY NameSymmetry
INVARIANTS WorkIsAccountedFor FinishedInOrder TurnsAreEven PriorityIsStrict
