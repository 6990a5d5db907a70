SPECIFICATION Spec
CONSTANTS
  MaxTasks = 2
  Names = {T1, T2}
  Priorities = {1}
  Bursts = {1, 3}
  QUANTUM = 2
  DistinctNames = FALSE
INVARIANT NoDanglingTask
CHECK_DEADLOCK FALSE
