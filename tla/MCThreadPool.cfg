SPECIFICATION FairSpec
CONSTANTS
  QUEUE_SIZE = 2
  NUMBER_OF_THREADS = 3
  Calls = 4
  NoTask = NoTask
  PrintfCancels = TRUE
INVARIANTS PermitsMatchTasks DequeueFindsTask
PROPERTIES ImplementsWorkQueue AcceptedWorkStarts ShutdownReturns
