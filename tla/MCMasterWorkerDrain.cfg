\* The instance of MCMasterWorker.cfg; shows that the drain loop waits for
\* results nobody owes when the list is shorter than the number of slaves.
CONSTANTS
  nProcs = 4
  Files <- MCFiles
  WorkLists <- MCWorkLists
  Result <- MCResult
  Phase = "refine"
SPECIFICATION Spec
CHECK_DEADLOCK FALSE
INVARIANT DrainAwaitsOutstandingWork
