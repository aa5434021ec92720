\* Three slaves and lists of 0, 2, 3 and 5 files.
\* Deadlock is not checked: with fewer files than slaves the master stops for
\* good in its drain loop (see MCMasterWorkerDrain.cfg).
CONSTANTS
  nProcs = 4
  Files <- MCFiles
  WorkLists <- MCWorkLists
  Result <- MCResult
  Phase = "refine"
SPECIFICATION Spec
CHECK_DEADLOCK FALSE
INVARIANT TypeOK Conservation OneAtATime NoIdleSlave ExitOnlyWhenAllCollected TotalIsExact ReturnsOnlyWithEnoughFiles
PROPERTY Termination ImplementsPool
