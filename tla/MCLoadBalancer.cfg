\* Two slaves, three files, every choice of loads.
\* Deadlock is not checked: with fewer files (or distinct loads) than slaves
\* the master stops for good in a drain loop.
CONSTANTS
  nProcs = 3
  numFiles = 3
  Loads = {0, 4, 6}
  PairsOf <- MCPairsOf
SPECIFICATION Spec
CHECK_DEADLOCK FALSE
INVARIANT TypeOK PhaseIsolation ScheduleFromAllLoads RefinesOneFilePerLoad
PROPERTY Termination
