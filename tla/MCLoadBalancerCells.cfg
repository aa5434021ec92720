\* The instance of MCLoadBalancer.cfg; shows that of two cells with the same
\* load only one is refined.
CONSTANTS
  nProcs = 3
  numFiles = 3
  Loads = {0, 4, 6}
  PairsOf <- MCPairsOf
SPECIFICATION Spec
CHECK_DEADLOCK FALSE
INVARIANT EveryLoadedCellRefined
