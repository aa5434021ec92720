\* Two ranks, two rounds, five cells (and three, which are too few).
CONSTANTS
  numProcesses = 2
  numRounds = 2
  PACKING_LEN = 2
  Setups <- MCSetups
  Inputs <- MCAllInputs
SPECIFICATION Spec
INVARIANT TypeOK CallsMatch AbortsOnlyWithFewCells OwnersHaveTheirCells AllCellsDelivered TotalIsComplete
PROPERTY Termination
