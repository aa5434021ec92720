\* The two classes that do not pad, with a reader that may throw.
CONSTANTS
  numProcesses = 2
  numRounds = 2
  PACKING_LEN = 2
  Setups <- MCStrictSetups
  Inputs <- MCFiveCells
SPECIFICATION Spec
INVARIANT GroupedByCell
