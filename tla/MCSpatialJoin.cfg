\* Sixteen programs with two processes and a grid of four cells.
CONSTANTS
  numProcesses = 2
  numPartitions = 4
  overlap = 10
  numRounds = 2
  Universe <- MCUniverse
  EmptyListBox <- MCEmptyListBox
  adaptiveCells = 5
  Programs <- MCPrograms
  Inputs <- MCInputs
SPECIFICATION Spec
INVARIANT TypeOK CallsMatch GridsAgree IndexBeforeQuery FoundOnce FoundInEverySharedCell
PROPERTY RefinesJoin Termination
