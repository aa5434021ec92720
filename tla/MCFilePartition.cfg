\* Three ranks, all files of up to 9 bytes with lines of up to 3 bytes.
CONSTANTS
  MPI_Processes = 3
  overlap = 3
  Layers <- MCLayers
SPECIFICATION Spec
INVARIANT TypeOK RangesTile EveryLineInOneRange FirstRankDeliversItsLines
