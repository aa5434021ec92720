\* The instance of MCFilePartition.cfg; shows that neighbouring ranks deliver
\* overlapping pieces of the file.
CONSTANTS
  MPI_Processes = 3
  overlap = 3
  Layers <- MCLayers
SPECIFICATION Spec
INVARIANT NoOverlaps
