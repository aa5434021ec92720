\* Three processes; two blocks, and a sample of two lines.
CONSTANTS
  numProcesses = 3
  numBlocks = 2
  k = 2
  Readers <- MCReaders
  Files <- MCFiles
SPECIFICATION Spec
INVARIANT TypeOK OnlyTheRestReadTwice EverythingDeliveredOnce SampleOfTheLines
