\* Every grid of 2 to 8192 cells, seen from every unit of the universe; the
\* largest grid has cells of one unit.
CONSTANTS
  Sizes <- SizesTo8192
  Width = 128
  Height = 64
SPECIFICATION Spec
INVARIANT TypeOK CoveredByOneCell IdsShared
