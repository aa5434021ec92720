\* The grid of 16384 cells: a point of the lower half is in two nested calls, one of the upper half in none.
CONSTANTS
  Sizes = {16384}
  Width = 128
  Height = 128
SPECIFICATION Spec
INVARIANT CoveredByOneCell
