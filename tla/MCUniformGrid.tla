---------------------------- MODULE MCUniformGrid ----------------------------
(* In a universe of 128 x 64 units every grid of up to 8192 cells has its  *)
(* boundaries on whole units, in one of 128 x 128 the grid of 16384 cells. *)
EXTENDS UniformGrid

SizesTo8192 == {n \in SupportedSizes : n <= 8192}
=============================================================================
