----------------------------- MODULE UniformGrid -----------------------------
(***************************************************************************)
(* UniformGrid::partition: the universe is cut into numCells cells by the  *)
(* nested calls of partitionInto2cells ... partitionInto256kCells, each of *)
(* which halves its box in x, or in x and y, and passes the parts, with    *)
(* their share of the cell ids, on to the next smaller one.  The grid is   *)
(* seen from one point of the universe: of the calls made so far, the      *)
(* machine keeps those whose box the point lies in.                        *)
(***************************************************************************)
EXTENDS Integers, FiniteSets

CONSTANTS
  Sizes,         \* the values of numCells to look at
  Width, Height  \* the universe, in units no cell boundary cuts

(* The switch of partitionHelper; for any other size the program exits.    *)
SupportedSizes ==
  {2, 4, 8, 16, 32, 64, 128, 256, 512, 1024, 2048, 4096, 8192,
   16384, 32768, 65536, 131072, 262144}

ASSUME GridConstants ==
  /\ Sizes \subseteq SupportedSizes
  /\ Width \in Nat \ {0} /\ Height \in Nat \ {0}

VARIABLES
  numCells,
  point,    \* the lower left corner of a unit square of the universe
  calls     \* the calls whose box has that square; n = 1 is addToMBR

vars == <<numCells, point, calls>>

Points == [x : 0 .. Width - 1, y : 0 .. Height - 1]

Call(n, index, lowX, lowY, upX, upY) ==
  [n |-> n, index |-> index, lowX |-> lowX, lowY |-> lowY, upX |-> upX, upY |-> upY]

Contains(c, p) ==
  /\ c.lowX <= p.x /\ p.x < c.upX
  /\ c.lowY <= p.y /\ p.y < c.upY

Init ==
  /\ numCells \in Sizes
  /\ point \in Points
  /\ calls = {Call(numCells, 0, 0, 0, Width, Height)}

-----------------------------------------------------------------------------
MidX(c) == c.lowX + (c.upX - c.lowX) \div 2
MidY(c) == c.lowY + (c.upY - c.lowY) \div 2

(* Mutant: both halves get the same ids.                                   *)
HalvesSameIds(c) ==
  LET h == c.n \div 2
  IN  {Call(h, c.index, c.lowX, c.lowY, MidX(c), c.upY),
       Call(h, c.index, MidX(c), c.lowY, c.upX, c.upY)}

(* Mutant: the second half gets ids behind those of the whole.             *)
HalvesIdsTooHigh(c) ==
  LET h == c.n \div 2
  IN  {Call(h, c.index,       c.lowX,  c.lowY, MidX(c), c.upY),
       Call(h, c.index + c.n, MidX(c), c.lowY, c.upX,   c.upY)}

(* partitionInto2cells, partitionInto128Cells                              *)
Halves(c) ==
  LET h == c.n \div 2
  IN  {Call(h, c.index,     c.lowX,  c.lowY, MidX(c), c.upY),
       Call(h, c.index + h, MidX(c), c.lowY, c.upX,   c.upY)}

(* Mutant: the third part ends at the middle of the box.                   *)
QuadrantsShort(c) ==
  LET q == c.n \div 4
  IN  {Call(q, c.index,         c.lowX,  c.lowY,  MidX(c), MidY(c)),
       Call(q, c.index + q,     MidX(c), c.lowY,  c.upX,   MidY(c)),
       Call(q, c.index + 2 * q, c.lowX,  c.lowY,  MidX(c), MidY(c)),
       Call(q, c.index + 3 * q, MidX(c), MidY(c), c.upX,   c.upY)}

(* partitionInto4Cells ... partitionInto8000Cells, but for the halves      *)
Quadrants(c) ==
  LET q == c.n \div 4
  IN  {Call(q, c.index,         c.lowX,  c.lowY,  MidX(c), MidY(c)),
       Call(q, c.index + q,     MidX(c), c.lowY,  c.upX,   MidY(c)),
       Call(q, c.index + 2 * q, c.lowX,  MidY(c), MidX(c), c.upY),
       Call(q, c.index + 3 * q, MidX(c), MidY(c), c.upX,   c.upY)}

(* partitionInto16kCells ... partitionInto256kCells: the third and fourth  *)
(* call get the boxes of the first and second.                             *)
LowerQuadrantsTwice(c) ==
  LET q == c.n \div 4
  IN  {Call(q, c.index,         c.lowX,  c.lowY, MidX(c), MidY(c)),
       Call(q, c.index + q,     MidX(c), c.lowY, c.upX,   MidY(c)),
       Call(q, c.index + 2 * q, c.lowX,  c.lowY, MidX(c), MidY(c)),
       Call(q, c.index + 3 * q, MidX(c), c.lowY, c.upX,   MidY(c))}

HalvedSizes    == {2, 128}
QuarteredSizes == {4, 8, 16, 32, 64, 256, 512, 1024, 2048, 4096, 8192}

NestedCalls(c) ==
  CASE c.n \in HalvedSizes    -> Halves(c)
    [] c.n \in QuarteredSizes -> Quadrants(c)
    [] OTHER                  -> LowerQuadrantsTwice(c)

(* All calls of one nesting level have the same n.                         *)
Descend ==
  /\ \E c \in calls : c.n > 1
  /\ calls' = {d \in UNION {NestedCalls(c) : c \in calls} : Contains(d, point)}
  /\ UNCHANGED <<numCells, point>>

Terminating == (\A c \in calls : c.n = 1) /\ UNCHANGED vars
Next == Descend \/ Terminating
Spec == Init /\ [][Next]_vars

-----------------------------------------------------------------------------
(* Properties.                                                             *)

CallsIn(n) ==
  [n : {n}, index : 0 .. numCells - n,
   lowX : 0 .. Width, lowY : 0 .. Height, upX : 0 .. Width, upY : 0 .. Height]

TypeOK ==
  /\ numCells \in Sizes
  /\ point \in Points
  /\ \A c \in calls : c.n \in SupportedSizes \cup {1} /\ c \in CallsIn(c.n)

(* README: "Spatial partitioning into uniform/adaptive grid cells".  No    *)
(* unit of the universe is left out and none is in the interior of two     *)
(* cells, so a geometry always meets a cell, and meets several only where  *)
(* it crosses a cell boundary.                                             *)
CoveredByOneCell == Cardinality(calls) = 1

(* The calls nested in one share out its cell ids without using one twice: *)
(* otherwise map::insert in addToMBR would drop the second cell.           *)
IdsShared ==
  \A c \in calls : c.n > 1 =>
    LET ids(d) == d.index .. d.index + d.n - 1
    IN  /\ UNION {ids(d) : d \in NestedCalls(c)} = ids(c)
        /\ \A d, e \in NestedCalls(c) : d # e => ids(d) \cap ids(e) = {}
=============================================================================
