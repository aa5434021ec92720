-------------------------- MODULE UniformGridProofs --------------------------
(***************************************************************************)
(* For a universe of any size: the grids of up to 8192 cells leave no unit *)
(* out and put none into two cells.                                        *)
(***************************************************************************)
EXTENDS UniformGrid, FiniteSetTheorems, TLAPS

SoundSizes == HalvedSizes \cup QuarteredSizes

IsCall(c) ==
  /\ c.n \in SoundSizes \cup {1}
  /\ c.lowX \in Int /\ c.lowY \in Int /\ c.upX \in Int /\ c.upY \in Int

(* One call of the current nesting level, and only one, has the point.     *)
OneCall ==
  /\ point.x \in Int /\ point.y \in Int
  /\ \E c : calls = {c} /\ IsCall(c) /\ Contains(c, point)

LEMMA Fields ==
  ASSUME NEW n, NEW i, NEW lx, NEW ly, NEW ux, NEW uy
  PROVE  LET c == Call(n, i, lx, ly, ux, uy)
         IN  /\ c.n = n /\ c.index = i
             /\ c.lowX = lx /\ c.lowY = ly /\ c.upX = ux /\ c.upY = uy
BY DEF Call

LEMMA Middle ==
  ASSUME NEW c, IsCall(c)
  PROVE  MidX(c) \in Int /\ MidY(c) \in Int
BY DEF IsCall, MidX, MidY

LEMMA SmallerSizes ==
  /\ \A n \in HalvedSizes : n \div 2 \in SoundSizes \cup {1}
  /\ \A n \in QuarteredSizes : n \div 4 \in SoundSizes \cup {1}
BY DEF SoundSizes, HalvedSizes, QuarteredSizes

(* Of the parts of a box that has the point, exactly one has it.           *)
LEMMA OneHalf ==
  ASSUME NEW c, IsCall(c), c.n \in HalvedSizes, NEW p, Contains(c, p),
         p.x \in Int, p.y \in Int
  PROVE  \E d : IsCall(d) /\ {e \in Halves(c) : Contains(e, p)} = {d}
                /\ Contains(d, p)
<1>. DEFINE h == c.n \div 2
            a == Call(h, c.index,     c.lowX,  c.lowY, MidX(c), c.upY)
            b == Call(h, c.index + h, MidX(c), c.lowY, c.upX,   c.upY)
<1>1. Halves(c) = {a, b}
  BY DEF Halves
<1>2. IsCall(a) /\ IsCall(b)
  BY Fields, Middle, SmallerSizes DEF IsCall
<1>3. Contains(a, p) <=> p.x < MidX(c)
  BY Fields, Middle DEF Contains, IsCall
<1>4. Contains(b, p) <=> MidX(c) <= p.x
  BY Fields, Middle DEF Contains, IsCall
<1>5. Contains(a, p) <=> ~Contains(b, p)
  BY <1>3, <1>4, Middle
<1>. HIDE DEF a, b
<1>. QED BY <1>1, <1>2, <1>5

LEMMA OneQuadrant ==
  ASSUME NEW c, IsCall(c), c.n \in QuarteredSizes, NEW p, Contains(c, p),
         p.x \in Int, p.y \in Int
  PROVE  \E d : IsCall(d) /\ {e \in Quadrants(c) : Contains(e, p)} = {d}
                /\ Contains(d, p)
<1>. DEFINE q == c.n \div 4
            a == Call(q, c.index,         c.lowX,  c.lowY,  MidX(c), MidY(c))
            b == Call(q, c.index + q,     MidX(c), c.lowY,  c.upX,   MidY(c))
            d == Call(q, c.index + 2 * q, c.lowX,  MidY(c), MidX(c), c.upY)
            e == Call(q, c.index + 3 * q, MidX(c), MidY(c), c.upX,   c.upY)
<1>1. Quadrants(c) = {a, b, d, e}
  BY DEF Quadrants
<1>2. IsCall(a) /\ IsCall(b) /\ IsCall(d) /\ IsCall(e)
  BY Fields, Middle, SmallerSizes DEF IsCall
<1>3. /\ Contains(a, p) <=> p.x < MidX(c) /\ p.y < MidY(c)
      /\ Contains(b, p) <=> ~(p.x < MidX(c)) /\ p.y < MidY(c)
      /\ Contains(d, p) <=> p.x < MidX(c) /\ ~(p.y < MidY(c))
      /\ Contains(e, p) <=> ~(p.x < MidX(c)) /\ ~(p.y < MidY(c))
  BY Fields, Middle DEF Contains, IsCall
<1>. HIDE DEF a, b, d, e
<1>4. CASE p.x < MidX(c) /\ p.y < MidY(c)
  BY <1>1, <1>2, <1>3, <1>4
<1>5. CASE ~(p.x < MidX(c)) /\ p.y < MidY(c)
  BY <1>1, <1>2, <1>3, <1>5
<1>6. CASE p.x < MidX(c) /\ ~(p.y < MidY(c))
  BY <1>1, <1>2, <1>3, <1>6
<1>7. CASE ~(p.x < MidX(c)) /\ ~(p.y < MidY(c))
  BY <1>1, <1>2, <1>3, <1>7
<1>. QED BY <1>4, <1>5, <1>6, <1>7

LEMMA InitOne == Init /\ Sizes \subseteq SoundSizes => OneCall
<1>. SUFFICES ASSUME Init, Sizes \subseteq SoundSizes PROVE OneCall
  OBVIOUS
<1>. DEFINE c == Call(numCells, 0, 0, 0, Width, Height)
<1>1. /\ point.x \in Int /\ 0 <= point.x /\ point.x < Width
      /\ point.y \in Int /\ 0 <= point.y /\ point.y < Height
  BY GridConstants DEF Init, Points
<1>2. calls = {c} /\ numCells \in SoundSizes
  BY DEF Init
<1>3. IsCall(c) /\ Contains(c, point)
  BY <1>1, <1>2, Fields, GridConstants DEF IsCall, Contains
<1>. QED BY <1>1, <1>2, <1>3 DEF OneCall

LEMMA NextOne == OneCall /\ [Next]_vars => OneCall'
<1>. SUFFICES ASSUME OneCall, [Next]_vars PROVE OneCall'
  OBVIOUS
<1>1. CASE Descend
  <2>1. PICK c : calls = {c} /\ IsCall(c) /\ Contains(c, point)
    BY DEF OneCall
  <2>2. /\ c.n > 1 /\ point' = point
        /\ calls' = {d \in NestedCalls(c) : Contains(d, point)}
    BY <1>1, <2>1 DEF Descend
  <2>3. point.x \in Int /\ point.y \in Int
    BY DEF OneCall
  <2>4. \E d : IsCall(d) /\ calls' = {d} /\ Contains(d, point)
    <3>1. CASE c.n \in HalvedSizes
      <4>1. NestedCalls(c) = Halves(c)
        BY <3>1 DEF NestedCalls, HalvedSizes, QuarteredSizes
      <4>. QED BY <2>1, <2>2, <2>3, <3>1, <4>1, OneHalf
    <3>2. CASE c.n \in QuarteredSizes
      <4>1. NestedCalls(c) = Quadrants(c)
        BY <3>2 DEF NestedCalls, HalvedSizes, QuarteredSizes
      <4>. QED BY <2>1, <2>2, <2>3, <3>2, <4>1, OneQuadrant
    <3>. QED BY <2>1, <2>2, <3>1, <3>2 DEF IsCall, SoundSizes
  <2>. QED BY <2>2, <2>3, <2>4 DEF OneCall
<1>2. CASE UNCHANGED vars
  BY <1>2 DEF vars, OneCall
<1>. QED BY <1>1, <1>2 DEF Next, Terminating

(* The grids of up to 8192 cells partition the universe.                   *)
THEOREM GridCovers ==
  ASSUME Sizes \subseteq SoundSizes
  PROVE  Spec => []CoveredByOneCell
<1>1. Init => OneCall
  BY InitOne
<1>2. OneCall => CoveredByOneCell
  BY FS_Singleton DEF OneCall, CoveredByOneCell
<1>. QED BY <1>1, <1>2, NextOne, PTL DEF Spec
-----------------------------------------------------------------------------
(* All grids, the large ones included, which do not cover the universe:    *)
(* every call has a box in the universe and ids of the grid.               *)

InGrid(c) ==
  /\ c.n \in SupportedSizes \cup {1} /\ c \in CallsIn(c.n)
  /\ c.lowX <= c.upX /\ c.lowY <= c.upY

GridInv ==
  /\ numCells \in Sizes /\ point \in Points
  /\ \A c \in calls : InGrid(c)
  /\ \A c, d \in calls : c.n = d.n

Parts(n) == IF n \in HalvedSizes THEN 2 ELSE 4

LEMMA Shares ==
  ASSUME NEW n \in SupportedSizes
  PROVE  /\ n \div Parts(n) \in SupportedSizes \cup {1}
         /\ n = Parts(n) * (n \div Parts(n))
BY DEF SupportedSizes, Parts, HalvedSizes

LEMMA PositiveSizes == SupportedSizes \cup {1} \subseteq Nat \ {0}
BY DEF SupportedSizes

LEMMA Between ==
  ASSUME NEW l \in Int, NEW u \in Int, l <= u
  PROVE  LET m == l + (u - l) \div 2 IN m \in Int /\ l <= m /\ m <= u
OBVIOUS

LEMMA NestedInGrid ==
  ASSUME NEW c, InGrid(c), c.n # 1, numCells \in Sizes, NEW d \in NestedCalls(c)
  PROVE  InGrid(d) /\ d.n = c.n \div Parts(c.n)
<1>. DEFINE h == c.n \div Parts(c.n)
<1>1. /\ c.n \in SupportedSizes /\ c.n \in Nat \ {0} /\ numCells \in Nat \ {0}
      /\ c.index \in Int /\ 0 <= c.index /\ c.index + c.n <= numCells
      /\ c.lowX \in 0 .. Width /\ c.upX \in 0 .. Width /\ c.lowX <= c.upX
      /\ c.lowY \in 0 .. Height /\ c.upY \in 0 .. Height /\ c.lowY <= c.upY
  BY GridConstants, PositiveSizes DEF InGrid, CallsIn
<1>2. h \in SupportedSizes \cup {1} /\ h \in Nat \ {0} /\ c.n = Parts(c.n) * h
  BY <1>1, Shares, PositiveSizes
<1>3. /\ MidX(c) \in 0 .. Width /\ c.lowX <= MidX(c) /\ MidX(c) <= c.upX
      /\ MidY(c) \in 0 .. Height /\ c.lowY <= MidY(c) /\ MidY(c) <= c.upY
  BY <1>1, GridConstants, Between DEF MidX, MidY
<1>. HIDE DEF h
<1>4. ASSUME NEW i \in Nat, i < Parts(c.n),
             NEW lx \in {c.lowX, MidX(c)}, NEW ux \in {MidX(c), c.upX},
             NEW ly \in {c.lowY, MidY(c)}, NEW uy \in {MidY(c), c.upY},
             d = Call(h, c.index + i * h, lx, ly, ux, uy)
      PROVE  InGrid(d) /\ d.n = h
  <2>1. lx \in 0 .. Width /\ ux \in 0 .. Width /\ lx <= ux
    BY <1>1, <1>3
  <2>2. ly \in 0 .. Height /\ uy \in 0 .. Height /\ ly <= uy
    BY <1>1, <1>3
  <2>3. c.index + i * h \in 0 .. numCells - h
    <3>1. i \in 0 .. 3 /\ Parts(c.n) \in {2, 4}
      BY <1>4 DEF Parts
    <3>. QED BY <1>1, <1>2, <1>4, <3>1
  <2>. QED BY <1>2, <1>4, <2>1, <2>2, <2>3 DEF InGrid, CallsIn, Call
<1>5. CASE c.n \in HalvedSizes
  <2>1. Parts(c.n) = 2 /\ h = c.n \div 2 /\ NestedCalls(c) = Halves(c)
    BY <1>5 DEF Parts, NestedCalls, h, HalvedSizes, QuarteredSizes
  <2>2. c.index + 0 * h = c.index /\ c.index + 1 * h = c.index + h
    BY <1>1, <1>2
  <2>3. \E i \in {0, 1}, lx \in {c.lowX, MidX(c)}, ux \in {MidX(c), c.upX} :
          d = Call(h, c.index + i * h, lx, c.lowY, ux, c.upY)
    BY <2>1, <2>2 DEF Halves
  <2>. QED BY <1>4, <2>1, <2>3 DEF h
<1>6. CASE c.n \notin HalvedSizes
  <2>1. Parts(c.n) = 4 /\ h = c.n \div 4
        /\ NestedCalls(c) \in {Quadrants(c), LowerQuadrantsTwice(c)}
    BY <1>6 DEF Parts, NestedCalls, h
  <2>2. /\ c.index + 0 * h = c.index /\ c.index + 1 * h = c.index + h
        /\ c.index + 2 * h = c.index + 2 * h
    BY <1>1, <1>2
  <2>3. \E i \in {0, 1, 2, 3}, lx \in {c.lowX, MidX(c)}, ux \in {MidX(c), c.upX},
           ly \in {c.lowY, MidY(c)}, uy \in {MidY(c), c.upY} :
          d = Call(h, c.index + i * h, lx, ly, ux, uy)
    BY <2>1, <2>2 DEF Quadrants, LowerQuadrantsTwice
  <2>. QED BY <1>4, <2>1, <2>3 DEF h
<1>. QED BY <1>5, <1>6 DEF h

LEMMA InitGrid == Init => GridInv
<1>. SUFFICES ASSUME Init PROVE GridInv
  OBVIOUS
<1>1. numCells \in Sizes /\ numCells \in SupportedSizes /\ numCells \in Nat
  BY GridConstants, PositiveSizes DEF Init
<1>2. InGrid(Call(numCells, 0, 0, 0, Width, Height))
  BY <1>1, GridConstants DEF InGrid, CallsIn, Call
<1>. QED BY <1>1, <1>2 DEF Init, GridInv

LEMMA NextGrid == GridInv /\ [Next]_vars => GridInv'
<1>. SUFFICES ASSUME GridInv, [Next]_vars PROVE GridInv'
  OBVIOUS
<1>1. CASE Descend
  <2>1. /\ numCells' = numCells /\ point' = point
        /\ \A d \in calls' : \E c \in calls : d \in NestedCalls(c)
    BY <1>1 DEF Descend
  <2>2. PICK n : n # 1 /\ \A c \in calls : c.n = n
    BY <1>1 DEF Descend, GridInv
  <2>3. ASSUME NEW d \in calls' PROVE InGrid(d) /\ d.n = n \div Parts(n)
    <3>1. PICK c \in calls : d \in NestedCalls(c)
      BY <2>1
    <3>. QED BY <2>2, <3>1, NestedInGrid DEF GridInv
  <2>4. ASSUME NEW d \in calls' PROVE InGrid(d)'
    BY <2>1, <2>3 DEF InGrid, CallsIn
  <2>. QED BY <2>1, <2>3, <2>4 DEF GridInv
<1>2. CASE UNCHANGED vars
  BY <1>2 DEF vars, GridInv, InGrid, CallsIn
<1>. QED BY <1>1, <1>2 DEF Next, Terminating

(* The calls of every grid have a size the switch knows, ids of the grid   *)
(* and a box in the universe.                                              *)
THEOREM TypeCorrect == Spec => []TypeOK
<1>1. GridInv => TypeOK
  BY DEF GridInv, InGrid, TypeOK
<1>. QED BY <1>1, InitGrid, NextGrid, PTL DEF Spec

(* A box passes all its ids on, each to one of its parts: no cell is lost  *)
(* in the map that addToMBR fills.                                         *)
THEOREM IdsSharedHolds == Spec => []IdsShared
<1>. DEFINE ids(d) == d.index .. d.index + d.n - 1
<1>1. ASSUME NEW c, InGrid(c), c.n > 1, numCells \in Sizes
      PROVE  /\ UNION {ids(d) : d \in NestedCalls(c)} = ids(c)
             /\ \A d, e \in NestedCalls(c) : d # e => ids(d) \cap ids(e) = {}
  <2>. DEFINE h == c.n \div Parts(c.n)
  <2>1. c.n \in SupportedSizes /\ c.index \in Int
    BY <1>1 DEF InGrid, CallsIn
  <2>2. h \in Nat \ {0} /\ c.n \in Nat /\ c.n = Parts(c.n) * h
    BY <2>1, Shares, PositiveSizes
  <2>3. CASE c.n \in HalvedSizes
    <3>1. Parts(c.n) = 2 /\ h = c.n \div 2 /\ NestedCalls(c) = Halves(c)
      BY <2>3 DEF Parts, NestedCalls, HalvedSizes, QuarteredSizes
    <3>. HIDE DEF h
    <3>2. PICK a, b : /\ NestedCalls(c) = {a, b} /\ a.n = h /\ b.n = h
                      /\ a.index = c.index /\ b.index = c.index + h
      BY <3>1, Fields DEF Halves
    <3>3. ids(a) \cup ids(b) = ids(c) /\ ids(a) \cap ids(b) = {}
      BY <2>1, <2>2, <3>1, <3>2
    <3>. HIDE DEF ids
    <3>. QED BY <3>2, <3>3
  <2>4. CASE c.n \notin HalvedSizes
    <3>1. Parts(c.n) = 4 /\ h = c.n \div 4
          /\ NestedCalls(c) \in {Quadrants(c), LowerQuadrantsTwice(c)}
      BY <2>4 DEF Parts, NestedCalls
    <3>. HIDE DEF h
    <3>2. PICK v, w, x, y :
               /\ NestedCalls(c) = {v, w, x, y}
               /\ v.n = h /\ w.n = h /\ x.n = h /\ y.n = h
               /\ v.index = c.index /\ w.index = c.index + h
               /\ x.index = c.index + 2 * h /\ y.index = c.index + 3 * h
      <4>1. CASE NestedCalls(c) = Quadrants(c)
        BY <3>1, <4>1, Fields DEF Quadrants
      <4>2. CASE NestedCalls(c) = LowerQuadrantsTwice(c)
        BY <3>1, <4>2, Fields DEF LowerQuadrantsTwice
      <4>. QED BY <3>1, <4>1, <4>2
    <3>3. /\ ids(v) \cup ids(w) \cup ids(x) \cup ids(y) = ids(c)
          /\ ids(v) \cap ids(w) = {} /\ ids(v) \cap ids(x) = {} /\ ids(v) \cap ids(y) = {}
          /\ ids(w) \cap ids(x) = {} /\ ids(w) \cap ids(y) = {} /\ ids(x) \cap ids(y) = {}
      BY <2>1, <2>2, <3>1, <3>2
    <3>. HIDE DEF ids
    <3>. QED BY <3>2, <3>3
  <2>. QED BY <2>3, <2>4
<1>2. GridInv => IdsShared
  BY <1>1 DEF GridInv, IdsShared
<1>. QED BY <1>2, InitGrid, NextGrid, PTL DEF Spec

=============================================================================
