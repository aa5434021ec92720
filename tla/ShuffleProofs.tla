---------------------------- MODULE ShuffleProofs ----------------------------
(***************************************************************************)
(* The exchange of geometries, for every number of processes, of rounds    *)
(* and of characters in a unit, every class and all geometries.            *)
(*                                                                         *)
(* First what the operators compute: which cells a round has, what a rank  *)
(* packs for another one, where a text is in the receive buffer, and so    *)
(* what the parsers make of a buffer and GroupByCell of what was parsed.   *)
(* Then the collective calls: the k-th call of a rank depends on k and the *)
(* class only.  At last the invariant: what was entered is what is packed  *)
(* for the call, what was received is what was entered, and a rank has     *)
(* what the rounds so far give it.                                         *)
(***************************************************************************)
EXTENDS Shuffle, DataTheorems

(* Numbers.                                                                *)
LEMMA DivMod ==
  ASSUME NEW a \in Nat, NEW b \in Nat \ {0}
  PROVE  /\ a \div b \in Nat /\ a % b \in Nat /\ a % b < b
         /\ a = b * (a \div b) + (a % b)
OBVIOUS

LEMMA MulMonotone ==
  ASSUME NEW a \in Nat, NEW b \in Nat, NEW c \in Nat, a <= b
  PROVE  a * c <= b * c /\ a * c \in Nat /\ b * c \in Nat
<1>1. PICK d \in Nat : b = a + d
  BY b - a \in Nat
<1>2. (a + d) * c = a * c + d * c
  OBVIOUS
<1>3. a * c \in Nat /\ d * c \in Nat
  OBVIOUS
<1>. QED BY <1>1, <1>2, <1>3

-----------------------------------------------------------------------------
Chosen == setup \in Setups /\ input \in Inputs
Items  == [cellId : Cells, geom : Geoms]

(* The order of cells and of geometries, and that of what a rank receives: *)
(* by sender, cell and geometry.                                           *)
Less == {x \in Int \X Int : x[1] < x[2]}
Before(x, y) ==
  LET p == input.geoms[x.geom].rank  q == input.geoms[y.geom].rank
  IN  \/ p < q
      \/ p = q /\ x.cellId < y.cellId
      \/ p = q /\ x.cellId = y.cellId /\ x.geom < y.geom
PackOrder == {xy \in Items \X Items : Before(xy[1], xy[2])}

LEMMA ChosenIs ==
  ASSUME Chosen
  PROVE  /\ numProcesses \in Nat \ {0} /\ input.numCells \in Nat
         /\ Len(input.geoms) \in Nat /\ Geoms = 1 .. Len(input.geoms)
         /\ \A g \in Geoms : /\ input.geoms[g].layer \in 1 .. 2
                             /\ input.geoms[g].len \in Nat \ {0}
                             /\ input.geoms[g].rank \in Ranks
                             /\ input.geoms[g].cells \subseteq Cells
         /\ Rounds \in Nat \ {0} /\ Unit \in Nat \ {0}
         /\ setup.manager \in Managers /\ setup.reader \in Readers
<1>1. IsInput(input) /\ setup \in [manager : Managers, reader : Readers]
  BY ShuffleConstants DEF Chosen
<1>2. Rounds \in Nat \ {0} /\ Unit \in Nat \ {0} /\ numProcesses \in Nat \ {0}
  BY ShuffleConstants DEF Rounds, Unit
<1>. QED BY <1>1, <1>2 DEF IsInput, Geoms, Cells

LEMMA Orders ==
  ASSUME Chosen PROVE Asymmetric(Less) /\ Asymmetric(PackOrder)
<1>1. Asymmetric(Less)
  BY DEF Asymmetric, Less
<1>2. ASSUME NEW x, NEW y, <<x, y>> \in PackOrder, <<y, x>> \in PackOrder PROVE FALSE
  <2>1. x \in Items /\ y \in Items /\ Before(x, y) /\ Before(y, x)
    BY <1>2 DEF PackOrder
  <2>2. /\ x.cellId \in Cells /\ y.cellId \in Cells /\ x.geom \in Geoms /\ y.geom \in Geoms
        /\ input.geoms[x.geom].rank \in Ranks /\ input.geoms[y.geom].rank \in Ranks
    BY <2>1, ChosenIs DEF Items
  <2>3. Cells \subseteq Int /\ Geoms \subseteq Int /\ Ranks \subseteq Int
    BY ChosenIs DEF Cells, Ranks
  <2>. DEFINE p == input.geoms[x.geom].rank  q == input.geoms[y.geom].rank
              a == x.cellId  b == y.cellId  g == x.geom  h == y.geom
  <2>4. /\ p < q \/ (p = q /\ a < b) \/ (p = q /\ a = b /\ g < h)
        /\ q < p \/ (q = p /\ b < a) \/ (q = p /\ b = a /\ h < g)
    BY <2>1 DEF Before
  <2>5. p \in Int /\ q \in Int /\ a \in Int /\ b \in Int /\ g \in Int /\ h \in Int
    BY <2>2, <2>3
  <2>. HIDE DEF p, q, a, b, g, h
  <2>. QED BY <2>4, <2>5
<1>. QED BY <1>1, <1>2 DEF Asymmetric

LEMMA ElemsSeq ==
  ASSUME NEW M, NEW t \in Seq(M), NEW K, Elems(t) \subseteq K PROVE t \in Seq(K)
<1>1. \A i \in 1 .. Len(t) : t[i] \in K
  BY DEF Elems
<1>. QED BY <1>1

LEMMA OnlyIs ==
  ASSUME NEW M, NEW t \in Seq(M), NEW T
  PROVE  /\ Only(t, T) \in Seq(M) /\ Only(t, T) \in Seq(T)
         /\ \A R : Sorted(t, R) => Sorted(Only(t, T), R)
         /\ Elems(Only(t, T)) = Elems(t) \cap T
<1>. DEFINE keep == {i \in 1 .. Len(t) : t[i] \in T}
            s == [i \in 1 .. Len(t) |-> IF t[i] \in T THEN <<t[i]>> ELSE <<>>]
<1>0. Len(t) \in Nat
  OBVIOUS
<1>1. /\ Len(s) = Len(t)
      /\ \A i \in 1 .. Len(t) : s[i] = IF i \in keep THEN <<t[i]>> ELSE <<>>
      /\ Len(s) = 0 => s = <<>>
  BY <1>0
<1>2. Only(t, T) = FlattenSeq(s)
  BY DEF Only
<1>. HIDE DEF s
<1>3. /\ FlattenSeq(s) \in Seq(M)
      /\ \A R : Sorted(t, R) => Sorted(FlattenSeq(s), R)
      /\ \A y : y \in Elems(FlattenSeq(s)) <=> \E i \in 1 .. Len(t) : i \in keep /\ y = t[i]
  <2>. HIDE DEF keep
  <2>1. /\ Len(s) = Len(t) /\ (Len(s) = 0 => s = <<>>)
        /\ \A i \in 1 .. Len(t) : s[i] = IF i \in keep THEN <<t[i]>> ELSE <<>>
    BY <1>1
  <2>2. FlattenSeq(s) \in Seq(M)
    BY <2>1, FlattenThin
  <2>3. ASSUME NEW R, Sorted(t, R) PROVE Sorted(FlattenSeq(s), R)
    BY <2>1, <2>3, FlattenThin
  <2>4. \A y : y \in Elems(FlattenSeq(s)) <=> \E i \in 1 .. Len(t) : i \in keep /\ y = t[i]
    <3>1. HasKept(FlattenSeq(s), t, keep)
      BY <2>1, FlattenThin
    <3>. QED BY <3>1 DEF HasKept
  <2>. QED BY <2>2, <2>3, <2>4
<1>4. Elems(FlattenSeq(s)) = Elems(t) \cap T
  BY <1>3 DEF Elems
<1>5. Only(t, T) \in Seq(T)
  BY <1>2, <1>3, <1>4, ElemsSeq
<1>. QED BY <1>2, <1>3, <1>4, <1>5

(* 0, 1, 2... and 1, 2, 3... are sorted.                                   *)
LEMMA CellsOfIs ==
  ASSUME Chosen, NEW p \in Ranks
  PROVE  /\ CellsOf(p) \in Seq(Cells) /\ Sorted(CellsOf(p), Less)
         /\ Elems(CellsOf(p)) = {c \in Cells : c % numProcesses = p}
<1>. DEFINE t == [i \in 1 .. input.numCells |-> i - 1]
            T == {c \in Cells : c % numProcesses = p}
<1>0. input.numCells \in Nat
  BY ChosenIs
<1>1. t \in Seq(Cells) /\ Len(t) = input.numCells
  BY <1>0 DEF Cells
<1>2. Sorted(t, Less)
  BY <1>0, <1>1 DEF Sorted, Less
<1>3. Elems(t) = Cells
  <2>1. \A c \in Cells : c + 1 \in 1 .. input.numCells /\ t[c + 1] = c
    BY <1>0 DEF Cells
  <2>2. \A i \in 1 .. input.numCells : t[i] \in Cells
    BY <1>0 DEF Cells
  <2>. HIDE DEF t
  <2>. QED BY <1>1, <2>1, <2>2 DEF Elems
<1>4. CellsOf(p) = Only(t, T)
  BY DEF CellsOf
<1>. HIDE DEF t
<1>5. /\ Only(t, T) \in Seq(Cells)
      /\ \A R : Sorted(t, R) => Sorted(Only(t, T), R)
      /\ Elems(Only(t, T)) = Elems(t) \cap T
  BY <1>1, OnlyIs
<1>. QED BY <1>2, <1>3, <1>4, <1>5

LayerSet(q, c, l) ==
  {g \in Geoms : /\ input.geoms[g].layer = l /\ input.geoms[g].rank = q
                 /\ c \in input.geoms[g].cells}

LEMMA LayerIs ==
  ASSUME Chosen, NEW q, NEW c, NEW l
  PROVE  /\ Layer(q, c, l) \in Seq(Geoms) /\ Sorted(Layer(q, c, l), Less)
         /\ Elems(Layer(q, c, l)) = LayerSet(q, c, l)
<1>. DEFINE t == [g \in Geoms |-> g]
            T == LayerSet(q, c, l)
            n == Len(input.geoms)
<1>1. n \in Nat /\ Geoms = 1 .. n
  BY ChosenIs
<1>. HIDE DEF n
<1>2. t \in Seq(Geoms) /\ Len(t) = n
  BY <1>1
<1>3. Sorted(t, Less)
  BY <1>1, <1>2 DEF Sorted, Less
<1>4. Elems(t) = Geoms
  BY <1>1, <1>2 DEF Elems
<1>5. Layer(q, c, l) = Only(t, T) /\ T \subseteq Geoms
  BY DEF Layer, LayerSet
<1>. HIDE DEF t, T
<1>6. /\ Only(t, T) \in Seq(Geoms)
      /\ \A R : Sorted(t, R) => Sorted(Only(t, T), R)
      /\ Elems(Only(t, T)) = Elems(t) \cap T
  BY <1>2, OnlyIs
<1>7. Elems(t) \cap T = T
  BY <1>4, <1>5
<1>. QED BY <1>3, <1>5, <1>6, <1>7 DEF T

(* The cells of p before those of a round.                                 *)
RoundSize(p) == Len(CellsOf(p)) \div Rounds
From(p, rd)  == IF rd = Rounds THEN Len(CellsOf(p)) ELSE rd * RoundSize(p)
RoundCells(p, rd) == {CellsOf(p)[j] : j \in From(p, rd) + 1 .. From(p, rd + 1)}

LEMMA Froms ==
  ASSUME Chosen, NEW p \in Ranks
  PROVE  /\ From(p, 0) = 0 /\ From(p, Rounds) = Len(CellsOf(p)) /\ Len(CellsOf(p)) \in Nat
         /\ \A a \in 0 .. Rounds : From(p, a) \in Nat
         /\ \A a, b \in 0 .. Rounds : a <= b => From(p, a) <= From(p, b)
<1>. DEFINE n == Len(CellsOf(p))  size == RoundSize(p)
<1>1. n \in Nat /\ Rounds \in Nat \ {0}
  BY ChosenIs, CellsOfIs
<1>2. size \in Nat /\ n = Rounds * size + (n % Rounds) /\ n % Rounds \in Nat
  BY <1>1, DivMod DEF RoundSize
<1>3. Rounds * size \in Nat /\ Rounds * size <= n
  BY <1>1, <1>2
<1>. HIDE DEF size, n
<1>4. ASSUME NEW a \in 0 .. Rounds PROVE a * size \in Nat /\ a * size <= n
  <2>1. a * size <= Rounds * size /\ a * size \in Nat
    BY <1>1, <1>2, MulMonotone
  <2>. QED BY <1>1, <1>3, <2>1
<1>5. \A a : From(p, a) = IF a = Rounds THEN n ELSE a * size
  BY DEF From, n, size
<1>6. ASSUME NEW a \in 0 .. Rounds, NEW b \in 0 .. Rounds, a <= b
      PROVE  From(p, a) <= From(p, b)
  <2>1. CASE b = Rounds
    BY <1>1, <1>4, <1>5, <2>1
  <2>2. CASE b # Rounds
    <3>1. a * size <= b * size
      BY <1>1, <1>2, <1>6, MulMonotone
    <3>. QED BY <1>1, <1>5, <1>6, <2>2, <3>1
  <2>. QED BY <2>1, <2>2
<1>7. From(p, 0) = 0 /\ From(p, Rounds) = n
  <2>1. 0 * size = 0
    BY <1>2
  <2>. QED BY <1>1, <1>5, <2>1
<1>8. \A a \in 0 .. Rounds : From(p, a) \in Nat
  BY <1>1, <1>4, <1>5
<1>. QED BY <1>1, <1>6, <1>7, <1>8 DEF n

LEMMA RoundIs ==
  ASSUME Chosen, NEW p \in Ranks, NEW rd \in 0 .. Rounds - 1
  PROVE  /\ CellsForARound(p, rd) \in Seq(Cells) /\ Sorted(CellsForARound(p, rd), Less)
         /\ Elems(CellsForARound(p, rd)) = RoundCells(p, rd)
         /\ RoundCells(p, rd) \subseteq Elems(CellsOf(p))
<1>. DEFINE t == CellsOf(p)  a == From(p, rd)  b == From(p, rd + 1)
            u == SubSeq(t, a + 1, b)
<1>1. t \in Seq(Cells) /\ Sorted(t, Less)
  BY CellsOfIs
<1>2. /\ Rounds \in Nat \ {0} /\ rd \in 0 .. Rounds /\ rd + 1 \in 0 .. Rounds /\ rd # Rounds
      /\ rd + 1 = Rounds <=> rd = Rounds - 1
  BY ChosenIs
<1>3. a \in Nat /\ b \in Nat /\ a <= b /\ b <= Len(t) /\ Len(t) \in Nat
  <2>1. /\ From(p, Rounds) = Len(CellsOf(p)) /\ Len(CellsOf(p)) \in Nat
        /\ \A x \in 0 .. Rounds : From(p, x) \in Nat
        /\ \A x, y \in 0 .. Rounds : x <= y => From(p, x) <= From(p, y)
    BY Froms
  <2>2. Rounds \in 0 .. Rounds /\ rd <= rd + 1 /\ rd + 1 <= Rounds
    BY <1>2
  <2>. QED BY <1>2, <2>1, <2>2
<1>4. CellsForARound(p, rd) = u
  BY <1>2 DEF CellsForARound, From, RoundSize
<1>. HIDE DEF t, a, b
<1>5. /\ u \in Seq(Cells) /\ Len(u) = b - a
      /\ \A i \in 1 .. b - a : u[i] = t[a + i]
  BY <1>1, <1>3
<1>. HIDE DEF u
<1>6. Sorted(u, Less)
  <2>. SUFFICES ASSUME NEW i \in 1 .. b - a, NEW j \in 1 .. b - a, i < j
                PROVE  <<u[i], u[j]>> \in Less
    BY <1>5 DEF Sorted
  <2>1. a + i \in 1 .. Len(t) /\ a + j \in 1 .. Len(t) /\ a + i < a + j
    BY <1>3
  <2>. QED BY <1>1, <1>5, <2>1 DEF Sorted
<1>7. Elems(u) = {t[j] : j \in a + 1 .. b}
  <2>1. ASSUME NEW i \in 1 .. b - a PROVE a + i \in a + 1 .. b /\ u[i] = t[a + i]
    BY <1>3, <1>5
  <2>2. ASSUME NEW j \in a + 1 .. b PROVE j - a \in 1 .. b - a /\ t[j] = u[j - a]
    <3>1. j - a \in 1 .. b - a /\ a + (j - a) = j
      BY <1>3
    <3>. QED BY <1>5, <3>1
  <2>3. Elems(u) = {u[i] : i \in 1 .. b - a}
    BY <1>5 DEF Elems
  <2>4. ASSUME NEW x PROVE x \in Elems(u) <=> \E j \in a + 1 .. b : x = t[j]
    BY <2>1, <2>2, <2>3
  <2>. QED BY <2>4
<1>8. {t[j] : j \in a + 1 .. b} \subseteq Elems(t)
  <2>1. \A j \in a + 1 .. b : j \in 1 .. Len(t)
    BY <1>3
  <2>. QED BY <2>1 DEF Elems
<1>9. RoundCells(p, rd) = {t[j] : j \in a + 1 .. b}
  BY DEF RoundCells, t, a, b
<1>. QED BY <1>4, <1>5, <1>6, <1>7, <1>8, <1>9 DEF t

(* The cells of different rounds are different, and every cell is in one.  *)
LEMMA RoundsDiffer ==
  ASSUME Chosen, NEW p \in Ranks, NEW a \in 0 .. Rounds - 1, NEW b \in 0 .. Rounds - 1, a # b
  PROVE  RoundCells(p, a) \cap RoundCells(p, b) = {}
<1>. DEFINE t == CellsOf(p)
<1>1. t \in Seq(Cells) /\ Sorted(t, Less) /\ Asymmetric(Less) /\ Rounds \in Nat \ {0}
  BY CellsOfIs, Orders, ChosenIs
<1>2. /\ From(p, Rounds) = Len(t) /\ Len(t) \in Nat
      /\ \A x \in 0 .. Rounds : From(p, x) \in Nat
      /\ \A x, y \in 0 .. Rounds : x <= y => From(p, x) <= From(p, y)
  BY Froms
<1>3. \A x : RoundCells(p, x) = {t[j] : j \in From(p, x) + 1 .. From(p, x + 1)}
  BY DEF RoundCells
<1>. HIDE DEF t
<1>4. ASSUME NEW x \in 0 .. Rounds - 1, NEW y \in 0 .. Rounds - 1, x < y,
             NEW i \in From(p, x) + 1 .. From(p, x + 1),
             NEW j \in From(p, y) + 1 .. From(p, y + 1), t[i] = t[j]
      PROVE  FALSE
  <2>1. /\ x + 1 \in 0 .. Rounds /\ y + 1 \in 0 .. Rounds /\ x \in 0 .. Rounds /\ y \in 0 .. Rounds
        /\ Rounds \in 0 .. Rounds /\ x + 1 <= y /\ x + 1 <= Rounds /\ y + 1 <= Rounds
    BY <1>1, <1>4
  <2>2. /\ From(p, x + 1) <= From(p, y) /\ From(p, x + 1) <= Len(t) /\ From(p, y + 1) <= Len(t)
        /\ From(p, x) \in Nat /\ From(p, x + 1) \in Nat /\ From(p, y) \in Nat
        /\ From(p, y + 1) \in Nat
    BY <1>2, <2>1
  <2>3. i \in 1 .. Len(t) /\ j \in 1 .. Len(t) /\ i < j
    BY SMTT(30), <1>2, <2>2
  <2>4. i = j
    BY <1>1, <1>2, <1>4, <2>3, SortedOnce, Zenon
  <2>. QED BY <2>3, <2>4
<1>5. ASSUME NEW c \in RoundCells(p, a), c \in RoundCells(p, b) PROVE FALSE
  <2>1. PICK i \in From(p, a) + 1 .. From(p, a + 1) : c = t[i]
    BY <1>3
  <2>2. PICK j \in From(p, b) + 1 .. From(p, b + 1) : c = t[j]
    BY <1>3, <1>5
  <2>3. a < b \/ b < a
    BY <1>1
  <2>. QED BY <1>4, <2>1, <2>2, <2>3
<1>. QED BY <1>5

LEMMA EveryCellHasARound ==
  ASSUME Chosen, NEW p \in Ranks, NEW c \in Elems(CellsOf(p))
  PROVE  \E rd \in 0 .. Rounds - 1 : c \in RoundCells(p, rd)
<1>. DEFINE t == CellsOf(p)
<1>1. Rounds \in Nat \ {0}
  BY ChosenIs
<1>2. /\ From(p, 0) = 0 /\ From(p, Rounds) = Len(t) /\ Len(t) \in Nat
      /\ \A x \in 0 .. Rounds : From(p, x) \in Nat
  BY Froms
<1>3. \A x : RoundCells(p, x) = {t[j] : j \in From(p, x) + 1 .. From(p, x + 1)}
  BY DEF RoundCells
<1>4. PICK j \in 1 .. Len(t) : c = t[j]
  BY DEF Elems
<1>. HIDE DEF t
<1>5. \E rd \in 0 .. Rounds - 1 : j \in From(p, rd) + 1 .. From(p, rd + 1)
  <2>. SUFFICES ASSUME \A rd \in 0 .. Rounds - 1 : ~(j \in From(p, rd) + 1 .. From(p, rd + 1))
                PROVE  FALSE
    OBVIOUS
  <2>. DEFINE Good == {rd \in 0 .. Rounds : From(p, rd) < j}
  <2>1. 0 \in Good
    BY <1>1, <1>2
  <2>2. ASSUME NEW rd \in 0 .. Rounds - 1, rd \in Good PROVE rd + 1 \in Good
    <3>1. rd + 1 \in 0 .. Rounds /\ rd \in 0 .. Rounds
      BY <1>1
    <3>2. From(p, rd) \in Nat /\ From(p, rd + 1) \in Nat /\ From(p, rd) < j
      BY <1>2, <2>2, <3>1
    <3>3. ~(j <= From(p, rd + 1))
      BY <3>2
    <3>. QED BY <3>1, <3>2, <3>3
  <2>. HIDE DEF Good
  <2>3. \A rd \in 0 .. Rounds : rd \in Good
    <3>1. 0 \in Int /\ Rounds \in Int /\ 0 <= Rounds
      BY <1>1
    <3>. QED BY <2>1, <2>2, <3>1, Upwards
  <2>4. Rounds \in Good
    BY <1>1, <2>3
  <2>. QED BY <1>2, <2>4 DEF Good
<1>. QED BY <1>3, <1>4, <1>5

(* What is packed for p is in the order of PackOrder.                      *)
PackedSet(q, p, rd, l) ==
  {x \in Items : x.cellId \in RoundCells(p, rd) /\ x.geom \in LayerSet(q, x.cellId, l)}

LEMMA PackedIs ==
  ASSUME Chosen, NEW p \in Ranks, NEW rd \in 0 .. Rounds - 1, NEW q, NEW l
  PROVE  /\ Packed(q, p, rd, l) \in Seq(Items) /\ Sorted(Packed(q, p, rd, l), PackOrder)
         /\ Elems(Packed(q, p, rd, l)) = PackedSet(q, p, rd, l)
<1>. DEFINE cs == CellsForARound(p, rd)
            L(c) == Layer(q, c, l)
            s == [i \in 1 .. Len(cs) |-> InOneCell(cs[i], L(cs[i]))]
<1>1. cs \in Seq(Cells) /\ Sorted(cs, Less) /\ Elems(cs) = RoundCells(p, rd)
  BY RoundIs
<1>2. \A c : L(c) \in Seq(Geoms) /\ Sorted(L(c), Less) /\ Elems(L(c)) = LayerSet(q, c, l)
  BY LayerIs
<1>3. Packed(q, p, rd, l) = FlattenSeq(s)
  BY DEF Packed
<1>. HIDE DEF cs, L
<1>4. Len(cs) \in Nat /\ \A i \in 1 .. Len(cs) : cs[i] \in Cells
  BY <1>1
<1>5. Len(s) = Len(cs) /\ (Len(s) = 0 => s = <<>>)
  BY <1>4
<1>6. \A i \in 1 .. Len(cs) : s[i] = InOneCell(cs[i], L(cs[i]))
  OBVIOUS
<1>. HIDE DEF s
<1>7. ASSUME NEW i \in 1 .. Len(cs)
      PROVE  /\ s[i] \in Seq(Items) /\ Len(s[i]) = Len(L(cs[i])) /\ Len(s[i]) \in Nat
             /\ \A j \in 1 .. Len(s[i]) : s[i][j] = [cellId |-> cs[i], geom |-> L(cs[i])[j]]
             /\ \A j \in 1 .. Len(s[i]) : s[i][j] \in Items
  <2>. DEFINE gs == L(cs[i])
  <2>1. gs \in Seq(Geoms) /\ cs[i] \in Cells
    BY <1>2, <1>4
  <2>2. s[i] = [j \in 1 .. Len(gs) |-> [cellId |-> cs[i], geom |-> gs[j]]]
    BY <1>6 DEF InOneCell
  <2>. HIDE DEF gs
  <2>3. Len(gs) \in Nat /\ \A j \in 1 .. Len(gs) : gs[j] \in Geoms
    BY <2>1
  <2>4. \A j \in 1 .. Len(gs) : [cellId |-> cs[i], geom |-> gs[j]] \in Items
    BY <2>1, <2>3 DEF Items
  <2>5. s[i] \in Seq(Items) /\ Len(s[i]) = Len(gs)
    BY <2>2, <2>3, <2>4
  <2>. QED BY <2>2, <2>3, <2>4, <2>5 DEF gs
<1>8. \A i \in 1 .. Len(cs) : Elems(s[i]) = {x \in Items : x.cellId = cs[i] /\ x.geom \in LayerSet(q, cs[i], l)}
  <2>. SUFFICES ASSUME NEW i \in 1 .. Len(cs), NEW x
                PROVE  x \in Elems(s[i]) <=>
                         x \in Items /\ x.cellId = cs[i] /\ x.geom \in LayerSet(q, cs[i], l)
    OBVIOUS
  <2>1. ASSUME x \in Elems(s[i])
        PROVE  x \in Items /\ x.cellId = cs[i] /\ x.geom \in LayerSet(q, cs[i], l)
    <3>1. PICK j \in 1 .. Len(s[i]) : x = s[i][j]
      BY <2>1 DEF Elems
    <3>2. x = [cellId |-> cs[i], geom |-> L(cs[i])[j]] /\ x \in Items
      BY <1>7, <3>1
    <3>3. L(cs[i])[j] \in Elems(L(cs[i]))
      BY <1>7 DEF Elems
    <3>. QED BY <1>2, <3>2, <3>3
  <2>2. ASSUME x \in Items, x.cellId = cs[i], x.geom \in LayerSet(q, cs[i], l)
        PROVE  x \in Elems(s[i])
    <3>1. x.geom \in Elems(L(cs[i]))
      BY <1>2, <2>2
    <3>2. PICK j \in 1 .. Len(L(cs[i])) : x.geom = L(cs[i])[j]
      BY <3>1 DEF Elems
    <3>3. x = [cellId |-> cs[i], geom |-> L(cs[i])[j]]
      BY <2>2, <3>2 DEF Items
    <3>4. j \in 1 .. Len(s[i]) /\ s[i][j] = x
      BY <1>7, <3>3
    <3>. QED BY <3>4 DEF Elems
  <2>. QED BY <2>1, <2>2
<1>9. \A i \in 1 .. Len(s) : s[i] \in Seq(Items)
  BY <1>5, <1>7
<1>10. FlattenSeq(s) \in Seq(Items)
  BY <1>4, <1>5, <1>9, FlattenConcatenates
<1>11. Elems(FlattenSeq(s)) = PackedSet(q, p, rd, l)
  <2>1. Elems(FlattenSeq(s)) = UNION {Elems(s[i]) : i \in 1 .. Len(s)}
    BY <1>4, <1>5, <1>9, FlattenElems
  <2>2. ASSUME NEW x PROVE x \in Elems(FlattenSeq(s)) <=> x \in PackedSet(q, p, rd, l)
    <3>1. x \in Elems(FlattenSeq(s)) <=> \E i \in 1 .. Len(cs) : x \in Elems(s[i])
      BY <1>5, <2>1
    <3>2. x \in PackedSet(q, p, rd, l) <=>
            x \in Items /\ \E i \in 1 .. Len(cs) : x.cellId = cs[i] /\ x.geom \in LayerSet(q, cs[i], l)
      BY <1>1 DEF PackedSet, Elems
    <3>. QED BY <1>8, <3>1, <3>2
  <2>. QED BY <2>2
<1>12. ASSUME NEW x \in Items, NEW y \in Items,
              x.cellId < y.cellId \/ (x.cellId = y.cellId /\ x.geom < y.geom),
              x.geom \in LayerSet(q, x.cellId, l), y.geom \in LayerSet(q, y.cellId, l)
       PROVE  <<x, y>> \in PackOrder
  BY <1>12 DEF PackOrder, Before, LayerSet
<1>13. \A i \in 1 .. Len(s) : Sorted(s[i], PackOrder)
  <2>. SUFFICES ASSUME NEW i \in 1 .. Len(cs), NEW j \in 1 .. Len(s[i]), NEW k \in 1 .. Len(s[i]), j < k
                PROVE  <<s[i][j], s[i][k]>> \in PackOrder
    BY <1>5 DEF Sorted
  <2>. DEFINE x == s[i][j]  y == s[i][k]
  <2>1. x \in Elems(s[i]) /\ y \in Elems(s[i])
    BY DEF Elems
  <2>2. /\ x \in Items /\ y \in Items /\ x.cellId = cs[i] /\ y.cellId = cs[i]
        /\ x.geom \in LayerSet(q, x.cellId, l) /\ y.geom \in LayerSet(q, y.cellId, l)
    BY <1>8, <2>1
  <2>3. x.geom = L(cs[i])[j] /\ y.geom = L(cs[i])[k]
    <3>1. /\ x = [cellId |-> cs[i], geom |-> L(cs[i])[j]]
          /\ y = [cellId |-> cs[i], geom |-> L(cs[i])[k]]
      BY <1>7
    <3>. HIDE DEF x, y
    <3>. QED BY <3>1
  <2>4. <<x.geom, y.geom>> \in Less
    BY <1>2, <1>7, <2>3 DEF Sorted
  <2>5. x.geom < y.geom
    BY <2>4 DEF Less
  <2>. HIDE DEF x, y
  <2>6. <<x, y>> \in PackOrder
    BY <1>12, <2>2, <2>5
  <2>. QED BY <2>6 DEF x, y
<1>14. \A i, j \in 1 .. Len(s) : i < j =>
         \A x \in Elems(s[i]), y \in Elems(s[j]) : <<x, y>> \in PackOrder
  <2>. SUFFICES ASSUME NEW i \in 1 .. Len(cs), NEW j \in 1 .. Len(cs), i < j,
                       NEW x \in Elems(s[i]), NEW y \in Elems(s[j])
                PROVE  <<x, y>> \in PackOrder
    BY <1>5
  <2>1. /\ x \in Items /\ y \in Items /\ x.cellId = cs[i] /\ y.cellId = cs[j]
        /\ x.geom \in LayerSet(q, x.cellId, l) /\ y.geom \in LayerSet(q, y.cellId, l)
    BY <1>8
  <2>2. cs[i] < cs[j]
    BY <1>1 DEF Sorted, Less
  <2>3. x.cellId < y.cellId
    BY <2>1, <2>2
  <2>. QED BY <2>1, <2>3 DEF PackOrder, Before, LayerSet
<1>15. Sorted(FlattenSeq(s), PackOrder)
  BY <1>4, <1>5, <1>9, <1>13, <1>14, FlattenSorted
<1>. QED BY <1>3, <1>10, <1>11, <1>15

-----------------------------------------------------------------------------
(* What r receives in its round, by sender.                                *)
PackedBy(r, l) == [i \in 1 .. numProcesses |-> Packed(i - 1, r, round[r], l)]
BoxesBy(r, l)  == [i \in 1 .. numProcesses |-> Boxes(i - 1, r, round[r], l)]
ReceivedSet(r, rd, l) ==
  {x \in Items : /\ x.cellId \in RoundCells(r, rd) /\ input.geoms[x.geom].layer = l
                 /\ x.cellId \in input.geoms[x.geom].cells}
Receives(r) == Chosen /\ r \in Ranks /\ round[r] \in 0 .. Rounds - 1

LEMMA PackedByIs ==
  ASSUME NEW r, Receives(r), NEW l
  PROVE  /\ Len(PackedBy(r, l)) = numProcesses /\ numProcesses \in Nat \ {0}
         /\ \A i \in 1 .. numProcesses :
              /\ i - 1 \in Ranks /\ PackedBy(r, l)[i] = Packed(i - 1, r, round[r], l)
              /\ PackedBy(r, l)[i] \in Seq(Items) /\ Sorted(PackedBy(r, l)[i], PackOrder)
              /\ Elems(PackedBy(r, l)[i]) = PackedSet(i - 1, r, round[r], l)
         /\ Received(r, l) = FlattenSeq(PackedBy(r, l))
<1>1. numProcesses \in Nat \ {0}
  BY ShuffleConstants
<1>2. Len(PackedBy(r, l)) = numProcesses
  BY <1>1 DEF PackedBy
<1>3. ASSUME NEW i \in 1 .. numProcesses
      PROVE  /\ i - 1 \in Ranks /\ PackedBy(r, l)[i] = Packed(i - 1, r, round[r], l)
             /\ PackedBy(r, l)[i] \in Seq(Items) /\ Sorted(PackedBy(r, l)[i], PackOrder)
             /\ Elems(PackedBy(r, l)[i]) = PackedSet(i - 1, r, round[r], l)
  <2>1. i - 1 \in Ranks /\ PackedBy(r, l)[i] = Packed(i - 1, r, round[r], l)
    BY <1>1 DEF PackedBy, Ranks
  <2>2. /\ Packed(i - 1, r, round[r], l) \in Seq(Items)
        /\ Sorted(Packed(i - 1, r, round[r], l), PackOrder)
        /\ Elems(Packed(i - 1, r, round[r], l)) = PackedSet(i - 1, r, round[r], l)
    BY PackedIs DEF Receives
  <2>. QED BY <2>1, <2>2
<1>4. Received(r, l) = FlattenSeq(PackedBy(r, l))
  <2>. DEFINE f == [q \in Ranks |-> Packed(q, r, round[r], l)]
  <2>1. [i \in 1 .. numProcesses |-> f[i - 1]] = PackedBy(r, l)
    <3>1. \A i \in 1 .. numProcesses : i - 1 \in Ranks
      BY <1>3
    <3>. QED BY <3>1 DEF PackedBy
  <2>. QED BY <2>1 DEF Received, ByRank
<1>. QED BY <1>1, <1>2, <1>3, <1>4

LEMMA ReceivedIs ==
  ASSUME NEW r, Receives(r), NEW l
  PROVE  /\ Received(r, l) \in Seq(Items) /\ Sorted(Received(r, l), PackOrder)
         /\ Elems(Received(r, l)) = ReceivedSet(r, round[r], l)
         /\ Concatenated(Received(r, l), PackedBy(r, l))
<1>. DEFINE s == PackedBy(r, l)  n == numProcesses
<1>1. /\ Len(s) = n /\ n \in Nat \ {0}
      /\ \A i \in 1 .. n :
              /\ i - 1 \in Ranks
              /\ s[i] \in Seq(Items) /\ Sorted(s[i], PackOrder)
              /\ Elems(s[i]) = PackedSet(i - 1, r, round[r], l)
      /\ Received(r, l) = FlattenSeq(s)
  BY PackedByIs
<1>0. Ranks = 0 .. n - 1
  BY DEF Ranks
<1>2. \A g \in Geoms : input.geoms[g].rank \in Ranks
  BY ChosenIs DEF Receives
<1>. HIDE DEF s, n
<1>3. Len(s) \in Nat /\ (Len(s) = 0 => s = <<>>) /\ \A i \in 1 .. Len(s) : s[i] \in Seq(Items)
  BY <1>1
<1>4. FlattenSeq(s) \in Seq(Items) /\ Concatenated(FlattenSeq(s), s)
  BY <1>3, FlattenConcatenates
<1>5. Elems(FlattenSeq(s)) = ReceivedSet(r, round[r], l)
  <2>1. Elems(FlattenSeq(s)) = UNION {Elems(s[i]) : i \in 1 .. Len(s)}
    BY <1>3, FlattenElems
  <2>2. ASSUME NEW x
        PROVE  x \in Elems(FlattenSeq(s)) <=> x \in ReceivedSet(r, round[r], l)
    <3>1. x \in Elems(FlattenSeq(s)) <=> \E i \in 1 .. n : x \in PackedSet(i - 1, r, round[r], l)
      <4>1. x \in Elems(FlattenSeq(s)) <=> \E i \in 1 .. n : x \in Elems(s[i])
        BY <1>1, <2>1
      <4>. QED BY <1>1, <4>1
    <3>2. ASSUME x \in ReceivedSet(r, round[r], l)
          PROVE  \E i \in 1 .. n : x \in PackedSet(i - 1, r, round[r], l)
      <4>1. x \in Items /\ x.geom \in Geoms
        BY <3>2 DEF ReceivedSet, Items
      <4>2. input.geoms[x.geom].rank + 1 \in 1 .. n
            /\ (input.geoms[x.geom].rank + 1) - 1 = input.geoms[x.geom].rank
        <5>. DEFINE k == input.geoms[x.geom].rank
        <5>1. k \in 0 .. n - 1
          BY <1>0, <1>2, <4>1
        <5>. HIDE DEF k
        <5>2. k + 1 \in 1 .. n /\ (k + 1) - 1 = k
          BY <1>1, <5>1
        <5>. QED BY <5>2 DEF k
      <4>3. x \in PackedSet(input.geoms[x.geom].rank, r, round[r], l)
        BY <3>2, <4>1 DEF ReceivedSet, PackedSet, LayerSet
      <4>. QED BY <4>2, <4>3
    <3>3. ASSUME NEW i \in 1 .. n, x \in PackedSet(i - 1, r, round[r], l)
          PROVE  x \in ReceivedSet(r, round[r], l)
      BY <3>3 DEF ReceivedSet, PackedSet, LayerSet
    <3>. QED BY <3>1, <3>2, <3>3
  <2>. QED BY <2>2
<1>6. \A i, j \in 1 .. Len(s) : i < j =>
         \A x \in Elems(s[i]), y \in Elems(s[j]) : <<x, y>> \in PackOrder
  <2>. SUFFICES ASSUME NEW i \in 1 .. n, NEW j \in 1 .. n, i < j,
                       NEW x \in Elems(s[i]), NEW y \in Elems(s[j])
                PROVE  <<x, y>> \in PackOrder
    BY <1>1
  <2>1. x \in PackedSet(i - 1, r, round[r], l) /\ y \in PackedSet(j - 1, r, round[r], l)
    BY <1>1
  <2>2. x \in Items /\ y \in Items /\ input.geoms[x.geom].rank = i - 1
        /\ input.geoms[y.geom].rank = j - 1 /\ i - 1 < j - 1
    BY <1>1, <2>1 DEF PackedSet, LayerSet
  <2>. QED BY <2>2 DEF PackOrder, Before
<1>7. Sorted(FlattenSeq(s), PackOrder)
  <2>1. \A i \in 1 .. Len(s) : Sorted(s[i], PackOrder)
    BY <1>1
  <2>. QED BY <1>3, <1>6, <2>1, FlattenSorted
<1>. QED BY <1>1, <1>4, <1>5, <1>7 DEF s

-----------------------------------------------------------------------------
BoxSet   == [cellId : Cells, vertStrLen : Nat \ {0}, coords : Geoms]
BoxOf(x) == [cellId |-> x.cellId, vertStrLen |-> input.geoms[x.geom].len, coords |-> x.geom]
BoxLen   == [b \in BoxSet |-> b.vertStrLen]

LEMMA BoxLenIs ==
  /\ \A b \in BoxSet : BoxLen[b] \in Nat /\ BoxLen[b] = b.vertStrLen /\ BoxLen[b] > 0
  /\ Chosen => \A x \in Items : BoxOf(x) \in BoxSet
<1>1. \A b \in BoxSet : BoxLen[b] \in Nat /\ BoxLen[b] = b.vertStrLen /\ BoxLen[b] > 0
  BY DEF BoxLen, BoxSet
<1>2. ASSUME Chosen, NEW x \in Items PROVE BoxOf(x) \in BoxSet
  <2>1. x.cellId \in Cells /\ x.geom \in Geoms /\ input.geoms[x.geom].len \in Nat \ {0}
    BY <1>2, ChosenIs DEF Items
  <2>. QED BY <2>1 DEF BoxOf, BoxSet
<1>. QED BY <1>1, <1>2

LEMMA BoxesIs ==
  ASSUME Chosen, NEW p \in Ranks, NEW rd \in 0 .. Rounds - 1, NEW q, NEW l
  PROVE  /\ Boxes(q, p, rd, l) \in Seq(BoxSet)
         /\ Len(Boxes(q, p, rd, l)) = Len(Packed(q, p, rd, l))
         /\ Len(Packed(q, p, rd, l)) \in Nat
         /\ \A i \in 1 .. Len(Packed(q, p, rd, l)) :
              /\ Packed(q, p, rd, l)[i] \in Items
              /\ Boxes(q, p, rd, l)[i] = BoxOf(Packed(q, p, rd, l)[i])
<1>. DEFINE t == Packed(q, p, rd, l)  b == Boxes(q, p, rd, l)
<1>1. t \in Seq(Items)
  BY PackedIs
<1>2. b = [i \in 1 .. Len(t) |-> BoxOf(t[i])]
  BY DEF Boxes, BoxOf
<1>. HIDE DEF t, b
<1>3. Len(t) \in Nat /\ \A i \in 1 .. Len(t) : t[i] \in Items
  BY <1>1
<1>4. \A i \in 1 .. Len(t) : BoxOf(t[i]) \in BoxSet
  BY <1>3, BoxLenIs
<1>5. b \in Seq(BoxSet) /\ Len(b) = Len(t) /\ \A i \in 1 .. Len(t) : b[i] = BoxOf(t[i])
  BY <1>2, <1>3, <1>4
<1>. QED BY <1>3, <1>5 DEF t, b

LEMMA BoxesByIs ==
  ASSUME NEW r, Receives(r), NEW l
  PROVE  /\ Len(BoxesBy(r, l)) = numProcesses /\ numProcesses \in Nat \ {0}
         /\ \A i \in 1 .. numProcesses :
              /\ BoxesBy(r, l)[i] = Boxes(i - 1, r, round[r], l)
              /\ BoxesBy(r, l)[i] \in Seq(BoxSet)
              /\ Len(BoxesBy(r, l)[i]) = Len(PackedBy(r, l)[i])
              /\ \A j \in 1 .. Len(PackedBy(r, l)[i]) :
                   BoxesBy(r, l)[i][j] = BoxOf(PackedBy(r, l)[i][j])
         /\ \A i : Ahead(BoxesBy(r, l), i) = Ahead(PackedBy(r, l), i)
<1>1. /\ Len(PackedBy(r, l)) = numProcesses /\ numProcesses \in Nat \ {0}
      /\ \A i \in 1 .. numProcesses :
            i - 1 \in Ranks /\ PackedBy(r, l)[i] = Packed(i - 1, r, round[r], l)
  BY PackedByIs
<1>2. Len(BoxesBy(r, l)) = numProcesses
  BY <1>1 DEF BoxesBy
<1>3. ASSUME NEW i \in 1 .. numProcesses
      PROVE  /\ BoxesBy(r, l)[i] = Boxes(i - 1, r, round[r], l)
             /\ BoxesBy(r, l)[i] \in Seq(BoxSet)
             /\ Len(BoxesBy(r, l)[i]) = Len(PackedBy(r, l)[i])
             /\ \A j \in 1 .. Len(PackedBy(r, l)[i]) :
                   BoxesBy(r, l)[i][j] = BoxOf(PackedBy(r, l)[i][j])
  <2>1. BoxesBy(r, l)[i] = Boxes(i - 1, r, round[r], l)
    BY DEF BoxesBy
  <2>2. Chosen /\ r \in Ranks /\ round[r] \in 0 .. Rounds - 1
    BY DEF Receives
  <2>3. /\ Boxes(i - 1, r, round[r], l) \in Seq(BoxSet)
        /\ Len(Boxes(i - 1, r, round[r], l)) = Len(Packed(i - 1, r, round[r], l))
        /\ \A j \in 1 .. Len(Packed(i - 1, r, round[r], l)) :
             Boxes(i - 1, r, round[r], l)[j] = BoxOf(Packed(i - 1, r, round[r], l)[j])
    BY <2>2, BoxesIs
  <2>. QED BY <1>1, <2>1, <2>3
<1>4. [k \in 1 .. numProcesses |-> Len(BoxesBy(r, l)[k])] = [k \in 1 .. numProcesses |-> Len(PackedBy(r, l)[k])]
  BY <1>3
<1>. QED BY <1>1, <1>2, <1>3, <1>4 DEF Ahead

LEMMA AllBoxesIs ==
  ASSUME NEW r, Receives(r), NEW l, NEW t, t = FlattenSeq(BoxesBy(r, l))
  PROVE  /\ t \in Seq(BoxSet) /\ Concatenated(t, BoxesBy(r, l))
         /\ Len(t) = Len(Received(r, l)) /\ Len(t) \in Nat
         /\ \A n \in 1 .. Len(t) : Received(r, l)[n] \in Items /\ t[n] = BoxOf(Received(r, l)[n])
<1>. DEFINE s == BoxesBy(r, l)  u == PackedBy(r, l)  k == numProcesses  v == Received(r, l)
<1>1. /\ Len(s) = k /\ k \in Nat \ {0}
      /\ \A i \in 1 .. k : /\ s[i] \in Seq(BoxSet) /\ Len(s[i]) = Len(u[i])
                           /\ \A j \in 1 .. Len(u[i]) : s[i][j] = BoxOf(u[i][j])
      /\ \A i : Ahead(s, i) = Ahead(u, i)
  BY BoxesByIs
<1>2. Len(u) = k /\ v \in Seq(Items) /\ Concatenated(v, u)
  BY PackedByIs, ReceivedIs
<1>. HIDE DEF s, u, k, v
<1>3. t = FlattenSeq(s)
  BY DEF s
<1>4. t \in Seq(BoxSet) /\ Concatenated(t, s)
  <2>1. Len(s) \in Nat /\ (Len(s) = 0 => s = <<>>) /\ \A i \in 1 .. Len(s) : s[i] \in Seq(BoxSet)
    BY <1>1
  <2>. QED BY <1>3, <2>1, FlattenConcatenates
<1>5. Len(t) = Len(v) /\ Len(t) \in Nat
  BY <1>1, <1>2, <1>4 DEF Concatenated
<1>6. ASSUME NEW n \in 1 .. Len(t) PROVE v[n] \in Items /\ t[n] = BoxOf(v[n])
  <2>1. PICK i \in 1 .. k : \E j \in 1 .. Len(u[i]) : n = Ahead(u, i - 1) + j
    BY <1>2, <1>5 DEF Concatenated
  <2>2. PICK j \in 1 .. Len(u[i]) : n = Ahead(u, i - 1) + j
    BY <2>1
  <2>3. v[n] = u[i][j]
    BY <1>2, <2>2 DEF Concatenated
  <2>4. t[n] = s[i][j]
    <3>1. n = Ahead(s, i - 1) + j /\ i \in 1 .. Len(s) /\ j \in 1 .. Len(s[i])
      BY <1>1, <2>2
    <3>. QED BY <1>4, <3>1 DEF Concatenated
  <2>5. v[n] \in Items
    BY <1>2, <1>5
  <2>. QED BY <1>1, <2>2, <2>3, <2>4, <2>5
<1>. QED BY <1>4, <1>5, <1>6 DEF s, v

LEMMA VertStrLensIs ==
  ASSUME NEW t \in Seq(BoxSet) PROVE \A n : VertStrLens(t, n) = Weigh(BoxLen, t, n)
<1>1. [i \in 1 .. Len(t) |-> t[i].vertStrLen] = [i \in 1 .. Len(t) |-> BoxLen[t[i]]]
  <2>1. \A i \in 1 .. Len(t) : t[i] \in BoxSet
    OBVIOUS
  <2>. QED BY <2>1, BoxLenIs
<1>. QED BY <1>1 DEF VertStrLens, Weigh, SumOver

(* The texts for a rank fit in the units that are counted for them.        *)
LEMMA UnitsFit ==
  ASSUME Chosen, NEW n \in Nat
  PROVE  /\ Units(n) \in Nat /\ n <= Unit * Units(n) /\ Unit * Units(n) \in Nat
         /\ (Units(n) = 0 => n = 0) /\ (Unit = 1 => Units(n) = n)
<1>. DEFINE u == Unit  m == n + u - 1
<1>1. u \in Nat \ {0}
  BY ChosenIs
<1>2. m \in Nat
  BY <1>1
<1>3. Units(n) = m \div u
  BY DEF Units
<1>. HIDE DEF u
<1>4. m \div u \in Nat /\ m % u \in Nat /\ m % u < u /\ m = u * (m \div u) + (m % u)
  <2>. HIDE DEF m
  <2>. QED BY <1>1, <1>2, DivMod
<1>5. n <= u * (m \div u) /\ u * (m \div u) \in Nat
  <2>. DEFINE a == u * (m \div u)  b == m % u
  <2>1. a \in Nat /\ b \in Nat /\ b < u /\ n + u - 1 = a + b
    BY <1>1, <1>4
  <2>. HIDE DEF a, b
  <2>2. n <= a
    BY <1>1, <2>1
  <2>. QED BY <2>1, <2>2 DEF a
<1>6. m \div u = 0 => n = 0
  <2>1. u * 0 = 0
    BY <1>1
  <2>. QED BY <1>5, <2>1
<1>7. u = 1 => m \div u = n
  OBVIOUS
<1>. QED BY <1>3, <1>4, <1>5, <1>6, <1>7 DEF u

LEMMA TextLenIs ==
  ASSUME Chosen, NEW p \in Ranks, NEW rd \in 0 .. Rounds - 1, NEW q, NEW l
  PROVE  /\ TextLen(q, p, rd, l) = Weigh(BoxLen, Boxes(q, p, rd, l), Len(Boxes(q, p, rd, l)))
         /\ TextLen(q, p, rd, l) \in Nat
         /\ TextLen(q, p, rd, l) <= Unit * Units(TextLen(q, p, rd, l))
<1>. DEFINE b == Boxes(q, p, rd, l)
<1>1. b \in Seq(BoxSet)
  BY BoxesIs
<1>2. TextLen(q, p, rd, l) = VertStrLens(b, Len(b))
  BY DEF TextLen
<1>. HIDE DEF b
<1>3. VertStrLens(b, Len(b)) = Weigh(BoxLen, b, Len(b))
  BY <1>1, VertStrLensIs
<1>4. Weigh(BoxLen, b, Len(b)) \in Nat
  <2>1. \A x \in BoxSet : BoxLen[x] \in Nat
    BY BoxLenIs
  <2>2. \A n \in 0 .. Len(b) : Weigh(BoxLen, b, n) \in Nat
    BY <1>1, <2>1, WeighIs
  <2>3. Len(b) \in 0 .. Len(b)
    BY <1>1
  <2>. QED BY <2>2, <2>3
<1>. QED BY <1>2, <1>3, <1>4, UnitsFit DEF b

-----------------------------------------------------------------------------
(* What r has received when it parses.                                     *)
TextClass == setup.manager \in {"all", "multi", "single", "pair"}
GotRound(r) ==
  /\ got[r].mbrCounts = [q \in Ranks |-> [l \in Layers |-> Len(Packed(q, r, round[r], l))]]
  /\ \A l \in Layers : got[r][Mbrs(l)] = [q \in Ranks |-> Boxes(q, r, round[r], l)]
  /\ TextClass =>
       /\ got[r].geomCounts =
            [q \in Ranks |-> [l \in Layers |-> Units(TextLen(q, r, round[r], l))]]
       /\ \A l \in Layers : got[r][GeomsOf(l)] = [q \in Ranks |-> Texts(q, r, round[r], l)]

LEMMA GotBoxes ==
  ASSUME NEW r, Receives(r), GotRound(r), NEW l \in Layers
  PROVE  /\ AllBoxes(r, l) = FlattenSeq(BoxesBy(r, l))
         /\ \A p : Displacement(got[r].mbrCounts, p, l) = Ahead(BoxesBy(r, l), p)
         /\ \A p \in Ranks : got[r].mbrCounts[p][l] = Len(PackedBy(r, l)[p + 1])
<1>1. numProcesses \in Nat \ {0} /\ Ranks = 0 .. numProcesses - 1
  BY ShuffleConstants DEF Ranks
<1>2. \A i \in 1 .. numProcesses : i - 1 \in Ranks
  BY <1>1
<1>3. AllBoxes(r, l) = FlattenSeq(BoxesBy(r, l))
  <2>. DEFINE f == got[r][Mbrs(l)]
  <2>1. f = [q \in Ranks |-> Boxes(q, r, round[r], l)]
    BY DEF GotRound
  <2>. HIDE DEF f
  <2>2. [i \in 1 .. numProcesses |-> f[i - 1]] = BoxesBy(r, l)
    BY <1>2, <2>1 DEF BoxesBy
  <2>3. AllBoxes(r, l) = FlattenSeq([i \in 1 .. numProcesses |-> f[i - 1]])
    BY DEF AllBoxes, ByRank, f
  <2>. QED BY <2>2, <2>3
<1>4. \A p \in Ranks : got[r].mbrCounts[p][l] = Len(Packed(p, r, round[r], l))
  BY DEF GotRound
<1>5. \A p \in Ranks : got[r].mbrCounts[p][l] = Len(PackedBy(r, l)[p + 1])
  <2>. SUFFICES ASSUME NEW p \in Ranks PROVE got[r].mbrCounts[p][l] = Len(PackedBy(r, l)[p + 1])
    OBVIOUS
  <2>1. p + 1 \in 1 .. numProcesses /\ (p + 1) - 1 = p
    BY <1>1
  <2>2. PackedBy(r, l)[p + 1] = Packed(p, r, round[r], l)
    BY <2>1, PackedByIs
  <2>. QED BY <1>4, <2>2
<1>6. \A p : Displacement(got[r].mbrCounts, p, l) = Ahead(BoxesBy(r, l), p)
  <2>. DEFINE s == BoxesBy(r, l)
  <2>1. Len(s) = numProcesses
    BY BoxesByIs
  <2>2. \A i \in 1 .. numProcesses : Len(s[i]) = got[r].mbrCounts[i - 1][l]
    <3>. SUFFICES ASSUME NEW i \in 1 .. numProcesses
                  PROVE  Len(s[i]) = got[r].mbrCounts[i - 1][l]
      OBVIOUS
    <3>1. Len(s[i]) = Len(PackedBy(r, l)[i])
      BY BoxesByIs
    <3>2. i - 1 \in Ranks /\ PackedBy(r, l)[i] = Packed(i - 1, r, round[r], l)
      BY PackedByIs
    <3>. QED BY <1>4, <3>1, <3>2
  <2>. HIDE DEF s
  <2>3. [i \in 1 .. numProcesses |-> got[r].mbrCounts[i - 1][l]] = [k \in 1 .. Len(s) |-> Len(s[k])]
    BY <2>1, <2>2
  <2>. QED BY <2>3 DEF Displacement, Ahead, SumOver, s
<1>. QED BY <1>3, <1>5, <1>6

(* Where the texts of the first senders end.                               *)
Start(r, l, p) == Displacement(got[r].geomCounts, p, l) * Unit
TextAt(r, l, i, j) == Start(r, l, i - 1) + VertStrLens(BoxesBy(r, l)[i], j - 1)
IsText(r, l, i, j) == i \in 1 .. numProcesses /\ j \in 1 .. Len(PackedBy(r, l)[i])

LEMMA StartIs ==
  ASSUME NEW r, Receives(r), GotRound(r), TextClass, NEW l \in Layers
  PROVE  /\ Start(r, l, 0) = 0
         /\ \A i \in 0 .. numProcesses : Start(r, l, i) \in Nat
         /\ \A i \in 1 .. numProcesses :
              Start(r, l, i) = Start(r, l, i - 1) + Unit * Units(TextLen(i - 1, r, round[r], l))
         /\ \A i, j \in 0 .. numProcesses : i <= j => Start(r, l, i) <= Start(r, l, j)
         /\ Unit = 1 => \A i \in 0 .. numProcesses :
                          Start(r, l, i) = SumOver(Weights(BoxLen, BoxesBy(r, l)), 1 .. i)
<1>. DEFINE n == numProcesses
            f == [i \in 1 .. n |-> got[r].geomCounts[i - 1][l]]
            D(i) == SumOver(f, 1 .. i)
            T(i) == TextLen(i - 1, r, round[r], l)
<1>1. n \in Nat \ {0} /\ Unit \in Nat \ {0} /\ \A i \in 1 .. n : i - 1 \in Ranks
  BY ChosenIs, PackedByIs DEF Receives
<1>2. \A i \in 1 .. n : T(i) \in Nat /\ T(i) = Weights(BoxLen, BoxesBy(r, l))[i]
  <2>. SUFFICES ASSUME NEW i \in 1 .. n
                PROVE  T(i) \in Nat /\ T(i) = Weights(BoxLen, BoxesBy(r, l))[i]
    OBVIOUS
  <2>. DEFINE b == Boxes(i - 1, r, round[r], l)
  <2>1. Chosen /\ r \in Ranks /\ round[r] \in 0 .. Rounds - 1
    BY DEF Receives
  <2>2. T(i) = Weigh(BoxLen, b, Len(b)) /\ T(i) \in Nat
    BY <2>1, TextLenIs
  <2>3. BoxesBy(r, l)[i] = b /\ Len(BoxesBy(r, l)) = n
    BY BoxesByIs
  <2>. HIDE DEF b, T
  <2>. QED BY <2>2, <2>3 DEF Weights
<1>3. \A i \in 1 .. n : f[i] = Units(T(i)) /\ f[i] \in Nat
  <2>. SUFFICES ASSUME NEW i \in 1 .. n PROVE f[i] = Units(T(i)) /\ f[i] \in Nat
    OBVIOUS
  <2>1. f[i] = Units(T(i))
    BY <1>1 DEF GotRound
  <2>2. Units(T(i)) \in Nat
    BY <1>2, UnitsFit DEF Receives
  <2>. QED BY <2>1, <2>2
<1>4. \A i : Start(r, l, i) = D(i) * Unit
  BY DEF Start, Displacement, SumOver
<1>5. /\ D(0) = 0
      /\ \A i \in 0 .. n : D(i) \in Nat
      /\ \A i \in 1 .. n : D(i) = D(i - 1) + f[i]
      /\ \A i, j \in 0 .. n : i <= j => D(i) <= D(j)
  <2>1. n \in Nat /\ \A i \in 1 .. n : f[i] \in Nat
    BY <1>1, <1>3
  <2>. HIDE DEF f, n
  <2>. QED BY <2>1, SumInterval
<1>6. Unit = 1 => \A i \in 0 .. n : D(i) = SumOver(Weights(BoxLen, BoxesBy(r, l)), 1 .. i)
  <2>. SUFFICES ASSUME Unit = 1, NEW i \in 0 .. n
                PROVE  D(i) = SumOver(Weights(BoxLen, BoxesBy(r, l)), 1 .. i)
    OBVIOUS
  <2>1. \A k \in 1 .. n : f[k] = Weights(BoxLen, BoxesBy(r, l))[k]
    BY <1>2, <1>3, UnitsFit DEF Receives
  <2>2. IsFiniteSet(1 .. i) /\ \A k \in 1 .. i : k \in 1 .. n
    BY <1>1, FS_Interval
  <2>. HIDE DEF f
  <2>. QED BY <2>1, <2>2, SumSame
<1>. HIDE DEF D, T, f
<1>7. ASSUME NEW i \in 1 .. n
      PROVE  Start(r, l, i) = Start(r, l, i - 1) + Unit * Units(T(i))
  <2>1. D(i) = D(i - 1) + Units(T(i)) /\ Units(T(i)) \in Nat /\ D(i - 1) \in Nat
    <3>1. i - 1 \in 0 .. n
      BY <1>1
    <3>. QED BY <1>3, <1>5, <3>1
  <2>2. (D(i - 1) + Units(T(i))) * Unit = D(i - 1) * Unit + Unit * Units(T(i))
    BY <1>1, <2>1
  <2>. QED BY <1>4, <2>1, <2>2
<1>8. \A i \in 0 .. n : Start(r, l, i) \in Nat
  BY <1>1, <1>4, <1>5
<1>9. ASSUME NEW i \in 0 .. n, NEW j \in 0 .. n, i <= j PROVE Start(r, l, i) <= Start(r, l, j)
  <2>1. D(i) <= D(j) /\ D(i) \in Nat /\ D(j) \in Nat
    BY <1>5, <1>9
  <2>2. D(i) * Unit <= D(j) * Unit
    BY <1>1, <2>1, MulMonotone
  <2>. QED BY <1>4, <2>2
<1>10. Start(r, l, 0) = 0
  BY <1>1, <1>4, <1>5
<1>11. Unit = 1 => \A i \in 0 .. n : Start(r, l, i) = D(i)
  BY <1>4, <1>5
<1>. QED BY <1>6, <1>7, <1>8, <1>9, <1>10, <1>11 DEF T

(* The characters of one sender's texts.                                   *)
LEMMA OffsetsOf ==
  ASSUME NEW r, Receives(r), NEW l, NEW i \in 1 .. numProcesses
  PROVE  /\ Len(PackedBy(r, l)[i]) \in Nat
         /\ \A j \in 0 .. Len(PackedBy(r, l)[i]) :
              /\ VertStrLens(BoxesBy(r, l)[i], j) \in Nat
              /\ VertStrLens(BoxesBy(r, l)[i], j) <= TextLen(i - 1, r, round[r], l)
         /\ \A j \in 1 .. Len(PackedBy(r, l)[i]) :
              /\ PackedBy(r, l)[i][j] \in Items
              /\ VertStrLens(BoxesBy(r, l)[i], j) =
                   VertStrLens(BoxesBy(r, l)[i], j - 1) + input.geoms[PackedBy(r, l)[i][j].geom].len
         /\ \A j, k \in 0 .. Len(PackedBy(r, l)[i]) : j <= k =>
              VertStrLens(BoxesBy(r, l)[i], j) <= VertStrLens(BoxesBy(r, l)[i], k)
<1>. DEFINE b == BoxesBy(r, l)[i]  t == PackedBy(r, l)[i]  V(j) == VertStrLens(b, j)
<1>1. /\ b \in Seq(BoxSet) /\ Len(b) = Len(t) /\ b = Boxes(i - 1, r, round[r], l)
      /\ \A j \in 1 .. Len(t) : b[j] = BoxOf(t[j])
  BY BoxesByIs
<1>2. t \in Seq(Items)
  BY PackedByIs
<1>3. TextLen(i - 1, r, round[r], l) = V(Len(b))
  BY <1>1 DEF TextLen
<1>. HIDE DEF b, t
<1>4. \A j : V(j) = Weigh(BoxLen, b, j)
  BY <1>1, VertStrLensIs
<1>. HIDE DEF V
<1>5. Len(t) \in Nat /\ \A j \in 1 .. Len(t) : t[j] \in Items
  BY <1>2
<1>6. /\ \A j \in 0 .. Len(t) : V(j) \in Nat
      /\ \A j \in 1 .. Len(t) : V(j) = V(j - 1) + BoxLen[b[j]]
      /\ \A j, k \in 0 .. Len(t) : j <= k => V(j) <= V(k)
  <2>1. \A x \in BoxSet : BoxLen[x] \in Nat
    BY BoxLenIs
  <2>. DEFINE w == BoxLen
  <2>0. b \in Seq(BoxSet) /\ \A x \in BoxSet : w[x] \in Nat
    BY <1>1, <2>1
  <2>. HIDE DEF w
  <2>2. /\ \A j \in 0 .. Len(b) : Weigh(w, b, j) \in Nat
        /\ \A j \in 1 .. Len(b) : Weigh(w, b, j) = Weigh(w, b, j - 1) + w[b[j]]
        /\ \A j, k \in 0 .. Len(b) : j <= k => Weigh(w, b, j) <= Weigh(w, b, k)
    BY <2>0, WeighIs
  <2>. USE DEF w
  <2>. QED BY <1>1, <1>4, <2>2
<1>7. \A j \in 1 .. Len(t) : BoxLen[b[j]] = input.geoms[t[j].geom].len
  <2>. SUFFICES ASSUME NEW j \in 1 .. Len(t) PROVE BoxLen[b[j]] = input.geoms[t[j].geom].len
    OBVIOUS
  <2>1. BoxOf(t[j]) \in BoxSet
    BY <1>5, BoxLenIs DEF Receives
  <2>2. BoxOf(t[j]).vertStrLen = input.geoms[t[j].geom].len
    BY DEF BoxOf
  <2>. QED BY <1>1, <2>1, <2>2, BoxLenIs
<1>8. \A j \in 0 .. Len(t) : V(j) <= TextLen(i - 1, r, round[r], l)
  <2>1. Len(t) \in 0 .. Len(t) /\ \A j \in 0 .. Len(t) : j <= Len(t)
    BY <1>5
  <2>. QED BY <1>1, <1>3, <1>6, <2>1
<1>. QED BY <1>5, <1>6, <1>7, <1>8 DEF b, t, V

(* No two texts begin at the same place.                                   *)
LEMMA TextsApart ==
  ASSUME NEW r, Receives(r), GotRound(r), TextClass, NEW l \in Layers,
         NEW i, NEW j, IsText(r, l, i, j), NEW h, NEW k, IsText(r, l, h, k),
         TextAt(r, l, i, j) = TextAt(r, l, h, k)
  PROVE  i = h /\ j = k
<1>1. numProcesses \in Nat \ {0} /\ \A x \in 1 .. numProcesses : x - 1 \in Ranks
  BY PackedByIs
<1>2. ASSUME NEW a, NEW b, IsText(r, l, a, b), NEW c, NEW d, IsText(r, l, c, d), a < c
      PROVE  TextAt(r, l, a, b) < TextAt(r, l, c, d)
  <2>. DEFINE V(x, y) == VertStrLens(BoxesBy(r, l)[x], y)
              T == TextLen(a - 1, r, round[r], l)
              g == PackedBy(r, l)[a][b].geom
              len == input.geoms[g].len
  <2>0. /\ a \in 1 .. numProcesses /\ b \in 1 .. Len(PackedBy(r, l)[a])
        /\ c \in 1 .. numProcesses /\ d \in 1 .. Len(PackedBy(r, l)[c])
    BY <1>2 DEF IsText
  <2>1. /\ Len(PackedBy(r, l)[a]) \in Nat
        /\ V(a, b) <= T /\ V(a, b) \in Nat /\ V(a, b - 1) \in Nat
        /\ V(a, b) = V(a, b - 1) + len /\ PackedBy(r, l)[a][b] \in Items
    <3>1. Len(PackedBy(r, l)[a]) \in Nat
      BY <2>0, OffsetsOf
    <3>2. b \in 0 .. Len(PackedBy(r, l)[a]) /\ b - 1 \in 0 .. Len(PackedBy(r, l)[a])
      BY <2>0, <3>1
    <3>. QED BY SMTT(30), <2>0, <3>1, <3>2, OffsetsOf
  <2>2. V(c, d - 1) \in Nat
    <3>1. Len(PackedBy(r, l)[c]) \in Nat
      BY <2>0, OffsetsOf
    <3>2. d - 1 \in 0 .. Len(PackedBy(r, l)[c])
      BY <2>0, <3>1
    <3>. QED BY <2>0, <3>2, OffsetsOf
  <2>3. T \in Nat /\ T <= Unit * Units(T) /\ Unit * Units(T) \in Nat
    <3>1. a - 1 \in Ranks /\ Chosen /\ r \in Ranks /\ round[r] \in 0 .. Rounds - 1
      BY <1>1, <2>0 DEF Receives
    <3>2. T \in Nat
      BY <3>1, TextLenIs
    <3>. HIDE DEF T
    <3>. QED BY <3>1, <3>2, UnitsFit
  <2>4. len \in Nat \ {0}
    <3>1. g \in Geoms
      BY <2>1 DEF Items
    <3>. QED BY <3>1, ChosenIs DEF Receives
  <2>5. /\ Start(r, l, a) = Start(r, l, a - 1) + Unit * Units(T)
        /\ Start(r, l, a) <= Start(r, l, c - 1)
        /\ Start(r, l, a) \in Nat /\ Start(r, l, a - 1) \in Nat /\ Start(r, l, c - 1) \in Nat
    <3>1. a \in 0 .. numProcesses /\ a - 1 \in 0 .. numProcesses /\ c - 1 \in 0 .. numProcesses
          /\ a <= c - 1
      BY <1>1, <1>2, <2>0
    <3>. QED BY <2>0, <3>1, StartIs
  <2>6. /\ TextAt(r, l, a, b) = Start(r, l, a - 1) + V(a, b - 1)
        /\ TextAt(r, l, c, d) = Start(r, l, c - 1) + V(c, d - 1)
    BY DEF TextAt
  <2>. DEFINE x == Start(r, l, a - 1)  y == Start(r, l, a)  z == Start(r, l, c - 1)
              u == Unit * Units(T)  v == V(a, b - 1)  w == V(a, b)  e == V(c, d - 1)
  <2>7. /\ w <= T /\ w = v + len /\ T <= u /\ y = x + u /\ y <= z
        /\ w \in Nat /\ v \in Nat /\ e \in Nat /\ T \in Nat /\ u \in Nat
        /\ x \in Nat /\ y \in Nat /\ z \in Nat
    BY <2>1, <2>2, <2>3, <2>5
  <2>. HIDE DEF x, y, z, u, v, w, e, T, len
  <2>8. x + v < z + e
    BY <2>4, <2>7
  <2>. QED BY <2>6, <2>8 DEF x, v, z, e
<1>3. ASSUME NEW a, NEW b, IsText(r, l, a, b), NEW d, IsText(r, l, a, d), b < d
      PROVE  TextAt(r, l, a, b) < TextAt(r, l, a, d)
  <2>. DEFINE V(y) == VertStrLens(BoxesBy(r, l)[a], y)
              g == PackedBy(r, l)[a][b].geom
              len == input.geoms[g].len
              x == Start(r, l, a - 1)
  <2>0. /\ a \in 1 .. numProcesses /\ b \in 1 .. Len(PackedBy(r, l)[a])
        /\ d \in 1 .. Len(PackedBy(r, l)[a])
    BY <1>3 DEF IsText
  <2>1. Len(PackedBy(r, l)[a]) \in Nat
    BY <2>0, OffsetsOf
  <2>2. b \in 0 .. Len(PackedBy(r, l)[a]) /\ b - 1 \in 0 .. Len(PackedBy(r, l)[a])
        /\ d - 1 \in 0 .. Len(PackedBy(r, l)[a]) /\ b <= d - 1
    BY <1>3, <2>0, <2>1
  <2>3. /\ V(b) <= V(d - 1) /\ V(b) = V(b - 1) + len /\ PackedBy(r, l)[a][b] \in Items
        /\ V(b) \in Nat /\ V(b - 1) \in Nat /\ V(d - 1) \in Nat
    BY <2>0, <2>2, OffsetsOf
  <2>4. len \in Nat \ {0}
    <3>1. g \in Geoms
      BY <2>3 DEF Items
    <3>. QED BY <3>1, ChosenIs DEF Receives
  <2>5. x \in Nat
    <3>1. a - 1 \in 0 .. numProcesses
      BY <1>1, <2>0
    <3>. QED BY <3>1, StartIs
  <2>6. TextAt(r, l, a, b) = x + V(b - 1) /\ TextAt(r, l, a, d) = x + V(d - 1)
    BY DEF TextAt
  <2>. HIDE DEF V, len, x
  <2>. QED BY <2>3, <2>4, <2>5, <2>6
<1>4. i \in 1 .. numProcesses /\ h \in 1 .. numProcesses
  BY DEF IsText
<1>5. i = h
  <2>1. ~(i < h) /\ ~(h < i)
    <3>1. TextAt(r, l, i, j) \in Int /\ TextAt(r, l, h, k) \in Int
      <4>1. ASSUME NEW a, NEW b, IsText(r, l, a, b) PROVE TextAt(r, l, a, b) \in Int
        <5>0. a \in 1 .. numProcesses /\ b \in 1 .. Len(PackedBy(r, l)[a])
          BY <4>1 DEF IsText
        <5>1. Len(PackedBy(r, l)[a]) \in Nat
          BY <5>0, OffsetsOf
        <5>2. b - 1 \in 0 .. Len(PackedBy(r, l)[a]) /\ a - 1 \in 0 .. numProcesses
          BY <1>1, <5>0, <5>1
        <5>3. VertStrLens(BoxesBy(r, l)[a], b - 1) \in Nat
          BY <5>0, <5>2, OffsetsOf
        <5>4. Start(r, l, a - 1) \in Nat
          BY <5>2, StartIs
        <5>. QED BY <5>3, <5>4 DEF TextAt
      <4>. QED BY <4>1
    <3>2. i < h => TextAt(r, l, i, j) < TextAt(r, l, h, k)
      BY <1>2
    <3>3. h < i => TextAt(r, l, h, k) < TextAt(r, l, i, j)
      BY <1>2
    <3>. QED BY <3>1, <3>2, <3>3
  <2>. QED BY <1>1, <1>4, <2>1
<1>6. j = k
  <2>1. j \in Int /\ k \in Int
    BY DEF IsText
  <2>2. IsText(r, l, i, k) /\ TextAt(r, l, i, j) = TextAt(r, l, i, k)
    BY <1>5
  <2>3. j < k => TextAt(r, l, i, j) < TextAt(r, l, i, k)
    BY <1>3, <2>2
  <2>4. k < j => TextAt(r, l, i, k) < TextAt(r, l, i, j)
    BY <1>3, <2>2
  <2>5. TextAt(r, l, i, j) \in Int
    <3>0. i \in 1 .. numProcesses /\ j \in 1 .. Len(PackedBy(r, l)[i])
      BY DEF IsText
    <3>1. Len(PackedBy(r, l)[i]) \in Nat
      BY <3>0, OffsetsOf
    <3>2. j - 1 \in 0 .. Len(PackedBy(r, l)[i]) /\ i - 1 \in 0 .. numProcesses
      BY <1>1, <3>0, <3>1
    <3>3. VertStrLens(BoxesBy(r, l)[i], j - 1) \in Nat
      BY <3>0, <3>2, OffsetsOf
    <3>4. Start(r, l, i - 1) \in Nat
      BY <3>2, StartIs
    <3>. QED BY <3>3, <3>4 DEF TextAt
  <2>. QED BY <2>1, <2>2, <2>3, <2>4, <2>5
<1>. QED BY <1>5, <1>6

(* The receive buffer holds the text of each geometry that is received, at *)
(* the place for it.                                                       *)
LEMMA TextsGotIs ==
  ASSUME NEW r, Receives(r), GotRound(r), TextClass, NEW l \in Layers, NEW t
  PROVE  t \in TextsGot(r, l) <=>
           \E i \in 1 .. numProcesses : \E j \in 1 .. Len(PackedBy(r, l)[i]) :
             t = [geom |-> PackedBy(r, l)[i][j].geom, at |-> TextAt(r, l, i, j)]
<1>1. numProcesses \in Nat \ {0} /\ Ranks = 0 .. numProcesses - 1
  BY ShuffleConstants DEF Ranks
<1>. DEFINE here(p) == {[geom |-> x.geom, at |-> Displacement(got[r].geomCounts, p, l) * Unit + x.at] :
                          x \in got[r][GeomsOf(l)][p]}
            Is(i, j) == t = [geom |-> PackedBy(r, l)[i][j].geom, at |-> TextAt(r, l, i, j)]
<1>2. t \in TextsGot(r, l) <=> \E p \in Ranks : t \in here(p)
  BY DEF TextsGot
<1>3. ASSUME NEW i \in 1 .. numProcesses
      PROVE  t \in here(i - 1) <=> \E j \in 1 .. Len(PackedBy(r, l)[i]) : Is(i, j)
  <2>. DEFINE p == i - 1  u == Packed(p, r, round[r], l)  b == Boxes(p, r, round[r], l)
  <2>1. p \in Ranks /\ PackedBy(r, l)[i] = u /\ BoxesBy(r, l)[i] = b
    BY PackedByIs, BoxesByIs
  <2>2. got[r][GeomsOf(l)][p] = Texts(p, r, round[r], l)
    <3>1. got[r][GeomsOf(l)] = [q \in Ranks |-> Texts(q, r, round[r], l)]
      BY DEF GotRound
    <3>. HIDE DEF p
    <3>. QED BY <2>1, <3>1
  <2>3. Texts(p, r, round[r], l) =
          {[geom |-> u[j].geom, at |-> VertStrLens(b, j - 1)] : j \in 1 .. Len(u)}
    BY DEF Texts
  <2>4. \A j : TextAt(r, l, i, j) = Displacement(got[r].geomCounts, p, l) * Unit + VertStrLens(b, j - 1)
    BY <2>1 DEF TextAt, Start
  <2>. DEFINE D == Displacement(got[r].geomCounts, p, l) * Unit
              G == got[r][GeomsOf(l)][p]
  <2>5. here(p) = {[geom |-> x.geom, at |-> D + x.at] : x \in G}
    OBVIOUS
  <2>. HIDE DEF u, b, here, D, G
  <2>6. t \in here(p) <=> \E j \in 1 .. Len(u) : t = [geom |-> u[j].geom, at |-> D + VertStrLens(b, j - 1)]
    <3>1. G = {[geom |-> u[j].geom, at |-> VertStrLens(b, j - 1)] : j \in 1 .. Len(u)}
      BY <2>2, <2>3 DEF G
    <3>2. ASSUME t \in here(p)
          PROVE  \E j \in 1 .. Len(u) : t = [geom |-> u[j].geom, at |-> D + VertStrLens(b, j - 1)]
      <4>1. PICK x \in G : t = [geom |-> x.geom, at |-> D + x.at]
        BY <2>5, <3>2
      <4>2. PICK j \in 1 .. Len(u) : x = [geom |-> u[j].geom, at |-> VertStrLens(b, j - 1)]
        BY <3>1
      <4>. QED BY <4>1, <4>2
    <3>3. ASSUME NEW j \in 1 .. Len(u), t = [geom |-> u[j].geom, at |-> D + VertStrLens(b, j - 1)]
          PROVE  t \in here(p)
      <4>. DEFINE x == [geom |-> u[j].geom, at |-> VertStrLens(b, j - 1)]
      <4>1. x \in G /\ t = [geom |-> x.geom, at |-> D + x.at]
        BY <3>1, <3>3
      <4>. QED BY <2>5, <4>1
    <3>. QED BY <3>2, <3>3
  <2>. USE DEF D
  <2>. QED BY <2>1, <2>4, <2>6
<1>. HIDE DEF here, Is
<1>4. (\E p \in Ranks : t \in here(p)) <=> \E i \in 1 .. numProcesses : t \in here(i - 1)
  <2>1. \A i \in 1 .. numProcesses : i - 1 \in Ranks
    BY <1>1
  <2>2. \A p \in Ranks : p + 1 \in 1 .. numProcesses /\ (p + 1) - 1 = p
    BY <1>1
  <2>3. ASSUME NEW p \in Ranks, t \in here(p)
        PROVE  \E i \in 1 .. numProcesses : t \in here(i - 1)
    <3>1. p + 1 \in 1 .. numProcesses /\ t \in here((p + 1) - 1)
      BY <2>2, <2>3
    <3>. QED BY <3>1
  <2>. QED BY <2>1, <2>3
<1>. QED BY <1>2, <1>3, <1>4 DEF Is

(* Reading at the place of a text finds that text, unless the reader       *)
(* throws.                                                                 *)
LEMMA ReadTextIs ==
  ASSUME NEW r, Receives(r), GotRound(r), TextClass, NEW l \in Layers,
         NEW i, NEW j, IsText(r, l, i, j), NEW clean,
         NEW n, n = input.geoms[PackedBy(r, l)[i][j].geom].len
  PROVE  ReadText(r, l, TextAt(r, l, i, j), n, clean) =
           IF setup.reader = "strict" /\ ~clean THEN <<>> ELSE <<PackedBy(r, l)[i][j].geom>>
<1>. DEFINE o == TextAt(r, l, i, j)  g == PackedBy(r, l)[i][j].geom
            x == [geom |-> g, at |-> o]
            Readable(t) == /\ t.at = o /\ input.geoms[t.geom].len <= n
                           /\ setup.reader = "strict" => input.geoms[t.geom].len = n /\ clean
            found == {t \in TextsGot(r, l) : Readable(t)}
<1>0. i \in 1 .. numProcesses /\ j \in 1 .. Len(PackedBy(r, l)[i])
  BY DEF IsText
<1>1. x \in TextsGot(r, l)
  BY <1>0, TextsGotIs
<1>2. ASSUME NEW t \in TextsGot(r, l), t.at = o PROVE t = x
  <2>1. PICK h \in 1 .. numProcesses : \E k \in 1 .. Len(PackedBy(r, l)[h]) :
          t = [geom |-> PackedBy(r, l)[h][k].geom, at |-> TextAt(r, l, h, k)]
    BY TextsGotIs
  <2>2. PICK k \in 1 .. Len(PackedBy(r, l)[h]) :
          t = [geom |-> PackedBy(r, l)[h][k].geom, at |-> TextAt(r, l, h, k)]
    BY <2>1
  <2>3. IsText(r, l, h, k) /\ TextAt(r, l, i, j) = TextAt(r, l, h, k)
    BY <1>2, <2>2 DEF IsText
  <2>4. i = h /\ j = k
    BY <2>3, TextsApart
  <2>. QED BY <2>2, <2>4
<1>3. n \in Nat
  <2>1. PackedBy(r, l)[i][j] \in Items
    BY <1>0, OffsetsOf
  <2>. QED BY <2>1, ChosenIs DEF Items, Receives
<1>4. x.at = o /\ x.geom = g
  OBVIOUS
<1>5. Readable(x) <=> ~(setup.reader = "strict" /\ ~clean)
  BY <1>3, <1>4
<1>6. ReadText(r, l, o, n, clean) = IF found = {} THEN <<>> ELSE <<(CHOOSE t \in found : TRUE).geom>>
  BY DEF ReadText
<1>7. CASE setup.reader = "strict" /\ ~clean
  <2>1. \A t : ~Readable(t)
    BY <1>7
  <2>2. found = {}
    BY <2>1
  <2>. QED BY <1>6, <1>7, <2>2
<1>8. CASE ~(setup.reader = "strict" /\ ~clean)
  <2>1. Readable(x)
    BY <1>5, <1>8
  <2>2. \A t \in found : t.at = o /\ t \in TextsGot(r, l)
    OBVIOUS
  <2>3. x \in found
    BY <1>1, <2>1
  <2>. HIDE DEF found, x, Readable, o, g
  <2>4. \A t \in found : t = x
    BY <1>2, <2>2
  <2>5. (CHOOSE t \in found : TRUE) = x /\ found # {}
    BY <2>3, <2>4
  <2>. QED BY <1>4, <1>6, <1>8, <2>5 DEF o, g
<1>. QED BY <1>7, <1>8

(* Whatever is read is a geometry.                                         *)
LEMMA ReadTextType ==
  ASSUME NEW r, Receives(r), GotRound(r), TextClass, NEW l \in Layers, NEW o, NEW n, NEW clean
  PROVE  ReadText(r, l, o, n, clean) = <<>> \/ \E g \in Geoms : ReadText(r, l, o, n, clean) = <<g>>
<1>1. ASSUME NEW t \in TextsGot(r, l) PROVE t.geom \in Geoms
  <2>1. PICK h \in 1 .. numProcesses : \E k \in 1 .. Len(PackedBy(r, l)[h]) :
          t = [geom |-> PackedBy(r, l)[h][k].geom, at |-> TextAt(r, l, h, k)]
    BY TextsGotIs
  <2>2. PICK k \in 1 .. Len(PackedBy(r, l)[h]) :
          t = [geom |-> PackedBy(r, l)[h][k].geom, at |-> TextAt(r, l, h, k)]
    BY <2>1
  <2>3. PackedBy(r, l)[h][k] \in Items
    BY OffsetsOf
  <2>. QED BY <2>2, <2>3 DEF Items
<1>. DEFINE found == {t \in TextsGot(r, l) :
                        /\ t.at = o /\ input.geoms[t.geom].len <= n
                        /\ setup.reader = "strict" => input.geoms[t.geom].len = n /\ clean}
<1>2. \A t \in found : t.geom \in Geoms
  BY <1>1
<1>3. ReadText(r, l, o, n, clean) = IF found = {} THEN <<>> ELSE <<(CHOOSE t \in found : TRUE).geom>>
  BY DEF ReadText
<1>. HIDE DEF found
<1>. QED BY <1>2, <1>3

-----------------------------------------------------------------------------
(* The parsed geometries t are those of the received ones in keep, in the  *)
(* order they were packed in.                                              *)
ParsedAs(t, r, l, keep) ==
  t \in Seq(Items) /\ Sorted(t, PackOrder) /\ HasKept(t, Received(r, l), keep)

LEMMA PushedIs ==
  ASSUME NEW c, NEW g
  PROVE  Pushed(c, <<g>>) = <<[cellId |-> c, geom |-> g]>> /\ Pushed(c, <<>>) = <<>>
BY DEF Pushed, InOneCell

LEMMA ThinIsParsed ==
  ASSUME NEW r, Receives(r), NEW l, NEW keep, NEW s, Len(s) = Len(Received(r, l)),
         Len(s) = 0 => s = <<>>,
         \A n \in 1 .. Len(s) : s[n] = IF n \in keep THEN <<Received(r, l)[n]>> ELSE <<>>
  PROVE  ParsedAs(FlattenSeq(s), r, l, keep)
<1>. DEFINE v == Received(r, l)
<1>1. v \in Seq(Items) /\ Sorted(v, PackOrder)
  BY ReceivedIs
<1>2. /\ Len(s) = Len(v)
      /\ \A n \in 1 .. Len(v) : s[n] = IF n \in keep THEN <<v[n]>> ELSE <<>>
  OBVIOUS
<1>. HIDE DEF v
<1>3. /\ FlattenSeq(s) \in Seq(Items)
      /\ \A R : Sorted(v, R) => Sorted(FlattenSeq(s), R)
      /\ HasKept(FlattenSeq(s), v, keep)
  BY <1>1, <1>2, FlattenThin
<1>. QED BY <1>1, <1>3 DEF ParsedAs, v

LEMMA ParseBoxesIs ==
  ASSUME NEW r, Receives(r), GotRound(r), NEW l \in Layers
  PROVE  ParsedAs(ParseBoxes(r, l), r, l, 1 .. Len(Received(r, l)))
<1>. DEFINE t == AllBoxes(r, l)  v == Received(r, l)
            s == [n \in 1 .. Len(t) |-> Pushed(t[n].cellId, <<t[n].coords>>)]
<1>1. t = FlattenSeq(BoxesBy(r, l))
  BY GotBoxes
<1>2. /\ Len(t) = Len(v) /\ Len(t) \in Nat
      /\ \A n \in 1 .. Len(t) : v[n] \in Items /\ t[n] = BoxOf(v[n])
  BY <1>1, AllBoxesIs
<1>3. ParseBoxes(r, l) = FlattenSeq(s)
  BY DEF ParseBoxes
<1>. HIDE DEF t, v
<1>4. \A n \in 1 .. Len(t) : s[n] = <<v[n]>>
  <2>. SUFFICES ASSUME NEW n \in 1 .. Len(t) PROVE s[n] = <<v[n]>>
    OBVIOUS
  <2>1. t[n].cellId = v[n].cellId /\ t[n].coords = v[n].geom
    <3>1. t[n] = BoxOf(v[n])
      BY <1>2
    <3>. QED BY <3>1 DEF BoxOf
  <2>2. v[n] = [cellId |-> v[n].cellId, geom |-> v[n].geom]
    BY <1>2 DEF Items
  <2>. QED BY <2>1, <2>2, PushedIs
<1>5. Len(s) = Len(t) /\ (Len(s) = 0 => s = <<>>)
  BY <1>2
<1>. HIDE DEF s
<1>6. \A n \in 1 .. Len(s) : s[n] = IF n \in 1 .. Len(v) THEN <<v[n]>> ELSE <<>>
  BY <1>2, <1>4, <1>5
<1>. QED BY <1>2, <1>3, <1>5, <1>6, ThinIsParsed DEF v

(* Where the offset of parseGeomFromLayerGrpByCell is when nothing throws: *)
(* at the text of the n-th geometry.                                       *)
LEMMA TextOf ==
  ASSUME NEW r, Receives(r), GotRound(r), TextClass, Unit = 1, NEW l \in Layers,
         NEW n \in 1 .. Len(Received(r, l))
  PROVE  \E i \in 1 .. numProcesses : \E j \in 1 .. Len(PackedBy(r, l)[i]) :
           /\ IsText(r, l, i, j) /\ Received(r, l)[n] = PackedBy(r, l)[i][j]
           /\ TextAt(r, l, i, j) = Weigh(BoxLen, AllBoxes(r, l), n - 1)
<1>. DEFINE s == BoxesBy(r, l)  u == PackedBy(r, l)  v == Received(r, l)  w == BoxLen
<1>1. Concatenated(v, u) /\ Len(u) = numProcesses
  BY ReceivedIs, PackedByIs
<1>2. PICK i \in 1 .. Len(u) : \E j \in 1 .. Len(u[i]) : n = Ahead(u, i - 1) + j
  BY <1>1 DEF Concatenated
<1>3. PICK j \in 1 .. Len(u[i]) : n = Ahead(u, i - 1) + j
  BY <1>2
<1>4. v[n] = u[i][j]
  BY <1>1, <1>3 DEF Concatenated
<1>5. i \in 1 .. numProcesses /\ IsText(r, l, i, j)
  BY <1>1 DEF IsText
<1>6. /\ Len(s) = numProcesses /\ numProcesses \in Nat \ {0}
      /\ \A k \in 1 .. numProcesses : s[k] \in Seq(BoxSet) /\ Len(s[k]) = Len(u[k])
      /\ \A k : Ahead(s, k) = Ahead(u, k)
  BY BoxesByIs
<1>7. AllBoxes(r, l) = FlattenSeq(s)
  BY GotBoxes
<1>8. \A x \in BoxSet : w[x] \in Nat
  BY BoxLenIs
<1>9. Start(r, l, i - 1) = SumOver(Weights(w, s), 1 .. i - 1)
  <2>1. i - 1 \in 0 .. numProcesses
    BY <1>5, <1>6
  <2>. QED BY <2>1, StartIs
<1>10. VertStrLens(s[i], j - 1) = Weigh(w, s[i], j - 1)
  BY <1>5, <1>6, VertStrLensIs
<1>11. TextAt(r, l, i, j) = Start(r, l, i - 1) + VertStrLens(s[i], j - 1)
  BY DEF TextAt
<1>12. Len(u[i]) \in Nat
  BY <1>5, <1>6
<1>. HIDE DEF s, u, v, w
<1>13. n - 1 = Ahead(s, i - 1) + (j - 1) /\ j - 1 \in 0 .. Len(s[i])
  <2>1. Len(s[i]) = Len(u[i]) /\ Ahead(s, i - 1) = Ahead(u, i - 1)
    BY <1>5, <1>6
  <2>2. Ahead(u, i - 1) \in Int
    <3>1. \A k \in 1 .. Len(s) : s[k] \in Seq(BoxSet)
      BY <1>6
    <3>2. i - 1 \in 0 .. Len(s) /\ Len(s) \in Nat
      BY <1>5, <1>6
    <3>3. Ahead(s, i - 1) \in Nat
      BY <3>1, <3>2, AheadIs
    <3>. QED BY <2>1, <3>3
  <2>. QED BY <1>3, <1>12, <2>1, <2>2
<1>14. Weigh(w, FlattenSeq(s), Ahead(s, i - 1) + (j - 1)) =
         SumOver(Weights(w, s), 1 .. i - 1) + Weigh(w, s[i], j - 1)
  <2>1. Len(s) \in Nat /\ (Len(s) = 0 => s = <<>>) /\ i \in 1 .. Len(s)
    BY <1>5, <1>6
  <2>2. \A k \in 1 .. Len(s) : s[k] \in Seq(BoxSet)
    BY <1>6
  <2>. DEFINE k == j - 1
  <2>3. k \in 0 .. Len(s[i])
    BY <1>13
  <2>. HIDE DEF k
  <2>4. Weigh(w, FlattenSeq(s), Ahead(s, i - 1) + k) =
          SumOver(Weights(w, s), 1 .. i - 1) + Weigh(w, s[i], k)
    <3>1. Weighs(w, FlattenSeq(s), s)
      BY <1>8, <2>1, <2>2, WeighFlattened
    <3>. QED BY <2>1, <2>3, <3>1 DEF Weighs
  <2>. QED BY <2>4 DEF k
<1>15. TextAt(r, l, i, j) = Weigh(w, AllBoxes(r, l), n - 1)
  BY <1>7, <1>9, <1>10, <1>11, <1>13, <1>14
<1>. QED BY <1>3, <1>4, <1>5, <1>15 DEF u, v, w

(* A reader that never throws has all texts.                               *)
LEMMA ParseByCellIs ==
  ASSUME NEW r, Receives(r), GotRound(r), TextClass, Unit = 1, setup.reader = "lenient",
         NEW l \in Layers, NEW clean
  PROVE  ParsedAs(ParseByCell(r, l, clean), r, l, 1 .. Len(Received(r, l)))
<1>. DEFINE t == AllBoxes(r, l)  v == Received(r, l)
            read(n, o) == ReadText(r, l, o, t[n].vertStrLen, n \in clean)
            advance == [n \in 1 .. Len(t) |-> [o \in Nat |->
                          IF read(n, o) = <<>> THEN o ELSE o + t[n].vertStrLen]]
            IsOffset(f) == f = [n \in 1 .. Len(t) |-> IF n = 1 THEN 0 ELSE advance[n - 1][f[n - 1]]]
            offset == CHOOSE f : IsOffset(f)
            s == [n \in 1 .. Len(t) |-> Pushed(t[n].cellId, read(n, offset[n]))]
            T(n) == Weigh(BoxLen, t, n - 1)
<1>1. t = FlattenSeq(BoxesBy(r, l))
  BY GotBoxes
<1>2. /\ t \in Seq(BoxSet) /\ Len(t) = Len(v) /\ Len(t) \in Nat
      /\ \A n \in 1 .. Len(t) : v[n] \in Items /\ t[n] = BoxOf(v[n])
  BY <1>1, AllBoxesIs
<1>3. ParseByCell(r, l, clean) = FlattenSeq(s)
  BY DEF ParseByCell
<1>4. \A n \in 1 .. Len(t) : read(n, T(n)) = <<v[n].geom>>
  <2>. SUFFICES ASSUME NEW n \in 1 .. Len(t) PROVE read(n, T(n)) = <<v[n].geom>>
    OBVIOUS
  <2>1. n \in 1 .. Len(v)
    BY <1>2
  <2>2. PICK i \in 1 .. numProcesses : \E j \in 1 .. Len(PackedBy(r, l)[i]) :
          /\ IsText(r, l, i, j) /\ v[n] = PackedBy(r, l)[i][j] /\ TextAt(r, l, i, j) = T(n)
    BY <2>1, TextOf
  <2>3. PICK j \in 1 .. Len(PackedBy(r, l)[i]) :
          /\ IsText(r, l, i, j) /\ v[n] = PackedBy(r, l)[i][j] /\ TextAt(r, l, i, j) = T(n)
    BY <2>2
  <2>4. t[n].vertStrLen = input.geoms[PackedBy(r, l)[i][j].geom].len
    <3>1. t[n] = BoxOf(v[n])
      BY <1>2
    <3>2. t[n].vertStrLen = input.geoms[v[n].geom].len
      BY <3>1 DEF BoxOf
    <3>. QED BY <2>3, <3>2
  <2>5. ReadText(r, l, TextAt(r, l, i, j), t[n].vertStrLen, n \in clean) =
          IF setup.reader = "strict" /\ ~(n \in clean) THEN <<>> ELSE <<PackedBy(r, l)[i][j].geom>>
    BY SMTT(30), <2>3, <2>4, ReadTextIs
  <2>. HIDE DEF t, v, T
  <2>. QED BY <2>3, <2>5
<1>5. /\ Len(t) > 0 => T(1) = 0
      /\ \A n \in 1 .. Len(t) : T(n) \in Nat
      /\ \A n \in 1 .. Len(t) : t[n].vertStrLen \in Nat
      /\ \A n \in 1 .. Len(t) - 1 : T(n + 1) = T(n) + t[n].vertStrLen
  <2>. DEFINE w == BoxLen
  <2>1. \A x \in BoxSet : w[x] \in Nat
    BY BoxLenIs
  <2>2. \A n \in 1 .. Len(t) : w[t[n]] = t[n].vertStrLen
    BY <1>2, BoxLenIs
  <2>. HIDE DEF w, t
  <2>3. /\ Weigh(w, t, 0) = 0
        /\ \A n \in 0 .. Len(t) : Weigh(w, t, n) \in Nat
        /\ \A n \in 1 .. Len(t) : Weigh(w, t, n) = Weigh(w, t, n - 1) + w[t[n]]
    BY <1>2, <2>1, WeighIs
  <2>4. \A n \in 1 .. Len(t) : n - 1 \in 0 .. Len(t) /\ Weigh(w, t, n - 1) \in Nat
    BY <1>2, <2>3
  <2>5. \A n \in 1 .. Len(t) - 1 : n \in 1 .. Len(t) /\ (n + 1) - 1 = n
    BY <1>2
  <2>6. \A n \in 1 .. Len(t) : t[n] \in BoxSet
    BY <1>2
  <2>. QED BY <2>1, <2>2, <2>3, <2>4, <2>5, <2>6 DEF w
<1>. HIDE DEF t, v, T
<1>6. \A n \in 1 .. Len(t) - 1 : advance[n][T(n)] = T(n + 1)
  <2>. SUFFICES ASSUME NEW n \in 1 .. Len(t) - 1 PROVE advance[n][T(n)] = T(n + 1)
    OBVIOUS
  <2>1. n \in 1 .. Len(t) /\ T(n) \in Nat
    BY <1>2, <1>5
  <2>2. read(n, T(n)) # <<>>
    BY <1>4, <2>1
  <2>. HIDE DEF read
  <2>3. advance[n][T(n)] = T(n) + t[n].vertStrLen
    BY <2>1, <2>2
  <2>. QED BY <1>5, <2>3
<1>. HIDE DEF read, advance
<1>7. IsOffset([n \in 1 .. Len(t) |-> T(n)])
  <2>. DEFINE f == [n \in 1 .. Len(t) |-> T(n)]
  <2>1. ASSUME NEW n \in 1 .. Len(t) PROVE f[n] = IF n = 1 THEN 0 ELSE advance[n - 1][f[n - 1]]
    <3>1. CASE n = 1
      BY <1>2, <1>5, <3>1
    <3>2. CASE n # 1
      <4>1. n - 1 \in 1 .. Len(t) - 1 /\ n - 1 \in 1 .. Len(t) /\ (n - 1) + 1 = n
        BY <1>2, <3>2
      <4>2. advance[n - 1][T(n - 1)] = T(n)
        BY <1>6, <4>1
      <4>3. f[n - 1] = T(n - 1) /\ f[n] = T(n)
        BY <4>1
      <4>. QED BY <3>2, <4>2, <4>3
    <3>. QED BY <3>1, <3>2
  <2>. QED BY <2>1
<1>8. IsOffset(offset)
  BY <1>7
<1>. HIDE DEF offset
<1>9. \A n \in 1 .. Len(t) : offset[n] = T(n)
  <2>1. CASE Len(t) = 0
    BY <2>1
  <2>2. CASE Len(t) # 0
    <3>. DEFINE Good == {n \in 1 .. Len(t) : offset[n] = T(n)}
    <3>1. \A n \in 1 .. Len(t) : offset[n] = IF n = 1 THEN 0 ELSE advance[n - 1][offset[n - 1]]
      BY <1>8
    <3>2. 1 \in Good
      BY <1>2, <1>5, <2>2, <3>1
    <3>3. ASSUME NEW n \in 1 .. Len(t) - 1, n \in Good PROVE n + 1 \in Good
      <4>1. n + 1 \in 1 .. Len(t) /\ (n + 1) - 1 = n /\ n + 1 # 1
        BY <1>2
      <4>. QED BY <1>6, <3>1, <3>3, <4>1
    <3>. HIDE DEF Good
    <3>4. \A n \in 1 .. Len(t) : n \in Good
      <4>1. 1 \in Int /\ Len(t) \in Int /\ 1 <= Len(t)
        BY <1>2, <2>2
      <4>. QED BY <3>2, <3>3, <4>1, Upwards
    <3>. QED BY <3>4 DEF Good
  <2>. QED BY <2>1, <2>2
<1>10. \A n \in 1 .. Len(t) : s[n] = <<v[n]>>
  <2>. SUFFICES ASSUME NEW n \in 1 .. Len(t) PROVE s[n] = <<v[n]>>
    OBVIOUS
  <2>1. t[n] = BoxOf(v[n]) /\ v[n] \in Items
    BY <1>2
  <2>2. t[n].cellId = v[n].cellId
    BY <2>1 DEF BoxOf
  <2>3. v[n] = [cellId |-> v[n].cellId, geom |-> v[n].geom]
    BY <2>1 DEF Items
  <2>4. s[n] = Pushed(t[n].cellId, <<v[n].geom>>)
    BY <1>4, <1>9
  <2>. QED BY <2>2, <2>3, <2>4, PushedIs
<1>11. Len(s) = Len(t) /\ (Len(s) = 0 => s = <<>>)
  BY <1>2
<1>. HIDE DEF s
<1>12. \A n \in 1 .. Len(s) : s[n] = IF n \in 1 .. Len(v) THEN <<v[n]>> ELSE <<>>
  BY <1>2, <1>10, <1>11
<1>. QED BY <1>2, <1>3, <1>11, <1>12, ThinIsParsed DEF v

-----------------------------------------------------------------------------
(* The boxes of a sender in the receive buffer.                            *)
LEMMA SenderBoxes ==
  ASSUME NEW r, Receives(r), GotRound(r), NEW l \in Layers, NEW p \in Ranks
  PROVE  /\ p + 1 \in 1 .. numProcesses
         /\ got[r].mbrCounts[p][l] = Len(PackedBy(r, l)[p + 1])
         /\ Displacement(got[r].mbrCounts, p, l) = Ahead(PackedBy(r, l), p)
         /\ SubSeq(AllBoxes(r, l), Displacement(got[r].mbrCounts, p, l) + 1,
                   Displacement(got[r].mbrCounts, p, l) + got[r].mbrCounts[p][l])
              = BoxesBy(r, l)[p + 1]
<1>. DEFINE t == AllBoxes(r, l)  s == BoxesBy(r, l)  u == PackedBy(r, l)  k == p + 1
            a == Ahead(s, p)  b == Ahead(s, p) + Len(u[k])
<1>1. k \in 1 .. numProcesses /\ k - 1 = p /\ numProcesses \in Nat
  BY ShuffleConstants DEF Ranks
<1>2. /\ t = FlattenSeq(s) /\ Displacement(got[r].mbrCounts, p, l) = a
      /\ got[r].mbrCounts[p][l] = Len(u[k])
  BY GotBoxes
<1>3. t \in Seq(BoxSet) /\ Concatenated(t, s)
  BY <1>2, AllBoxesIs
<1>4. /\ Len(s) = numProcesses /\ \A i \in 1 .. numProcesses : s[i] \in Seq(BoxSet)
      /\ Len(s[k]) = Len(u[k]) /\ Ahead(s, p) = Ahead(u, p)
  <2>1. /\ Len(s) = numProcesses
        /\ \A i \in 1 .. numProcesses : s[i] \in Seq(BoxSet) /\ Len(s[i]) = Len(u[i])
        /\ \A i : Ahead(s, i) = Ahead(u, i)
    BY BoxesByIs
  <2>. HIDE DEF s, u, k
  <2>. QED BY <1>1, <2>1
<1>. HIDE DEF t, s, u, k
<1>5. a \in Nat /\ Ahead(s, k) \in Nat /\ Ahead(s, k) = a + Len(s[k]) /\ Len(s[k]) \in Nat
      /\ Ahead(s, k) <= Len(t)
  <2>1. Len(s) \in Nat /\ (\A i \in 1 .. Len(s) : s[i] \in Seq(BoxSet))
        /\ k \in 1 .. Len(s) /\ p \in 0 .. Len(s) /\ k \in 0 .. Len(s)
        /\ Len(s) \in 0 .. Len(s) /\ k <= Len(s)
    BY <1>1, <1>4
  <2>2. /\ \A i \in 0 .. Len(s) : Ahead(s, i) \in Nat
        /\ \A i \in 1 .. Len(s) : Ahead(s, i) = Ahead(s, i - 1) + Len(s[i])
        /\ \A i, j \in 0 .. Len(s) : i <= j => Ahead(s, i) <= Ahead(s, j)
    BY <2>1, AheadIs
  <2>3. Ahead(s, k) = Ahead(s, p) + Len(s[k])
    BY <1>1, <2>1, <2>2
  <2>4. Ahead(s, k) <= Ahead(s, Len(s)) /\ Ahead(s, Len(s)) = Len(t)
    BY <1>3, <2>1, <2>2 DEF Concatenated
  <2>5. Len(s[k]) \in Nat
    BY <1>1, <1>4
  <2>. QED BY <2>1, <2>2, <2>3, <2>4, <2>5
<1>6. b = Ahead(s, k) /\ b \in Nat /\ b <= Len(t) /\ b - a = Len(s[k])
  BY <1>4, <1>5
<1>. HIDE DEF a, b
<1>7. SubSeq(t, a + 1, b) = s[k]
  <2>1. /\ SubSeq(t, a + 1, b) \in Seq(BoxSet) /\ Len(SubSeq(t, a + 1, b)) = Len(s[k])
        /\ \A i \in 1 .. Len(s[k]) : SubSeq(t, a + 1, b)[i] = t[a + i]
    BY <1>3, <1>5, <1>6
  <2>2. \A i \in 1 .. Len(s[k]) : t[a + i] = s[k][i]
    <3>1. k \in 1 .. Len(s) /\ Ahead(s, k - 1) = a
      BY <1>1, <1>4 DEF a
    <3>. QED BY <1>3, <3>1 DEF Concatenated
  <2>3. s[k] \in Seq(BoxSet)
    BY <1>1, <1>4
  <2>4. \A i \in 1 .. Len(s[k]) : SubSeq(t, a + 1, b)[i] = s[k][i]
    BY <2>1, <2>2
  <2>. DEFINE e == SubSeq(t, a + 1, b)  f == s[k]
  <2>5. /\ e \in Seq(BoxSet) /\ f \in Seq(BoxSet) /\ Len(e) = Len(f)
        /\ \A i \in 1 .. Len(f) : e[i] = f[i]
    BY <2>1, <2>3, <2>4
  <2>. HIDE DEF e, f
  <2>6. e = f
    BY <2>5
  <2>. QED BY <2>6 DEF e, f
<1>. QED BY <1>1, <1>2, <1>4, <1>7 DEF t, s, u, k, a, b

(* What is read of the boxes of one sender.                                *)
ReadOf(r, p, i, clean) ==
  IF setup.reader = "strict" /\ Ahead(PackedBy(r, 1), p) + i \notin clean
  THEN <<>> ELSE <<PackedBy(r, 1)[p + 1][i]>>

LEMMA ParseByProcessReads ==
  ASSUME NEW r, Receives(r), GotRound(r), TextClass, 1 \in Layers, NEW clean
  PROVE  ParseByProcess(r, clean) =
           ByRank([p \in Ranks |->
             FlattenSeq([i \in 1 .. Len(PackedBy(r, 1)[p + 1]) |-> ReadOf(r, p, i, clean)])])
<1>. DEFINE first(p) == Displacement(got[r].mbrCounts, p, 1)
            boxes(p) == SubSeq(AllBoxes(r, 1), first(p) + 1, first(p) + got[r].mbrCounts[p][1])
            parse(p, i) ==
              LET n == boxes(p)[i].vertStrLen
                  o == OffsetOfSender(r, p) + VertStrLens(boxes(p), i - 1)
              IN  Pushed(boxes(p)[i].cellId, ReadText(r, 1, o, n, first(p) + i \in clean))
            x(p) == FlattenSeq([i \in 1 .. got[r].mbrCounts[p][1] |-> parse(p, i)])
            y(p) == FlattenSeq([i \in 1 .. Len(PackedBy(r, 1)[p + 1]) |-> ReadOf(r, p, i, clean)])
<1>1. ParseByProcess(r, clean) = ByRank([p \in Ranks |-> x(p)])
  BY DEF ParseByProcess
<1>2. ASSUME NEW p \in Ranks PROVE x(p) = y(p)
  <2>. DEFINE k == p + 1  u == PackedBy(r, 1)[k]  b == BoxesBy(r, 1)[k]
  <2>1. /\ k \in 1 .. numProcesses /\ got[r].mbrCounts[p][1] = Len(u)
        /\ first(p) = Ahead(PackedBy(r, 1), p) /\ boxes(p) = b
    BY SenderBoxes
  <2>2. \A i \in 1 .. Len(u) : b[i] = BoxOf(u[i]) /\ u[i] \in Items
    BY <2>1, BoxesByIs, OffsetsOf DEF Receives
  <2>3. OffsetOfSender(r, p) = Start(r, 1, k - 1)
    <3>1. k - 1 = p
      BY ShuffleConstants DEF Ranks
    <3>. QED BY <3>1 DEF OffsetOfSender, Start
  <2>4. ASSUME NEW i \in 1 .. Len(u) PROVE parse(p, i) = ReadOf(r, p, i, clean)
    <3>. DEFINE fine == first(p) + i \in clean
    <3>1. b[i] = BoxOf(u[i]) /\ u[i] \in Items
      BY <2>2
    <3>2. b[i].vertStrLen = input.geoms[u[i].geom].len /\ b[i].cellId = u[i].cellId
      BY <3>1 DEF BoxOf
    <3>3. TextAt(r, 1, k, i) = OffsetOfSender(r, p) + VertStrLens(b, i - 1)
      BY <2>3 DEF TextAt
    <3>4. IsText(r, 1, k, i)
      BY <2>1 DEF IsText
    <3>5. ReadText(r, 1, TextAt(r, 1, k, i), b[i].vertStrLen, fine) =
            IF setup.reader = "strict" /\ ~fine THEN <<>> ELSE <<u[i].geom>>
      <4>. HIDE DEF fine
      <4>. QED BY SMTT(30), <3>2, <3>4, ReadTextIs
    <3>6. parse(p, i) =
            Pushed(b[i].cellId, ReadText(r, 1, TextAt(r, 1, k, i), b[i].vertStrLen, fine))
      BY <2>1, <3>3
    <3>7. u[i] = [cellId |-> u[i].cellId, geom |-> u[i].geom]
      BY <3>1 DEF Items
    <3>8. fine <=> Ahead(PackedBy(r, 1), p) + i \in clean
      BY <2>1
    <3>. HIDE DEF fine, parse, u
    <3>9. CASE setup.reader = "strict" /\ ~fine
      <4>1. parse(p, i) = <<>>
        BY <3>5, <3>6, <3>9, PushedIs
      <4>. QED BY <3>8, <3>9, <4>1 DEF ReadOf
    <3>10. CASE ~(setup.reader = "strict" /\ ~fine)
      <4>1. parse(p, i) = Pushed(u[i].cellId, <<u[i].geom>>)
        BY <3>2, <3>5, <3>6, <3>10
      <4>2. parse(p, i) = <<u[i]>>
        BY <3>7, <4>1, PushedIs
      <4>. QED BY <3>8, <3>10, <4>2 DEF ReadOf, u
    <3>. QED BY <3>9, <3>10
  <2>5. [i \in 1 .. got[r].mbrCounts[p][1] |-> parse(p, i)] =
          [i \in 1 .. Len(u) |-> ReadOf(r, p, i, clean)]
    <3>. HIDE DEF parse, u
    <3>. QED BY <2>1, <2>4
  <2>. QED BY <2>5
<1>. HIDE DEF x, y
<1>3. [p \in Ranks |-> x(p)] = [p \in Ranks |-> y(p)]
  BY <1>2
<1>. QED BY <1>1, <1>3 DEF y

(* The places of what is read: all of them, unless the reader may throw.   *)
Kept(r, l, clean) == IF MayThrow THEN clean ELSE 1 .. Len(Received(r, l))

LEMMA ParseByProcessIs ==
  ASSUME NEW r, Receives(r), GotRound(r), setup.manager = "all", NEW clean
  PROVE  ParsedAs(ParseByProcess(r, clean), r, 1, Kept(r, 1, clean))
<1>. DEFINE n == numProcesses  u == PackedBy(r, 1)  v == Received(r, 1)  K == Kept(r, 1, clean)
            x(p) == [i \in 1 .. Len(u[p + 1]) |-> ReadOf(r, p, i, clean)]
            s == [i \in 1 .. n |-> FlattenSeq(x(i - 1))]
            t == ParseByProcess(r, clean)
            keep(i) == {j \in 1 .. Len(u[i]) : Ahead(u, i - 1) + j \in K}
<1>0. TextClass /\ 1 \in Layers /\ n \in Nat \ {0} /\ Ranks = 0 .. n - 1
  BY ShuffleConstants DEF TextClass, Layers, Ranks
<1>1. t = FlattenSeq(s)
  <2>1. t = ByRank([p \in Ranks |-> FlattenSeq(x(p))])
    BY <1>0, ParseByProcessReads
  <2>2. \A i \in 1 .. n : i - 1 \in Ranks
    BY <1>0
  <2>. HIDE DEF x, t, n
  <2>3. s = [i \in 1 .. n |-> [p \in Ranks |-> FlattenSeq(x(p))][i - 1]]
    BY <2>2
  <2>4. ByRank([p \in Ranks |-> FlattenSeq(x(p))]) =
          FlattenSeq([i \in 1 .. n |-> [p \in Ranks |-> FlattenSeq(x(p))][i - 1]])
    BY DEF ByRank, n
  <2>. QED BY <2>1, <2>3, <2>4
<1>2. /\ Len(u) = n
      /\ \A i \in 1 .. n : /\ u[i] \in Seq(Items) /\ Sorted(u[i], PackOrder)
                           /\ Elems(u[i]) = PackedSet(i - 1, r, round[r], 1)
  BY PackedByIs
<1>3. Concatenated(v, u) /\ v \in Seq(Items) /\ Sorted(v, PackOrder)
  BY ReceivedIs
<1>4. Asymmetric(PackOrder)
  BY Orders DEF Receives
<1>5. \A i \in 1 .. Len(v) : i \in K <=> ~(setup.reader = "strict" /\ i \notin clean)
  BY DEF Kept, MayThrow
<1>6. t = ParseByProcess(r, clean)
  OBVIOUS
<1>. HIDE DEF n, u, v, K, t
<1>7. ASSUME NEW i \in 1 .. n
      PROVE  /\ s[i] \in Seq(Items) /\ Sorted(s[i], PackOrder) /\ HasKept(s[i], u[i], keep(i))
  <2>. DEFINE y == x(i - 1)
  <2>1. s[i] = FlattenSeq(y) /\ Len(u[i]) \in Nat /\ (i - 1) + 1 = i
    BY <1>0, <1>2
  <2>2. Len(y) = Len(u[i]) /\ \A j \in 1 .. Len(u[i]) : y[j] = ReadOf(r, i - 1, j, clean)
    BY <2>1
  <2>3. ASSUME NEW j \in 1 .. Len(u[i])
        PROVE  ReadOf(r, i - 1, j, clean) = IF j \in keep(i) THEN <<u[i][j]>> ELSE <<>>
    <3>1. Ahead(u, i - 1) + j \in 1 .. Len(v)
      BY <1>2, <1>3 DEF Concatenated
    <3>2. j \in keep(i) <=> ~(setup.reader = "strict" /\ Ahead(u, i - 1) + j \notin clean)
      BY <1>5, <3>1
    <3>3. ReadOf(r, i - 1, j, clean) =
            IF setup.reader = "strict" /\ Ahead(u, i - 1) + j \notin clean
            THEN <<>> ELSE <<u[i][j]>>
      BY <2>1 DEF ReadOf, u
    <3>. HIDE DEF keep
    <3>. QED BY <3>2, <3>3
  <2>4. Len(y) = 0 => y = <<>>
    BY <2>1
  <2>. HIDE DEF y, keep, s
  <2>. DEFINE z == u[i]  k == keep(i)
  <2>5. z \in Seq(Items) /\ Sorted(z, PackOrder) /\ Len(y) = Len(z)
        /\ \A j \in 1 .. Len(z) : y[j] = IF j \in k THEN <<z[j]>> ELSE <<>>
    BY <1>2, <2>2, <2>3
  <2>. HIDE DEF z, k
  <2>6. /\ FlattenSeq(y) \in Seq(Items)
        /\ \A R : Sorted(z, R) => Sorted(FlattenSeq(y), R)
        /\ HasKept(FlattenSeq(y), z, k)
    BY <2>4, <2>5, FlattenThin
  <2>. QED BY <2>1, <2>5, <2>6 DEF z, k
<1>8. Len(s) = n /\ Len(s) \in Nat /\ (Len(s) = 0 => s = <<>>)
  BY <1>0
<1>. HIDE DEF s
<1>9. \A i \in 1 .. Len(s) : s[i] \in Seq(Items) /\ Sorted(s[i], PackOrder)
  BY <1>7, <1>8
<1>10. ASSUME NEW i \in 1 .. Len(s), NEW a \in Elems(s[i])
       PROVE  \E j \in keep(i) : a = u[i][j]
  <2>1. \E j \in 1 .. Len(u[i]) : j \in keep(i) /\ a = u[i][j]
    BY <1>7, <1>8, <1>10 DEF HasKept
  <2>. QED BY <2>1
<1>11. \A i, j \in 1 .. Len(s) : i < j =>
         \A a \in Elems(s[i]), b \in Elems(s[j]) : <<a, b>> \in PackOrder
  <2>. SUFFICES ASSUME NEW i \in 1 .. Len(s), NEW j \in 1 .. Len(s), i < j,
                       NEW a \in Elems(s[i]), NEW b \in Elems(s[j])
                PROVE  <<a, b>> \in PackOrder
    OBVIOUS
  <2>1. PICK e \in keep(i) : a = u[i][e]
    BY <1>10
  <2>2. PICK f \in keep(j) : b = u[j][f]
    BY <1>10
  <2>3. a \in Elems(u[i]) /\ b \in Elems(u[j])
    BY <2>1, <2>2 DEF Elems
  <2>4. a \in PackedSet(i - 1, r, round[r], 1) /\ b \in PackedSet(j - 1, r, round[r], 1)
    BY <1>2, <1>8, <2>3
  <2>5. a \in Items /\ b \in Items /\ input.geoms[a.geom].rank = i - 1
        /\ input.geoms[b.geom].rank = j - 1 /\ i - 1 < j - 1
    BY <1>8, <2>4 DEF PackedSet, LayerSet
  <2>. QED BY <2>5 DEF PackOrder, Before
<1>12. t \in Seq(Items)
  BY <1>1, <1>8, <1>9, FlattenConcatenates
<1>13. Sorted(t, PackOrder)
  BY <1>1, <1>8, <1>9, <1>11, FlattenSorted
<1>14. Elems(t) = UNION {Elems(s[i]) : i \in 1 .. Len(s)}
  BY <1>1, <1>8, <1>9, FlattenElems
<1>15. HasKept(t, v, K)
  <2>. SUFFICES ASSUME NEW y PROVE y \in Elems(t) <=> \E i \in 1 .. Len(v) : i \in K /\ y = v[i]
    BY DEF HasKept
  <2>1. ASSUME y \in Elems(t) PROVE \E i \in 1 .. Len(v) : i \in K /\ y = v[i]
    <3>1. PICK i \in 1 .. n : y \in Elems(s[i])
      BY <1>8, <1>14, <2>1
    <3>2. PICK j \in keep(i) : y = u[i][j]
      BY <1>8, <1>10, <3>1
    <3>3. /\ Ahead(u, i - 1) + j \in 1 .. Len(v) /\ v[Ahead(u, i - 1) + j] = u[i][j]
          /\ Ahead(u, i - 1) + j \in K
      BY <1>2, <1>3 DEF Concatenated
    <3>. QED BY <3>2, <3>3
  <2>2. ASSUME NEW k \in 1 .. Len(v), k \in K, y = v[k] PROVE y \in Elems(t)
    <3>1. PICK i \in 1 .. n : \E j \in 1 .. Len(u[i]) : k = Ahead(u, i - 1) + j
      BY <1>2, <1>3 DEF Concatenated
    <3>2. PICK j \in 1 .. Len(u[i]) : k = Ahead(u, i - 1) + j
      BY <3>1
    <3>3. j \in keep(i) /\ y = u[i][j]
      BY <1>2, <1>3, <2>2, <3>2 DEF Concatenated
    <3>4. y \in Elems(s[i])
      BY <1>7, <3>3 DEF HasKept
    <3>. QED BY <1>8, <1>14, <3>4
  <2>. QED BY <2>1, <2>2
<1>. QED BY <1>12, <1>13, <1>15 DEF ParsedAs, v, K, t

(* What is parsed of a layer, for every class whose offsets are right.     *)
ReadsInPlace == setup.reader = "lenient" \/ setup.manager \in {"all", "boxes", "roads"}

LEMMA ParseLayerIs ==
  ASSUME NEW r, Receives(r), GotRound(r), ReadsInPlace, NEW l \in Layers, NEW clean
  PROVE  ParsedAs(ParseLayer(r, l, clean), r, l, Kept(r, l, clean))
<1>1. setup.manager \in Managers /\ setup.reader \in Readers
  BY ChosenIs DEF Receives
<1>2. CASE setup.manager = "all"
  <2>1. l = 1
    BY <1>2 DEF Layers
  <2>2. ParseLayer(r, l, clean) = ParseByProcess(r, clean)
    BY <1>2 DEF ParseLayer
  <2>. QED BY <1>2, <2>1, <2>2, ParseByProcessIs
<1>3. CASE setup.manager \in {"boxes", "roads"}
  <2>1. Kept(r, l, clean) = 1 .. Len(Received(r, l))
    BY <1>3 DEF Kept, MayThrow
  <2>2. ParseLayer(r, l, clean) = ParseBoxes(r, l)
    BY <1>3 DEF ParseLayer
  <2>. QED BY <2>1, <2>2, ParseBoxesIs
<1>4. CASE setup.manager \in {"multi", "single", "pair"}
  <2>1. setup.reader = "lenient" /\ Unit = 1 /\ TextClass
    BY <1>1, <1>4 DEF ReadsInPlace, Unit, TextClass
  <2>2. Kept(r, l, clean) = 1 .. Len(Received(r, l))
    BY <2>1 DEF Kept, MayThrow
  <2>3. ParseLayer(r, l, clean) = ParseByCell(r, l, clean)
    BY <1>4 DEF ParseLayer
  <2>. QED BY <2>1, <2>2, <2>3, ParseByCellIs
<1>. QED BY <1>1, <1>2, <1>3, <1>4 DEF Managers

(* For every class, what is parsed are geometries in cells of the grid.    *)
LEMMA ParseByCellType ==
  ASSUME NEW r, Receives(r), GotRound(r), TextClass, NEW l \in Layers, NEW clean
  PROVE  ParseByCell(r, l, clean) \in Seq(Items)
<1>. DEFINE t == AllBoxes(r, l)
            read(n, o) == ReadText(r, l, o, t[n].vertStrLen, n \in clean)
            advance == [n \in 1 .. Len(t) |-> [o \in Nat |->
                          IF read(n, o) = <<>> THEN o ELSE o + t[n].vertStrLen]]
            IsOffset(f) == f = [n \in 1 .. Len(t) |-> IF n = 1 THEN 0 ELSE advance[n - 1][f[n - 1]]]
            offset == CHOOSE f : IsOffset(f)
            s == [n \in 1 .. Len(t) |-> Pushed(t[n].cellId, read(n, offset[n]))]
<1>1. t \in Seq(BoxSet) /\ Len(t) \in Nat
  <2>1. t = FlattenSeq(BoxesBy(r, l))
    BY GotBoxes
  <2>. QED BY <2>1, AllBoxesIs
<1>2. ParseByCell(r, l, clean) = FlattenSeq(s)
  BY DEF ParseByCell
<1>3. \A n, o : read(n, o) = <<>> \/ \E g \in Geoms : read(n, o) = <<g>>
  BY ReadTextType
<1>. HIDE DEF t, read, offset
<1>4. \A n \in 1 .. Len(t) : s[n] \in Seq(Items)
  <2>. SUFFICES ASSUME NEW n \in 1 .. Len(t) PROVE s[n] \in Seq(Items)
    OBVIOUS
  <2>1. t[n].cellId \in Cells
    <3>1. t[n] \in BoxSet
      BY <1>1
    <3>. QED BY <3>1 DEF BoxSet
  <2>2. s[n] = Pushed(t[n].cellId, read(n, offset[n]))
    OBVIOUS
  <2>. HIDE DEF s
  <2>3. CASE read(n, offset[n]) = <<>>
    <3>1. s[n] = <<>>
      BY <2>2, <2>3, PushedIs
    <3>2. <<>> \in Seq(Items)
      OBVIOUS
    <3>. QED BY <3>1, <3>2
  <2>4. CASE \E g \in Geoms : read(n, offset[n]) = <<g>>
    <3>1. PICK g \in Geoms : read(n, offset[n]) = <<g>>
      BY <2>4
    <3>. DEFINE x == [cellId |-> t[n].cellId, geom |-> g]
    <3>2. s[n] = <<x>> /\ x \in Items
      BY <2>1, <2>2, <3>1, PushedIs DEF Items
    <3>. HIDE DEF x
    <3>3. <<x>> \in Seq(Items)
      BY <3>2
    <3>. QED BY <3>2, <3>3
  <2>. QED BY <1>3, <2>3, <2>4
<1>5. Len(s) = Len(t) /\ (Len(s) = 0 => s = <<>>)
  BY <1>1
<1>. HIDE DEF s
<1>6. \A n \in 1 .. Len(s) : s[n] \in Seq(Items)
  BY <1>4, <1>5
<1>. QED BY <1>1, <1>2, <1>5, <1>6, FlattenConcatenates

LEMMA ParseLayerType ==
  ASSUME NEW r, Receives(r), GotRound(r), NEW l \in Layers, NEW clean
  PROVE  ParseLayer(r, l, clean) \in Seq(Items)
<1>1. setup.manager \in Managers
  BY ChosenIs DEF Receives
<1>2. CASE setup.manager \in {"all", "boxes", "roads"}
  BY <1>2, ParseLayerIs DEF ReadsInPlace, ParsedAs
<1>3. CASE setup.manager \in {"multi", "single", "pair"}
  BY <1>3, ParseByCellType DEF ParseLayer, TextClass
<1>. QED BY <1>1, <1>2, <1>3 DEF Managers

-----------------------------------------------------------------------------
(* The order of the geometries in the list of a cell.                      *)
GeomOrder ==
  {gh \in Geoms \X Geoms :
     LET p == input.geoms[gh[1]].rank  q == input.geoms[gh[2]].rank
     IN  p < q \/ (p = q /\ gh[1] < gh[2])}

LEMMA GeomOrderIs ==
  ASSUME Chosen
  PROVE  /\ Asymmetric(GeomOrder)
         /\ \A x, y \in Items : <<x, y>> \in PackOrder /\ x.cellId = y.cellId
                                  => <<x.geom, y.geom>> \in GeomOrder
<1>1. \A g \in Geoms : input.geoms[g].rank \in Int /\ g \in Int
  BY ChosenIs, ShuffleConstants DEF Ranks
<1>2. Asymmetric(GeomOrder)
  <2>. SUFFICES ASSUME NEW g, NEW h, <<g, h>> \in GeomOrder, <<h, g>> \in GeomOrder PROVE FALSE
    BY DEF Asymmetric
  <2>1. g \in Geoms /\ h \in Geoms
    BY DEF GeomOrder
  <2>. DEFINE p == input.geoms[g].rank  q == input.geoms[h].rank
  <2>2. (p < q \/ (p = q /\ g < h)) /\ (q < p \/ (q = p /\ h < g))
    BY DEF GeomOrder
  <2>3. p \in Int /\ q \in Int /\ g \in Int /\ h \in Int
    BY <1>1, <2>1
  <2>. HIDE DEF p, q
  <2>. QED BY <2>2, <2>3
<1>3. ASSUME NEW x \in Items, NEW y \in Items, <<x, y>> \in PackOrder, x.cellId = y.cellId
      PROVE  <<x.geom, y.geom>> \in GeomOrder
  <2>1. x.geom \in Geoms /\ y.geom \in Geoms /\ x.cellId \in Int
    BY DEF Items, Cells
  <2>2. Before(x, y)
    BY <1>3 DEF PackOrder
  <2>. QED BY <1>3, <2>1, <2>2 DEF Before, GeomOrder
<1>. QED BY <1>2, <1>3

(* What map::insert is given: for each cell its geometries.                *)
LEMMA GroupIs ==
  ASSUME Chosen, NEW t \in Seq(Items)
  PROVE  /\ DOMAIN GroupByCell(t) = {x.cellId : x \in Elems(t)}
         /\ \A c \in DOMAIN GroupByCell(t) :
              /\ GroupByCell(t)[c] \in Seq(Geoms)
              /\ Elems(GroupByCell(t)[c]) = {g \in Geoms : [cellId |-> c, geom |-> g] \in Elems(t)}
              /\ Elems(GroupByCell(t)[c]) # {}
              /\ Sorted(t, PackOrder) => Sorted(GroupByCell(t)[c], GeomOrder)
<1>. DEFINE T(c) == {x \in Range(t) : x.cellId = c}
            o(c) == Only(t, T(c))
            L(c) == [i \in 1 .. Len(o(c)) |-> o(c)[i].geom]
<1>1. DOMAIN t = 1 .. Len(t) /\ Len(t) \in Nat /\ \A i \in 1 .. Len(t) : t[i] \in Items
  OBVIOUS
<1>2. Range(t) = Elems(t) /\ Elems(t) \subseteq Items
  BY <1>1 DEF Range, Elems
<1>3. /\ DOMAIN GroupByCell(t) = {t[i].cellId : i \in 1 .. Len(t)}
      /\ \A c \in DOMAIN GroupByCell(t) : GroupByCell(t)[c] = L(c)
  BY DEF GroupByCell
<1>4. {t[i].cellId : i \in 1 .. Len(t)} = {x.cellId : x \in Elems(t)}
  BY DEF Elems
<1>. HIDE DEF T
<1>5. ASSUME NEW c
      PROVE  /\ o(c) \in Seq(Items) /\ Len(o(c)) \in Nat
             /\ Sorted(t, PackOrder) => Sorted(o(c), PackOrder)
             /\ Elems(o(c)) = {x \in Elems(t) : x.cellId = c}
  <2>. DEFINE K == T(c)
  <2>. HIDE DEF K
  <2>1. /\ Only(t, K) \in Seq(Items)
        /\ \A R : Sorted(t, R) => Sorted(Only(t, K), R)
        /\ Elems(Only(t, K)) = Elems(t) \cap K
    BY OnlyIs
  <2>2. Elems(t) \cap K = {x \in Elems(t) : x.cellId = c}
    BY <1>2 DEF K, T
  <2>3. Len(Only(t, K)) \in Nat
    BY <2>1
  <2>. QED BY <2>1, <2>2, <2>3 DEF K
<1>. HIDE DEF o
<1>6. ASSUME NEW c
      PROVE  /\ Len(L(c)) = Len(o(c)) /\ L(c) \in Seq(Geoms)
             /\ \A i \in 1 .. Len(o(c)) : /\ L(c)[i] = o(c)[i].geom
                                          /\ o(c)[i] \in Elems(t) /\ o(c)[i].cellId = c
                                          /\ o(c)[i] \in Items
  <2>1. \A i \in 1 .. Len(o(c)) : o(c)[i] \in Items /\ o(c)[i] \in Elems(o(c))
    BY <1>5 DEF Elems
  <2>2. \A i \in 1 .. Len(o(c)) : o(c)[i].geom \in Geoms
    BY <2>1 DEF Items
  <2>3. Len(L(c)) = Len(o(c)) /\ L(c) \in Seq(Geoms)
    BY <1>5, <2>2
  <2>. QED BY <1>5, <2>1, <2>3
<1>. HIDE DEF L
<1>7. ASSUME NEW c PROVE Elems(L(c)) = {g \in Geoms : [cellId |-> c, geom |-> g] \in Elems(t)}
  <2>. SUFFICES ASSUME NEW g
                PROVE  g \in Elems(L(c)) <=> g \in Geoms /\ [cellId |-> c, geom |-> g] \in Elems(t)
    OBVIOUS
  <2>1. ASSUME g \in Elems(L(c)) PROVE g \in Geoms /\ [cellId |-> c, geom |-> g] \in Elems(t)
    <3>1. PICK i \in 1 .. Len(o(c)) : g = L(c)[i]
      BY <1>6, <2>1 DEF Elems
    <3>2. o(c)[i] \in Elems(t) /\ o(c)[i].cellId = c /\ o(c)[i].geom = g /\ o(c)[i] \in Items
      BY <1>6, <3>1
    <3>3. o(c)[i] = [cellId |-> c, geom |-> g] /\ g \in Geoms
      BY <3>2 DEF Items
    <3>. QED BY <3>2, <3>3
  <2>2. ASSUME g \in Geoms, [cellId |-> c, geom |-> g] \in Elems(t) PROVE g \in Elems(L(c))
    <3>. DEFINE x == [cellId |-> c, geom |-> g]
    <3>1. x.cellId = c /\ x.geom = g /\ x \in Elems(t)
      BY <2>2
    <3>. HIDE DEF x
    <3>2. x \in Elems(o(c))
      BY <1>5, <3>1
    <3>3. PICK i \in 1 .. Len(o(c)) : x = o(c)[i]
      BY <3>2 DEF Elems
    <3>. QED BY <1>6, <3>1, <3>3 DEF Elems
  <2>. QED BY <2>1, <2>2
<1>8. ASSUME NEW c \in DOMAIN GroupByCell(t) PROVE Elems(L(c)) # {}
  <2>1. PICK x \in Elems(t) : x.cellId = c
    BY <1>3, <1>4
  <2>2. x = [cellId |-> c, geom |-> x.geom] /\ x.geom \in Geoms
    BY <1>2, <2>1 DEF Items
  <2>. QED BY <1>7, <2>1, <2>2
<1>9. ASSUME NEW c, Sorted(t, PackOrder) PROVE Sorted(L(c), GeomOrder)
  <2>. SUFFICES ASSUME NEW i \in 1 .. Len(L(c)), NEW j \in 1 .. Len(L(c)), i < j
                PROVE  <<L(c)[i], L(c)[j]>> \in GeomOrder
    BY DEF Sorted
  <2>1. i \in 1 .. Len(o(c)) /\ j \in 1 .. Len(o(c))
    BY <1>6
  <2>2. <<o(c)[i], o(c)[j]>> \in PackOrder
    BY <1>5, <1>9, <2>1 DEF Sorted
  <2>3. <<o(c)[i].geom, o(c)[j].geom>> \in GeomOrder
    BY <1>6, <2>1, <2>2, GeomOrderIs
  <2>. QED BY <1>6, <2>1, <2>3
<1>. QED BY <1>3, <1>4, <1>6, <1>7, <1>8, <1>9

-----------------------------------------------------------------------------
(* What all ranks together have in a cell, but for the items in U.         *)
InCellBut(U, c, l) ==
  Only(ByRank([q \in Ranks |-> Layer(q, c, l)]),
       {g \in Geoms : [cellId |-> c, geom |-> g] \notin U})
CellGeoms(c, l) == {g \in Geoms : input.geoms[g].layer = l /\ c \in input.geoms[g].cells}

LEMMA InCellIs ==
  ASSUME Chosen, NEW U, NEW c, NEW l
  PROVE  /\ InCellBut(U, c, l) \in Seq(Geoms) /\ Sorted(InCellBut(U, c, l), GeomOrder)
         /\ Elems(InCellBut(U, c, l)) =
              {g \in CellGeoms(c, l) : [cellId |-> c, geom |-> g] \notin U}
<1>. DEFINE n == numProcesses  s == [i \in 1 .. n |-> Layer(i - 1, c, l)]
            t == FlattenSeq(s)  K == {g \in Geoms : [cellId |-> c, geom |-> g] \notin U}
<1>1. n \in Nat \ {0} /\ Ranks = 0 .. n - 1
  BY ShuffleConstants DEF Ranks
<1>2. ByRank([q \in Ranks |-> Layer(q, c, l)]) = t
  <2>1. \A i \in 1 .. n : i - 1 \in Ranks
    BY <1>1
  <2>2. [i \in 1 .. n |-> [q \in Ranks |-> Layer(q, c, l)][i - 1]] = s
    BY <2>1
  <2>. QED BY <2>2 DEF ByRank
<1>3. InCellBut(U, c, l) = Only(t, K)
  BY <1>2 DEF InCellBut
<1>4. Len(s) = n /\ Len(s) \in Nat /\ (Len(s) = 0 => s = <<>>)
  BY <1>1
<1>5. \A i \in 1 .. n : /\ s[i] \in Seq(Geoms) /\ Sorted(s[i], Less)
                        /\ Elems(s[i]) = LayerSet(i - 1, c, l)
  BY LayerIs
<1>6. \A g \in Geoms : g \in Int /\ input.geoms[g].rank \in Ranks
  BY ChosenIs
<1>. HIDE DEF s, n
<1>7. \A i \in 1 .. Len(s) : s[i] \in Seq(Geoms) /\ Sorted(s[i], GeomOrder)
  <2>. SUFFICES ASSUME NEW i \in 1 .. n, NEW a \in 1 .. Len(s[i]), NEW b \in 1 .. Len(s[i]), a < b
                PROVE  <<s[i][a], s[i][b]>> \in GeomOrder
    BY <1>4, <1>5 DEF Sorted
  <2>1. s[i][a] \in LayerSet(i - 1, c, l) /\ s[i][b] \in LayerSet(i - 1, c, l)
    BY <1>5 DEF Elems
  <2>2. s[i][a] < s[i][b]
    BY <1>5 DEF Sorted, Less
  <2>. QED BY <2>1, <2>2 DEF GeomOrder, LayerSet
<1>8. \A i, j \in 1 .. Len(s) : i < j =>
        \A x \in Elems(s[i]), y \in Elems(s[j]) : <<x, y>> \in GeomOrder
  <2>. SUFFICES ASSUME NEW i \in 1 .. n, NEW j \in 1 .. n, i < j,
                       NEW x \in Elems(s[i]), NEW y \in Elems(s[j])
                PROVE  <<x, y>> \in GeomOrder
    BY <1>4
  <2>1. x \in LayerSet(i - 1, c, l) /\ y \in LayerSet(j - 1, c, l)
    BY <1>5
  <2>2. x \in Geoms /\ y \in Geoms /\ input.geoms[x].rank = i - 1 /\ input.geoms[y].rank = j - 1
        /\ i - 1 < j - 1
    BY <1>1, <2>1 DEF LayerSet
  <2>. QED BY <2>2 DEF GeomOrder
<1>9. t \in Seq(Geoms)
  BY <1>4, <1>7, FlattenConcatenates
<1>10. Sorted(t, GeomOrder)
  BY <1>4, <1>7, <1>8, FlattenSorted
<1>11. Elems(t) = CellGeoms(c, l)
  <2>1. Elems(t) = UNION {Elems(s[i]) : i \in 1 .. Len(s)}
    BY <1>4, <1>7, FlattenElems
  <2>. SUFFICES ASSUME NEW g PROVE g \in Elems(t) <=> g \in CellGeoms(c, l)
    OBVIOUS
  <2>2. ASSUME g \in Elems(t) PROVE g \in CellGeoms(c, l)
    <3>1. PICK i \in 1 .. n : g \in Elems(s[i])
      BY <1>4, <2>1, <2>2
    <3>. QED BY <1>5, <3>1 DEF LayerSet, CellGeoms
  <2>3. ASSUME g \in CellGeoms(c, l) PROVE g \in Elems(t)
    <3>. DEFINE i == input.geoms[g].rank + 1
    <3>1. i \in 1 .. n /\ i - 1 = input.geoms[g].rank
      BY <1>1, <1>6, <2>3 DEF CellGeoms
    <3>2. g \in LayerSet(i - 1, c, l)
      BY <2>3, <3>1 DEF CellGeoms, LayerSet
    <3>. HIDE DEF i
    <3>. QED BY <1>4, <1>5, <2>1, <3>1, <3>2
  <2>. QED BY <2>2, <2>3
<1>. HIDE DEF t, K
<1>12. /\ Only(t, K) \in Seq(Geoms) /\ \A R : Sorted(t, R) => Sorted(Only(t, K), R)
       /\ Elems(Only(t, K)) = Elems(t) \cap K
  BY <1>9, OnlyIs
<1>13. CellGeoms(c, l) \cap K = {g \in CellGeoms(c, l) : [cellId |-> c, geom |-> g] \notin U}
  BY DEF K, CellGeoms
<1>. QED BY <1>3, <1>10, <1>11, <1>12, <1>13

LEMMA EmptyElems ==
  ASSUME NEW M, NEW t \in Seq(M) PROVE t = <<>> <=> Elems(t) = {}
<1>1. Len(t) \in Nat /\ (t = <<>> <=> Len(t) = 0)
  OBVIOUS
<1>2. Len(t) = 0 => Elems(t) = {}
  BY DEF Elems
<1>3. Len(t) # 0 => t[1] \in Elems(t)
  BY <1>1 DEF Elems
<1>. QED BY <1>1, <1>2, <1>3

(* What a round inserts is what its cells hold, but for what was not read. *)
Matches(t, U, r, l) ==
  /\ \A c, g : [cellId |-> c, geom |-> g] \in Elems(t) <=>
       c \in RoundCells(r, round[r]) /\ g \in Elems(InCellBut(U, c, l))
  /\ DOMAIN GroupByCell(t) = {c \in RoundCells(r, round[r]) : InCellBut(U, c, l) # <<>>}
  /\ \A c \in DOMAIN GroupByCell(t) : GroupByCell(t)[c] = InCellBut(U, c, l)

LEMMA GroupMatches ==
  ASSUME NEW r, Receives(r), NEW l, NEW t, NEW keep, ParsedAs(t, r, l, keep), NEW U,
         \A n \in 1 .. Len(Received(r, l)) : Received(r, l)[n] \in U <=> n \notin keep
  PROVE  Matches(t, U, r, l)
<1>. DEFINE v == Received(r, l)  C == RoundCells(r, round[r])  I(c) == InCellBut(U, c, l)
            G == GroupByCell(t)
<1>1. Chosen /\ r \in Ranks /\ round[r] \in 0 .. Rounds - 1
  BY DEF Receives
<1>2. t \in Seq(Items) /\ Sorted(t, PackOrder) /\ HasKept(t, v, keep)
  BY DEF ParsedAs
<1>3. v \in Seq(Items) /\ Elems(v) = ReceivedSet(r, round[r], l)
  BY ReceivedIs
<1>4. \A c : /\ I(c) \in Seq(Geoms) /\ Sorted(I(c), GeomOrder)
             /\ Elems(I(c)) = {g \in CellGeoms(c, l) : [cellId |-> c, geom |-> g] \notin U}
  BY <1>1, InCellIs
<1>5. C \subseteq Cells
  <2>1. CellsForARound(r, round[r]) \in Seq(Cells) /\ Elems(CellsForARound(r, round[r])) = C
    BY <1>1, RoundIs
  <2>. QED BY <2>1 DEF Elems
<1>6. /\ DOMAIN G = {x.cellId : x \in Elems(t)}
      /\ \A c \in DOMAIN G :
           /\ G[c] \in Seq(Geoms) /\ Sorted(G[c], GeomOrder)
           /\ Elems(G[c]) = {g \in Geoms : [cellId |-> c, geom |-> g] \in Elems(t)}
  BY <1>1, <1>2, GroupIs
<1>. HIDE DEF v, C, I, G
<1>7. ASSUME NEW c, NEW g
      PROVE  [cellId |-> c, geom |-> g] \in Elems(t) <=> c \in C /\ g \in Elems(I(c))
  <2>. DEFINE x == [cellId |-> c, geom |-> g]
  <2>1. x \in ReceivedSet(r, round[r], l) <=> c \in C /\ g \in CellGeoms(c, l)
    BY <1>5 DEF ReceivedSet, CellGeoms, Items, C
  <2>2. g \in Elems(I(c)) <=> g \in CellGeoms(c, l) /\ x \notin U
    BY <1>4
  <2>. HIDE DEF x
  <2>3. x \in Elems(t) <=> \E n \in 1 .. Len(v) : n \in keep /\ x = v[n]
    BY <1>2 DEF HasKept
  <2>4. x \in Elems(v) <=> \E n \in 1 .. Len(v) : x = v[n]
    BY DEF Elems
  <2>5. \A n \in 1 .. Len(v) : v[n] \in U <=> n \notin keep
    BY DEF v
  <2>6. x \in Elems(t) <=> x \in Elems(v) /\ x \notin U
    BY <2>3, <2>4, <2>5
  <2>7. x \in Elems(t) <=> c \in C /\ g \in Elems(I(c))
    BY <1>3, <2>1, <2>2, <2>6
  <2>. QED BY <2>7 DEF x
<1>8. \A c : I(c) # <<>> <=> Elems(I(c)) # {}
  BY <1>4, EmptyElems
<1>9. DOMAIN G = {c \in C : I(c) # <<>>}
  <2>. SUFFICES ASSUME NEW c PROVE c \in DOMAIN G <=> c \in C /\ I(c) # <<>>
    OBVIOUS
  <2>1. ASSUME c \in DOMAIN G PROVE c \in C /\ I(c) # <<>>
    <3>1. PICK x \in Elems(t) : x.cellId = c
      BY <1>6, <2>1
    <3>2. x \in Items
      BY <1>2 DEF Elems
    <3>3. x = [cellId |-> c, geom |-> x.geom]
      BY <3>1, <3>2 DEF Items
    <3>4. c \in C /\ x.geom \in Elems(I(c))
      BY <1>7, <3>3
    <3>. QED BY <1>8, <3>4
  <2>2. ASSUME c \in C, I(c) # <<>> PROVE c \in DOMAIN G
    <3>1. PICK g : g \in Elems(I(c))
      BY <1>8, <2>2
    <3>. DEFINE x == [cellId |-> c, geom |-> g]
    <3>2. x \in Elems(t) /\ x.cellId = c
      BY <1>7, <2>2, <3>1
    <3>. QED BY <1>6, <3>2
  <2>. QED BY <2>1, <2>2
<1>10. ASSUME NEW c \in DOMAIN G PROVE G[c] = I(c)
  <2>1. Elems(G[c]) = Elems(I(c))
    <3>1. \A g : g \in Elems(I(c)) => g \in Geoms
      BY <1>4 DEF CellGeoms
    <3>. QED BY <1>6, <1>7, <1>9, <3>1
  <2>2. Asymmetric(GeomOrder)
    BY <1>1, GeomOrderIs
  <2>. DEFINE a == G[c]  b == I(c)
  <2>3. /\ a \in Seq(Geoms) /\ b \in Seq(Geoms) /\ Sorted(a, GeomOrder) /\ Sorted(b, GeomOrder)
        /\ Elems(a) = Elems(b)
    BY <1>4, <1>6, <2>1
  <2>. HIDE DEF a, b
  <2>4. a = b
    BY <2>2, <2>3, SortedSame
  <2>. QED BY <2>4 DEF a, b
<1>. QED BY <1>7, <1>9, <1>10 DEF Matches, C, I, G

-----------------------------------------------------------------------------
(* The collective calls.                                                   *)

(* The calls of a round, the k-th call of a rank and its round.            *)
S == CallsOf(setup.manager)
N == Len(S)
CallAt(k)  == IF k <= Rounds * N THEN S[((k - 1) % N) + 1] ELSE "allreduce"
RoundAt(k) == (k - 1) \div N

(* A rank has left n calls: those of its rounds so far, and those of its   *)
(* round up to its next call.                                              *)
CallsLeft(r, n) ==
  \/ \E i \in 1 .. N : pc[r] = S[i] /\ round[r] < Rounds /\ n = round[r] * N + i - 1
  \/ pc[r] = "parse" /\ round[r] < Rounds /\ n = round[r] * N + N
  \/ pc[r] = "allreduce" /\ round[r] = Rounds /\ n = Rounds * N
  \/ pc[r] = "done" /\ round[r] = Rounds
  \/ pc[r] = "abort" /\ round[r] < Rounds /\ n < Rounds * N

CallsInv ==
  /\ setup \in Setups
  /\ round \in [Ranks -> Nat]
  /\ inCall \in [Ranks -> BOOLEAN]
  /\ DOMAIN pc = Ranks /\ DOMAIN calls = Ranks
  /\ \A r \in Ranks : inCall[r] => pc[r] \in Calls
  /\ \A r \in Ranks : \E M : calls[r] \in Seq(M)
  /\ \A r \in Ranks : \E n \in Nat :
       CallsLeft(r, n) /\ Len(calls[r]) = IF inCall[r] THEN n + 1 ELSE n
  /\ \A r \in Ranks : \A k \in 1 .. Len(calls[r]) :
       calls[r][k].call = CallAt(k) /\ calls[r][k].round = RoundAt(k)

-----------------------------------------------------------------------------
(* The calls of each class.                                                *)

LEMMA ClassCalls ==
  ASSUME setup \in Setups
  PROVE  /\ N \in {2, 3, 4, 6} /\ Rounds \in Nat \ {0}
         /\ S[1] = "mbrCounts"
         /\ \A i \in 1 .. N : S[i] \in Calls /\ S[i] # "allreduce"
         /\ \A i, j \in 1 .. N : S[i] = S[j] => i = j
<1>1. setup.manager \in Managers /\ Rounds \in Nat \ {0}
  BY ShuffleConstants DEF Rounds
<1>2. CASE setup.manager = "pair"
  <2>1. S = <<"mbrCounts", "mbrs", "mbrs2", "geomCounts", "geoms", "geoms2">> /\ N = 6
    BY <1>2 DEF S, N, CallsOf
  <2>2. \A i \in 1 .. 6 : i = 1 \/ i = 2 \/ i = 3 \/ i = 4 \/ i = 5 \/ i = 6
    OBVIOUS
  <2>. QED BY <1>1, <2>1, <2>2 DEF Calls, MbrCalls, TextCalls
<1>3. CASE setup.manager = "boxes"
  <2>1. S = <<"mbrCounts", "mbrs", "mbrs2">> /\ N = 3
    BY <1>3 DEF S, N, CallsOf
  <2>2. \A i \in 1 .. 3 : i = 1 \/ i = 2 \/ i = 3
    OBVIOUS
  <2>. QED BY <1>1, <2>1, <2>2 DEF Calls, MbrCalls, TextCalls
<1>4. CASE setup.manager = "roads"
  <2>1. S = <<"mbrCounts", "mbrs">> /\ N = 2
    BY <1>4 DEF S, N, CallsOf
  <2>2. \A i \in 1 .. 2 : i = 1 \/ i = 2
    OBVIOUS
  <2>. QED BY <1>1, <2>1, <2>2 DEF Calls, MbrCalls, TextCalls
<1>5. CASE setup.manager \in {"all", "multi", "single"}
  <2>1. S = <<"mbrCounts", "mbrs", "geomCounts", "geoms">> /\ N = 4
    BY <1>5 DEF S, N, CallsOf
  <2>2. \A i \in 1 .. 4 : i = 1 \/ i = 2 \/ i = 3 \/ i = 4
    OBVIOUS
  <2>. QED BY <1>1, <2>1, <2>2 DEF Calls, MbrCalls, TextCalls
<1>. QED BY <1>1, <1>2, <1>3, <1>4, <1>5 DEF Managers

(* After a call comes the next one of the round, or the parsing.           *)
LEMMA NextCallIs ==
  ASSUME setup \in Setups, NEW i \in 1 .. N
  PROVE  NextCall(S[i]) = IF i = N THEN "parse" ELSE S[i + 1]
<1>1. /\ N \in {2, 3, 4, 6} /\ S[i] # "allreduce"
      /\ \A a, b \in 1 .. N : S[a] = S[b] => a = b
  BY ClassCalls
<1>2. Last(S) = S[N]
  BY DEF Last, N
<1>3. CASE i = N
  BY <1>1, <1>2, <1>3 DEF NextCall, S
<1>4. CASE i # N
  <2>. DEFINE P(j) == j \in 1 .. N /\ j > 1 /\ S[j - 1] = S[i]
  <2>1. S[i] # Last(S)
    BY <1>1, <1>2, <1>4
  <2>2. NextCall(S[i]) = S[CHOOSE j \in 1 .. N : j > 1 /\ S[j - 1] = S[i]]
    BY <1>1, <2>1 DEF NextCall, S, N
  <2>3. i + 1 \in 1 .. N /\ i + 1 > 1 /\ S[(i + 1) - 1] = S[i]
    BY <1>1, <1>4
  <2>4. \A j \in 1 .. N : j > 1 /\ S[j - 1] = S[i] => j = i + 1
    <3>. SUFFICES ASSUME NEW j \in 1 .. N, j > 1, S[j - 1] = S[i] PROVE j = i + 1
      OBVIOUS
    <3>1. j - 1 \in 1 .. N
      BY <1>1
    <3>2. j - 1 = i
      BY <1>1, <3>1
    <3>. QED BY <3>2
  <2>5. (CHOOSE j \in 1 .. N : j > 1 /\ S[j - 1] = S[i]) = i + 1
    BY <2>3, <2>4
  <2>. QED BY <1>4, <2>2, <2>5
<1>. QED BY <1>3, <1>4

LEMMA Digits ==
  ASSUME NEW q \in Nat, NEW d \in {2, 3, 4, 6}, NEW m \in 0 .. d - 1
  PROVE  (q * d + m) \div d = q /\ (q * d + m) % d = m
<1>1. CASE d = 2
  BY <1>1
<1>2. CASE d = 3
  BY <1>2
<1>3. CASE d = 4
  BY <1>3
<1>4. CASE d = 6
  BY <1>4
<1>. QED BY <1>1, <1>2, <1>3, <1>4

LEMMA AppendCall ==
  ASSUME NEW M, NEW s \in Seq(M), NEW e
  PROVE  /\ Append(s, e) \in Seq(M \cup {e})
         /\ Len(Append(s, e)) = Len(s) + 1 /\ Len(s) \in Nat
         /\ \A k \in 1 .. Len(s) : Append(s, e)[k] = s[k]
         /\ Append(s, e)[Len(s) + 1] = e
<1>1. s \in Seq(M \cup {e})
  OBVIOUS
<1>. QED BY <1>1
-----------------------------------------------------------------------------
LEMMA InitCalls == Init => CallsInv
<1>. SUFFICES ASSUME Init PROVE CallsInv
  OBVIOUS
<1>1. /\ N \in {2, 3, 4, 6} /\ Rounds \in Nat \ {0} /\ S[1] = "mbrCounts"
  BY ClassCalls DEF Init
<1>2. \A r \in Ranks : pc[r] = S[1] /\ round[r] = 0 /\ calls[r] = <<>> /\ inCall[r] = FALSE
  BY <1>1 DEF Init
<1>3. \A r \in Ranks : CallsLeft(r, 0)
  BY <1>1, <1>2 DEF CallsLeft
<1>4. \A r \in Ranks : calls[r] \in Seq(Nat) /\ Len(calls[r]) = 0
  <2>1. <<>> \in Seq(Nat) /\ Len(<<>>) = 0
    OBVIOUS
  <2>. QED BY <1>2, <2>1
<1>. QED BY <1>2, <1>3, <1>4 DEF CallsInv, Init

(* What a rank enters is the call that is due.                             *)
LEMMA DueCall ==
  ASSUME setup \in Setups, NEW r \in Ranks, round[r] \in Nat, NEW n \in Nat,
         CallsLeft(r, n), pc[r] \in Calls
  PROVE  /\ CallAt(n + 1) = pc[r] /\ RoundAt(n + 1) = round[r]
         /\ pc[r] # "allreduce" => round[r] < Rounds /\ n < Rounds * N
<1>1. N \in {2, 3, 4, 6} /\ Rounds \in Nat \ {0}
  BY ClassCalls
<1>2. (n + 1) - 1 = n
  OBVIOUS
<1>3. CASE \E i \in 1 .. N : pc[r] = S[i] /\ round[r] < Rounds /\ n = round[r] * N + i - 1
  <2>1. PICK i \in 1 .. N : pc[r] = S[i] /\ round[r] < Rounds /\ n = round[r] * N + i - 1
    BY <1>3
  <2>2. i - 1 \in 0 .. N - 1 /\ round[r] * N \in Nat
    BY <1>1
  <2>3. n \div N = round[r] /\ n % N = i - 1
    <3>1. n = round[r] * N + (i - 1)
      BY <2>1, <2>2
    <3>2. /\ (round[r] * N + (i - 1)) \div N = round[r]
          /\ (round[r] * N + (i - 1)) % N = i - 1
      <4>. DEFINE m == i - 1
      <4>1. m \in 0 .. N - 1
        BY <2>2
      <4>. HIDE DEF m
      <4>2. (round[r] * N + m) \div N = round[r] /\ (round[r] * N + m) % N = m
        BY SMTT(30), <1>1, <4>1, Digits
      <4>. QED BY <4>2 DEF m
    <3>. QED BY <3>1, <3>2, Zenon
  <2>4. n + 1 <= Rounds * N
    <3>1. PICK d \in Nat : Rounds = round[r] + 1 + d
      <4>1. Rounds - (round[r] + 1) \in Nat
        BY <1>1, <2>1
      <4>. QED BY <1>1, <4>1
    <3>2. Rounds * N = round[r] * N + N + d * N /\ d * N \in Nat
      BY <1>1, <3>1
    <3>. QED BY <1>1, <2>1, <2>2, <3>2
  <2>5. n < Rounds * N
    <3>1. Rounds * N \in Nat
      BY <1>1
    <3>. QED BY <2>4, <3>1
  <2>. QED BY <1>1, <1>2, <2>1, <2>3, <2>4, <2>5 DEF CallAt, RoundAt
<1>4. CASE pc[r] = "allreduce" /\ round[r] = Rounds /\ n = Rounds * N
  <2>1. Rounds * N \in Nat /\ ~(n + 1 <= Rounds * N)
    BY <1>1, <1>4
  <2>2. n = round[r] * N + 0 /\ 0 \in 0 .. N - 1
    BY <1>1, <1>4, <2>1
  <2>3. n \div N = round[r]
    BY <1>1, <2>2, Digits
  <2>. QED BY <1>2, <1>4, <2>1, <2>3 DEF CallAt, RoundAt
<1>5. pc[r] \notin {"parse", "done", "abort"}
  BY DEF Calls, MbrCalls, TextCalls
<1>. QED BY <1>3, <1>4, <1>5 DEF CallsLeft

LEMMA EnterCalls ==
  ASSUME CallsInv, NEW r \in Ranks, Enter(r) PROVE CallsInv'
<1>. DEFINE e == [call |-> pc[r], round |-> round[r], to |-> Payload(r)]
<1>1. /\ pc[r] \in Calls /\ ~inCall[r] /\ calls'[r] = Append(calls[r], e) /\ inCall'[r] = TRUE
      /\ UNCHANGED <<setup, round, pc>>
      /\ \A q \in Ranks \ {r} : inCall'[q] = inCall[q] /\ calls'[q] = calls[q]
  BY DEF Enter, CallsInv
<1>2. e.call = pc[r] /\ e.round = round[r]
  OBVIOUS
<1>. HIDE DEF e
<1>3. PICK M : calls[r] \in Seq(M)
  BY DEF CallsInv
<1>4. PICK n \in Nat : CallsLeft(r, n) /\ Len(calls[r]) = n
  BY <1>1 DEF CallsInv
<1>5. CallAt(n + 1) = pc[r] /\ RoundAt(n + 1) = round[r]
  BY <1>1, <1>4, DueCall DEF CallsInv
<1>6. /\ calls'[r] \in Seq(M \cup {e}) /\ Len(calls'[r]) = n + 1
      /\ \A k \in 1 .. n : calls'[r][k] = calls[r][k]
      /\ calls'[r][n + 1] = e
  BY <1>1, <1>3, <1>4, AppendCall
<1>7. \A k : CallAt(k)' = CallAt(k) /\ RoundAt(k)' = RoundAt(k)
  BY <1>1 DEF CallAt, RoundAt, S, N, Rounds
<1>8. \A q \in Ranks : \A m : CallsLeft(q, m)' <=> CallsLeft(q, m)
  BY <1>1 DEF CallsLeft, S, N, Rounds
<1>9. \A k \in 1 .. Len(calls'[r]) :
        calls'[r][k].call = CallAt(k) /\ calls'[r][k].round = RoundAt(k)
  <2>. SUFFICES ASSUME NEW k \in 1 .. n + 1
                PROVE  calls'[r][k].call = CallAt(k) /\ calls'[r][k].round = RoundAt(k)
    BY <1>6
  <2>1. CASE k = n + 1
    BY <1>2, <1>5, <1>6, <2>1
  <2>2. CASE k \in 1 .. n
    BY <1>4, <1>6, <2>2 DEF CallsInv
  <2>. QED BY <2>1, <2>2
<1>10. DOMAIN calls' = Ranks /\ inCall' \in [Ranks -> BOOLEAN]
  BY DEF Enter, CallsInv
<1>11. \A q \in Ranks : \E m \in Nat :
         CallsLeft(q, m)' /\ Len(calls'[q]) = IF inCall'[q] THEN m + 1 ELSE m
  <2>1. CallsLeft(r, n)' /\ Len(calls'[r]) = IF inCall'[r] THEN n + 1 ELSE n
    BY <1>1, <1>4, <1>6, <1>8
  <2>2. ASSUME NEW q \in Ranks \ {r}
        PROVE  \E m \in Nat : CallsLeft(q, m)' /\ Len(calls'[q]) = IF inCall'[q] THEN m + 1 ELSE m
    <3>1. PICK m \in Nat : CallsLeft(q, m) /\ Len(calls[q]) = IF inCall[q] THEN m + 1 ELSE m
      BY DEF CallsInv
    <3>2. CallsLeft(q, m)'
      BY <1>8, <3>1
    <3>. QED BY <1>1, <3>1, <3>2
  <2>. QED BY <2>1, <2>2
<1>12. \A q \in Ranks : \E K : calls'[q] \in Seq(K)
  BY <1>1, <1>6 DEF CallsInv
<1>13. \A q \in Ranks : \A k \in 1 .. Len(calls'[q]) :
         calls'[q][k].call = CallAt(k) /\ calls'[q][k].round = RoundAt(k)
  <2>. SUFFICES ASSUME NEW q \in Ranks, q # r
                PROVE  \A k \in 1 .. Len(calls'[q]) :
                         calls'[q][k].call = CallAt(k) /\ calls'[q][k].round = RoundAt(k)
    BY <1>9
  <2>1. calls'[q] = calls[q]
    BY <1>1
  <2>. QED BY <2>1 DEF CallsInv
<1>14. \A q \in Ranks : inCall'[q] => pc'[q] \in Calls
  BY <1>1 DEF CallsInv
<1>. QED BY <1>1, <1>7, <1>10, <1>11, <1>12, <1>13, <1>14 DEF CallsInv

(* The other actions leave the calls as they are, and move one rank.       *)
LEMMA OtherCalls ==
  ASSUME CallsInv, NEW r \in Ranks,
         UNCHANGED <<setup, calls>>,
         DOMAIN pc' = Ranks, round' \in [Ranks -> Nat], inCall' \in [Ranks -> BOOLEAN],
         \A q \in Ranks \ {r} : /\ pc'[q] = pc[q] /\ round'[q] = round[q]
                                /\ inCall'[q] = inCall[q],
         inCall'[r] = FALSE,
         \E n \in Nat : CallsLeft(r, n)' /\ Len(calls[r]) = n
  PROVE  CallsInv'
<1>1. \A k : CallAt(k)' = CallAt(k) /\ RoundAt(k)' = RoundAt(k)
  BY DEF CallAt, RoundAt, S, N, Rounds
<1>2. \A q \in Ranks \ {r} : \A m : CallsLeft(q, m)' <=> CallsLeft(q, m)
  <2>1. S' = S /\ N' = N /\ Rounds' = Rounds
    BY DEF S, N, Rounds
  <2>. QED BY <2>1 DEF CallsLeft
<1>3. \A q \in Ranks : \E m \in Nat :
        CallsLeft(q, m)' /\ Len(calls'[q]) = IF inCall'[q] THEN m + 1 ELSE m
  BY <1>2 DEF CallsInv
<1>4. \A q \in Ranks : inCall'[q] => pc'[q] \in Calls
  BY DEF CallsInv
<1>. QED BY <1>1, <1>3, <1>4 DEF CallsInv

LEMMA LeaveCalls ==
  ASSUME CallsInv, NEW r \in Ranks, Leave(r) PROVE CallsInv'
<1>1. /\ inCall[r] /\ pc[r] \in Calls /\ pc'[r] = NextCall(pc[r]) /\ inCall'[r] = FALSE
      /\ UNCHANGED <<setup, round, calls>>
      /\ DOMAIN pc' = Ranks /\ round' \in [Ranks -> Nat] /\ inCall' \in [Ranks -> BOOLEAN]
      /\ \A q \in Ranks \ {r} : /\ pc'[q] = pc[q] /\ round'[q] = round[q]
                                 /\ inCall'[q] = inCall[q]
  BY DEF Leave, AfterCall, CallsInv
<1>2. PICK n \in Nat : CallsLeft(r, n) /\ Len(calls[r]) = n + 1
  BY <1>1 DEF CallsInv
<1>3. N' = N /\ S' = S /\ Rounds' = Rounds
  BY <1>1 DEF N, S, Rounds
<1>4. N \in {2, 3, 4, 6} /\ setup \in Setups
  BY ClassCalls DEF CallsInv
<1>5. CallsLeft(r, n + 1)'
  <2>1. CASE \E i \in 1 .. N : pc[r] = S[i] /\ round[r] < Rounds /\ n = round[r] * N + i - 1
    <3>1. PICK i \in 1 .. N : pc[r] = S[i] /\ round[r] < Rounds /\ n = round[r] * N + i - 1
      BY <2>1
    <3>2. pc'[r] = IF i = N THEN "parse" ELSE S[i + 1]
      BY <1>1, <1>4, <3>1, NextCallIs
    <3>3. round[r] * N \in Nat
      BY <1>4 DEF CallsInv
    <3>4. CASE i = N
      BY <1>1, <1>3, <1>4, <3>1, <3>2, <3>3, <3>4 DEF CallsLeft
    <3>5. CASE i # N
      <4>1. i + 1 \in 1 .. N /\ pc'[r] = S[i + 1] /\ n + 1 = round[r] * N + (i + 1) - 1
        BY <1>4, <3>1, <3>2, <3>3, <3>5
      <4>. QED BY <1>1, <1>3, <3>1, <4>1 DEF CallsLeft
    <3>. QED BY <3>4, <3>5
  <2>2. CASE pc[r] = "allreduce"
    <3>1. Last(S) = S[N] /\ Last(S) # "allreduce"
      BY <1>4, ClassCalls DEF Last, N
    <3>2. pc'[r] = "done"
      BY <1>1, <2>2, <3>1 DEF NextCall, S
    <3>3. round'[r] = Rounds'
      <4>1. \A i \in 1 .. N : S[i] # "allreduce"
        BY <1>4, ClassCalls
      <4>. QED BY <1>1, <1>2, <1>3, <2>2, <4>1 DEF CallsLeft
    <3>. QED BY <3>2, <3>3 DEF CallsLeft
  <2>3. pc[r] \notin {"parse", "done", "abort"}
    BY <1>1 DEF Calls, MbrCalls, TextCalls
  <2>. QED BY <1>2, <2>1, <2>2, <2>3 DEF CallsLeft
<1>6. \E m \in Nat : CallsLeft(r, m)' /\ Len(calls[r]) = m
  BY <1>2, <1>5
<1>. QED BY <1>1, <1>6, OtherCalls

LEMMA ParseCalls ==
  ASSUME CallsInv, NEW r \in Ranks, ParseRound(r) PROVE CallsInv'
<1>1. /\ pc[r] = "parse" /\ pc'[r] = AfterRound(r) /\ round'[r] = round[r] + 1
      /\ UNCHANGED <<setup, calls, inCall>>
      /\ DOMAIN pc' = Ranks /\ round' \in [Ranks -> Nat] /\ inCall' \in [Ranks -> BOOLEAN]
      /\ \A q \in Ranks \ {r} : /\ pc'[q] = pc[q] /\ round'[q] = round[q]
                                 /\ inCall'[q] = inCall[q]
  BY DEF ParseRound, CallsInv
<1>2. inCall[r] = FALSE
  BY <1>1 DEF CallsInv, Calls, MbrCalls, TextCalls
<1>3. PICK n \in Nat : CallsLeft(r, n) /\ Len(calls[r]) = n
  BY <1>2 DEF CallsInv
<1>4. /\ N \in {2, 3, 4, 6} /\ Rounds \in Nat \ {0} /\ S[1] = "mbrCounts"
      /\ \A i \in 1 .. N : S[i] \in Calls
      /\ round[r] \in Nat
  BY ClassCalls DEF CallsInv
<1>5. N' = N /\ S' = S /\ Rounds' = Rounds
  BY <1>1 DEF N, S, Rounds
<1>6. round[r] < Rounds /\ n = round[r] * N + N
  <2>1. "parse" \notin Calls
    BY DEF Calls, MbrCalls, TextCalls
  <2>. QED BY <1>1, <1>3, <1>4, <2>1 DEF CallsLeft
<1>7. n = (round[r] + 1) * N
  BY <1>4, <1>6
<1>8. CallsLeft(r, n)'
  <2>1. CASE round[r] + 1 < Rounds
    <3>1. 1 \in 1 .. N /\ pc'[r] = S[1] /\ n = (round[r] + 1) * N + 1 - 1
      BY <1>1, <1>4, <1>7, <2>1 DEF AfterRound
    <3>. QED BY <1>1, <1>5, <2>1, <3>1 DEF CallsLeft
  <2>2. CASE ~(round[r] + 1 < Rounds)
    <3>1. round[r] + 1 = Rounds /\ pc'[r] \in {"allreduce", "done"}
      BY <1>1, <1>4, <1>6, <2>2 DEF AfterRound, AfterLoop
    <3>. QED BY <1>1, <1>5, <1>7, <3>1 DEF CallsLeft
  <2>. QED BY <2>1, <2>2
<1>. QED BY <1>1, <1>2, <1>3, <1>8, OtherCalls

LEMMA AbortCalls ==
  ASSUME CallsInv, NEW r \in Ranks, Abort(r) PROVE CallsInv'
<1>1. /\ ~inCall[r] /\ pc'[r] = "abort" /\ UNCHANGED <<setup, calls, inCall, round>>
      /\ DOMAIN pc' = Ranks /\ \A q \in Ranks \ {r} : pc'[q] = pc[q]
      /\ round' \in [Ranks -> Nat] /\ inCall' \in [Ranks -> BOOLEAN]
  BY DEF Abort, CallsInv
<1>2. \E n \in Nat : CallsLeft(r, n)' /\ Len(calls[r]) = n
  <2>1. PICK n \in Nat : CallsLeft(r, n) /\ Len(calls[r]) = n
    BY <1>1 DEF CallsInv
  <2>2. pc[r] \in Calls /\ pc[r] # "allreduce"
    BY DEF Abort, AssertionsHold, TextCalls
  <2>3. round[r] < Rounds /\ n < Rounds * N
    BY <2>1, <2>2, DueCall DEF CallsInv
  <2>4. Rounds' = Rounds /\ N' = N
    BY <1>1 DEF Rounds, N, S
  <2>. QED BY <1>1, <2>1, <2>3, <2>4 DEF CallsLeft
<1>3. inCall'[r] = FALSE
  BY <1>1 DEF CallsInv
<1>. QED BY <1>1, <1>2, <1>3, OtherCalls

LEMMA NextCalls == CallsInv /\ [Next]_vars => CallsInv'
<1>. SUFFICES ASSUME CallsInv, [Next]_vars PROVE CallsInv'
  OBVIOUS
<1>1. CASE UNCHANGED vars
  <2>1. UNCHANGED <<setup, round, pc, inCall, calls>>
    BY <1>1 DEF vars
  <2>2. /\ \A k : CallAt(k)' = CallAt(k) /\ RoundAt(k)' = RoundAt(k)
        /\ \A q, m : CallsLeft(q, m)' <=> CallsLeft(q, m)
    BY <2>1 DEF CallAt, RoundAt, CallsLeft, S, N, Rounds
  <2>. QED BY <2>1, <2>2 DEF CallsInv
<1>. QED BY <1>1, EnterCalls, LeaveCalls, ParseCalls, AbortCalls DEF Next, Terminating

(* All ranks make the same collective calls in the same order, for every   *)
(* number of ranks and rounds and every class of the exchange.             *)
THEOREM CallsMatchHolds == Spec => []CallsMatch
<1>1. CallsInv => CallsMatch
  BY DEF CallsInv, CallsMatch
<1>. QED BY <1>1, InitCalls, NextCalls, PTL DEF Spec

-----------------------------------------------------------------------------
(* What q sends to p in a call of round rd.                                *)
BoxCounts(q, p, rd)  == [l \in Layers |-> Len(Packed(q, p, rd, l))]
UnitCounts(q, p, rd) == [l \in Layers |-> Units(TextLen(q, p, rd, l))]
Sent(q, p, call, rd) ==
  CASE call = "mbrCounts"  -> BoxCounts(q, p, rd)
    [] call \in MbrCalls   -> Boxes(q, p, rd, LayerOf(call))
    [] call = "geomCounts" -> UnitCounts(q, p, rd)
    [] call \in TextCalls  -> Texts(q, p, rd, LayerOf(call))

(* g holds what p receives in the first m calls of round rd.               *)
SentTo(p, call, rd) == [q \in Ranks |-> Sent(q, p, call, rd)]
HasGot(g, p, rd, m) ==
  \A j \in 1 .. m : S[j] \in DOMAIN g /\ g[S[j]] = SentTo(p, S[j], rd)

(* The cells of p in the rounds before rd, and what lies in them.          *)
SoFar(p, rd) == UNION {RoundCells(p, a) : a \in 0 .. rd - 1}
ItemsSoFar(p, rd) ==
  {x \in Items : x.cellId \in SoFar(p, rd) /\ x.geom \in CellGeoms(x.cellId, 1)}
Owned(U, p, rd, l) ==
  [c \in {d \in SoFar(p, rd) : InCellBut(U, d, l) # <<>>} |-> InCellBut(U, c, l)]
IsMap(map) ==
  /\ DOMAIN map \subseteq Cells
  /\ \A c \in DOMAIN map : map[c] \in Seq(Geoms) \ {<<>>}

(* What p has after the rounds before rd: its map, the items U whose read  *)
(* threw and the number of geometries.                                     *)
Data(map, U, total, p, rd) ==
  /\ rd \in 0 .. Rounds
  /\ U \subseteq Items /\ \A x \in U : x.cellId \in SoFar(p, rd)
  /\ ~MayThrow => U = {}
  /\ \A l \in Layers : IsMap(map[l])
  /\ ReadsInPlace => \A l \in Layers : map[l] = Owned(U, p, rd, l)
  /\ total \in Nat
  /\ ReadsInPlace /\ setup.manager = "multi" =>
       IsFiniteSet(ItemsSoFar(p, rd)) /\ total = Cardinality(ItemsSoFar(p, rd))

LEMMA SentStays ==
  ASSUME UNCHANGED <<setup, input>>
  PROVE  /\ S' = S /\ N' = N /\ Rounds' = Rounds
         /\ \A q, p, call, rd : Sent(q, p, call, rd)' = Sent(q, p, call, rd)
         /\ \A p, call, rd : SentTo(p, call, rd)' = SentTo(p, call, rd)
         /\ \A g, p, rd, m : HasGot(g, p, rd, m)' <=> HasGot(g, p, rd, m)
<1>1. S' = S /\ N' = N /\ Rounds' = Rounds
  BY DEF S, N, Rounds
<1>2. /\ \A q, p, rd : BoxCounts(q, p, rd)' = BoxCounts(q, p, rd)
      /\ \A q, p, rd : UnitCounts(q, p, rd)' = UnitCounts(q, p, rd)
  BY SMTT(60) DEF BoxCounts, UnitCounts, Layers, Units, Unit, TextLen, VertStrLens, Boxes, Packed,
         InOneCell, Layer, Geoms, Only, CellsForARound, Rounds, CellsOf, Cells
<1>3. \A q, p, rd, l : Boxes(q, p, rd, l)' = Boxes(q, p, rd, l)
  BY SMTT(60) DEF Boxes, Packed, InOneCell, Layer, Geoms, Only, CellsForARound, Rounds, CellsOf, Cells
<1>5. \A q, p, rd, l : Texts(q, p, rd, l)' = Texts(q, p, rd, l)
  BY SMTT(60) DEF Texts, VertStrLens, Boxes, Packed, InOneCell, Layer, Geoms, Only, CellsForARound,
         Rounds, CellsOf, Cells
<1>6. \A q, p, call, rd : Sent(q, p, call, rd)' = Sent(q, p, call, rd)
  BY ZenonT(30), <1>2, <1>3, <1>5 DEF Sent
<1>7. \A p, call, rd : SentTo(p, call, rd)' = SentTo(p, call, rd)
  BY <1>6 DEF SentTo
<1>8. \A g, p, rd, m : HasGot(g, p, rd, m)' <=> HasGot(g, p, rd, m)
  BY <1>1, <1>7 DEF HasGot
<1>. QED BY <1>1, <1>6, <1>7, <1>8

LEMMA DataStays ==
  ASSUME UNCHANGED <<setup, input>>
  PROVE  /\ \A map, U, total, p, rd : Data(map, U, total, p, rd)' <=> Data(map, U, total, p, rd)
         /\ EnoughCells' <=> EnoughCells
<1>1. \A map, U, total, p, rd : Data(map, U, total, p, rd)' <=> Data(map, U, total, p, rd)
  BY DEF Data, Rounds, Items, Cells, Geoms, SoFar, RoundCells, From, RoundSize, CellsOf, Only,
         MayThrow, Layers, IsMap, ReadsInPlace, Owned, InCellBut, ByRank, Layer, ItemsSoFar,
         CellGeoms
<1>2. EnoughCells' <=> EnoughCells
  BY DEF EnoughCells, CellsOf, Only, Cells
<1>. QED BY <1>1, <1>2

(* Where the calls are in a round.                                         *)
LEMMA CallPlaces ==
  ASSUME setup \in Setups
  PROVE  /\ \A i \in 1 .. N : S[i] \in MbrCalls => i > 1 /\ LayerOf(S[i]) \in Layers
         /\ \A i \in 1 .. N : S[i] \in TextCalls =>
              LayerOf(S[i]) \in Layers /\ \E j \in 1 .. i - 1 : S[j] = "geomCounts"
         /\ \A i \in 1 .. N : S[i] \in MbrCalls \cup TextCalls \cup {"mbrCounts", "geomCounts"}
         /\ \A l \in Layers : \E i \in 1 .. N :
              S[i] = Mbrs(l) /\ Mbrs(l) \in MbrCalls /\ LayerOf(Mbrs(l)) = l
         /\ TextClass => \E i \in 1 .. N : S[i] = "geomCounts"
         /\ TextClass => \A l \in Layers : \E i \in 1 .. N :
              S[i] = GeomsOf(l) /\ GeomsOf(l) \in TextCalls /\ LayerOf(GeomsOf(l)) = l
<1>1. setup.manager \in Managers
  BY ShuffleConstants
<1>2. /\ Mbrs(1) = "mbrs" /\ Mbrs(2) = "mbrs2" /\ GeomsOf(1) = "geoms" /\ GeomsOf(2) = "geoms2"
      /\ LayerOf("mbrs") = 1 /\ LayerOf("mbrs2") = 2 /\ LayerOf("geoms") = 1 /\ LayerOf("geoms2") = 2
      /\ MbrCalls = {"mbrs", "mbrs2"} /\ TextCalls = {"geoms", "geoms2"}
  BY DEF Mbrs, GeomsOf, LayerOf, MbrCalls, TextCalls
<1>3. CASE setup.manager = "pair"
  <2>1. S = <<"mbrCounts", "mbrs", "mbrs2", "geomCounts", "geoms", "geoms2">> /\ N = 6
        /\ Layers = {1, 2}
    BY <1>3 DEF S, N, CallsOf, Layers
  <2>2. S[1] = "mbrCounts" /\ S[2] = "mbrs" /\ S[3] = "mbrs2" /\ S[4] = "geomCounts"
        /\ S[5] = "geoms" /\ S[6] = "geoms2" /\ 1 .. N = {1, 2, 3, 4, 5, 6}
    BY <2>1
  <2>3. 4 \in 1 .. 5 - 1 /\ 4 \in 1 .. 6 - 1
    OBVIOUS
  <2>. HIDE DEF S
  <2>. QED BY <1>2, <2>1, <2>2, <2>3
<1>4. CASE setup.manager = "boxes"
  <2>1. S = <<"mbrCounts", "mbrs", "mbrs2">> /\ N = 3 /\ Layers = {1, 2} /\ ~TextClass
    BY <1>4 DEF S, N, CallsOf, Layers, TextClass
  <2>2. S[1] = "mbrCounts" /\ S[2] = "mbrs" /\ S[3] = "mbrs2" /\ 1 .. N = {1, 2, 3}
    BY <2>1
  <2>. QED BY <1>2, <2>1, <2>2
<1>5. CASE setup.manager = "roads"
  <2>1. S = <<"mbrCounts", "mbrs">> /\ N = 2 /\ Layers = {1} /\ ~TextClass
    BY <1>5 DEF S, N, CallsOf, Layers, TextClass
  <2>2. S[1] = "mbrCounts" /\ S[2] = "mbrs" /\ 1 .. N = {1, 2}
    BY <2>1
  <2>. QED BY <1>2, <2>1, <2>2
<1>6. CASE setup.manager \in {"all", "multi", "single"}
  <2>1. S = <<"mbrCounts", "mbrs", "geomCounts", "geoms">> /\ N = 4 /\ Layers = {1}
    BY <1>6 DEF S, N, CallsOf, Layers
  <2>2. S[1] = "mbrCounts" /\ S[2] = "mbrs" /\ S[3] = "geomCounts"
        /\ S[4] = "geoms" /\ 1 .. N = {1, 2, 3, 4}
    BY <2>1
  <2>3. 3 \in 1 .. 4 - 1
    OBVIOUS
  <2>. HIDE DEF S
  <2>. QED BY <1>2, <2>1, <2>2, <2>3
<1>. QED BY <1>1, <1>3, <1>4, <1>5, <1>6 DEF Managers

(* After all calls of its round a rank has what the round sends it.        *)
LEMMA GotIsRound ==
  ASSUME setup \in Setups, NEW r \in Ranks, HasGot(got[r], r, round[r], N)
  PROVE  GotRound(r)
<1>1. /\ S[1] = "mbrCounts" /\ 1 \in 1 .. N
      /\ "mbrCounts" \notin MbrCalls \cup TextCalls /\ "geomCounts" \notin MbrCalls \cup TextCalls
      /\ MbrCalls \cap TextCalls = {}
  BY ClassCalls DEF MbrCalls, TextCalls
<1>2. \A i \in 1 .. N : got[r][S[i]] = SentTo(r, S[i], round[r])
  BY DEF HasGot
<1>3. got[r].mbrCounts = [q \in Ranks |-> [l \in Layers |-> Len(Packed(q, r, round[r], l))]]
  <2>1. got[r]["mbrCounts"] = SentTo(r, "mbrCounts", round[r])
    BY <1>1, <1>2
  <2>2. \A q : Sent(q, r, "mbrCounts", round[r]) = [l \in Layers |-> Len(Packed(q, r, round[r], l))]
    BY <1>1 DEF Sent, BoxCounts
  <2>. QED BY <2>1, <2>2 DEF SentTo
<1>4. ASSUME NEW l \in Layers PROVE got[r][Mbrs(l)] = [q \in Ranks |-> Boxes(q, r, round[r], l)]
  <2>1. PICK i \in 1 .. N : S[i] = Mbrs(l) /\ Mbrs(l) \in MbrCalls /\ LayerOf(Mbrs(l)) = l
    BY CallPlaces
  <2>2. \A q : Sent(q, r, Mbrs(l), round[r]) = Boxes(q, r, round[r], l)
    BY <1>1, <2>1 DEF Sent
  <2>3. got[r][Mbrs(l)] = SentTo(r, Mbrs(l), round[r])
    BY <1>2, <2>1
  <2>. QED BY <2>2, <2>3 DEF SentTo
<1>5. ASSUME TextClass, NEW l \in Layers
      PROVE  got[r][GeomsOf(l)] = [q \in Ranks |-> Texts(q, r, round[r], l)]
  <2>1. PICK i \in 1 .. N : S[i] = GeomsOf(l) /\ GeomsOf(l) \in TextCalls /\ LayerOf(GeomsOf(l)) = l
    BY <1>5, CallPlaces
  <2>2. \A q : Sent(q, r, GeomsOf(l), round[r]) = Texts(q, r, round[r], l)
    BY <1>1, <2>1 DEF Sent
  <2>3. got[r][GeomsOf(l)] = SentTo(r, GeomsOf(l), round[r])
    BY <1>2, <2>1
  <2>. QED BY <2>2, <2>3 DEF SentTo
<1>6. ASSUME TextClass
      PROVE  got[r].geomCounts =
               [q \in Ranks |-> [l \in Layers |-> Units(TextLen(q, r, round[r], l))]]
  <2>1. PICK i \in 1 .. N : S[i] = "geomCounts"
    BY <1>6, CallPlaces
  <2>2. \A q : Sent(q, r, "geomCounts", round[r]) =
                 [l \in Layers |-> Units(TextLen(q, r, round[r], l))]
    BY <1>1 DEF Sent, UnitCounts
  <2>3. got[r]["geomCounts"] = SentTo(r, "geomCounts", round[r])
    BY <1>2, <2>1
  <2>. QED BY <2>2, <2>3 DEF SentTo
<1>. QED BY <1>3, <1>4, <1>5, <1>6 DEF GotRound

(* A rank that is expected to send nothing sends nothing.                  *)
LEMMA NothingSent ==
  ASSUME Chosen, NEW p \in Ranks, NEW rd \in 0 .. Rounds - 1, NEW q, NEW l
  PROVE  /\ Len(Packed(q, p, rd, l)) \in Nat /\ Units(TextLen(q, p, rd, l)) \in Nat
         /\ Len(Packed(q, p, rd, l)) = 0 => Boxes(q, p, rd, l) = <<>>
         /\ Units(TextLen(q, p, rd, l)) = 0 => Texts(q, p, rd, l) = {}
<1>. DEFINE b == Boxes(q, p, rd, l)  u == Packed(q, p, rd, l)  w == BoxLen
<1>1. b \in Seq(BoxSet) /\ Len(b) = Len(u) /\ Len(u) \in Nat
  BY BoxesIs
<1>2. TextLen(q, p, rd, l) = Weigh(w, b, Len(b)) /\ TextLen(q, p, rd, l) \in Nat
  BY TextLenIs
<1>3. \A x \in BoxSet : w[x] \in Nat /\ w[x] > 0
  BY BoxLenIs
<1>4. Texts(q, p, rd, l) = {[geom |-> u[i].geom, at |-> VertStrLens(b, i - 1)] : i \in 1 .. Len(u)}
  BY DEF Texts
<1>5. Units(TextLen(q, p, rd, l)) \in Nat
      /\ (Units(TextLen(q, p, rd, l)) = 0 => TextLen(q, p, rd, l) = 0)
  <2>. DEFINE n == TextLen(q, p, rd, l)
  <2>1. n \in Nat
    BY <1>2
  <2>. HIDE DEF n
  <2>2. Units(n) \in Nat /\ (Units(n) = 0 => n = 0)
    BY <2>1, UnitsFit
  <2>. QED BY <2>2 DEF n
<1>. HIDE DEF b, u, w
<1>6. Weigh(w, b, Len(b)) = 0 => Len(b) = 0
  <2>. SUFFICES ASSUME Len(b) # 0 PROVE Weigh(w, b, Len(b)) # 0
    OBVIOUS
  <2>1. /\ \A i \in 0 .. Len(b) : Weigh(w, b, i) \in Nat
        /\ \A i \in 1 .. Len(b) : Weigh(w, b, i) = Weigh(w, b, i - 1) + w[b[i]]
    BY <1>1, <1>3, WeighIs
  <2>2. Len(b) \in 1 .. Len(b) /\ Len(b) - 1 \in 0 .. Len(b)
    BY <1>1
  <2>3. b[Len(b)] \in BoxSet
    BY <1>1, <2>2
  <2>4. Weigh(w, b, Len(b)) = Weigh(w, b, Len(b) - 1) + w[b[Len(b)]]
        /\ Weigh(w, b, Len(b) - 1) \in Nat
    BY <2>1, <2>2
  <2>. QED BY <1>3, <2>3, <2>4
<1>7. Units(TextLen(q, p, rd, l)) = 0 => Texts(q, p, rd, l) = {}
  BY <1>1, <1>2, <1>4, <1>5, <1>6
<1>8. Len(u) = 0 => b = <<>>
  BY <1>1
<1>. QED BY <1>1, <1>5, <1>7, <1>8 DEF u, b

LEMMA SoFarIs ==
  ASSUME Chosen, NEW p \in Ranks
  PROVE  /\ SoFar(p, 0) = {}
         /\ \A rd \in 0 .. Rounds : SoFar(p, rd) \subseteq Cells
         /\ SoFar(p, Rounds) = Elems(CellsOf(p))
         /\ \A rd \in 0 .. Rounds - 1 :
              /\ SoFar(p, rd + 1) = SoFar(p, rd) \cup RoundCells(p, rd)
              /\ SoFar(p, rd) \cap RoundCells(p, rd) = {}
              /\ RoundCells(p, rd) \subseteq Cells
<1>1. Rounds \in Nat \ {0}
  BY ChosenIs
<1>2. CellsOf(p) \in Seq(Cells) /\ Elems(CellsOf(p)) \subseteq Cells
  <2>1. CellsOf(p) \in Seq(Cells)
    BY CellsOfIs
  <2>. QED BY <2>1 DEF Elems
<1>3. \A rd \in 0 .. Rounds - 1 : RoundCells(p, rd) \subseteq Elems(CellsOf(p))
  BY RoundIs
<1>4. SoFar(p, 0) = {}
  <2>1. 0 .. 0 - 1 = {}
    OBVIOUS
  <2>. QED BY <2>1 DEF SoFar
<1>5. ASSUME NEW rd \in 0 .. Rounds PROVE SoFar(p, rd) \subseteq Elems(CellsOf(p))
  <2>1. \A a \in 0 .. rd - 1 : a \in 0 .. Rounds - 1
    BY <1>1
  <2>. QED BY <1>3, <2>1 DEF SoFar
<1>6. ASSUME NEW rd \in 0 .. Rounds - 1
      PROVE  /\ SoFar(p, rd + 1) = SoFar(p, rd) \cup RoundCells(p, rd)
             /\ SoFar(p, rd) \cap RoundCells(p, rd) = {}
  <2>1. 0 .. (rd + 1) - 1 = (0 .. rd - 1) \cup {rd}
    BY <1>1
  <2>2. \A a \in 0 .. rd - 1 : a \in 0 .. Rounds - 1 /\ a # rd
    BY <1>1
  <2>3. \A a \in 0 .. rd - 1 : RoundCells(p, a) \cap RoundCells(p, rd) = {}
    BY <2>2, RoundsDiffer
  <2>. QED BY <2>1, <2>3 DEF SoFar
<1>7. Elems(CellsOf(p)) \subseteq SoFar(p, Rounds)
  BY EveryCellHasARound DEF SoFar
<1>8. Rounds \in 0 .. Rounds
  BY <1>1
<1>. QED BY <1>2, <1>3, <1>4, <1>5, <1>6, <1>7, <1>8

(* What a parsed round adds to the items whose read threw: its own items   *)
(* that were not read, and each lies at one place of what was received.    *)
CleanOf(clean, l) == {x[2] : x \in {y \in clean : y[1] = l}}
NotRead(r, clean) == {Received(r, x[1])[x[2]] : x \in Positions(r) \ clean}
CleanChoices(r) == IF MayThrow THEN SUBSET Positions(r) ELSE {Positions(r)}

LEMMA NotReadIs ==
  ASSUME NEW r, Receives(r), NEW clean \in CleanChoices(r)
  PROVE  /\ NotRead(r, clean) \subseteq Items
         /\ \A x \in NotRead(r, clean) : x.cellId \in RoundCells(r, round[r])
         /\ ~MayThrow => NotRead(r, clean) = {}
         /\ \A l \in Layers : \A n \in 1 .. Len(Received(r, l)) :
              Received(r, l)[n] \in NotRead(r, clean) <=> n \notin Kept(r, l, CleanOf(clean, l))
<1>1. \A l : /\ Received(r, l) \in Seq(Items) /\ Sorted(Received(r, l), PackOrder)
             /\ Elems(Received(r, l)) = ReceivedSet(r, round[r], l)
  BY ReceivedIs
<1>2. ASSUME NEW l, NEW n \in 1 .. Len(Received(r, l))
      PROVE  /\ Received(r, l)[n] \in Items /\ Received(r, l)[n].cellId \in RoundCells(r, round[r])
             /\ input.geoms[Received(r, l)[n].geom].layer = l
  <2>1. Received(r, l)[n] \in ReceivedSet(r, round[r], l)
    BY <1>1 DEF Elems
  <2>. QED BY <2>1 DEF ReceivedSet
<1>3. \A x : x \in Positions(r) <=>
        \E l \in Layers : \E n \in 1 .. Len(Received(r, l)) : x = <<l, n>>
  BY DEF Positions
<1>4. ~MayThrow => NotRead(r, clean) = {}
  BY DEF NotRead, CleanChoices
<1>5. ASSUME NEW x \in NotRead(r, clean)
      PROVE  x \in Items /\ x.cellId \in RoundCells(r, round[r])
  <2>1. PICK y \in Positions(r) \ clean : x = Received(r, y[1])[y[2]]
    BY <1>5 DEF NotRead
  <2>2. PICK l \in Layers : \E n \in 1 .. Len(Received(r, l)) : y = <<l, n>>
    BY <1>3, <2>1
  <2>3. PICK n \in 1 .. Len(Received(r, l)) : y = <<l, n>>
    BY <2>2
  <2>. QED BY <1>2, <2>1, <2>3
<1>6. ASSUME NEW l \in Layers, NEW n \in 1 .. Len(Received(r, l))
      PROVE  Received(r, l)[n] \in NotRead(r, clean) <=> n \notin Kept(r, l, CleanOf(clean, l))
  <2>1. CASE ~MayThrow
    BY <1>4, <2>1 DEF Kept
  <2>2. CASE MayThrow
    <3>1. clean \subseteq Positions(r)
      BY <2>2 DEF CleanChoices
    <3>2. n \in Kept(r, l, CleanOf(clean, l)) <=> <<l, n>> \in clean
      <4>1. n \in CleanOf(clean, l) <=> <<l, n>> \in clean
        <5>1. ASSUME n \in CleanOf(clean, l) PROVE <<l, n>> \in clean
          <6>1. PICK x \in clean : x[1] = l /\ x[2] = n
            BY <5>1 DEF CleanOf
          <6>2. x = <<l, n>>
            BY <1>3, <3>1, <6>1
          <6>. QED BY <6>1, <6>2
        <5>2. ASSUME <<l, n>> \in clean PROVE n \in CleanOf(clean, l)
          <6>1. <<l, n>>[1] = l /\ <<l, n>>[2] = n
            OBVIOUS
          <6>. QED BY <5>2, <6>1 DEF CleanOf
        <5>. QED BY <5>1, <5>2
      <4>. QED BY <2>2, <4>1 DEF Kept
    <3>3. <<l, n>> \in Positions(r)
      BY <1>3
    <3>4. ASSUME <<l, n>> \notin clean PROVE Received(r, l)[n] \in NotRead(r, clean)
      <4>1. <<l, n>>[1] = l /\ <<l, n>>[2] = n
        OBVIOUS
      <4>. QED BY <3>3, <3>4, <4>1 DEF NotRead
    <3>5. ASSUME Received(r, l)[n] \in NotRead(r, clean) PROVE <<l, n>> \notin clean
      <4>1. PICK y \in Positions(r) \ clean : Received(r, l)[n] = Received(r, y[1])[y[2]]
        BY <3>5 DEF NotRead
      <4>2. PICK k \in Layers : \E m \in 1 .. Len(Received(r, k)) : y = <<k, m>>
        BY <1>3, <4>1
      <4>3. PICK m \in 1 .. Len(Received(r, k)) : y = <<k, m>>
        BY <4>2
      <4>4. Received(r, l)[n] = Received(r, k)[m]
        BY <4>1, <4>3
      <4>5. k = l
        BY <1>2, <4>4
      <4>6. Asymmetric(PackOrder)
        BY Orders DEF Receives
      <4>. DEFINE v == Received(r, l)
      <4>7. Len(v) \in Nat /\ Sorted(v, PackOrder) /\ n \in 1 .. Len(v) /\ m \in 1 .. Len(v)
            /\ v[n] = v[m]
        BY <1>1, <4>4, <4>5
      <4>. HIDE DEF v
      <4>8. n = m
        BY <4>6, <4>7, SortedOnce
      <4>. QED BY <4>1, <4>3, <4>5, <4>8
    <3>. QED BY <3>2, <3>4, <3>5
  <2>. QED BY <2>1, <2>2
<1>. QED BY <1>4, <1>5, <1>6

(* What a cell holds depends on the items of this cell only.               *)
LEMMA InCellSame ==
  ASSUME NEW U, NEW W, NEW c, \A g : [cellId |-> c, geom |-> g] \in U <=> [cellId |-> c, geom |-> g] \in W
  PROVE  \A l : InCellBut(U, c, l) = InCellBut(W, c, l)
<1>1. {g \in Geoms : [cellId |-> c, geom |-> g] \notin U} = {g \in Geoms : [cellId |-> c, geom |-> g] \notin W}
  OBVIOUS
<1>. QED BY <1>1 DEF InCellBut

(* What the parsing of a round makes of what the rank had before.          *)
Adds(map, t, W, r, l) ==
  /\ Insert(map, GroupByCell(t)) = Owned(W, r, round[r] + 1, l)
  /\ Sorted(t, PackOrder)
  /\ \A c, g : [cellId |-> c, geom |-> g] \in Elems(t) <=>
       c \in RoundCells(r, round[r]) /\ g \in Elems(InCellBut(W, c, l))

LEMMA ParsedMaps ==
  ASSUME NEW r, Receives(r), GotRound(r), NEW clean \in CleanChoices(r), ReadsInPlace,
         NEW U, U \subseteq Items, \A x \in U : x.cellId \in SoFar(r, round[r]),
         NEW W, W = U \cup NotRead(r, clean),
         NEW l \in Layers, NEW map, map = Owned(U, r, round[r], l),
         NEW t, t = ParseLayer(r, l, CleanOf(clean, l))
  PROVE  Adds(map, t, W, r, l)
<1>. DEFINE keep == Kept(r, l, CleanOf(clean, l))  v == Received(r, l)
            old == SoFar(r, round[r])  new == RoundCells(r, round[r])
            G == GroupByCell(t)
<1>1. ParsedAs(t, r, l, keep)
  BY ParseLayerIs
<1>2. /\ \A x \in NotRead(r, clean) : x.cellId \in new
      /\ \A n \in 1 .. Len(v) : v[n] \in NotRead(r, clean) <=> n \notin keep
  BY NotReadIs
<1>3. SoFar(r, round[r] + 1) = old \cup new /\ old \cap new = {}
  BY SoFarIs DEF Receives
<1>4. \A n \in 1 .. Len(v) : v[n].cellId \in new
  <2>1. Elems(v) = ReceivedSet(r, round[r], l)
    BY ReceivedIs
  <2>2. \A n \in 1 .. Len(v) : v[n] \in Elems(v)
    BY DEF Elems
  <2>. QED BY <2>1, <2>2 DEF ReceivedSet
<1>. HIDE DEF v, keep, old, new, G
<1>5. \A n \in 1 .. Len(v) : v[n] \in W <=> n \notin keep
  <2>. SUFFICES ASSUME NEW n \in 1 .. Len(v) PROVE v[n] \in W <=> n \notin keep
    OBVIOUS
  <2>1. v[n].cellId \in new
    BY <1>4
  <2>2. v[n] \notin U
    BY <1>3, <2>1 DEF old
  <2>. QED BY <1>2, <2>2
<1>6. /\ \A c, g : [cellId |-> c, geom |-> g] \in Elems(t) <=>
              c \in new /\ g \in Elems(InCellBut(W, c, l))
      /\ DOMAIN G = {c \in new : InCellBut(W, c, l) # <<>>}
      /\ \A c \in DOMAIN G : G[c] = InCellBut(W, c, l)
  <2>1. \A n \in 1 .. Len(Received(r, l)) : Received(r, l)[n] \in W <=> n \notin keep
    BY <1>5 DEF v
  <2>2. Matches(t, W, r, l)
    BY <1>1, <2>1, GroupMatches
  <2>. QED BY <2>2 DEF Matches, new, G
<1>7. ASSUME NEW c \in old PROVE InCellBut(W, c, l) = InCellBut(U, c, l)
  <2>1. ASSUME NEW g
        PROVE  [cellId |-> c, geom |-> g] \in W <=> [cellId |-> c, geom |-> g] \in U
    <3>1. c \notin new
      BY <1>3
    <3>. DEFINE x == [cellId |-> c, geom |-> g]
    <3>2. x.cellId \notin new
      BY <3>1
    <3>. HIDE DEF x
    <3>3. x \in W <=> x \in U
      BY <1>2, <3>2
    <3>. QED BY <3>3 DEF x
  <2>. QED BY <2>1, InCellSame
<1>8. /\ DOMAIN map = {c \in old : InCellBut(U, c, l) # <<>>}
      /\ \A c \in DOMAIN map : map[c] = InCellBut(U, c, l)
  BY DEF Owned, old
<1>9. Insert(map, G) = Owned(W, r, round[r] + 1, l)
  <2>. DEFINE D == {c \in SoFar(r, round[r] + 1) : InCellBut(W, c, l) # <<>>}
  <2>1. DOMAIN map \cup DOMAIN G = D
    BY <1>3, <1>6, <1>7, <1>8
  <2>2. \A c \in D : (IF c \in DOMAIN map THEN map[c] ELSE G[c]) = InCellBut(W, c, l)
    BY <1>6, <1>7, <1>8, <2>1
  <2>3. Insert(map, G) = [c \in D |-> IF c \in DOMAIN map THEN map[c] ELSE G[c]]
    BY <2>1 DEF Insert
  <2>. HIDE DEF D
  <2>4. [c \in D |-> IF c \in DOMAIN map THEN map[c] ELSE G[c]] = [c \in D |-> InCellBut(W, c, l)]
    BY <2>2
  <2>. QED BY <2>3, <2>4 DEF D, Owned
<1>. QED BY <1>1, <1>6, <1>9 DEF Adds, ParsedAs, new, G

LEMMA InsertType ==
  ASSUME Chosen, NEW map, IsMap(map), NEW t \in Seq(Items)
  PROVE  IsMap(Insert(map, GroupByCell(t)))
<1>. DEFINE G == GroupByCell(t)
<1>1. /\ DOMAIN G = {x.cellId : x \in Elems(t)}
      /\ \A c \in DOMAIN G : G[c] \in Seq(Geoms) /\ Elems(G[c]) # {}
  BY GroupIs
<1>2. \A x \in Elems(t) : x.cellId \in Cells
  <2>1. \A x \in Elems(t) : x \in Items
    BY DEF Elems
  <2>. QED BY <2>1 DEF Items
<1>. HIDE DEF G
<1>3. \A c \in DOMAIN G : G[c] \in Seq(Geoms) \ {<<>>}
  BY <1>1, EmptyElems
<1>4. DOMAIN G \subseteq Cells
  BY <1>1, <1>2
<1>. QED BY <1>3, <1>4 DEF IsMap, Insert, G

(* The geometries of "multi" are counted once for each of their cells.     *)
LEMMA CountedOnce ==
  ASSUME NEW r, Receives(r), setup.manager = "multi", NEW t \in Seq(Items), Sorted(t, PackOrder),
         \A c, g : [cellId |-> c, geom |-> g] \in Elems(t) <=>
            c \in RoundCells(r, round[r]) /\ g \in Elems(InCellBut({}, c, 1)),
         IsFiniteSet(ItemsSoFar(r, round[r]))
  PROVE  /\ IsFiniteSet(ItemsSoFar(r, round[r] + 1)) /\ Len(t) \in Nat
         /\ Cardinality(ItemsSoFar(r, round[r] + 1)) =
              Cardinality(ItemsSoFar(r, round[r])) + Len(t)
<1>. DEFINE A == ItemsSoFar(r, round[r])  B == Elems(t)
<1>1. Chosen /\ r \in Ranks /\ round[r] \in 0 .. Rounds - 1
  BY DEF Receives
<1>2. /\ SoFar(r, round[r] + 1) = SoFar(r, round[r]) \cup RoundCells(r, round[r])
      /\ SoFar(r, round[r]) \cap RoundCells(r, round[r]) = {}
  BY <1>1, SoFarIs
<1>3. \A c : Elems(InCellBut({}, c, 1)) = CellGeoms(c, 1)
  <2>. SUFFICES ASSUME NEW c PROVE Elems(InCellBut({}, c, 1)) = CellGeoms(c, 1)
    OBVIOUS
  <2>. DEFINE U == {}
  <2>1. Elems(InCellBut(U, c, 1)) = {g \in CellGeoms(c, 1) : [cellId |-> c, geom |-> g] \notin U}
    <3>. HIDE DEF U
    <3>. QED BY <1>1, InCellIs
  <2>. QED BY <2>1
<1>4. B \subseteq Items
  BY DEF Elems
<1>5. ASSUME NEW x \in Items
      PROVE  x \in B <=> x.cellId \in RoundCells(r, round[r]) /\ x.geom \in CellGeoms(x.cellId, 1)
  <2>1. x = [cellId |-> x.cellId, geom |-> x.geom]
    BY DEF Items
  <2>. QED BY <1>3, <2>1
<1>6. ItemsSoFar(r, round[r] + 1) = A \cup B
  BY <1>2, <1>4, <1>5 DEF ItemsSoFar
<1>7. A \cap B = {}
  <2>1. \A x \in A : x \in Items /\ x.cellId \in SoFar(r, round[r])
    BY DEF ItemsSoFar
  <2>. QED BY <1>2, <1>5, <2>1
<1>8. IsFiniteSet(B) /\ Cardinality(B) = Len(t) /\ Len(t) \in Nat
  <2>1. Asymmetric(PackOrder)
    BY <1>1, Orders
  <2>. QED BY <2>1, SortedLen
<1>9. IsFiniteSet(A)
  OBVIOUS
<1>. HIDE DEF A, B
<1>10. /\ IsFiniteSet(A \cup B)
       /\ Cardinality(A \cup B) = Cardinality(A) + Cardinality(B) - Cardinality(A \cap B)
  BY <1>8, <1>9, FS_Union
<1>11. Cardinality(A \cap B) = 0 /\ Cardinality(A) \in Nat
  BY <1>7, <1>9, FS_EmptySet, FS_CardinalityType
<1>12. Cardinality(A \cup B) = Cardinality(A) + Len(t)
  BY <1>8, <1>10, <1>11
<1>. QED BY <1>6, <1>8, <1>10, <1>12 DEF A

LEMMA ParseData ==
  ASSUME NEW r, Receives(r), GotRound(r), NEW clean \in CleanChoices(r),
         NEW map, NEW U, NEW total, Data(map, U, total, r, round[r]),
         NEW pushed, \A l \in Layers : pushed[l] = ParseLayer(r, l, CleanOf(clean, l)),
         NEW map2, \A l \in Layers : map2[l] = Insert(map[l], GroupByCell(pushed[l])),
         NEW total2, total2 = IF setup.manager = "multi" THEN total + Len(pushed[1]) ELSE total
  PROVE  Data(map2, U \cup NotRead(r, clean), total2, r, round[r] + 1)
<1>. DEFINE W == U \cup NotRead(r, clean)  rd == round[r]
<1>1. Chosen /\ r \in Ranks /\ rd \in 0 .. Rounds - 1 /\ Rounds \in Nat
  BY ChosenIs DEF Receives
<1>2. rd + 1 \in 0 .. Rounds
  BY <1>1
<1>3. /\ U \subseteq Items /\ \A x \in U : x.cellId \in SoFar(r, rd)
      /\ ~MayThrow => U = {}
      /\ \A l \in Layers : IsMap(map[l])
      /\ ReadsInPlace => \A l \in Layers : map[l] = Owned(U, r, rd, l)
      /\ total \in Nat
      /\ ReadsInPlace /\ setup.manager = "multi" =>
           IsFiniteSet(ItemsSoFar(r, rd)) /\ total = Cardinality(ItemsSoFar(r, rd))
  BY DEF Data
<1>4. W \subseteq Items /\ \A x \in W : x.cellId \in SoFar(r, rd + 1)
  <2>1. SoFar(r, rd + 1) = SoFar(r, rd) \cup RoundCells(r, rd)
    BY <1>1, SoFarIs
  <2>2. /\ NotRead(r, clean) \subseteq Items
        /\ \A x \in NotRead(r, clean) : x.cellId \in RoundCells(r, rd)
    BY NotReadIs
  <2>. QED BY <1>3, <2>1, <2>2
<1>5. ~MayThrow => W = {}
  <2>1. ~MayThrow => NotRead(r, clean) = {}
    BY NotReadIs
  <2>. QED BY <1>3, <2>1
<1>6. \A l \in Layers : pushed[l] \in Seq(Items) /\ pushed[l] = ParseLayer(r, l, CleanOf(clean, l))
  BY ParseLayerType
<1>7. \A l \in Layers : map2[l] = Insert(map[l], GroupByCell(pushed[l]))
  OBVIOUS
<1>8. \A l \in Layers : IsMap(map2[l])
  BY <1>1, <1>3, <1>6, <1>7, InsertType
<1>9. ASSUME ReadsInPlace, NEW l \in Layers
      PROVE  /\ map2[l] = Owned(W, r, rd + 1, l) /\ Sorted(pushed[l], PackOrder)
             /\ \A c, g : [cellId |-> c, geom |-> g] \in Elems(pushed[l]) <=>
                  c \in RoundCells(r, rd) /\ g \in Elems(InCellBut(W, c, l))
  <2>. DEFINE m == map[l]  t == pushed[l]
  <2>1. m = Owned(U, r, rd, l) /\ t = ParseLayer(r, l, CleanOf(clean, l))
    BY <1>3, <1>6, <1>9
  <2>. HIDE DEF m, t
  <2>2. /\ Insert(m, GroupByCell(t)) = Owned(W, r, rd + 1, l)
        /\ Sorted(t, PackOrder)
        /\ \A c, g : [cellId |-> c, geom |-> g] \in Elems(t) <=>
              c \in RoundCells(r, rd) /\ g \in Elems(InCellBut(W, c, l))
    <3>. HIDE DEF W
    <3>1. W = U \cup NotRead(r, clean)
      BY DEF W
    <3>2. U \subseteq Items /\ \A x \in U : x.cellId \in SoFar(r, round[r])
      BY <1>3
    <3>3. Adds(m, t, W, r, l)
      BY <1>9, <2>1, <3>1, <3>2, ParsedMaps
    <3>. QED BY <3>3 DEF Adds
  <2>. QED BY <1>7, <2>2 DEF m, t
<1>10. total2 \in Nat
  <2>1. CASE setup.manager = "multi"
    <3>1. 1 \in Layers
      BY <2>1 DEF Layers
    <3>2. Len(pushed[1]) \in Nat
      BY <1>6, <3>1
    <3>. QED BY <1>3, <2>1, <3>2
  <2>. QED BY <1>3, <2>1
<1>11. ASSUME ReadsInPlace, setup.manager = "multi"
       PROVE  /\ IsFiniteSet(ItemsSoFar(r, rd + 1))
              /\ total2 = Cardinality(ItemsSoFar(r, rd + 1))
  <2>1. 1 \in Layers
    BY <1>11 DEF Layers
  <2>2. W = {}
    <3>1. ~MayThrow
      BY <1>11 DEF ReadsInPlace, MayThrow
    <3>. QED BY <1>5, <3>1
  <2>. DEFINE t == pushed[1]
  <2>3. /\ t \in Seq(Items) /\ Sorted(t, PackOrder)
        /\ \A c, g : [cellId |-> c, geom |-> g] \in Elems(t) <=>
              c \in RoundCells(r, rd) /\ g \in Elems(InCellBut({}, c, 1))
    BY <1>6, <1>9, <1>11, <2>1, <2>2
  <2>. HIDE DEF t
  <2>4. /\ IsFiniteSet(ItemsSoFar(r, rd + 1))
        /\ Cardinality(ItemsSoFar(r, rd + 1)) = Cardinality(ItemsSoFar(r, rd)) + Len(t)
    BY <1>3, <1>11, <2>3, CountedOnce
  <2>. QED BY <1>3, <1>11, <2>4 DEF t
<1>. HIDE DEF W, rd
<1>. QED BY <1>2, <1>4, <1>5, <1>8, <1>9, <1>10, <1>11 DEF Data, W, rd

-----------------------------------------------------------------------------
(* What has been sent is what was packed; what has been received is what   *)
(* was sent; and each rank has what its rounds so far give it.             *)
ShapeInv ==
  /\ input \in Inputs
  /\ pc \in [Ranks -> Calls \cup {"parse", "done", "abort"}]
  /\ DOMAIN got = Ranks /\ DOMAIN geomMap = Ranks
  /\ DOMAIN totalGeoms = Ranks /\ DOMAIN unread = Ranks
SentInv ==
  \A r \in Ranks : \A k \in 1 .. Len(calls[r]) : \A p \in Ranks :
    calls[r][k].to[p] = IF k <= Rounds * N THEN Sent(r, p, CallAt(k), RoundAt(k)) ELSE totalGeoms[r]
GotInv ==
  \A r \in Ranks :
    /\ \A i \in 1 .. N : pc[r] = S[i] => HasGot(got[r], r, round[r], i - 1)
    /\ pc[r] = "parse" => HasGot(got[r], r, round[r], N)
    /\ pc[r] = "done" /\ setup.manager = "multi" =>
         /\ got[r].allreduce = [q \in Ranks |-> totalGeoms[q]]
         /\ \A q \in Ranks : round[q] = Rounds
OwnInv ==
  \A r \in Ranks : Data(geomMap[r], unread[r], totalGeoms[r], r, round[r])
AbortInv == \A r \in Ranks : pc[r] = "abort" => ~EnoughCells
ShuffleInv == CallsInv /\ ShapeInv /\ SentInv /\ GotInv /\ OwnInv /\ AbortInv

LEMMA InitData == Init => ShuffleInv
<1>. SUFFICES ASSUME Init PROVE ShuffleInv
  OBVIOUS
<1>1. CallsInv
  BY InitCalls
<1>2. /\ Chosen /\ Rounds \in Nat \ {0} /\ N \in {2, 3, 4, 6} /\ S[1] = "mbrCounts"
      /\ \A i, j \in 1 .. N : S[i] = S[j] => i = j
  BY ClassCalls DEF Init, Chosen
<1>3. ShapeInv
  <2>1. "mbrCounts" \in Calls
    BY DEF Calls
  <2>. QED BY <2>1 DEF Init, ShapeInv
<1>4. SentInv
  BY DEF Init, SentInv
<1>5. \A r \in Ranks : pc[r] = "mbrCounts"
  BY DEF Init
<1>6. GotInv
  <2>1. ASSUME NEW r \in Ranks, NEW i \in 1 .. N, pc[r] = S[i]
        PROVE  HasGot(got[r], r, round[r], i - 1)
    <3>1. i = 1
      BY <1>2, <1>5, <2>1
    <3>. QED BY <3>1 DEF HasGot
  <2>. QED BY <1>5, <2>1 DEF GotInv
<1>7. OwnInv
  <2>. SUFFICES ASSUME NEW r \in Ranks
                PROVE  Data(geomMap[r], unread[r], totalGeoms[r], r, round[r])
    BY DEF OwnInv
  <2>1. SoFar(r, 0) = {}
    BY <1>2, SoFarIs
  <2>2. /\ \A l \in Layers : geomMap[r][l] = <<>>
        /\ unread[r] = {} /\ totalGeoms[r] = 0 /\ round[r] = 0
    BY DEF Init
  <2>3. IsMap(<<>>)
    BY DEF IsMap
  <2>4. \A l : Owned({}, r, 0, l) = <<>>
    <3>. SUFFICES ASSUME NEW l PROVE Owned({}, r, 0, l) = <<>>
      OBVIOUS
    <3>1. DOMAIN Owned({}, r, 0, l) = {}
      BY <2>1 DEF Owned
    <3>. QED BY <2>1 DEF Owned
  <2>5. ItemsSoFar(r, 0) = {} /\ IsFiniteSet({}) /\ Cardinality({}) = 0
    BY <2>1, FS_EmptySet DEF ItemsSoFar
  <2>6. 0 \in 0 .. Rounds
    BY <1>2
  <2>. DEFINE m == geomMap[r]
  <2>7. \A l \in Layers : IsMap(m[l]) /\ m[l] = Owned({}, r, 0, l)
    BY <2>2, <2>3, <2>4
  <2>. HIDE DEF m
  <2>8. Data(m, {}, 0, r, 0)
    <3>. DEFINE E == {}
    <3>1. /\ E \subseteq Items /\ E = {} /\ \A x \in E : x.cellId \in SoFar(r, 0)
          /\ \A l \in Layers : IsMap(m[l]) /\ m[l] = Owned(E, r, 0, l)
          /\ IsFiniteSet(ItemsSoFar(r, 0)) /\ Cardinality(ItemsSoFar(r, 0)) = 0
      BY <2>5, <2>7
    <3>. HIDE DEF E
    <3>2. Data(m, E, 0, r, 0)
      BY <2>6, <3>1 DEF Data
    <3>. QED BY <3>2 DEF E
  <2>. QED BY <2>2, <2>8 DEF m
<1>8. AbortInv
  BY <1>5 DEF AbortInv
<1>. QED BY <1>1, <1>3, <1>4, <1>6, <1>7, <1>8 DEF ShuffleInv

LEMMA PayloadIs ==
  ASSUME NEW r, pc[r] \in Calls, NEW p \in Ranks
  PROVE  /\ pc[r] # "allreduce" => Payload(r)[p] = Sent(r, p, pc[r], round[r])
         /\ pc[r] = "allreduce" => Payload(r)[p] = totalGeoms[r]
<1>1. /\ "allreduce" \notin MbrCalls \cup TextCalls /\ MbrCalls \cap TextCalls = {}
      /\ "mbrCounts" \notin MbrCalls \cup TextCalls /\ "geomCounts" \notin MbrCalls \cup TextCalls
  BY DEF MbrCalls, TextCalls
<1>2. pc[r] \in MbrCalls \cup TextCalls \cup {"mbrCounts", "geomCounts", "allreduce"}
  BY DEF Calls
<1>3. CASE pc[r] = "mbrCounts"
  BY <1>1, <1>3 DEF Payload, Sent, BoxCounts
<1>4. CASE pc[r] \in MbrCalls
  BY <1>1, <1>4 DEF Payload, Sent
<1>5. CASE pc[r] = "geomCounts"
  BY <1>1, <1>5 DEF Payload, Sent, UnitCounts
<1>6. CASE pc[r] \in TextCalls
  BY <1>1, <1>6 DEF Payload, Sent
<1>7. CASE pc[r] = "allreduce"
  BY <1>1, <1>7 DEF Payload
<1>. QED BY <1>2, <1>3, <1>4, <1>5, <1>6, <1>7

LEMMA EnterData ==
  ASSUME ShuffleInv, NEW r \in Ranks, Enter(r) PROVE ShuffleInv'
<1>. DEFINE e == [call |-> pc[r], round |-> round[r], to |-> Payload(r)]
<1>1. /\ pc[r] \in Calls /\ ~inCall[r] /\ calls'[r] = Append(calls[r], e)
      /\ UNCHANGED <<setup, input, round, pc, got, geomMap, totalGeoms, unread>>
      /\ \A q \in Ranks \ {r} : calls'[q] = calls[q]
  BY DEF Enter, ShuffleInv, CallsInv
<1>2. CallsInv /\ CallsInv'
  BY EnterCalls DEF ShuffleInv
<1>3. /\ S' = S /\ N' = N /\ Rounds' = Rounds
      /\ \A q, p, call, rd : Sent(q, p, call, rd)' = Sent(q, p, call, rd)
      /\ \A g, p, rd, m : HasGot(g, p, rd, m)' <=> HasGot(g, p, rd, m)
      /\ \A map, U, total, p, rd : Data(map, U, total, p, rd)' <=> Data(map, U, total, p, rd)
      /\ (EnoughCells' <=> EnoughCells)
  BY <1>1, SentStays, DataStays
<1>4. ShapeInv'
  BY <1>1 DEF ShuffleInv, ShapeInv
<1>5. GotInv'
  BY <1>1, <1>3 DEF ShuffleInv, GotInv
<1>6. OwnInv'
  BY <1>1, <1>3 DEF ShuffleInv, OwnInv
<1>7. AbortInv'
  BY <1>1, <1>3 DEF ShuffleInv, AbortInv
<1>8. SentInv'
  <2>0. \A k : CallAt(k)' = CallAt(k) /\ RoundAt(k)' = RoundAt(k)
    BY <1>3 DEF CallAt, RoundAt
  <2>1. PICK M : calls[r] \in Seq(M)
    BY <1>2 DEF CallsInv
  <2>2. PICK n \in Nat : CallsLeft(r, n) /\ Len(calls[r]) = n
    BY <1>1, <1>2 DEF CallsInv
  <2>3. /\ CallAt(n + 1) = pc[r] /\ RoundAt(n + 1) = round[r]
        /\ pc[r] # "allreduce" => round[r] < Rounds /\ n < Rounds * N
    BY <1>1, <1>2, <2>2, DueCall DEF CallsInv
  <2>4. pc[r] = "allreduce" => n = Rounds * N
    <3>1. \A i \in 1 .. N : S[i] # "allreduce"
      BY <1>2, ClassCalls DEF CallsInv
    <3>. QED BY <2>2, <3>1 DEF CallsLeft
  <2>5. Rounds * N \in Nat
    BY <1>2, ClassCalls DEF CallsInv
  <2>6. \A p \in Ranks : e.to[p] = IF n + 1 <= Rounds * N THEN Sent(r, p, pc[r], round[r])
                                   ELSE totalGeoms[r]
    BY <1>1, <2>3, <2>4, <2>5, PayloadIs
  <2>. HIDE DEF e
  <2>7. /\ Len(calls'[r]) = n + 1 /\ calls'[r][n + 1] = e
        /\ \A k \in 1 .. n : calls'[r][k] = calls[r][k]
    BY <1>1, <2>1, <2>2, AppendCall
  <2>8. ASSUME NEW k \in 1 .. n + 1, NEW p \in Ranks
        PROVE  calls'[r][k].to[p] =
                 IF k <= Rounds * N THEN Sent(r, p, CallAt(k), RoundAt(k)) ELSE totalGeoms[r]
    <3>1. CASE k = n + 1
      BY <2>3, <2>6, <2>7, <3>1
    <3>2. CASE k \in 1 .. n
      <4>1. calls[r][k].to[p] =
              IF k <= Rounds * N THEN Sent(r, p, CallAt(k), RoundAt(k)) ELSE totalGeoms[r]
        BY <2>2, <3>2 DEF ShuffleInv, SentInv
      <4>. QED BY <2>7, <3>2, <4>1
    <3>. QED BY <3>1, <3>2
  <2>9. ASSUME NEW q \in Ranks, NEW k \in 1 .. Len(calls'[q]), NEW p \in Ranks
        PROVE  calls'[q][k].to[p] =
                 IF k <= Rounds * N THEN Sent(q, p, CallAt(k), RoundAt(k)) ELSE totalGeoms[q]
    <3>1. CASE q = r
      BY <2>7, <2>8, <3>1
    <3>2. CASE q # r
      <4>1. calls'[q] = calls[q]
        BY <1>1, <3>2
      <4>. QED BY <4>1 DEF ShuffleInv, SentInv
    <3>. QED BY <3>1, <3>2
  <2>10. \A q \in Ranks : totalGeoms'[q] = totalGeoms[q]
    BY <1>1
  <2>. QED BY <1>3, <2>0, <2>9, <2>10 DEF SentInv
<1>. QED BY <1>2, <1>4, <1>5, <1>6, <1>7, <1>8 DEF ShuffleInv

LEMMA RoundBelow ==
  ASSUME NEW a \in Nat, NEW b \in Nat, NEW d \in Nat, a < b
  PROVE  a * d \in Nat /\ b * d \in Nat /\ a * d + d <= b * d
<1>1. a + 1 \in Nat /\ a + 1 <= b
  OBVIOUS
<1>2. (a + 1) * d <= b * d
  BY <1>1, MulMonotone
<1>3. (a + 1) * d = a * d + d
  OBVIOUS
<1>. QED BY <1>2, <1>3

(* What a rank leaves a call of a round with is what was sent to it, also  *)
(* from those that have not entered the call yet.                          *)
LEMMA LeaveGets ==
  ASSUME ShuffleInv, NEW r \in Ranks, inCall[r], NEW i \in 1 .. N, pc[r] = S[i],
         NEW q \in Ranks, Expects(r, q) => HasEntered(q, Len(calls[r]))
  PROVE  (IF HasEntered(q, Len(calls[r])) THEN calls[q][Len(calls[r])].to[r]
          ELSE IF pc[r] \in TextCalls THEN {} ELSE <<>>) = Sent(q, r, S[i], round[r])
<1>. DEFINE k == Len(calls[r])
<1>1. /\ setup \in Setups /\ Chosen /\ round[r] \in Nat /\ N \in {2, 3, 4, 6} /\ Rounds \in Nat \ {0}
      /\ pc[r] \in Calls /\ pc[r] # "allreduce"
  BY ClassCalls DEF ShuffleInv, CallsInv, ShapeInv, Chosen
<1>2. PICK n \in Nat : CallsLeft(r, n) /\ k = n + 1
  BY DEF ShuffleInv, CallsInv
<1>3. CallAt(k) = S[i] /\ RoundAt(k) = round[r] /\ round[r] < Rounds /\ n < Rounds * N
  BY <1>1, <1>2, DueCall
<1>4. k \in Nat \ {0} /\ k <= Rounds * N
  <2>1. Rounds * N \in Nat
    BY <1>1
  <2>. QED BY <1>2, <1>3, <2>1
<1>5. HasGot(got[r], r, round[r], i - 1)
  BY DEF ShuffleInv, GotInv
<1>. HIDE DEF k
<1>6. CASE HasEntered(q, k)
  <2>1. k \in 1 .. Len(calls[q])
    <3>1. PICK M : calls[q] \in Seq(M)
      BY DEF ShuffleInv, CallsInv
    <3>2. Len(calls[q]) \in Nat
      BY <3>1
    <3>. QED BY <1>4, <1>6, <3>2 DEF HasEntered
  <2>2. calls[q][k].to[r] = Sent(q, r, CallAt(k), RoundAt(k))
    BY <1>4, <2>1 DEF ShuffleInv, SentInv
  <2>. QED BY <1>3, <1>6, <2>2 DEF k
<1>7. CASE ~HasEntered(q, k)
  <2>1. ~Expects(r, q)
    BY <1>7 DEF k
  <2>2. round[r] \in 0 .. Rounds - 1
    BY <1>1, <1>3
  <2>3. MbrCalls \cap TextCalls = {} /\ "mbrCounts" \notin MbrCalls \cup TextCalls
        /\ "geomCounts" \notin MbrCalls \cup TextCalls
    BY DEF MbrCalls, TextCalls
  <2>4. CASE pc[r] \in MbrCalls
    <3>. DEFINE l == LayerOf(S[i])
    <3>1. i > 1 /\ l \in Layers
      BY <1>1, <2>4, CallPlaces
    <3>2. 1 \in 1 .. i - 1 /\ S[1] = "mbrCounts"
      BY <1>1, <3>1, ClassCalls
    <3>3. got[r]["mbrCounts"] = SentTo(r, "mbrCounts", round[r])
      BY <1>5, <3>2 DEF HasGot
    <3>4. Sent(q, r, "mbrCounts", round[r]) = BoxCounts(q, r, round[r])
      BY <2>3 DEF Sent
    <3>5. got[r].mbrCounts[q][l] = Len(Packed(q, r, round[r], l))
      BY <3>1, <3>3, <3>4 DEF SentTo, BoxCounts
    <3>6. ~(got[r].mbrCounts[q][l] > 0)
      BY <2>1, <2>3, <2>4 DEF Expects
    <3>. HIDE DEF l
    <3>7. Len(Packed(q, r, round[r], l)) = 0
      <4>1. Len(Packed(q, r, round[r], l)) \in Nat
        BY <1>1, <2>2, NothingSent
      <4>. QED BY <3>5, <3>6, <4>1
    <3>8. Boxes(q, r, round[r], l) = <<>>
      BY <1>1, <2>2, <3>7, NothingSent
    <3>9. Sent(q, r, S[i], round[r]) = Boxes(q, r, round[r], l)
      BY <2>3, <2>4 DEF Sent, l
    <3>. QED BY <1>7, <2>3, <2>4, <3>8, <3>9 DEF k
  <2>5. CASE pc[r] \in TextCalls
    <3>. DEFINE l == LayerOf(S[i])
    <3>1. l \in Layers /\ \E j \in 1 .. i - 1 : S[j] = "geomCounts"
      BY <1>1, <2>5, CallPlaces
    <3>3. got[r]["geomCounts"] = SentTo(r, "geomCounts", round[r])
      BY <1>5, <3>1 DEF HasGot
    <3>4. Sent(q, r, "geomCounts", round[r]) = UnitCounts(q, r, round[r])
      BY <2>3 DEF Sent
    <3>5. got[r].geomCounts[q][l] = Units(TextLen(q, r, round[r], l))
      BY <3>1, <3>3, <3>4 DEF SentTo, UnitCounts
    <3>6. ~(got[r].geomCounts[q][l] > 0)
      BY <2>1, <2>3, <2>5 DEF Expects
    <3>. HIDE DEF l
    <3>7. Units(TextLen(q, r, round[r], l)) = 0
      <4>1. Units(TextLen(q, r, round[r], l)) \in Nat
        BY <1>1, <2>2, NothingSent
      <4>. QED BY <3>5, <3>6, <4>1
    <3>8. Texts(q, r, round[r], l) = {}
      BY <1>1, <2>2, <3>7, NothingSent
    <3>9. Sent(q, r, S[i], round[r]) = Texts(q, r, round[r], l)
      BY <2>3, <2>5 DEF Sent, l
    <3>. QED BY <1>7, <2>5, <3>8, <3>9 DEF k
  <2>6. CASE pc[r] \notin MbrCalls \cup TextCalls
    BY <2>1, <2>6 DEF Expects
  <2>. QED BY <2>4, <2>5, <2>6
<1>. QED BY <1>6, <1>7

(* In the reduction, each rank has sent its total, which is final.         *)
LEMMA LeaveTotals ==
  ASSUME ShuffleInv, NEW r \in Ranks, inCall[r], pc[r] = "allreduce",
         NEW q \in Ranks, Expects(r, q) => HasEntered(q, Len(calls[r]))
  PROVE  /\ HasEntered(q, Len(calls[r])) /\ calls[q][Len(calls[r])].to[r] = totalGeoms[q]
         /\ round[q] = Rounds
<1>. DEFINE k == Len(calls[r])
<1>1. /\ N \in {2, 3, 4, 6} /\ Rounds \in Nat \ {0} /\ setup \in Setups
      /\ \A i \in 1 .. N : S[i] # "allreduce"
  BY ClassCalls DEF ShuffleInv, CallsInv
<1>2. PICK n \in Nat : CallsLeft(r, n) /\ k = n + 1
  BY DEF ShuffleInv, CallsInv
<1>3. n = Rounds * N /\ Rounds * N \in Nat
  BY <1>1, <1>2 DEF CallsLeft
<1>4. HasEntered(q, k)
  <2>1. pc[r] \notin MbrCalls \cup TextCalls
    BY DEF MbrCalls, TextCalls
  <2>. QED BY <2>1 DEF Expects
<1>5. PICK m \in Nat : CallsLeft(q, m) /\ Len(calls[q]) = IF inCall[q] THEN m + 1 ELSE m
  BY DEF ShuffleInv, CallsInv
<1>. HIDE DEF k
<1>6. k \in 1 .. Len(calls[q]) /\ ~(k <= Rounds * N) /\ m >= Rounds * N
  BY <1>2, <1>3, <1>4, <1>5 DEF HasEntered
<1>7. calls[q][k].to[r] = totalGeoms[q]
  BY <1>6 DEF ShuffleInv, SentInv
<1>8. round[q] = Rounds
  <2>1. ASSUME round[q] < Rounds, NEW i \in 1 .. N, m = round[q] * N + i - 1 PROVE FALSE
    <3>1. round[q] \in Nat
      BY DEF ShuffleInv, CallsInv
    <3>3. round[q] * N \in Nat /\ round[q] * N + N <= Rounds * N
      BY <1>1, <2>1, <3>1, RoundBelow
    <3>. QED BY SMTT(30), <1>1, <1>6, <2>1, <3>3
  <2>2. ASSUME pc[q] = "parse", round[q] < Rounds, m = round[q] * N + N PROVE round[q] = Rounds
    (* such a rank has made no call behind its round *)
    <3>1. ~inCall[q]
      <4>1. "parse" \notin Calls
        BY DEF Calls, MbrCalls, TextCalls
      <4>. QED BY <2>2, <4>1 DEF ShuffleInv, CallsInv
    <3>2. Rounds * N < m
      BY <1>2, <1>3, <1>4, <1>5, <3>1 DEF HasEntered
    <3>3. round[q] \in Nat
      BY DEF ShuffleInv, CallsInv
    <3>5. round[q] * N \in Nat /\ round[q] * N + N <= Rounds * N
      BY <1>1, <2>2, <3>3, RoundBelow
    <3>. QED BY <1>1, <2>2, <3>2, <3>5
  <2>3. ASSUME m < Rounds * N PROVE FALSE
    BY <1>3, <1>6, <2>3
  <2>. QED BY <1>5, <2>1, <2>2, <2>3 DEF CallsLeft
<1>. QED BY <1>4, <1>7, <1>8 DEF k

LEMMA LeaveData ==
  ASSUME ShuffleInv, NEW r \in Ranks, Leave(r) PROVE ShuffleInv'
<1>. DEFINE k == Len(calls[r])
            received == [q \in Ranks |->
                           IF HasEntered(q, k) THEN calls[q][k].to[r]
                           ELSE IF pc[r] \in TextCalls THEN {} ELSE <<>>]
<1>1. /\ inCall[r] /\ \A q \in Ranks : Expects(r, q) => HasEntered(q, k)
      /\ got' = [got EXCEPT ![r] = Put(got[r], pc[r], received)]
      /\ pc' = [pc EXCEPT ![r] = NextCall(pc[r])]
      /\ UNCHANGED <<setup, input, round, calls, geomMap, totalGeoms, unread>>
  BY DEF Leave, AfterCall
<1>. HIDE DEF received
<1>2. CallsInv /\ CallsInv' /\ setup \in Setups
  BY LeaveCalls DEF ShuffleInv, CallsInv
<1>3. /\ S' = S /\ N' = N /\ Rounds' = Rounds
      /\ \A q, p, call, rd : Sent(q, p, call, rd)' = Sent(q, p, call, rd)
      /\ \A g, p, rd, m : HasGot(g, p, rd, m)' <=> HasGot(g, p, rd, m)
      /\ \A map, U, total, p, rd : Data(map, U, total, p, rd)' <=> Data(map, U, total, p, rd)
      /\ (EnoughCells' <=> EnoughCells)
  BY <1>1, SentStays, DataStays
<1>4. /\ pc[r] \in Calls /\ DOMAIN got = Ranks /\ DOMAIN pc = Ranks
      /\ pc'[r] = NextCall(pc[r]) /\ got'[r] = Put(got[r], pc[r], received)
      /\ \A q \in Ranks \ {r} : pc'[q] = pc[q] /\ got'[q] = got[q]
  BY <1>1, <1>2 DEF ShuffleInv, ShapeInv, CallsInv
<1>5. /\ N \in {2, 3, 4, 6} /\ \A i \in 1 .. N : S[i] \in Calls /\ S[i] # "allreduce"
      /\ \A i, j \in 1 .. N : S[i] = S[j] => i = j
  BY <1>2, ClassCalls
<1>. DEFINE Moved ==
              /\ pc'[r] \in Calls \cup {"parse", "done"}
              /\ \A j \in 1 .. N : pc'[r] = S[j] => HasGot(got'[r], r, round[r], j - 1)
              /\ pc'[r] = "parse" => HasGot(got'[r], r, round[r], N)
              /\ pc'[r] = "done" => /\ got'[r].allreduce = [q \in Ranks |-> totalGeoms[q]]
                                    /\ \A q \in Ranks : round[q] = Rounds
<1>6. ASSUME NEW i \in 1 .. N, pc[r] = S[i] PROVE Moved
  <2>1. pc[r] = S[i]
    BY <1>6
  <2>2. received = SentTo(r, S[i], round[r])
    <3>1. \A q \in Ranks : (IF HasEntered(q, k) THEN calls[q][k].to[r]
                            ELSE IF pc[r] \in TextCalls THEN {} ELSE <<>>) = Sent(q, r, S[i], round[r])
      BY <1>1, <2>1, LeaveGets
    <3>. QED BY <3>1 DEF received, SentTo
  <2>3. HasGot(got'[r], r, round[r], i)
    <3>1. HasGot(got[r], r, round[r], i - 1)
      BY <2>1 DEF ShuffleInv, GotInv
    <3>2. ASSUME NEW j \in 1 .. i
          PROVE  S[j] \in DOMAIN got'[r] /\ got'[r][S[j]] = SentTo(r, S[j], round[r])
      <4>1. CASE j = i
        BY <1>4, <2>1, <2>2, <4>1 DEF Put
      <4>2. CASE j # i
        <5>1. j \in 1 .. i - 1 /\ S[j] # S[i]
          BY <1>5, <4>2
        <5>. QED BY <1>4, <2>1, <3>1, <5>1 DEF Put, HasGot
      <4>. QED BY <4>1, <4>2
    <3>. QED BY <3>2 DEF HasGot
  <2>4. pc'[r] = IF i = N THEN "parse" ELSE S[i + 1]
    BY <1>2, <1>4, <2>1, NextCallIs
  <2>5. pc'[r] \in Calls \cup {"parse"} /\ pc'[r] \notin {"done", "abort"}
    <3>1. "done" \notin Calls /\ "abort" \notin Calls
      BY DEF Calls, MbrCalls, TextCalls
    <3>2. i # N => i + 1 \in 1 .. N
      BY <1>5
    <3>. QED BY <1>5, <2>4, <3>1, <3>2
  <2>6. /\ \A j \in 1 .. N : pc'[r] = S[j] => HasGot(got'[r], r, round[r], j - 1)
        /\ pc'[r] = "parse" => HasGot(got'[r], r, round[r], N)
    <3>1. \A j \in 1 .. N : S[j] # "parse"
      <4>1. "parse" \notin Calls
        BY DEF Calls, MbrCalls, TextCalls
      <4>. QED BY <1>5, <4>1
    <3>2. CASE i = N
      BY <2>3, <2>4, <3>1, <3>2
    <3>3. CASE i # N
      <4>1. i + 1 \in 1 .. N /\ (i + 1) - 1 = i /\ pc'[r] = S[i + 1]
        BY <1>5, <2>4, <3>3
      <4>2. \A j \in 1 .. N : pc'[r] = S[j] => j - 1 = i
        BY <1>5, <4>1
      <4>3. pc'[r] # "parse"
        BY <3>1, <4>1
      <4>. QED BY <2>3, <4>2, <4>3
    <3>. QED BY <3>2, <3>3
  <2>. QED BY <2>5, <2>6
<1>7. ASSUME pc[r] = "allreduce" PROVE Moved
  <2>1. Last(S) = S[N] /\ Last(S) # "allreduce"
    BY <1>5 DEF Last, N
  <2>2. pc'[r] = "done"
    BY <1>4, <1>7, <2>1 DEF NextCall, S
  <2>3. received = [q \in Ranks |-> totalGeoms[q]] /\ \A q \in Ranks : round[q] = Rounds
    <3>1. \A q \in Ranks : /\ HasEntered(q, k) /\ calls[q][k].to[r] = totalGeoms[q]
                           /\ round[q] = Rounds
      BY <1>1, <1>7, LeaveTotals
    <3>. QED BY <3>1 DEF received
  <2>4. got'[r].allreduce = received
    BY <1>4, <1>7 DEF Put
  <2>5. "done" \notin Calls
    BY DEF Calls, MbrCalls, TextCalls
  <2>. QED BY <1>5, <2>2, <2>3, <2>4, <2>5
<1>8. Moved
  <2>1. PICK n \in Nat : CallsLeft(r, n)
    BY <1>2 DEF CallsInv
  <2>2. pc[r] \notin {"parse", "done", "abort"}
    BY <1>4 DEF Calls, MbrCalls, TextCalls
  <2>. QED BY <1>6, <1>7, <2>1, <2>2 DEF CallsLeft
<1>. HIDE DEF k
<1>9. ShapeInv'
  <2>1. pc' \in [Ranks -> Calls \cup {"parse", "done", "abort"}]
    BY <1>1, <1>8 DEF ShuffleInv, ShapeInv
  <2>2. DOMAIN got' = Ranks
    BY <1>1 DEF ShuffleInv, ShapeInv
  <2>. QED BY <1>1, <2>1, <2>2 DEF ShuffleInv, ShapeInv
<1>10. SentInv'
  <2>1. \A j : CallAt(j)' = CallAt(j) /\ RoundAt(j)' = RoundAt(j)
    BY <1>3 DEF CallAt, RoundAt
  <2>. QED BY <1>1, <1>3, <2>1 DEF ShuffleInv, SentInv
<1>11. GotInv'
  <2>1. ASSUME NEW q \in Ranks
        PROVE  /\ \A j \in 1 .. N : pc'[q] = S[j] => HasGot(got'[q], q, round[q], j - 1)
               /\ pc'[q] = "parse" => HasGot(got'[q], q, round[q], N)
               /\ pc'[q] = "done" /\ setup.manager = "multi" =>
                    /\ got'[q].allreduce = [p \in Ranks |-> totalGeoms[p]]
                    /\ \A p \in Ranks : round[p] = Rounds
    <3>1. CASE q = r
      BY <1>8, <3>1
    <3>2. CASE q # r
      <4>1. pc'[q] = pc[q] /\ got'[q] = got[q]
        BY <1>4, <3>2
      <4>. QED BY <4>1 DEF ShuffleInv, GotInv
    <3>. QED BY <3>1, <3>2
  <2>. QED BY <1>1, <1>3, <2>1 DEF GotInv
<1>12. OwnInv'
  BY <1>1, <1>3 DEF ShuffleInv, OwnInv
<1>13. AbortInv'
  <2>1. "abort" \notin Calls
    BY DEF Calls, MbrCalls, TextCalls
  <2>. QED BY <1>3, <1>4, <1>8, <2>1 DEF ShuffleInv, AbortInv
<1>. QED BY <1>2, <1>9, <1>10, <1>11, <1>12, <1>13 DEF ShuffleInv

LEMMA ParseRoundData ==
  ASSUME ShuffleInv, NEW r \in Ranks, ParseRound(r) PROVE ShuffleInv'
<1>1. CallsInv /\ CallsInv' /\ setup \in Setups /\ Chosen /\ round \in [Ranks -> Nat]
  BY ParseCalls DEF ShuffleInv, CallsInv, ShapeInv, Chosen
<1>2. /\ pc[r] = "parse" /\ UNCHANGED <<setup, input, inCall, calls, got>>
      /\ round'[r] = round[r] + 1 /\ \A q \in Ranks \ {r} : round'[q] = round[q]
      /\ pc' = [pc EXCEPT ![r] = AfterRound(r)]
  BY <1>1 DEF ParseRound
<1>3. PICK clean \in CleanChoices(r) :
        \E pushed \in {[l \in Layers |-> ParseLayer(r, l, CleanOf(clean, l))]} :
           /\ geomMap' = [geomMap EXCEPT ![r] =
                            [l \in Layers |-> Insert(geomMap[r][l], GroupByCell(pushed[l]))]]
           /\ totalGeoms' = [totalGeoms EXCEPT ![r] =
                IF setup.manager = "multi" THEN totalGeoms[r] + Len(pushed[1]) ELSE totalGeoms[r]]
           /\ unread' = [unread EXCEPT ![r] = unread[r] \cup NotRead(r, clean)]
  BY DEF ParseRound, CleanChoices, CleanOf, NotRead
<1>4. PICK pushed :
        /\ pushed = [l \in Layers |-> ParseLayer(r, l, CleanOf(clean, l))]
        /\ geomMap' = [geomMap EXCEPT ![r] =
                         [l \in Layers |-> Insert(geomMap[r][l], GroupByCell(pushed[l]))]]
        /\ totalGeoms' = [totalGeoms EXCEPT ![r] =
             IF setup.manager = "multi" THEN totalGeoms[r] + Len(pushed[1]) ELSE totalGeoms[r]]
        /\ unread' = [unread EXCEPT ![r] = unread[r] \cup NotRead(r, clean)]
  BY <1>3
<1>5. /\ DOMAIN geomMap = Ranks /\ DOMAIN totalGeoms = Ranks /\ DOMAIN unread = Ranks
      /\ DOMAIN got = Ranks /\ DOMAIN pc = Ranks /\ input \in Inputs
      /\ pc \in [Ranks -> Calls \cup {"parse", "done", "abort"}]
  BY <1>1 DEF ShuffleInv, ShapeInv, CallsInv
<1>6. /\ S' = S /\ N' = N /\ Rounds' = Rounds
      /\ \A q, p, call, rd : Sent(q, p, call, rd)' = Sent(q, p, call, rd)
      /\ \A g, p, rd, m : HasGot(g, p, rd, m)' <=> HasGot(g, p, rd, m)
      /\ \A map, U, total, p, rd : Data(map, U, total, p, rd)' <=> Data(map, U, total, p, rd)
      /\ (EnoughCells' <=> EnoughCells)
  BY <1>2, SentStays, DataStays
<1>7. /\ N \in {2, 3, 4, 6} /\ Rounds \in Nat \ {0} /\ S[1] = "mbrCounts"
      /\ \A i \in 1 .. N : S[i] \in Calls /\ S[i] # "allreduce"
      /\ \A i, j \in 1 .. N : S[i] = S[j] => i = j
  BY <1>1, ClassCalls
<1>8. "parse" \notin Calls /\ "done" \notin Calls /\ "abort" \notin Calls
      /\ "allreduce" \in Calls /\ "mbrCounts" \in Calls
  BY DEF Calls, MbrCalls, TextCalls
<1>9. PICK n \in Nat : CallsLeft(r, n) /\ Len(calls[r]) = n
  BY <1>1, <1>2, <1>8 DEF CallsInv
<1>10. round[r] < Rounds /\ n = round[r] * N + N
  BY <1>2, <1>7, <1>8, <1>9 DEF CallsLeft
<1>11. Receives(r)
  BY <1>1, <1>7, <1>10 DEF Receives
<1>12. GotRound(r)
  BY <1>1, <1>2, GotIsRound DEF ShuffleInv, GotInv
<1>13. Data(geomMap'[r], unread'[r], totalGeoms'[r], r, round'[r])
  <2>. DEFINE map == geomMap[r]  U == unread[r]  total == totalGeoms[r]
              map2 == [l \in Layers |-> Insert(geomMap[r][l], GroupByCell(pushed[l]))]
              total2 == IF setup.manager = "multi" THEN totalGeoms[r] + Len(pushed[1])
                        ELSE totalGeoms[r]
  <2>1. Data(map, U, total, r, round[r])
    BY DEF ShuffleInv, OwnInv
  <2>2. \A l \in Layers : pushed[l] = ParseLayer(r, l, CleanOf(clean, l))
    BY <1>4
  <2>a. /\ \A l \in Layers : map2[l] = Insert(map[l], GroupByCell(pushed[l]))
        /\ total2 = IF setup.manager = "multi" THEN total + Len(pushed[1]) ELSE total
    OBVIOUS
  <2>b. U = unread[r]
    OBVIOUS
  <2>c. map2 = [l \in Layers |-> Insert(geomMap[r][l], GroupByCell(pushed[l]))]
        /\ total2 = IF setup.manager = "multi" THEN totalGeoms[r] + Len(pushed[1])
                    ELSE totalGeoms[r]
    OBVIOUS
  <2>. HIDE DEF map, U, total, map2, total2
  <2>3. Data(map2, U \cup NotRead(r, clean), total2, r, round[r] + 1)
    BY <1>11, <1>12, <2>1, <2>2, <2>a, ParseData
  <2>4. /\ geomMap'[r] = map2 /\ totalGeoms'[r] = total2
        /\ unread'[r] = unread[r] \cup NotRead(r, clean)
    BY <1>4, <1>5, <2>c
  <2>. QED BY <1>2, <2>3, <2>4, <2>b
<1>14. \A q \in Ranks \ {r} : /\ geomMap'[q] = geomMap[q] /\ unread'[q] = unread[q]
                              /\ totalGeoms'[q] = totalGeoms[q] /\ pc'[q] = pc[q]
  BY <1>2, <1>4, <1>5
<1>15. pc'[r] = AfterRound(r) /\ pc'[r] \in {"mbrCounts", "allreduce", "done"}
       /\ (pc'[r] = "done" => setup.manager # "multi")
  BY <1>2, <1>5 DEF AfterRound, AfterLoop
<1>16. ShapeInv'
  <2>1. pc' \in [Ranks -> Calls \cup {"parse", "done", "abort"}]
    BY <1>2, <1>5, <1>8, <1>15
  <2>2. /\ DOMAIN geomMap' = Ranks /\ DOMAIN totalGeoms' = Ranks /\ DOMAIN unread' = Ranks
        /\ DOMAIN got' = Ranks /\ input' \in Inputs
    BY <1>2, <1>4, <1>5
  <2>. QED BY <2>1, <2>2 DEF ShapeInv
<1>17. SentInv'
  <2>1. \A k : CallAt(k)' = CallAt(k) /\ RoundAt(k)' = RoundAt(k)
    BY <1>6 DEF CallAt, RoundAt
  <2>2. ASSUME NEW q \in Ranks, NEW k \in 1 .. Len(calls[q]), NEW p \in Ranks
        PROVE  calls[q][k].to[p] =
                 IF k <= Rounds * N THEN Sent(q, p, CallAt(k), RoundAt(k)) ELSE totalGeoms'[q]
    <3>1. calls[q][k].to[p] =
            IF k <= Rounds * N THEN Sent(q, p, CallAt(k), RoundAt(k)) ELSE totalGeoms[q]
      BY DEF ShuffleInv, SentInv
    <3>2. CASE q = r
      <4>1. round[r] * N + N <= Rounds * N /\ Rounds * N \in Nat
        BY <1>1, <1>7, <1>10, RoundBelow
      <4>2. k <= Rounds * N
        BY <1>9, <1>10, <3>2, <4>1
      <4>. QED BY <3>1, <4>2
    <3>3. CASE q # r
      BY <1>14, <3>1, <3>3
    <3>. QED BY <3>2, <3>3
  <2>. QED BY <1>2, <1>6, <2>1, <2>2 DEF SentInv
<1>18. GotInv'
  <2>1. ASSUME NEW q \in Ranks
        PROVE  /\ \A j \in 1 .. N : pc'[q] = S[j] => HasGot(got[q], q, round'[q], j - 1)
               /\ pc'[q] = "parse" => HasGot(got[q], q, round'[q], N)
               /\ pc'[q] = "done" /\ setup.manager = "multi" =>
                    /\ got[q].allreduce = [p \in Ranks |-> totalGeoms'[p]]
                    /\ \A p \in Ranks : round'[p] = Rounds
    <3>1. CASE q = r
      <4>1. ASSUME NEW j \in 1 .. N, pc'[r] = S[j] PROVE HasGot(got[r], r, round'[r], j - 1)
        <5>1. pc'[r] = "mbrCounts"
          BY <1>7, <1>8, <1>15, <4>1
        <5>0. 1 \in 1 .. N
          BY <1>7
        <5>2. j = 1
          BY <1>7, <4>1, <5>0, <5>1
        <5>. QED BY <5>2 DEF HasGot
      <4>. QED BY <1>8, <1>15, <3>1, <4>1
    <3>2. CASE q # r
      <4>1. pc'[q] = pc[q] /\ round'[q] = round[q]
        BY <1>2, <1>14, <3>2
      <4>2. ~(pc[q] = "done" /\ setup.manager = "multi")
        <5>1. ~(\A p \in Ranks : round[p] = Rounds)
          BY <1>1, <1>7, <1>10
        <5>. QED BY <5>1 DEF ShuffleInv, GotInv
      <4>. QED BY <4>1, <4>2 DEF ShuffleInv, GotInv
    <3>. QED BY <3>1, <3>2
  <2>. QED BY <1>2, <1>6, <2>1 DEF GotInv
<1>19. OwnInv'
  <2>1. ASSUME NEW q \in Ranks PROVE Data(geomMap'[q], unread'[q], totalGeoms'[q], q, round'[q])
    <3>1. CASE q = r
      BY <1>13, <3>1
    <3>2. CASE q # r
      BY <1>2, <1>14, <3>2 DEF ShuffleInv, OwnInv
    <3>. QED BY <3>1, <3>2
  <2>. QED BY <1>6, <2>1 DEF OwnInv
<1>20. AbortInv'
  <2>1. pc'[r] # "abort"
    BY <1>15
  <2>. QED BY <1>6, <1>14, <2>1 DEF ShuffleInv, AbortInv
<1>. QED BY <1>1, <1>16, <1>17, <1>18, <1>19, <1>20 DEF ShuffleInv

(* What is packed fits the buffer that was counted for it: the assertion   *)
(* that fails is the one about the cells.                                  *)
LEMMA AbortData ==
  ASSUME ShuffleInv, NEW r \in Ranks, Abort(r) PROVE ShuffleInv'
<1>1. CallsInv /\ CallsInv' /\ setup \in Setups /\ Chosen /\ round \in [Ranks -> Nat]
  BY AbortCalls DEF ShuffleInv, CallsInv, ShapeInv, Chosen
<1>2. /\ pc[r] \in Calls /\ ~inCall[r] /\ ~AssertionsHold(r) /\ pc' = [pc EXCEPT ![r] = "abort"]
      /\ UNCHANGED <<setup, input, round, inCall, calls, got, geomMap, totalGeoms, unread>>
  BY DEF Abort
<1>3. /\ S' = S /\ N' = N /\ Rounds' = Rounds
      /\ \A q, p, call, rd : Sent(q, p, call, rd)' = Sent(q, p, call, rd)
      /\ \A g, p, rd, m : HasGot(g, p, rd, m)' <=> HasGot(g, p, rd, m)
      /\ \A map, U, total, p, rd : Data(map, U, total, p, rd)' <=> Data(map, U, total, p, rd)
      /\ (EnoughCells' <=> EnoughCells)
  BY <1>2, SentStays, DataStays
<1>4. pc'[r] = "abort" /\ \A q \in Ranks \ {r} : pc'[q] = pc[q]
  BY <1>1, <1>2 DEF CallsInv
<1>5. \A i \in 1 .. N : S[i] # "abort"
  <2>1. "abort" \notin Calls
    BY DEF Calls, MbrCalls, TextCalls
  <2>. QED BY <1>1, <2>1, ClassCalls
<1>6. ~EnoughCells
  <2>. SUFFICES ASSUME EnoughCells PROVE FALSE
    OBVIOUS
  <2>1. pc[r] \in TextCalls /\ ~FitsBuffer(r, round[r], LayerOf(pc[r]))
    BY <1>2 DEF AssertionsHold
  <2>2. PICK n \in Nat : CallsLeft(r, n) /\ Len(calls[r]) = n
    BY <1>1, <1>2 DEF CallsInv
  <2>3. round[r] \in 0 .. Rounds - 1
    <3>1. pc[r] # "allreduce"
      BY <2>1 DEF TextCalls
    <3>2. round[r] < Rounds /\ round[r] \in Nat /\ Rounds \in Nat
      BY <1>1, <1>2, <2>2, <3>1, DueCall, ClassCalls
    <3>. QED BY <3>2
  <2>4. \A p \in Ranks : \A l :
          TextLen(r, p, round[r], l) <= Unit * Units(TextLen(r, p, round[r], l))
    BY <1>1, <2>3, TextLenIs
  <2>. QED BY <2>1, <2>4 DEF FitsBuffer
<1>7. ShapeInv'
  BY <1>2 DEF ShuffleInv, ShapeInv
<1>8. SentInv'
  <2>1. \A k : CallAt(k)' = CallAt(k) /\ RoundAt(k)' = RoundAt(k)
    BY <1>3 DEF CallAt, RoundAt
  <2>. QED BY <1>2, <1>3, <2>1 DEF ShuffleInv, SentInv
<1>9. GotInv'
  BY <1>2, <1>3, <1>4, <1>5 DEF ShuffleInv, GotInv
<1>10. OwnInv'
  BY <1>2, <1>3 DEF ShuffleInv, OwnInv
<1>11. AbortInv'
  BY <1>3, <1>6 DEF AbortInv
<1>. QED BY <1>1, <1>7, <1>8, <1>9, <1>10, <1>11 DEF ShuffleInv

LEMMA NextData == ShuffleInv /\ [Next]_vars => ShuffleInv'
<1>. SUFFICES ASSUME ShuffleInv, [Next]_vars PROVE ShuffleInv'
  OBVIOUS
<1>1. CASE UNCHANGED vars
  <2>1. UNCHANGED <<setup, input, round, pc, inCall, calls, got, geomMap, totalGeoms, unread>>
    BY <1>1 DEF vars
  <2>2. CallsInv /\ CallsInv'
    BY <1>1, NextCalls DEF ShuffleInv
  <2>3. /\ S' = S /\ N' = N /\ Rounds' = Rounds
        /\ \A q, p, call, rd : Sent(q, p, call, rd)' = Sent(q, p, call, rd)
        /\ \A g, p, rd, m : HasGot(g, p, rd, m)' <=> HasGot(g, p, rd, m)
        /\ \A map, U, total, p, rd : Data(map, U, total, p, rd)' <=> Data(map, U, total, p, rd)
        /\ (EnoughCells' <=> EnoughCells)
    BY <2>1, SentStays, DataStays
  <2>4. \A k : CallAt(k)' = CallAt(k) /\ RoundAt(k)' = RoundAt(k)
    BY <2>3 DEF CallAt, RoundAt
  <2>5. ShapeInv'
    BY <2>1 DEF ShuffleInv, ShapeInv
  <2>6. SentInv'
    BY <2>1, <2>3, <2>4 DEF ShuffleInv, SentInv
  <2>7. GotInv'
    BY <2>1, <2>3 DEF ShuffleInv, GotInv
  <2>8. OwnInv' /\ AbortInv'
    BY <2>1, <2>3 DEF ShuffleInv, OwnInv, AbortInv
  <2>. QED BY <2>2, <2>5, <2>6, <2>7, <2>8 DEF ShuffleInv
<1>. QED BY <1>1, EnterData, LeaveData, ParseRoundData, AbortData DEF Next, Terminating

-----------------------------------------------------------------------------
(* What the invariant says in the words of the properties.                 *)
LEMMA CellsSoFarIs ==
  ASSUME Chosen, NEW r \in Ranks, round[r] \in 0 .. Rounds
  PROVE  CellsSoFar(r) = SoFar(r, round[r])
<1>1. \A rd \in 0 .. round[r] - 1 : Range(CellsForARound(r, rd)) = RoundCells(r, rd)
  <2>. SUFFICES ASSUME NEW rd \in 0 .. round[r] - 1
                PROVE  Range(CellsForARound(r, rd)) = RoundCells(r, rd)
    OBVIOUS
  <2>. DEFINE t == CellsForARound(r, rd)
  <2>1. rd \in 0 .. Rounds - 1
    BY ChosenIs
  <2>2. t \in Seq(Cells) /\ Elems(t) = RoundCells(r, rd)
    BY <2>1, RoundIs
  <2>. HIDE DEF t
  <2>3. DOMAIN t = 1 .. Len(t)
    BY <2>2
  <2>4. Range(t) = Elems(t)
    BY <2>3 DEF Range, Elems
  <2>. QED BY <2>2, <2>4 DEF t
<1>. QED BY <1>1 DEF CellsSoFar, SoFar

LEMMA InCellSaid == \A r, c, l : InCell(r, c, l) = InCellBut(unread[r], c, l)
BY DEF InCell, InCellBut

(* A rank that is done has had all its rounds.                             *)
LEMMA DoneRounds ==
  ASSUME CallsInv, NEW r \in Ranks, pc[r] = "done"
  PROVE  round[r] = Rounds
<1>1. \A i \in 1 .. N : S[i] # "done"
  <2>1. "done" \notin Calls
    BY DEF Calls, MbrCalls, TextCalls
  <2>. QED BY <2>1, ClassCalls DEF CallsInv
<1>. QED BY <1>1 DEF CallsInv, CallsLeft

LEMMA TypeFromInv == ShuffleInv => TypeOK
<1>. SUFFICES ASSUME ShuffleInv PROVE TypeOK
  OBVIOUS
<1>1. \A r \in Ranks : Data(geomMap[r], unread[r], totalGeoms[r], r, round[r])
  BY DEF ShuffleInv, OwnInv
<1>2. /\ setup \in Setups /\ input \in Inputs /\ inCall \in [Ranks -> BOOLEAN]
      /\ pc \in [Ranks -> Calls \cup {"parse", "done", "abort"}]
      /\ round \in [Ranks -> Nat]
  BY DEF ShuffleInv, ShapeInv, CallsInv
<1>3. round \in [Ranks -> 0 .. Rounds]
  <2>1. \A r \in Ranks : round[r] \in 0 .. Rounds
    BY <1>1 DEF Data
  <2>. QED BY <1>2, <2>1
<1>4. \A r \in Ranks :
        /\ \A l \in Layers :
             /\ DOMAIN geomMap[r][l] \subseteq Cells
             /\ \A c \in DOMAIN geomMap[r][l] : geomMap[r][l][c] \in Seq(Geoms) \ {<<>>}
        /\ unread[r] \subseteq [cellId : Cells, geom : Geoms]
        /\ totalGeoms[r] \in Nat
  BY <1>1 DEF Data, IsMap, Items
<1>. QED BY <1>2, <1>3, <1>4 DEF TypeOK

LEMMA OwnersFromInv == ShuffleInv => (ReadsInPlace => OwnersHaveTheirCells)
<1>. SUFFICES ASSUME ShuffleInv, ReadsInPlace, NEW r \in Ranks, NEW l \in Layers
              PROVE  geomMap[r][l] = [c \in {d \in CellsSoFar(r) : InCell(r, d, l) # <<>>} |->
                                        InCell(r, c, l)]
  BY DEF OwnersHaveTheirCells
<1>1. geomMap[r][l] = Owned(unread[r], r, round[r], l) /\ round[r] \in 0 .. Rounds
  BY DEF ShuffleInv, OwnInv, Data
<1>2. Chosen
  BY DEF ShuffleInv, CallsInv, ShapeInv, Chosen
<1>3. CellsSoFar(r) = SoFar(r, round[r])
  BY <1>1, <1>2, CellsSoFarIs
<1>4. \A c : InCell(r, c, l) = InCellBut(unread[r], c, l)
  BY InCellSaid
<1>. QED BY <1>1, <1>3, <1>4 DEF Owned

LEMMA DeliveredFromInv == ShuffleInv => (ReadsInPlace => AllCellsDelivered)
<1>. SUFFICES ASSUME ShuffleInv, ReadsInPlace, \A r \in Ranks : pc[r] = "done",
                     NEW c \in Cells, NEW l \in Layers,
                     InCell(c % numProcesses, c, l) # <<>>
              PROVE  c \in DOMAIN geomMap[c % numProcesses][l]
  BY DEF AllCellsDelivered
<1>. DEFINE r == c % numProcesses
<1>1. Chosen
  BY DEF ShuffleInv, CallsInv, ShapeInv, Chosen
<1>2. r \in Ranks
  <2>1. numProcesses \in Nat \ {0} /\ c \in Nat
    BY <1>1, ChosenIs DEF Cells
  <2>. QED BY <2>1, DivMod DEF Ranks
<1>3. round[r] = Rounds
  BY <1>2, DoneRounds DEF ShuffleInv
<1>4. geomMap[r][l] = Owned(unread[r], r, Rounds, l)
  BY <1>2, <1>3 DEF ShuffleInv, OwnInv, Data
<1>5. c \in SoFar(r, Rounds)
  <2>1. SoFar(r, Rounds) = Elems(CellsOf(r))
    BY <1>1, <1>2, SoFarIs
  <2>2. Elems(CellsOf(r)) = {d \in Cells : d % numProcesses = r}
    BY <1>1, <1>2, CellsOfIs
  <2>. QED BY <2>1, <2>2
<1>6. InCell(r, c, l) = InCellBut(unread[r], c, l)
  BY InCellSaid
<1>. QED BY <1>4, <1>5, <1>6 DEF Owned

-----------------------------------------------------------------------------
(* The total of "multi".                                                   *)

(* What lies in the cells of the first layer, and in one of them.          *)
AllItems == {x \in Items : x.geom \in CellGeoms(x.cellId, 1)}
ItemsOf(c) == {x \in AllItems : x.cellId = c}

LEMMA CellSize ==
  ASSUME Chosen, NEW c \in Cells, NEW U, \A x : x \notin U
  PROVE  IsFiniteSet(ItemsOf(c)) /\ Cardinality(ItemsOf(c)) = Len(InCellBut(U, c, 1))
<1>. DEFINE t == InCellBut(U, c, 1)
            u == [i \in 1 .. Len(t) |-> [cellId |-> c, geom |-> t[i]]]
            R == {xy \in Items \X Items : <<xy[1].geom, xy[2].geom>> \in GeomOrder}
<1>1. /\ t \in Seq(Geoms) /\ Sorted(t, GeomOrder)
      /\ Elems(t) = {g \in CellGeoms(c, 1) : [cellId |-> c, geom |-> g] \notin U}
  BY InCellIs
<1>2. Asymmetric(GeomOrder)
  BY GeomOrderIs
<1>3. Elems(t) = CellGeoms(c, 1)
  BY <1>1
<1>. HIDE DEF t
<1>4. Len(t) \in Nat /\ \A i \in 1 .. Len(t) : t[i] \in Geoms
  BY <1>1
<1>5. \A i \in 1 .. Len(t) : [cellId |-> c, geom |-> t[i]] \in Items
  BY <1>4 DEF Items
<1>6. u \in Seq(Items) /\ Len(u) = Len(t)
  BY <1>4, <1>5
<1>7. \A i \in 1 .. Len(t) : u[i] \in Items /\ u[i].geom = t[i] /\ u[i].cellId = c
  BY <1>5
<1>8. Elems(u) = ItemsOf(c)
  <2>1. ASSUME NEW x \in Elems(u) PROVE x \in ItemsOf(c)
    <3>1. PICK i \in 1 .. Len(t) : x = u[i]
      BY <1>6, <2>1 DEF Elems
    <3>2. t[i] \in CellGeoms(c, 1)
      BY <1>3 DEF Elems
    <3>. QED BY <1>7, <3>1, <3>2 DEF ItemsOf, AllItems
  <2>2. ASSUME NEW x \in ItemsOf(c) PROVE x \in Elems(u)
    <3>1. x \in Items /\ x.cellId = c /\ x.geom \in CellGeoms(c, 1)
      BY <2>2 DEF ItemsOf, AllItems
    <3>2. PICK i \in 1 .. Len(t) : x.geom = t[i]
      BY <1>3, <3>1 DEF Elems
    <3>3. x = [cellId |-> c, geom |-> t[i]]
      BY <3>1, <3>2 DEF Items
    <3>4. x = u[i]
      BY <3>3
    <3>. QED BY <1>6, <3>4 DEF Elems
  <2>. QED BY <2>1, <2>2
<1>. HIDE DEF u
<1>9. Sorted(u, R)
  <2>. SUFFICES ASSUME NEW i \in 1 .. Len(t), NEW j \in 1 .. Len(t), i < j
                PROVE  <<u[i], u[j]>> \in R
    BY <1>6 DEF Sorted
  <2>1. <<t[i], t[j]>> \in GeomOrder
    BY <1>1 DEF Sorted
  <2>. QED BY <1>7, <2>1
<1>10. Asymmetric(R)
  BY <1>2 DEF Asymmetric
<1>. HIDE DEF R
<1>11. IsFiniteSet(Elems(u)) /\ Cardinality(Elems(u)) = Len(u)
  BY <1>6, <1>9, <1>10, SortedLen
<1>. QED BY <1>6, <1>8, <1>11 DEF t

(* All cells of the first layer hold together what all ranks own.          *)
LEMMA CellsAddUp ==
  ASSUME Chosen, NEW sizes, \A c \in Cells : sizes[c] = Cardinality(ItemsOf(c)),
         \A c \in Cells : IsFiniteSet(ItemsOf(c))
  PROVE  IsFiniteSet(AllItems) /\ Cardinality(AllItems) = SumOver(sizes, Cells)
<1>. DEFINE F == [c \in Cells |-> ItemsOf(c)]
<1>1. IsFiniteSet(Cells)
  <2>1. input.numCells \in Nat
    BY ChosenIs
  <2>. QED BY <2>1, FS_Interval DEF Cells
<1>2. \A c \in Cells : F[c] = ItemsOf(c)
  OBVIOUS
<1>. HIDE DEF F
<1>3. Disjoint(F, Cells)
  BY <1>2 DEF Disjoint, ItemsOf
<1>4. AllOf(F, Cells) = AllItems
  BY <1>2 DEF AllOf, ItemsOf, AllItems, Items
<1>5. IsFiniteSet(AllOf(F, Cells)) /\ Cardinality(AllOf(F, Cells)) = SumOver(sizes, Cells)
  BY <1>1, <1>2, <1>3, SumOfSizes
<1>. QED BY <1>4, <1>5

LEMMA RanksAddUp ==
  ASSUME Chosen, NEW sizes,
         \A q \in Ranks : /\ IsFiniteSet(ItemsSoFar(q, Rounds))
                          /\ sizes[q] = Cardinality(ItemsSoFar(q, Rounds))
  PROVE  Cardinality(AllItems) = SumOver(sizes, Ranks)
<1>. DEFINE F == [q \in Ranks |-> ItemsSoFar(q, Rounds)]
<1>1. numProcesses \in Nat \ {0}
  BY ChosenIs
<1>2. IsFiniteSet(Ranks)
  BY <1>1, FS_Interval DEF Ranks
<1>3. \A q \in Ranks : F[q] = ItemsSoFar(q, Rounds)
  OBVIOUS
<1>. HIDE DEF F
<1>4. \A q \in Ranks : F[q] = {x \in AllItems : x.cellId % numProcesses = q}
  <2>. SUFFICES ASSUME NEW q \in Ranks
                PROVE  F[q] = {x \in AllItems : x.cellId % numProcesses = q}
    OBVIOUS
  <2>1. SoFar(q, Rounds) = {c \in Cells : c % numProcesses = q}
    BY SoFarIs, CellsOfIs
  <2>2. \A x \in Items : x.cellId \in Cells
    BY DEF Items
  <2>. QED BY <1>3, <2>1, <2>2 DEF ItemsSoFar, AllItems
<1>5. Disjoint(F, Ranks)
  BY <1>4 DEF Disjoint
<1>6. AllOf(F, Ranks) = AllItems
  <2>1. \A x \in AllItems : x.cellId % numProcesses \in Ranks
    <3>1. \A x \in AllItems : x.cellId \in Nat
      <4>1. input.numCells \in Nat
        BY ChosenIs
      <4>. QED BY <4>1 DEF AllItems, Items, Cells
    <3>. QED BY <1>1, <3>1, DivMod DEF Ranks
  <2>. QED BY <1>4, <2>1 DEF AllOf
<1>7. Cardinality(AllOf(F, Ranks)) = SumOver(sizes, Ranks)
  BY <1>2, <1>3, <1>5, SumOfSizes
<1>. QED BY <1>6, <1>7

LEMMA TotalFromInv == ShuffleInv => (ReadsInPlace => TotalIsComplete)
<1>. SUFFICES ASSUME ShuffleInv, ReadsInPlace, NEW r \in Ranks,
                     pc[r] = "done", setup.manager = "multi"
              PROVE  SumFunction(got[r].allreduce) =
                       SumFunction([c \in Cells |-> Len(InCell(r, c, 1))])
  BY DEF TotalIsComplete
<1>1. Chosen
  BY DEF ShuffleInv, CallsInv, ShapeInv, Chosen
<1>2. /\ got[r].allreduce = [q \in Ranks |-> totalGeoms[q]]
      /\ \A q \in Ranks : round[q] = Rounds
  BY DEF ShuffleInv, GotInv
<1>3. \A q \in Ranks : Data(geomMap[q], unread[q], totalGeoms[q], q, Rounds)
  BY <1>2 DEF ShuffleInv, OwnInv
<1>4. \A q \in Ranks : /\ IsFiniteSet(ItemsSoFar(q, Rounds))
                       /\ totalGeoms[q] = Cardinality(ItemsSoFar(q, Rounds))
  BY <1>3 DEF Data
<1>5. unread[r] = {}
  <2>1. ~MayThrow
    BY DEF ReadsInPlace, MayThrow
  <2>. QED BY <1>3, <2>1 DEF Data
<1>. DEFINE totals == [q \in Ranks |-> totalGeoms[q]]
            sizes == [c \in Cells |-> Len(InCell(r, c, 1))]
<1>6. SumFunction(got[r].allreduce) = SumOver(totals, Ranks)
  BY <1>2 DEF SumFunction, SumOver
<1>7. SumFunction(sizes) = SumOver(sizes, Cells)
  BY DEF SumFunction, SumOver
<1>8. \A q \in Ranks : /\ IsFiniteSet(ItemsSoFar(q, Rounds))
                       /\ totals[q] = Cardinality(ItemsSoFar(q, Rounds))
  BY <1>4
<1>9. \A c \in Cells : IsFiniteSet(ItemsOf(c)) /\ sizes[c] = Cardinality(ItemsOf(c))
  <2>. SUFFICES ASSUME NEW c \in Cells
                PROVE  IsFiniteSet(ItemsOf(c)) /\ sizes[c] = Cardinality(ItemsOf(c))
    OBVIOUS
  <2>1. InCell(r, c, 1) = InCellBut(unread[r], c, 1)
    BY InCellSaid
  <2>. DEFINE U == unread[r]
  <2>2. U = {}
    BY <1>5
  <2>. HIDE DEF U
  <2>3. IsFiniteSet(ItemsOf(c)) /\ Cardinality(ItemsOf(c)) = Len(InCellBut(U, c, 1))
    BY <1>1, <2>2, CellSize
  <2>. QED BY <2>1, <2>3 DEF U
<1>. HIDE DEF totals, sizes
<1>10. SumOver(totals, Ranks) = Cardinality(AllItems)
  BY <1>1, <1>8, RanksAddUp
<1>11. SumOver(sizes, Cells) = Cardinality(AllItems)
  BY <1>1, <1>9, CellsAddUp
<1>. QED BY <1>6, <1>7, <1>10, <1>11 DEF sizes

-----------------------------------------------------------------------------
(* However the ranks drift apart, what is entered, received and stored is   *)
(* what the rounds so far give each rank.                                  *)
THEOREM InvHolds == Spec => []ShuffleInv
BY InitData, NextData, PTL DEF Spec

(* The state is always what TypeOK says: in particular, what a rank takes  *)
(* out of its receive buffers are always geometries with cells of the      *)
(* grid, also where a reader has thrown and the offsets are wrong.         *)
THEOREM TypeCorrect == Spec => []TypeOK
BY InvHolds, TypeFromInv, PTL

(* The only assertion that ever fails is the one of getCellsForARound: a   *)
(* rank aborts only when some process has fewer cells than there are       *)
(* rounds.                                                                 *)
THEOREM AbortsHold == Spec => []AbortsOnlyWithFewCells
<1>1. ShuffleInv => AbortsOnlyWithFewCells
  BY DEF ShuffleInv, AbortInv, AbortsOnlyWithFewCells
<1>. QED BY <1>1, InvHolds, PTL

(* Where every text is read at its own place, each rank has after every    *)
(* round exactly its cells of the rounds so far with all that lies in      *)
(* them, in the order of the senders.                                      *)
THEOREM OwnersHold == Spec => [](ReadsInPlace => OwnersHaveTheirCells)
BY InvHolds, OwnersFromInv, PTL

(* ... so at the end every cell of the grid is with its owner ...          *)
THEOREM DeliveryHolds == Spec => [](ReadsInPlace => AllCellsDelivered)
BY InvHolds, DeliveredFromInv, PTL

(* ... and the total of "multi" counts every geometry once for each of its *)
(* cells, on every rank.                                                   *)
THEOREM TotalsHold == Spec => [](ReadsInPlace => TotalIsComplete)
BY InvHolds, TotalFromInv, PTL
==============================================================================
