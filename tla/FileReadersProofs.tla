--------------------------- MODULE FileReadersProofs ---------------------------
(***************************************************************************)
(* For any file, any number of processes and any reader that IsReader      *)
(* allows: only the rest of a strided read is read by two processes, no    *)
(* process writes behind a buffer its elements fit, each record of a file  *)
(* that is cut into whole ones is delivered once, the sequential reader    *)
(* delivers each byte but the last, and its sample is full as soon as it   *)
(* can be.                                                                 *)
(***************************************************************************)
EXTENDS FileReaders, SequenceTheorems, FiniteSetTheorems, WellFoundedInduction,
        NaturalsInduction, TLAPS

-----------------------------------------------------------------------------
(* Integers.                                                               *)

LEMMA DivMod ==
  ASSUME NEW a \in Nat, NEW b \in Nat \ {0}
  PROVE  /\ a \div b \in Nat /\ a % b \in Nat /\ a % b < b
         /\ a = b * (a \div b) + (a % b)
OBVIOUS

LEMMA MulMonotone ==
  ASSUME NEW a \in Nat, NEW b \in Nat, NEW c \in Nat, a <= b
  PROVE  a * c <= b * c /\ a * c \in Nat /\ b * c \in Nat
<1>1. PICK d \in Nat : b = a + d
  BY b - a \in Nat
<1>2. (a + d) * c = a * c + d * c
  OBVIOUS
<1>3. a * c \in Nat /\ d * c \in Nat
  OBVIOUS
<1>. QED BY <1>1, <1>2, <1>3

(* A number has one quotient and one remainder.                            *)
LEMMA Quotients ==
  ASSUME NEW b \in Nat \ {0}, NEW c \in Nat, NEW d \in Nat,
         NEW x \in 0 .. b - 1, NEW y \in 0 .. b - 1, c * b + x = d * b + y
  PROVE  c = d
<1>1. ASSUME NEW e \in Nat, NEW f \in Nat, NEW u \in 0 .. b - 1, NEW v \in 0 .. b - 1,
             e < f
      PROVE  e * b + u < f * b + v
  <2>1. (e + 1) * b <= f * b
    BY <1>1, MulMonotone
  <2>2. (e + 1) * b = e * b + b
    OBVIOUS
  <2>3. e * b \in Nat /\ f * b \in Nat
    OBVIOUS
  <2>. QED BY <2>1, <2>2, <2>3
<1>2. ~(c < d)
  <2>. SUFFICES ASSUME c < d PROVE FALSE
    OBVIOUS
  <2>1. c * b + x < d * b + y
    BY <1>1
  <2>2. c * b \in Nat /\ d * b \in Nat
    OBVIOUS
  <2>. QED BY <2>1, <2>2
<1>3. ~(d < c)
  <2>. SUFFICES ASSUME d < c PROVE FALSE
    OBVIOUS
  <2>1. d * b + y < c * b + x
    BY <1>1
  <2>2. c * b \in Nat /\ d * b \in Nat
    OBVIOUS
  <2>. QED BY <2>1, <2>2
<1>. QED BY <1>2, <1>3

(* What is below a multiple of b has a smaller quotient.                   *)
LEMMA SmallerQuotient ==
  ASSUME NEW b \in Nat \ {0}, NEW p \in Nat, NEW i \in Nat, i < p * b
  PROVE  i \div b < p
<1>. SUFFICES ASSUME p <= i \div b PROVE FALSE
  BY DivMod
<1>1. p * b <= (i \div b) * b
  BY MulMonotone, DivMod
<1>2. i = b * (i \div b) + (i % b) /\ i % b \in Nat /\ i \div b \in Nat
  BY DivMod
<1>3. b * (i \div b) = (i \div b) * b
  BY <1>2
<1>4. (i \div b) * b \in Nat /\ p * b \in Nat
  BY <1>2
<1>. QED BY <1>1, <1>2, <1>3, <1>4

LEMMA LexLess ==
  ASSUME NEW b \in Nat \ {0}, NEW c \in Nat, NEW d \in Nat, c < d,
         NEW x \in 0 .. b - 1, NEW y \in Nat
  PROVE  c * b + x < d * b + y
<1>1. (c + 1) * b <= d * b
  BY MulMonotone
<1>2. (c + 1) * b = c * b + b
  OBVIOUS
<1>3. c * b \in Nat /\ d * b \in Nat
  OBVIOUS
<1>. QED BY <1>1, <1>2, <1>3

LEMMA DivMonotone ==
  ASSUME NEW b \in Nat \ {0}, NEW i \in Nat, NEW j \in Nat, i <= j
  PROVE  i \div b <= j \div b
<1>. DEFINE c == i \div b  d == j \div b  x == i % b  y == j % b
<1>1. c \in Nat /\ x \in Nat /\ x < b /\ i = b * c + x
  BY DivMod
<1>2. d \in Nat /\ y \in Nat /\ y < b /\ j = b * d + y
  BY DivMod
<1>. HIDE DEF c, d, x, y
<1>3. ASSUME d < c PROVE FALSE
  <2>1. y \in 0 .. b - 1
    BY <1>2
  <2>2. d * b + y < c * b + x
    BY <1>1, <1>2, <1>3, <2>1, LexLess
  <2>3. b * c = c * b /\ b * d = d * b /\ c * b \in Nat /\ d * b \in Nat
    BY <1>1, <1>2
  <2>. QED BY <1>1, <1>2, <2>2, <2>3
<1>4. c <= d
  BY <1>1, <1>2, <1>3
<1>. QED BY <1>4 DEF c, d

(* The quotient and the remainder of a number written with both.           *)
LEMMA QuotientIs ==
  ASSUME NEW b \in Nat \ {0}, NEW c \in Nat, NEW x \in 0 .. b - 1
  PROVE  (c * b + x) \div b = c /\ (c * b + x) % b = x
<1>. DEFINE a == c * b + x
<1>1. a \in Nat
  OBVIOUS
<1>. HIDE DEF a
<1>2. a \div b \in Nat /\ a % b \in 0 .. b - 1 /\ a = b * (a \div b) + (a % b)
  <2>1. a \div b \in Nat /\ a % b \in Nat /\ a % b < b /\ a = b * (a \div b) + (a % b)
    BY <1>1, DivMod
  <2>. QED BY <2>1
<1>3. b * (a \div b) = (a \div b) * b /\ (a \div b) * b \in Nat
  BY <1>2
<1>4. (a \div b) * b + (a % b) = c * b + x
  BY <1>2, <1>3 DEF a
<1>5. a \div b = c
  BY <1>2, <1>4, Quotients
<1>6. a % b = x
  <2>. DEFINE m == c * b
  <2>1. m \in Nat /\ (a \div b) * b = m
    BY <1>5
  <2>2. m + (a % b) = m + x
    BY <1>4, <2>1
  <2>. DEFINE z == a % b
  <2>3. m \in Nat /\ z \in 0 .. b - 1 /\ m + z = m + x
    BY <1>2, <2>1, <2>2
  <2>. HIDE DEF m, z
  <2>4. z = x
    BY <2>3
  <2>. QED BY <2>4 DEF z
<1>. QED BY <1>5, <1>6 DEF a

LEMMA LeastNumber ==
  ASSUME NEW S, S \subseteq Nat, S # {}
  PROVE  \E m \in S : \A j \in S : m <= j
<1>1. PICK m \in S : \A j \in S : ~(<<j, m>> \in OpToRel(<, Nat))
  BY NatLessThanWellFounded, WFMin
<1>2. \A j \in S : j \in Nat /\ m \in Nat => ~(j < m)
  BY <1>1 DEF OpToRel
<1>3. \A j \in S : ~(j < m) => m <= j
  OBVIOUS
<1>. QED BY <1>2, <1>3

(* A set of numbers that has all below each of its own is an interval.     *)
LEMMA Prefix ==
  ASSUME NEW m \in Nat, NEW D, D \subseteq 0 .. m - 1, \A i \in D : \A j \in 0 .. i : j \in D
  PROVE  Cardinality(D) \in Nat /\ D = 0 .. Cardinality(D) - 1
<1>. DEFINE T == Nat \ D
<1>1. m \in T
  OBVIOUS
<1>2. PICK t \in T : \A j \in T : t <= j
  BY <1>1, LeastNumber
<1>3. D = 0 .. t - 1
  <2>1. ASSUME NEW i \in D PROVE i \in 0 .. t - 1
    <3>1. i \in Nat
      OBVIOUS
    <3>2. ~(t <= i)
      BY <3>1, t \in 0 .. i => t \in D
    <3>. QED BY <3>1, <3>2
  <2>2. ASSUME NEW i \in 0 .. t - 1 PROVE i \in D
    BY <1>2
  <2>. QED BY <2>1, <2>2
<1>4. Cardinality(0 .. t - 1) = t
  <2>1. 0 \in Int /\ t - 1 \in Int /\ t \in Nat
    OBVIOUS
  <2>2. Cardinality(0 .. t - 1) = IF 0 > t - 1 THEN 0 ELSE t - 1 - 0 + 1
    BY <2>1, FS_Interval, Zenon
  <2>. QED BY <2>1, <2>2
<1>. QED BY <1>3, <1>4

-----------------------------------------------------------------------------
(* The binary readers.                                                     *)

ReaderOK ==
  /\ reader \in Readers /\ file \in Files
  /\ reader.access = "strided" => BlocksInView > 0

LEMMA Numbers ==
  ASSUME ReaderOK
  PROVE  /\ numProcesses \in Nat \ {0} /\ file.size \in Nat \ {0}
         /\ reader.sizeOf \in Nat \ {0} /\ reader.extent \in Nat \ {0}
         /\ reader.block \in Nat \ {0}
         /\ reader.access \in {"at rank", "with rest", "strided", "lines"}
         /\ BufSize \in Nat /\ Elements \in Nat
         /\ \A r \in Ranks : Extra(r) \in Nat /\ Count(r) \in Nat
                             /\ (r # numProcesses - 1 => Count(r) = Elements)
<1>1. /\ numProcesses \in Nat \ {0} /\ file.size \in Nat \ {0}
      /\ reader.sizeOf \in Nat \ {0} /\ reader.extent \in Nat \ {0}
      /\ reader.block \in Nat \ {0}
      /\ reader.access \in {"at rank", "with rest", "strided", "lines"}
  BY FileReadersConstants DEF ReaderOK, IsReader
<1>2. BufSize \in Nat
  BY <1>1, DivMod DEF BufSize
<1>3. Elements \in Nat
  BY <1>1, <1>2, DivMod DEF Elements
<1>4. (BufSize % numProcesses) \div reader.sizeOf \in Nat
  BY <1>1, <1>2, DivMod
<1>5. \A r \in Ranks : Extra(r) \in Nat
  BY <1>4 DEF Extra
<1>6. \A r \in Ranks : r # numProcesses - 1 => Extra(r) = 0
  BY DEF Extra
<1>7. \A r \in Ranks : Count(r) \in Nat /\ (r # numProcesses - 1 => Count(r) = Elements)
  BY <1>3, <1>5, <1>6 DEF Count
<1>. QED BY <1>1, <1>2, <1>3, <1>5, <1>7

(* What a process reads are elements at its positions, at most as many as  *)
(* it asks for.                                                            *)
LEMMA ReadsItsPositions ==
  ASSUME ReaderOK, NEW r \in Ranks
  PROVE  /\ Len(ElementsRead(r)) \in Nat /\ Len(ElementsRead(r)) <= Count(r)
         /\ \A n \in 1 .. Len(ElementsRead(r)) :
              /\ n - 1 \in 0 .. Count(r) - 1
              /\ ElementsRead(r)[n] = Position(r, n - 1)
<1>. DEFINE inFile == {i \in 0 .. Count(r) - 1 : Position(r, i) + reader.sizeOf <= file.size}
<1>1. Count(r) \in Nat
  BY Numbers
<1>2. /\ IsFiniteSet(0 .. Count(r) - 1)
      /\ Cardinality(0 .. Count(r) - 1) = Count(r)
  BY <1>1, FS_Interval
<1>3. inFile \in SUBSET (0 .. Count(r) - 1)
  OBVIOUS
<1>4. /\ IsFiniteSet(inFile)
      /\ Cardinality(inFile) <= Count(r)
  <2>. HIDE DEF inFile
  <2>. QED BY <1>2, <1>3, FS_Subset
<1>5. Cardinality(inFile) \in Nat
  BY <1>4, FS_CardinalityType
<1>6. ElementsRead(r) = [n \in 1 .. Cardinality(inFile) |-> Position(r, n - 1)]
  BY DEF ElementsRead
<1>. HIDE DEF inFile
<1>7. Len(ElementsRead(r)) = Cardinality(inFile)
  BY <1>5, <1>6
<1>. QED BY <1>1, <1>4, <1>5, <1>6, <1>7

(* A contiguous part ends before the next one begins.                      *)
LEMMA PartsInOrder ==
  ASSUME ReaderOK, reader.access # "strided", NEW r \in Ranks, NEW q \in Ranks, r < q,
         NEW i \in 0 .. Count(r) - 1, NEW j \in 0 .. Count(q) - 1
  PROVE  Position(r, i) # Position(q, j)
<1>. DEFINE e == Elements  c == Count(q)  s == reader.sizeOf
<1>n. numProcesses \in Nat /\ Elements \in Nat /\ Count(q) \in Nat /\ Count(r) \in Nat
  BY Numbers
<1>0. numProcesses \in Nat /\ r \in Nat /\ q \in Nat /\ r # numProcesses - 1
  BY <1>n DEF Ranks
<1>1. e \in Nat /\ c \in Nat /\ s \in Nat \ {0} /\ r \in Nat /\ q \in Nat /\ i \in Nat /\ j \in Nat
  <2>1. s \in Nat \ {0}
    BY Numbers
  <2>. QED BY <1>n, <1>0, <2>1
<1>2. Count(r) = e /\ e <= c
  <2>1. Count(r) = Elements
    BY <1>0, Numbers
  <2>2. Elements \in Nat /\ Extra(q) \in Nat
    BY Numbers
  <2>. QED BY <2>1, <2>2 DEF Count
<1>3. Position(r, i) = s * (e * r + i) /\ Position(q, j) = s * (c * q + j)
  BY <1>2 DEF Position
<1>. HIDE DEF e, c, s
<1>4. e * r + i < c * q + j
  <2>1. (r + 1) * e <= q * e
    BY <1>1, MulMonotone
  <2>2. e * q <= c * q
    BY <1>1, <1>2, MulMonotone
  <2>3. (r + 1) * e = e * r + e /\ q * e = e * q
    BY <1>1
  <2>4. e * r \in Nat /\ e * q \in Nat /\ c * q \in Nat
    BY <1>1
  <2>5. i < e
    BY <1>1, <1>2
  <2>. QED BY <1>1, <2>1, <2>2, <2>3, <2>4, <2>5
<1>5. e * r + i \in Nat /\ c * q + j \in Nat
  BY <1>1
<1>6. \A x \in Nat, y \in Nat : x < y => s * x # s * y
  <2>. SUFFICES ASSUME NEW x \in Nat, NEW y \in Nat, x < y PROVE s * x < s * y
    BY <1>1
  <2>1. (x + 1) * s <= y * s
    BY <1>1, MulMonotone
  <2>2. (x + 1) * s = s * x + s /\ y * s = s * y /\ s * x \in Nat /\ s * y \in Nat
    BY <1>1
  <2>. QED BY <1>1, <2>1, <2>2
<1>. QED BY <1>3, <1>4, <1>5, <1>6

(* In whole blocks, a strided read stays in the first copy of its view:    *)
(* each element is in a block of its own process.                          *)
LEMMA PlaceInView ==
  ASSUME ReaderOK, reader.access = "strided", WholeBlocks,
         NEW r \in Ranks, NEW i \in 0 .. Count(r) - 1
  PROVE  LET b == i \div reader.block
         IN  /\ b \in Nat /\ i % reader.block \in 0 .. reader.block - 1
             /\ r + b * numProcesses \in Nat
             /\ Position(r, i) =
                  reader.sizeOf * ((r + b * numProcesses) * reader.block + (i % reader.block))
<1>. DEFINE B == reader.block  P == BlocksInView  n == numProcesses  s == reader.sizeOf
            b == i \div B  x == i % B
<1>1. B \in Nat \ {0} /\ n \in Nat \ {0} /\ s \in Nat \ {0} /\ Elements \in Nat
  BY Numbers
<1>2. P \in Nat /\ P > 0 /\ Elements = P * B
  <2>1. P = Elements \div B /\ P > 0 /\ Elements % B = 0
    BY DEF ReaderOK, BlocksInView, WholeBlocks
  <2>2. P \in Nat /\ Elements = B * P + 0
    BY <1>1, <2>1, DivMod
  <2>. HIDE DEF P, B
  <2>. QED BY <1>1, <2>1, <2>2
<1>3. Count(r) = Elements
  BY <1>1 DEF Count, Extra
<1>4. i \in Nat /\ i < Elements /\ r \in Nat
  BY <1>1, <1>3 DEF Ranks
<1>5. b \in Nat /\ x \in 0 .. B - 1 /\ b < P
  <2>1. i \div B \in Nat /\ i % B \in Nat /\ i % B < B
    BY <1>1, <1>4, DivMod
  <2>2. i \div B < P
    BY <1>1, <1>2, <1>4, SmallerQuotient
  <2>. HIDE DEF P, B
  <2>. QED BY <1>1, <2>1, <2>2
<1>6. b \div P = 0 /\ b % P = b
  <2>. HIDE DEF P, b
  <2>. QED BY <1>2, <1>5
<1>7. ViewExtent \in Int
  <2>1. ViewExtent = ((P - 1) * n + 1) * B
    BY DEF ViewExtent
  <2>. HIDE DEF P, B, n
  <2>2. (P - 1) * n \in Int
    BY <1>1, <1>2
  <2>3. ((P - 1) * n + 1) * B \in Int
    BY <1>1, <2>2
  <2>. QED BY <2>1, <2>3
<1>8. InView(i) = (b \div P) * ViewExtent + (b % P) * n * B + x
  BY DEF InView
<1>9. Position(r, i) = s * (r * B + InView(i))
  BY DEF Position
<1>. HIDE DEF B, P, n, s, b, x
<1>10. InView(i) = b * n * B + x
  <2>1. 0 * ViewExtent = 0
    BY <1>7
  <2>2. b * n * B \in Nat /\ x \in Nat
    BY <1>1, <1>5
  <2>. QED BY <1>6, <1>8, <2>1, <2>2
<1>11. r * B + (b * n * B + x) = (r + b * n) * B + x /\ r + b * n \in Nat
  <2>1. b * n \in Nat
    BY <1>1, <1>5
  <2>2. \A m \in Nat : r * B + (m * B + x) = (r + m) * B + x
    BY <1>1, <1>4, <1>5
  <2>. QED BY <1>4, <2>1, <2>2
<1>12. Position(r, i) = s * ((r + b * n) * B + x)
  BY <1>9, <1>10, <1>11
<1>. QED BY <1>5, <1>11, <1>12 DEF B, n, s, b, x

LEMMA PlaceIs ==
  ASSUME ReaderOK, reader.access = "strided", NEW i \in Nat
  PROVE  LET b == i \div reader.block
             g == numProcesses * reader.block
         IN  /\ b \div BlocksInView \in Nat /\ b % BlocksInView \in 0 .. BlocksInView - 1
             /\ i % reader.block \in 0 .. reader.block - 1
             /\ BlocksInView \in Nat \ {0} /\ g \in Nat /\ reader.block <= g
             /\ ViewExtent = (BlocksInView - 1) * g + reader.block
             /\ InView(i) = (b \div BlocksInView) * ViewExtent
                              + (b % BlocksInView) * g + (i % reader.block)
<1>. DEFINE B == reader.block  P == BlocksInView  n == numProcesses  b == i \div B  x == i % B
            g == n * B
<1>1. B \in Nat \ {0} /\ n \in Nat \ {0} /\ Elements \in Nat
  BY Numbers
<1>2. P \in Nat \ {0}
  <2>1. Elements \div B \in Nat
    BY <1>1, DivMod
  <2>. QED BY <2>1 DEF ReaderOK, BlocksInView
<1>3. b \in Nat /\ x \in 0 .. B - 1
  <2>1. i \div B \in Nat /\ i % B \in Nat /\ i % B < B
    BY <1>1, DivMod
  <2>. HIDE DEF B
  <2>. QED BY <1>1, <2>1
<1>4. ViewExtent = ((P - 1) * n + 1) * B /\ InView(i) = (b \div P) * ViewExtent + (b % P) * n * B + x
  BY DEF ViewExtent, InView
<1>. HIDE DEF B, P, n, b, x
<1>5. b \div P \in Nat /\ b % P \in 0 .. P - 1
  <2>1. b \div P \in Nat /\ b % P \in Nat /\ b % P < P
    BY <1>2, <1>3, DivMod
  <2>. QED BY <1>2, <2>1
<1>6. g \in Nat /\ B <= g
  <2>1. 1 * B <= n * B /\ n * B \in Nat
    BY <1>1, MulMonotone
  <2>. QED BY <1>1, <2>1
<1>7. \A d \in Nat : d * n * B = d * g
  BY <1>1
<1>8. ((P - 1) * n + 1) * B = (P - 1) * g + B
  <2>1. P - 1 \in Nat
    BY <1>2
  <2>2. \A d \in Nat : (d * n + 1) * B = d * g + B
    BY <1>1
  <2>. HIDE DEF g
  <2>. QED BY <2>1, <2>2
<1>9. b % P \in Nat
  BY <1>5
<1>10. InView(i) = (b \div P) * ViewExtent + (b % P) * g + x
  <2>1. (b % P) * n * B = (b % P) * g
    BY <1>7, <1>9
  <2>. QED BY <1>4, <2>1
<1>11. ViewExtent = (P - 1) * g + B
  BY <1>4, <1>8
<1>. QED BY <1>2, <1>3, <1>5, <1>6, <1>10, <1>11 DEF B, P, n, b, x, g

LEMMA ThreeDigits ==
  ASSUME NEW P \in Nat \ {0}, NEW B \in Nat \ {0}, NEW g \in Nat, B <= g,
         NEW c \in Nat, NEW d \in 0 .. P - 1, NEW x \in 0 .. B - 1,
         NEW e \in Nat, NEW f \in 0 .. P - 1, NEW y \in 0 .. B - 1,
         NEW V \in Nat, V = (P - 1) * g + B,
         c < e \/ (c = e /\ (d < f \/ (d = f /\ x <= y)))
  PROVE  c * V + d * g + x <= e * V + f * g + y
<1>1. c * V \in Nat /\ e * V \in Nat /\ d * g \in Nat /\ f * g \in Nat
  OBVIOUS
<1>2. CASE c < e
  <2>1. d * g <= (P - 1) * g
    BY MulMonotone
  <2>2. V \in Nat \ {0} /\ d * g + x \in 0 .. V - 1
    <3>. DEFINE m == (P - 1) * g  u == d * g
    <3>1. m \in Nat /\ u \in Nat /\ u <= m /\ V = m + B
      BY <2>1
    <3>. HIDE DEF m, u
    <3>2. V \in Nat \ {0} /\ u + x \in 0 .. V - 1
      BY <3>1
    <3>. QED BY <3>2 DEF u
  <2>. DEFINE u == d * g + x  w == f * g + y
  <2>3. w \in Nat /\ u \in 0 .. V - 1
    BY <1>1, <2>2
  <2>4. c * V + u = c * V + d * g + x /\ e * V + w = e * V + f * g + y
    BY <1>1
  <2>. HIDE DEF u, w
  <2>5. c * V + u < e * V + w
    BY <1>2, <2>2, <2>3, LexLess
  <2>6. c * V + u \in Int /\ e * V + w \in Int
    BY <1>1, <2>3
  <2>. QED BY <2>4, <2>5, <2>6
<1>3. CASE c = e /\ d < f
  <2>1. (d + 1) * g <= f * g
    BY <1>3, MulMonotone
  <2>2. (d + 1) * g = d * g + g
    OBVIOUS
  <2>. QED BY <1>1, <1>3, <2>1, <2>2
<1>4. CASE c = e /\ d = f /\ x <= y
  BY <1>1, <1>4
<1>. QED BY <1>2, <1>3, <1>4

(* The positions a process reads grow.                                     *)
LEMMA PositionGrows ==
  ASSUME ReaderOK, NEW r \in Ranks, NEW i \in Nat, NEW j \in Nat, i <= j
  PROVE  Position(r, i) \in Nat /\ Position(r, i) <= Position(r, j)
<1>. DEFINE s == reader.sizeOf
<1>1. s \in Nat \ {0} /\ r \in Nat /\ Count(r) \in Nat /\ reader.block \in Nat \ {0}
  <2>1. numProcesses \in Nat /\ s \in Nat \ {0} /\ reader.block \in Nat \ {0}
    BY Numbers
  <2>2. Count(r) \in Nat
    BY Numbers
  <2>3. r \in Nat
    BY <2>1 DEF Ranks
  <2>. QED BY <2>1, <2>2, <2>3
<1>2. ASSUME NEW a \in Nat, NEW b \in Nat, a <= b
      PROVE  s * a \in Nat /\ s * a <= s * b
  <2>1. a * s <= b * s /\ a * s \in Nat
    BY <1>1, <1>2, MulMonotone
  <2>2. s * a = a * s /\ s * b = b * s
    BY <1>1
  <2>. QED BY <2>1, <2>2
<1>3. CASE reader.access # "strided"
  <2>1. Position(r, i) = s * (Count(r) * r + i) /\ Position(r, j) = s * (Count(r) * r + j)
    BY <1>3 DEF Position
  <2>2. Count(r) * r \in Nat
    BY <1>1
  <2>. DEFINE a == Count(r) * r + i  b == Count(r) * r + j
  <2>3. a \in Nat /\ b \in Nat /\ a <= b
    BY <2>2
  <2>. HIDE DEF a, b
  <2>4. s * a \in Nat /\ s * a <= s * b
    BY <1>2, <2>3
  <2>. HIDE DEF s
  <2>. QED BY <2>1, <2>4 DEF a, b
<1>4. CASE reader.access = "strided"
  <2>. DEFINE B == reader.block  P == BlocksInView  g == numProcesses * B  V == ViewExtent
              c == (i \div B) \div P  d == (i \div B) % P  x == i % B
              e == (j \div B) \div P  f == (j \div B) % P  y == j % B
  <2>1. /\ c \in Nat /\ d \in 0 .. P - 1 /\ x \in 0 .. B - 1
        /\ P \in Nat \ {0} /\ g \in Nat /\ B <= g /\ V = (P - 1) * g + B
        /\ InView(i) = c * V + d * g + x
    BY <1>4, PlaceIs
  <2>2. e \in Nat /\ f \in 0 .. P - 1 /\ y \in 0 .. B - 1 /\ InView(j) = e * V + f * g + y
    BY <1>4, PlaceIs
  <2>3. c < e \/ (c = e /\ (d < f \/ (d = f /\ x <= y)))
    <3>. DEFINE a == i \div B  b == j \div B
    <3>1. /\ a \in Nat /\ i = B * a + x
          /\ b \in Nat /\ j = B * b + y
      BY <1>1, DivMod
    <3>2. a <= b
      BY <1>1, DivMonotone
    <3>0. c = a \div P /\ d = a % P /\ e = b \div P /\ f = b % P
      OBVIOUS
    <3>3. a = P * c + d /\ b = P * e + f
      <4>. HIDE DEF a, b, P, c, d, e, f
      <4>. QED BY <2>1, <3>0, <3>1, DivMod
    <3>4. c <= e
      <4>. HIDE DEF a, b, P, c, d, e, f
      <4>. QED BY <2>1, <3>0, <3>1, <3>2, DivMonotone
    <3>5. B \in Nat \ {0}
      BY <1>1
    <3>. HIDE DEF a, b, P, B, c, d, e, f, x, y
    <3>6. c \in Nat /\ e \in Nat /\ d \in Nat /\ f \in Nat /\ x \in Nat /\ y \in Nat
      BY <2>1, <2>2, <3>5
    <3>7. CASE c = e
      <4>1. d <= f
        <5>1. P * c \in Nat /\ P * c = P * e
          BY <2>1, <3>6, <3>7
        <5>. QED BY <3>2, <3>3, <3>6, <5>1
      <4>2. ASSUME d = f PROVE x <= y
        <5>1. a = b /\ B * a \in Nat
          BY <3>1, <3>3, <3>5, <3>7, <4>2
        <5>. QED BY <3>1, <3>6, <5>1
      <4>. QED BY <3>6, <3>7, <4>1, <4>2
    <3>. QED BY <3>4, <3>6, <3>7
  <2>4. V \in Nat
    <3>1. P - 1 \in Nat /\ B \in Nat
      BY <1>1, <2>1
    <3>2. (P - 1) * g \in Nat
      BY <2>1, <3>1
    <3>. QED BY <2>1, <3>1, <3>2
  <2>5. B \in Nat \ {0}
    BY <1>1
  <2>6. Position(r, i) = s * (r * B + InView(i)) /\ Position(r, j) = s * (r * B + InView(j))
    BY <1>4 DEF Position
  <2>. HIDE DEF P, g, V, B, c, d, e, f, x, y
  <2>7. InView(i) <= InView(j)
    BY <2>1, <2>2, <2>3, <2>4, <2>5, ThreeDigits
  <2>8. InView(i) \in Nat /\ InView(j) \in Nat
    <3>1. c * V \in Nat /\ e * V \in Nat /\ d * g \in Nat /\ f * g \in Nat
      BY <2>1, <2>2, <2>4, <2>5
    <3>2. x \in Nat /\ y \in Nat
      BY <2>1, <2>2, <2>5
    <3>. QED BY <2>1, <2>2, <3>1, <3>2
  <2>. DEFINE a == r * B + InView(i)  b == r * B + InView(j)
  <2>9. a \in Nat /\ b \in Nat /\ a <= b
    <3>1. r * B \in Nat
      BY <1>1, <2>5
    <3>. QED BY <2>7, <2>8, <3>1
  <2>. HIDE DEF a, b
  <2>10. s * a \in Nat /\ s * a <= s * b
    BY <1>2, <2>9
  <2>. HIDE DEF s
  <2>. QED BY <2>6, <2>10 DEF a, b
<1>. QED BY <1>3, <1>4

(* What a process reads are the elements of its first positions.           *)
InFile(r) == {i \in 0 .. Count(r) - 1 : Position(r, i) + reader.sizeOf <= file.size}

LEMMA ReadsThePrefix ==
  ASSUME ReaderOK, NEW r \in Ranks
  PROVE  \E m \in 0 .. Count(r) :
           /\ InFile(r) = 0 .. m - 1
           /\ ElementsRead(r) = [i \in 1 .. m |-> Position(r, i - 1)]
           /\ Len(ElementsRead(r)) = m
<1>. DEFINE D == InFile(r)
<1>1. Count(r) \in Nat /\ reader.sizeOf \in Nat /\ file.size \in Nat
  BY Numbers
<1>2. D \subseteq 0 .. Count(r) - 1
  BY DEF InFile
<1>3. \A i \in D : \A j \in 0 .. i : j \in D
  <2>. SUFFICES ASSUME NEW i \in D, NEW j \in 0 .. i PROVE j \in D
    OBVIOUS
  <2>1. i \in 0 .. Count(r) - 1 /\ Position(r, i) + reader.sizeOf <= file.size
    BY DEF InFile
  <2>2. i \in Nat /\ j \in Nat /\ j <= i /\ j \in 0 .. Count(r) - 1
    BY <1>1, <2>1
  <2>3. Position(r, j) \in Nat /\ Position(r, j) <= Position(r, i) /\ Position(r, i) \in Nat
    BY <2>2, PositionGrows
  <2>4. Position(r, j) + reader.sizeOf <= file.size
    BY <1>1, <2>1, <2>3
  <2>. QED BY <2>2, <2>4 DEF InFile
<1>4. ElementsRead(r) = [i \in 1 .. Cardinality(D) |-> Position(r, i - 1)]
  BY DEF ElementsRead, InFile
<1>. HIDE DEF D
<1>5. Cardinality(D) \in Nat /\ D = 0 .. Cardinality(D) - 1
  BY <1>1, <1>2, <1>3, Prefix
<1>6. Cardinality(D) <= Count(r)
  BY <1>1, <1>2, <1>5, Cardinality(D) > 0 => Cardinality(D) - 1 \in D
<1>7. Len(ElementsRead(r)) = Cardinality(D)
  BY <1>4, <1>5
<1>. QED BY <1>1, <1>4, <1>5, <1>6, <1>7 DEF D

LEMMA RestIsNoElement ==
  ASSUME ReaderOK, Fits, NEW r \in Ranks
  PROVE  Count(r) = Elements
<1>1. /\ numProcesses \in Nat \ {0} /\ reader.sizeOf \in Nat \ {0}
      /\ BufSize \in Nat /\ Elements \in Nat
  BY Numbers
<1>2. ASSUME reader.access = "with rest"
      PROVE  (BufSize % numProcesses) \div reader.sizeOf = 0
  <2>1. BufSize % numProcesses \in Nat /\ BufSize % numProcesses < numProcesses
    BY <1>1, DivMod
  <2>2. numProcesses <= reader.sizeOf
    BY <1>2 DEF Fits
  <2>3. BufSize % numProcesses < 1 * reader.sizeOf
    BY <1>1, <2>1, <2>2
  <2>4. (BufSize % numProcesses) \div reader.sizeOf < 1
    BY <1>1, <2>1, <2>3, SmallerQuotient
  <2>. QED BY <1>1, <2>1, <2>4, DivMod
<1>3. Extra(r) = 0
  BY <1>2 DEF Extra
<1>. QED BY <1>1, <1>3 DEF Count

(* Elements that fit are as many bytes as the buffer has, or fewer.        *)
LEMMA NoOverrun ==
  ASSUME ReaderOK, Fits, NEW r \in Ranks
  PROVE  ~Overrun(r)
<1>. DEFINE len == Len(ElementsRead(r))  s == reader.sizeOf
<1>1. s \in Nat \ {0} /\ BufSize \in Nat /\ Elements \in Nat
  BY Numbers
<1>2. len \in Nat /\ len <= Elements
  BY ReadsItsPositions, RestIsNoElement
<1>3. reader.extent = s
  BY DEF Fits
<1>4. Elements = BufSize \div s
  BY DEF Elements
<1>. HIDE DEF len, s
<1>5. len * s <= Elements * s
  BY <1>1, <1>2, MulMonotone
<1>6. BufSize = s * Elements + (BufSize % s) /\ BufSize % s \in Nat
  BY <1>1, <1>4, DivMod
<1>7. Elements * s = s * Elements /\ Elements * s \in Nat /\ len * s \in Nat
  BY <1>1, <1>2
<1>8. len * s <= BufSize
  BY <1>1, <1>5, <1>6, <1>7
<1>9. ~(len * s > BufSize)
  BY <1>1, <1>7, <1>8
<1>. QED BY <1>3, <1>9 DEF Overrun, len

(* A strided read stays in the first copy of its view with its whole       *)
(* blocks, and continues right behind it with the rest.                    *)
BlockOf(r, i) ==
  LET b == i \div reader.block
  IN  IF b < BlocksInView THEN b * numProcesses + r
      ELSE (BlocksInView - 1) * numProcesses + (r + 1)

LEMMA BlockIs ==
  ASSUME ReaderOK, reader.access = "strided", NEW r \in Ranks, NEW i \in 0 .. Count(r) - 1
  PROVE  /\ i \div reader.block \in 0 .. BlocksInView
         /\ i % reader.block \in 0 .. reader.block - 1
         /\ BlockOf(r, i) \in Nat
         /\ Position(r, i) = reader.sizeOf * (BlockOf(r, i) * reader.block + (i % reader.block))
<1>. DEFINE B == reader.block  P == BlocksInView  n == numProcesses  s == reader.sizeOf
            b == i \div B  x == i % B  g == n * B  V == ViewExtent
<1>1. B \in Nat \ {0} /\ n \in Nat \ {0} /\ s \in Nat \ {0} /\ Elements \in Nat
  BY Numbers
<1>2. Count(r) = Elements
  BY <1>1 DEF Count, Extra
<1>3. i \in Nat /\ i < Elements /\ r \in Nat
  BY <1>1, <1>2 DEF Ranks
<1>4. /\ x \in 0 .. B - 1 /\ P \in Nat \ {0} /\ g \in Nat
      /\ V = (P - 1) * g + B
      /\ InView(i) = (b \div P) * V + (b % P) * g + x
  BY <1>3, PlaceIs
<1>5. b \in Nat /\ b < P + 1
  <2>1. P = Elements \div B
    BY DEF BlocksInView
  <2>2. Elements = B * P + (Elements % B) /\ Elements % B \in Nat /\ Elements % B < B
    BY <1>1, <2>1, DivMod
  <2>3. b \in Nat
    BY <1>1, <1>3, DivMod
  <2>. HIDE DEF P, B
  <2>4. (P + 1) * B = B * P + B /\ B * P \in Nat
    BY <1>1, <1>4
  <2>5. i < (P + 1) * B
    BY <1>1, <1>3, <2>2, <2>4
  <2>6. P + 1 \in Nat
    BY <1>4
  <2>. QED BY <1>1, <1>3, <2>3, <2>5, <2>6, SmallerQuotient
<1>6. Position(r, i) = s * (r * B + InView(i))
  BY DEF Position
<1>7. BlockOf(r, i) = IF b < P THEN b * n + r ELSE (P - 1) * n + (r + 1)
  BY DEF BlockOf
<1>. HIDE DEF B, P, n, s, b, x, V
<1>8. BlockOf(r, i) \in Nat
  <2>1. b * n \in Nat
    BY <1>1, <1>5
  <2>2. P - 1 \in Nat
    BY <1>4
  <2>3. (P - 1) * n \in Nat
    BY <1>1, <2>2
  <2>. QED BY <1>3, <1>7, <2>1, <2>3
<1>9. \A c \in Nat : c * g = (c * n) * B /\ c * n \in Nat
  BY <1>1
<1>10. \A c \in Nat, m \in Nat : (c + m) * B = c * B + m * B /\ c * B \in Nat /\ m * B \in Nat
  BY <1>1
<1>. HIDE DEF g
<1>11. r * B + InView(i) = BlockOf(r, i) * B + x
  <2>1. CASE b < P
    <3>1. b \div P = 0 /\ b % P = b
      BY <1>4, <1>5, <2>1
    <3>2. V \in Int
      <4>1. P - 1 \in Nat
        BY <1>4
      <4>2. (P - 1) * g \in Nat
        BY <1>4, <4>1
      <4>. QED BY <1>1, <1>4, <4>2
    <3>3. 0 * V = 0
      BY <3>2
    <3>4. b * g = (b * n) * B /\ b * n \in Nat
      BY <1>5, <1>9
    <3>5. (b * n + r) * B = (b * n) * B + r * B /\ (b * n) * B \in Nat /\ r * B \in Nat
      BY <1>3, <1>10, <3>4
    <3>. QED BY <1>1, <1>4, <1>7, <2>1, <3>1, <3>3, <3>4, <3>5
  <2>2. CASE ~(b < P)
    <3>1. b = P
      BY <1>4, <1>5, <2>2
    <3>2. b \div P = 1 /\ b % P = 0
      <4>1. (1 * P + 0) \div P = 1 /\ (1 * P + 0) % P = 0
        BY <1>4, QuotientIs
      <4>2. 1 * P + 0 = P
        BY <1>4
      <4>. QED BY <3>1, <4>1, <4>2
    <3>3. P - 1 \in Nat
      BY <1>4
    <3>4. (P - 1) * g = ((P - 1) * n) * B /\ (P - 1) * n \in Nat
      BY <1>9, <3>3
    <3>. DEFINE m == (P - 1) * n
    <3>5. m \in Nat /\ V = m * B + B
      BY <1>4, <3>4
    <3>. HIDE DEF m
    <3>6. (m + (r + 1)) * B = m * B + (r + 1) * B /\ m * B \in Nat /\ (r + 1) * B \in Nat
      BY <1>3, <1>10, <3>5
    <3>7. (r + 1) * B = r * B + 1 * B /\ r * B \in Nat
      BY <1>3, <1>10
    <3>8. InView(i) = m * B + B + x
      <4>1. 0 * g = 0 /\ 1 * V = V
        BY <1>1, <1>4, <3>5, <3>6
      <4>2. V \in Nat
        BY <1>1, <3>5, <3>6
      <4>3. InView(i) = 1 * V + 0 * g + x
        BY <1>4, <3>2
      <4>. QED BY <1>1, <1>4, <3>5, <4>1, <4>2, <4>3
    <3>9. BlockOf(r, i) = m + (r + 1)
      BY <1>7, <2>2 DEF m
    <3>. QED BY <1>1, <1>4, <3>6, <3>7, <3>8, <3>9
  <2>. QED BY <2>1, <2>2
<1>12. b \in 0 .. P
  BY <1>4, <1>5
<1>. QED BY <1>4, <1>6, <1>8, <1>11, <1>12 DEF B, P, s, b, x

(* So two of them meet in the rest of the one before only.                 *)
LEMMA BlocksShared ==
  ASSUME ReaderOK, reader.access = "strided", NEW r \in Ranks, NEW q \in Ranks, r < q,
         NEW i \in 0 .. Count(r) - 1, NEW j \in 0 .. Count(q) - 1,
         Position(r, i) = Position(q, j)
  PROVE  q = r + 1 /\ i >= BlocksInView * reader.block
<1>. DEFINE B == reader.block  n == numProcesses  s == reader.sizeOf  P == BlocksInView
            b == i \div B  c == j \div B  x == i % B  y == j % B
            d == BlockOf(r, i)  e == BlockOf(q, j)
<1>1. B \in Nat \ {0} /\ n \in Nat \ {0} /\ s \in Nat \ {0} /\ Count(r) \in Nat
  BY Numbers
<1>2. P \in Nat \ {0} /\ i \in Nat
  BY <1>1, PlaceIs
<1>3. /\ b \in 0 .. P /\ x \in 0 .. B - 1 /\ d \in Nat
      /\ Position(r, i) = s * (d * B + x)
  BY BlockIs
<1>4. /\ c \in 0 .. P /\ y \in 0 .. B - 1 /\ e \in Nat
      /\ Position(q, j) = s * (e * B + y)
  BY BlockIs
<1>5. r \in 0 .. n - 1 /\ q \in 0 .. n - 1
  BY DEF Ranks
<1>6. /\ d = IF b < P THEN b * n + r ELSE (P - 1) * n + (r + 1)
      /\ e = IF c < P THEN c * n + q ELSE (P - 1) * n + (q + 1)
  BY DEF BlockOf
<1>7. i = B * b + x
  BY <1>1, <1>2, DivMod
<1>. HIDE DEF B, n, s, P, b, c, x, y, d, e
<1>8. d = e
  <2>1. \A u \in Nat, v \in Nat : s * u = s * v => u = v
    <3>. SUFFICES ASSUME NEW u \in Nat, NEW v \in Nat, s * u = s * v PROVE u = v
      OBVIOUS
    <3>1. u * s + 0 = v * s + 0
      BY <1>1
    <3>. QED BY <1>1, <3>1, Quotients
  <2>2. d * B + x \in Nat /\ e * B + y \in Nat
    BY <1>1, <1>3, <1>4
  <2>3. d * B + x = e * B + y
    BY <1>3, <1>4, <2>1, <2>2
  <2>. QED BY <1>1, <1>3, <1>4, <2>3, Quotients
<1>9. P - 1 \in Nat /\ (P - 1) * n \in Nat /\ b * n \in Nat /\ c * n \in Nat
  <2>1. P - 1 \in Nat /\ b \in Nat /\ c \in Nat
    BY <1>2, <1>3, <1>4
  <2>. QED BY <1>1, <2>1
<1>10. CASE b < P
  <2>1. d = b * n + r
    BY <1>6, <1>10
  <2>2. CASE c < P
    <3>1. b * n + r = c * n + q
      BY <1>6, <1>8, <2>1, <2>2
    <3>2. b = c
      BY <1>1, <1>3, <1>4, <1>5, <3>1, Quotients
    <3>3. b * n = c * n
      BY <3>2
    <3>4. r = q
      BY <1>1, <1>5, <1>9, <3>1, <3>3
    <3>. QED BY <1>1, <1>5, <3>4
  <2>3. CASE ~(c < P)
    <3>1. b <= P - 1
      BY <1>2, <1>3, <1>10
    <3>2. b * n <= (P - 1) * n
      BY <1>1, <1>2, <1>3, <3>1, MulMonotone
    <3>3. e = (P - 1) * n + (q + 1)
      BY <1>6, <2>3
    <3>. DEFINE m == (P - 1) * n  l == b * n
    <3>4. m \in Nat /\ l \in Nat /\ l <= m /\ l + r = m + (q + 1)
      BY <1>8, <1>9, <2>1, <3>2, <3>3
    <3>. HIDE DEF m, l
    <3>. QED BY <1>1, <1>5, <3>4
  <2>. QED BY <2>2, <2>3
<1>11. CASE ~(b < P)
  <2>1. d = (P - 1) * n + (r + 1) /\ b = P
    BY <1>2, <1>3, <1>6, <1>11
  <2>2. i >= P * B
    <3>1. B * P = P * B /\ P * B \in Nat
      BY <1>1, <1>2
    <3>. QED BY <1>1, <1>3, <1>7, <2>1, <3>1
  <2>3. CASE c < P
    <3>1. e = c * n + q
      BY <1>6, <2>3
    <3>2. r + 1 \in 0 .. n - 1
      BY <1>1, <1>5
    <3>3. (P - 1) * n + (r + 1) = c * n + q
      BY <1>8, <2>1, <3>1
    <3>4. P - 1 = c
      BY <1>1, <1>4, <1>5, <1>9, <3>2, <3>3, Quotients
    <3>5. q = r + 1
      BY <1>5, <1>9, <3>3, <3>4
    <3>. QED BY <2>2, <3>5 DEF B, P
  <2>4. CASE ~(c < P)
    <3>1. e = (P - 1) * n + (q + 1)
      BY <1>6, <2>4
    <3>. DEFINE m == (P - 1) * n
    <3>2. m \in Nat /\ m + (r + 1) = m + (q + 1)
      BY <1>8, <1>9, <2>1, <3>1
    <3>. HIDE DEF m
    <3>. QED BY <1>1, <1>5, <3>2
  <2>. QED BY <2>3, <2>4
<1>. QED BY <1>10, <1>11

-----------------------------------------------------------------------------
(* Records.                                                                *)

Whole == Binary /\ Fits /\ WholeBlocks /\ WholeRecords

(* The records of a process, and the m-th of them in the file.             *)
RecordsEach == Elements \div reader.perRecord
BlockRecords == reader.block \div reader.perRecord
RecordNo(r, m) ==
  IF reader.access = "strided"
  THEN (r + (m \div BlockRecords) * numProcesses) * BlockRecords + (m % BlockRecords)
  ELSE r * RecordsEach + m

LEMMA WholeNumbers ==
  ASSUME ReaderOK, Whole
  PROVE  /\ reader.perRecord \in Nat \ {0} /\ RecordsEach \in Nat
         /\ Elements = RecordsEach * reader.perRecord
         /\ reader.access = "strided" =>
              /\ BlockRecords \in Nat \ {0} /\ BlocksInView \in Nat \ {0}
              /\ reader.block = BlockRecords * reader.perRecord
              /\ RecordsEach = BlocksInView * BlockRecords
<1>. DEFINE P == reader.perRecord  B == reader.block
<1>1. P \in Nat \ {0} /\ (reader.access = "strided" => B % P = 0)
  BY FileReadersConstants DEF ReaderOK, IsReader
<1>2. Elements \in Nat /\ B \in Nat \ {0}
  BY Numbers
<1>3. RecordsEach \in Nat /\ Elements = RecordsEach * P
  <2>1. Elements % P = 0
    BY DEF Whole, WholeRecords
  <2>2. RecordsEach = Elements \div P
    BY DEF RecordsEach
  <2>. HIDE DEF P
  <2>3. RecordsEach \in Nat /\ Elements = P * RecordsEach + 0
    BY <1>1, <1>2, <2>1, <2>2, DivMod
  <2>. QED BY <1>1, <2>3
<1>4. ASSUME reader.access = "strided"
      PROVE  /\ BlockRecords \in Nat \ {0} /\ BlocksInView \in Nat \ {0}
             /\ B = BlockRecords * P
             /\ RecordsEach = BlocksInView * BlockRecords
  <2>1. B % P = 0 /\ Elements % B = 0 /\ BlocksInView > 0
    BY <1>1, <1>4 DEF Whole, WholeBlocks, ReaderOK
  <2>2. BlockRecords = B \div P /\ BlocksInView = Elements \div B
    BY DEF BlockRecords, BlocksInView
  <2>. HIDE DEF P, B
  <2>3. BlockRecords \in Nat /\ B = P * BlockRecords + 0
    BY <1>1, <1>2, <2>1, <2>2, DivMod
  <2>4. BlocksInView \in Nat /\ Elements = B * BlocksInView + 0
    BY <1>1, <1>2, <2>1, <2>2, DivMod
  <2>5. B = BlockRecords * P /\ BlockRecords # 0
    BY <1>1, <1>2, <2>3
  <2>6. RecordsEach * P + 0 = (BlocksInView * BlockRecords) * P + 0
    <3>1. B * BlocksInView = (BlocksInView * BlockRecords) * P
      BY <1>1, <2>3, <2>4, <2>5
    <3>. QED BY <1>3, <2>4, <3>1
  <2>7. BlocksInView * BlockRecords \in Nat
    BY <2>3, <2>4
  <2>8. 0 \in 0 .. P - 1
    BY <1>1
  <2>9. RecordsEach = BlocksInView * BlockRecords
    BY <1>1, <1>3, <2>6, <2>7, <2>8, Quotients
  <2>. QED BY <2>1, <2>3, <2>4, <2>5, <2>9
<1>. QED BY <1>1, <1>3, <1>4

(* The elements of a record follow each other in the file.                 *)
LEMMA RecordAt ==
  ASSUME ReaderOK, Whole, NEW r \in Ranks, NEW m \in 0 .. RecordsEach - 1,
         NEW j \in 0 .. reader.perRecord - 1
  PROVE  /\ RecordNo(r, m) \in Nat
         /\ m * reader.perRecord + j \in 0 .. Elements - 1
         /\ Position(r, m * reader.perRecord + j) =
              reader.sizeOf * (RecordNo(r, m) * reader.perRecord + j)
<1>. DEFINE P == reader.perRecord  s == reader.sizeOf  n == numProcesses  R == RecordsEach
            i == m * P + j
<1>1. P \in Nat \ {0} /\ R \in Nat /\ Elements = R * P
  BY WholeNumbers
<1>2. n \in Nat \ {0} /\ s \in Nat \ {0}
  BY Numbers
<1>3. r \in Nat /\ m \in Nat /\ j \in 0 .. P - 1
  BY <1>2 DEF Ranks
<1>4. Count(r) = Elements
  BY RestIsNoElement DEF Whole
<1>5. i \in 0 .. Elements - 1
  <2>1. m + 0 < R /\ m \in Nat
    BY <1>1
  <2>. HIDE DEF R, P
  <2>2. m * P + j < R * P + 0
    BY <1>1, <1>3, <2>1, LexLess
  <2>3. m * P \in Nat
    BY <1>1, <2>1
  <2>. QED BY <1>1, <2>2, <2>3
<1>6. CASE reader.access # "strided"
  <2>1. Position(r, i) = s * (Elements * r + i) /\ RecordNo(r, m) = r * R + m
    BY <1>4, <1>6 DEF Position, RecordNo
  <2>. HIDE DEF s, P, R
  <2>2. r * R + m \in Nat
    BY <1>1, <1>3
  <2>3. Elements * r + i = (r * R + m) * P + j
    <3>1. R * P * r = r * R * P
      BY <1>1, <1>3
    <3>2. (r * R + m) * P = r * R * P + m * P
      <4>1. \A a \in Nat, b \in Nat : (a + b) * P = a * P + b * P
        BY <1>1
      <4>2. r * R \in Nat
        BY <1>1, <1>3
      <4>. QED BY <1>3, <4>1, <4>2
    <3>3. m * P \in Nat /\ r * R * P \in Nat
      BY <1>1, <1>3
    <3>. QED BY <1>1, <3>1, <3>2, <3>3
  <2>. QED BY <1>5, <2>1, <2>2, <2>3 DEF s, P, R
<1>7. CASE reader.access = "strided"
  <2>. DEFINE K == BlockRecords  c == m \div K  y == m % K  B == reader.block
  <2>1. K \in Nat \ {0} /\ B = K * P
    BY <1>7, WholeNumbers
  <2>2. c \in Nat /\ y \in 0 .. K - 1 /\ m = c * K + y
    <3>1. m \div K \in Nat /\ m % K \in Nat /\ m % K < K /\ m = K * (m \div K) + (m % K)
      <4>. HIDE DEF K
      <4>. QED BY <1>3, <2>1, DivMod
    <3>2. K * (m \div K) = (m \div K) * K
      BY <2>1, <3>1
    <3>3. y \in 0 .. K - 1
      BY <2>1, <3>1
    <3>. QED BY <3>1, <3>2, <3>3
  <2>3. RecordNo(r, m) = (r + c * n) * K + y
    BY <1>7 DEF RecordNo
  <2>4. /\ r + (i \div B) * n \in Nat
        /\ Position(r, i) = s * ((r + (i \div B) * n) * B + (i % B))
    BY <1>4, <1>5, <1>7, PlaceInView DEF Whole
  <2>. HIDE DEF K, c, y, B, n, s, P
  <2>5. i = c * B + (y * P + j) /\ y * P + j \in 0 .. B - 1 /\ B \in Nat \ {0}
    <3>1. (c * K + y) * P = c * (K * P) + y * P
      <4>1. \A a \in Nat, b \in Nat : (a + b) * P = a * P + b * P
        BY <1>1
      <4>2. c * K \in Nat /\ y \in Nat /\ c * K * P = c * (K * P)
        BY <1>1, <2>1, <2>2
      <4>. QED BY <4>1, <4>2
    <3>2. y * P + j < K * P + 0
      <4>1. y \in Nat /\ y < K /\ K \in Nat
        BY <2>1, <2>2
      <4>. QED BY <1>1, <1>3, <4>1, LexLess
    <3>3. y * P \in Nat /\ c * (K * P) \in Nat /\ K * P \in Nat \ {0}
      BY <1>1, <2>1, <2>2
    <3>. DEFINE u == y * P  w == c * (K * P)  kp == K * P
    <3>4. i = w + (u + j)
      <4>1. i = (c * K + y) * P + j
        BY <2>2 DEF P
      <4>2. (c * K + y) * P = w + u
        BY <3>1
      <4>3. j \in Nat /\ w \in Nat /\ u \in Nat
        BY <1>1, <3>3
      <4>. HIDE DEF u, w
      <4>. QED BY <4>1, <4>2, <4>3
    <3>5. u + j \in 0 .. kp - 1 /\ kp \in Nat \ {0}
      <4>1. u + j < kp /\ u \in Nat /\ kp \in Nat \ {0} /\ j \in Nat
        BY <1>1, <3>2, <3>3
      <4>. HIDE DEF u, kp
      <4>. QED BY <4>1
    <3>. QED BY <2>1, <3>4, <3>5
  <2>6. i \div B = c /\ i % B = y * P + j
    <3>. DEFINE z == y * P + j
    <3>1. i = c * B + z /\ z \in 0 .. B - 1
      BY <2>5
    <3>. HIDE DEF z, i
    <3>2. (c * B + z) \div B = c /\ (c * B + z) % B = z
      BY <2>2, <2>5, <3>1, QuotientIs
    <3>. QED BY <3>1, <3>2 DEF z
  <2>7. (r + c * n) * B + (y * P + j) = ((r + c * n) * K + y) * P + j
    <3>. DEFINE q == r + c * n
    <3>1. q \in Nat
      BY <1>2, <1>3, <2>2
    <3>. HIDE DEF q
    <3>2. (q * K + y) * P = q * (K * P) + y * P
      <4>1. \A a \in Nat, b \in Nat : (a + b) * P = a * P + b * P
        BY <1>1
      <4>2. q * K \in Nat /\ y \in Nat /\ q * K * P = q * (K * P)
        BY <1>1, <2>1, <2>2, <3>1
      <4>. QED BY <4>1, <4>2
    <3>3. y * P \in Nat /\ q * (K * P) \in Nat /\ j \in Nat
      BY <1>1, <2>1, <2>2, <3>1
    <3>4. q * B + (y * P + j) = (q * K + y) * P + j
      BY <2>1, <3>2, <3>3
    <3>. QED BY <3>4 DEF q
  <2>8. (r + c * n) * K + y \in Nat
    BY <1>2, <1>3, <2>1, <2>2
  <2>. HIDE DEF i
  <2>9. Position(r, i) = s * (RecordNo(r, m) * P + j)
    BY <2>3, <2>4, <2>6, <2>7
  <2>. QED BY <1>5, <2>3, <2>8, <2>9 DEF i, s, P
<1>. QED BY <1>6, <1>7

(* Each process has read all its elements.                                 *)
LEMMA RecordsInRange ==
  ASSUME ReaderOK, Whole, NEW r \in Ranks, NEW m \in 0 .. RecordsEach - 1
  PROVE  RecordNo(r, m) \in 0 .. RecordsEach * numProcesses - 1
<1>. DEFINE n == numProcesses  R == RecordsEach
<1>1. n \in Nat \ {0} /\ R \in Nat /\ r \in 0 .. n - 1
  BY Numbers, WholeNumbers DEF Ranks
<1>2. m \in Nat /\ m < R
  BY <1>1
<1>3. CASE reader.access # "strided"
  <2>1. RecordNo(r, m) = r * R + m
    BY <1>3 DEF RecordNo
  <2>. HIDE DEF n, R
  <2>2. r * R + m < n * R + 0
    <3>1. R \in Nat \ {0} /\ m \in 0 .. R - 1 /\ r \in Nat /\ r < n
      BY <1>1, <1>2
    <3>. QED BY <1>1, <3>1, LexLess
  <2>3. r * R \in Nat /\ n * R \in Nat /\ n * R = R * n
    BY <1>1
  <2>. QED BY <1>2, <2>1, <2>2, <2>3 DEF n, R
<1>4. CASE reader.access = "strided"
  <2>. DEFINE K == BlockRecords  V == BlocksInView  c == m \div K  y == m % K
  <2>1. K \in Nat \ {0} /\ V \in Nat \ {0} /\ R = V * K
    BY <1>4, WholeNumbers
  <2>2. RecordNo(r, m) = (r + c * n) * K + y
    BY <1>4 DEF RecordNo
  <2>3. c \in Nat /\ y \in 0 .. K - 1 /\ c < V
    <3>1. m \div K \in Nat /\ m % K \in Nat /\ m % K < K /\ m \div K < V
      <4>. HIDE DEF K, V
      <4>. QED BY <1>2, <2>1, DivMod, SmallerQuotient
    <3>. QED BY <2>1, <3>1
  <2>. HIDE DEF K, V, c, y, n, R
  <2>4. r + c * n < V * n
    <3>1. c * n + r < V * n + 0
      BY <1>1, <2>1, <2>3, LexLess
    <3>2. c * n \in Nat /\ V * n \in Nat /\ r \in Nat
      BY <1>1, <2>1, <2>3
    <3>. QED BY <3>1, <3>2
  <2>5. r + c * n \in Nat /\ V * n \in Nat
    BY <1>1, <2>1, <2>3
  <2>6. (r + c * n) * K + y < (V * n) * K + 0
    BY <2>1, <2>3, <2>4, <2>5, LexLess
  <2>7. (V * n) * K = R * n
    BY <1>1, <2>1
  <2>8. (r + c * n) * K \in Nat /\ R * n \in Nat /\ y \in Nat
    BY <1>1, <2>1, <2>3, <2>5
  <2>. QED BY <2>2, <2>6, <2>7, <2>8 DEF n, R
<1>. QED BY <1>3, <1>4

LEMMA RecordsApart ==
  ASSUME ReaderOK, Whole, NEW r \in Ranks, NEW q \in Ranks,
         NEW m \in 0 .. RecordsEach - 1, NEW l \in 0 .. RecordsEach - 1,
         RecordNo(r, m) = RecordNo(q, l)
  PROVE  r = q /\ m = l
<1>. DEFINE n == numProcesses  R == RecordsEach
<1>1. n \in Nat \ {0} /\ R \in Nat /\ r \in 0 .. n - 1 /\ q \in 0 .. n - 1
  BY Numbers, WholeNumbers DEF Ranks
<1>2. m \in Nat /\ l \in Nat /\ R \in Nat \ {0}
  BY <1>1
<1>3. CASE reader.access # "strided"
  <2>1. r * R + m = q * R + l
    BY <1>3 DEF RecordNo
  <2>. HIDE DEF n, R
  <2>2. r \in Nat /\ q \in Nat /\ m \in 0 .. R - 1 /\ l \in 0 .. R - 1
    BY <1>1 DEF R
  <2>3. r = q
    BY <1>2, <2>1, <2>2, Quotients
  <2>4. r * R \in Nat
    BY <1>2, <2>2
  <2>. QED BY <1>2, <2>1, <2>3, <2>4
<1>4. CASE reader.access = "strided"
  <2>. DEFINE K == BlockRecords  c == m \div K  y == m % K  d == l \div K  z == l % K
  <2>1. K \in Nat \ {0}
    BY <1>4, WholeNumbers
  <2>2. (r + c * n) * K + y = (q + d * n) * K + z
    BY <1>4 DEF RecordNo
  <2>3. c \in Nat /\ y \in 0 .. K - 1 /\ m = K * c + y
    <3>1. m \div K \in Nat /\ m % K \in Nat /\ m % K < K /\ m = K * (m \div K) + (m % K)
      <4>. HIDE DEF K
      <4>. QED BY <1>2, <2>1, DivMod
    <3>. QED BY <2>1, <3>1
  <2>4. d \in Nat /\ z \in 0 .. K - 1 /\ l = K * d + z
    <3>1. l \div K \in Nat /\ l % K \in Nat /\ l % K < K /\ l = K * (l \div K) + (l % K)
      <4>. HIDE DEF K
      <4>. QED BY <1>2, <2>1, DivMod
    <3>. QED BY <2>1, <3>1
  <2>. HIDE DEF K, c, y, d, z, n
  <2>5. r + c * n \in Nat /\ q + d * n \in Nat
    BY <1>1, <2>3, <2>4
  <2>6. r + c * n = q + d * n
    BY <2>1, <2>2, <2>3, <2>4, <2>5, Quotients
  <2>7. c * n + r = d * n + q
    <3>1. c * n \in Nat /\ d * n \in Nat
      BY <1>1, <2>3, <2>4
    <3>. QED BY <1>1, <2>6, <3>1
  <2>8. c = d
    BY <1>1, <2>3, <2>4, <2>7, Quotients
  <2>9. r = q
    <3>1. c * n \in Nat /\ c * n = d * n
      BY <1>1, <2>3, <2>8
    <3>. QED BY <1>1, <2>7, <3>1
  <2>10. y = z
    <3>1. (r + c * n) * K \in Nat /\ (r + c * n) * K = (q + d * n) * K
      BY <2>1, <2>5, <2>6
    <3>. QED BY <2>2, <2>3, <2>4, <3>1
  <2>. QED BY <2>3, <2>4, <2>8, <2>9, <2>10
<1>. QED BY <1>3, <1>4

LEMMA EveryRecord ==
  ASSUME ReaderOK, Whole, NEW k0 \in 0 .. RecordsEach * numProcesses - 1
  PROVE  \E r \in Ranks : \E m \in 0 .. RecordsEach - 1 : RecordNo(r, m) = k0
<1>. DEFINE n == numProcesses  R == RecordsEach
<1>1. n \in Nat \ {0} /\ R \in Nat /\ Ranks = 0 .. n - 1
  BY Numbers, WholeNumbers DEF Ranks
<1>2. R * n \in Nat /\ k0 \in Nat /\ k0 < R * n /\ R \in Nat \ {0}
  <2>1. R * n \in Nat
    BY <1>1
  <2>. HIDE DEF n, R
  <2>2. k0 \in Nat /\ k0 < R * n
    BY <2>1 DEF n, R
  <2>. QED BY <1>1, <2>1, <2>2
<1>3. CASE reader.access # "strided"
  <2>. DEFINE r == k0 \div R  m == k0 % R
  <2>1. r \in Nat /\ m \in Nat /\ m < R /\ k0 = R * r + m
    <3>. HIDE DEF R
    <3>. QED BY <1>2, DivMod
  <2>2. r < n
    <3>1. n * R = R * n
      BY <1>1
    <3>. HIDE DEF R, n
    <3>. QED BY <1>1, <1>2, <3>1, SmallerQuotient
  <2>3. r \in Ranks /\ m \in 0 .. R - 1
    BY <1>1, <2>1, <2>2
  <2>4. r * R + m = k0
    <3>. HIDE DEF R, r, m
    <3>1. r * R = R * r
      BY <1>1, <2>1
    <3>. QED BY <2>1, <3>1
  <2>5. RecordNo(r, m) = k0
    BY <1>3, <2>4 DEF RecordNo
  <2>. QED BY <2>3, <2>5
<1>4. CASE reader.access = "strided"
  <2>. DEFINE K == BlockRecords  V == BlocksInView  a == k0 \div K  y == k0 % K
              c == a \div n  r == a % n  m == c * K + y
  <2>1. K \in Nat \ {0} /\ V \in Nat \ {0} /\ R = V * K
    BY <1>4, WholeNumbers
  <2>2. a \in Nat /\ y \in 0 .. K - 1 /\ k0 = K * a + y
    <3>1. k0 \div K \in Nat /\ k0 % K \in Nat /\ k0 % K < K /\ k0 = K * (k0 \div K) + (k0 % K)
      <4>. HIDE DEF K
      <4>. QED BY <1>2, <2>1, DivMod
    <3>. QED BY <2>1, <3>1
  <2>. HIDE DEF K, V, a, y, n, R
  <2>3. a < V * n
    <3>1. (V * n) * K = R * n /\ V * n \in Nat
      BY <1>1, <2>1
    <3>2. k0 < (V * n) * K
      BY <1>2, <3>1
    <3>. QED BY <1>2, <2>1, <3>1, <3>2, SmallerQuotient DEF a
  <2>4. c \in Nat /\ r \in Nat /\ r < n /\ a = n * c + r
    BY <1>1, <2>2, DivMod
  <2>5. c < V
    BY <1>1, <2>1, <2>2, <2>3, SmallerQuotient
  <2>6. r \in Ranks
    BY <1>1, <2>4
  <2>. HIDE DEF c, r
  <2>7. m \in 0 .. R - 1
    <3>1. c * K + y < V * K + 0
      BY <2>1, <2>2, <2>4, <2>5, LexLess
    <3>2. c * K \in Nat /\ V * K \in Nat
      BY <2>1, <2>4
    <3>. QED BY <2>1, <2>2, <3>1, <3>2
  <2>8. m \div K = c /\ m % K = y
    BY <2>1, <2>2, <2>4, QuotientIs
  <2>9. (r + c * n) * K + y = k0
    <3>1. r + c * n = a
      <4>1. n * c = c * n /\ c * n \in Nat
        BY <1>1, <2>4
      <4>. QED BY <2>4, <4>1
    <3>2. a * K = K * a
      BY <2>1, <2>2
    <3>. QED BY <2>2, <3>1, <3>2
  <2>. HIDE DEF m
  <2>10. RecordNo(r, m) = k0
    BY <1>4, <2>8, <2>9 DEF RecordNo, K, n
  <2>. QED BY <2>6, <2>7, <2>10 DEF R
<1>. QED BY <1>3, <1>4

-----------------------------------------------------------------------------
(* What the processes have in their buffers and have made of it.           *)

RecordsOf(r) == RecordsIn(ElementsRead(r), Count(r))
WorkInv ==
  /\ ReaderOK /\ killed \in BOOLEAN /\ blocks \in 0 .. numBlocks
  /\ pc \in [Ranks -> {"read", "parse", "done"}]
  /\ DOMAIN buffer = Ranks /\ DOMAIN records = Ranks
  /\ \A r \in Ranks : buffer[r] \in {<<>>, ElementsRead(r)}
  /\ \A r \in Ranks : records[r] \in {<<>>, RecordsOf(r)}
  /\ \A r \in Ranks : Binary /\ pc[r] # "read" => buffer[r] = ElementsRead(r)
  /\ \A r \in Ranks : Binary /\ pc[r] = "done" => records[r] = RecordsOf(r)
  /\ BufferHolds

LEMMA SameFile ==
  ASSUME ReaderOK, reader' = reader, file' = file
  PROVE  /\ ReaderOK'
         /\ \A r \in Ranks : ElementsRead(r)' = ElementsRead(r) /\ Count(r)' = Count(r)
<1>1. BufSize' = BufSize /\ Elements' = Elements /\ BlocksInView' = BlocksInView
  BY DEF BufSize, Elements, BlocksInView
<1>2. ReaderOK'
  BY <1>1 DEF ReaderOK
<1>3. ASSUME NEW r \in Ranks PROVE ElementsRead(r)' = ElementsRead(r) /\ Count(r)' = Count(r)
  <2>1. Count(r)' = Count(r)
    BY <1>1 DEF Count, Extra
  <2>2. ViewExtent' = ViewExtent
    BY <1>1 DEF ViewExtent
  <2>3. \A i : InView(i)' = InView(i)
    BY <1>1, <2>2 DEF InView
  <2>4. \A i : Position(r, i)' = Position(r, i)
    BY <1>1, <2>1, <2>3 DEF Position
  <2>5. ElementsRead(r)' = ElementsRead(r)
    <3>1. reader.sizeOf' = reader.sizeOf /\ file.size' = file.size
      OBVIOUS
    <3>2. InFile(r)' = InFile(r)
      BY <2>1, <2>4, <3>1 DEF InFile
    <3>3. /\ ElementsRead(r) = [i \in 1 .. Cardinality(InFile(r)) |-> Position(r, i - 1)]
          /\ ElementsRead(r)' = [i \in 1 .. Cardinality(InFile(r)') |-> Position(r, i - 1)']
      BY DEF ElementsRead, InFile
    <3>. QED BY <2>4, <3>2, <3>3
  <2>. QED BY <2>1, <2>5
<1>. QED BY <1>2, <1>3

LEMMA SameRecords ==
  ASSUME ReaderOK, reader' = reader, file' = file, NEW r \in Ranks
  PROVE  RecordsOf(r)' = RecordsOf(r)
<1>1. ElementsRead(r)' = ElementsRead(r) /\ Count(r)' = Count(r)
  BY SameFile
<1>2. \A b, n : Record(b, n)' = Record(b, n)
  BY DEF Record, RecordSize
<1>. QED BY <1>1, <1>2 DEF RecordsOf, RecordsIn

LEMMA WorkInit == Init => WorkInv
<1>. SUFFICES ASSUME Init PROVE WorkInv
  OBVIOUS
<1>1. numBlocks \in Nat
  BY FileReadersConstants
<1>2. ReaderOK
  BY DEF Init, ReaderOK
<1>3. \A r \in Ranks : pc[r] = IF Binary \/ r = 0 THEN "read" ELSE "done"
  BY DEF Init
<1>4. pc \in [Ranks -> {"read", "parse", "done"}]
  BY DEF Init
<1>5. /\ killed \in BOOLEAN /\ blocks \in 0 .. numBlocks
      /\ DOMAIN buffer = Ranks /\ DOMAIN records = Ranks
      /\ \A r \in Ranks : buffer[r] = <<>> /\ records[r] = <<>>
  <2>1. killed \in BOOLEAN /\ blocks = 0
    BY DEF Init
  <2>2. blocks \in 0 .. numBlocks
    BY <1>1, <2>1
  <2>3. buffer = [r \in Ranks |-> <<>>] /\ records = [r \in Ranks |-> <<>>]
    BY DEF Init
  <2>. QED BY <2>1, <2>2, <2>3
<1>6. \A r \in Ranks : Binary => pc[r] = "read"
  BY <1>3
<1>7. BufferHolds
  BY DEF Init, BufferHolds
<1>. HIDE DEF Init
<1>. QED BY <1>2, <1>4, <1>5, <1>6, <1>7 DEF WorkInv

LEMMA WorkStep == WorkInv /\ [Next]_vars => WorkInv'
<1>. SUFFICES ASSUME WorkInv, [Next]_vars PROVE WorkInv'
  OBVIOUS
<1>0. ReaderOK /\ pc \in [Ranks -> {"read", "parse", "done"}]
      /\ DOMAIN buffer = Ranks /\ DOMAIN records = Ranks
  BY DEF WorkInv
<1>1. ASSUME reader' = reader, file' = file
      PROVE  /\ ReaderOK' /\ (Binary' <=> Binary)
             /\ \A r \in Ranks : ElementsRead(r)' = ElementsRead(r)
             /\ \A r \in Ranks : RecordsOf(r)' = RecordsOf(r)
             /\ killed' = killed => BufferHolds'
  BY <1>0, <1>1, SameFile, SameRecords DEF Binary, WorkInv, BufferHolds, Fits
<1>2. ASSUME UNCHANGED <<reader, file, buffer, records, pc, killed>>, blocks' \in 0 .. numBlocks
      PROVE  WorkInv'
  BY <1>1, <1>2 DEF WorkInv
<1>3. ASSUME NEW r \in Ranks, Read(r) PROVE WorkInv'
  <2>1. /\ pc[r] = "read" /\ UNCHANGED <<reader, file, records, blocks>>
        /\ buffer' = [buffer EXCEPT ![r] = ElementsRead(r)]
        /\ pc' = [pc EXCEPT ![r] = "parse"]
        /\ killed' \in BOOLEAN
    BY <1>3 DEF Read
  <2>2. DOMAIN buffer' = Ranks /\ pc' \in [Ranks -> {"read", "parse", "done"}]
    BY <1>0, <2>1
  <2>3. \A q \in Ranks : q # r => buffer'[q] = buffer[q] /\ pc'[q] = pc[q]
    BY <1>0, <2>1
  <2>4. buffer'[r] = ElementsRead(r) /\ pc'[r] = "parse"
    BY <1>0, <2>1
  <2>5. \A q \in Ranks : buffer'[q] \in {<<>>, ElementsRead(q)}
    BY <2>3, <2>4 DEF WorkInv
  <2>6. \A q \in Ranks : Binary /\ pc'[q] # "read" => buffer'[q] = ElementsRead(q)
    BY <2>3, <2>4 DEF WorkInv
  <2>7. \A q \in Ranks : Binary /\ pc'[q] = "done" => records'[q] = RecordsOf(q)
    BY <2>1, <2>3, <2>4 DEF WorkInv
  <2>8. \A q \in Ranks : records'[q] \in {<<>>, RecordsOf(q)}
    BY <2>1 DEF WorkInv
  <2>9. blocks' \in 0 .. numBlocks /\ DOMAIN records' = Ranks
    BY <2>1 DEF WorkInv
  <2>10. BufferHolds'
    <3>1. Binary /\ Fits => ~killed'
      BY <1>0, <1>3, NoOverrun DEF Read
    <3>. QED BY <2>1, <3>1 DEF BufferHolds, Binary, Fits
  <2>. QED BY <1>1, <2>1, <2>2, <2>5, <2>6, <2>7, <2>8, <2>9, <2>10 DEF WorkInv
<1>4. ASSUME NEW r \in Ranks, Parse(r) PROVE WorkInv'
  <2>1. /\ Binary /\ pc[r] = "parse" /\ UNCHANGED <<reader, file, buffer, blocks, killed>>
        /\ records' = [records EXCEPT ![r] = RecordsIn(buffer[r], Count(r))]
        /\ pc' = [pc EXCEPT ![r] = "done"]
    BY <1>4 DEF Parse
  <2>2. DOMAIN records' = Ranks /\ pc' \in [Ranks -> {"read", "parse", "done"}]
    BY <1>0, <2>1
  <2>3. \A q \in Ranks : q # r => records'[q] = records[q] /\ pc'[q] = pc[q]
    BY <1>0, <2>1
  <2>4. records'[r] = RecordsOf(r) /\ pc'[r] = "done" /\ buffer[r] = ElementsRead(r)
    <3>1. buffer[r] = ElementsRead(r)
      BY <2>1 DEF WorkInv
    <3>. QED BY <1>0, <2>1, <3>1 DEF RecordsOf
  <2>5. \A q \in Ranks : Binary /\ pc'[q] # "read" => buffer'[q] = ElementsRead(q)
    BY <2>1, <2>3, <2>4 DEF WorkInv
  <2>6. \A q \in Ranks : Binary /\ pc'[q] = "done" => records'[q] = RecordsOf(q)
    BY <2>3, <2>4 DEF WorkInv
  <2>7. \A q \in Ranks : records'[q] \in {<<>>, RecordsOf(q)}
    BY <2>3, <2>4 DEF WorkInv
  <2>8. /\ killed' \in BOOLEAN /\ blocks' \in 0 .. numBlocks /\ DOMAIN buffer' = Ranks
        /\ \A q \in Ranks : buffer'[q] \in {<<>>, ElementsRead(q)}
    BY <2>1 DEF WorkInv
  <2>. QED BY <1>1, <2>1, <2>2, <2>5, <2>6, <2>7, <2>8 DEF WorkInv
<1>5. CASE ReadBlock
  <2>1. blocks' \in 0 .. numBlocks
    BY <1>5, FileReadersConstants DEF ReadBlock, WorkInv
  <2>. QED BY <1>2, <1>5, <2>1 DEF ReadBlock
<1>6. CASE TakeLine
  BY <1>2, <1>6 DEF TakeLine, WorkInv
<1>7. CASE EndOfBlocks
  <2>1. /\ ~Binary /\ pc' = [pc EXCEPT ![0] = "done"]
        /\ UNCHANGED <<reader, file, buffer, records, blocks, killed>>
    BY <1>7 DEF EndOfBlocks
  <2>2. pc' \in [Ranks -> {"read", "parse", "done"}]
    BY <1>0, <2>1
  <2>. QED BY <1>1, <2>1, <2>2 DEF WorkInv
<1>8. CASE Terminating \/ UNCHANGED vars
  BY <1>2, <1>8 DEF Terminating, vars, WorkInv
<1>. QED BY <1>3, <1>4, <1>5, <1>6, <1>7, <1>8 DEF Next

LEMMA WorkInvariant == Spec => []WorkInv
<1>. QED BY WorkInit, WorkStep, PTL DEF Spec

(* An element is read by two processes only if it belongs to the rest that *)
(* does not fill a block of a strided read, and then by neighbours: for    *)
(* every function, every size of a file and every number of processes.     *)
THEOREM OnlyTheRestHolds == Spec => []OnlyTheRestReadTwice
<1>1. WorkInv => OnlyTheRestReadTwice
  <2>. SUFFICES ASSUME WorkInv, NEW r \in Ranks, NEW q \in Ranks, r < q,
                       NEW e \in ElementsOf(r), e \in ElementsOf(q)
                PROVE  e \in Rest(r) /\ q = r + 1
    BY DEF OnlyTheRestReadTwice
  <2>1. PICK m \in 1 .. Len(buffer[r]) : e = buffer[r][m]
    BY DEF ElementsOf
  <2>2. PICK n \in 1 .. Len(buffer[q]) : e = buffer[q][n]
    BY DEF ElementsOf
  <2>3. buffer[r] = ElementsRead(r) /\ buffer[q] = ElementsRead(q)
    <3>1. Len(buffer[r]) # 0 /\ Len(buffer[q]) # 0
      BY <2>1, <2>2
    <3>2. buffer[r] # <<>> /\ buffer[q] # <<>>
      BY <3>1
    <3>. QED BY <3>2 DEF WorkInv
  <2>4. m - 1 \in 0 .. Count(r) - 1 /\ e = Position(r, m - 1)
    BY <2>1, <2>3, ReadsItsPositions DEF WorkInv
  <2>5. n - 1 \in 0 .. Count(q) - 1 /\ e = Position(q, n - 1)
    BY <2>2, <2>3, ReadsItsPositions DEF WorkInv
  <2>6. reader.access = "strided"
    BY <2>4, <2>5, PartsInOrder DEF WorkInv
  <2>7. q = r + 1 /\ m - 1 >= BlocksInView * reader.block
    BY <2>4, <2>5, <2>6, BlocksShared DEF WorkInv
  <2>. QED BY <2>4, <2>6, <2>7 DEF Rest
<1>. QED BY <1>1, WorkInvariant, PTL

(* No process writes behind the end of its buffer if the datatype is       *)
(* packed and, for the functions that add the rest, there are no more      *)
(* processes than bytes in an element.                                     *)
THEOREM BuffersHold == Spec => []BufferHolds
<1>1. WorkInv => BufferHolds
  BY DEF WorkInv
<1>. QED BY <1>1, WorkInvariant, PTL

-----------------------------------------------------------------------------
(* Types.                                                                  *)

LEMMA ElementsType ==
  ASSUME ReaderOK, NEW r \in Ranks
  PROVE  ElementsRead(r) \in Seq(0 .. file.size)
<1>1. PICK m \in 0 .. Count(r) :
        /\ InFile(r) = 0 .. m - 1
        /\ ElementsRead(r) = [i \in 1 .. m |-> Position(r, i - 1)]
  BY ReadsThePrefix
<1>2. reader.sizeOf \in Nat /\ file.size \in Nat /\ Count(r) \in Nat
  BY Numbers
<1>3. m \in Nat
  BY <1>2
<1>4. ASSUME NEW i \in 1 .. m PROVE Position(r, i - 1) \in 0 .. file.size
  <2>1. i - 1 \in InFile(r) /\ i - 1 \in Nat
    BY <1>1, <1>3
  <2>2. Position(r, i - 1) + reader.sizeOf <= file.size
    BY <2>1 DEF InFile
  <2>3. Position(r, i - 1) \in Nat
    BY <2>1, PositionGrows
  <2>. QED BY <1>2, <2>2, <2>3
<1>. QED BY <1>1, <1>3, <1>4

LEMMA RecordsType ==
  ASSUME ReaderOK, NEW r \in Ranks
  PROVE  RecordsOf(r) \in Seq(0 .. file.size \cup {Torn})
<1>. DEFINE P == reader.perRecord  c == Count(r)  M == (c + P - 1) \div P  b == ElementsRead(r)
<1>1. c \in Nat /\ file.size \in Nat
  BY Numbers
<1>2. P \in Nat \ {0} /\ reader.sizeOf \in Nat \ {0}
  BY FileReadersConstants DEF ReaderOK, IsReader
<1>3. M \in Nat
  <2>1. c + P - 1 \in Nat
    BY <1>1, <1>2
  <2>. HIDE DEF c, P
  <2>. QED BY <1>2, <2>1, DivMod
<1>4. RecordSize \in Nat \ {0}
  BY <1>2 DEF RecordSize
<1>5. b \in Seq(0 .. file.size)
  BY ElementsType
<1>6. ASSUME NEW n \in 1 .. M PROVE Record(b, n) \in 0 .. file.size \cup {Torn}
  <2>. DEFINE first == (n - 1) * P + 1  last == n * P
  <2>1. first \in Nat \ {0} /\ last \in Nat /\ first <= last
    <3>1. n - 1 \in Nat /\ (n - 1) * P \in Nat
      <4>. HIDE DEF M, P
      <4>. QED BY <1>2, <1>3
    <3>2. n * P = (n - 1) * P + P
      <4>. HIDE DEF P
      <4>1. n \in Nat
        BY <1>3
      <4>. QED BY <1>2, <4>1
    <3>. HIDE DEF P
    <3>. QED BY <1>2, <3>1, <3>2
  <2>2. CASE Record(b, n) = Torn
    BY <2>2
  <2>3. CASE Record(b, n) # Torn
    <3>1. last <= Len(b) /\ Record(b, n) = b[first] \div RecordSize
      BY <2>3 DEF Record
    <3>. HIDE DEF b, first, last
    <3>2. b[first] \in 0 .. file.size
      <4>1. Len(b) \in Nat
        BY <1>5
      <4>2. first \in 1 .. Len(b)
        BY <2>1, <3>1, <4>1
      <4>3. \A S : \A q \in Seq(S) : \A i \in 1 .. Len(q) : q[i] \in S
        OBVIOUS
      <4>. QED BY <1>5, <4>2, <4>3, Zenon
    <3>. DEFINE x == b[first]  R == RecordSize  q == x \div R
    <3>3. q \in Nat /\ x = R * q + (x % R) /\ x % R \in Nat /\ x \in Nat
      <4>1. x \in Nat
        BY <3>2
      <4>. HIDE DEF x, R
      <4>. QED BY <1>4, <4>1, DivMod DEF R
    <3>4. q <= x
      <4>. HIDE DEF R, q, x
      <4>1. 1 * q <= R * q
        BY <1>4, <3>3, MulMonotone DEF R
      <4>2. R * q \in Nat
        BY <1>4, <3>3 DEF R
      <4>. QED BY <3>3, <4>1, <4>2
    <3>. HIDE DEF x, R, q
    <3>5. q \in 0 .. file.size
      BY <1>1, <3>2, <3>3, <3>4 DEF x
    <3>. QED BY <3>1, <3>5 DEF q, x, R
  <2>. QED BY <2>2, <2>3
<1>7. RecordsOf(r) = [n \in 1 .. M |-> Record(b, n)]
  BY DEF RecordsOf, RecordsIn
<1>. HIDE DEF M, b
<1>. QED BY <1>3, <1>6, <1>7

-----------------------------------------------------------------------------
(* Delivery.                                                               *)

(* With whole blocks, and room for the elements, all of them are read.     *)
LEMMA AllRead ==
  ASSUME ReaderOK, Whole, NEW r \in Ranks
  PROVE  ElementsRead(r) = [i \in 1 .. Elements |-> Position(r, i - 1)]
<1>. DEFINE n == numProcesses  s == reader.sizeOf  P == reader.perRecord  R == RecordsEach
<1>1. /\ n \in Nat \ {0} /\ s \in Nat \ {0} /\ Elements \in Nat /\ BufSize \in Nat
      /\ file.size \in Nat
  BY Numbers
<1>2. P \in Nat \ {0} /\ R \in Nat /\ Elements = R * P
  BY WholeNumbers
<1>3. Count(r) = Elements
  BY RestIsNoElement DEF Whole
<1>4. s * (Elements * n) <= file.size
  <2>1. BufSize = file.size \div n /\ Elements = BufSize \div s
    BY DEF BufSize, Elements
  <2>. HIDE DEF n, s
  <2>2. /\ file.size = n * BufSize + (file.size % n) /\ file.size % n \in Nat
        /\ BufSize = s * Elements + (BufSize % s) /\ BufSize % s \in Nat
    BY <1>1, <2>1, DivMod
  <2>3. s * Elements <= BufSize /\ s * Elements \in Nat
    BY <1>1, <2>2
  <2>4. (s * Elements) * n <= BufSize * n
    BY <1>1, <2>3, MulMonotone
  <2>5. (s * Elements) * n = s * (Elements * n) /\ BufSize * n = n * BufSize /\ n * BufSize \in Nat
    BY <1>1
  <2>6. s * (Elements * n) \in Nat
    BY <1>1
  <2>. QED BY <1>1, <2>2, <2>4, <2>5, <2>6
<1>5. ASSUME NEW i \in 0 .. Elements - 1
      PROVE  Position(r, i) + s <= file.size
  <2>. DEFINE m == i \div P  j == i % P
  <2>1. m \in Nat /\ j \in 0 .. P - 1 /\ i = m * P + j /\ m < R
    <3>1. i \in Nat /\ i < R * P
      <4>. HIDE DEF P, R
      <4>. QED BY <1>1, <1>2
    <3>2. i \div P \in Nat /\ i % P \in Nat /\ i % P < P /\ i = P * (i \div P) + (i % P)
      <4>. HIDE DEF P
      <4>. QED BY <1>2, <3>1, DivMod
    <3>3. i \div P < R
      <4>. HIDE DEF P, R
      <4>. QED BY <1>2, <3>1, SmallerQuotient
    <3>4. P * (i \div P) = (i \div P) * P
      <4>. HIDE DEF P
      <4>. QED BY <1>2, <3>2
    <3>. HIDE DEF P, R
    <3>. QED BY <1>2, <3>2, <3>3, <3>4
  <2>2. m \in 0 .. R - 1
    <3>. HIDE DEF m, R
    <3>. QED BY <1>2, <2>1
  <2>. HIDE DEF m, j
  <2>3. /\ RecordNo(r, m) \in 0 .. R * n - 1
        /\ Position(r, m * P + j) = s * (RecordNo(r, m) * P + j)
    BY <2>1, <2>2, RecordAt, RecordsInRange
  <2>. DEFINE N0 == RecordNo(r, m)
  <2>4. Position(r, i) = s * (N0 * P + j) /\ N0 \in Nat /\ N0 < R * n
    <3>1. R * n \in Nat
      <4>. HIDE DEF R, n
      <4>. QED BY <1>1, <1>2
    <3>. HIDE DEF R, n, s, P
    <3>. QED BY <2>1, <2>3, <3>1
  <2>. HIDE DEF N0, R, n, s, P
  <2>5. N0 * P + j < (R * n) * P + 0
    <3>1. R * n \in Nat
      BY <1>1, <1>2
    <3>. QED BY <1>2, <2>1, <2>4, <3>1, LexLess
  <2>6. (R * n) * P = Elements * n /\ Elements * n \in Nat
    BY <1>1, <1>2
  <2>7. N0 * P + j \in Nat
    BY <1>2, <2>1, <2>4
  <2>8. (N0 * P + j + 1) * s <= (Elements * n) * s
    <3>. DEFINE u == N0 * P + j + 1  w == Elements * n
    <3>1. u \in Nat /\ w \in Nat /\ u <= w
      BY <2>5, <2>6, <2>7
    <3>. HIDE DEF u, w
    <3>2. u * s <= w * s
      BY <1>1, <3>1, MulMonotone
    <3>. QED BY <3>2 DEF u, w
  <2>9. (N0 * P + j + 1) * s = s * (N0 * P + j) + s
    <3>1. \A u \in Nat : (u + 1) * s = s * u + s
      BY <1>1
    <3>. QED BY <2>7, <3>1
  <2>10. (Elements * n) * s = s * (Elements * n)
    BY <1>1, <2>6
  <2>11. s * (Elements * n) \in Nat /\ s * (N0 * P + j) \in Nat
    BY <1>1, <2>6, <2>7
  <2>. QED BY <1>1, <1>4, <2>4, <2>8, <2>9, <2>10, <2>11
<1>6. PICK m \in 0 .. Count(r) :
        /\ InFile(r) = 0 .. m - 1
        /\ ElementsRead(r) = [i \in 1 .. m |-> Position(r, i - 1)]
  BY ReadsThePrefix
<1>7. InFile(r) = 0 .. Elements - 1
  BY <1>3, <1>5 DEF InFile
<1>8. m = Elements
  <2>1. m \in Nat
    BY <1>1, <1>3
  <2>2. 0 .. m - 1 = 0 .. Elements - 1
    BY <1>6, <1>7
  <2>. QED BY <1>1, <2>1, <2>2, m < Elements => m \in 0 .. Elements - 1,
              Elements < m => Elements \in 0 .. m - 1
<1>. QED BY <1>6, <1>8

LEMMA RecordIs ==
  ASSUME ReaderOK, Whole, NEW r \in Ranks, NEW m \in 0 .. RecordsEach - 1
  PROVE  Record(ElementsRead(r), m + 1) = RecordNo(r, m)
<1>. DEFINE s == reader.sizeOf  P == reader.perRecord  R == RecordsEach  b == ElementsRead(r)
            N0 == RecordNo(r, m)  first == m * P + 1  last == (m + 1) * P
<1>1. s \in Nat \ {0} /\ Elements \in Nat
  BY Numbers
<1>2. P \in Nat \ {0} /\ R \in Nat /\ Elements = R * P
  BY WholeNumbers
<1>3. m \in Nat /\ m < R
  <2>. HIDE DEF R
  <2>. QED BY <1>2 DEF R
<1>4. N0 \in Nat
  <2>1. 0 \in 0 .. P - 1
    <3>. HIDE DEF P
    <3>. QED BY <1>2
  <2>. QED BY <2>1, RecordAt
<1>5. b = [i \in 1 .. Elements |-> Position(r, i - 1)] /\ Len(b) = Elements
  <2>1. b = [i \in 1 .. Elements |-> Position(r, i - 1)]
    BY AllRead
  <2>. HIDE DEF b
  <2>. QED BY <1>1, <2>1
<1>6. last <= Elements /\ last \in Nat /\ first \in Nat \ {0} /\ last = m * P + P /\ m * P \in Nat
  <2>. HIDE DEF P, R
  <2>1. (m + 1) * P <= R * P
    BY <1>2, <1>3, MulMonotone
  <2>2. (m + 1) * P = m * P + P /\ m * P \in Nat
    BY <1>2, <1>3
  <2>. QED BY <1>2, <2>1, <2>2
<1>7. ASSUME NEW j \in 0 .. P - 1
      PROVE  b[first + j] = s * (N0 * P + j) /\ first + j \in first .. last
  <2>1. m * P + j \in 0 .. Elements - 1 /\ Position(r, m * P + j) = s * (N0 * P + j)
    BY RecordAt
  <2>2. j \in Nat /\ j < P
    <3>. HIDE DEF P
    <3>. QED BY <1>2
  <2>3. first + j \in 1 .. Elements /\ (first + j) - 1 = m * P + j /\ first + j \in first .. last
    <3>. DEFINE u == m * P
    <3>1. u \in Nat /\ first = u + 1 /\ u + j \in 0 .. Elements - 1 /\ last = u + P
      BY <1>6, <2>1
    <3>. HIDE DEF u, first, last, P
    <3>2. first + j \in 1 .. Elements /\ (first + j) - 1 = u + j /\ first + j \in first .. last
      BY <1>1, <1>2, <2>2, <3>1
    <3>. QED BY <3>2 DEF u
  <2>4. b[first + j] = Position(r, (first + j) - 1)
    <3>. HIDE DEF first, b
    <3>. QED BY <1>5, <2>3
  <2>. QED BY <2>1, <2>3, <2>4
<1>8. b[first] = N0 * RecordSize /\ RecordSize \in Nat \ {0}
  <2>1. 0 \in 0 .. P - 1
    <3>. HIDE DEF P
    <3>. QED BY <1>2
  <2>2. b[first + 0] = s * (N0 * P + 0) /\ first + 0 = first
    BY <1>6, <1>7, <2>1
  <2>3. RecordSize = P * s
    BY DEF RecordSize
  <2>. HIDE DEF s, P, b, N0, first
  <2>4. s * (N0 * P + 0) = N0 * (P * s)
    BY <1>1, <1>2, <1>4
  <2>5. P * s \in Nat \ {0}
    BY <1>1, <1>2
  <2>. QED BY <2>2, <2>3, <2>4, <2>5
<1>9. b[first] % RecordSize = 0 /\ b[first] \div RecordSize = N0
  <2>. DEFINE T == RecordSize
  <2>. HIDE DEF N0, b, first
  <2>1. 0 \in 0 .. T - 1
    BY <1>8
  <2>2. (N0 * T + 0) \div T = N0 /\ (N0 * T + 0) % T = 0
    BY <1>4, <1>8, <2>1, QuotientIs
  <2>3. N0 * T + 0 = N0 * T
    BY <1>4, <1>8
  <2>. QED BY <1>8, <2>2, <2>3
<1>10. \A i \in first .. last : b[i] = b[first] + (i - first) * s
  <2>. SUFFICES ASSUME NEW i \in first .. last PROVE b[i] = b[first] + (i - first) * s
    OBVIOUS
  <2>. DEFINE j == i - first
  <2>1. j \in 0 .. P - 1 /\ first + j = i
    <3>. DEFINE u == m * P
    <3>1. u \in Nat /\ first = u + 1 /\ last = u + P
      BY <1>6
    <3>. HIDE DEF u, first, last, P
    <3>. QED BY <1>2, <3>1
  <2>. HIDE DEF j
  <2>2. b[i] = s * (N0 * P + j)
    BY <1>7, <2>1
  <2>3. 0 \in 0 .. P - 1 /\ first + 0 = first
    <3>. HIDE DEF P, first
    <3>. QED BY <1>2, <1>6
  <2>4. b[first] = s * (N0 * P + 0)
    BY <1>7, <2>3
  <2>5. s * (N0 * P + j) = s * (N0 * P + 0) + j * s
    <3>1. N0 * P \in Nat /\ j \in Nat
      <4>. HIDE DEF N0, P
      <4>. QED BY <1>2, <1>4, <2>1
    <3>2. \A u \in Nat, w \in Nat : s * (u + w) = s * (u + 0) + w * s
      <4>. HIDE DEF s
      <4>. QED BY <1>1
    <3>. QED BY <3>1, <3>2
  <2>. QED BY <2>2, <2>4, <2>5 DEF j
<1>11. reader.extent = reader.sizeOf
  BY DEF Whole, Fits
<1>12. (m + 1) - 1 = m
  BY <1>3
<1>13. Record(b, m + 1) =
         IF /\ last <= Len(b) /\ reader.extent = reader.sizeOf
            /\ b[first] % RecordSize = 0
            /\ \A i \in first .. last : b[i] = b[first] + (i - first) * s
         THEN b[first] \div RecordSize ELSE Torn
  BY <1>12 DEF Record
<1>14. last <= Len(b)
  BY <1>5, <1>6
<1>. HIDE DEF first, last, b, N0, s
<1>. QED BY <1>9, <1>10, <1>11, <1>13, <1>14 DEF b, N0

LEMMA RecordsAre ==
  ASSUME ReaderOK, Whole, NEW r \in Ranks
  PROVE  /\ RecordsOf(r) = [m \in 1 .. RecordsEach |-> RecordNo(r, m - 1)]
         /\ Len(RecordsOf(r)) = RecordsEach
<1>. DEFINE P == reader.perRecord  R == RecordsEach  b == ElementsRead(r)
<1>1. P \in Nat \ {0} /\ R \in Nat /\ Elements = R * P
  BY WholeNumbers
<1>2. Count(r) = Elements
  BY RestIsNoElement DEF Whole
<1>3. (Elements + P - 1) \div P = R
  <2>. HIDE DEF P, R
  <2>1. P - 1 \in 0 .. P - 1 /\ R * P \in Nat
    BY <1>1
  <2>2. (R * P + (P - 1)) \div P = R
    BY <1>1, <2>1, QuotientIs
  <2>3. Elements + P - 1 = R * P + (P - 1)
    BY <1>1, <2>1
  <2>. QED BY <2>2, <2>3
<1>4. RecordsOf(r) = [m \in 1 .. R |-> Record(b, m)]
  BY <1>2, <1>3 DEF RecordsOf, RecordsIn
<1>5. ASSUME NEW m \in 1 .. R PROVE Record(b, m) = RecordNo(r, m - 1)
  <2>1. m - 1 \in 0 .. RecordsEach - 1 /\ (m - 1) + 1 = m
    BY <1>1
  <2>. QED BY <2>1, RecordIs
<1>6. RecordsOf(r) = [m \in 1 .. R |-> RecordNo(r, m - 1)]
  BY <1>4, <1>5
<1>. HIDE DEF R
<1>. QED BY <1>1, <1>6 DEF R

LEMMA RecordsDelivered ==
  ASSUME WorkInv, Whole, Done
  PROVE  LET all == (Elements \div reader.perRecord) * numProcesses
         IN  /\ \A n \in 0 .. all - 1 : Cardinality(Delivered(n)) = 1
             /\ Delivered(Torn) = {}
             /\ file.size - all * RecordSize < numProcesses * reader.sizeOf
<1>. DEFINE n == numProcesses  s == reader.sizeOf  P == reader.perRecord  R == RecordsEach
            all == R * n
<1>1. /\ n \in Nat \ {0} /\ s \in Nat \ {0} /\ Elements \in Nat /\ BufSize \in Nat
      /\ file.size \in Nat /\ ReaderOK
  BY Numbers DEF WorkInv
<1>2. P \in Nat \ {0} /\ R \in Nat /\ Elements = R * P
  BY <1>1, WholeNumbers
<1>3. \A r \in Ranks : records[r] = [m \in 1 .. R |-> RecordNo(r, m - 1)] /\ Len(records[r]) = R
  <2>1. \A r \in Ranks : records[r] = RecordsOf(r)
    BY DEF WorkInv, Whole, Done
  <2>. QED BY <1>1, <2>1, RecordsAre
<1>4. ASSUME NEW r \in Ranks, NEW m \in 1 .. R
      PROVE  m - 1 \in 0 .. RecordsEach - 1 /\ records[r][m] = RecordNo(r, m - 1)
  <2>1. m - 1 \in 0 .. R - 1
    <3>. HIDE DEF R, P
    <3>. QED BY <1>2
  <2>2. records[r] = [i \in 1 .. R |-> RecordNo(r, i - 1)]
    BY <1>3
  <2>. HIDE DEF R
  <2>3. records[r][m] = RecordNo(r, m - 1)
    BY <2>2
  <2>. QED BY <2>1, <2>3 DEF R
<1>5. ASSUME NEW x, NEW v, x \in Delivered(v)
      PROVE  x[1] \in Ranks /\ x[2] \in 1 .. R /\ x = <<x[1], x[2]>> /\ v = RecordNo(x[1], x[2] - 1)
  <2>1. x \in Ranks \X (1 .. file.size) /\ x[2] <= Len(records[x[1]]) /\ records[x[1]][x[2]] = v
    BY <1>5 DEF Delivered
  <2>2. x[1] \in Ranks /\ x[2] \in 1 .. file.size /\ x = <<x[1], x[2]>>
    BY <2>1
  <2>3. x[2] \in 1 .. R
    <3>1. x[2] <= R
      BY <1>3, <2>1, <2>2
    <3>. HIDE DEF R
    <3>. QED BY <1>1, <1>2, <2>2, <3>1
  <2>. QED BY <1>4, <2>1, <2>2, <2>3
<1>6. R <= file.size
  <2>1. BufSize = file.size \div n /\ Elements = BufSize \div s
    BY DEF BufSize, Elements
  <2>. HIDE DEF n, s, R, P
  <2>2. \A a \in Nat, d \in Nat \ {0} : a \div d <= a
    <3>. SUFFICES ASSUME NEW a \in Nat, NEW d \in Nat \ {0} PROVE a \div d <= a
      OBVIOUS
    <3>. DEFINE q == a \div d
    <3>1. q \in Nat /\ a = d * q + (a % d) /\ a % d \in Nat
      BY DivMod
    <3>. HIDE DEF q
    <3>2. 1 * q <= d * q /\ d * q \in Nat
      BY <3>1, MulMonotone
    <3>3. q <= a
      BY <3>1, <3>2
    <3>. QED BY <3>3 DEF q
  <2>3. BufSize <= file.size /\ Elements <= BufSize
    BY <1>1, <2>1, <2>2
  <2>4. R * 1 <= R * P
    <3>1. 1 * R <= P * R /\ P * R = R * P
      BY <1>2, MulMonotone
    <3>. QED BY <1>2, <3>1
  <2>. QED BY <1>1, <1>2, <2>3, <2>4
<1>7. ASSUME NEW v \in 0 .. all - 1 PROVE Cardinality(Delivered(v)) = 1
  <2>1. PICK r \in Ranks : \E m \in 0 .. R - 1 : RecordNo(r, m) = v
    BY <1>1, EveryRecord
  <2>2. PICK m \in 0 .. R - 1 : RecordNo(r, m) = v
    BY <2>1
  <2>3. m + 1 \in 1 .. R /\ m + 1 \in 1 .. file.size /\ (m + 1) - 1 = m
    <3>. HIDE DEF R
    <3>. QED BY <1>1, <1>2, <1>6
  <2>4. <<r, m + 1>> \in Delivered(v)
    <3>1. records[r][m + 1] = v
      BY <1>4, <2>2, <2>3
    <3>2. m + 1 <= Len(records[r])
      <4>1. Len(records[r]) = R
        BY <1>3
      <4>. HIDE DEF R
      <4>. QED BY <1>2, <2>3, <4>1
    <3>3. <<r, m + 1>>[1] = r /\ <<r, m + 1>>[2] = m + 1
      OBVIOUS
    <3>4. <<r, m + 1>> \in Ranks \X (1 .. file.size)
      BY <2>3
    <3>. QED BY <3>1, <3>2, <3>3, <3>4 DEF Delivered
  <2>5. ASSUME NEW x \in Delivered(v) PROVE x = <<r, m + 1>>
    <3>1. x[1] \in Ranks /\ x[2] \in 1 .. R /\ x = <<x[1], x[2]>> /\ v = RecordNo(x[1], x[2] - 1)
      BY <1>5
    <3>2. x[2] - 1 \in 0 .. RecordsEach - 1
      BY <1>4, <3>1
    <3>3. x[1] = r /\ x[2] - 1 = m
      BY <1>1, <2>2, <3>1, <3>2, RecordsApart
    <3>4. x[2] = m + 1
      BY <1>2, <3>1, <3>3
    <3>. QED BY <3>1, <3>3, <3>4
  <2>6. Delivered(v) = {<<r, m + 1>>}
    BY <2>4, <2>5
  <2>. QED BY <2>6, FS_Singleton
<1>8. Delivered(Torn) = {}
  <2>. SUFFICES ASSUME NEW x \in Delivered(Torn) PROVE FALSE
    OBVIOUS
  <2>1. x[1] \in Ranks /\ x[2] \in 1 .. R /\ Torn = RecordNo(x[1], x[2] - 1)
    BY <1>5
  <2>2. x[2] - 1 \in 0 .. RecordsEach - 1
    BY <1>4, <2>1
  <2>3. RecordNo(x[1], x[2] - 1) \in 0 .. R * n - 1
    BY <1>1, <2>1, <2>2, RecordsInRange
  <2>. HIDE DEF R, n
  <2>4. R * n \in Nat
    BY <1>1, <1>2
  <2>. QED BY <2>1, <2>3, <2>4 DEF Torn
<1>9. file.size - all * RecordSize < n * s
  <2>1. BufSize = file.size \div n /\ Elements = BufSize \div s /\ RecordSize = P * s
    BY DEF BufSize, Elements, RecordSize
  <2>. DEFINE x == file.size % n  y == BufSize % s
  <2>. HIDE DEF n, s, R, P
  <2>2. /\ file.size = n * BufSize + x /\ x \in Nat /\ x < n
        /\ BufSize = s * Elements + y /\ y \in Nat /\ y < s
    BY <1>1, <2>1, DivMod
  <2>. HIDE DEF x, y
  <2>3. all * RecordSize = n * (s * Elements)
    <3>1. (R * n) * (P * s) = n * (s * (R * P))
      BY <1>1, <1>2
    <3>. QED BY <1>2, <2>1, <3>1
  <2>. DEFINE e == s * Elements
  <2>4. e \in Nat
    BY <1>1
  <2>. HIDE DEF e
  <2>5. n * BufSize = n * e + n * y
    BY <1>1, <2>2, <2>4 DEF e
  <2>6. (y + 1) * n <= s * n
    BY <1>1, <2>2, MulMonotone
  <2>7. (y + 1) * n = n * y + n /\ s * n = n * s /\ n * y \in Nat /\ n * e \in Nat
    BY <1>1, <2>2, <2>4
  <2>8. all * RecordSize = n * e
    BY <2>3 DEF e
  <2>. QED BY <1>1, <2>2, <2>5, <2>6, <2>7, <2>8
<1>10. (Elements \div P) * n = all
  BY DEF RecordsEach
<1>. QED BY <1>7, <1>8, <1>9, <1>10

-----------------------------------------------------------------------------
(* The lines of a block.                                                   *)

Before(b, p) == {q \in Pieces(b) : q[1] < p[1]}

LEMMA PieceIs ==
  ASSUME file \in Files, NEW b, NEW p \in Pieces(b)
  PROVE  /\ file.size \in Nat \ {0} /\ file.newlines \subseteq 0 .. file.size - 1
         /\ p = <<p[1], p[2]>> /\ p \in (0 .. file.size) \X (0 .. file.size)
         /\ p[1] \in Nat /\ p[2] \in Nat /\ p[1] <= p[2]
         /\ BlockStart(b) <= p[1] /\ p[2] < BlockEnd(b)
         /\ \A x \in file.newlines : ~(p[1] <= x /\ x <= p[2])
         /\ p[1] = BlockStart(b) \/ p[1] - 1 \in file.newlines
         /\ p[2] = BlockEnd(b) - 1 \/ p[2] + 1 \in file.newlines
<1>1. file.size \in Nat \ {0} /\ file.newlines \subseteq 0 .. file.size - 1
  BY FileReadersConstants
<1>2. p \in (0 .. file.size) \X (0 .. file.size) /\ IsPiece(p[1], p[2], b)
  BY DEF Pieces
<1>3. p = <<p[1], p[2]>> /\ p[1] \in 0 .. file.size /\ p[2] \in 0 .. file.size
  BY <1>2
<1>4. p[1] \in Nat /\ p[2] \in Nat
  BY <1>1, <1>3
<1>5. p[1] .. p[2] \cap file.newlines = {}
  BY <1>2 DEF IsPiece
<1>6. \A x \in file.newlines : ~(p[1] <= x /\ x <= p[2])
  <2>. SUFFICES ASSUME NEW x \in file.newlines, p[1] <= x, x <= p[2] PROVE FALSE
    OBVIOUS
  <2>1. x \in Int
    BY <1>1
  <2>2. x \in p[1] .. p[2]
    BY <1>4, <2>1
  <2>. QED BY <1>5, <2>2
<1>7. /\ BlockStart(b) <= p[1] /\ p[1] <= p[2] /\ p[2] < BlockEnd(b)
      /\ p[1] = BlockStart(b) \/ p[1] - 1 \in file.newlines
      /\ p[2] = BlockEnd(b) - 1 \/ p[2] + 1 \in file.newlines
  BY <1>2 DEF IsPiece
<1>. QED BY <1>1, <1>2, <1>3, <1>4, <1>6, <1>7

LEMMA BlocksInFile ==
  ASSUME file \in Files, NEW b \in 0 .. numBlocks - 1
  PROVE  /\ BlockStart(b) \in Nat /\ BlockEnd(b) \in Nat
         /\ BlockStart(b) <= BlockEnd(b) /\ BlockEnd(b) < file.size
<1>. DEFINE z == PartitionSize  n == numBlocks
<1>1. file.size \in Nat \ {0} /\ n \in Nat \ {0} /\ b \in Nat /\ b < n
  BY FileReadersConstants
<1>2. z \in Nat /\ n * z <= file.size /\ n * z \in Nat
  <2>1. z = file.size \div n
    BY DEF PartitionSize
  <2>. HIDE DEF z, n
  <2>2. z \in Nat /\ file.size = n * z + (file.size % n) /\ file.size % n \in Nat
    BY <1>1, <2>1, DivMod
  <2>3. n * z \in Nat
    BY <1>1, <2>2
  <2>. QED BY <1>1, <2>2, <2>3
<1>3. BlockStart(b) = b * z
  BY DEF BlockStart
<1>4. BlockEnd(b) = IF b = n - 1 THEN file.size - 1 ELSE (b + 1) * z
  BY DEF BlockEnd
<1>. HIDE DEF z, n
<1>5. b * z \in Nat /\ (b + 1) * z = b * z + z /\ (b + 1) * z \in Nat
  BY <1>1, <1>2
<1>6. (b + 1) * z <= n * z
  BY <1>1, <1>2, MulMonotone
<1>7. CASE b = n - 1
  <2>1. b * z <= file.size - 1
    <3>1. CASE z = 0
      <4>1. b * z = 0
        BY <1>1, <3>1
      <4>. QED BY <1>1, <4>1
    <3>2. CASE z # 0
      BY <1>1, <1>2, <1>5, <1>6, <3>2
    <3>. QED BY <3>1, <3>2
  <2>. QED BY <1>1, <1>3, <1>4, <1>5, <1>7, <2>1
<1>8. CASE b # n - 1
  <2>1. (b + 1) * z < file.size
    <3>1. CASE z = 0
      <4>1. (b + 1) * z = 0
        BY <1>1, <3>1
      <4>. QED BY <1>1, <4>1
    <3>2. CASE z # 0
      <4>1. b + 1 \in Nat /\ b + 1 < n /\ z \in Nat \ {0} /\ 0 \in 0 .. z - 1
        BY <1>1, <1>2, <1>8, <3>2
      <4>2. (b + 1) * z + 0 < n * z + 0
        BY <1>1, <4>1, LexLess
      <4>. QED BY <1>1, <1>2, <1>5, <4>2
    <3>. QED BY <3>1, <3>2
  <2>. QED BY <1>2, <1>3, <1>4, <1>5, <1>8, <2>1
<1>. QED BY <1>7, <1>8

(* Pieces do not overlap.                                                  *)
LEMMA PiecesInOrder ==
  ASSUME file \in Files, NEW b \in 0 .. numBlocks - 1, NEW p \in Pieces(b), NEW q \in Pieces(b)
  PROVE  (p[1] < q[1] => p[2] < q[1]) /\ (p[1] = q[1] => p = q)
<1>1. BlockStart(b) \in Nat /\ BlockEnd(b) \in Nat
  BY BlocksInFile
<1>2. /\ p = <<p[1], p[2]>> /\ p[1] \in Nat /\ p[2] \in Nat /\ p[1] <= p[2]
      /\ BlockStart(b) <= p[1] /\ p[2] < BlockEnd(b)
      /\ \A x \in file.newlines : ~(p[1] <= x /\ x <= p[2])
      /\ p[2] = BlockEnd(b) - 1 \/ p[2] + 1 \in file.newlines
  BY PieceIs
<1>3. /\ q = <<q[1], q[2]>> /\ q[1] \in Nat /\ q[2] \in Nat /\ q[1] <= q[2]
      /\ q[2] < BlockEnd(b)
      /\ \A x \in file.newlines : ~(q[1] <= x /\ x <= q[2])
      /\ q[1] = BlockStart(b) \/ q[1] - 1 \in file.newlines
      /\ q[2] = BlockEnd(b) - 1 \/ q[2] + 1 \in file.newlines
  BY PieceIs
<1>4. ASSUME p[1] < q[1] PROVE p[2] < q[1]
  <2>. SUFFICES ASSUME q[1] <= p[2] PROVE FALSE
    BY <1>2, <1>3
  <2>1. q[1] - 1 \in file.newlines
    BY <1>1, <1>2, <1>3, <1>4
  <2>2. p[1] <= q[1] - 1 /\ q[1] - 1 <= p[2]
    BY <1>2, <1>3, <1>4
  <2>. QED BY <1>2, <2>1, <2>2
<1>5. ASSUME p[1] = q[1] PROVE p = q
  <2>1. ~(p[2] < q[2])
    <3>. SUFFICES ASSUME p[2] < q[2] PROVE FALSE
      OBVIOUS
    <3>1. p[2] + 1 \in file.newlines
      BY <1>1, <1>2, <1>3
    <3>2. q[1] <= p[2] + 1 /\ p[2] + 1 <= q[2]
      BY <1>2, <1>3, <1>5
    <3>. QED BY <1>3, <3>1, <3>2
  <2>2. ~(q[2] < p[2])
    <3>. SUFFICES ASSUME q[2] < p[2] PROVE FALSE
      OBVIOUS
    <3>1. q[2] + 1 \in file.newlines
      BY <1>1, <1>2, <1>3
    <3>2. p[1] <= q[2] + 1 /\ q[2] + 1 <= p[2]
      BY <1>2, <1>3, <1>5
    <3>. QED BY <1>2, <3>1, <3>2
  <2>3. p[2] = q[2]
    BY <1>2, <1>3, <2>1, <2>2
  <2>. QED BY <1>2, <1>3, <1>5, <2>3
<1>. QED BY <1>4, <1>5

LEMMA PiecesFinite ==
  ASSUME file \in Files, NEW b
  PROVE  IsFiniteSet(Pieces(b)) /\ Cardinality(Pieces(b)) \in Nat
<1>1. file.size \in Nat
  BY FileReadersConstants
<1>2. IsFiniteSet((0 .. file.size) \X (0 .. file.size))
  <2>1. IsFiniteSet(0 .. file.size)
    BY <1>1, FS_Interval
  <2>. QED BY <2>1, FS_Product
<1>3. IsFiniteSet(Pieces(b))
  BY <1>2, FS_Subset DEF Pieces
<1>. QED BY <1>3, FS_CardinalityType

(* The number of pieces before one determines it, and takes each value.    *)
LEMMA PieceRanks ==
  ASSUME file \in Files, NEW b \in 0 .. numBlocks - 1
  PROVE  LET C == Cardinality(Pieces(b))
         IN  /\ \A p \in Pieces(b) : Cardinality(Before(b, p)) \in 0 .. C - 1
             /\ \A p, q \in Pieces(b) : p[1] < q[1] =>
                  Cardinality(Before(b, p)) < Cardinality(Before(b, q))
             /\ \A p, q \in Pieces(b) :
                  Cardinality(Before(b, p)) = Cardinality(Before(b, q)) => p = q
             /\ \A n \in 0 .. C - 1 : \E p \in Pieces(b) : Cardinality(Before(b, p)) = n
<1>. DEFINE S == Pieces(b)  C == Cardinality(S)  rank(p) == Cardinality(Before(b, p))
<1>1. IsFiniteSet(S) /\ C \in Nat
  BY PiecesFinite
<1>2. \A p \in S : p[1] \in Nat
  BY PieceIs
<1>3. \A p \in S : IsFiniteSet(Before(b, p)) /\ rank(p) \in Nat /\ Before(b, p) \subseteq S
  <2>1. \A p \in S : Before(b, p) \in SUBSET S
    BY DEF Before
  <2>2. \A p \in S : IsFiniteSet(Before(b, p))
    BY <1>1, <2>1, FS_Subset
  <2>. QED BY <2>1, <2>2, FS_CardinalityType
<1>4. ASSUME NEW T, IsFiniteSet(T), NEW U \in SUBSET T, U # T
      PROVE  Cardinality(U) < Cardinality(T)
  <2>1. Cardinality(U) <= Cardinality(T) /\ Cardinality(U) # Cardinality(T) /\ IsFiniteSet(U)
    BY <1>4, FS_Subset
  <2>2. Cardinality(U) \in Nat /\ Cardinality(T) \in Nat
    BY <1>4, <2>1, FS_CardinalityType
  <2>. QED BY <2>1, <2>2
<1>5. ASSUME NEW p \in S PROVE rank(p) \in 0 .. C - 1
  <2>1. p \notin Before(b, p)
    BY <1>2 DEF Before
  <2>2. rank(p) < C
    BY <1>1, <1>3, <1>4, <2>1
  <2>. HIDE DEF C, rank
  <2>. QED BY <1>1, <1>3, <2>2 DEF C, rank
<1>6. ASSUME NEW p \in S, NEW q \in S, p[1] < q[1] PROVE rank(p) < rank(q)
  <2>1. \A x, y, z \in Nat : x < y /\ y < z => x < z
    OBVIOUS
  <2>2. Before(b, p) \subseteq Before(b, q)
    BY <1>2, <1>6, <2>1 DEF Before
  <2>3. p \in Before(b, q) /\ p \notin Before(b, p)
    BY <1>2, <1>6 DEF Before
  <2>. QED BY <1>3, <1>4, <2>2, <2>3
<1>7. ASSUME NEW p \in S, NEW q \in S, rank(p) = rank(q) PROVE p = q
  <2>1. ~(p[1] < q[1]) /\ ~(q[1] < p[1])
    <3>1. \A i, j \in Nat : i < j => i # j
      OBVIOUS
    <3>. HIDE DEF rank
    <3>. QED BY <1>3, <1>6, <1>7, <3>1 DEF rank
  <2>2. p[1] = q[1]
    BY <1>2, <2>1
  <2>. QED BY <2>2, PiecesInOrder
<1>8. ASSUME NEW n \in 0 .. C - 1 PROVE \E p \in S : rank(p) = n
  <2>. DEFINE f == [p \in S |-> rank(p)]
  <2>1. f \in Injection(S, 0 .. C - 1)
    BY <1>5, <1>7 DEF Injection, IsInjective
  <2>2. IsFiniteSet(0 .. C - 1) /\ Cardinality(0 .. C - 1) = C
    <3>. HIDE DEF C
    <3>1. 0 \in Int /\ C - 1 \in Int
      BY <1>1
    <3>2. /\ IsFiniteSet(0 .. C - 1)
          /\ Cardinality(0 .. C - 1) = IF 0 > C - 1 THEN 0 ELSE (C - 1) - 0 + 1
      BY <3>1, FS_Interval, Zenon
    <3>. QED BY <1>1, <3>2
  <2>3. f \in Surjection(S, 0 .. C - 1)
    <3>. HIDE DEF f
    <3>. QED BY <2>1, <2>2, FS_Injection
  <2>. QED BY <2>3 DEF Surjection
<1>. QED BY <1>5, <1>6, <1>7, <1>8

(* The lines of a block are its pieces, in the order of the file.          *)
LEMMA LinesAre ==
  ASSUME file \in Files, NEW b \in 0 .. numBlocks - 1
  PROVE  LET L == LinesOfBlock(b)
         IN  /\ L \in Seq(Pieces(b))
             /\ \A i, j \in 1 .. Len(L) : i < j => L[i][2] < L[j][1]
             /\ \A p \in Pieces(b) : \E i \in 1 .. Len(L) : L[i] = p
<1>. DEFINE S == Pieces(b)  C == Cardinality(S)  L == LinesOfBlock(b)
<1>1. C \in Nat
  BY PiecesFinite
<1>2. /\ \A p \in S : Cardinality(Before(b, p)) \in 0 .. C - 1
      /\ \A p, q \in S : p[1] < q[1] => Cardinality(Before(b, p)) < Cardinality(Before(b, q))
      /\ \A p, q \in S : Cardinality(Before(b, p)) = Cardinality(Before(b, q)) => p = q
      /\ \A n \in 0 .. C - 1 : \E p \in S : Cardinality(Before(b, p)) = n
  BY PieceRanks
<1>3. L = [n \in 1 .. C |-> CHOOSE p \in S : Cardinality(Before(b, p)) = n - 1]
  BY DEF LinesOfBlock, Before
<1>. HIDE DEF S, C, L
<1>4. ASSUME NEW n \in 1 .. C
      PROVE  L[n] \in S /\ Cardinality(Before(b, L[n])) = n - 1
  <2>1. n - 1 \in 0 .. C - 1
    BY <1>1
  <2>2. \E p \in S : Cardinality(Before(b, p)) = n - 1
    BY <1>2, <2>1
  <2>3. L[n] = CHOOSE p \in S : Cardinality(Before(b, p)) = n - 1
    BY <1>3
  <2>. QED BY <2>2, <2>3, Zenon
<1>5. L \in Seq(S) /\ Len(L) = C
  <2>1. L = [n \in 1 .. C |-> L[n]]
    BY <1>3
  <2>. QED BY <1>1, <1>4, <2>1
<1>6. ASSUME NEW i \in 1 .. C, NEW j \in 1 .. C, i < j PROVE L[i][2] < L[j][1]
  <2>1. /\ L[i] \in S /\ Cardinality(Before(b, L[i])) = i - 1
        /\ L[j] \in S /\ Cardinality(Before(b, L[j])) = j - 1
    BY <1>4
  <2>2. L[i][1] \in Nat /\ L[j][1] \in Nat
    BY <2>1, PieceIs DEF S
  <2>3. L[i][1] < L[j][1]
    <3>1. ~(L[j][1] < L[i][1])
      <4>. SUFFICES ASSUME L[j][1] < L[i][1] PROVE FALSE
        OBVIOUS
      <4>1. j - 1 < i - 1
        BY <1>2, <2>1
      <4>. QED BY <1>1, <1>6, <4>1
    <3>2. L[j][1] # L[i][1]
      <4>. SUFFICES ASSUME L[j][1] = L[i][1] PROVE FALSE
        OBVIOUS
      <4>1. L[j] = L[i]
        BY <2>1, PiecesInOrder DEF S
      <4>2. j - 1 = i - 1
        BY <2>1, <4>1
      <4>. QED BY <1>1, <1>6, <4>2
    <3>. QED BY <2>2, <3>1, <3>2
  <2>. QED BY <2>1, <2>3, PiecesInOrder DEF S
<1>7. ASSUME NEW p \in S PROVE \E i \in 1 .. C : L[i] = p
  <2>. DEFINE n == Cardinality(Before(b, p))
  <2>1. n \in 0 .. C - 1
    BY <1>2
  <2>. HIDE DEF n
  <2>2. n + 1 \in 1 .. C /\ (n + 1) - 1 = n
    BY <1>1, <2>1
  <2>3. L[n + 1] \in S /\ Cardinality(Before(b, L[n + 1])) = n
    BY <1>4, <2>2
  <2>4. L[n + 1] = p
    BY <1>2, <2>3 DEF n
  <2>. QED BY <2>2, <2>4
<1>. QED BY <1>5, <1>6, <1>7 DEF L, S

(* Every byte of a block that is not a newline is in one of its pieces.    *)
LEMMA PieceAround ==
  ASSUME file \in Files, NEW b \in 0 .. numBlocks - 1,
         NEW x \in Nat, BlockStart(b) <= x, x < BlockEnd(b), x \notin file.newlines
  PROVE  \E p \in Pieces(b) : p[1] <= x /\ x <= p[2]
<1>. DEFINE A == BlockStart(b)  Z == BlockEnd(b)  N0 == file.newlines
<1>1. /\ A \in Nat /\ Z \in Nat /\ Z < file.size /\ file.size \in Nat
      /\ N0 \subseteq 0 .. file.size - 1
  BY BlocksInFile, FileReadersConstants
<1>. DEFINE D == {d \in Nat : x - d = A \/ x - d - 1 \in N0}
            E == {e \in Nat : x + e = Z - 1 \/ x + e + 1 \in N0}
<1>. HIDE DEF A, Z, N0
<1>2. x - A \in D /\ (Z - 1) - x \in E
  <2>1. x - A \in Nat /\ x - (x - A) = A
    BY <1>1 DEF A
  <2>2. (Z - 1) - x \in Nat /\ x + ((Z - 1) - x) = Z - 1
    BY <1>1 DEF Z
  <2>. QED BY <2>1, <2>2
<1>3. PICK d \in D : \A i \in D : d <= i
  BY <1>2, LeastNumber
<1>4. PICK e \in E : \A i \in E : e <= i
  BY <1>2, LeastNumber
<1>. DEFINE from == x - d  to == x + e
<1>5. d \in Nat /\ e \in Nat /\ d <= x - A /\ e <= (Z - 1) - x
  BY <1>2, <1>3, <1>4
<1>6. from \in 0 .. file.size /\ to \in 0 .. file.size /\ A <= from /\ from <= to /\ to < Z
      /\ from <= x /\ x <= to /\ from \in Nat /\ to \in Nat
  BY <1>1, <1>5
<1>7. ASSUME NEW y \in N0, from <= y, y <= to PROVE FALSE
  <2>1. y \in Nat
    BY <1>1
  <2>2. CASE y < x
    <3>1. x - (y + 1) \in Nat /\ x - (x - (y + 1)) - 1 = y
      BY <2>1, <2>2
    <3>2. x - (y + 1) \in D
      BY <3>1
    <3>3. d <= x - (y + 1)
      BY <1>3, <3>2
    <3>. QED BY <1>5, <1>7, <2>1, <3>3
  <2>3. CASE x < y
    <3>1. y - (x + 1) \in Nat /\ x + (y - (x + 1)) + 1 = y
      BY <2>1, <2>3
    <3>2. y - (x + 1) \in E
      BY <3>1
    <3>3. e <= y - (x + 1)
      BY <1>4, <3>2
    <3>. QED BY <1>5, <1>7, <2>1, <3>3
  <2>4. x # y
    BY DEF N0
  <2>. QED BY <2>1, <2>2, <2>3, <2>4
<1>8. from .. to \cap N0 = {}
  <2>1. \A y \in N0 : y \in Int
    BY <1>1
  <2>. HIDE DEF from, to
  <2>. QED BY <1>6, <1>7, <2>1
<1>9. from = A \/ from - 1 \in N0
  BY <1>3
<1>10. to = Z - 1 \/ to + 1 \in N0
  BY <1>4
<1>. HIDE DEF from, to, D, E
<1>11. IsPiece(from, to, b)
  BY <1>6, <1>8, <1>9, <1>10 DEF IsPiece, A, Z, N0
<1>12. <<from, to>> \in Pieces(b)
  BY <1>6, <1>11 DEF Pieces
<1>13. <<from, to>>[1] = from /\ <<from, to>>[2] = to
  OBVIOUS
<1>. QED BY <1>6, <1>12, <1>13

-----------------------------------------------------------------------------
(* What the sequential reader has looked at, and will.                     *)

(* The end of what it has read after c blocks.                             *)
Bound(c) == IF c = 0 THEN 0 ELSE BlockEnd(c - 1)
FilePairs == (0 .. file.size) \X (0 .. file.size)
Around(s, x) == \E i \in 1 .. Len(s) : s[i][1] <= x /\ x <= s[i][2]
InOrder(s) == \A i, j \in 1 .. Len(s) : i < j => s[i][2] < s[j][1]
Pass(s, c) ==
  /\ s \in Seq(FilePairs)
  /\ \A i \in 1 .. Len(s) : s[i][1] <= s[i][2] /\ s[i][2] < Bound(c)
  /\ \A i \in 1 .. Len(s) : \A x \in file.newlines : ~(s[i][1] <= x /\ x <= s[i][2])
  /\ InOrder(s)
  /\ \A x \in 0 .. Bound(c) - 1 : x \in file.newlines \/ Around(s, x)

LinesInv ==
  /\ todo \in Seq(FilePairs) /\ lines \in Seq(FilePairs)
  /\ Pass(lines \o todo, blocks)
  /\ ~Binary /\ pc[0] = "done" => todo = <<>> /\ blocks = numBlocks

LEMMA Bounds ==
  ASSUME file \in Files, NEW b \in 0 .. numBlocks - 1
  PROVE  /\ Bound(b) = BlockStart(b) /\ Bound(b + 1) = BlockEnd(b)
         /\ Bound(b) \in Nat /\ Bound(b + 1) \in Nat
         /\ Bound(b) <= Bound(b + 1) /\ Bound(b + 1) < file.size /\ file.size \in Nat
<1>1. numBlocks \in Nat \ {0} /\ b \in Nat /\ b < numBlocks /\ file.size \in Nat \ {0}
  BY FileReadersConstants
<1>2. Bound(b + 1) = BlockEnd(b)
  <2>1. b + 1 # 0 /\ (b + 1) - 1 = b
    BY <1>1
  <2>. QED BY <2>1 DEF Bound
<1>3. Bound(b) = BlockStart(b)
  <2>1. PartitionSize \in Nat
    BY <1>1, DivMod DEF PartitionSize
  <2>2. CASE b = 0
    BY <2>1, <2>2 DEF Bound, BlockStart
  <2>3. CASE b # 0
    <3>1. b - 1 # numBlocks - 1 /\ (b - 1) + 1 = b
      BY <1>1
    <3>. QED BY <2>3, <3>1 DEF Bound, BlockStart, BlockEnd
  <2>. QED BY <2>2, <2>3
<1>. QED BY <1>1, <1>2, <1>3, BlocksInFile

(* The lines of a block continue those of the blocks before it.            *)
LEMMA PassGrows ==
  ASSUME file \in Files, NEW b \in 0 .. numBlocks - 1, NEW s, Pass(s, b)
  PROVE  LinesOfBlock(b) \in Seq(FilePairs) /\ Pass(s \o LinesOfBlock(b), b + 1)
<1>. DEFINE L == LinesOfBlock(b)  u == s \o L  A == Bound(b)  Z == Bound(b + 1)
<1>1. /\ A = BlockStart(b) /\ Z = BlockEnd(b) /\ A \in Nat /\ Z \in Nat /\ A <= Z
      /\ Z < file.size /\ file.size \in Nat /\ file.newlines \subseteq 0 .. file.size - 1
  BY Bounds, FileReadersConstants
<1>2. /\ L \in Seq(Pieces(b)) /\ InOrder(L)
      /\ \A p \in Pieces(b) : \E i \in 1 .. Len(L) : L[i] = p
  BY LinesAre DEF InOrder
<1>3. /\ s \in Seq(FilePairs) /\ InOrder(s)
      /\ \A i \in 1 .. Len(s) : s[i][1] <= s[i][2] /\ s[i][2] < A
      /\ \A i \in 1 .. Len(s) : \A x \in file.newlines : ~(s[i][1] <= x /\ x <= s[i][2])
      /\ \A x \in 0 .. A - 1 : x \in file.newlines \/ Around(s, x)
  BY DEF Pass
<1>4. L \in Seq(FilePairs)
  <2>1. Pieces(b) \subseteq FilePairs
    BY DEF Pieces, FilePairs
  <2>. HIDE DEF L
  <2>. QED BY <1>2, <2>1
<1>5. \A i \in 1 .. Len(L) : L[i] \in Pieces(b)
  <2>. HIDE DEF L
  <2>. QED BY <1>2
<1>6. ASSUME NEW i \in 1 .. Len(L)
      PROVE  /\ L[i][1] \in Nat /\ L[i][2] \in Nat
             /\ A <= L[i][1] /\ L[i][1] <= L[i][2] /\ L[i][2] < Z
             /\ \A x \in file.newlines : ~(L[i][1] <= x /\ x <= L[i][2])
  BY <1>1, <1>5, PieceIs
<1>7. ASSUME NEW i \in 1 .. Len(s) PROVE s[i][1] \in Nat /\ s[i][2] \in Nat
  <2>1. s[i] \in FilePairs
    BY <1>3
  <2>. QED BY <1>1, <2>1 DEF FilePairs
<1>. DEFINE m == Len(s)  l == Len(L)
<1>8. m \in Nat /\ l \in Nat
  <2>. HIDE DEF L
  <2>. QED BY <1>2, <1>3
<1>9. /\ u \in Seq(FilePairs) /\ Len(u) = m + l
      /\ \A i \in 1 .. m + l : u[i] = IF i <= m THEN s[i] ELSE L[i - m]
  <2>. HIDE DEF L
  <2>. QED BY <1>3, <1>4, ConcatProperties
<1>. HIDE DEF L, u, A, Z, m, l
<1>10. ASSUME NEW i \in 1 .. m + l
       PROVE  \/ i \in 1 .. m /\ u[i] = s[i]
              \/ i \notin 1 .. m /\ i - m \in 1 .. l /\ u[i] = L[i - m]
  BY <1>8, <1>9
<1>11. /\ \A i \in 1 .. m : i \in 1 .. m + l /\ u[i] = s[i]
       /\ \A i \in 1 .. l : i + m \in 1 .. m + l /\ u[i + m] = L[i]
  <2>1. ASSUME NEW i \in 1 .. m PROVE i \in 1 .. m + l /\ u[i] = s[i]
    BY <1>8, <1>9
  <2>2. ASSUME NEW i \in 1 .. l PROVE i + m \in 1 .. m + l /\ u[i + m] = L[i]
    <3>1. i + m \in 1 .. m + l /\ ~(i + m <= m) /\ (i + m) - m = i
      BY <1>8
    <3>. QED BY <1>9, <3>1
  <2>. QED BY <2>1, <2>2
<1>12. ASSUME NEW i \in 1 .. Len(u)
       PROVE  /\ u[i][1] <= u[i][2] /\ u[i][2] < Z
              /\ \A x \in file.newlines : ~(u[i][1] <= x /\ x <= u[i][2])
  <2>1. i \in 1 .. m + l
    BY <1>9
  <2>2. CASE i \in 1 .. m /\ u[i] = s[i]
    <3>1. s[i][2] < A /\ s[i][2] \in Nat
      BY <1>3, <1>7, <2>2 DEF m
    <3>2. s[i][2] < Z
      BY <1>1, <3>1
    <3>. QED BY <1>3, <2>2, <3>2 DEF m
  <2>3. CASE i \notin 1 .. m /\ i - m \in 1 .. l /\ u[i] = L[i - m]
    BY <1>6, <2>3 DEF l
  <2>. QED BY <1>10, <2>1, <2>2, <2>3
<1>13. InOrder(u)
  <2>. SUFFICES ASSUME NEW i \in 1 .. Len(u), NEW j \in 1 .. Len(u), i < j
                PROVE  u[i][2] < u[j][1]
    BY DEF InOrder
  <2>1. i \in 1 .. m + l /\ j \in 1 .. m + l
    BY <1>9
  <2>2. CASE i \in 1 .. m /\ u[i] = s[i] /\ j \in 1 .. m /\ u[j] = s[j]
    BY <1>3, <2>2 DEF InOrder, m
  <2>3. CASE i \in 1 .. m /\ u[i] = s[i] /\ j - m \in 1 .. l /\ u[j] = L[j - m]
    <3>1. s[i][2] < A /\ s[i][2] \in Nat /\ A <= L[j - m][1] /\ L[j - m][1] \in Nat
      BY <1>3, <1>6, <1>7, <2>3 DEF m, l
    <3>. QED BY <1>1, <2>3, <3>1
  <2>4. CASE i - m \in 1 .. l /\ u[i] = L[i - m] /\ j - m \in 1 .. l /\ u[j] = L[j - m]
    <3>1. i - m < j - m
      BY <1>8, <2>1
    <3>. QED BY <1>2, <2>4, <3>1 DEF InOrder, l
  <2>5. ~(i \notin 1 .. m /\ j \in 1 .. m)
    BY <1>8, <2>1
  <2>. QED BY <1>10, <2>1, <2>2, <2>3, <2>4, <2>5
<1>14. ASSUME NEW x \in 0 .. Z - 1, x \notin file.newlines PROVE Around(u, x)
  <2>0. x \in Nat /\ x < Z
    BY <1>1
  <2>1. CASE x < A
    <3>1. x \in 0 .. A - 1
      BY <1>1, <2>0, <2>1
    <3>2. PICK i \in 1 .. m : s[i][1] <= x /\ x <= s[i][2]
      BY <1>3, <1>14, <3>1 DEF Around, m
    <3>3. i \in 1 .. Len(u) /\ u[i] = s[i]
      BY <1>9, <1>11
    <3>. QED BY <3>2, <3>3 DEF Around
  <2>2. CASE A <= x
    <3>1. PICK p \in Pieces(b) : p[1] <= x /\ x <= p[2]
      BY <1>1, <1>14, <2>0, <2>2, PieceAround
    <3>2. PICK i \in 1 .. l : L[i] = p
      BY <1>2 DEF l
    <3>3. i + m \in 1 .. Len(u) /\ u[i + m] = p
      BY <1>9, <1>11, <3>2
    <3>. QED BY <3>1, <3>3 DEF Around
  <2>. QED BY <1>1, <2>0, <2>1, <2>2
<1>15. \A x \in 0 .. Z - 1 : x \in file.newlines \/ Around(u, x)
  BY <1>14
<1>16. Pass(u, b + 1)
  BY <1>9, <1>12, <1>13, <1>15 DEF Pass, Z
<1>. QED BY <1>4, <1>16 DEF L, u

LEMMA SameBlocks ==
  ASSUME file' = file
  PROVE  /\ FilePairs' = FilePairs
         /\ \A b : LinesOfBlock(b)' = LinesOfBlock(b)
         /\ \A s, c : Pass(s, c)' = Pass(s, c)
<1>1. PartitionSize' = PartitionSize
  BY DEF PartitionSize
<1>2. \A b : BlockStart(b)' = BlockStart(b) /\ BlockEnd(b)' = BlockEnd(b)
  BY <1>1 DEF BlockStart, BlockEnd
<1>3. \A x, y, b : IsPiece(x, y, b)' = IsPiece(x, y, b)
  BY <1>2 DEF IsPiece
<1>4. \A b : Pieces(b)' = Pieces(b)
  BY <1>3 DEF Pieces
<1>5. \A b : LinesOfBlock(b)' = LinesOfBlock(b)
  BY DEF LinesOfBlock, Pieces, IsPiece, BlockStart, BlockEnd, PartitionSize
<1>6. FilePairs' = FilePairs
  BY DEF FilePairs
<1>7. \A c : Bound(c)' = Bound(c)
  BY <1>2 DEF Bound
<1>8. \A s, c : Pass(s, c)' = Pass(s, c)
  BY <1>6, <1>7 DEF Pass, Around, InOrder
<1>. QED BY <1>5, <1>6, <1>8

LEMMA LinesInit == Init => LinesInv
<1>. SUFFICES ASSUME Init PROVE LinesInv
  OBVIOUS
<1>1. /\ blocks = 0 /\ todo = <<>> /\ lines = <<>> /\ 0 \in Ranks
      /\ pc = [r \in Ranks |-> IF Binary \/ r = 0 THEN "read" ELSE "done"]
  BY FileReadersConstants DEF Init, Ranks
<1>2. todo \in Seq(FilePairs) /\ lines \in Seq(FilePairs) /\ lines \o todo = <<>>
  BY <1>1
<1>3. Pass(<<>>, 0)
  <2>1. Bound(0) = 0
    BY DEF Bound
  <2>. QED BY <2>1 DEF Pass, InOrder
<1>4. pc[0] # "done"
  BY <1>1
<1>. QED BY <1>1, <1>2, <1>3, <1>4 DEF LinesInv

LEMMA MovesALine ==
  ASSUME NEW S, NEW l \in Seq(S), NEW t \in Seq(S), t # <<>>
  PROVE  /\ Append(l, Head(t)) \in Seq(S) /\ Tail(t) \in Seq(S)
         /\ Append(l, Head(t)) \o Tail(t) = l \o t
<1>. DEFINE h == Head(t)  u == Tail(t)
<1>1. h \in S /\ u \in Seq(S) /\ Len(u) = Len(t) - 1 /\ \A i \in 1 .. Len(u) : u[i] = t[i + 1]
  BY HeadTailProperties
<1>2. h = t[1] /\ Len(t) \in Nat \ {0}
  BY EmptySeq
<1>. DEFINE o == <<h>>
<1>. HIDE DEF h, u
<1>3. o \in Seq(S) /\ Len(o) = 1 /\ o[1] = h
  BY <1>1
<1>. HIDE DEF o
<1>4. o \o u = t
  <2>1. /\ o \o u \in Seq(S) /\ Len(o \o u) = 1 + Len(u)
        /\ \A i \in 1 .. 1 + Len(u) : (o \o u)[i] = IF i <= 1 THEN o[1] ELSE u[i - 1]
    <3>0. \A v, w \in Seq(S) :
            /\ v \o w \in Seq(S) /\ Len(v \o w) = Len(v) + Len(w)
            /\ \A i \in 1 .. Len(v) + Len(w) :
                 (v \o w)[i] = IF i <= Len(v) THEN v[i] ELSE w[i - Len(v)]
      BY ConcatProperties
    <3>1. /\ o \o u \in Seq(S) /\ Len(o \o u) = 1 + Len(u)
          /\ \A i \in 1 .. 1 + Len(u) : (o \o u)[i] = IF i <= 1 THEN o[i] ELSE u[i - 1]
      <4>1. /\ o \o u \in Seq(S) /\ Len(o \o u) = Len(o) + Len(u)
            /\ \A i \in 1 .. Len(o) + Len(u) :
                 (o \o u)[i] = IF i <= Len(o) THEN o[i] ELSE u[i - Len(o)]
        BY <1>1, <1>3, <3>0, Zenon
      <4>2. Len(o) = 1
        BY <1>3
      <4>. QED BY <4>1, <4>2, Zenon
    <3>2. \A i \in 1 .. 1 + Len(u) : i <= 1 => i = 1
      BY <1>1, <1>2
    <3>. QED BY <3>1, <3>2
  <2>2. Len(o \o u) = Len(t)
    BY <1>1, <1>2, <2>1
  <2>3. ASSUME NEW i \in 1 .. Len(t) PROVE (o \o u)[i] = t[i]
    <3>1. CASE i = 1
      BY <1>1, <1>2, <1>3, <2>1, <3>1
    <3>2. CASE i # 1
      <4>1. i - 1 \in 1 .. Len(u) /\ (i - 1) + 1 = i /\ ~(i <= 1) /\ i \in 1 .. 1 + Len(u)
        BY <1>1, <1>2, <3>2
      <4>. QED BY <1>1, <2>1, <4>1
    <3>. QED BY <3>1, <3>2
  <2>. QED BY <2>1, <2>2, <2>3, SeqEqual
<1>5. Append(l, h) = l \o o /\ Append(l, h) \in Seq(S)
  BY <1>1, AppendIsConcat, AppendProperties DEF o
<1>6. (l \o o) \o u = l \o (o \o u)
  BY SMTT(30), <1>1, <1>3, ConcatAssociative
<1>. QED BY <1>1, <1>4, <1>5, <1>6 DEF h, u

LEMMA LinesStep == WorkInv /\ LinesInv /\ [Next]_vars => LinesInv'
<1>. SUFFICES ASSUME WorkInv, LinesInv, [Next]_vars PROVE LinesInv'
  OBVIOUS
<1>0. /\ todo \in Seq(FilePairs) /\ lines \in Seq(FilePairs) /\ Pass(lines \o todo, blocks)
      /\ file \in Files /\ blocks \in 0 .. numBlocks /\ numBlocks \in Nat
      /\ ~Binary /\ pc[0] = "done" => todo = <<>> /\ blocks = numBlocks
  BY FileReadersConstants DEF LinesInv, WorkInv, ReaderOK
<1>1. ASSUME UNCHANGED <<reader, file, blocks, todo, lines>>,
             ~Binary /\ pc'[0] = "done" => todo = <<>> /\ blocks = numBlocks
      PROVE  LinesInv'
  <2>1. FilePairs' = FilePairs /\ \A s, c : Pass(s, c)' = Pass(s, c)
    BY <1>1, SameBlocks
  <2>2. Binary' = Binary
    BY <1>1 DEF Binary
  <2>. QED BY <1>0, <1>1, <2>1, <2>2 DEF LinesInv
<1>2. ASSUME NEW r \in Ranks, Read(r) PROVE LinesInv'
  <2>1. Binary /\ UNCHANGED <<reader, file, blocks, todo, lines>>
    BY <1>2 DEF Read
  <2>. QED BY <1>1, <2>1
<1>3. ASSUME NEW r \in Ranks, Parse(r) PROVE LinesInv'
  <2>1. Binary /\ UNCHANGED <<reader, file, blocks, todo, lines>>
    BY <1>3 DEF Parse
  <2>. QED BY <1>1, <2>1
<1>4. CASE ReadBlock
  <2>1. /\ pc[0] = "read" /\ todo = <<>> /\ blocks < numBlocks
        /\ todo' = LinesOfBlock(blocks) /\ blocks' = blocks + 1
        /\ UNCHANGED <<reader, file, pc, lines>>
    BY <1>4 DEF ReadBlock
  <2>2. FilePairs' = FilePairs /\ \A s, c : Pass(s, c)' = Pass(s, c)
    BY <2>1, SameBlocks
  <2>3. blocks \in 0 .. numBlocks - 1
    BY <1>0, <2>1
  <2>4. lines \o todo = lines
    BY <1>0, <2>1, ConcatEmptySeq
  <2>5. todo' \in Seq(FilePairs) /\ Pass(lines \o todo', blocks + 1)
    BY <1>0, <2>1, <2>3, <2>4, PassGrows
  <2>6. Pass(lines \o todo, blocks)'
    BY <2>1, <2>2, <2>5
  <2>. QED BY <1>0, <2>1, <2>2, <2>5, <2>6 DEF LinesInv
<1>5. CASE TakeLine
  <2>1. /\ ~Binary /\ todo # <<>> /\ lines' = Append(lines, Head(todo)) /\ todo' = Tail(todo)
        /\ UNCHANGED <<reader, file, pc, blocks>>
    BY <1>5 DEF TakeLine
  <2>2. FilePairs' = FilePairs /\ \A s, c : Pass(s, c)' = Pass(s, c)
    BY <2>1, SameBlocks
  <2>3. lines' \in Seq(FilePairs) /\ todo' \in Seq(FilePairs) /\ lines' \o todo' = lines \o todo
    BY SMTT(30), <1>0, <2>1, MovesALine
  <2>4. pc'[0] # "done"
    BY <1>0, <2>1
  <2>5. Pass(lines \o todo, blocks)'
    BY <1>0, <2>1, <2>2, <2>3
  <2>. QED BY <2>1, <2>2, <2>3, <2>4, <2>5 DEF LinesInv
<1>6. CASE EndOfBlocks
  <2>1. todo = <<>> /\ blocks = numBlocks /\ UNCHANGED <<reader, file, blocks, todo, lines>>
    BY <1>6 DEF EndOfBlocks
  <2>. QED BY <1>1, <2>1
<1>7. CASE Terminating \/ UNCHANGED vars
  <2>1. UNCHANGED <<reader, file, pc, blocks, todo, lines>>
    BY <1>7 DEF Terminating, vars
  <2>2. pc'[0] = pc[0]
    BY <2>1
  <2>. QED BY <1>0, <1>1, <2>1, <2>2
<1>. QED BY <1>2, <1>3, <1>4, <1>5, <1>6, <1>7 DEF Next

(* What has been looked at is a part of what has been read.                *)
LEMMA PartInOrder ==
  ASSUME NEW S, NEW l \in Seq(S), NEW t \in Seq(S), NEW c, Pass(l \o t, c)
  PROVE  InOrder(l) /\ \A i \in 1 .. Len(l) : l[i][1] <= l[i][2]
<1>. DEFINE u == l \o t  m == Len(l)
<1>2. /\ Len(u) = m + Len(t) /\ m \in Nat /\ Len(t) \in Nat
      /\ \A i \in 1 .. m + Len(t) : u[i] = IF i <= m THEN l[i] ELSE t[i - m]
  BY ConcatProperties
<1>. HIDE DEF u, m
<1>3. \A i \in 1 .. m : i \in 1 .. Len(u) /\ u[i] = l[i]
  BY <1>2
<1>4. InOrder(u) /\ \A i \in 1 .. Len(u) : u[i][1] <= u[i][2]
  BY DEF Pass, u
<1>. QED BY <1>3, <1>4 DEF InOrder, m

LEMMA LinesDelivered ==
  ASSUME LinesInv, file \in Files, ~Binary, pc[0] = "done"
  PROVE  UNION {lines[i][1] .. lines[i][2] : i \in 1 .. Len(lines)} =
           (0 .. file.size - 2) \ file.newlines
<1>1. /\ file.size \in Nat \ {0} /\ file.newlines \subseteq 0 .. file.size - 1
      /\ numBlocks \in Nat \ {0}
  BY FileReadersConstants
<1>2. Bound(numBlocks) = file.size - 1
  <2>1. numBlocks # 0
    BY <1>1
  <2>. QED BY <2>1 DEF Bound, BlockEnd
<1>3. lines \o todo = lines /\ blocks = numBlocks /\ lines \in Seq(FilePairs)
  BY ConcatEmptySeq DEF LinesInv
<1>4. Pass(lines, numBlocks)
  BY <1>3 DEF LinesInv
<1>5. ASSUME NEW i \in 1 .. Len(lines)
      PROVE  /\ lines[i][1] \in Nat /\ lines[i][2] \in Nat /\ lines[i][2] < file.size - 1
             /\ \A x \in file.newlines : ~(lines[i][1] <= x /\ x <= lines[i][2])
  <2>1. lines[i] \in FilePairs
    BY <1>3
  <2>. QED BY <1>1, <1>2, <1>4, <2>1 DEF Pass, FilePairs
<1>6. ASSUME NEW i \in 1 .. Len(lines), NEW x \in lines[i][1] .. lines[i][2]
      PROVE  x \in (0 .. file.size - 2) \ file.newlines
  <2>1. x \in Int /\ lines[i][1] <= x /\ x <= lines[i][2]
    BY <1>5
  <2>2. x \notin file.newlines
    BY <1>5, <2>1
  <2>3. x \in 0 .. file.size - 2
    BY <1>1, <1>5, <2>1
  <2>. QED BY <2>2, <2>3
<1>7. ASSUME NEW x \in 0 .. file.size - 2, x \notin file.newlines
      PROVE  \E i \in 1 .. Len(lines) : x \in lines[i][1] .. lines[i][2]
  <2>1. x \in 0 .. Bound(numBlocks) - 1
    BY <1>1, <1>2
  <2>2. PICK i \in 1 .. Len(lines) : lines[i][1] <= x /\ x <= lines[i][2]
    BY <1>4, <1>7, <2>1 DEF Pass, Around
  <2>3. x \in lines[i][1] .. lines[i][2]
    BY <1>1, <1>5, <2>2
  <2>. QED BY <2>3
<1>. QED BY <1>6, <1>7

-----------------------------------------------------------------------------
(* The sample.                                                             *)

SampleInv == SampleFull /\ InPlaceOrLater

LEMMA SampleInit == Init => SampleInv
BY FileReadersConstants DEF Init, SampleInv, SampleFull, InPlaceOrLater

LEMMA TakeLineKeepsSample ==
  ASSUME LinesInv, SampleInv, TakeLine
  PROVE  SampleFull' /\ InPlaceOrLater'
<1>. DEFINE n == Len(lines)  line == Head(todo)
<1>1. PICK j \in 0 .. n : samples' = Sampled(samples, n, j, line)
  BY DEF TakeLine
<1>2. n \in Nat /\ k \in Nat /\ j \in Nat /\ j <= n /\ line \in FilePairs
  BY FileReadersConstants DEF LinesInv, TakeLine
<1>3. lines' = Append(lines, line)
  BY DEF TakeLine
<1>4. /\ Len(lines') = n + 1 /\ lines'[n + 1] = line
      /\ \A m \in 1 .. n : lines'[m] = lines[m]
  BY <1>2, <1>3 DEF LinesInv
<1>5. /\ DOMAIN samples' = DOMAIN samples \cup {x \in {n, j} : x < k}
      /\ \A i \in DOMAIN samples' : samples'[i] = IF i \in {n, j} THEN line ELSE samples[i]
  BY <1>1 DEF Sampled
<1>6. DOMAIN samples = {i \in 0 .. k - 1 : i < n}
  BY DEF SampleInv, SampleFull
<1>. HIDE DEF n, line
<1>7. SampleFull'
  <2>1. DOMAIN samples' = {i \in 0 .. k - 1 : i < n + 1}
    BY <1>2, <1>5, <1>6
  <2>. QED BY <1>4, <2>1 DEF SampleFull
<1>8. ASSUME NEW i \in DOMAIN samples'
      PROVE  \E m \in i + 1 .. n + 1 : samples'[i] = lines'[m]
  <2>1. i \in Nat /\ i <= n
    BY <1>2, <1>5, <1>6
  <2>2. CASE i \in {n, j}
    <3>1. samples'[i] = lines'[n + 1]
      BY <1>4, <1>5, <2>2
    <3>. QED BY <1>2, <2>1, <3>1
  <2>3. CASE i \notin {n, j}
    <3>1. i \in DOMAIN samples /\ samples'[i] = samples[i]
      BY <1>5, <2>3
    <3>2. PICK m \in i + 1 .. n : samples[i] = lines[m]
      BY <3>1 DEF SampleInv, InPlaceOrLater, n
    <3>3. m \in 1 .. n /\ m \in i + 1 .. n + 1
      BY <1>2, <2>1
    <3>. QED BY <1>4, <3>1, <3>2, <3>3
  <2>. QED BY <2>2, <2>3
<1>9. InPlaceOrLater'
  BY <1>4, <1>8 DEF InPlaceOrLater
<1>. QED BY <1>7, <1>9

LEMMA SampleStep == LinesInv /\ SampleInv /\ [Next]_vars => SampleInv'
<1>. SUFFICES ASSUME LinesInv, SampleInv, [Next]_vars PROVE SampleInv'
  OBVIOUS
<1>1. ASSUME UNCHANGED <<lines, samples>> PROVE SampleInv'
  BY <1>1 DEF SampleInv, SampleFull, InPlaceOrLater
<1>2. CASE TakeLine
  BY <1>2, TakeLineKeepsSample DEF SampleInv
<1>3. ASSUME NEW r \in Ranks, Read(r) \/ Parse(r) PROVE SampleInv'
  BY <1>1, <1>3 DEF Read, Parse
<1>4. CASE ReadBlock
  BY <1>1, <1>4 DEF ReadBlock
<1>5. CASE EndOfBlocks
  BY <1>1, <1>5 DEF EndOfBlocks
<1>6. CASE Terminating \/ UNCHANGED vars
  BY <1>1, <1>6 DEF Terminating, vars
<1>. QED BY <1>2, <1>3, <1>4, <1>5, <1>6 DEF Next

-----------------------------------------------------------------------------
(* The places of a line in the sample.                                     *)

PlacesInv ==
  ~Binary => \A n \in 1 .. Len(lines) :
    \E a : Places(lines[n]) \subseteq (IF n <= k THEN {n - 1, a} ELSE {a})

LEMMA PlacesStep == WorkInv /\ LinesInv /\ SampleInv /\ PlacesInv /\ [Next]_vars => PlacesInv'
<1>. SUFFICES ASSUME WorkInv, LinesInv, SampleInv, PlacesInv, [Next]_vars
              PROVE PlacesInv'
  OBVIOUS
<1>1. ASSUME reader' = reader, UNCHANGED <<lines, samples>> PROVE PlacesInv'
  <2>1. Binary' = Binary
    BY <1>1 DEF Binary
  <2>2. \A x : Places(x)' = Places(x)
    BY <1>1 DEF Places
  <2>. QED BY <1>1, <2>1, <2>2 DEF PlacesInv
<1>2. CASE TakeLine
  <2>a. PICK n : n = Len(lines)
    OBVIOUS
  <2>b. PICK line : line = Head(todo)
    OBVIOUS
  <2>1. /\ ~Binary /\ todo # <<>> /\ lines' = Append(lines, line)
        /\ \E j \in 0 .. n : samples' = Sampled(samples, n, j, line)
    BY <1>2, <2>a, <2>b DEF TakeLine
  <2>2. PICK j \in 0 .. n : samples' = Sampled(samples, n, j, line)
    BY <2>1
  <2>3. /\ lines \in Seq(FilePairs) /\ n \in Nat /\ k \in Nat /\ todo \in Seq(FilePairs)
        /\ line \in FilePairs /\ file \in Files
    BY <2>1, <2>a, <2>b, FileReadersConstants, HeadTailProperties DEF LinesInv, WorkInv, ReaderOK
  <2>4. /\ Len(lines') = n + 1 /\ lines'[n + 1] = line
        /\ \A m \in 1 .. n : lines'[m] = lines[m]
    BY <2>1, <2>3, <2>a, AppendProperties
  <2>5. /\ InOrder(lines')
        /\ \A i \in 1 .. Len(lines') : lines'[i][1] <= lines'[i][2]
    <3>. DEFINE l == Append(lines, line)  t == Tail(todo)
    <3>1. l \in Seq(FilePairs) /\ t \in Seq(FilePairs) /\ l \o t = lines \o todo
      BY <2>1, <2>3, <2>b, MovesALine
    <3>2. Pass(l \o t, blocks)
      BY <3>1 DEF LinesInv
    <3>. HIDE DEF l, t
    <3>3. InOrder(l) /\ \A i \in 1 .. Len(l) : l[i][1] <= l[i][2]
      BY <3>1, <3>2, PartInOrder
    <3>. QED BY <2>1, <3>3 DEF l
  <2>6. ASSUME NEW m \in 1 .. n PROVE lines[m] # line
    <3>1. m \in 1 .. Len(lines') /\ n + 1 \in 1 .. Len(lines') /\ m < n + 1
      BY <2>3, <2>4
    <3>2. lines'[m][2] < lines'[n + 1][1] /\ lines'[n + 1][1] <= lines'[n + 1][2]
      BY <2>5, <3>1 DEF InOrder
    <3>3. line[1] \in Nat /\ line[2] \in Nat
      BY <2>3, FileReadersConstants DEF FilePairs
    <3>4. lines[m][2] < line[1] /\ line[1] <= line[2]
      BY <2>4, <3>2
    <3>5. ASSUME lines[m] = line PROVE FALSE
      BY <3>3, <3>4, <3>5
    <3>. QED BY <3>5
  <2>7. /\ DOMAIN samples' = DOMAIN samples \cup {x \in {n, j} : x < k}
        /\ \A i \in DOMAIN samples' : samples'[i] = IF i \in {n, j} THEN line ELSE samples[i]
    BY <2>2 DEF Sampled
  <2>8. DOMAIN samples = {i \in 0 .. k - 1 : i < n}
    BY <2>a DEF SampleInv, SampleFull
  <2>9. \A i \in DOMAIN samples : \E m \in 1 .. n : samples[i] = lines[m]
    <3>. SUFFICES ASSUME NEW i \in DOMAIN samples PROVE \E m \in 1 .. n : samples[i] = lines[m]
      OBVIOUS
    <3>1. i \in Nat
      BY <2>3, <2>8
    <3>2. PICK m \in i + 1 .. n : samples[i] = lines[m]
      BY <2>a DEF SampleInv, InPlaceOrLater
    <3>3. m \in 1 .. n
      BY <2>3, <3>1
    <3>. QED BY <3>2, <3>3
  <2>10. ASSUME NEW m \in 1 .. n
         PROVE  \E a : Places(lines[m])' \subseteq (IF m <= k THEN {m - 1, a} ELSE {a})
    <3>1. Places(lines[m])' \subseteq Places(lines[m])
      <4>. SUFFICES ASSUME NEW i \in DOMAIN samples', samples'[i] = lines'[m]
                    PROVE  i \in DOMAIN samples /\ samples[i] = lines[m]
        BY DEF Places
      <4>1. samples'[i] = lines[m] /\ lines[m] # line
        BY <2>4, <2>6
      <4>2. i \notin {n, j} /\ samples[i] = lines[m]
        BY <2>7, <4>1
      <4>. QED BY <2>7, <4>2
    <3>2. PICK a : Places(lines[m]) \subseteq (IF m <= k THEN {m - 1, a} ELSE {a})
      BY <2>1, <2>a DEF PlacesInv
    <3>. QED BY <3>1, <3>2
  <2>11. Places(lines[n + 1])' \subseteq (IF n + 1 <= k THEN {(n + 1) - 1, j} ELSE {j})
    <3>. SUFFICES ASSUME NEW i \in DOMAIN samples', samples'[i] = lines'[n + 1]
                  PROVE  i \in (IF n + 1 <= k THEN {(n + 1) - 1, j} ELSE {j})
      BY DEF Places
    <3>1. i \in {n, j}
      <4>. SUFFICES ASSUME i \notin {n, j} PROVE FALSE
        OBVIOUS
      <4>1. i \in DOMAIN samples /\ samples[i] = line
        BY <2>4, <2>7
      <4>2. PICK m \in 1 .. n : samples[i] = lines[m]
        BY <2>9, <4>1
      <4>. QED BY <2>6, <4>1, <4>2
    <3>2. i < k
      BY <2>3, <2>7, <2>8
    <3>3. n + 1 <= k \/ i # n
      BY <2>3, <3>2
    <3>4. (n + 1) - 1 = n
      BY <2>3
    <3>. QED BY <3>1, <3>3, <3>4
  <2>12. ASSUME NEW m \in 1 .. n + 1
         PROVE  \E a : Places(lines[m])' \subseteq (IF m <= k THEN {m - 1, a} ELSE {a})
    <3>1. m \in 1 .. n \/ m = n + 1
      BY <2>3
    <3>2. CASE m = n + 1
      BY <2>11, <3>2
    <3>. QED BY <2>10, <3>1, <3>2
  <2>. QED BY <2>4, <2>12 DEF PlacesInv
<1>3. ASSUME NEW r \in Ranks, Read(r) \/ Parse(r) PROVE PlacesInv'
  BY <1>1, <1>3 DEF Read, Parse
<1>4. CASE ReadBlock
  BY <1>1, <1>4 DEF ReadBlock
<1>5. CASE EndOfBlocks
  BY <1>1, <1>5 DEF EndOfBlocks
<1>6. CASE Terminating \/ UNCHANGED vars
  BY <1>1, <1>6 DEF Terminating, vars
<1>. QED BY <1>2, <1>3, <1>4, <1>5, <1>6 DEF Next

-----------------------------------------------------------------------------
(* The whole invariant, and what follows from it.                          *)

PassInv == WorkInv /\ LinesInv /\ SampleInv /\ PlacesInv

LEMMA PassInvariant == Spec => []PassInv
<1>1. Init => PlacesInv
  BY DEF Init, PlacesInv
<1>2. Init => PassInv
  BY <1>1, WorkInit, LinesInit, SampleInit DEF PassInv
<1>3. PassInv /\ [Next]_vars => PassInv'
  BY WorkStep, LinesStep, SampleStep, PlacesStep DEF PassInv
<1>. QED BY <1>2, <1>3, PTL DEF Spec

(* Every variable has its type, in a file of any size cut by any numbers.  *)
THEOREM TypeCorrect == Spec => []TypeOK
<1>1. PassInv => TypeOK
  <2>. SUFFICES ASSUME PassInv PROVE TypeOK
    OBVIOUS
  <2>1. /\ ReaderOK /\ killed \in BOOLEAN /\ blocks \in 0 .. numBlocks
        /\ pc \in [Ranks -> {"read", "parse", "done"}]
        /\ \A r \in Ranks : buffer[r] \in {<<>>, ElementsRead(r)}
        /\ \A r \in Ranks : records[r] \in {<<>>, RecordsOf(r)}
    BY DEF PassInv, WorkInv
  <2>2. reader \in Readers /\ file \in Files
    BY <2>1 DEF ReaderOK
  <2>3. ASSUME NEW r \in Ranks
        PROVE  buffer[r] \in Seq(0 .. file.size) /\ records[r] \in Seq(0 .. file.size \cup {Torn})
    <3>1. ElementsRead(r) \in Seq(0 .. file.size)
      BY <2>1, ElementsType
    <3>2. RecordsOf(r) \in Seq(0 .. file.size \cup {Torn})
      BY <2>1, RecordsType
    <3>3. \A S : <<>> \in Seq(S)
      BY EmptySeq
    <3>. QED BY <2>1, <3>1, <3>2, <3>3, Zenon
  <2>4. {todo, lines} \subseteq Seq((0 .. file.size) \X (0 .. file.size))
    BY DEF PassInv, LinesInv, FilePairs
  <2>5. DOMAIN samples \subseteq 0 .. k - 1
    BY DEF PassInv, SampleInv, SampleFull
  <2>. QED BY <2>1, <2>2, <2>3, <2>4, <2>5 DEF TypeOK
<1>. QED BY <1>1, PassInvariant, PTL

(* Every record is delivered once if the processes have whole ones; every  *)
(* byte of a text but the last, once and in order.                         *)
THEOREM DeliveryHolds == Spec => []EverythingDeliveredOnce
<1>1. PassInv /\ BufferHolds => EverythingDeliveredOnce
  <2>. SUFFICES ASSUME PassInv, BufferHolds PROVE EverythingDeliveredOnce
    OBVIOUS
  <2>1. WorkInv /\ LinesInv /\ file \in Files
    BY DEF PassInv, WorkInv, ReaderOK
  <2>2. ASSUME Binary, Fits, WholeBlocks, WholeRecords, Done
        PROVE  LET all == (Elements \div reader.perRecord) * numProcesses
               IN  /\ \A n \in 0 .. all - 1 : Cardinality(Delivered(n)) = 1
                   /\ Delivered(Torn) = {}
                   /\ file.size - all * RecordSize < numProcesses * reader.sizeOf
    <3>1. Whole
      BY <2>1, <2>2 DEF Whole, WorkInv
    <3>. QED BY <2>1, <2>2, <3>1, RecordsDelivered
  <2>3. \A i, j \in 1 .. Len(lines) : i < j => lines[i][2] < lines[j][1]
    <3>1. InOrder(lines)
      BY <2>1, PartInOrder DEF LinesInv
    <3>. QED BY <3>1 DEF InOrder
  <2>4. ASSUME ~Binary, Done
        PROVE  UNION {lines[i][1] .. lines[i][2] : i \in 1 .. Len(lines)} =
                 (0 .. file.size - 2) \ file.newlines
    <3>1. pc[0] = "done"
      BY <2>4, FileReadersConstants DEF Done, Ranks
    <3>. QED BY <2>1, <2>4, <3>1, LinesDelivered
  <2>. QED BY <2>2, <2>3, <2>4 DEF EverythingDeliveredOnce
<1>. QED BY <1>1, PassInvariant, BuffersHold, PTL

(* A set within two values has at most two.                                *)
LEMMA AtMostTwo ==
  ASSUME NEW a, NEW b, NEW S, S \subseteq {a, b}
  PROVE  Cardinality(S) <= 2 /\ (S \subseteq {a} => Cardinality(S) <= 1)
<1>1. /\ Cardinality({a}) = 1 /\ Cardinality({b}) = 1 /\ IsFiniteSet({a}) /\ IsFiniteSet({b})
      /\ IsFiniteSet({}) /\ Cardinality({}) = 0
  BY FS_Singleton, FS_EmptySet
<1>2. S = {} \/ S = {a} \/ S = {b} \/ (a # b /\ S = {a} \cup {b})
  OBVIOUS
<1>3. ASSUME a # b, S = {a} \cup {b} PROVE Cardinality(S) = 2
  <2>1. IsFiniteSet({a} \cup {b}) /\ Cardinality({a} \cup {b}) = Cardinality({a}) + 1
    BY <1>1, <1>3, FS_AddElement
  <2>. QED BY <1>1, <1>3, <2>1
<1>4. S \subseteq {a} => S = {} \/ S = {a}
  OBVIOUS
<1>. QED BY <1>1, <1>2, <1>3, <1>4

(* Whatever numbers are drawn, the sample has a line in each place as soon *)
(* as there are that many, the line in a place is none of those read       *)
(* before the place was first filled, and no line is in it more than once, *)
(* or twice for one of the first k.                                        *)
THEOREM SampleHolds == Spec => []SampleOfTheLines
<1>1. PassInv => SampleOfTheLines
  <2>. SUFFICES ASSUME PassInv, ~Binary PROVE
          /\ SampleFull /\ InPlaceOrLater
          /\ \A n \in 1 .. Len(lines) : Cardinality(Places(lines[n])) <= (IF n <= k THEN 2 ELSE 1)
    BY DEF SampleOfTheLines
  <2>1. SampleFull /\ InPlaceOrLater
    BY DEF PassInv, SampleInv
  <2>2. ASSUME NEW n \in 1 .. Len(lines)
        PROVE  Cardinality(Places(lines[n])) <= (IF n <= k THEN 2 ELSE 1)
    <3>1. PICK a : Places(lines[n]) \subseteq (IF n <= k THEN {n - 1, a} ELSE {a})
      BY DEF PassInv, PlacesInv
    <3>2. CASE n <= k
      BY <3>1, <3>2, AtMostTwo
    <3>3. CASE ~(n <= k)
      <4>1. Places(lines[n]) \subseteq {a, a} /\ Places(lines[n]) \subseteq {a}
        BY <3>1, <3>3
      <4>. QED BY <3>3, <4>1, AtMostTwo
    <3>. QED BY <3>2, <3>3
  <2>. QED BY <2>1, <2>2
<1>. QED BY <1>1, PassInvariant, PTL
=============================================================================
