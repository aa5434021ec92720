------------------------- MODULE FilePartitionProofs -------------------------
(***************************************************************************)
(* For every number of ranks, every overlap and every text file whose      *)
(* lines are shorter than it, the ranges the ranks compute each on its own *)
(* fit together without a gap and without an overlap.                      *)
(***************************************************************************)
EXTENDS FilePartition, FiniteSetTheorems, WellFoundedInduction, TLAPS

(* The least element of a set of natural numbers.                          *)
LEMMA LeastExists ==
  ASSUME NEW S, S \subseteq Nat, S # {}
  PROVE  \E m \in S : \A j \in S : m <= j
<1>1. PICK m \in S : \A j \in S : ~(<<j, m>> \in OpToRel(<, Nat))
  BY NatLessThanWellFounded, WFMin
<1>2. \A j \in S : j \in Nat /\ m \in Nat => ~(j < m)
  BY <1>1 DEF OpToRel
<1>3. \A j \in S : ~(j < m) => m <= j
  OBVIOUS
<1>. QED BY <1>2, <1>3

LEMMA LeastIs ==
  ASSUME NEW S, S \subseteq Int, NEW m \in S, \A j \in S : m <= j
  PROVE  Least(S) = m
<1>1. Least(S) \in S /\ \A j \in S : Least(S) <= j
  BY DEF Least
<1>2. m <= Least(S) /\ Least(S) <= m
  BY <1>1
<1>3. m \in Int /\ Least(S) \in Int
  BY <1>1
<1>4. \A a, b \in Int : a <= b /\ b <= a => a = b
  OBVIOUS
<1>. QED BY <1>2, <1>3, <1>4, Zenon

-----------------------------------------------------------------------------
(* The shares of the ranks.                                                *)

LEMMA Shares ==
  ASSUME layer \in Layers, NEW r \in Ranks
  PROVE  /\ layer.size \in Nat \ {0} /\ overlap \in Nat \ {0}
         /\ Share \in Nat /\ r \in Nat
         /\ Start(r) \in Nat /\ Start(r) <= layer.size - 1
         /\ Start(r) + Share <= layer.size
         /\ Start(r + 1) = Start(r) + Share
<1>1. /\ layer.size \in Nat \ {0}
      /\ overlap \in Nat
      /\ MPI_Processes \in Nat \ {0}
      /\ r \in Nat /\ r + 1 <= MPI_Processes
  BY PartitionConstants DEF IsLayer, Ranks
<1>2. PICK n \in layer.newlines : 0 <= n /\ n < 0 + overlap
  BY <1>1, PartitionConstants DEF IsLayer
<1>3. overlap \in Nat \ {0}
  BY <1>1, <1>2, PartitionConstants DEF IsLayer
<1>4. PICK q \in Nat : q = Share
  BY <1>1 DEF Share
<1>5. MPI_Processes * q <= layer.size
  BY <1>1, <1>4 DEF Share
<1>6. /\ r * q \in Nat /\ (r + 1) * q = r * q + q
  BY <1>1
<1>7. (r + 1) * q <= MPI_Processes * q
  <2>1. PICK d \in Nat : MPI_Processes = r + 1 + d
    <3>1. MPI_Processes - (r + 1) \in Nat
      BY <1>1
    <3>. QED BY <1>1, <3>1
  <2>2. MPI_Processes * q = (r + 1) * q + d * q /\ d * q \in Nat
    BY <1>1, <2>1
  <2>3. (r + 1) * q \in Nat
    BY <1>1
  <2>. QED BY <2>2, <2>3
<1>8. r * q + q <= layer.size
  <2>1. MPI_Processes * q \in Nat
    BY <1>1
  <2>. QED BY <1>1, <1>5, <1>6, <1>7, <2>1
<1>9. r * q <= layer.size - 1
  <2>1. CASE q = 0
    BY <1>1, <2>1
  <2>2. CASE q >= 1
    BY <1>1, <1>6, <1>8, <2>2
  <2>. QED BY <2>1, <2>2
<1>. QED BY <1>1, <1>3, <1>4, <1>6, <1>8, <1>9 DEF Start

(* The first newline at or behind offset i.                                *)
NewlinesFrom(i) == {n \in layer.newlines : i <= n}
NextNewline(i)  == Least(NewlinesFrom(i))

LEMMA NextNewlineIs ==
  ASSUME layer \in Layers, NEW i \in 0 .. layer.size - 1
  PROVE  /\ NextNewline(i) \in layer.newlines /\ NextNewline(i) \in Nat
         /\ i <= NextNewline(i) /\ NextNewline(i) < i + overlap
         /\ NextNewline(i) <= layer.size - 1
         /\ \A n \in layer.newlines : i <= n => NextNewline(i) <= n
<1>1. IsLayer(layer) /\ overlap \in Nat
  BY PartitionConstants
<1>2. PICK k \in layer.newlines : i <= k /\ k < i + overlap
  BY <1>1 DEF IsLayer
<1>3. layer.newlines \subseteq 0 .. layer.size - 1 /\ layer.size \in Nat
  BY <1>1 DEF IsLayer
<1>4. NewlinesFrom(i) \subseteq Nat /\ k \in NewlinesFrom(i)
  BY <1>2, <1>3 DEF NewlinesFrom
<1>5. PICK m \in NewlinesFrom(i) : \A j \in NewlinesFrom(i) : m <= j
  BY <1>4, LeastExists
<1>6. NewlinesFrom(i) \subseteq Int
  BY <1>4
<1>7. NextNewline(i) = m
  BY <1>5, <1>6, LeastIs DEF NextNewline
<1>8. m \in layer.newlines /\ i <= m
  BY <1>5 DEF NewlinesFrom
<1>9. m <= k
  BY <1>4, <1>5
<1>10. \A n \in layer.newlines : i <= n => m <= n
  BY <1>5 DEF NewlinesFrom
<1>. QED BY <1>1, <1>2, <1>3, <1>7, <1>8, <1>9, <1>10

-----------------------------------------------------------------------------
(* Both searches find the next newline behind a share boundary.            *)

LEMMA LocStartIs ==
  ASSUME layer \in Layers, NEW r \in Ranks, r # 0
  PROVE  Start(r) + LocStart(r) = NextNewline(Start(r)) + 1
<1>. DEFINE n == NextNewline(Start(r))
            k == n - Start(r)
            S == {j \in 0 .. ChunkSize(r) : IsNewline(r, j)}
<1>1. /\ Start(r) \in Nat /\ Start(r) <= layer.size - 1 /\ layer.size \in Nat
      /\ overlap \in Nat \ {0} /\ Share \in Nat
  BY Shares
<1>2. /\ n \in layer.newlines /\ n \in Nat /\ Start(r) <= n
      /\ n < Start(r) + overlap /\ n <= layer.size - 1
      /\ \A m \in layer.newlines : Start(r) <= m => n <= m
  BY <1>1, NextNewlineIs
<1>3. ChunkSize(r) \in Nat /\ k < ChunkSize(r)
  BY <1>1, <1>2 DEF ChunkSize, End
<1>. HIDE DEF n
<1>4. k \in S
  BY <1>1, <1>2, <1>3 DEF IsNewline
<1>5. \A j \in S : k <= j
  BY <1>1, <1>2 DEF IsNewline
<1>6. Least(S) = k
  BY <1>4, <1>5, LeastIs
<1>7. LocStart(r) = k + 1
  BY <1>6 DEF LocStart
<1>. QED BY <1>1, <1>2, <1>7 DEF n

LEMMA LocEndIs ==
  ASSUME layer \in Layers, NEW r \in Ranks, r + 1 \in Ranks
  PROVE  LocEnd(r) \in Int /\ Start(r) + LocEnd(r) = NextNewline(Start(r + 1))
<1>. DEFINE n == NextNewline(Start(r + 1))
            k == n - Start(r)
            S == {j \in ChunkSize(r) - overlap .. ChunkSize(r) + 1 :
                    IsNewline(r, j) \/ j = ChunkSize(r) + 1}
<1>1. /\ Start(r) \in Nat /\ layer.size \in Nat
      /\ overlap \in Nat \ {0} /\ Share \in Nat /\ r \in Nat
      /\ Start(r + 1) = Start(r) + Share
      /\ Start(r + 1) <= layer.size - 1
  BY Shares
<1>2. /\ n \in layer.newlines /\ n \in Nat /\ Start(r + 1) <= n
      /\ n < Start(r + 1) + overlap
      /\ \A m \in layer.newlines : Start(r + 1) <= m => n <= m
  BY <1>1, NextNewlineIs
<1>3. r # MPI_Processes - 1
  BY PartitionConstants DEF Ranks
<1>4. ChunkSize(r) = Share + overlap
  BY <1>1, <1>3 DEF ChunkSize, End
<1>. HIDE DEF n
<1>5. k \in S
  BY <1>1, <1>2, <1>4 DEF IsNewline
<1>6. \A j \in S : k <= j
  BY <1>1, <1>2, <1>4 DEF IsNewline
<1>7. S \subseteq Int
  BY <1>1, <1>4
<1>8. Least(S) = k
  <2>. HIDE DEF S, k
  <2>. QED BY <1>5, <1>6, <1>7, LeastIs
<1>9. LocEnd(r) = k
  BY <1>3, <1>8 DEF LocEnd
<1>. QED BY <1>1, <1>2, <1>9 DEF n

-----------------------------------------------------------------------------
(* What a rank has recorded is what partitionLayer computes for it.        *)
RangeInv ==
  /\ layer \in Layers
  /\ Finished \subseteq Ranks
  /\ DOMAIN first = Finished /\ DOMAIN last = Finished
  /\ \A r \in Finished : /\ first[r] = Start(r) + LocStart(r)
                         /\ last[r] = Start(r) + LocEnd(r)

LEMMA InitRange == Init => RangeInv
BY DEF Init, RangeInv, Finished

LEMMA NextRange == RangeInv /\ [Next]_vars => RangeInv'
<1>. SUFFICES ASSUME RangeInv, [Next]_vars PROVE RangeInv'
  OBVIOUS
<1>1. ASSUME NEW r \in Ranks, PartitionLayer(r) PROVE RangeInv'
  <2>1. /\ layer' = layer
        /\ first' = WithResult(first, r, Start(r) + LocStart(r))
        /\ last' = WithResult(last, r, Start(r) + LocEnd(r))
        /\ DOMAIN splits' = DOMAIN splits \cup {r}
    BY <1>1 DEF PartitionLayer, WithResult
  <2>2. \A q : /\ Start(q)' = Start(q)
               /\ LocStart(q)' = LocStart(q) /\ LocEnd(q)' = LocEnd(q)
    BY <2>1 DEF Start, Share, LocStart, LocEnd, ChunkSize, End, IsNewline
  <2>. QED BY <2>1, <2>2 DEF RangeInv, WithResult, Finished
<1>2. CASE UNCHANGED vars
  <2>1. \A q : /\ Start(q)' = Start(q)
               /\ LocStart(q)' = LocStart(q) /\ LocEnd(q)' = LocEnd(q)
    BY <1>2 DEF vars, Start, Share, LocStart, LocEnd, ChunkSize, End, IsNewline
  <2>. QED BY <1>2, <2>1 DEF RangeInv, vars, Finished
<1>. QED BY <1>1, <1>2 DEF Next, Terminating

(* The ranges tile the file: rank r + 1 begins on the byte behind the one  *)
(* rank r ends on, although neither asks the other.                        *)
THEOREM RangesTileHolds == Spec => []RangesTile
<1>1. RangeInv => RangesTile
  <2>. SUFFICES ASSUME RangeInv, NEW r \in Finished
                PROVE  /\ r = 0 => first[r] = 0
                       /\ r + 1 \in Finished => first[r + 1] = last[r] + 1
                       /\ r = MPI_Processes - 1 => last[r] >= layer.size - 1
    BY DEF RangesTile
  <2>1. r \in Ranks /\ layer \in Layers
    BY DEF RangeInv
  <2>2. /\ Start(r) \in Nat /\ layer.size \in Nat /\ Share \in Nat /\ r \in Nat
    BY <2>1, Shares
  <2>3. r = 0 => first[r] = 0
    <3>1. r = 0 => Start(r) = 0 /\ LocStart(r) = 0
      BY <2>2 DEF Start, LocStart
    <3>. QED BY <3>1 DEF RangeInv
  <2>4. ASSUME r + 1 \in Finished PROVE first[r + 1] = last[r] + 1
    <3>1. r + 1 \in Ranks /\ r + 1 # 0
      BY <2>2, <2>4 DEF RangeInv
    <3>2. Start(r + 1) + LocStart(r + 1) = NextNewline(Start(r + 1)) + 1
      BY <2>1, <3>1, LocStartIs
    <3>3. Start(r) + LocEnd(r) = NextNewline(Start(r + 1))
      BY <2>1, <3>1, LocEndIs
    <3>. QED BY <2>4, <3>2, <3>3 DEF RangeInv
  <2>5. ASSUME r = MPI_Processes - 1 PROVE last[r] >= layer.size - 1
    <3>1. LocEnd(r) = layer.size - Start(r) + 1
      BY <2>5 DEF LocEnd, ChunkSize, End
    <3>. QED BY <2>2, <3>1 DEF RangeInv
  <2>. QED BY <2>3, <2>4, <2>5
<1>. QED BY <1>1, InitRange, NextRange, PTL DEF Spec
-----------------------------------------------------------------------------
(* The ends of the ranges grow with the rank.                              *)
LEMMA LastIs ==
  ASSUME RangeInv, Finished = Ranks, NEW r \in Ranks
  PROVE  /\ r + 1 \in Ranks => /\ last[r] = NextNewline(Start(r + 1))
                               /\ first[r + 1] = last[r] + 1
         /\ r = MPI_Processes - 1 => last[r] = layer.size + 1
         /\ r = 0 => first[r] = 0
<1>1. layer \in Layers
  BY DEF RangeInv
<1>2. /\ Start(r) \in Nat /\ layer.size \in Nat /\ Share \in Nat /\ r \in Nat
  BY <1>1, Shares
<1>3. ASSUME r + 1 \in Ranks
      PROVE  last[r] = NextNewline(Start(r + 1)) /\ first[r + 1] = last[r] + 1
  <2>1. Start(r) + LocEnd(r) = NextNewline(Start(r + 1))
    BY <1>1, <1>3, LocEndIs
  <2>2. Start(r + 1) + LocStart(r + 1) = NextNewline(Start(r + 1)) + 1
    BY <1>1, <1>2, <1>3, LocStartIs
  <2>. QED BY <1>3, <2>1, <2>2 DEF RangeInv
<1>4. ASSUME r = MPI_Processes - 1 PROVE last[r] = layer.size + 1
  <2>1. LocEnd(r) = layer.size - Start(r) + 1
    BY <1>4 DEF LocEnd, ChunkSize, End
  <2>. QED BY <1>2, <2>1 DEF RangeInv
<1>5. ASSUME r = 0 PROVE first[r] = 0
  <2>1. Start(r) = 0 /\ LocStart(r) = 0
    BY <1>2, <1>5 DEF Start, LocStart
  <2>. QED BY <2>1 DEF RangeInv
<1>. QED BY <1>3, <1>4, <1>5

LEMMA EndsGrow ==
  ASSUME RangeInv, Finished = Ranks, NEW r \in Ranks, NEW q \in Ranks, r < q
  PROVE  last[r] \in Nat /\ last[r] < first[q]
<1>1. layer \in Layers
  BY DEF RangeInv
<1>2. /\ r \in Nat /\ q \in Nat /\ Share \in Nat /\ layer.size \in Nat
      /\ Start(q) \in Nat /\ Start(q) <= layer.size - 1
  BY <1>1, Shares
<1>3. r + 1 \in Ranks /\ q - 1 \in Ranks /\ (q - 1) + 1 = q /\ r + 1 \in Nat
  BY <1>2, PartitionConstants DEF Ranks
<1>4. Start(r + 1) \in Nat /\ Start(r + 1) <= layer.size - 1
  BY <1>1, <1>3, Shares
<1>5. Start(r + 1) <= Start(q)
  <2>1. PICK d \in Nat : q = r + 1 + d
    <3>1. q - (r + 1) \in Nat
      BY <1>2
    <3>. QED BY <1>2, <3>1
  <2>2. q * Share = (r + 1) * Share + d * Share /\ d * Share \in Nat
    BY <1>2, <2>1
  <2>3. (r + 1) * Share \in Nat
    BY <1>2
  <2>. QED BY <2>2, <2>3 DEF Start
<1>6. /\ NextNewline(Start(q)) \in layer.newlines /\ NextNewline(Start(q)) \in Nat
      /\ Start(q) <= NextNewline(Start(q))
  BY <1>1, <1>2, NextNewlineIs
<1>7. /\ NextNewline(Start(r + 1)) \in Nat
      /\ NextNewline(Start(r + 1)) <= NextNewline(Start(q))
  <2>1. /\ NextNewline(Start(r + 1)) \in Nat
        /\ \A n \in layer.newlines : Start(r + 1) <= n => NextNewline(Start(r + 1)) <= n
    BY <1>1, <1>4, NextNewlineIs
  <2>. QED BY <1>2, <1>4, <1>5, <1>6, <2>1
<1>8. last[r] = NextNewline(Start(r + 1))
  BY <1>3, LastIs
<1>9. first[q] = NextNewline(Start(q)) + 1
  <2>1. last[q - 1] = NextNewline(Start((q - 1) + 1)) /\ first[(q - 1) + 1] = last[q - 1] + 1
    BY <1>3, LastIs
  <2>. QED BY <1>3, <2>1
<1>. QED BY <1>6, <1>7, <1>8, <1>9

(* A line ends before the range it begins in does, as a range ends on a    *)
(* newline or behind the file.                                             *)
LEMMA LineStaysInRange ==
  ASSUME RangeInv, Finished = Ranks, NEW r \in Ranks, NEW l \in FileLines,
         l[1] <= last[r]
  PROVE  l[2] <= last[r]
<1>1. layer \in Layers /\ layer.size \in Nat /\ r \in Nat
  BY Shares DEF RangeInv
<1>2. /\ l[1] \in 0 .. layer.size - 1 /\ l[2] \in 0 .. layer.size - 1
      /\ l[1] .. l[2] \cap layer.newlines = {}
  BY DEF FileLines, Lines
<1>3. CASE r = MPI_Processes - 1
  <2>1. last[r] = layer.size + 1
    BY <1>3, LastIs
  <2>. QED BY <1>1, <1>2, <2>1
<1>4. CASE r # MPI_Processes - 1
  <2>1. r + 1 \in Ranks
    BY <1>1, <1>4, PartitionConstants DEF Ranks
  <2>2. Start(r + 1) \in Nat /\ Start(r + 1) <= layer.size - 1
    BY <1>1, <2>1, Shares
  <2>3. last[r] \in layer.newlines /\ last[r] \in Nat
    BY <1>1, <2>1, <2>2, LastIs, NextNewlineIs
  <2>4. ~(last[r] < l[2])
    BY <1>2, <2>3
  <2>. QED BY <1>2, <2>3, <2>4
<1>. QED BY <1>3, <1>4

LEMMA LineHasARange ==
  ASSUME RangeInv, Finished = Ranks, NEW l \in FileLines
  PROVE  \E r \in Ranks : first[r] <= l[1] /\ l[2] <= last[r]
<1>. DEFINE S == {r \in Ranks : l[1] <= last[r]}
<1>1. layer \in Layers /\ MPI_Processes \in Nat \ {0} /\ Ranks \subseteq Nat
  BY PartitionConstants DEF RangeInv, Ranks
<1>2. MPI_Processes - 1 \in Ranks
  BY <1>1 DEF Ranks
<1>3. layer.size \in Nat
  BY <1>1, <1>2, Shares
<1>4. l[1] \in 0 .. layer.size - 1
  BY DEF FileLines, Lines
<1>5. MPI_Processes - 1 \in S
  <2>1. last[MPI_Processes - 1] = layer.size + 1
    BY <1>2, LastIs
  <2>. QED BY <1>2, <1>3, <1>4, <2>1
<1>6. PICK r \in S : \A q \in S : r <= q
  <2>1. S \subseteq Nat /\ S # {}
    BY <1>1, <1>5
  <2>. HIDE DEF S
  <2>. QED BY <2>1, LeastExists
<1>7. first[r] <= l[1]
  <2>1. CASE r = 0
    <3>1. first[r] = 0
      BY <2>1, LastIs
    <3>. QED BY <1>4, <3>1
  <2>2. CASE r # 0
    <3>1. r - 1 \in Ranks /\ (r - 1) + 1 = r /\ r - 1 \notin S
      BY <1>1, <1>6, <2>2 DEF Ranks
    <3>2. ~(l[1] <= last[r - 1])
      BY <3>1
    <3>3. last[r - 1] = NextNewline(Start(r)) /\ first[r] = last[r - 1] + 1
      BY <3>1, LastIs
    <3>4. last[r - 1] \in Nat
      <4>1. Start(r) \in Nat /\ Start(r) <= layer.size - 1
        BY <1>1, Shares
      <4>. QED BY <1>1, <1>3, <3>3, <4>1, NextNewlineIs
    <3>. QED BY <1>4, <3>2, <3>3, <3>4
  <2>. QED BY <2>1, <2>2
<1>8. l[2] <= last[r]
  BY <1>6, LineStaysInRange
<1>. QED BY <1>7, <1>8

(* Every line is in the range of exactly one rank.                         *)
THEOREM LinesInOneRange == Spec => []EveryLineInOneRange
<1>1. RangeInv => EveryLineInOneRange
  <2>. SUFFICES ASSUME RangeInv, Finished = Ranks, NEW l \in FileLines
                PROVE  Cardinality({r \in Ranks : first[r] <= l[1] /\ l[2] <= last[r]}) = 1
    BY DEF EveryLineInOneRange
  <2>. DEFINE S == {r \in Ranks : first[r] <= l[1] /\ l[2] <= last[r]}
  <2>1. PICK r \in Ranks : first[r] <= l[1] /\ l[2] <= last[r]
    BY LineHasARange
  <2>2. l[1] \in Int /\ l[2] \in Int /\ l[1] <= l[2]
    <3>1. layer.size \in Nat
      BY Shares, <2>1 DEF RangeInv
    <3>. QED BY <3>1 DEF FileLines, Lines
  <2>3. ASSUME NEW p \in S, NEW q \in S, p < q PROVE FALSE
    <3>1. last[p] \in Nat /\ last[p] < first[q]
      BY <2>3, EndsGrow
    <3>2. l[2] <= last[p] /\ first[q] <= l[1]
      BY <2>3
    <3>3. first[q] \in Int
      <4>1. q \in Ranks /\ q # 0 /\ q \in Nat /\ p \in Nat
        BY <2>3, PartitionConstants DEF Ranks
      <4>2. q - 1 \in Ranks /\ (q - 1) + 1 = q
        BY <4>1, PartitionConstants DEF Ranks
      <4>3. first[q] = last[q - 1] + 1 /\ last[q - 1] = NextNewline(Start(q))
        BY <4>2, LastIs
      <4>4. /\ layer \in Layers /\ layer.size \in Nat
            /\ Start(q) \in Nat /\ Start(q) <= layer.size - 1
        BY <4>1, Shares DEF RangeInv
      <4>. QED BY <4>3, <4>4, NextNewlineIs
    <3>. QED BY <2>2, <3>1, <3>2, <3>3
  <2>4. S = {r}
    <3>1. \A q \in S : q = r
      BY <2>1, <2>3 DEF Ranks
    <3>. QED BY <2>1, <3>1
  <2>. HIDE DEF S
  <2>5. Cardinality(S) = 1
    BY <2>4, FS_Singleton
  <2>. QED BY <2>5 DEF S
<1>. QED BY <1>1, InitRange, NextRange, PTL DEF Spec
-----------------------------------------------------------------------------
(* The lines a rank has are those partitionLayer cuts out for it, whatever *)
(* the byte behind the file was.                                           *)
DeliveredInv ==
  /\ RangeInv
  /\ \A r \in Finished : \E unread : splits[r] = Delivered(r, unread)

LEMMA InitDelivered == Init => DeliveredInv
BY InitRange DEF Init, DeliveredInv, Finished

LEMMA NextDelivered == DeliveredInv /\ [Next]_vars => DeliveredInv'
<1>. SUFFICES ASSUME DeliveredInv, [Next]_vars PROVE DeliveredInv'
  OBVIOUS
<1>1. RangeInv'
  BY NextRange DEF DeliveredInv
<1>2. ASSUME layer' = layer
      PROVE  \A q, unread : Delivered(q, unread)' = Delivered(q, unread)
  <2>1. \A q : /\ Start(q)' = Start(q)
               /\ LocStart(q)' = LocStart(q) /\ LocEnd(q)' = LocEnd(q)
    BY <1>2 DEF Start, Share, LocStart, LocEnd, ChunkSize, End, IsNewline
  <2>2. \A q : CopiedBytes(q)' = CopiedBytes(q)
    BY <1>2, <2>1 DEF CopiedBytes
  <2>. QED BY <1>2, <2>2 DEF Delivered, Lines
<1>3. ASSUME NEW r \in Ranks, PartitionLayer(r)
      PROVE  \A q \in Finished' : \E unread : splits'[q] = Delivered(q, unread)'
  <2>1. PICK unread : splits' = WithResult(splits, r, Delivered(r, unread))
    BY <1>3 DEF PartitionLayer
  <2>2. layer' = layer
    BY <1>3 DEF PartitionLayer
  <2>. QED BY <1>2, <2>1, <2>2 DEF DeliveredInv, WithResult, Finished
<1>4. CASE UNCHANGED vars
  BY <1>1, <1>2, <1>4 DEF DeliveredInv, vars, Finished
<1>. QED BY <1>1, <1>3, <1>4 DEF Next, Terminating, DeliveredInv

LEMMA RangeInFile ==
  ASSUME RangeInv, NEW r \in Finished
  PROVE  first[r] \in 0 .. layer.size /\ last[r] \in 0 .. layer.size + 1
<1>1. layer \in Layers /\ r \in Ranks
  BY DEF RangeInv
<1>2. /\ layer.size \in Nat \ {0} /\ r \in Nat
      /\ Start(r) \in Nat /\ Start(r) <= layer.size - 1
  BY <1>1, Shares
<1>3. first[r] \in 0 .. layer.size
  <2>1. CASE r = 0
    <3>1. Start(r) = 0 /\ LocStart(r) = 0
      BY <1>1, <2>1, Shares DEF Start, LocStart
    <3>. QED BY <1>2, <3>1 DEF RangeInv
  <2>2. CASE r # 0
    <3>1. first[r] = NextNewline(Start(r)) + 1
      BY <1>1, <2>2, LocStartIs DEF RangeInv
    <3>2. NextNewline(Start(r)) \in Nat /\ NextNewline(Start(r)) <= layer.size - 1
      BY <1>1, <1>2, NextNewlineIs
    <3>. QED BY <1>2, <3>1, <3>2
  <2>. QED BY <2>1, <2>2
<1>4. last[r] \in 0 .. layer.size + 1
  <2>1. CASE r = MPI_Processes - 1
    <3>1. LocEnd(r) = layer.size - Start(r) + 1
      BY <2>1 DEF LocEnd, ChunkSize, End
    <3>. QED BY <1>2, <3>1 DEF RangeInv
  <2>2. CASE r # MPI_Processes - 1
    <3>1. r + 1 \in Ranks
      BY <1>1, <1>2, <2>2, PartitionConstants DEF Ranks
    <3>2. last[r] = NextNewline(Start(r + 1))
      BY <1>1, <3>1, LocEndIs DEF RangeInv
    <3>3. Start(r + 1) \in Nat /\ Start(r + 1) <= layer.size - 1
      BY <1>1, <3>1, Shares
    <3>4. NextNewline(Start(r + 1)) \in Nat /\ NextNewline(Start(r + 1)) <= layer.size - 1
      BY <1>1, <1>2, <3>3, NextNewlineIs
    <3>. QED BY <1>2, <3>2, <3>4
  <2>. QED BY <2>1, <2>2
<1>. QED BY <1>3, <1>4

(* Every range and every line is in the file, but for the one byte behind  *)
(* it that the last rank copies.                                           *)
THEOREM TypeCorrect == Spec => []TypeOK
<1>1. DeliveredInv => TypeOK
  <2>. SUFFICES ASSUME DeliveredInv, NEW r \in Finished
                PROVE  splits[r] \subseteq (0 .. layer.size) \X (0 .. layer.size)
    BY RangeInFile DEF DeliveredInv, RangeInv, TypeOK
  <2>1. PICK unread : splits[r] = Delivered(r, unread)
    BY DEF DeliveredInv
  <2>2. CopiedBytes(r) \subseteq 0 .. layer.size
    BY DEF CopiedBytes
  <2>3. ASSUME NEW bytes, bytes \subseteq 0 .. layer.size, NEW newlines
        PROVE  Lines(bytes, newlines) \subseteq (0 .. layer.size) \X (0 .. layer.size)
    BY <2>3 DEF Lines
  <2>4. CopiedBytes(r) \ {layer.size} \subseteq 0 .. layer.size
    BY <2>2
  <2>. QED BY <2>1, <2>2, <2>3, <2>4 DEF Delivered
<1>. QED BY <1>1, InitDelivered, NextDelivered, PTL DEF Spec

(* If the copied bytes are those up to a newline, the pieces between their *)
(* newlines are the lines of the file that begin before it.                *)
LEMMA LinesUpToNewline ==
  ASSUME layer \in Layers, NEW e \in layer.newlines
  PROVE  Lines(0 .. e, layer.newlines) = {l \in FileLines : l[1] <= e}
<1>. DEFINE text == (0 .. e) \ layer.newlines
            all  == (0 .. layer.size - 1) \ layer.newlines
            IsRun(t, l) == /\ l[1] - 1 \notin t /\ l[2] + 1 \notin t
                           /\ l[1] <= l[2] /\ l[1] .. l[2] \subseteq t
<1>1. /\ layer.size \in Nat /\ e \in 0 .. layer.size - 1
      /\ layer.newlines \subseteq 0 .. layer.size - 1
  BY PartitionConstants DEF IsLayer
<1>2. Lines(0 .. e, layer.newlines) = {l \in text \X text : IsRun(text, l)}
  BY DEF Lines
<1>3. FileLines = {l \in all \X all : IsRun(all, l)}
  BY DEF FileLines, Lines
<1>4. /\ \A i : i \in text <=> (i \in Nat /\ i < e /\ i \notin layer.newlines)
      /\ \A i : i \in all <=> (i \in Nat /\ i < layer.size /\ i \notin layer.newlines)
  BY <1>1
<1>. HIDE DEF text, all
<1>5. ASSUME NEW l \in text \X text, IsRun(text, l)
      PROVE  l \in all \X all /\ IsRun(all, l) /\ l[1] <= e
  <2>1. l[1] \in Nat /\ l[1] < e /\ l[2] \in Nat /\ l[2] < e /\ l[1] \in all /\ l[2] \in all
    BY <1>1, <1>4, <1>5
  <2>2. l[1] - 1 \notin all
    BY <1>1, <1>4, <1>5, <2>1
  <2>3. l[2] + 1 \notin all
    BY <1>1, <1>4, <1>5, <2>1
  <2>4. l[1] .. l[2] \subseteq all
    BY <1>1, <1>4, <1>5
  <2>. QED BY <1>1, <1>5, <2>1, <2>2, <2>3, <2>4
<1>6. ASSUME NEW l \in all \X all, IsRun(all, l), l[1] <= e
      PROVE  l \in text \X text /\ IsRun(text, l)
  <2>1. /\ l[1] \in Nat /\ l[2] \in Nat /\ l[1] <= l[2]
        /\ l[1] \notin layer.newlines /\ l[2] \notin layer.newlines
    BY <1>4, <1>6
  <2>2. l[2] < e
    <3>. SUFFICES ASSUME e <= l[2] PROVE FALSE
      BY <1>1, <2>1
    <3>1. e \in l[1] .. l[2]
      BY <1>1, <1>6, <2>1
    <3>. QED BY <1>4, <1>6, <3>1
  <2>3. l[1] \in text /\ l[2] \in text
    BY <1>1, <1>4, <2>1, <2>2
  <2>4. l[1] - 1 \notin text /\ l[2] + 1 \notin text
    BY <1>1, <1>4, <1>6
  <2>5. l[1] .. l[2] \subseteq text
    BY <1>1, <1>4, <1>6, <2>1, <2>2
  <2>. QED BY <1>6, <2>3, <2>4, <2>5
<1>. HIDE DEF IsRun
<1>. QED BY <1>2, <1>3, <1>5, <1>6

(* Rank 0 delivers whole lines, and exactly those that begin in its range. *)
THEOREM FirstRankHolds == Spec => []FirstRankDeliversItsLines
<1>1. DeliveredInv => FirstRankDeliversItsLines
  <2>. SUFFICES ASSUME DeliveredInv, 0 \in Finished, MPI_Processes > 1
                PROVE  splits[0] = {l \in FileLines : l[1] <= last[0]}
    BY DEF FirstRankDeliversItsLines
  <2>1. layer \in Layers /\ 0 \in Ranks /\ 0 + 1 \in Ranks /\ 1 \in Ranks
    BY PartitionConstants DEF DeliveredInv, RangeInv, Ranks
  <2>2. layer.size \in Nat /\ Start(0 + 1) \in Nat /\ Start(0 + 1) <= layer.size - 1
    BY <2>1, Shares
  <2>3. Start(0) = 0 /\ LocStart(0) = 0
    BY <2>1, Shares DEF Start, LocStart
  <2>4. /\ Start(0) + LocEnd(0) = NextNewline(Start(0 + 1))
        /\ last[0] = NextNewline(Start(0 + 1))
    BY <2>1, LocEndIs DEF DeliveredInv, RangeInv
  <2>5. /\ last[0] \in layer.newlines /\ last[0] \in Nat /\ last[0] <= layer.size - 1
    BY <2>1, <2>2, <2>4, NextNewlineIs
  <2>6. LocEnd(0) = last[0]
    <3>1. LocEnd(0) \in Int
      BY <2>1, LocEndIs
    <3>. QED BY <2>3, <2>4, <2>5, <3>1
  <2>7. CopiedBytes(0) = 0 .. last[0]
    BY <2>2, <2>3, <2>5, <2>6 DEF CopiedBytes
  <2>8. CopiedBytes(0) \ {layer.size} = CopiedBytes(0)
    BY <2>2, <2>5, <2>7
  <2>9. splits[0] = Lines(0 .. last[0], layer.newlines)
    BY <2>7, <2>8 DEF DeliveredInv, Delivered
  <2>. QED BY <2>1, <2>5, <2>9, LinesUpToNewline
<1>. QED BY <1>1, InitDelivered, NextDelivered, PTL DEF Spec

=============================================================================
