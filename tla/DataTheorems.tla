---------------------------- MODULE DataTheorems ----------------------------
(***************************************************************************)
(* Facts about the data of the models that several proofs need, none of    *)
(* them about the program.  First sums: SumFunctionOnSet of the module     *)
(* Functions adds up the values of a function in the order in which CHOOSE *)
(* picks the elements of a set.  Then sequences: FlattenSeq of the module  *)
(* SequencesExt, weights of the first elements of a sequence, and sorted   *)
(* sequences, which their elements determine.                              *)
(***************************************************************************)
EXTENDS Integers, Sequences, SequencesExt, FiniteSetTheorems, TLAPS

SumOver(f, S) == SumFunctionOnSet(f, S)
Pick(S)   == CHOOSE x \in S : TRUE

(* g holds the sums over all subsets of S.                                 *)
HasSums(g, f, S) ==
  g = [T \in SUBSET S |-> IF T = {} THEN 0 ELSE f[Pick(T)] + g[T \ {Pick(T)}]]

-----------------------------------------------------------------------------
(* Induction over the subsets of a finite set, for the set of the subsets  *)
(* that have a property.                                                   *)
LEMMA SubsetInduction ==
  ASSUME NEW S, IsFiniteSet(S), NEW Good,
         \A T \in SUBSET S : (\A U \in SUBSET T : U # T => U \in Good) => T \in Good
  PROVE  S \in Good
<1>1. IsWellFoundedOn(StrictSubsetOrdering(S), SUBSET S)
  <2>1. FiniteSubsetsOf(S) = SUBSET S
    BY FS_FiniteSubsetsOfFinite
  <2>. QED BY <2>1, FS_StrictSubsetOrderingWellFounded
<1>. DEFINE Bad == (SUBSET S) \ Good
<1>. SUFFICES ASSUME S \notin Good PROVE FALSE
  OBVIOUS
<1>2. Bad \subseteq SUBSET S /\ Bad # {}
  OBVIOUS
<1>. HIDE DEF Bad
<1>3. PICK T \in Bad : \A U \in Bad : ~(<<U, T>> \in StrictSubsetOrdering(S))
  BY <1>1, <1>2, WFMin
<1>4. T \in SUBSET S /\ T \notin Good
  BY <1>3 DEF Bad
<1>5. ASSUME NEW U \in SUBSET T, U # T PROVE U \in Good
  <2>1. U \notin Bad
    BY <1>2, <1>3, <1>4, <1>5 DEF StrictSubsetOrdering
  <2>. QED BY <1>4, <2>1 DEF Bad
<1>. QED BY <1>4, <1>5

LEMMA PickIn == ASSUME NEW S, S # {} PROVE Pick(S) \in S
BY DEF Pick

LEMMA SumIs ==
  ASSUME NEW f, NEW S
  PROVE  SumOver(f, S) = (CHOOSE g : HasSums(g, f, S))[S]
BY DEF SumOver, SumFunctionOnSet, FoldFunctionOnSet, MapThenFoldSet, HasSums, Pick

LEMMA OneFunctionOfSums ==
  ASSUME NEW f, NEW S, IsFiniteSet(S), NEW g, HasSums(g, f, S), NEW h, HasSums(h, f, S)
  PROVE  g[S] = h[S]
<1>. DEFINE Good == {T \in SUBSET S : g[T] = h[T]}
<1>1. ASSUME NEW T \in SUBSET S, \A U \in SUBSET T : U # T => U \in Good
      PROVE  T \in Good
  <2>1. CASE T = {}
    BY <2>1 DEF HasSums
  <2>2. CASE T # {}
    <3>. DEFINE U == T \ {Pick(T)}
    <3>1. U \in SUBSET T /\ U # T
      BY <2>2, PickIn
    <3>2. g[U] = h[U]
      BY <1>1, <3>1
    <3>3. g[T] = f[Pick(T)] + g[U] /\ h[T] = f[Pick(T)] + h[U]
      BY <2>2 DEF HasSums
    <3>. QED BY <3>2, <3>3
  <2>. QED BY <2>1, <2>2
<1>2. S \in Good
  <2>. HIDE DEF Good
  <2>. QED BY <1>1, SubsetInduction
<1>. QED BY <1>2

(* The recursive equation of the sum.                                      *)
Unfolds(f, S) == SumOver(f, S) = IF S = {} THEN 0 ELSE f[Pick(S)] + SumOver(f, S \ {Pick(S)})

LEMMA SumUnfolds ==
  ASSUME NEW f, NEW S, IsFiniteSet(S)
  PROVE  Unfolds(f, S)
<1>. DEFINE Good == {T \in SUBSET S : Unfolds(f, T)}
<1>1. ASSUME NEW T \in SUBSET S, \A U \in SUBSET T : U # T => U \in Good
      PROVE  T \in Good
  <2>. DEFINE g == [U \in SUBSET T |->
                     IF U = {} THEN 0 ELSE f[Pick(U)] + SumOver(f, U \ {Pick(U)})]
  <2>1. \A U \in SUBSET T : U # T => Unfolds(f, U)
    BY <1>1
  <2>2. ASSUME NEW U \in SUBSET T, U # {}
        PROVE  g[U \ {Pick(U)}] = SumOver(f, U \ {Pick(U)})
    <3>. DEFINE V == U \ {Pick(U)}
    <3>1. V \in SUBSET T /\ V # T
      BY <2>2, PickIn
    <3>2. Unfolds(f, V)
      BY <2>1, <3>1
    <3>. QED BY <3>1, <3>2 DEF Unfolds
  <2>3. \A U \in SUBSET T :
          g[U] = IF U = {} THEN 0 ELSE f[Pick(U)] + g[U \ {Pick(U)}]
    BY <2>2
  <2>4. g = [U \in SUBSET T |-> g[U]]
    OBVIOUS
  <2>. HIDE DEF g
  <2>5. HasSums(g, f, T)
    BY <2>3, <2>4 DEF HasSums
  <2>6. HasSums(CHOOSE h : HasSums(h, f, T), f, T)
    BY <2>5
  <2>7. IsFiniteSet(T)
    BY FS_Subset
  <2>8. SumOver(f, T) = g[T]
    BY <2>5, <2>6, <2>7, OneFunctionOfSums, SumIs
  <2>. QED BY <2>8 DEF g, Unfolds
<1>2. S \in Good
  <2>. HIDE DEF Good
  <2>. QED BY <1>1, SubsetInduction
<1>. QED BY <1>2

-----------------------------------------------------------------------------
(* The facts the proofs about totals use.                                  *)

LEMMA SumEmpty == ASSUME NEW f PROVE SumOver(f, {}) = 0
BY SumUnfolds, FS_EmptySet DEF Unfolds

LEMMA SumNat ==
  ASSUME NEW f, NEW S, IsFiniteSet(S), \A x \in S : f[x] \in Nat
  PROVE  SumOver(f, S) \in Nat
<1>. DEFINE Good == {T \in SUBSET S : SumOver(f, T) \in Nat}
<1>1. ASSUME NEW T \in SUBSET S, \A U \in SUBSET T : U # T => U \in Good
      PROVE  T \in Good
  <2>1. Unfolds(f, T)
    BY FS_Subset, SumUnfolds
  <2>2. CASE T = {}
    BY <2>1, <2>2 DEF Unfolds
  <2>3. CASE T # {}
    <3>. DEFINE U == T \ {Pick(T)}
    <3>1. Pick(T) \in T /\ U \in SUBSET T /\ U # T
      BY <2>3, PickIn
    <3>2. SumOver(f, U) \in Nat /\ f[Pick(T)] \in Nat
      BY <1>1, <3>1
    <3>. QED BY <2>1, <2>3, <3>2 DEF Unfolds
  <2>. QED BY <2>2, <2>3
<1>2. S \in Good
  <2>. HIDE DEF Good
  <2>. QED BY <1>1, SubsetInduction
<1>. QED BY <1>2

(* Any element may be added last.                                          *)
LEMMA SumRemove ==
  ASSUME NEW f, NEW S, IsFiniteSet(S), \A x \in S : f[x] \in Nat, NEW x \in S
  PROVE  SumOver(f, S) = SumOver(f, S \ {x}) + f[x]
<1>. DEFINE Good == {T \in SUBSET S : \A y \in T : SumOver(f, T) = SumOver(f, T \ {y}) + f[y]}
<1>1. ASSUME NEW T \in SUBSET S, \A U \in SUBSET T : U # T => U \in Good
      PROVE  T \in Good
  <2>. SUFFICES ASSUME NEW y \in T PROVE SumOver(f, T) = SumOver(f, T \ {y}) + f[y]
    OBVIOUS
  <2>. DEFINE p == Pick(T)
  <2>1. p \in T
    BY PickIn
  <2>2. IsFiniteSet(T) /\ IsFiniteSet(T \ {y}) /\ IsFiniteSet((T \ {p}) \ {y})
    BY FS_Subset, FS_RemoveElement
  <2>3. SumOver(f, T) = f[p] + SumOver(f, T \ {p})
    BY <2>2, SumUnfolds DEF Unfolds
  <2>4. /\ f[p] \in Nat /\ f[y] \in Nat /\ SumOver(f, T \ {y}) \in Nat
        /\ SumOver(f, (T \ {p}) \ {y}) \in Nat
    BY <2>1, <2>2, SumNat
  <2>5. CASE y = p
    BY <2>3, <2>4, <2>5
  <2>6. CASE y # p
    <3>1. T \ {p} \in Good /\ T \ {y} \in Good
      BY <1>1, <2>1
    <3>2. SumOver(f, T \ {p}) = SumOver(f, (T \ {p}) \ {y}) + f[y]
      BY <2>6, <3>1
    <3>3. SumOver(f, T \ {y}) = SumOver(f, (T \ {y}) \ {p}) + f[p]
      BY <2>1, <2>6, <3>1
    <3>4. (T \ {y}) \ {p} = (T \ {p}) \ {y}
      OBVIOUS
    <3>5. SumOver(f, T) = f[p] + (SumOver(f, (T \ {p}) \ {y}) + f[y])
      BY <2>3, <3>2
    <3>6. SumOver(f, T \ {y}) = SumOver(f, (T \ {p}) \ {y}) + f[p]
      BY <3>3, <3>4
    <3>. HIDE DEF p
    <3>. QED BY <2>4, <3>5, <3>6
  <2>. QED BY <2>5, <2>6
<1>2. S \in Good
  <2>. HIDE DEF Good
  <2>. QED BY <1>1, SubsetInduction
<1>. QED BY <1>2

LEMMA SumAdd ==
  ASSUME NEW f, NEW S, IsFiniteSet(S), NEW x, x \notin S,
         \A y \in S \cup {x} : f[y] \in Nat
  PROVE  SumOver(f, S \cup {x}) = SumOver(f, S) + f[x]
<1>. DEFINE T == S \cup {x}
<1>1. IsFiniteSet(T) /\ x \in T /\ T \ {x} = S /\ \A y \in T : f[y] \in Nat
  BY FS_AddElement
<1>2. SumOver(f, T) = SumOver(f, T \ {x}) + f[x]
  <2>. HIDE DEF T
  <2>. QED BY <1>1, SumRemove
<1>. QED BY <1>1, <1>2

LEMMA SumSame ==
  ASSUME NEW f, NEW g, NEW S, IsFiniteSet(S), \A x \in S : f[x] = g[x]
  PROVE  SumOver(f, S) = SumOver(g, S)
<1>. DEFINE Good == {T \in SUBSET S : SumOver(f, T) = SumOver(g, T)}
<1>1. ASSUME NEW T \in SUBSET S, \A U \in SUBSET T : U # T => U \in Good
      PROVE  T \in Good
  <2>1. Unfolds(f, T) /\ Unfolds(g, T)
    BY FS_Subset, SumUnfolds
  <2>2. CASE T = {}
    BY <2>1, <2>2 DEF Unfolds
  <2>3. CASE T # {}
    <3>. DEFINE U == T \ {Pick(T)}
    <3>1. Pick(T) \in T /\ U \in SUBSET T /\ U # T
      BY <2>3, PickIn
    <3>2. SumOver(f, U) = SumOver(g, U) /\ f[Pick(T)] = g[Pick(T)]
      BY <1>1, <3>1
    <3>. QED BY <2>1, <2>3, <3>2 DEF Unfolds
  <2>. QED BY <2>2, <2>3
<1>2. S \in Good
  <2>. HIDE DEF Good
  <2>. QED BY <1>1, SubsetInduction
<1>. QED BY <1>2

(* One value of the function becomes larger by n.                          *)
LEMMA SumIncrease ==
  ASSUME NEW S, IsFiniteSet(S), NEW f \in [S -> Nat], NEW x \in S, NEW n \in Nat
  PROVE  SumOver([f EXCEPT ![x] = @ + n], S) = SumOver(f, S) + n
<1>. DEFINE g == [f EXCEPT ![x] = @ + n]
<1>1. /\ \A y \in S : g[y] \in Nat
      /\ \A y \in S \ {x} : g[y] = f[y]
      /\ g[x] = f[x] + n
  OBVIOUS
<1>. HIDE DEF g
<1>2. IsFiniteSet(S \ {x})
  BY FS_RemoveElement
<1>3. SumOver(g, S) = SumOver(g, S \ {x}) + g[x] /\ SumOver(f, S) = SumOver(f, S \ {x}) + f[x]
  BY <1>1, SumRemove
<1>4. SumOver(g, S \ {x}) = SumOver(f, S \ {x}) /\ SumOver(f, S \ {x}) \in Nat
  BY <1>1, <1>2, SumSame, SumNat
<1>5. SumOver(g, S) = SumOver(f, S) + n
  BY <1>1, <1>3, <1>4
<1>. QED BY <1>5 DEF g

LEMMA SumZero ==
  ASSUME NEW f, NEW S, IsFiniteSet(S), \A x \in S : f[x] = 0
  PROVE  SumOver(f, S) = 0
<1>. DEFINE Good == {T \in SUBSET S : SumOver(f, T) = 0}
<1>1. ASSUME NEW T \in SUBSET S, \A U \in SUBSET T : U # T => U \in Good
      PROVE  T \in Good
  <2>1. Unfolds(f, T)
    BY FS_Subset, SumUnfolds
  <2>2. CASE T = {}
    BY <2>1, <2>2 DEF Unfolds
  <2>3. CASE T # {}
    <3>1. Pick(T) \in T
      BY <2>3, PickIn
    <3>2. SumOver(f, T \ {Pick(T)}) = 0
      BY <1>1, <3>1
    <3>. QED BY <2>1, <2>3, <3>1, <3>2 DEF Unfolds
  <2>. QED BY <2>2, <2>3
<1>2. S \in Good
  <2>. HIDE DEF Good
  <2>. QED BY <1>1, SubsetInduction
<1>. QED BY <1>2

(* The sizes of sets without common elements add up to the size of their   *)
(* union.                                                                  *)
Disjoint(F, S) == \A x, y \in S : x # y => F[x] \cap F[y] = {}
AllOf(F, T)    == UNION {F[x] : x \in T}

LEMMA SumOfSizes ==
  ASSUME NEW S, IsFiniteSet(S), NEW F, \A x \in S : IsFiniteSet(F[x]), Disjoint(F, S),
         NEW size, \A x \in S : size[x] = Cardinality(F[x])
  PROVE  IsFiniteSet(AllOf(F, S)) /\ Cardinality(AllOf(F, S)) = SumOver(size, S)
<1>. DEFINE Good == {T \in SUBSET S : IsFiniteSet(AllOf(F, T)) /\
                                      Cardinality(AllOf(F, T)) = SumOver(size, T)}
<1>1. ASSUME NEW T \in SUBSET S, \A U \in SUBSET T : U # T => U \in Good
      PROVE  T \in Good
  <2>1. CASE T = {}
    <3>1. AllOf(F, T) = {}
      BY <2>1 DEF AllOf
    <3>2. SumOver(size, T) = 0
      BY <2>1, SumEmpty
    <3>. QED BY <3>1, <3>2, FS_EmptySet
  <2>2. CASE T # {}
    <3>. DEFINE p == Pick(T)
                U == T \ {p}
    <3>1. p \in T /\ p \in S /\ U \in SUBSET T /\ U # T
      BY <2>2, PickIn
    <3>2. IsFiniteSet(AllOf(F, U)) /\ Cardinality(AllOf(F, U)) = SumOver(size, U)
      BY <1>1, <3>1
    <3>3. AllOf(F, T) = AllOf(F, U) \cup F[p]
      BY <3>1 DEF AllOf
    <3>4. AllOf(F, U) \cap F[p] = {}
      BY <3>1 DEF AllOf, Disjoint
    <3>5. IsFiniteSet(F[p]) /\ size[p] = Cardinality(F[p])
      BY <3>1
    <3>6. SumOver(size, T) = size[p] + SumOver(size, U)
      BY <2>2, FS_Subset, SumUnfolds DEF Unfolds
    <3>. HIDE DEF p, U
    <3>7. /\ IsFiniteSet(AllOf(F, T))
          /\ Cardinality(AllOf(F, T))
               = Cardinality(AllOf(F, U)) + Cardinality(F[p]) - Cardinality(AllOf(F, U) \cap F[p])
      BY <3>2, <3>3, <3>5, FS_Union
    <3>8. /\ Cardinality({}) = 0
          /\ Cardinality(AllOf(F, U)) \in Nat /\ Cardinality(F[p]) \in Nat
      BY <3>2, <3>5, FS_CardinalityType, FS_EmptySet
    <3>9. Cardinality(AllOf(F, U) \cap F[p]) = 0
      BY <3>4, <3>8
    <3>10. Cardinality(AllOf(F, T)) = Cardinality(AllOf(F, U)) + Cardinality(F[p])
      BY <3>7, <3>8, <3>9
    <3>11. Cardinality(AllOf(F, U)) + Cardinality(F[p]) = SumOver(size, T)
      BY <3>2, <3>5, <3>6, <3>8
    <3>12. Cardinality(AllOf(F, T)) = SumOver(size, T)
      BY <3>10, <3>11
    <3>. QED BY <3>7, <3>12
  <2>. QED BY <2>1, <2>2
<1>2. S \in Good
  <2>. HIDE DEF Good
  <2>. QED BY <1>1, SubsetInduction
<1>. QED BY <1>2

-----------------------------------------------------------------------------
(* Induction over an interval, for the set of the numbers that have a      *)
(* property.                                                               *)
LEMMA Upwards ==
  ASSUME NEW a \in Int, NEW b \in Int, a <= b, NEW Good, a \in Good,
         \A i \in a .. b - 1 : i \in Good => i + 1 \in Good
  PROVE  \A i \in a .. b : i \in Good
<1>. DEFINE Has == {T \in SUBSET (a .. b) :
                      \A i \in a .. b : T = a .. i => i \in Good}
<1>. SUFFICES ASSUME NEW n \in a .. b PROVE n \in Good
  OBVIOUS
<1>. DEFINE S == a .. n
<1>1. IsFiniteSet(S)
  BY FS_Interval
<1>2. ASSUME NEW T \in SUBSET S, \A U \in SUBSET T : U # T => U \in Has
      PROVE  T \in Has
  <2>. SUFFICES ASSUME NEW i \in a .. b, T = a .. i PROVE i \in Good
    BY DEF Has
  <2>1. CASE i = a
    BY <2>1
  <2>2. CASE i # a
    <3>1. a .. i - 1 \in SUBSET T /\ i - 1 \in a .. b - 1 /\ i \notin a .. i - 1 /\ i \in T
      BY <2>2
    <3>2. a .. i - 1 \in Has
      BY <1>2, <3>1
    <3>3. i - 1 \in Good
      BY <3>1, <3>2 DEF Has
    <3>. QED BY <3>1, <3>3
  <2>. QED BY <2>1, <2>2
<1>. HIDE DEF Has
<1>3. S \in Has
  <2>. HIDE DEF S
  <2>. QED BY <1>1, <1>2, SubsetInduction
<1>. QED BY <1>3 DEF Has

(* g joins the first sequences of s.                                       *)
Joins(g, s) ==
  g = [i \in 1 .. Len(s) |-> IF i = 1 THEN s[i] ELSE g[i - 1] \o s[i]]

LEMMA JoinsExist ==
  ASSUME NEW s, Len(s) \in Nat
  PROVE  \E g : Joins(g, s)
<1>. DEFINE Step(g, m) == g = [i \in 1 .. m |-> IF i = 1 THEN s[i] ELSE g[i - 1] \o s[i]]
            Good == {m \in 0 .. Len(s) : \E g : Step(g, m)}
<1>1. 0 \in Good
  <2>. DEFINE g == [i \in 1 .. 0 |-> i]
  <2>1. Step(g, 0)
    <3>1. 1 .. 0 = {}
      OBVIOUS
    <3>. QED BY <3>1
  <2>2. 0 \in 0 .. Len(s)
    OBVIOUS
  <2>. HIDE DEF Step, g
  <2>. QED BY <2>1, <2>2
<1>2. ASSUME NEW m \in 0 .. Len(s) - 1, m \in Good PROVE m + 1 \in Good
  <2>1. PICK g : Step(g, m)
    BY <1>2
  <2>. DEFINE v == IF m = 0 THEN s[1] ELSE g[m] \o s[m + 1]
              h == [i \in 1 .. m + 1 |-> IF i = m + 1 THEN v ELSE g[i]]
  <2>2. ASSUME NEW i \in 1 .. m + 1
        PROVE  h[i] = IF i = 1 THEN s[i] ELSE h[i - 1] \o s[i]
    <3>1. CASE i = m + 1
      <4>1. h[i] = v
        BY <3>1
      <4>2. CASE m = 0
        BY <3>1, <4>1, <4>2
      <4>3. CASE m # 0
        <5>1. i # 1 /\ i - 1 = m /\ m \in 1 .. m + 1 /\ m # m + 1
          BY <3>1, <4>3
        <5>2. h[i - 1] = g[m]
          BY <5>1
        <5>. QED BY <3>1, <4>1, <4>3, <5>1, <5>2
      <4>. QED BY <4>2, <4>3
    <3>2. CASE i # m + 1
      <4>1. i \in 1 .. m /\ h[i] = g[i]
        BY <3>2
      <4>2. g[i] = IF i = 1 THEN s[i] ELSE g[i - 1] \o s[i]
        BY <2>1, <4>1
      <4>3. i # 1 => i - 1 \in 1 .. m + 1 /\ i - 1 # m + 1 /\ h[i - 1] = g[i - 1]
        BY <4>1
      <4>. QED BY <4>1, <4>2, <4>3
    <3>. QED BY <3>1, <3>2
  <2>3. Step(h, m + 1)
    <3>. HIDE DEF v
    <3>1. h = [i \in 1 .. m + 1 |-> h[i]]
      OBVIOUS
    <3>. HIDE DEF h
    <3>. QED BY <2>2, <3>1
  <2>4. m + 1 \in 0 .. Len(s)
    OBVIOUS
  <2>. HIDE DEF h, v, Step
  <2>. QED BY <2>3, <2>4
<1>. HIDE DEF Good
<1>3. \A m \in 0 .. Len(s) : m \in Good
  <2>1. 0 \in Int /\ Len(s) \in Int /\ 0 <= Len(s)
    OBVIOUS
  <2>. QED BY <1>1, <1>2, <2>1, Upwards
<1>4. Len(s) \in Good
  BY <1>3
<1>. QED BY <1>4 DEF Good, Joins

LEMMA FlattenIs ==
  ASSUME NEW s, Len(s) \in Nat \ {0}
  PROVE  FlattenSeq(s) = (CHOOSE g : Joins(g, s))[Len(s)]
BY DEF FlattenSeq, Joins

(* The lengths of the first i sequences of s together.                     *)
Ahead(s, i) == SumOver([k \in 1 .. Len(s) |-> Len(s[k])], 1 .. i)

LEMMA SumInterval ==
  ASSUME NEW f, NEW n \in Nat, \A k \in 1 .. n : f[k] \in Nat
  PROVE  /\ SumOver(f, 1 .. 0) = 0
         /\ \A i \in 0 .. n : SumOver(f, 1 .. i) \in Nat
         /\ \A i \in 1 .. n : SumOver(f, 1 .. i) = SumOver(f, 1 .. i - 1) + f[i]
         /\ \A i, j \in 0 .. n : i <= j => SumOver(f, 1 .. i) <= SumOver(f, 1 .. j)
<1>1. 1 .. 0 = {}
  OBVIOUS
<1>2. ASSUME NEW i \in 0 .. n PROVE SumOver(f, 1 .. i) \in Nat
  <2>1. IsFiniteSet(1 .. i)
    BY FS_Interval
  <2>. QED BY <2>1, SumNat
<1>3. ASSUME NEW i \in 1 .. n
      PROVE  SumOver(f, 1 .. i) = SumOver(f, 1 .. i - 1) + f[i]
  <2>1. 1 .. i = (1 .. i - 1) \cup {i} /\ i \notin 1 .. i - 1 /\ i - 1 \in Int
    OBVIOUS
  <2>3. IsFiniteSet(1 .. i - 1)
    BY <2>1, FS_Interval
  <2>2. \A y \in (1 .. i - 1) \cup {i} : f[y] \in Nat
    OBVIOUS
  <2>. QED BY <2>1, <2>2, <2>3, SumAdd
<1>4. ASSUME NEW i \in 0 .. n, NEW j \in 0 .. n, i <= j
      PROVE  SumOver(f, 1 .. i) <= SumOver(f, 1 .. j)
  <2>. DEFINE Good == {k \in i .. n : SumOver(f, 1 .. i) <= SumOver(f, 1 .. k)}
  <2>1. i \in Good
    BY <1>2
  <2>2. ASSUME NEW k \in i .. j - 1, k \in Good PROVE k + 1 \in Good
    <3>1. k + 1 \in 1 .. n /\ (k + 1) - 1 = k /\ k \in 0 .. n /\ k + 1 \in i .. n
      OBVIOUS
    <3>2. SumOver(f, 1 .. k + 1) = SumOver(f, 1 .. k) + f[k + 1] /\ f[k + 1] \in Nat
      BY <1>3, <3>1
    <3>. QED BY <1>2, <2>2, <3>1, <3>2
  <2>. HIDE DEF Good
  <2>3. \A k \in i .. j : k \in Good
    BY <1>4, <2>1, <2>2, Upwards
  <2>4. j \in Good
    BY <1>4, <2>3
  <2>. QED BY <2>4 DEF Good
<1>. QED BY <1>1, <1>2, <1>3, <1>4, SumEmpty

(* What FlattenSeq returns: the j-th element of the i-th sequence comes    *)
(* after all of the sequences before.                                      *)
Concatenated(t, s) ==
  /\ Len(t) = Ahead(s, Len(s)) /\ Len(t) \in Nat
  /\ \A i \in 1 .. Len(s) : \A j \in 1 .. Len(s[i]) :
       Ahead(s, i - 1) + j \in 1 .. Len(t) /\ t[Ahead(s, i - 1) + j] = s[i][j]
  /\ \A k \in 1 .. Len(t) : \E i \in 1 .. Len(s) : \E j \in 1 .. Len(s[i]) :
       k = Ahead(s, i - 1) + j

LEMMA AheadIs ==
  ASSUME NEW M, NEW s, Len(s) \in Nat, \A i \in 1 .. Len(s) : s[i] \in Seq(M)
  PROVE  /\ Ahead(s, 0) = 0
         /\ \A i \in 0 .. Len(s) : Ahead(s, i) \in Nat
         /\ \A i \in 1 .. Len(s) : Ahead(s, i) = Ahead(s, i - 1) + Len(s[i])
         /\ \A i, j \in 0 .. Len(s) : i <= j => Ahead(s, i) <= Ahead(s, j)
<1>. DEFINE f == [k \in 1 .. Len(s) |-> Len(s[k])]
<1>1. \A k \in 1 .. Len(s) : f[k] = Len(s[k]) /\ f[k] \in Nat
  OBVIOUS
<1>2. \A i : Ahead(s, i) = SumOver(f, 1 .. i)
  BY DEF Ahead
<1>. HIDE DEF f
<1>3. /\ SumOver(f, 1 .. 0) = 0
      /\ \A i \in 0 .. Len(s) : SumOver(f, 1 .. i) \in Nat
      /\ \A i \in 1 .. Len(s) : SumOver(f, 1 .. i) = SumOver(f, 1 .. i - 1) + f[i]
      /\ \A i, j \in 0 .. Len(s) : i <= j => SumOver(f, 1 .. i) <= SumOver(f, 1 .. j)
  <2>1. \A k \in 1 .. Len(s) : f[k] \in Nat
    BY <1>1
  <2>. QED BY <2>1, SumInterval
<1>. QED BY <1>1, <1>2, <1>3

LEMMA ConcatIs ==
  ASSUME NEW M, NEW a \in Seq(M), NEW b \in Seq(M)
  PROVE  /\ a \o b \in Seq(M)
         /\ Len(a \o b) = Len(a) + Len(b) /\ Len(a) \in Nat /\ Len(b) \in Nat
         /\ \A k \in 1 .. Len(a) : (a \o b)[k] = a[k]
         /\ \A k \in 1 .. Len(b) : (a \o b)[Len(a) + k] = b[k]
OBVIOUS

LEMMA FlattenConcatenates ==
  ASSUME NEW M, NEW s, Len(s) \in Nat, Len(s) = 0 => s = <<>>,
         \A i \in 1 .. Len(s) : s[i] \in Seq(M)
  PROVE  FlattenSeq(s) \in Seq(M) /\ Concatenated(FlattenSeq(s), s)
<1>. DEFINE A(i) == Ahead(s, i)
<1>1. /\ A(0) = 0
      /\ \A i \in 0 .. Len(s) : A(i) \in Nat
      /\ \A i \in 1 .. Len(s) : A(i) = A(i - 1) + Len(s[i])
      /\ \A i, j \in 0 .. Len(s) : i <= j => A(i) <= A(j)
  BY AheadIs
<1>2. CASE Len(s) = 0
  <2>1. FlattenSeq(s) = <<>>
    BY <1>2 DEF FlattenSeq
  <2>. QED BY <1>1, <1>2, <2>1 DEF Concatenated
<1>3. CASE Len(s) # 0
  <2>. DEFINE g == CHOOSE g : Joins(g, s)
  <2>1. Joins(g, s)
    BY JoinsExist
  <2>2. FlattenSeq(s) = g[Len(s)]
    BY <1>3, FlattenIs
  <2>. HIDE DEF g
  <2>3. \A i \in 1 .. Len(s) : g[i] = IF i = 1 THEN s[i] ELSE g[i - 1] \o s[i]
    BY <2>1 DEF Joins
  <2>. DEFINE Placed(n) == \A i \in 1 .. n : \A j \in 1 .. Len(s[i]) :
                             A(i - 1) + j \in 1 .. A(n) /\ g[n][A(i - 1) + j] = s[i][j]
              Found(n) == \A k \in 1 .. A(n) : \E i \in 1 .. n : \E j \in 1 .. Len(s[i]) :
                             k = A(i - 1) + j
              Good == {n \in 1 .. Len(s) :
                         g[n] \in Seq(M) /\ Len(g[n]) = A(n) /\ Placed(n) /\ Found(n)}
  <2>. HIDE DEF A
  <2>4. 1 \in Good
    <3>1. 1 \in 1 .. Len(s) /\ g[1] = s[1] /\ 1 - 1 = 0
      BY <1>3, <2>3
    <3>2. s[1] \in Seq(M) /\ Len(s[1]) = A(1) /\ A(1) \in Nat
      BY <1>1, <3>1
    <3>3. Placed(1)
      <4>. SUFFICES ASSUME NEW j \in 1 .. Len(s[1])
                    PROVE  A(0) + j \in 1 .. A(1) /\ g[1][A(0) + j] = s[1][j]
        OBVIOUS
      <4>1. A(0) + j = j
        BY <1>1, <3>2
      <4>. QED BY <3>1, <3>2, <4>1
    <3>4. Found(1)
      <4>. SUFFICES ASSUME NEW k \in 1 .. A(1)
                    PROVE  \E j \in 1 .. Len(s[1]) : k = A(0) + j
        OBVIOUS
      <4>1. k \in 1 .. Len(s[1]) /\ k = A(0) + k
        BY <1>1, <3>2
      <4>. QED BY <4>1
    <3>. HIDE DEF Placed, Found
    <3>. QED BY <3>1, <3>2, <3>3, <3>4
  <2>5. ASSUME NEW n \in 1 .. Len(s) - 1, n \in Good PROVE n + 1 \in Good
    <3>1. g[n] \in Seq(M) /\ Len(g[n]) = A(n) /\ Placed(n) /\ Found(n)
      BY <2>5
    <3>2. n + 1 \in 1 .. Len(s) /\ (n + 1) - 1 = n /\ n + 1 # 1
      OBVIOUS
    <3>3. g[n + 1] = g[n] \o s[n + 1] /\ s[n + 1] \in Seq(M)
      BY <2>3, <3>2
    <3>4. A(n + 1) = A(n) + Len(s[n + 1]) /\ A(n) \in Nat /\ Len(s[n + 1]) \in Nat
      BY <1>1, <3>2, <3>3
    <3>5. /\ g[n + 1] \in Seq(M) /\ Len(g[n + 1]) = A(n + 1)
          /\ \A k \in 1 .. A(n) : g[n + 1][k] = g[n][k]
          /\ \A k \in 1 .. Len(s[n + 1]) : g[n + 1][A(n) + k] = s[n + 1][k]
      <4>. DEFINE a == g[n]  b == s[n + 1]
      <4>1. a \in Seq(M) /\ b \in Seq(M) /\ Len(a) = A(n)
        BY <3>1, <3>3
      <4>. HIDE DEF a, b
      <4>2. /\ a \o b \in Seq(M) /\ Len(a \o b) = Len(a) + Len(b)
            /\ \A k \in 1 .. Len(a) : (a \o b)[k] = a[k]
            /\ \A k \in 1 .. Len(b) : (a \o b)[Len(a) + k] = b[k]
        <5>1. ASSUME NEW c \in Seq(M), NEW d \in Seq(M)
              PROVE  /\ c \o d \in Seq(M) /\ Len(c \o d) = Len(c) + Len(d)
                     /\ \A k \in 1 .. Len(c) : (c \o d)[k] = c[k]
                     /\ \A k \in 1 .. Len(d) : (c \o d)[Len(c) + k] = d[k]
          OBVIOUS
        <5>. QED BY <4>1, <5>1, Zenon
      <4>3. g[n + 1] = a \o b /\ A(n + 1) = A(n) + Len(b)
        BY <3>3, <3>4 DEF a, b
      <4>4. /\ g[n + 1] \in Seq(M) /\ Len(g[n + 1]) = A(n + 1)
            /\ \A k \in 1 .. A(n) : g[n + 1][k] = a[k]
            /\ \A k \in 1 .. Len(b) : g[n + 1][A(n) + k] = b[k]
        BY <4>1, <4>2, <4>3, Zenon
      <4>. QED BY <4>4 DEF a, b
    <3>6. Placed(n + 1)
      <4>. SUFFICES ASSUME NEW i \in 1 .. n + 1, NEW j \in 1 .. Len(s[i])
                    PROVE  /\ A(i - 1) + j \in 1 .. A(n + 1)
                           /\ g[n + 1][A(i - 1) + j] = s[i][j]
        OBVIOUS
      <4>1. CASE i = n + 1
        BY <3>2, <3>4, <3>5, <4>1
      <4>2. CASE i # n + 1
        <5>1. i \in 1 .. n
          BY <4>2
        <5>2. A(i - 1) + j \in 1 .. A(n) /\ g[n][A(i - 1) + j] = s[i][j]
          BY <3>1, <5>1
        <5>. QED BY <3>4, <3>5, <5>2
      <4>. QED BY <4>1, <4>2
    <3>7. Found(n + 1)
      <4>. SUFFICES ASSUME NEW k \in 1 .. A(n + 1)
                    PROVE  \E i \in 1 .. n + 1 : \E j \in 1 .. Len(s[i]) : k = A(i - 1) + j
        OBVIOUS
      <4>1. CASE k <= A(n)
        <5>1. k \in 1 .. A(n)
          BY <3>4, <4>1
        <5>2. PICK i \in 1 .. n : \E j \in 1 .. Len(s[i]) : k = A(i - 1) + j
          BY <3>1, <5>1
        <5>3. i \in 1 .. n + 1
          OBVIOUS
        <5>. QED BY <5>2, <5>3
      <4>2. CASE ~(k <= A(n))
        <5>1. k - A(n) \in 1 .. Len(s[n + 1]) /\ k = A(n) + (k - A(n))
          BY <3>4, <4>2
        <5>2. n + 1 \in 1 .. n + 1
          OBVIOUS
        <5>. QED BY <3>2, <5>1, <5>2
      <4>. QED BY <4>1, <4>2
    <3>. HIDE DEF Placed, Found
    <3>. QED BY <3>2, <3>5, <3>6, <3>7
  <2>. HIDE DEF Good
  <2>6. \A n \in 1 .. Len(s) : n \in Good
    <3>1. 1 \in Int /\ Len(s) \in Int /\ 1 <= Len(s)
      BY <1>3
    <3>. QED BY <2>4, <2>5, <3>1, Upwards
  <2>7. Len(s) \in Good /\ Len(s) \in 1 .. Len(s)
    <3>1. Len(s) \in 1 .. Len(s)
      BY <1>3
    <3>. QED BY <2>6, <3>1
  <2>8. /\ g[Len(s)] \in Seq(M) /\ Len(g[Len(s)]) = A(Len(s))
        /\ Placed(Len(s)) /\ Found(Len(s)) /\ A(Len(s)) \in Nat
    <3>1. Len(s) \in 0 .. Len(s)
      OBVIOUS
    <3>. HIDE DEF Placed, Found
    <3>. QED BY <1>1, <2>7, <3>1 DEF Good
  <2>. QED BY <2>2, <2>8 DEF Concatenated, A
<1>. QED BY <1>2, <1>3

-----------------------------------------------------------------------------
(* Sorted sequences: R holds the pairs of an element and a later one.      *)
Elems(t) == {t[i] : i \in 1 .. Len(t)}
Sorted(t, R) == \A i, j \in 1 .. Len(t) : i < j => <<t[i], t[j]>> \in R
Asymmetric(R) == \A x, y : ~(<<x, y>> \in R /\ <<y, x>> \in R)

LEMMA FlattenSorted ==
  ASSUME NEW M, NEW s, Len(s) \in Nat, Len(s) = 0 => s = <<>>,
         \A i \in 1 .. Len(s) : s[i] \in Seq(M),
         NEW R, \A i \in 1 .. Len(s) : Sorted(s[i], R),
         \A i, j \in 1 .. Len(s) : i < j =>
            \A x \in Elems(s[i]), y \in Elems(s[j]) : <<x, y>> \in R
  PROVE  Sorted(FlattenSeq(s), R)
<1>. DEFINE t == FlattenSeq(s)
<1>1. Concatenated(t, s)
  BY FlattenConcatenates
<1>. HIDE DEF t
<1>2. /\ \A i \in 0 .. Len(s) : Ahead(s, i) \in Nat
      /\ \A i \in 1 .. Len(s) : Ahead(s, i) = Ahead(s, i - 1) + Len(s[i])
      /\ \A i, j \in 0 .. Len(s) : i <= j => Ahead(s, i) <= Ahead(s, j)
  BY AheadIs
<1>3. ASSUME NEW k \in 1 .. Len(t), NEW n \in 1 .. Len(t), k < n
      PROVE  <<t[k], t[n]>> \in R
  <2>10. PICK i \in 1 .. Len(s) : \E u \in 1 .. Len(s[i]) : k = Ahead(s, i - 1) + u
    BY <1>1 DEF Concatenated
  <2>1. PICK u \in 1 .. Len(s[i]) : k = Ahead(s, i - 1) + u
    BY <2>10
  <2>11. PICK j \in 1 .. Len(s) : \E v \in 1 .. Len(s[j]) : n = Ahead(s, j - 1) + v
    BY <1>1 DEF Concatenated
  <2>2. PICK v \in 1 .. Len(s[j]) : n = Ahead(s, j - 1) + v
    BY <2>11
  <2>3. t[k] = s[i][u] /\ t[n] = s[j][v]
    BY <1>1, <2>1, <2>2 DEF Concatenated
  <2>4. Len(s[i]) \in Nat /\ Len(s[j]) \in Nat /\ i - 1 \in 0 .. Len(s) /\ j - 1 \in 0 .. Len(s)
        /\ i \in 0 .. Len(s) /\ j \in 0 .. Len(s)
    OBVIOUS
  <2>5. CASE i = j
    <3>1. u < v
      <4>1. k = Ahead(s, i - 1) + u /\ n = Ahead(s, i - 1) + v
        BY <2>1, <2>2, <2>5
      <4>2. Ahead(s, i - 1) \in Nat /\ u \in Nat /\ v \in Nat
        BY SMTT(30), <1>2, <2>4
      <4>. QED BY <1>3, <4>1, <4>2
    <3>. QED BY <2>3, <2>5, <3>1 DEF Sorted
  <2>6. CASE i < j
    <3>1. s[i][u] \in Elems(s[i]) /\ s[j][v] \in Elems(s[j])
      BY DEF Elems
    <3>. QED BY <2>3, <2>6, <3>1
  <2>7. CASE j < i
    <3>1. Ahead(s, j) <= Ahead(s, i - 1)
      BY <1>2, <2>4, <2>7
    <3>2. Ahead(s, j) = Ahead(s, j - 1) + Len(s[j]) /\ Ahead(s, j) \in Nat
          /\ Ahead(s, j - 1) \in Nat /\ Ahead(s, i - 1) \in Nat
      BY <1>2, <2>4
    <3>3. u \in Nat \ {0} /\ v \in Nat /\ v <= Len(s[j])
      BY <2>4
    <3>4. n <= Ahead(s, j) /\ Ahead(s, i - 1) < k
      <4>. DEFINE a == Ahead(s, i - 1)  b == Ahead(s, j - 1)  c == Ahead(s, j)
      <4>1. k = a + u /\ n = b + v /\ c = b + Len(s[j]) /\ a \in Nat /\ b \in Nat
        BY <2>1, <2>2, <3>2
      <4>. HIDE DEF a, b, c
      <4>2. n <= c /\ a < k
        BY <2>4, <3>3, <4>1
      <4>. QED BY <4>2 DEF a, c
    <3>. QED BY <1>3, <3>1, <3>2, <3>4
  <2>. QED BY <2>5, <2>6, <2>7
<1>. QED BY <1>3 DEF Sorted, t

LEMMA FlattenElems ==
  ASSUME NEW M, NEW s, Len(s) \in Nat, Len(s) = 0 => s = <<>>,
         \A i \in 1 .. Len(s) : s[i] \in Seq(M)
  PROVE  Elems(FlattenSeq(s)) = UNION {Elems(s[i]) : i \in 1 .. Len(s)}
<1>. DEFINE t == FlattenSeq(s)
<1>1. Concatenated(t, s)
  BY FlattenConcatenates
<1>. HIDE DEF t
<1>2. ASSUME NEW x \in Elems(t) PROVE \E i \in 1 .. Len(s) : x \in Elems(s[i])
  <2>1. PICK k \in 1 .. Len(t) : x = t[k]
    BY DEF Elems
  <2>10. PICK i \in 1 .. Len(s) : \E j \in 1 .. Len(s[i]) : k = Ahead(s, i - 1) + j
    BY <1>1 DEF Concatenated
  <2>2. PICK j \in 1 .. Len(s[i]) : k = Ahead(s, i - 1) + j
    BY <2>10
  <2>3. x = s[i][j]
    BY <1>1, <2>1, <2>2 DEF Concatenated
  <2>. QED BY <2>3 DEF Elems
<1>3. ASSUME NEW i \in 1 .. Len(s), NEW x \in Elems(s[i]) PROVE x \in Elems(t)
  <2>1. PICK j \in 1 .. Len(s[i]) : x = s[i][j]
    BY DEF Elems
  <2>2. Ahead(s, i - 1) + j \in 1 .. Len(t) /\ t[Ahead(s, i - 1) + j] = x
    BY <1>1, <2>1 DEF Concatenated
  <2>. QED BY <2>2 DEF Elems
<1>. QED BY <1>2, <1>3 DEF t

(* Leaving out elements of a sequence.                                     *)
HasKept(t, x, keep) ==
  \A y : y \in Elems(t) <=> \E i \in 1 .. Len(x) : i \in keep /\ y = x[i]
LEMMA FlattenThin ==
  ASSUME NEW M, NEW x \in Seq(M), NEW keep, NEW s, Len(s) = Len(x), Len(s) = 0 => s = <<>>,
         \A i \in 1 .. Len(x) : s[i] = IF i \in keep THEN <<x[i]>> ELSE <<>>
  PROVE  /\ FlattenSeq(s) \in Seq(M)
         /\ \A R : Sorted(x, R) => Sorted(FlattenSeq(s), R)
         /\ HasKept(FlattenSeq(s), x, keep)
<1>1. /\ Len(s) \in Nat
      /\ \A i \in 1 .. Len(s) : s[i] \in Seq(M) /\ x[i] \in M
      /\ \A i \in 1 .. Len(s) : Elems(s[i]) = IF i \in keep THEN {x[i]} ELSE {}
  <2>1. \A y : Elems(<<y>>) = {y}
    BY DEF Elems
  <2>2. Elems(<<>>) = {}
    BY DEF Elems
  <2>3. Len(s) \in Nat
    OBVIOUS
  <2>4. \A i \in 1 .. Len(s) : s[i] \in Seq(M) /\ x[i] \in M
    <3>. SUFFICES ASSUME NEW i \in 1 .. Len(s) PROVE s[i] \in Seq(M) /\ x[i] \in M
      OBVIOUS
    <3>1. x[i] \in M /\ i \in 1 .. Len(x)
      OBVIOUS
    <3>2. <<x[i]>> \in Seq(M) /\ <<>> \in Seq(M)
      BY <3>1
    <3>. QED BY <3>1, <3>2
  <2>. QED BY <2>1, <2>2, <2>3, <2>4
<1>2. FlattenSeq(s) \in Seq(M)
  BY <1>1, FlattenConcatenates
<1>3. ASSUME NEW R, Sorted(x, R) PROVE Sorted(FlattenSeq(s), R)
  <2>1. \A i \in 1 .. Len(s) : Sorted(s[i], R)
    <3>. SUFFICES ASSUME NEW i \in 1 .. Len(s) PROVE Sorted(s[i], R)
      OBVIOUS
    <3>1. \A y : Len(<<y>>) = 1
      OBVIOUS
    <3>2. Len(<<>>) = 0 /\ i \in 1 .. Len(x)
      OBVIOUS
    <3>3. Len(s[i]) = 0 \/ Len(s[i]) = 1
      BY <3>1, <3>2
    <3>. QED BY <3>3 DEF Sorted
  <2>2. \A i, j \in 1 .. Len(s) : i < j =>
          \A a \in Elems(s[i]), b \in Elems(s[j]) : <<a, b>> \in R
    BY <1>1, <1>3 DEF Sorted
  <2>. QED BY <1>1, <2>1, <2>2, FlattenSorted
<1>5. \A y : y \in Elems(FlattenSeq(s)) <=> \E i \in 1 .. Len(x) : i \in keep /\ y = x[i]
  <2>1. Elems(FlattenSeq(s)) = UNION {Elems(s[i]) : i \in 1 .. Len(s)}
    BY <1>1, FlattenElems
  <2>2. \A y : y \in UNION {Elems(s[i]) : i \in 1 .. Len(s)} <=>
              \E i \in 1 .. Len(s) : i \in keep /\ y = x[i]
    <3>1. \A y : y \in UNION {Elems(s[i]) : i \in 1 .. Len(s)} <=>
                \E i \in 1 .. Len(s) : y \in Elems(s[i])
      OBVIOUS
    <3>2. \A i \in 1 .. Len(s) : \A y : y \in Elems(s[i]) <=> i \in keep /\ y = x[i]
      BY <1>1
    <3>. SUFFICES ASSUME NEW y
                  PROVE  (\E i \in 1 .. Len(s) : y \in Elems(s[i])) <=>
                         \E i \in 1 .. Len(s) : i \in keep /\ y = x[i]
      BY <3>1
    <3>. QED BY <3>2
  <2>. QED BY <2>1, <2>2
<1>. QED BY <1>2, <1>3, <1>5 DEF HasKept

(* Two sorted sequences with the same elements are equal.                  *)
LEMMA SortedOnce ==
  ASSUME NEW R, Asymmetric(R), NEW t, Len(t) \in Nat, Sorted(t, R),
         NEW i \in 1 .. Len(t), NEW j \in 1 .. Len(t), t[i] = t[j]
  PROVE  i = j
<1>1. i < j => <<t[i], t[j]>> \in R
  BY DEF Sorted
<1>2. j < i => <<t[j], t[i]>> \in R
  BY DEF Sorted
<1>. QED BY <1>1, <1>2 DEF Asymmetric

LEMMA SortedPrefix ==
  ASSUME NEW R, Asymmetric(R), NEW a, NEW b, Len(a) \in Nat, Len(b) \in Nat,
         Sorted(a, R), Sorted(b, R), Elems(a) = Elems(b)
  PROVE  Len(a) <= Len(b) /\ \A i \in 1 .. Len(a) : a[i] = b[i]
<1>. DEFINE Good == {n \in 0 .. Len(a) : n <= Len(b) /\ \A i \in 1 .. n : a[i] = b[i]}
<1>1. 0 \in Good
  OBVIOUS
<1>2. ASSUME NEW n \in 0 .. Len(a) - 1, n \in Good PROVE n + 1 \in Good
  <2>1. n <= Len(b) /\ \A i \in 1 .. n : a[i] = b[i]
    BY <1>2
  <2>2. n + 1 \in 1 .. Len(a)
    OBVIOUS
  <2>3. PICK j \in 1 .. Len(b) : a[n + 1] = b[j]
    BY <2>2 DEF Elems
  <2>4. j >= n + 1
    <3>. SUFFICES ASSUME j \in 1 .. n PROVE FALSE
      BY <2>1
    <3>1. a[j] = a[n + 1] /\ j \in 1 .. Len(a)
      BY <2>1, <2>3
    <3>. QED BY <2>2, <3>1, SortedOnce
  <2>5. n + 1 \in 1 .. Len(b)
    BY <2>3, <2>4
  <2>6. PICK k \in 1 .. Len(a) : b[n + 1] = a[k]
    BY <2>5 DEF Elems
  <2>7. k >= n + 1
    <3>. SUFFICES ASSUME k \in 1 .. n PROVE FALSE
      BY <2>1
    <3>1. b[k] = b[n + 1] /\ k \in 1 .. Len(b)
      BY <2>1, <2>6
    <3>. QED BY <2>5, <3>1, SortedOnce
  <2>8. j = n + 1
    <3>. SUFFICES ASSUME j # n + 1 PROVE FALSE
      OBVIOUS
    <3>1. <<b[n + 1], b[j]>> \in R
      BY <2>4, <2>5 DEF Sorted
    <3>2. k # n + 1
      <4>. SUFFICES ASSUME k = n + 1 PROVE FALSE
        OBVIOUS
      <4>1. b[j] = b[n + 1]
        BY <2>3, <2>6
      <4>. QED BY <2>5, <4>1, SortedOnce
    <3>3. <<a[n + 1], a[k]>> \in R
      BY <2>2, <2>7, <3>2 DEF Sorted
    <3>. QED BY <2>3, <2>6, <3>1, <3>3 DEF Asymmetric
  <2>9. \A i \in 1 .. n + 1 : a[i] = b[i]
    <3>. SUFFICES ASSUME NEW i \in 1 .. n + 1 PROVE a[i] = b[i]
      OBVIOUS
    <3>1. i \in 1 .. n \/ i = n + 1
      OBVIOUS
    <3>. QED BY <2>1, <2>3, <2>8, <3>1
  <2>. QED BY <2>2, <2>5, <2>9
<1>. HIDE DEF Good
<1>3. \A n \in 0 .. Len(a) : n \in Good
  BY SMTT(30), <1>1, <1>2, Upwards
<1>4. Len(a) \in Good
  BY <1>3
<1>. QED BY <1>4 DEF Good

LEMMA SortedSame ==
  ASSUME NEW R, Asymmetric(R), NEW M, NEW a \in Seq(M), NEW b \in Seq(M),
         Sorted(a, R), Sorted(b, R), Elems(a) = Elems(b)
  PROVE  a = b
<1>1. Len(a) \in Nat /\ Len(b) \in Nat
  OBVIOUS
<1>2. Len(a) <= Len(b) /\ \A i \in 1 .. Len(a) : a[i] = b[i]
  BY <1>1, SortedPrefix
<1>3. Len(b) <= Len(a)
  BY <1>1, SortedPrefix
<1>. QED BY <1>1, <1>2, <1>3

LEMMA SortedLen ==
  ASSUME NEW R, Asymmetric(R), NEW M, NEW t \in Seq(M), Sorted(t, R)
  PROVE  IsFiniteSet(Elems(t)) /\ Cardinality(Elems(t)) = Len(t)
<1>. DEFINE E(n) == {t[i] : i \in 1 .. n}
            Good == {n \in 0 .. Len(t) : IsFiniteSet(E(n)) /\ Cardinality(E(n)) = n}
<1>1. Len(t) \in Nat
  OBVIOUS
<1>2. 0 \in Good
  <2>1. E(0) = {}
    OBVIOUS
  <2>2. 0 \in 0 .. Len(t)
    BY <1>1
  <2>. HIDE DEF E
  <2>. QED BY <2>1, <2>2, FS_EmptySet
<1>3. ASSUME NEW n \in 0 .. Len(t) - 1, n \in Good PROVE n + 1 \in Good
  <2>1. n + 1 \in 1 .. Len(t) /\ n + 1 \in 0 .. Len(t) /\ n \in Nat
    BY <1>1
  <2>2. E(n + 1) = E(n) \cup {t[n + 1]}
    <3>1. \A i \in 1 .. n + 1 : i \in 1 .. n \/ i = n + 1
      OBVIOUS
    <3>. QED BY <2>1, <3>1
  <2>3. t[n + 1] \notin E(n)
    <3>. SUFFICES ASSUME NEW i \in 1 .. n, t[i] = t[n + 1] PROVE FALSE
      OBVIOUS
    <3>1. i \in 1 .. Len(t) /\ i # n + 1
      BY <2>1
    <3>. QED BY <1>1, <2>1, <3>1, SortedOnce
  <2>4. IsFiniteSet(E(n)) /\ Cardinality(E(n)) = n
    BY <1>3
  <2>. HIDE DEF E
  <2>5. IsFiniteSet(E(n + 1)) /\ Cardinality(E(n + 1)) = n + 1
    BY <2>2, <2>3, <2>4, FS_AddElement
  <2>. QED BY <2>1, <2>5
<1>. HIDE DEF Good
<1>4. \A n \in 0 .. Len(t) : n \in Good
  <2>. DEFINE k == Len(t)
  <2>1. k \in Nat /\ \A n \in 0 .. k - 1 : n \in Good => n + 1 \in Good
    BY <1>1, <1>3
  <2>. HIDE DEF k
  <2>2. \A n \in 0 .. k : n \in Good
    BY <1>2, <2>1, Upwards
  <2>. QED BY <2>2 DEF k
<1>5. Len(t) \in Good
  BY <1>1, <1>4
<1>. QED BY <1>5 DEF Good, Elems

(* The sum of the weights of the first elements of FlattenSeq(s).          *)
Weigh(w, t, n) == SumOver([k \in 1 .. Len(t) |-> w[t[k]]], 1 .. n)
Weights(w, s)  == [i \in 1 .. Len(s) |-> Weigh(w, s[i], Len(s[i]))]

LEMMA WeighIs ==
  ASSUME NEW M, NEW w, \A x \in M : w[x] \in Nat, NEW t \in Seq(M)
  PROVE  /\ Weigh(w, t, 0) = 0
         /\ \A n \in 0 .. Len(t) : Weigh(w, t, n) \in Nat
         /\ \A n \in 1 .. Len(t) : Weigh(w, t, n) = Weigh(w, t, n - 1) + w[t[n]]
         /\ \A m, n \in 0 .. Len(t) : m <= n => Weigh(w, t, m) <= Weigh(w, t, n)
<1>. DEFINE f == [k \in 1 .. Len(t) |-> w[t[k]]]
<1>1. \A k \in 1 .. Len(t) : f[k] = w[t[k]] /\ f[k] \in Nat
  OBVIOUS
<1>2. \A n : Weigh(w, t, n) = SumOver(f, 1 .. n)
  BY DEF Weigh
<1>. HIDE DEF f
<1>3. /\ SumOver(f, 1 .. 0) = 0
      /\ \A i \in 0 .. Len(t) : SumOver(f, 1 .. i) \in Nat
      /\ \A i \in 1 .. Len(t) : SumOver(f, 1 .. i) = SumOver(f, 1 .. i - 1) + f[i]
      /\ \A i, j \in 0 .. Len(t) : i <= j => SumOver(f, 1 .. i) <= SumOver(f, 1 .. j)
  <2>1. \A k \in 1 .. Len(t) : f[k] \in Nat
    BY <1>1
  <2>2. Len(t) \in Nat
    OBVIOUS
  <2>. QED BY <2>1, <2>2, SumInterval
<1>. QED BY <1>1, <1>2, <1>3

Weighs(w, t, s) ==
  \A i \in 1 .. Len(s) : \A j \in 0 .. Len(s[i]) :
    Weigh(w, t, Ahead(s, i - 1) + j) =
      SumOver(Weights(w, s), 1 .. i - 1) + Weigh(w, s[i], j)

LEMMA WeighFlattened ==
  ASSUME NEW M, NEW w, \A x \in M : w[x] \in Nat,
         NEW s, Len(s) \in Nat, Len(s) = 0 => s = <<>>,
         \A i \in 1 .. Len(s) : s[i] \in Seq(M)
  PROVE  Weighs(w, FlattenSeq(s), s)
<1>. SUFFICES ASSUME NEW i \in 1 .. Len(s), NEW j \in 0 .. Len(s[i])
              PROVE  Weigh(w, FlattenSeq(s), Ahead(s, i - 1) + j) =
                       SumOver(Weights(w, s), 1 .. i - 1) + Weigh(w, s[i], j)
  BY DEF Weighs
<1>. DEFINE t == FlattenSeq(s)
            W(n) == Weigh(w, t, n)
            S(n) == SumOver(Weights(w, s), 1 .. n)
            A(n) == Ahead(s, n)
            V(n, m) == Weigh(w, s[n], m)
            Good == {n \in 0 .. Len(s) : W(A(n)) = S(n)}
<1>1. t \in Seq(M) /\ Concatenated(t, s)
  BY FlattenConcatenates
<1>2. /\ A(0) = 0
      /\ \A n \in 0 .. Len(s) : A(n) \in Nat
      /\ \A n \in 1 .. Len(s) : A(n) = A(n - 1) + Len(s[n]) /\ Len(s[n]) \in Nat
      /\ \A n, m \in 0 .. Len(s) : n <= m => A(n) <= A(m)
  BY AheadIs
<1>. HIDE DEF t, A
<1>3. /\ W(0) = 0
      /\ \A n \in 0 .. Len(t) : W(n) \in Nat
      /\ \A n \in 1 .. Len(t) : W(n) = W(n - 1) + w[t[n]]
  BY <1>1, WeighIs
<1>4. \A n \in 1 .. Len(s) :
        /\ V(n, 0) = 0
        /\ \A m \in 0 .. Len(s[n]) : V(n, m) \in Nat
        /\ \A m \in 1 .. Len(s[n]) : V(n, m) = V(n, m - 1) + w[s[n][m]]
  BY WeighIs
<1>5. /\ S(0) = 0
      /\ \A n \in 0 .. Len(s) : S(n) \in Nat
      /\ \A n \in 1 .. Len(s) : S(n) = S(n - 1) + V(n, Len(s[n]))
  <2>. DEFINE f == Weights(w, s)
  <2>1. \A k \in 1 .. Len(s) : f[k] = V(k, Len(s[k])) /\ f[k] \in Nat
    <3>. SUFFICES ASSUME NEW k \in 1 .. Len(s)
                  PROVE  f[k] = V(k, Len(s[k])) /\ f[k] \in Nat
      OBVIOUS
    <3>1. Len(s[k]) \in 0 .. Len(s[k])
      BY <1>2
    <3>. QED BY <1>4, <3>1 DEF Weights
  <2>. HIDE DEF f, V
  <2>2. /\ SumOver(f, 1 .. 0) = 0
        /\ \A n \in 0 .. Len(s) : SumOver(f, 1 .. n) \in Nat
        /\ \A n \in 1 .. Len(s) : SumOver(f, 1 .. n) = SumOver(f, 1 .. n - 1) + f[n]
    <3>1. \A k \in 1 .. Len(s) : f[k] \in Nat
      BY <2>1
    <3>. QED BY <3>1, SumInterval
  <2>. QED BY <2>1, <2>2 DEF f
<1>. HIDE DEF W, S, V
<1>6. ASSUME NEW n \in 1 .. Len(s), W(A(n - 1)) = S(n - 1), NEW u \in 0 .. Len(s[n])
      PROVE  W(A(n - 1) + u) = S(n - 1) + V(n, u)
  <2>. DEFINE Fine == {m \in 0 .. Len(s[n]) : W(A(n - 1) + m) = S(n - 1) + V(n, m)}
  <2>1. n - 1 \in 0 .. Len(s) /\ A(n - 1) \in Nat /\ S(n - 1) \in Nat /\ Len(s[n]) \in Nat
    <3>1. n - 1 \in 0 .. Len(s)
      OBVIOUS
    <3>. QED BY <1>2, <1>5, <3>1
  <2>2. 0 \in Fine
    BY <1>4, <1>6, <2>1
  <2>3. ASSUME NEW m \in 0 .. Len(s[n]) - 1, m \in Fine PROVE m + 1 \in Fine
    <3>1. m + 1 \in 1 .. Len(s[n]) /\ (m + 1) - 1 = m /\ m \in 0 .. Len(s[n])
      BY <2>1
    <3>2. V(n, m + 1) = V(n, m) + w[s[n][m + 1]] /\ V(n, m) \in Nat
      BY <1>4, <3>1
    <3>3. /\ A(n - 1) + (m + 1) \in 1 .. Len(t) /\ t[A(n - 1) + (m + 1)] = s[n][m + 1]
          /\ (A(n - 1) + (m + 1)) - 1 = A(n - 1) + m
      <4>1. /\ Ahead(s, n - 1) + (m + 1) \in 1 .. Len(t)
            /\ t[Ahead(s, n - 1) + (m + 1)] = s[n][m + 1]
        BY <1>1, <3>1 DEF Concatenated
      <4>2. (A(n - 1) + (m + 1)) - 1 = A(n - 1) + m
        BY <2>1
      <4>. QED BY <4>1, <4>2 DEF A
    <3>4. W(A(n - 1) + (m + 1)) = W(A(n - 1) + m) + w[s[n][m + 1]]
      BY <1>3, <3>3
    <3>5. W(A(n - 1) + m) = S(n - 1) + V(n, m)
      BY <2>3
    <3>6. w[s[n][m + 1]] \in Nat
      BY <3>1
    <3>7. W(A(n - 1) + (m + 1)) = S(n - 1) + V(n, m + 1)
      <4>. DEFINE a == S(n - 1)  b == V(n, m)  c == w[s[n][m + 1]]
      <4>1. W(A(n - 1) + (m + 1)) = (a + b) + c /\ V(n, m + 1) = b + c
        BY <3>2, <3>4, <3>5
      <4>2. a \in Nat /\ b \in Nat /\ c \in Nat
        BY <2>1, <3>2, <3>6
      <4>. HIDE DEF a, b, c
      <4>3. (a + b) + c = a + (b + c)
        BY <4>2
      <4>4. W(A(n - 1) + (m + 1)) = a + V(n, m + 1)
        BY <4>1, <4>3
      <4>. QED BY <4>4 DEF a
    <3>8. m + 1 \in 0 .. Len(s[n])
      BY <2>1
    <3>. QED BY <3>7, <3>8
  <2>. HIDE DEF Fine
  <2>4. \A m \in 0 .. Len(s[n]) : m \in Fine
    <3>1. 0 \in Int /\ Len(s[n]) \in Int /\ 0 <= Len(s[n])
      BY <2>1
    <3>. QED BY <2>2, <2>3, <3>1, Upwards
  <2>. QED BY <2>4 DEF Fine
<1>7. 0 \in Good
  BY <1>2, <1>3, <1>5
<1>8. ASSUME NEW n \in 0 .. Len(s) - 1, n \in Good PROVE n + 1 \in Good
  <2>1. n + 1 \in 1 .. Len(s) /\ (n + 1) - 1 = n /\ W(A(n)) = S(n)
    BY <1>8
  <2>2. Len(s[n + 1]) \in 0 .. Len(s[n + 1])
    BY <1>2, <2>1
  <2>3. W(A(n) + Len(s[n + 1])) = S(n) + V(n + 1, Len(s[n + 1]))
    BY <1>6, <2>1, <2>2
  <2>4. A(n + 1) = A(n) + Len(s[n + 1]) /\ S(n + 1) = S(n) + V(n + 1, Len(s[n + 1]))
    BY <1>2, <1>5, <2>1
  <2>. QED BY <2>1, <2>3, <2>4
<1>. HIDE DEF Good
<1>9. \A n \in 0 .. Len(s) : n \in Good
  <2>1. 0 \in Int /\ Len(s) \in Int /\ 0 <= Len(s)
    OBVIOUS
  <2>. QED BY <1>7, <1>8, <2>1, Upwards
<1>10. W(A(i - 1)) = S(i - 1)
  <2>1. i - 1 \in 0 .. Len(s)
    OBVIOUS
  <2>. QED BY <1>9, <2>1 DEF Good
<1>11. W(A(i - 1) + j) = S(i - 1) + V(i, j)
  BY <1>6, <1>10
<1>. QED BY <1>11 DEF W, S, V, A, t
=============================================================================
