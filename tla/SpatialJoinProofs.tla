-------------------------- MODULE SpatialJoinProofs --------------------------
(***************************************************************************)
(* The programs of SpatialJoin, for every number of processes and cells    *)
(* and all inputs.                                                         *)
(*                                                                         *)
(* CallsInv: the k-th call of a process is the k-th collective step of its *)
(* program.  JoinInv: what a process has in its variables is a function of *)
(* the input, the program and the steps it has done, not of the order in   *)
(* which the processes run.  For that the steps of a program have to come  *)
(* in an order in which each has what it needs (Ready), and every program  *)
(* is checked for it (ProgramOrdered).  The properties then follow from    *)
(* what the values are: the cells of a grid cover it, the owners of cells  *)
(* are disjoint, and what a process is sent are copies of lines that       *)
(* another one has read, with lines lost or twice as the partitioner       *)
(* leaves them, and each in its own cell if all texts can be read.         *)
(***************************************************************************)
EXTENDS SpatialJoin, SequenceTheorems, DataTheorems, TLAPS

StepAt(i) == IF i <= Len(Steps) THEN Steps[i] ELSE "return"

(* The collective steps before the n-th step.                              *)
CollBefore(n) == {i \in 1 .. n - 1 : StepAt(i) \in CollectiveSteps}
NumBefore(n)  == Cardinality(CollBefore(n))

(* c is the k-th collective step.                                          *)
IsCall(k, c) ==
  \E i \in Nat \ {0} : StepAt(i) \in CollectiveSteps /\ NumBefore(i) = k - 1 /\ c = StepAt(i)

CallsInv ==
  /\ pc \in [Ranks -> Nat \ {0}] /\ inCall \in [Ranks -> BOOLEAN]
  /\ DOMAIN calls = Ranks
  /\ \A r \in Ranks :
       /\ inCall[r] => Step(r) \in CollectiveSteps
       /\ \E M : calls[r] \in Seq(M)
       /\ Len(calls[r]) = NumBefore(pc[r]) + (IF inCall[r] THEN 1 ELSE 0)
       /\ \A k \in 1 .. Len(calls[r]) : IsCall(k, calls[r][k].call)

-----------------------------------------------------------------------------
(* Counting collective steps.                                              *)

LEMMA NumBeforeNat ==
  ASSUME NEW n \in Nat \ {0}
  PROVE  IsFiniteSet(CollBefore(n)) /\ NumBefore(n) \in Nat
<1>1. IsFiniteSet(1 .. n - 1)
  BY FS_Interval
<1>2. CollBefore(n) \subseteq 1 .. n - 1
  BY DEF CollBefore
<1>. QED BY <1>1, <1>2, FS_Subset, FS_CardinalityType DEF NumBefore

LEMMA NumBeforeNext ==
  ASSUME NEW n \in Nat \ {0}
  PROVE  NumBefore(n + 1) = NumBefore(n) + (IF StepAt(n) \in CollectiveSteps THEN 1 ELSE 0)
<1>1. CASE StepAt(n) \in CollectiveSteps
  <2>1. CollBefore(n + 1) = CollBefore(n) \cup {n} /\ n \notin CollBefore(n)
    BY <1>1 DEF CollBefore
  <2>. QED BY <1>1, <2>1, NumBeforeNat, FS_AddElement DEF NumBefore
<1>2. CASE StepAt(n) \notin CollectiveSteps
  <2>1. CollBefore(n + 1) = CollBefore(n)
    BY <1>2 DEF CollBefore
  <2>. QED BY <1>2, <2>1, NumBeforeNat DEF NumBefore
<1>. QED BY <1>1, <1>2

LEMMA NumBeforeGrows ==
  ASSUME NEW i \in Nat \ {0}, NEW j \in Nat \ {0}, i < j, StepAt(i) \in CollectiveSteps
  PROVE  NumBefore(i) < NumBefore(j)
<1>1. CollBefore(i + 1) \subseteq CollBefore(j)
  BY DEF CollBefore
<1>2. NumBefore(i + 1) <= NumBefore(j)
  BY <1>1, NumBeforeNat, FS_Subset DEF NumBefore
<1>3. NumBefore(i + 1) = NumBefore(i) + 1
  BY NumBeforeNext
<1>. QED BY <1>2, <1>3, NumBeforeNat

LEMMA OneKthCall ==
  ASSUME NEW k, NEW c, NEW d, IsCall(k, c), IsCall(k, d)
  PROVE  c = d
<1>1. PICK i \in Nat \ {0} :
        StepAt(i) \in CollectiveSteps /\ NumBefore(i) = k - 1 /\ c = StepAt(i)
  BY DEF IsCall
<1>2. PICK j \in Nat \ {0} :
        StepAt(j) \in CollectiveSteps /\ NumBefore(j) = k - 1 /\ d = StepAt(j)
  BY DEF IsCall
<1>3. ~(i < j) /\ ~(j < i)
  <2>1. NumBefore(i) \in Nat /\ NumBefore(j) \in Nat /\ NumBefore(i) = NumBefore(j)
    BY <1>1, <1>2, NumBeforeNat
  <2>. QED BY <1>1, <1>2, <2>1, NumBeforeGrows
<1>. QED BY <1>1, <1>2, <1>3

LEMMA AppendCall ==
  ASSUME NEW M, NEW s \in Seq(M), NEW e
  PROVE  /\ Append(s, e) \in Seq(M \cup {e})
         /\ Len(Append(s, e)) = Len(s) + 1 /\ Len(s) \in Nat
         /\ \A k \in 1 .. Len(s) : Append(s, e)[k] = s[k]
         /\ Append(s, e)[Len(s) + 1] = e
<1>1. s \in Seq(M \cup {e})
  OBVIOUS
<1>. QED BY <1>1

-----------------------------------------------------------------------------
(* A process that goes on to its next step, from a local one or from a     *)
(* call it was in.                                                         *)
LEMMA Goes ==
  ASSUME CallsInv, NEW r \in Ranks,
         UNCHANGED <<program, calls>>,
         pc' = [pc EXCEPT ![r] = @ + 1], inCall' = [inCall EXCEPT ![r] = FALSE],
         inCall[r] <=> Step(r) \in CollectiveSteps
  PROVE  CallsInv'
<1>1. /\ \A i : StepAt(i)' = StepAt(i) /\ NumBefore(i)' = NumBefore(i)
      /\ CollectiveSteps' = CollectiveSteps
  BY ZenonT(30) DEF StepAt, Steps, NumBefore, CollBefore, CollectiveSteps
<1>2. \A k, c : IsCall(k, c)' <=> IsCall(k, c)
  BY <1>1 DEF IsCall
<1>3. pc[r] \in Nat \ {0} /\ Step(r) = StepAt(pc[r])
  BY DEF CallsInv, Step, StepAt
<1>4. Len(calls[r]) = NumBefore(pc[r] + 1)
  BY <1>3, NumBeforeNext, NumBeforeNat DEF CallsInv
<1>5. /\ pc' \in [Ranks -> Nat \ {0}] /\ inCall' \in [Ranks -> BOOLEAN]
      /\ pc'[r] = pc[r] + 1 /\ inCall'[r] = FALSE
      /\ \A q \in Ranks \ {r} : pc'[q] = pc[q] /\ inCall'[q] = inCall[q]
  BY DEF CallsInv
<1>6. \A q \in Ranks \ {r} : Step(q)' = Step(q)
  BY <1>5 DEF Step, Steps
<1>7. \A q \in Ranks : inCall'[q] => Step(q)' \in CollectiveSteps'
  BY <1>1, <1>5, <1>6 DEF CallsInv
<1>8. \A q \in Ranks :
        Len(calls'[q]) = NumBefore(pc[q])' + (IF inCall'[q] THEN 1 ELSE 0)
  <2>1. NumBefore(pc[r] + 1) \in Nat
    BY <1>3, NumBeforeNat
  <2>2. \A q : NumBefore(pc[q])' = NumBefore(pc'[q])
    BY <1>1 DEF NumBefore, CollBefore, StepAt, Steps
  <2>. QED BY <1>4, <1>5, <2>1, <2>2 DEF CallsInv
<1>. QED BY <1>2, <1>5, <1>7, <1>8 DEF CallsInv

LEMMA InitCalls == Init => CallsInv
<1>. SUFFICES ASSUME Init PROVE CallsInv
  OBVIOUS
<1>1. \A r \in Ranks : pc[r] = 1 /\ inCall[r] = FALSE /\ calls[r] = <<>>
  BY DEF Init
<1>2. NumBefore(1) = 0
  <2>1. CollBefore(1) = {}
    BY DEF CollBefore
  <2>. QED BY <2>1, FS_EmptySet DEF NumBefore
<1>3. <<>> \in Seq(Nat) /\ Len(<<>>) = 0
  OBVIOUS
<1>. QED BY <1>1, <1>2, <1>3 DEF CallsInv, Init

LEMMA EnterCalls ==
  ASSUME CallsInv, NEW r \in Ranks, Enter(r) PROVE CallsInv'
<1>. DEFINE e == [call |-> Step(r), sends |-> Sends(r)]
<1>1. /\ Step(r) \in CollectiveSteps /\ ~inCall[r]
      /\ calls'[r] = Append(calls[r], e) /\ inCall'[r] = TRUE
      /\ UNCHANGED <<program, pc>>
      /\ DOMAIN calls' = Ranks /\ inCall' \in [Ranks -> BOOLEAN]
      /\ \A q \in Ranks \ {r} : inCall'[q] = inCall[q] /\ calls'[q] = calls[q]
  BY DEF Enter, CallsInv
<1>2. e.call = Step(r)
  OBVIOUS
<1>. HIDE DEF e
<1>3. PICK M : calls[r] \in Seq(M)
  BY DEF CallsInv
<1>4. pc[r] \in Nat \ {0} /\ Step(r) = StepAt(pc[r]) /\ Len(calls[r]) = NumBefore(pc[r])
  BY <1>1, NumBeforeNat DEF CallsInv, Step, StepAt
<1>5. IsCall(Len(calls[r]) + 1, e.call)
  BY <1>1, <1>2, <1>4, NumBeforeNat DEF IsCall
<1>6. /\ calls'[r] \in Seq(M \cup {e}) /\ Len(calls'[r]) = Len(calls[r]) + 1
      /\ Len(calls[r]) \in Nat
      /\ \A k \in 1 .. Len(calls[r]) : calls'[r][k] = calls[r][k]
      /\ calls'[r][Len(calls[r]) + 1] = e
  BY <1>1, <1>3, AppendCall
<1>7. /\ \A i : StepAt(i)' = StepAt(i) /\ NumBefore(i)' = NumBefore(i)
      /\ CollectiveSteps' = CollectiveSteps
      /\ \A q : Step(q)' = Step(q)
  BY ZenonT(30), <1>1 DEF StepAt, Step, Steps, NumBefore, CollBefore, CollectiveSteps
<1>8. \A k, c : IsCall(k, c)' <=> IsCall(k, c)
  BY <1>7 DEF IsCall
<1>9. \A k \in 1 .. Len(calls'[r]) : IsCall(k, calls'[r][k].call)
  <2>. SUFFICES ASSUME NEW k \in 1 .. Len(calls[r]) + 1 PROVE IsCall(k, calls'[r][k].call)
    BY <1>6
  <2>1. CASE k = Len(calls[r]) + 1
    BY <1>5, <1>6, <2>1
  <2>2. CASE k \in 1 .. Len(calls[r])
    BY <1>6, <2>2 DEF CallsInv
  <2>. QED BY <1>6, <2>1, <2>2
<1>10. ASSUME NEW q \in Ranks
       PROVE  /\ inCall'[q] => Step(q) \in CollectiveSteps
              /\ \E K : calls'[q] \in Seq(K)
              /\ Len(calls'[q]) = NumBefore(pc[q]) + (IF inCall'[q] THEN 1 ELSE 0)
              /\ \A k \in 1 .. Len(calls'[q]) : IsCall(k, calls'[q][k].call)
  <2>1. CASE q = r
    BY <1>1, <1>4, <1>6, <1>9, <2>1
  <2>2. CASE q # r
    <3>1. inCall'[q] = inCall[q] /\ calls'[q] = calls[q]
      BY <1>1, <2>2
    <3>. QED BY <3>1 DEF CallsInv
  <2>. QED BY <2>1, <2>2
<1>11. \A q : NumBefore(pc[q])' = NumBefore(pc[q])
  BY <1>1, <1>7
<1>. QED BY <1>1, <1>7, <1>8, <1>10, <1>11 DEF CallsInv

LEMMA LeaveCalls ==
  ASSUME CallsInv, NEW r \in Ranks, Leave(r) PROVE CallsInv'
<1>1. Step(r) \in CollectiveSteps
  BY DEF Leave, CallsInv
<1>. QED BY <1>1, Goes DEF Leave

(* A local step moves its process on by one step of the program, or kills  *)
(* the job where it stands.                                                *)
LEMMA LocalCalls ==
  ASSUME CallsInv, NEW r \in Ranks, NEW s, NEW m, Local(r, s, m), s \notin CollectiveSteps
  PROVE  CallsInv'
<1>1. Step(r) \notin CollectiveSteps /\ inCall[r] = FALSE
  BY DEF Local, CallsInv
<1>2. inCall' = [inCall EXCEPT ![r] = FALSE] /\ pc' = [pc EXCEPT ![r] = @ + 1]
  BY <1>1 DEF Local, NextStep, CallsInv
<1>. QED BY <1>1, <1>2, Goes DEF Local

LEMMA CallsUnchanged ==
  ASSUME CallsInv, UNCHANGED <<program, pc, inCall, calls>> PROVE CallsInv'
<1>1. /\ \A i : StepAt(i)' = StepAt(i) /\ NumBefore(i)' = NumBefore(i)
      /\ CollectiveSteps' = CollectiveSteps
      /\ \A q : Step(q)' = Step(q)
  BY DEF StepAt, Step, Steps, NumBefore, CollBefore, CollectiveSteps
<1>2. \A k, c : IsCall(k, c)' <=> IsCall(k, c)
  BY <1>1 DEF IsCall
<1>3. \A q : NumBefore(pc[q])' = NumBefore(pc[q])
  BY <1>1
<1>. QED BY <1>1, <1>2, <1>3 DEF CallsInv

LEMMA LocalStepCalls ==
  ASSUME CallsInv, NEW r \in Ranks, LocalStep(r) PROVE CallsInv'
<1>1. CASE Parse(r)
  <2>1. PICK l \in Layers :
          Local(r, <<"parse 1", "parse 2">>[l],
                [mem[r] EXCEPT !.geoms[l] = Parsed(mem[r].lines, l)])
    BY <1>1 DEF Parse
  <2>2. <<"parse 1", "parse 2">>[l] \notin CollectiveSteps
    <3>1. l = 1 \/ l = 2
      BY DEF Layers
    <3>2. "parse 1" \notin CollectiveSteps /\ "parse 2" \notin CollectiveSteps
      BY DEF CollectiveSteps
    <3>3. CASE l = 1
      BY <3>2, <3>3
    <3>4. CASE l = 2
      BY <3>2, <3>4
    <3>. QED BY <3>1, <3>3, <3>4
  <2>. QED BY <2>1, <2>2, LocalCalls
<1>2. CASE Populate(r)
  <2>1. PICK l \in Layers :
          Local(r, <<"populate 1", "populate 2">>[l],
                [mem[r] EXCEPT !.cells[l] = InCells(mem[r].geoms[l], mem[r].grid)])
    BY <1>2 DEF Populate
  <2>2. <<"populate 1", "populate 2">>[l] \notin CollectiveSteps
    <3>1. l = 1 \/ l = 2
      BY DEF Layers
    <3>2. "populate 1" \notin CollectiveSteps /\ "populate 2" \notin CollectiveSteps
      BY DEF CollectiveSteps
    <3>3. CASE l = 1
      BY <3>2, <3>3
    <3>4. CASE l = 2
      BY <3>2, <3>4
    <3>. QED BY <3>1, <3>3, <3>4
  <2>. QED BY <2>1, <2>2, LocalCalls
<1>3. /\ {"read queries", "mbr", "fixed universe", "uniform grid", "adaptive grid",
          "partition queries", "strategy", "join queries", "join pairs",
          "join own cells", "join nothing", "join on GPU", "join own files",
          "index", "read all 2", "query", "join", "overlay"} \cap CollectiveSteps = {}
  BY DEF CollectiveSteps
<1>4. CASE ReadQueries(r) \/ ComputeMBR(r) \/ FixUniverse(r) \/ CreateUniformGrid(r)
  BY <1>3, <1>4, LocalCalls DEF ReadQueries, ComputeMBR, FixUniverse, CreateUniformGrid
<1>5. CASE CreateAdaptiveGrid(r) \/ PartitionQueries(r) \/ CreateCellProcessMap(r)
  BY <1>3, <1>5, LocalCalls DEF CreateAdaptiveGrid, PartitionQueries, CreateCellProcessMap
<1>6. CASE JoinQueries(r) \/ JoinPairs(r) \/ JoinOwnCells(r) \/ JoinNothing(r)
  BY <1>3, <1>6, LocalCalls DEF JoinQueries, JoinPairs, JoinOwnCells, JoinNothing
<1>7. CASE JoinOnGPU(r) \/ JoinOwnFiles(r)
  BY <1>3, <1>7, LocalCalls DEF JoinOnGPU, JoinOwnFiles
<1>8. CASE CreateRTree(r) \/ ReadAll(r) \/ Query(r) \/ Join(r) \/ OverlayPairs(r)
  BY <1>3, <1>8, LocalCalls DEF CreateRTree, ReadAll, Query, Join, OverlayPairs
<1>9. CASE NoQueries(r) \/ NoSuchCell(r) \/ NoPolygons(r) \/ NoPartner(r) \/ TooFewCells(r)
  BY <1>9, CallsUnchanged DEF NoQueries, NoSuchCell, NoPolygons, NoPartner, TooFewCells
<1>. QED BY <1>1, <1>2, <1>4, <1>5, <1>6, <1>7, <1>8, <1>9 DEF LocalStep

LEMMA NextCalls == CallsInv /\ [Next]_vars => CallsInv'
<1>. SUFFICES ASSUME CallsInv, [Next]_vars PROVE CallsInv'
  OBVIOUS
<1>1. CASE UNCHANGED vars
  BY <1>1, CallsUnchanged DEF vars
<1>. QED BY <1>1, LocalStepCalls, EnterCalls, LeaveCalls DEF Next, Terminating

(* All processes of a program make the same collective calls in the same   *)
(* order, for every number of processes and whatever each has read.        *)
THEOREM CallsMatchHolds == Spec => []CallsMatch
<1>1. CallsInv => CallsMatch
  <2>. SUFFICES ASSUME CallsInv, NEW r \in Ranks, NEW q \in Ranks,
                       NEW k \in 1 .. Len(calls[r]), k <= Len(calls[q])
                PROVE  calls[r][k].call = calls[q][k].call
    BY DEF CallsMatch
  <2>1. k \in 1 .. Len(calls[q])
    BY DEF CallsInv
  <2>2. IsCall(k, calls[r][k].call) /\ IsCall(k, calls[q][k].call)
    BY <2>1 DEF CallsInv
  <2>. QED BY <2>2, OneKthCall
<1>. QED BY <1>1, InitCalls, NextCalls, PTL DEF Spec

-----------------------------------------------------------------------------
(* The order of the steps.                                                 *)
JoinSteps ==
  {"join queries", "join pairs", "join on GPU", "join own cells", "join own files",
   "join", "overlay"}
GridSteps == {"uniform grid", "adaptive grid"}
ReadSteps == {"partition", "partition large"}

(* A process that has done the steps D, of a program with the steps all,   *)
(* has what step s needs, and has not done what s must come before.        *)
Ready(all, s, D) ==
  /\ s # "return"
  /\ s = "partition" => "partition large" \notin all /\ "read all 2" \notin D
  /\ s = "partition large" => {"partition", "read all 2"} \cap all = {}
  /\ s \in {"parse 1", "parse 2"} => ReadSteps \cap D # {}
  /\ s = "parse 1" => "read all 2" \notin D
  /\ s = "parse 2" /\ "read all 2" \in all => "read all 2" \in D
  /\ s = "index" => "parse 1" \in D /\ "read queries" \notin all
  /\ s = "mbr" => "parse 1" \in D /\ "union" \in all \ D
  /\ s = "union" => "mbr" \in D /\ "union" \notin D
  /\ s = "uniform grid" => "adaptive grid" \notin all /\ ("union" \in all => "union" \in D)
  /\ s \in {"populate 1", "populate 2", "partition queries", "strategy"} => GridSteps \cap D # {}
  /\ s = "populate 1" => "parse 1" \in D
  /\ s = "populate 2" => "parse 2" \in D /\ "partition queries" \notin all
  /\ s = "partition queries" => "read queries" \in D
  /\ s \in ExchangeSteps => {"populate 1", "strategy"} \subseteq D
  /\ s = "exchange pair" => "populate 2" \in D
  /\ s = "join queries" => {"exchange", "partition queries"} \subseteq D
  /\ s \in {"join pairs", "join on GPU"} => "exchange pair" \in D
  /\ s = "join own cells" => {"populate 1", "populate 2"} \subseteq D
  /\ s = "query" => {"index", "parse 2"} \subseteq D
  /\ s \in {"join", "overlay"} => "query" \in D
  /\ s \in JoinSteps => JoinSteps \cap all = {s} /\ s \notin D /\ "finalize" \in all \ D
  /\ s = "reduce total" => "join own files" \in D /\ "verify" \notin all

(* The steps s, taken after those in D, come to E, each when it is ready.   *)
Before(s, n) == {s[j] : j \in 1 .. n}
Ordered(all, s, D, E) ==
  /\ \E M : s \in Seq(M)
  /\ E = D \cup Before(s, Len(s))
  /\ \A i \in 1 .. Len(s) : Ready(all, s[i], D \cup Before(s, i - 1))

(* One sequence of steps after the other, and sequences step by step.      *)
LEMMA OrderedConcat ==
  ASSUME NEW all, NEW s, NEW t, NEW D, NEW E, NEW F, Ordered(all, s, D, E), Ordered(all, t, E, F)
  PROVE  Ordered(all, s \o t, D, F)
<1>3. PICK M : s \in Seq(M) /\ t \in Seq(M)
  <2>1. PICK K : s \in Seq(K)
    BY DEF Ordered
  <2>2. PICK N : t \in Seq(N)
    BY DEF Ordered
  <2>3. s \in Seq(K \cup N) /\ t \in Seq(K \cup N)
    BY <2>1, <2>2
  <2>. QED BY <2>3
<1>4. /\ s \o t \in Seq(M) /\ Len(s \o t) = Len(s) + Len(t)
      /\ Len(s) \in Nat /\ Len(t) \in Nat
      /\ \A i \in 1 .. Len(s) + Len(t) :
           (s \o t)[i] = IF i <= Len(s) THEN s[i] ELSE t[i - Len(s)]
  BY <1>3, ConcatProperties
<1>5. \A i \in 0 .. Len(s) : Before(s \o t, i) = Before(s, i)
  <2>. SUFFICES ASSUME NEW i \in 0 .. Len(s), NEW j \in 1 .. i PROVE (s \o t)[j] = s[j]
    BY DEF Before
  <2>. QED BY <1>4
<1>6. ASSUME NEW i \in 0 .. Len(t)
      PROVE  Before(s \o t, Len(s) + i) = Before(s, Len(s)) \cup Before(t, i)
  <2>1. ASSUME NEW x \in Before(s \o t, Len(s) + i)
        PROVE  x \in Before(s, Len(s)) \cup Before(t, i)
    <3>1. PICK j \in 1 .. Len(s) + i : x = (s \o t)[j]
      BY DEF Before
    <3>2. CASE j <= Len(s)
      BY <1>4, <3>1, <3>2 DEF Before
    <3>3. CASE j > Len(s)
      <4>1. j - Len(s) \in 1 .. i /\ x = t[j - Len(s)]
        BY <1>4, <3>1, <3>3
      <4>. QED BY <4>1 DEF Before
    <3>. QED BY <1>4, <3>2, <3>3
  <2>2. ASSUME NEW j \in 1 .. Len(s) PROVE s[j] \in Before(s \o t, Len(s) + i)
    <3>1. j \in 1 .. Len(s) + i /\ (s \o t)[j] = s[j]
      BY <1>4
    <3>. QED BY <3>1 DEF Before
  <2>3. ASSUME NEW j \in 1 .. i PROVE t[j] \in Before(s \o t, Len(s) + i)
    <3>1. Len(s) + j \in 1 .. Len(s) + i /\ (s \o t)[Len(s) + j] = t[j]
      <4>1. Len(s) + j \in 1 .. Len(s) + Len(t) /\ ~(Len(s) + j <= Len(s))
            /\ (Len(s) + j) - Len(s) = j /\ Len(s) + j \in 1 .. Len(s) + i
        BY <1>4
      <4>. QED BY <1>4, <4>1
    <3>. QED BY <3>1 DEF Before
  <2>. QED BY <2>1, <2>2, <2>3 DEF Before
<1>7. ASSUME NEW i \in 1 .. Len(s) + Len(t)
      PROVE  Ready(all, (s \o t)[i], D \cup Before(s \o t, i - 1))
  <2>1. CASE i <= Len(s)
    <3>1. i \in 1 .. Len(s) /\ i - 1 \in 0 .. Len(s)
      BY <1>4, <2>1
    <3>2. (s \o t)[i] = s[i] /\ Before(s \o t, i - 1) = Before(s, i - 1)
      BY <1>4, <1>5, <2>1, <3>1
    <3>. QED BY <3>1, <3>2 DEF Ordered
  <2>2. CASE i > Len(s)
    <3>. DEFINE j == i - Len(s)
    <3>1. j \in 1 .. Len(t) /\ j - 1 \in 0 .. Len(t) /\ i - 1 = Len(s) + (j - 1)
      BY <1>4, <2>2
    <3>2. (s \o t)[i] = t[j]
      BY <1>4, <2>2
    <3>3. Before(s \o t, i - 1) = Before(s, Len(s)) \cup Before(t, j - 1)
      BY <1>6, <3>1
    <3>4. D \cup Before(s \o t, i - 1) = E \cup Before(t, j - 1)
      BY <3>3 DEF Ordered
    <3>5. Ready(all, t[j], E \cup Before(t, j - 1))
      BY <3>1 DEF Ordered
    <3>. QED BY <3>2, <3>4, <3>5
  <2>. QED BY <1>4, <2>1, <2>2
<1>8. F = D \cup Before(s \o t, Len(s) + Len(t))
  <2>1. Len(t) \in 0 .. Len(t)
    BY <1>4
  <2>2. Before(s \o t, Len(s) + Len(t)) = Before(s, Len(s)) \cup Before(t, Len(t))
    BY <1>6, <2>1
  <2>. QED BY <2>2 DEF Ordered
<1>. QED BY <1>4, <1>7, <1>8 DEF Ordered

LEMMA Ordered1 ==
  ASSUME NEW all, NEW D, NEW a, Ready(all, a, D)
  PROVE  Ordered(all, <<a>>, D, D \cup {a})
<1>. DEFINE s == <<a>>
<1>1. s \in Seq({a}) /\ Len(s) = 1 /\ s[1] = a
  OBVIOUS
<1>. HIDE DEF s
<1>2. Before(s, 1) = {a} /\ Before(s, 0) = {}
  BY <1>1 DEF Before
<1>3. \A i \in 1 .. 1 : i = 1 /\ i - 1 = 0
  OBVIOUS
<1>4. \A i \in 1 .. 1 : Ready(all, s[i], D \cup Before(s, i - 1))
  <2>1. D \cup Before(s, 0) = D
    BY <1>2
  <2>. QED BY <1>1, <1>3, <2>1
<1>5. Ordered(all, s, D, D \cup {a})
  BY <1>1, <1>2, <1>4 DEF Ordered
<1>. QED BY <1>5 DEF s

LEMMA OrderedAppend ==
  ASSUME NEW all, NEW s, NEW D, NEW E, NEW a, Ordered(all, s, D, E), Ready(all, a, E)
  PROVE  Ordered(all, Append(s, a), D, E \cup {a})
<1>1. PICK M : s \in Seq(M)
  BY DEF Ordered
<1>2. Append(s, a) = s \o <<a>>
  BY <1>1
<1>3. Ordered(all, <<a>>, E, E \cup {a})
  BY Ordered1
<1>. QED BY <1>2, <1>3, OrderedConcat

LEMMA Ordered2 ==
  ASSUME NEW all, NEW D, NEW a, NEW b,
         Ready(all, a, D), Ready(all, b, D \cup {a})
  PROVE  Ordered(all, <<a, b>>, D, D \cup {a, b})
<1>1. <<a, b>> = Append(<<a>>, b) /\ (D \cup {a}) \cup {b} = D \cup {a, b}
  OBVIOUS
<1>2. Ordered(all, <<a>>, D, D \cup {a})
  BY Ordered1
<1>3. Ordered(all, Append(<<a>>, b), D, (D \cup {a}) \cup {b})
  BY <1>2, OrderedAppend
<1>. QED BY <1>1, <1>3

LEMMA Ordered3 ==
  ASSUME NEW all, NEW D, NEW a, NEW b, NEW c,
         Ready(all, a, D), Ready(all, b, D \cup {a}), Ready(all, c, D \cup {a, b})
  PROVE  Ordered(all, <<a, b, c>>, D, D \cup {a, b, c})
<1>1. <<a, b, c>> = Append(<<a, b>>, c) /\ (D \cup {a, b}) \cup {c} = D \cup {a, b, c}
  OBVIOUS
<1>2. Ordered(all, <<a, b>>, D, D \cup {a, b})
  BY Ordered2
<1>3. Ordered(all, Append(<<a, b>>, c), D, (D \cup {a, b}) \cup {c})
  BY <1>2, OrderedAppend
<1>. QED BY <1>1, <1>3

LEMMA Ordered4 ==
  ASSUME NEW all, NEW D, NEW a, NEW b, NEW c, NEW d,
         Ready(all, a, D), Ready(all, b, D \cup {a}), Ready(all, c, D \cup {a, b}),
         Ready(all, d, D \cup {a, b, c})
  PROVE  Ordered(all, <<a, b, c, d>>, D, D \cup {a, b, c, d})
<1>1. /\ <<a, b, c, d>> = Append(<<a, b, c>>, d)
      /\ (D \cup {a, b, c}) \cup {d} = D \cup {a, b, c, d}
  OBVIOUS
<1>2. Ordered(all, <<a, b, c>>, D, D \cup {a, b, c})
  BY Ordered3
<1>3. Ordered(all, Append(<<a, b, c>>, d), D, (D \cup {a, b, c}) \cup {d})
  BY <1>2, OrderedAppend
<1>. QED BY <1>1, <1>3

LEMMA Ordered5 ==
  ASSUME NEW all, NEW D, NEW a, NEW b, NEW c, NEW d, NEW e,
         Ready(all, a, D), Ready(all, b, D \cup {a}), Ready(all, c, D \cup {a, b}),
         Ready(all, d, D \cup {a, b, c}), Ready(all, e, D \cup {a, b, c, d})
  PROVE  Ordered(all, <<a, b, c, d, e>>, D, D \cup {a, b, c, d, e})
<1>1. /\ <<a, b, c, d, e>> = Append(<<a, b, c, d>>, e)
      /\ (D \cup {a, b, c, d}) \cup {e} = D \cup {a, b, c, d, e}
  OBVIOUS
<1>2. Ordered(all, <<a, b, c, d>>, D, D \cup {a, b, c, d})
  BY Ordered4
<1>3. Ordered(all, Append(<<a, b, c, d>>, e), D, (D \cup {a, b, c, d}) \cup {e})
  BY <1>2, OrderedAppend
<1>. QED BY <1>1, <1>3

LEMMA OrderedTimes ==
  ASSUME NEW all, NEW D
  PROVE  /\ Ordered(all, Times(4), D, D \cup {"reduce time"})
         /\ Ordered(all, Times(5), D, D \cup {"reduce time"})
<1>1. ASSUME NEW n \in Nat \ {0}
      PROVE  Ordered(all, Times(n), D, D \cup {"reduce time"})
  <2>. DEFINE s == Times(n)
  <2>1. /\ s \in Seq({"reduce time"}) /\ Len(s) = n
        /\ \A i \in 1 .. n : s[i] = "reduce time"
    BY DEF Times
  <2>. HIDE DEF s
  <2>2. Before(s, n) = {"reduce time"}
    <3>1. 1 \in 1 .. n
      OBVIOUS
    <3>. QED BY <2>1, <3>1 DEF Before
  <2>3. ASSUME NEW E PROVE Ready(all, "reduce time", E)
    BY DEF Ready, ExchangeSteps, JoinSteps
  <2>4. \A i \in 1 .. n : Ready(all, s[i], D \cup Before(s, i - 1))
    BY <2>1, <2>3
  <2>5. Ordered(all, s, D, D \cup {"reduce time"})
    BY <2>1, <2>2, <2>4 DEF Ordered
  <2>. QED BY <2>5 DEF s
<1>2. 4 \in Nat \ {0} /\ 5 \in Nat \ {0}
  OBVIOUS
<1>. QED BY <1>1, <1>2, Zenon

-----------------------------------------------------------------------------
(* The parts of the programs, and the programs.                            *)
LEMMA OrderedCounts ==
  ASSUME NEW all, NEW D
  PROVE  Ordered(all, Counts, D, D \cup {"reduce count"})
<1>1. /\ Ready(all, "reduce count", D)
  BY DEF Ready, JoinSteps, GridSteps, ReadSteps, ExchangeSteps
<1>. QED BY <1>1, Ordered1 DEF Counts

LEMMA OrderedReadLayers ==
  ASSUME NEW all, NEW D, "read all 2" \in all => "read all 2" \in D,
         {"read all 2"} \cap D = {}, {"partition large"} \cap all = {}
  PROVE  Ordered(all, ReadLayers, D, D \cup {"partition", "parse 1", "parse 2"})
<1>1. /\ Ready(all, "partition", D)
      /\ Ready(all, "parse 1", D \cup {"partition"})
      /\ Ready(all, "parse 2", D \cup {"partition", "parse 1"})
  BY DEF Ready, JoinSteps, GridSteps, ReadSteps, ExchangeSteps
<1>. QED BY <1>1, Ordered3 DEF ReadLayers

LEMMA OrderedGridOfUnion ==
  ASSUME NEW all, NEW D, {"parse 1"} \subseteq D, {"union"} \cap D = {},
         {"union"} \subseteq all, {"adaptive grid"} \cap all = {}
  PROVE  Ordered(all, GridOfUnion, D, D \cup {"mbr", "union", "uniform grid", "populate 1"})
<1>1. /\ Ready(all, "mbr", D)
      /\ Ready(all, "union", D \cup {"mbr"})
      /\ Ready(all, "uniform grid", D \cup {"mbr", "union"})
      /\ Ready(all, "populate 1", D \cup {"mbr", "union", "uniform grid"})
  BY DEF Ready, JoinSteps, GridSteps, ReadSteps, ExchangeSteps
<1>. QED BY <1>1, Ordered4 DEF GridOfUnion

LEMMA OrderedAdaptiveGridding ==
  ASSUME NEW all, NEW D, {"parse 1", "read queries"} \subseteq D
  PROVE  Ordered(all, AdaptiveGridding, D, D \cup {"adaptive grid", "populate 1", "partition queries", "strategy"})
<1>1. /\ Ready(all, "adaptive grid", D)
      /\ Ready(all, "populate 1", D \cup {"adaptive grid"})
      /\ Ready(all, "partition queries", D \cup {"adaptive grid", "populate 1"})
      /\ Ready(all, "strategy", D \cup {"adaptive grid", "populate 1", "partition queries"})
  BY DEF Ready, JoinSteps, GridSteps, ReadSteps, ExchangeSteps
<1>. QED BY <1>1, Ordered4 DEF AdaptiveGridding

LEMMA OrderedAdaptiveJoin ==
  ASSUME NEW all, NEW D,
         {"populate 1", "strategy", "partition queries"} \subseteq D,
         JoinSteps \cap all = {"join queries"},
         {"join queries", "finalize"} \cap D = {}, {"finalize"} \subseteq all
  PROVE  Ordered(all, AdaptiveJoin, D, D \cup {"exchange", "join queries"})
<1>1. /\ Ready(all, "exchange", D)
      /\ Ready(all, "join queries", D \cup {"exchange"})
  BY DEF Ready, JoinSteps, GridSteps, ReadSteps, ExchangeSteps
<1>. QED BY <1>1, Ordered2 DEF AdaptiveJoin

LEMMA OrderedBroadcastInput ==
  ASSUME NEW all, NEW D, {"read all 2"} \cap D = {},
         {"partition large", "read queries"} \cap all = {}
  PROVE  Ordered(all, BroadcastInput, D, D \cup {"partition", "parse 1", "index", "read all 2", "parse 2"})
<1>1. /\ Ready(all, "partition", D)
      /\ Ready(all, "parse 1", D \cup {"partition"})
      /\ Ready(all, "index", D \cup {"partition", "parse 1"})
      /\ Ready(all, "read all 2", D \cup {"partition", "parse 1", "index"})
      /\ Ready(all, "parse 2", D \cup {"partition", "parse 1", "index", "read all 2"})
  BY DEF Ready, JoinSteps, GridSteps, ReadSteps, ExchangeSteps
<1>. QED BY <1>1, Ordered5 DEF BroadcastInput

LEMMA OrderedGridInput ==
  ASSUME NEW all, NEW D, {"read all 2"} \cap D = {},
         {"partition large"} \cap all = {}
  PROVE  Ordered(all, GridInput, D, D \cup {"barrier", "partition", "parse 1", "barrier"})
<1>1. /\ Ready(all, "barrier", D)
      /\ Ready(all, "partition", D \cup {"barrier"})
      /\ Ready(all, "parse 1", D \cup {"barrier", "partition"})
      /\ Ready(all, "barrier", D \cup {"barrier", "partition", "parse 1"})
  BY DEF Ready, JoinSteps, GridSteps, ReadSteps, ExchangeSteps
<1>. QED BY <1>1, Ordered4 DEF GridInput

LEMMA OrderedGridGridding ==
  ASSUME NEW all, NEW D, {"parse 1"} \subseteq D,
         "union" \in all => "union" \in D, {"adaptive grid"} \cap all = {}
  PROVE  Ordered(all, GridGridding, D, D \cup {"fixed universe", "uniform grid", "populate 1", "strategy"})
<1>1. /\ Ready(all, "fixed universe", D)
      /\ Ready(all, "uniform grid", D \cup {"fixed universe"})
      /\ Ready(all, "populate 1", D \cup {"fixed universe", "uniform grid"})
      /\ Ready(all, "strategy", D \cup {"fixed universe", "uniform grid", "populate 1"})
  BY DEF Ready, JoinSteps, GridSteps, ReadSteps, ExchangeSteps
<1>. QED BY <1>1, Ordered4 DEF GridGridding

LEMMA OrderedGridExchange ==
  ASSUME NEW all, NEW D, {"populate 1", "strategy"} \subseteq D
  PROVE  Ordered(all, GridExchange, D, D \cup {"exchange", "join nothing", "barrier", "exchange", "barrier"})
<1>1. /\ Ready(all, "exchange", D)
      /\ Ready(all, "join nothing", D \cup {"exchange"})
      /\ Ready(all, "barrier", D \cup {"exchange", "join nothing"})
      /\ Ready(all, "exchange", D \cup {"exchange", "join nothing", "barrier"})
      /\ Ready(all, "barrier", D \cup {"exchange", "join nothing", "barrier", "exchange"})
  BY DEF Ready, JoinSteps, GridSteps, ReadSteps, ExchangeSteps
<1>. QED BY <1>1, Ordered5 DEF GridExchange

LEMMA OrderedMPERealJoin ==
  ASSUME NEW all, NEW D,
         {"populate 1", "strategy", "populate 2"} \subseteq D,
         JoinSteps \cap all = {"join pairs"},
         {"join pairs", "finalize"} \cap D = {}, {"finalize"} \subseteq all
  PROVE  Ordered(all, MPERealJoin, D, D \cup {"barrier", "exchange pair", "barrier", "join pairs", "verify"})
<1>1. /\ Ready(all, "barrier", D)
      /\ Ready(all, "exchange pair", D \cup {"barrier"})
      /\ Ready(all, "barrier", D \cup {"barrier", "exchange pair"})
      /\ Ready(all, "join pairs", D \cup {"barrier", "exchange pair", "barrier"})
      /\ Ready(all, "verify", D \cup {"barrier", "exchange pair", "barrier", "join pairs"})
  BY DEF Ready, JoinSteps, GridSteps, ReadSteps, ExchangeSteps
<1>. QED BY <1>1, Ordered5 DEF MPERealJoin

LEMMA OrderedSingleInput ==
  ASSUME NEW all, NEW D, "read all 2" \in all => "read all 2" \in D,
         {"read all 2"} \cap D = {},
         {"partition", "read all 2"} \cap all = {}
  PROVE  Ordered(all, SingleInput, D, D \cup {"partition large", "parse 1", "parse 2", "barrier"})
<1>1. /\ Ready(all, "partition large", D)
      /\ Ready(all, "parse 1", D \cup {"partition large"})
      /\ Ready(all, "parse 2", D \cup {"partition large", "parse 1"})
      /\ Ready(all, "barrier", D \cup {"partition large", "parse 1", "parse 2"})
  BY DEF Ready, JoinSteps, GridSteps, ReadSteps, ExchangeSteps
<1>. QED BY <1>1, Ordered4 DEF SingleInput

LEMMA OrderedSingleGridding ==
  ASSUME NEW all, NEW D, {"parse 1", "parse 2"} \subseteq D,
         "union" \in all => "union" \in D,
         {"adaptive grid", "partition queries"} \cap all = {}
  PROVE  Ordered(all, SingleGridding, D, D \cup {"fixed universe", "uniform grid", "populate 1", "populate 2", "strategy"})
<1>1. /\ Ready(all, "fixed universe", D)
      /\ Ready(all, "uniform grid", D \cup {"fixed universe"})
      /\ Ready(all, "populate 1", D \cup {"fixed universe", "uniform grid"})
      /\ Ready(all, "populate 2", D \cup {"fixed universe", "uniform grid", "populate 1"})
      /\ Ready(all, "strategy", D \cup {"fixed universe", "uniform grid", "populate 1", "populate 2"})
  BY DEF Ready, JoinSteps, GridSteps, ReadSteps, ExchangeSteps
<1>. QED BY <1>1, Ordered5 DEF SingleGridding

LEMMA OrderedCountLayers ==
  ASSUME NEW all, NEW D, "read all 2" \in all => "read all 2" \in D,
         {"read all 2"} \cap D = {},
         {"partition", "read all 2"} \cap all = {}
  PROVE  Ordered(all, CountLayers, D,
                 D \cup {"partition large", "reduce count", "parse 1",
                         "parse 2"})
<1>. DEFINE D1 == D \cup {"partition large"}
            D2 == D1 \cup {"reduce count"}
            D3 == D2 \cup {"parse 1", "parse 2"}
<1>1. Ordered(all, <<"partition large">>, D, D1)
  <2>1. /\ Ready(all, "partition large", D)
    BY DEF Ready, JoinSteps, GridSteps, ReadSteps, ExchangeSteps
  <2>. QED BY <2>1, Ordered1
<1>2. Ordered(all, Counts, D1, D2)
  <2>. HIDE DEF D1
  <2>. QED BY OrderedCounts
<1>3. Ordered(all, <<"parse 1", "parse 2">>, D2, D3)
  <2>1. /\ Ready(all, "parse 1", D2)
        /\ Ready(all, "parse 2", D2 \cup {"parse 1"})
    BY DEF Ready, JoinSteps, GridSteps, ReadSteps, ExchangeSteps
  <2>. HIDE DEF D2
  <2>. QED BY <2>1, Ordered2
<1>. HIDE DEF D1, D2, D3
<1>4. Ordered(all, <<"partition large">> \o Counts, D, D2)
  BY <1>1, <1>2, OrderedConcat
<1>5. Ordered(all, <<"partition large">> \o Counts \o <<"parse 1", "parse 2">>, D, D3)
  BY <1>4, <1>3, OrderedConcat
<1>6. D3 = D \cup {"partition large", "reduce count", "parse 1", "parse 2"}
  BY DEF D1, D2, D3
<1>. QED BY <1>5, <1>6 DEF CountLayers

LEMMA OrderedLargeMain ==
  ASSUME NEW all, NEW D, "read all 2" \in all => "read all 2" \in D,
         {"read all 2"} \cap D = {},
         {"partition", "read all 2"} \cap all = {}
  PROVE  Ordered(all, LargeMain, D,
                 D \cup {"barrier", "partition large", "reduce count",
                         "parse 1", "parse 2"})
<1>. DEFINE D1 == D \cup {"barrier"}
            D2 == D1 \cup {"partition large", "reduce count", "parse 1",
                           "parse 2"}
            D3 == D2 \cup {"reduce count"}
<1>1. Ordered(all, <<"barrier">>, D, D1)
  <2>1. /\ Ready(all, "barrier", D)
    BY DEF Ready, JoinSteps, GridSteps, ReadSteps, ExchangeSteps
  <2>. QED BY <2>1, Ordered1
<1>2. Ordered(all, CountLayers, D1, D2)
  <2>1. /\ "read all 2" \in all => "read all 2" \in D1
        /\ {"read all 2"} \cap D1 = {}
        /\ {"partition", "read all 2"} \cap all = {}
    BY DEF JoinSteps, GridSteps, ReadSteps
  <2>. HIDE DEF D1
  <2>. QED BY <2>1, OrderedCountLayers
<1>3. Ordered(all, Counts, D2, D3)
  <2>. HIDE DEF D2
  <2>. QED BY OrderedCounts
<1>. HIDE DEF D1, D2, D3
<1>4. Ordered(all, <<"barrier">> \o CountLayers, D, D2)
  BY <1>1, <1>2, OrderedConcat
<1>5. Ordered(all, <<"barrier">> \o CountLayers \o Counts, D, D3)
  BY <1>4, <1>3, OrderedConcat
<1>6. D3 = D \cup {"barrier", "partition large", "reduce count", "parse 1", "parse 2"}
  BY DEF D1, D2, D3
<1>. QED BY <1>5, <1>6 DEF LargeMain

LEMMA OrderedAllObjInput ==
  ASSUME NEW all, NEW D, "read all 2" \in all => "read all 2" \in D,
         {"read all 2"} \cap D = {},
         {"partition", "read all 2"} \cap all = {}
  PROVE  Ordered(all, AllObjInput, D,
                 D \cup {"barrier", "partition large", "reduce count",
                         "parse 1", "parse 2"})
<1>. DEFINE D1 == D \cup {"barrier"}
            D2 == D1 \cup {"partition large", "reduce count", "parse 1",
                           "parse 2"}
            D3 == D2 \cup {"reduce count"}
<1>1. Ordered(all, <<"barrier">>, D, D1)
  <2>1. /\ Ready(all, "barrier", D)
    BY DEF Ready, JoinSteps, GridSteps, ReadSteps, ExchangeSteps
  <2>. QED BY <2>1, Ordered1
<1>2. Ordered(all, CountLayers, D1, D2)
  <2>1. /\ "read all 2" \in all => "read all 2" \in D1
        /\ {"read all 2"} \cap D1 = {}
        /\ {"partition", "read all 2"} \cap all = {}
    BY DEF JoinSteps, GridSteps, ReadSteps
  <2>. HIDE DEF D1
  <2>. QED BY <2>1, OrderedCountLayers
<1>3. Ordered(all, Counts, D2, D3)
  <2>. HIDE DEF D2
  <2>. QED BY OrderedCounts
<1>. HIDE DEF D1, D2, D3
<1>4. Ordered(all, <<"barrier">> \o CountLayers, D, D2)
  BY <1>1, <1>2, OrderedConcat
<1>5. Ordered(all, <<"barrier">> \o CountLayers \o Counts, D, D3)
  BY <1>4, <1>3, OrderedConcat
<1>6. D3 = D \cup {"barrier", "partition large", "reduce count", "parse 1", "parse 2"}
  BY DEF D1, D2, D3
<1>. QED BY <1>5, <1>6 DEF AllObjInput

LEMMA OrderedAdaptiveInput ==
  ASSUME NEW all, NEW D, "read all 2" \in all => "read all 2" \in D,
         {"read all 2"} \cap D = {}, {"partition large"} \cap all = {}
  PROVE  Ordered(all, AdaptiveInput, D,
                 D \cup {"read queries", "barrier", "partition", "parse 1",
                         "parse 2"})
<1>. DEFINE D1 == D \cup {"read queries", "barrier"}
            D2 == D1 \cup {"partition", "parse 1", "parse 2"}
<1>1. Ordered(all, <<"read queries", "barrier">>, D, D1)
  <2>1. /\ Ready(all, "read queries", D)
        /\ Ready(all, "barrier", D \cup {"read queries"})
    BY DEF Ready, JoinSteps, GridSteps, ReadSteps, ExchangeSteps
  <2>. QED BY <2>1, Ordered2
<1>2. Ordered(all, ReadLayers, D1, D2)
  <2>1. /\ "read all 2" \in all => "read all 2" \in D1
        /\ {"read all 2"} \cap D1 = {}
        /\ {"partition large"} \cap all = {}
    BY DEF JoinSteps, GridSteps, ReadSteps
  <2>. HIDE DEF D1
  <2>. QED BY <2>1, OrderedReadLayers
<1>. HIDE DEF D1, D2
<1>3. Ordered(all, <<"read queries", "barrier">> \o ReadLayers, D, D2)
  BY <1>1, <1>2, OrderedConcat
<1>4. D2 = D \cup {"read queries", "barrier", "partition", "parse 1", "parse 2"}
  BY DEF D1, D2
<1>. QED BY <1>3, <1>4 DEF AdaptiveInput

LEMMA OrderedAllObjGridding ==
  ASSUME NEW all, NEW D, {"parse 1", "parse 2"} \subseteq D,
         {"union"} \cap D = {}, {"union"} \subseteq all,
         {"adaptive grid", "partition queries"} \cap all = {}
  PROVE  Ordered(all, AllObjGridding, D,
                 D \cup {"barrier", "mbr", "union", "uniform grid",
                         "populate 1", "populate 2", "strategy"})
<1>. DEFINE D1 == D \cup {"barrier"}
            D2 == D1 \cup {"mbr", "union", "uniform grid", "populate 1"}
            D3 == D2 \cup {"populate 2", "strategy"}
<1>1. Ordered(all, <<"barrier">>, D, D1)
  <2>1. /\ Ready(all, "barrier", D)
    BY DEF Ready, JoinSteps, GridSteps, ReadSteps, ExchangeSteps
  <2>. QED BY <2>1, Ordered1
<1>2. Ordered(all, GridOfUnion, D1, D2)
  <2>1. /\ {"parse 1"} \subseteq D1
        /\ {"union"} \cap D1 = {}
        /\ {"union"} \subseteq all
        /\ {"adaptive grid"} \cap all = {}
    BY DEF JoinSteps, GridSteps, ReadSteps
  <2>. HIDE DEF D1
  <2>. QED BY <2>1, OrderedGridOfUnion
<1>3. Ordered(all, <<"populate 2", "strategy">>, D2, D3)
  <2>1. /\ Ready(all, "populate 2", D2)
        /\ Ready(all, "strategy", D2 \cup {"populate 2"})
    BY DEF Ready, JoinSteps, GridSteps, ReadSteps, ExchangeSteps
  <2>. HIDE DEF D2
  <2>. QED BY <2>1, Ordered2
<1>. HIDE DEF D1, D2, D3
<1>4. Ordered(all, <<"barrier">> \o GridOfUnion, D, D2)
  BY <1>1, <1>2, OrderedConcat
<1>5. Ordered(all, <<"barrier">> \o GridOfUnion \o <<"populate 2", "strategy">>, D, D3)
  BY <1>4, <1>3, OrderedConcat
<1>6. D3 = D \cup {"barrier", "mbr", "union", "uniform grid", "populate 1", "populate 2", "strategy"}
  BY DEF D1, D2, D3
<1>. QED BY <1>5, <1>6 DEF AllObjGridding

LEMMA OrderedMPERealGridding ==
  ASSUME NEW all, NEW D, {"parse 1", "parse 2"} \subseteq D,
         {"union"} \cap D = {}, {"union"} \subseteq all,
         {"adaptive grid", "partition queries"} \cap all = {}
  PROVE  Ordered(all, MPERealGridding, D,
                 D \cup {"mbr", "union", "uniform grid", "populate 1",
                         "populate 2", "strategy"})
<1>. DEFINE D1 == D \cup {"mbr", "union", "uniform grid", "populate 1"}
            D2 == D1 \cup {"populate 2", "strategy"}
<1>1. Ordered(all, GridOfUnion, D, D1)
  <2>1. /\ {"parse 1"} \subseteq D
        /\ {"union"} \cap D = {}
        /\ {"union"} \subseteq all
        /\ {"adaptive grid"} \cap all = {}
    BY DEF JoinSteps, GridSteps, ReadSteps
  <2>. QED BY <2>1, OrderedGridOfUnion
<1>2. Ordered(all, <<"populate 2", "strategy">>, D1, D2)
  <2>1. /\ Ready(all, "populate 2", D1)
        /\ Ready(all, "strategy", D1 \cup {"populate 2"})
    BY DEF Ready, JoinSteps, GridSteps, ReadSteps, ExchangeSteps
  <2>. HIDE DEF D1
  <2>. QED BY <2>1, Ordered2
<1>. HIDE DEF D1, D2
<1>3. Ordered(all, GridOfUnion \o <<"populate 2", "strategy">>, D, D2)
  BY <1>1, <1>2, OrderedConcat
<1>4. D2 = D \cup {"mbr", "union", "uniform grid", "populate 1", "populate 2", "strategy"}
  BY DEF D1, D2
<1>. QED BY <1>3, <1>4 DEF MPERealGridding

LEMMA OrderedBenchInput ==
  ASSUME NEW all, NEW D, {"read all 2", "union"} \cap D = {},
         {"union"} \subseteq all,
         {"partition large", "adaptive grid"} \cap all = {}
  PROVE  Ordered(all, BenchInput, D,
                 D \cup {"partition", "parse 1", "mbr", "union",
                         "uniform grid", "populate 1", "strategy"})
<1>. DEFINE D1 == D \cup {"partition", "parse 1"}
            D2 == D1 \cup {"mbr", "union", "uniform grid", "populate 1"}
            D3 == D2 \cup {"strategy"}
<1>1. Ordered(all, <<"partition", "parse 1">>, D, D1)
  <2>1. /\ Ready(all, "partition", D)
        /\ Ready(all, "parse 1", D \cup {"partition"})
    BY DEF Ready, JoinSteps, GridSteps, ReadSteps, ExchangeSteps
  <2>. QED BY <2>1, Ordered2
<1>2. Ordered(all, GridOfUnion, D1, D2)
  <2>1. /\ {"parse 1"} \subseteq D1
        /\ {"union"} \cap D1 = {}
        /\ {"union"} \subseteq all
        /\ {"adaptive grid"} \cap all = {}
    BY DEF JoinSteps, GridSteps, ReadSteps
  <2>. HIDE DEF D1
  <2>. QED BY <2>1, OrderedGridOfUnion
<1>3. Ordered(all, <<"strategy">>, D2, D3)
  <2>1. /\ Ready(all, "strategy", D2)
    BY DEF Ready, JoinSteps, GridSteps, ReadSteps, ExchangeSteps
  <2>. HIDE DEF D2
  <2>. QED BY <2>1, Ordered1
<1>. HIDE DEF D1, D2, D3
<1>4. Ordered(all, <<"partition", "parse 1">> \o GridOfUnion, D, D2)
  BY <1>1, <1>2, OrderedConcat
<1>5. Ordered(all, <<"partition", "parse 1">> \o GridOfUnion \o <<"strategy">>, D, D3)
  BY <1>4, <1>3, OrderedConcat
<1>6. D3 = D \cup {"partition", "parse 1", "mbr", "union", "uniform grid", "populate 1", "strategy"}
  BY DEF D1, D2, D3
<1>. QED BY <1>5, <1>6 DEF BenchInput

LEMMA OrderedMPERealInput ==
  ASSUME NEW all, NEW D, "read all 2" \in all => "read all 2" \in D,
         {"read all 2"} \cap D = {},
         {"partition", "read all 2"} \cap all = {}
  PROVE  Ordered(all, MPERealInput, D,
                 D \cup {"barrier", "partition large", "reduce count",
                         "parse 1", "parse 2"})
<1>. DEFINE D1 == D \cup {"barrier", "partition large", "reduce count",
                          "parse 1", "parse 2"}
            D2 == D1 \cup {"barrier"}
<1>1. Ordered(all, LargeMain, D, D1)
  <2>1. /\ "read all 2" \in all => "read all 2" \in D
        /\ {"read all 2"} \cap D = {}
        /\ {"partition", "read all 2"} \cap all = {}
    BY DEF JoinSteps, GridSteps, ReadSteps
  <2>. QED BY <2>1, OrderedLargeMain
<1>2. Ordered(all, <<"barrier">>, D1, D2)
  <2>1. /\ Ready(all, "barrier", D1)
    BY DEF Ready, JoinSteps, GridSteps, ReadSteps, ExchangeSteps
  <2>. HIDE DEF D1
  <2>. QED BY <2>1, Ordered1
<1>. HIDE DEF D1, D2
<1>3. Ordered(all, LargeMain \o <<"barrier">>, D, D2)
  BY <1>1, <1>2, OrderedConcat
<1>4. D2 = D \cup {"barrier", "partition large", "reduce count", "parse 1", "parse 2"}
  BY DEF D1, D2
<1>. QED BY <1>3, <1>4 DEF MPERealInput

LEMMA AdaptiveMainOrdered ==
  ASSUME NEW all,
         all = {"read queries", "barrier", "partition", "parse 1", "parse 2",
                "adaptive grid", "populate 1", "partition queries",
                "strategy", "exchange", "join queries", "reduce time",
                "finalize"}
  PROVE  Ordered(all, AdaptiveMain, {}, all)
<1>. DEFINE D1 == {} \cup {"read queries", "barrier", "partition", "parse 1",
                           "parse 2"}
            D2 == D1 \cup {"adaptive grid", "populate 1",
                           "partition queries", "strategy"}
            D3 == D2 \cup {"exchange", "join queries"}
            D4 == D3 \cup {"reduce time"}
            D5 == D4 \cup {"finalize"}
<1>1. Ordered(all, AdaptiveInput, {}, D1)
  <2>1. /\ "read all 2" \in all => "read all 2" \in {}
        /\ {"read all 2"} \cap {} = {}
        /\ {"partition large"} \cap all = {}
    BY DEF JoinSteps, GridSteps, ReadSteps
  <2>. QED BY <2>1, OrderedAdaptiveInput
<1>2. Ordered(all, AdaptiveGridding, D1, D2)
  <2>1. /\ {"parse 1", "read queries"} \subseteq D1
    BY DEF JoinSteps, GridSteps, ReadSteps
  <2>. HIDE DEF D1
  <2>. QED BY <2>1, OrderedAdaptiveGridding
<1>3. Ordered(all, AdaptiveJoin, D2, D3)
  <2>1. /\ {"populate 1", "strategy", "partition queries"} \subseteq D2
        /\ JoinSteps \cap all = {"join queries"}
        /\ {"join queries", "finalize"} \cap D2 = {}
        /\ {"finalize"} \subseteq all
    BY DEF JoinSteps, GridSteps, ReadSteps
  <2>. HIDE DEF D2
  <2>. QED BY <2>1, OrderedAdaptiveJoin
<1>4. Ordered(all, Times(5), D3, D4)
  <2>. HIDE DEF D3
  <2>. QED BY OrderedTimes
<1>5. Ordered(all, <<"finalize">>, D4, D5)
  <2>1. /\ Ready(all, "finalize", D4)
    BY DEF Ready, JoinSteps, GridSteps, ReadSteps, ExchangeSteps
  <2>. HIDE DEF D4
  <2>. QED BY <2>1, Ordered1
<1>. HIDE DEF D1, D2, D3, D4, D5
<1>6. Ordered(all, AdaptiveInput \o AdaptiveGridding, {}, D2)
  BY <1>1, <1>2, OrderedConcat
<1>7. Ordered(all, AdaptiveInput \o AdaptiveGridding \o AdaptiveJoin, {}, D3)
  BY <1>6, <1>3, OrderedConcat
<1>8. Ordered(all, AdaptiveInput \o AdaptiveGridding \o AdaptiveJoin \o Times(5), {}, D4)
  BY <1>7, <1>4, OrderedConcat
<1>9. Ordered(all, AdaptiveInput \o AdaptiveGridding \o AdaptiveJoin \o Times(5) \o <<"finalize">>, {}, D5)
  BY <1>8, <1>5, OrderedConcat
<1>10. D5 = all
  BY DEF D1, D2, D3, D4, D5
<1>. QED BY <1>9, <1>10 DEF AdaptiveMain

LEMMA BroadcastMainOrdered ==
  ASSUME NEW all,
         all = {"partition", "parse 1", "index", "read all 2", "parse 2",
                "query", "join", "close", "finalize"}
  PROVE  Ordered(all, BroadcastMain, {}, all)
<1>. DEFINE D1 == {} \cup {"partition", "parse 1", "index", "read all 2",
                           "parse 2"}
            D2 == D1 \cup {"query", "join", "close", "finalize"}
<1>1. Ordered(all, BroadcastInput, {}, D1)
  <2>1. /\ {"read all 2"} \cap {} = {}
        /\ {"partition large", "read queries"} \cap all = {}
    BY DEF JoinSteps, GridSteps, ReadSteps
  <2>. QED BY <2>1, OrderedBroadcastInput
<1>2. Ordered(all, <<"query", "join", "close", "finalize">>, D1, D2)
  <2>1. /\ Ready(all, "query", D1)
        /\ Ready(all, "join", D1 \cup {"query"})
        /\ Ready(all, "close", D1 \cup {"query", "join"})
        /\ Ready(all, "finalize", D1 \cup {"query", "join", "close"})
    BY DEF Ready, JoinSteps, GridSteps, ReadSteps, ExchangeSteps
  <2>. HIDE DEF D1
  <2>. QED BY <2>1, Ordered4
<1>. HIDE DEF D1, D2
<1>3. Ordered(all, BroadcastInput \o <<"query", "join", "close", "finalize">>, {}, D2)
  BY <1>1, <1>2, OrderedConcat
<1>4. D2 = all
  BY DEF D1, D2
<1>. QED BY <1>3, <1>4 DEF BroadcastMain

LEMMA OverlayMainOrdered ==
  ASSUME NEW all,
         all = {"partition", "parse 1", "index", "read all 2", "parse 2",
                "query", "overlay", "close", "finalize"}
  PROVE  Ordered(all, OverlayMain, {}, all)
<1>. DEFINE D1 == {} \cup {"partition", "parse 1", "index", "read all 2",
                           "parse 2"}
            D2 == D1 \cup {"query", "overlay", "close", "finalize"}
<1>1. Ordered(all, BroadcastInput, {}, D1)
  <2>1. /\ {"read all 2"} \cap {} = {}
        /\ {"partition large", "read queries"} \cap all = {}
    BY DEF JoinSteps, GridSteps, ReadSteps
  <2>. QED BY <2>1, OrderedBroadcastInput
<1>2. Ordered(all, <<"query", "overlay", "close", "finalize">>, D1, D2)
  <2>1. /\ Ready(all, "query", D1)
        /\ Ready(all, "overlay", D1 \cup {"query"})
        /\ Ready(all, "close", D1 \cup {"query", "overlay"})
        /\ Ready(all, "finalize", D1 \cup {"query", "overlay", "close"})
    BY DEF Ready, JoinSteps, GridSteps, ReadSteps, ExchangeSteps
  <2>. HIDE DEF D1
  <2>. QED BY <2>1, Ordered4
<1>. HIDE DEF D1, D2
<1>3. Ordered(all, BroadcastInput \o <<"query", "overlay", "close", "finalize">>, {}, D2)
  BY <1>1, <1>2, OrderedConcat
<1>4. D2 = all
  BY DEF D1, D2
<1>. QED BY <1>3, <1>4 DEF OverlayMain

LEMMA GridMainOrdered ==
  ASSUME NEW all,
         all = {"barrier", "partition", "parse 1", "fixed universe",
                "uniform grid", "populate 1", "strategy", "exchange",
                "join nothing", "finalize"}
  PROVE  Ordered(all, GridMain, {}, all)
<1>. DEFINE D1 == {} \cup {"barrier", "partition", "parse 1", "barrier"}
            D2 == D1 \cup {"fixed universe", "uniform grid", "populate 1",
                           "strategy"}
            D3 == D2 \cup {"exchange", "join nothing", "barrier", "exchange",
                           "barrier"}
            D4 == D3 \cup {"finalize"}
<1>1. Ordered(all, GridInput, {}, D1)
  <2>1. /\ {"read all 2"} \cap {} = {}
        /\ {"partition large"} \cap all = {}
    BY DEF JoinSteps, GridSteps, ReadSteps
  <2>. QED BY <2>1, OrderedGridInput
<1>2. Ordered(all, GridGridding, D1, D2)
  <2>1. /\ {"parse 1"} \subseteq D1
        /\ "union" \in all => "union" \in D1
        /\ {"adaptive grid"} \cap all = {}
    BY DEF JoinSteps, GridSteps, ReadSteps
  <2>. HIDE DEF D1
  <2>. QED BY <2>1, OrderedGridGridding
<1>3. Ordered(all, GridExchange, D2, D3)
  <2>1. /\ {"populate 1", "strategy"} \subseteq D2
    BY DEF JoinSteps, GridSteps, ReadSteps
  <2>. HIDE DEF D2
  <2>. QED BY <2>1, OrderedGridExchange
<1>4. Ordered(all, <<"finalize">>, D3, D4)
  <2>1. /\ Ready(all, "finalize", D3)
    BY DEF Ready, JoinSteps, GridSteps, ReadSteps, ExchangeSteps
  <2>. HIDE DEF D3
  <2>. QED BY <2>1, Ordered1
<1>. HIDE DEF D1, D2, D3, D4
<1>5. Ordered(all, GridInput \o GridGridding, {}, D2)
  BY <1>1, <1>2, OrderedConcat
<1>6. Ordered(all, GridInput \o GridGridding \o GridExchange, {}, D3)
  BY <1>5, <1>3, OrderedConcat
<1>7. Ordered(all, GridInput \o GridGridding \o GridExchange \o <<"finalize">>, {}, D4)
  BY <1>6, <1>4, OrderedConcat
<1>8. D4 = all
  BY DEF D1, D2, D3, D4
<1>. QED BY <1>7, <1>8 DEF GridMain

LEMMA ReadMainOrdered ==
  ASSUME NEW all,
         all = {"partition", "finalize"}
  PROVE  Ordered(all, ReadMain, {}, all)
<1>. DEFINE D1 == {} \cup {"partition", "finalize"}
<1>1. Ordered(all, <<"partition", "finalize">>, {}, D1)
  <2>1. /\ Ready(all, "partition", {})
        /\ Ready(all, "finalize", {} \cup {"partition"})
    BY DEF Ready, JoinSteps, GridSteps, ReadSteps, ExchangeSteps
  <2>. QED BY <2>1, Ordered2
<1>. HIDE DEF D1
<1>2. D1 = all
  BY DEF D1
<1>. QED BY <1>1, <1>2 DEF ReadMain

LEMMA ParseMainOrdered ==
  ASSUME NEW all,
         all = {"partition", "parse 1"}
  PROVE  Ordered(all, ParseMain, {}, all)
<1>. DEFINE D1 == {} \cup {"partition", "parse 1"}
<1>1. Ordered(all, <<"partition", "parse 1">>, {}, D1)
  <2>1. /\ Ready(all, "partition", {})
        /\ Ready(all, "parse 1", {} \cup {"partition"})
    BY DEF Ready, JoinSteps, GridSteps, ReadSteps, ExchangeSteps
  <2>. QED BY <2>1, Ordered2
<1>. HIDE DEF D1
<1>2. D1 = all
  BY DEF D1
<1>. QED BY <1>1, <1>2 DEF ParseMain

LEMMA AllObjMainOrdered ==
  ASSUME NEW all,
         all = {"barrier", "partition large", "reduce count", "parse 1",
                "parse 2", "mbr", "union", "uniform grid", "populate 1",
                "populate 2", "strategy", "exchange", "finalize"}
  PROVE  Ordered(all, AllObjMain, {}, all)
<1>. DEFINE D1 == {} \cup {"barrier", "partition large", "reduce count",
                           "parse 1", "parse 2"}
            D2 == D1 \cup {"barrier", "mbr", "union", "uniform grid",
                           "populate 1", "populate 2", "strategy"}
            D3 == D2 \cup {"exchange", "finalize"}
<1>1. Ordered(all, AllObjInput, {}, D1)
  <2>1. /\ "read all 2" \in all => "read all 2" \in {}
        /\ {"read all 2"} \cap {} = {}
        /\ {"partition", "read all 2"} \cap all = {}
    BY DEF JoinSteps, GridSteps, ReadSteps
  <2>. QED BY <2>1, OrderedAllObjInput
<1>2. Ordered(all, AllObjGridding, D1, D2)
  <2>1. /\ {"parse 1", "parse 2"} \subseteq D1
        /\ {"union"} \cap D1 = {}
        /\ {"union"} \subseteq all
        /\ {"adaptive grid", "partition queries"} \cap all = {}
    BY DEF JoinSteps, GridSteps, ReadSteps
  <2>. HIDE DEF D1
  <2>. QED BY <2>1, OrderedAllObjGridding
<1>3. Ordered(all, <<"exchange", "finalize">>, D2, D3)
  <2>1. /\ Ready(all, "exchange", D2)
        /\ Ready(all, "finalize", D2 \cup {"exchange"})
    BY DEF Ready, JoinSteps, GridSteps, ReadSteps, ExchangeSteps
  <2>. HIDE DEF D2
  <2>. QED BY <2>1, Ordered2
<1>. HIDE DEF D1, D2, D3
<1>4. Ordered(all, AllObjInput \o AllObjGridding, {}, D2)
  BY <1>1, <1>2, OrderedConcat
<1>5. Ordered(all, AllObjInput \o AllObjGridding \o <<"exchange", "finalize">>, {}, D3)
  BY <1>4, <1>3, OrderedConcat
<1>6. D3 = all
  BY DEF D1, D2, D3
<1>. QED BY <1>5, <1>6 DEF AllObjMain

LEMMA AllObjMain10Ordered ==
  ASSUME NEW all,
         all = {"partition large", "reduce count", "parse 1", "parse 2",
                "allreduce count"}
  PROVE  Ordered(all, AllObjMain10, {}, all)
<1>. DEFINE D1 == {} \cup {"partition large", "reduce count", "parse 1",
                           "parse 2"}
            D2 == D1 \cup {"allreduce count"}
<1>1. Ordered(all, CountLayers, {}, D1)
  <2>1. /\ "read all 2" \in all => "read all 2" \in {}
        /\ {"read all 2"} \cap {} = {}
        /\ {"partition", "read all 2"} \cap all = {}
    BY DEF JoinSteps, GridSteps, ReadSteps
  <2>. QED BY <2>1, OrderedCountLayers
<1>2. Ordered(all, <<"allreduce count">>, D1, D2)
  <2>1. /\ Ready(all, "allreduce count", D1)
    BY DEF Ready, JoinSteps, GridSteps, ReadSteps, ExchangeSteps
  <2>. HIDE DEF D1
  <2>. QED BY <2>1, Ordered1
<1>. HIDE DEF D1, D2
<1>3. Ordered(all, CountLayers \o <<"allreduce count">>, {}, D2)
  BY <1>1, <1>2, OrderedConcat
<1>4. D2 = all
  BY DEF D1, D2
<1>. QED BY <1>3, <1>4 DEF AllObjMain10

LEMMA MPERealMainOrdered ==
  ASSUME NEW all,
         all = {"barrier", "partition large", "reduce count", "parse 1",
                "parse 2", "mbr", "union", "uniform grid", "populate 1",
                "populate 2", "strategy", "exchange pair", "join pairs",
                "verify", "reduce time", "finalize"}
  PROVE  Ordered(all, MPERealMain, {}, all)
<1>. DEFINE D1 == {} \cup {"barrier", "partition large", "reduce count",
                           "parse 1", "parse 2"}
            D2 == D1 \cup {"mbr", "union", "uniform grid", "populate 1",
                           "populate 2", "strategy"}
            D3 == D2 \cup {"barrier", "exchange pair", "barrier",
                           "join pairs", "verify"}
            D4 == D3 \cup {"reduce time"}
            D5 == D4 \cup {"finalize"}
<1>1. Ordered(all, MPERealInput, {}, D1)
  <2>1. /\ "read all 2" \in all => "read all 2" \in {}
        /\ {"read all 2"} \cap {} = {}
        /\ {"partition", "read all 2"} \cap all = {}
    BY DEF JoinSteps, GridSteps, ReadSteps
  <2>. QED BY <2>1, OrderedMPERealInput
<1>2. Ordered(all, MPERealGridding, D1, D2)
  <2>1. /\ {"parse 1", "parse 2"} \subseteq D1
        /\ {"union"} \cap D1 = {}
        /\ {"union"} \subseteq all
        /\ {"adaptive grid", "partition queries"} \cap all = {}
    BY DEF JoinSteps, GridSteps, ReadSteps
  <2>. HIDE DEF D1
  <2>. QED BY <2>1, OrderedMPERealGridding
<1>3. Ordered(all, MPERealJoin, D2, D3)
  <2>1. /\ {"populate 1", "strategy", "populate 2"} \subseteq D2
        /\ JoinSteps \cap all = {"join pairs"}
        /\ {"join pairs", "finalize"} \cap D2 = {}
        /\ {"finalize"} \subseteq all
    BY DEF JoinSteps, GridSteps, ReadSteps
  <2>. HIDE DEF D2
  <2>. QED BY <2>1, OrderedMPERealJoin
<1>4. Ordered(all, Times(5), D3, D4)
  <2>. HIDE DEF D3
  <2>. QED BY OrderedTimes
<1>5. Ordered(all, <<"finalize">>, D4, D5)
  <2>1. /\ Ready(all, "finalize", D4)
    BY DEF Ready, JoinSteps, GridSteps, ReadSteps, ExchangeSteps
  <2>. HIDE DEF D4
  <2>. QED BY <2>1, Ordered1
<1>. HIDE DEF D1, D2, D3, D4, D5
<1>6. Ordered(all, MPERealInput \o MPERealGridding, {}, D2)
  BY <1>1, <1>2, OrderedConcat
<1>7. Ordered(all, MPERealInput \o MPERealGridding \o MPERealJoin, {}, D3)
  BY <1>6, <1>3, OrderedConcat
<1>8. Ordered(all, MPERealInput \o MPERealGridding \o MPERealJoin \o Times(5), {}, D4)
  BY <1>7, <1>4, OrderedConcat
<1>9. Ordered(all, MPERealInput \o MPERealGridding \o MPERealJoin \o Times(5) \o <<"finalize">>, {}, D5)
  BY <1>8, <1>5, OrderedConcat
<1>10. D5 = all
  BY DEF D1, D2, D3, D4, D5
<1>. QED BY <1>9, <1>10 DEF MPERealMain

LEMMA CudaMainOrdered ==
  ASSUME NEW all,
         all = {"partition", "parse 1", "parse 2", "mbr", "union",
                "uniform grid", "populate 1", "populate 2", "strategy",
                "exchange pair", "join on GPU", "finalize"}
  PROVE  Ordered(all, CudaMain, {}, all)
<1>. DEFINE D1 == {} \cup {"partition", "parse 1", "parse 2"}
            D2 == D1 \cup {"mbr", "union", "uniform grid", "populate 1"}
            D3 == D2 \cup {"populate 2", "strategy", "exchange pair",
                           "join on GPU", "finalize"}
<1>1. Ordered(all, ReadLayers, {}, D1)
  <2>1. /\ "read all 2" \in all => "read all 2" \in {}
        /\ {"read all 2"} \cap {} = {}
        /\ {"partition large"} \cap all = {}
    BY DEF JoinSteps, GridSteps, ReadSteps
  <2>. QED BY <2>1, OrderedReadLayers
<1>2. Ordered(all, GridOfUnion, D1, D2)
  <2>1. /\ {"parse 1"} \subseteq D1
        /\ {"union"} \cap D1 = {}
        /\ {"union"} \subseteq all
        /\ {"adaptive grid"} \cap all = {}
    BY DEF JoinSteps, GridSteps, ReadSteps
  <2>. HIDE DEF D1
  <2>. QED BY <2>1, OrderedGridOfUnion
<1>3. Ordered(all, <<"populate 2", "strategy", "exchange pair", "join on GPU", "finalize">>, D2, D3)
  <2>1. /\ Ready(all, "populate 2", D2)
        /\ Ready(all, "strategy", D2 \cup {"populate 2"})
        /\ Ready(all, "exchange pair", D2 \cup {"populate 2", "strategy"})
        /\ Ready(all, "join on GPU", D2 \cup {"populate 2", "strategy", "exchange pair"})
        /\ Ready(all, "finalize", D2 \cup {"populate 2", "strategy", "exchange pair", "join on GPU"})
    BY DEF Ready, JoinSteps, GridSteps, ReadSteps, ExchangeSteps
  <2>. HIDE DEF D2
  <2>. QED BY <2>1, Ordered5
<1>. HIDE DEF D1, D2, D3
<1>4. Ordered(all, ReadLayers \o GridOfUnion, {}, D2)
  BY <1>1, <1>2, OrderedConcat
<1>5. Ordered(all, ReadLayers \o GridOfUnion \o <<"populate 2", "strategy", "exchange pair", "join on GPU", "finalize">>, {}, D3)
  BY <1>4, <1>3, OrderedConcat
<1>6. D3 = all
  BY DEF D1, D2, D3
<1>. QED BY <1>5, <1>6 DEF CudaMain

LEMMA BenchMainOrdered ==
  ASSUME NEW all,
         all = {"partition", "parse 1", "mbr", "union", "uniform grid",
                "populate 1", "strategy", "exchange roads", "reduce time",
                "finalize"}
  PROVE  Ordered(all, BenchMain, {}, all)
<1>. DEFINE D1 == {} \cup {"partition", "parse 1", "mbr", "union",
                           "uniform grid", "populate 1", "strategy"}
            D2 == D1 \cup {"exchange roads"}
            D3 == D2 \cup {"reduce time"}
            D4 == D3 \cup {"finalize"}
<1>1. Ordered(all, BenchInput, {}, D1)
  <2>1. /\ {"read all 2", "union"} \cap {} = {}
        /\ {"union"} \subseteq all
        /\ {"partition large", "adaptive grid"} \cap all = {}
    BY DEF JoinSteps, GridSteps, ReadSteps
  <2>. QED BY <2>1, OrderedBenchInput
<1>2. Ordered(all, <<"exchange roads">>, D1, D2)
  <2>1. /\ Ready(all, "exchange roads", D1)
    BY DEF Ready, JoinSteps, GridSteps, ReadSteps, ExchangeSteps
  <2>. HIDE DEF D1
  <2>. QED BY <2>1, Ordered1
<1>3. Ordered(all, Times(4), D2, D3)
  <2>. HIDE DEF D2
  <2>. QED BY OrderedTimes
<1>4. Ordered(all, <<"finalize">>, D3, D4)
  <2>1. /\ Ready(all, "finalize", D3)
    BY DEF Ready, JoinSteps, GridSteps, ReadSteps, ExchangeSteps
  <2>. HIDE DEF D3
  <2>. QED BY <2>1, Ordered1
<1>. HIDE DEF D1, D2, D3, D4
<1>5. Ordered(all, BenchInput \o <<"exchange roads">>, {}, D2)
  BY <1>1, <1>2, OrderedConcat
<1>6. Ordered(all, BenchInput \o <<"exchange roads">> \o Times(4), {}, D3)
  BY <1>5, <1>3, OrderedConcat
<1>7. Ordered(all, BenchInput \o <<"exchange roads">> \o Times(4) \o <<"finalize">>, {}, D4)
  BY <1>6, <1>4, OrderedConcat
<1>8. D4 = all
  BY DEF D1, D2, D3, D4
<1>. QED BY <1>7, <1>8 DEF BenchMain

LEMMA BenchMain10Ordered ==
  ASSUME NEW all,
         all = {"partition", "parse 1", "mbr", "union", "uniform grid",
                "populate 1", "strategy", "exchange", "reduce time",
                "finalize"}
  PROVE  Ordered(all, BenchMain10, {}, all)
<1>. DEFINE D1 == {} \cup {"partition", "parse 1", "mbr", "union",
                           "uniform grid", "populate 1", "strategy"}
            D2 == D1 \cup {"exchange"}
            D3 == D2 \cup {"reduce time"}
            D4 == D3 \cup {"finalize"}
<1>1. Ordered(all, BenchInput, {}, D1)
  <2>1. /\ {"read all 2", "union"} \cap {} = {}
        /\ {"union"} \subseteq all
        /\ {"partition large", "adaptive grid"} \cap all = {}
    BY DEF JoinSteps, GridSteps, ReadSteps
  <2>. QED BY <2>1, OrderedBenchInput
<1>2. Ordered(all, <<"exchange">>, D1, D2)
  <2>1. /\ Ready(all, "exchange", D1)
    BY DEF Ready, JoinSteps, GridSteps, ReadSteps, ExchangeSteps
  <2>. HIDE DEF D1
  <2>. QED BY <2>1, Ordered1
<1>3. Ordered(all, Times(4), D2, D3)
  <2>. HIDE DEF D2
  <2>. QED BY OrderedTimes
<1>4. Ordered(all, <<"finalize">>, D3, D4)
  <2>1. /\ Ready(all, "finalize", D3)
    BY DEF Ready, JoinSteps, GridSteps, ReadSteps, ExchangeSteps
  <2>. HIDE DEF D3
  <2>. QED BY <2>1, Ordered1
<1>. HIDE DEF D1, D2, D3, D4
<1>5. Ordered(all, BenchInput \o <<"exchange">>, {}, D2)
  BY <1>1, <1>2, OrderedConcat
<1>6. Ordered(all, BenchInput \o <<"exchange">> \o Times(4), {}, D3)
  BY <1>5, <1>3, OrderedConcat
<1>7. Ordered(all, BenchInput \o <<"exchange">> \o Times(4) \o <<"finalize">>, {}, D4)
  BY <1>6, <1>4, OrderedConcat
<1>8. D4 = all
  BY DEF D1, D2, D3, D4
<1>. QED BY <1>7, <1>8 DEF BenchMain10

LEMMA MBRJoinMainOrdered ==
  ASSUME NEW all,
         all = {"partition", "parse 1", "fixed universe", "uniform grid",
                "populate 1", "strategy", "exchange roads", "finalize"}
  PROVE  Ordered(all, MBRJoinMain, {}, all)
<1>. DEFINE D1 == {} \cup {"partition", "parse 1", "fixed universe",
                           "uniform grid"}
            D2 == D1 \cup {"populate 1", "strategy", "exchange roads",
                           "finalize"}
<1>1. Ordered(all, <<"partition", "parse 1", "fixed universe", "uniform grid">>, {}, D1)
  <2>1. /\ Ready(all, "partition", {})
        /\ Ready(all, "parse 1", {} \cup {"partition"})
        /\ Ready(all, "fixed universe", {} \cup {"partition", "parse 1"})
        /\ Ready(all, "uniform grid", {} \cup {"partition", "parse 1", "fixed universe"})
    BY DEF Ready, JoinSteps, GridSteps, ReadSteps, ExchangeSteps
  <2>. QED BY <2>1, Ordered4
<1>2. Ordered(all, <<"populate 1", "strategy", "exchange roads", "finalize">>, D1, D2)
  <2>1. /\ Ready(all, "populate 1", D1)
        /\ Ready(all, "strategy", D1 \cup {"populate 1"})
        /\ Ready(all, "exchange roads", D1 \cup {"populate 1", "strategy"})
        /\ Ready(all, "finalize", D1 \cup {"populate 1", "strategy", "exchange roads"})
    BY DEF Ready, JoinSteps, GridSteps, ReadSteps, ExchangeSteps
  <2>. HIDE DEF D1
  <2>. QED BY <2>1, Ordered4
<1>. HIDE DEF D1, D2
<1>3. Ordered(all, <<"partition", "parse 1", "fixed universe", "uniform grid">> \o <<"populate 1", "strategy", "exchange roads", "finalize">>, {}, D2)
  BY <1>1, <1>2, OrderedConcat
<1>4. D2 = all
  BY DEF D1, D2
<1>. QED BY <1>3, <1>4 DEF MBRJoinMain

LEMMA SingleMainOrdered ==
  ASSUME NEW all,
         all = {"partition large", "parse 1", "parse 2", "barrier",
                "fixed universe", "uniform grid", "populate 1", "populate 2",
                "strategy", "join own cells", "verify", "reduce time",
                "finalize"}
  PROVE  Ordered(all, SingleMain, {}, all)
<1>. DEFINE D1 == {} \cup {"partition large", "parse 1", "parse 2", "barrier"}
            D2 == D1 \cup {"fixed universe", "uniform grid", "populate 1",
                           "populate 2", "strategy"}
            D3 == D2 \cup {"join own cells", "verify"}
            D4 == D3 \cup {"reduce time"}
            D5 == D4 \cup {"finalize"}
<1>1. Ordered(all, SingleInput, {}, D1)
  <2>1. /\ "read all 2" \in all => "read all 2" \in {}
        /\ {"read all 2"} \cap {} = {}
        /\ {"partition", "read all 2"} \cap all = {}
    BY DEF JoinSteps, GridSteps, ReadSteps
  <2>. QED BY <2>1, OrderedSingleInput
<1>2. Ordered(all, SingleGridding, D1, D2)
  <2>1. /\ {"parse 1", "parse 2"} \subseteq D1
        /\ "union" \in all => "union" \in D1
        /\ {"adaptive grid", "partition queries"} \cap all = {}
    BY DEF JoinSteps, GridSteps, ReadSteps
  <2>. HIDE DEF D1
  <2>. QED BY <2>1, OrderedSingleGridding
<1>3. Ordered(all, <<"join own cells", "verify">>, D2, D3)
  <2>1. /\ Ready(all, "join own cells", D2)
        /\ Ready(all, "verify", D2 \cup {"join own cells"})
    BY DEF Ready, JoinSteps, GridSteps, ReadSteps, ExchangeSteps
  <2>. HIDE DEF D2
  <2>. QED BY <2>1, Ordered2
<1>4. Ordered(all, Times(5), D3, D4)
  <2>. HIDE DEF D3
  <2>. QED BY OrderedTimes
<1>5. Ordered(all, <<"finalize">>, D4, D5)
  <2>1. /\ Ready(all, "finalize", D4)
    BY DEF Ready, JoinSteps, GridSteps, ReadSteps, ExchangeSteps
  <2>. HIDE DEF D4
  <2>. QED BY <2>1, Ordered1
<1>. HIDE DEF D1, D2, D3, D4, D5
<1>6. Ordered(all, SingleInput \o SingleGridding, {}, D2)
  BY <1>1, <1>2, OrderedConcat
<1>7. Ordered(all, SingleInput \o SingleGridding \o <<"join own cells", "verify">>, {}, D3)
  BY <1>6, <1>3, OrderedConcat
<1>8. Ordered(all, SingleInput \o SingleGridding \o <<"join own cells", "verify">> \o Times(5), {}, D4)
  BY <1>7, <1>4, OrderedConcat
<1>9. Ordered(all, SingleInput \o SingleGridding \o <<"join own cells", "verify">> \o Times(5) \o <<"finalize">>, {}, D5)
  BY <1>8, <1>5, OrderedConcat
<1>10. D5 = all
  BY DEF D1, D2, D3, D4, D5
<1>. QED BY <1>9, <1>10 DEF SingleMain

LEMMA StaticMainOrdered ==
  ASSUME NEW all,
         all = {"join own files", "reduce total", "finalize"}
  PROVE  Ordered(all, StaticMain, {}, all)
<1>. DEFINE D1 == {} \cup {"join own files", "reduce total", "finalize"}
<1>1. Ordered(all, <<"join own files", "reduce total", "finalize">>, {}, D1)
  <2>1. /\ Ready(all, "join own files", {})
        /\ Ready(all, "reduce total", {} \cup {"join own files"})
        /\ Ready(all, "finalize", {} \cup {"join own files", "reduce total"})
    BY DEF Ready, JoinSteps, GridSteps, ReadSteps, ExchangeSteps
  <2>. QED BY <2>1, Ordered3
<1>. HIDE DEF D1
<1>2. D1 = all
  BY DEF D1
<1>. QED BY <1>1, <1>2 DEF StaticMain

(* What the steps of program p tell about it.                              *)
Facts(p, all) ==
  /\ all # {} /\ \A s, t \in JoinSteps \cap all : s = t
  /\ "mbr" \in all => "union" \in all
  /\ "union" \in all => "adaptive grid" \notin all
  /\ "fixed universe" \in all => {"mbr", "union"} \cap all = {}
  /\ "adaptive grid" \in all <=> p = "adaptive"
  /\ "join queries" \in all <=> p = "adaptive"
  /\ "join own files" \in all <=> p = "static"
  /\ "reduce total" \in all <=> p = "static"
  /\ "verify" \in all => p # "static"
  /\ "join" \in all <=> p \in BroadcastJoins
  /\ "overlay" \in all <=> p = "overlay"
  /\ "join on GPU" \in all <=> p = "cuda"
  /\ {"join pairs", "join own cells"} \cap all # {} => {"partition", "read all 2"} \cap all = {}
  /\ "query" \in all => {"partition", "read all 2"} \subseteq all /\ "read queries" \notin all
  /\ {"join", "overlay"} \cap all # {} => "query" \in all
  /\ p \in {"adaptive", "cuda"} => "partition" \in all /\ "read all 2" \notin all
  /\ p = "adaptive" => {"read queries", "partition queries"} \subseteq all
  /\ p = "cuda" => "union" \in all /\ "partition queries" \notin all

(* Every program takes its steps in order.                                 *)
LEMMA ProgramOrdered ==
  ASSUME NEW p \in Programs
  PROVE  \E all : Ordered(all, StepsOf[p], {}, all) /\ Facts(p, all)
<1>1. p \in DOMAIN StepsOf
  BY KnownPrograms
<1>2. ASSUME NEW all, Ordered(all, BroadcastMain, {}, all)
      PROVE  "join" \in all
  <2>. DEFINE b == {"partition", "parse 1", "index", "read all 2", "parse 2", "query", "join",
                    "close", "finalize"}
  <2>1. Ordered(b, BroadcastMain, {}, b)
    BY BroadcastMainOrdered
  <2>2. "join" \in b
    OBVIOUS
  <2>. HIDE DEF b
  <2>. QED BY <1>2, <2>1, <2>2 DEF Ordered
<1>4. CASE p = "adaptive"
  <2>. DEFINE all == {"read queries", "barrier", "partition", "parse 1",
                      "parse 2", "adaptive grid", "populate 1",
                      "partition queries", "strategy", "exchange",
                      "join queries", "reduce time", "finalize"}
  <2>1. StepsOf[p] = AdaptiveMain
    BY <1>4 DEF StepsOf
  <2>2. Ordered(all, AdaptiveMain, {}, all)
    BY AdaptiveMainOrdered
  <2>3. p \notin BroadcastJoins
    <3>1. "join" \notin all
      OBVIOUS
    <3>. HIDE DEF all
    <3>. QED BY <1>2, <2>1, <2>2, <3>1 DEF BroadcastJoins
  <2>4. Facts(p, all)
    BY <1>4, <2>3 DEF Facts, JoinSteps
  <2>. HIDE DEF all
  <2>. QED BY <2>1, <2>2, <2>4
<1>5. CASE p = "static"
  <2>. DEFINE all == {"join own files", "reduce total", "finalize"}
  <2>1. StepsOf[p] = StaticMain
    BY <1>5 DEF StepsOf
  <2>2. Ordered(all, StaticMain, {}, all)
    BY StaticMainOrdered
  <2>3. p \notin BroadcastJoins
    <3>1. "join" \notin all
      OBVIOUS
    <3>. HIDE DEF all
    <3>. QED BY <1>2, <2>1, <2>2, <3>1 DEF BroadcastJoins
  <2>4. Facts(p, all)
    BY <1>5, <2>3 DEF Facts, JoinSteps
  <2>. HIDE DEF all
  <2>. QED BY <2>1, <2>2, <2>4
<1>6. CASE p \in {"driver", "sequential", "allobj1", "mpe1", "bench1",
                  "mbrJoin1", "single1"}
  <2>. DEFINE all == {"partition", "parse 1", "index", "read all 2",
                      "parse 2", "query", "join", "close", "finalize"}
  <2>1. StepsOf[p] = BroadcastMain
    BY <1>6 DEF StepsOf, SequentialMain, AllObjMain1, MPEMain1, BenchMain1, MBRJoinMain1, SingleMain1
  <2>2. Ordered(all, BroadcastMain, {}, all)
    BY BroadcastMainOrdered
  <2>3. p \in BroadcastJoins
    BY <1>1, <2>1 DEF BroadcastJoins
  <2>4. Facts(p, all)
    BY <1>6, <2>3 DEF Facts, JoinSteps
  <2>. HIDE DEF all
  <2>. QED BY <2>1, <2>2, <2>4
<1>7. CASE p = "grid"
  <2>. DEFINE all == {"barrier", "partition", "parse 1", "fixed universe",
                      "uniform grid", "populate 1", "strategy", "exchange",
                      "join nothing", "finalize"}
  <2>1. StepsOf[p] = GridMain
    BY <1>7 DEF StepsOf
  <2>2. Ordered(all, GridMain, {}, all)
    BY GridMainOrdered
  <2>3. p \notin BroadcastJoins
    <3>1. "join" \notin all
      OBVIOUS
    <3>. HIDE DEF all
    <3>. QED BY <1>2, <2>1, <2>2, <3>1 DEF BroadcastJoins
  <2>4. Facts(p, all)
    BY <1>7, <2>3 DEF Facts, JoinSteps
  <2>. HIDE DEF all
  <2>. QED BY <2>1, <2>2, <2>4
<1>8. CASE p \in {"large", "mpeLarge"}
  <2>. DEFINE all == {"barrier", "partition large", "reduce count",
                      "parse 1", "parse 2"}
  <2>1. StepsOf[p] = LargeMain
    BY <1>8 DEF StepsOf, MPELargeMain
  <2>2. Ordered(all, LargeMain, {}, all)
    <3>1. /\ "read all 2" \in all => "read all 2" \in {}
          /\ {"read all 2"} \cap {} = {} /\ {"partition", "read all 2"} \cap all = {}
      OBVIOUS
    <3>2. all = {} \cup all
      OBVIOUS
    <3>. QED BY ZenonT(30), <3>1, <3>2, OrderedLargeMain
  <2>3. p \notin BroadcastJoins
    <3>1. "join" \notin all
      OBVIOUS
    <3>. HIDE DEF all
    <3>. QED BY <1>2, <2>1, <2>2, <3>1 DEF BroadcastJoins
  <2>4. Facts(p, all)
    BY <1>8, <2>3 DEF Facts, JoinSteps
  <2>. HIDE DEF all
  <2>. QED BY <2>1, <2>2, <2>4
<1>9. CASE p \in {"read", "allobj0", "mpeRead"}
  <2>. DEFINE all == {"partition", "finalize"}
  <2>1. StepsOf[p] = ReadMain
    BY <1>9 DEF StepsOf, AllObjMain0, MPEReadMain
  <2>2. Ordered(all, ReadMain, {}, all)
    BY ReadMainOrdered
  <2>3. p \notin BroadcastJoins
    <3>1. "join" \notin all
      OBVIOUS
    <3>. HIDE DEF all
    <3>. QED BY <1>2, <2>1, <2>2, <3>1 DEF BroadcastJoins
  <2>4. Facts(p, all)
    BY <1>9, <2>3 DEF Facts, JoinSteps
  <2>. HIDE DEF all
  <2>. QED BY <2>1, <2>2, <2>4
<1>10. CASE p \in {"count", "mpe"}
  <2>. DEFINE all == {"partition", "parse 1"}
  <2>1. StepsOf[p] = ParseMain
    BY <1>10 DEF StepsOf, MPEMain
  <2>2. Ordered(all, ParseMain, {}, all)
    BY ParseMainOrdered
  <2>3. p \notin BroadcastJoins
    <3>1. "join" \notin all
      OBVIOUS
    <3>. HIDE DEF all
    <3>. QED BY <1>2, <2>1, <2>2, <3>1 DEF BroadcastJoins
  <2>4. Facts(p, all)
    BY <1>10, <2>3 DEF Facts, JoinSteps
  <2>. HIDE DEF all
  <2>. QED BY <2>1, <2>2, <2>4
<1>11. CASE p = "overlay"
  <2>. DEFINE all == {"partition", "parse 1", "index", "read all 2",
                      "parse 2", "query", "overlay", "close", "finalize"}
  <2>1. StepsOf[p] = OverlayMain
    BY <1>11 DEF StepsOf
  <2>2. Ordered(all, OverlayMain, {}, all)
    BY OverlayMainOrdered
  <2>3. p \notin BroadcastJoins
    <3>1. "join" \notin all
      OBVIOUS
    <3>. HIDE DEF all
    <3>. QED BY <1>2, <2>1, <2>2, <3>1 DEF BroadcastJoins
  <2>4. Facts(p, all)
    BY <1>11, <2>3 DEF Facts, JoinSteps
  <2>. HIDE DEF all
  <2>. QED BY <2>1, <2>2, <2>4
<1>12. CASE p = "allobj"
  <2>. DEFINE all == {"barrier", "partition large", "reduce count",
                      "parse 1", "parse 2", "mbr", "union", "uniform grid",
                      "populate 1", "populate 2", "strategy", "exchange",
                      "finalize"}
  <2>1. StepsOf[p] = AllObjMain
    BY <1>12 DEF StepsOf
  <2>2. Ordered(all, AllObjMain, {}, all)
    BY AllObjMainOrdered
  <2>3. p \notin BroadcastJoins
    <3>1. "join" \notin all
      OBVIOUS
    <3>. HIDE DEF all
    <3>. QED BY <1>2, <2>1, <2>2, <3>1 DEF BroadcastJoins
  <2>4. Facts(p, all)
    BY <1>12, <2>3 DEF Facts, JoinSteps
  <2>. HIDE DEF all
  <2>. QED BY <2>1, <2>2, <2>4
<1>13. CASE p \in {"allobj10", "mbrJoin10"}
  <2>. DEFINE all == {"partition large", "reduce count", "parse 1",
                      "parse 2", "allreduce count"}
  <2>1. StepsOf[p] = AllObjMain10
    BY <1>13 DEF StepsOf, MBRJoinMain10
  <2>2. Ordered(all, AllObjMain10, {}, all)
    BY AllObjMain10Ordered
  <2>3. p \notin BroadcastJoins
    <3>1. "join" \notin all
      OBVIOUS
    <3>. HIDE DEF all
    <3>. QED BY <1>2, <2>1, <2>2, <3>1 DEF BroadcastJoins
  <2>4. Facts(p, all)
    BY <1>13, <2>3 DEF Facts, JoinSteps
  <2>. HIDE DEF all
  <2>. QED BY <2>1, <2>2, <2>4
<1>14. CASE p = "mpeReal"
  <2>. DEFINE all == {"barrier", "partition large", "reduce count",
                      "parse 1", "parse 2", "mbr", "union", "uniform grid",
                      "populate 1", "populate 2", "strategy",
                      "exchange pair", "join pairs", "verify", "reduce time",
                      "finalize"}
  <2>1. StepsOf[p] = MPERealMain
    BY <1>14 DEF StepsOf
  <2>2. Ordered(all, MPERealMain, {}, all)
    BY MPERealMainOrdered
  <2>3. p \notin BroadcastJoins
    <3>1. "join" \notin all
      OBVIOUS
    <3>. HIDE DEF all
    <3>. QED BY <1>2, <2>1, <2>2, <3>1 DEF BroadcastJoins
  <2>4. Facts(p, all)
    BY <1>14, <2>3 DEF Facts, JoinSteps
  <2>. HIDE DEF all
  <2>. QED BY <2>1, <2>2, <2>4
<1>15. CASE p = "cuda"
  <2>. DEFINE all == {"partition", "parse 1", "parse 2", "mbr", "union",
                      "uniform grid", "populate 1", "populate 2", "strategy",
                      "exchange pair", "join on GPU", "finalize"}
  <2>1. StepsOf[p] = CudaMain
    BY <1>15 DEF StepsOf
  <2>2. Ordered(all, CudaMain, {}, all)
    BY CudaMainOrdered
  <2>3. p \notin BroadcastJoins
    <3>1. "join" \notin all
      OBVIOUS
    <3>. HIDE DEF all
    <3>. QED BY <1>2, <2>1, <2>2, <3>1 DEF BroadcastJoins
  <2>4. Facts(p, all)
    BY <1>15, <2>3 DEF Facts, JoinSteps
  <2>. HIDE DEF all
  <2>. QED BY <2>1, <2>2, <2>4
<1>16. CASE p = "bench"
  <2>. DEFINE all == {"partition", "parse 1", "mbr", "union", "uniform grid",
                      "populate 1", "strategy", "exchange roads",
                      "reduce time", "finalize"}
  <2>1. StepsOf[p] = BenchMain
    BY <1>16 DEF StepsOf
  <2>2. Ordered(all, BenchMain, {}, all)
    BY BenchMainOrdered
  <2>3. p \notin BroadcastJoins
    <3>1. "join" \notin all
      OBVIOUS
    <3>. HIDE DEF all
    <3>. QED BY <1>2, <2>1, <2>2, <3>1 DEF BroadcastJoins
  <2>4. Facts(p, all)
    BY <1>16, <2>3 DEF Facts, JoinSteps
  <2>. HIDE DEF all
  <2>. QED BY <2>1, <2>2, <2>4
<1>17. CASE p = "bench10"
  <2>. DEFINE all == {"partition", "parse 1", "mbr", "union", "uniform grid",
                      "populate 1", "strategy", "exchange", "reduce time",
                      "finalize"}
  <2>1. StepsOf[p] = BenchMain10
    BY <1>17 DEF StepsOf
  <2>2. Ordered(all, BenchMain10, {}, all)
    BY BenchMain10Ordered
  <2>3. p \notin BroadcastJoins
    <3>1. "join" \notin all
      OBVIOUS
    <3>. HIDE DEF all
    <3>. QED BY <1>2, <2>1, <2>2, <3>1 DEF BroadcastJoins
  <2>4. Facts(p, all)
    BY <1>17, <2>3 DEF Facts, JoinSteps
  <2>. HIDE DEF all
  <2>. QED BY <2>1, <2>2, <2>4
<1>18. CASE p = "mbrJoin"
  <2>. DEFINE all == {"partition", "parse 1", "fixed universe",
                      "uniform grid", "populate 1", "strategy",
                      "exchange roads", "finalize"}
  <2>1. StepsOf[p] = MBRJoinMain
    BY <1>18 DEF StepsOf
  <2>2. Ordered(all, MBRJoinMain, {}, all)
    BY MBRJoinMainOrdered
  <2>3. p \notin BroadcastJoins
    <3>1. "join" \notin all
      OBVIOUS
    <3>. HIDE DEF all
    <3>. QED BY <1>2, <2>1, <2>2, <3>1 DEF BroadcastJoins
  <2>4. Facts(p, all)
    BY <1>18, <2>3 DEF Facts, JoinSteps
  <2>. HIDE DEF all
  <2>. QED BY <2>1, <2>2, <2>4
<1>19. CASE p = "single"
  <2>. DEFINE all == {"partition large", "parse 1", "parse 2", "barrier",
                      "fixed universe", "uniform grid", "populate 1",
                      "populate 2", "strategy", "join own cells", "verify",
                      "reduce time", "finalize"}
  <2>1. StepsOf[p] = SingleMain
    BY <1>19 DEF StepsOf
  <2>2. Ordered(all, SingleMain, {}, all)
    BY SingleMainOrdered
  <2>3. p \notin BroadcastJoins
    <3>1. "join" \notin all
      OBVIOUS
    <3>. HIDE DEF all
    <3>. QED BY <1>2, <2>1, <2>2, <3>1 DEF BroadcastJoins
  <2>4. Facts(p, all)
    BY <1>19, <2>3 DEF Facts, JoinSteps
  <2>. HIDE DEF all
  <2>. QED BY <2>1, <2>2, <2>4
<1>. QED BY <1>1, <1>4, <1>5, <1>6, <1>7, <1>8, <1>9, <1>10, <1>11, <1>12, <1>13, <1>14, <1>15, <1>16, <1>17, <1>18, <1>19 DEF StepsOf

-----------------------------------------------------------------------------
(* What the processes compute.  Each variable of a main function has one   *)
(* value before the step that sets it and one after, and the second can be *)
(* said from the input alone, for whatever order the processes run in.     *)
AllSteps == Before(Steps, Len(Steps))
Done(r)  == Before(Steps, pc[r] - 1)

PartOf(r) == IF "partition" \in AllSteps THEN LinesOf(1, r) \cup LinesOf(2, r) ELSE {}
First(r)  == Parsed(PartOf(r), 1)
Second(r) == Parsed(IF "read all 2" \in AllSteps THEN WholeFile(2) ELSE PartOf(r), 2)
Indexed(r) ==
  IF "read queries" \in AllSteps THEN Parsed(WholeFile(2), 2) ELSE First(r)
CommonBox ==
  IF "union" \in AllSteps THEN Hull({GetMBR(First(q)) : q \in Ranks}) ELSE Universe
CommonGrid ==
  IF "adaptive grid" \in AllSteps THEN AdaptiveCells ELSE UniformCells(CommonBox)
InGrid(r, l) ==
  IF l = 1 THEN First(r)
  ELSE IF "partition queries" \in AllSteps THEN Indexed(r) ELSE Second(r)
CellsAt(r, l) == InCells(InGrid(r, l), CommonGrid)
OwnedBy(p) == {c \in DOMAIN CommonGrid : c % numProcesses = p}
ParcelTo(r, p, l) == [c \in OwnedBy(p) |-> CellsAt(r, l)[c]]
Parcels(r, s)    == [p \in Ranks |-> [l \in ExchangedLayers(s) |-> ParcelTo(r, p, l)]]
AllParcels == [q \in Ranks |-> [p \in Ranks |-> [l \in Layers |-> ParcelTo(q, p, l)]]]
RecvAt(r, l) == GroupedByCell(r, AllParcels, l)
PairsAt(r) == Candidates(Indexed(r), Second(r))
FilesFound(r) ==
  UNION {InCell(c, Shapes(Candidates(Parsed(IndexedFile(1, c), 1), Parsed(IndexedFile(2, c), 2)))) :
           c \in OwnFiles(r)}

(* found is what step s of the join may leave at process r.                *)
IsFound(r, s, found) ==
  /\ s = "join queries"   => found = Reduced(RecvAt(r, 1), CellsAt(r, 2))
  /\ s = "join pairs"     => found = Reduced(RecvAt(r, 1), RecvAt(r, 2))
  /\ s = "join on GPU"    => found = Reduced(Polygons(RecvAt(r, 1)), Polygons(RecvAt(r, 2)))
  /\ s = "join own cells" => found = OwnReduced(CellsAt(r, 1), CellsAt(r, 2))
  /\ s = "join own files" => found = FilesFound(r)
  /\ s = "join"           => found = InCell(0, Shapes(PairsAt(r)))
  /\ s = "overlay"        =>
       \E kept \in SUBSET {p \in Shapes(PairsAt(r)) : ~Throws(p)} :
         found = InCell(0, Overlaid(Shapes(PairsAt(r)), kept))

ReadInv(r, D, m) ==
  /\ m.lines = IF "read all 2" \in D THEN WholeFile(2)
               ELSE IF ReadSteps \cap D # {} THEN PartOf(r) ELSE {}
  /\ m.geoms[1] = IF "parse 1" \in D THEN First(r) ELSE {}
  /\ m.geoms[2] = IF "parse 2" \in D THEN Second(r) ELSE {}
  /\ m.index = IF {"read queries", "index"} \cap D # {} THEN Indexed(r) ELSE {}
GridInv(r, D, m) ==
  /\ m.box = IF "union" \in D THEN CommonBox
             ELSE IF "mbr" \in D THEN GetMBR(First(r)) ELSE Universe
  /\ m.grid = IF GridSteps \cap D # {} THEN CommonGrid ELSE <<>>
  /\ m.cells[1] = IF "populate 1" \in D THEN CellsAt(r, 1) ELSE <<>>
  /\ m.cells[2] = IF {"populate 2", "partition queries"} \cap D # {} THEN CellsAt(r, 2) ELSE <<>>
  /\ m.owner = IF "strategy" \in D THEN Owners(CommonGrid) ELSE <<>>
RecvInv(r, D, m) ==
  /\ m.recv[1] = IF ExchangeSteps \cap D # {} THEN RecvAt(r, 1) ELSE <<>>
  /\ m.recv[2] = IF "exchange pair" \in D THEN RecvAt(r, 2) ELSE <<>>
  /\ "exchange" \in D => DOMAIN CommonGrid \subseteq CellIds
FoundInv(r, D, m) ==
  /\ m.candidates = IF "query" \in D THEN PairsAt(r) ELSE {}
  /\ JoinSteps \cap D = {} => m.found = {}
  /\ \A s \in JoinSteps \cap D : IsFound(r, s, m.found)
  /\ "reduce total" \in D /\ r = 0 =>
       m.total = SumFunction([q \in Ranks |-> Cardinality(FilesFound(q))])

(* What a process has put into a call.                                     *)
SentInv(r, e) ==
  /\ e.call = "union" => e.sends = GetMBR(First(r))
  /\ e.call \in ExchangeSteps => e.sends = Parcels(r, e.call)
  /\ e.call = "exchange" => DOMAIN CommonGrid \subseteq CellIds
  /\ e.call = "reduce total" => e.sends = Cardinality(FilesFound(r))

IsPair(p) == p = [l \in Layers |-> p[l]]
IsMem(m) ==
  /\ m = [lines |-> m.lines, geoms |-> m.geoms, box |-> m.box, grid |-> m.grid,
          cells |-> m.cells, owner |-> m.owner, recv |-> m.recv, index |-> m.index,
          candidates |-> m.candidates, found |-> m.found, total |-> m.total]
  /\ IsPair(m.geoms) /\ IsPair(m.cells) /\ IsPair(m.recv)

MemOK(r, D, m) ==
  IsMem(m) /\ ReadInv(r, D, m) /\ GridInv(r, D, m) /\ RecvInv(r, D, m) /\ FoundInv(r, D, m)

MemInv ==
  /\ mem = [r \in Ranks |-> mem[r]]
  /\ \A r \in Ranks :
       /\ pc[r] <= Len(Steps) + 1
       /\ MemOK(r, Done(r), mem[r])
       /\ \A k \in 1 .. Len(calls[r]) : SentInv(r, calls[r][k])

LEMMA OrderOfSteps ==
  ASSUME program \in Programs
  PROVE  Ordered(AllSteps, Steps, {}, AllSteps) /\ Facts(program, AllSteps)
<1>1. PICK all : Ordered(all, Steps, {}, all) /\ Facts(program, all)
  BY ProgramOrdered DEF Steps
<1>2. all = AllSteps
  BY <1>1 DEF Ordered, AllSteps
<1>. QED BY <1>1, <1>2

(* A process at step s has done what s needs, and s is done after it.      *)
LEMMA StepIsReady ==
  ASSUME program \in Programs, NEW r, pc[r] \in Nat \ {0}, Step(r) # "return"
  PROVE  /\ pc[r] \in 1 .. Len(Steps) /\ Len(Steps) \in Nat
         /\ Step(r) \in AllSteps /\ Done(r) \subseteq AllSteps
         /\ Ready(AllSteps, Step(r), Done(r))
         /\ Before(Steps, pc[r]) = Done(r) \cup {Step(r)}
<1>1. PICK M : Steps \in Seq(M)
  BY OrderOfSteps DEF Ordered
<1>2. pc[r] \in 1 .. Len(Steps) /\ Step(r) = Steps[pc[r]] /\ Len(Steps) \in Nat
  BY <1>1 DEF Step
<1>3. Ready(AllSteps, Steps[pc[r]], {} \cup Before(Steps, pc[r] - 1))
  BY <1>2, OrderOfSteps DEF Ordered
<1>4. {} \cup Before(Steps, pc[r] - 1) = Done(r)
  BY DEF Done
<1>5. \A i \in 1 .. pc[r] : i \in 1 .. Len(Steps)
  BY <1>2
<1>6. \A i \in 1 .. pc[r] : i = pc[r] \/ i \in 1 .. pc[r] - 1
  BY <1>2
<1>7. \A i \in 1 .. pc[r] - 1 : i \in 1 .. pc[r]
  BY <1>2
<1>8. Before(Steps, pc[r]) = Done(r) \cup {Step(r)}
  BY <1>2, <1>6, <1>7 DEF Before, Done
<1>. QED BY <1>2, <1>3, <1>4, <1>5, <1>7, <1>8 DEF Before, AllSteps, Done

LEMMA DoneAtEnd ==
  ASSUME program \in Programs, NEW r, pc[r] \in Nat \ {0}, pc[r] <= Len(Steps) + 1,
         Step(r) = "return"
  PROVE  Done(r) = AllSteps
<1>1. PICK M : Steps \in Seq(M)
  BY OrderOfSteps DEF Ordered
<1>2. Len(Steps) \in Nat
  BY <1>1
<1>3. ASSUME pc[r] <= Len(Steps) PROVE FALSE
  <2>1. pc[r] \in 1 .. Len(Steps) /\ Steps[pc[r]] = "return"
    BY <1>2, <1>3 DEF Step
  <2>2. Ready(AllSteps, Steps[pc[r]], {} \cup Before(Steps, pc[r] - 1))
    BY <2>1, OrderOfSteps DEF Ordered
  <2>. QED BY <2>1, <2>2 DEF Ready
<1>4. pc[r] - 1 = Len(Steps)
  BY <1>2, <1>3
<1>. QED BY <1>4 DEF Done, AllSteps

-----------------------------------------------------------------------------
(* The values do not change, as the program and the input do not.          *)
LEMMA SameValues ==
  ASSUME UNCHANGED <<program, input>>
  PROVE  /\ AllSteps' = AllSteps /\ Steps' = Steps
         /\ \A r, D, m : MemOK(r, D, m)' <=> MemOK(r, D, m)
         /\ \A r, e : SentInv(r, e)' <=> SentInv(r, e)
<1>1. AllSteps' = AllSteps /\ Steps' = Steps
  BY DEF AllSteps, Steps, Before
<1>2. /\ Lines' = Lines /\ Items' = Items
      /\ \A i : Geom(i)' = Geom(i) /\ BoxOf(i)' = BoxOf(i)
      /\ \A l, r : LinesOf(l, r)' = LinesOf(l, r)
      /\ \A l : WholeFile(l)' = WholeFile(l)
      /\ \A s, l : Parsed(s, l)' = Parsed(s, l)
      /\ \A s : GetMBR(s)' = GetMBR(s)
      /\ AdaptiveCells' = AdaptiveCells /\ CellIds' = CellIds
      /\ \A g, c : InCells(g, c)' = InCells(g, c)
      /\ \A a, b : Candidates(a, b)' = Candidates(a, b)
      /\ \A p : Throws(p)' <=> Throws(p)
      /\ \A p : Shapes(p)' = Shapes(p)
      /\ \A c : Polygons(c)' = Polygons(c)
      /\ \A p, k : Overlaid(p, k)' = Overlaid(p, k)
      /\ \A l, c : IndexedFile(l, c)' = IndexedFile(l, c)
      /\ \A r : OwnFiles(r)' = OwnFiles(r)
      /\ \A b : Unread(b)' = Unread(b)
  BY DEF Lines, Items, Geom, BoxOf, LinesOf, WholeFile, Parsed, GetMBR, AdaptiveCells, CellIds,
         InCells, Candidates, Shapes, LinesOfPair, Polygons, Throws, Overlaid, IndexedFile, OwnFiles,
         Scaled, Unread
<1>3. /\ \A r : PartOf(r)' = PartOf(r)
      /\ \A a, b : Reduced(a, b)' = Reduced(a, b) /\ OwnReduced(a, b)' = OwnReduced(a, b)
      /\ \A r : FilesFound(r)' = FilesFound(r)
  BY <1>1, <1>2 DEF PartOf, Reduced, OwnReduced, FilesFound
<1>4. \A r : First(r)' = First(r) /\ Second(r)' = Second(r)
  BY <1>1, <1>2, <1>3 DEF First, Second
<1>5. /\ \A r : Indexed(r)' = Indexed(r) /\ PairsAt(r)' = PairsAt(r)
      /\ CommonBox' = CommonBox
  BY <1>1, <1>2, <1>4 DEF Indexed, PairsAt, CommonBox
<1>6. CommonGrid' = CommonGrid
  BY <1>1, <1>2, <1>5 DEF CommonGrid
<1>7. \A r, l : InGrid(r, l)' = InGrid(r, l) /\ CellsAt(r, l)' = CellsAt(r, l)
  BY <1>1, <1>2, <1>4, <1>5, <1>6 DEF InGrid, CellsAt
<1>8. \A r : OwnedBy(r)' = OwnedBy(r)
  BY <1>6 DEF OwnedBy
<1>9. /\ \A r, p, l : ParcelTo(r, p, l)' = ParcelTo(r, p, l)
      /\ \A r, s : Parcels(r, s)' = Parcels(r, s)
      /\ AllParcels' = AllParcels
  BY <1>7, <1>8 DEF ParcelTo, Parcels, ExchangedLayers, AllParcels
<1>10. \A r, l : RecvAt(r, l)' = RecvAt(r, l)
  <2>1. \A b, c : GeomsOfCell(b, c)' = GeomsOfCell(b, c)
    <3>1. \A b, d : TextOf(b, d)' = TextOf(b, d)
      <4>1. \A b, d : Earlier(b, d)' = Earlier(b, d)
        BY DEF Earlier, SortedBefore
      <4>2. (program \in RoundPrograms)' <=> program \in RoundPrograms
        BY DEF RoundPrograms
      <4>. QED BY <1>2, <4>1, <4>2, Zenon DEF TextOf
    <3>. QED BY <1>2, <3>1 DEF GeomsOfCell
  <2>2. \A r, l : Boxes(r, AllParcels, l)' = Boxes(r, AllParcels, l)
    BY <1>9 DEF Boxes
  <2>. QED BY <2>1, <2>2 DEF RecvAt, GroupedByCell
<1>11. \A r, s, f : IsFound(r, s, f)' <=> IsFound(r, s, f)
  <2>1. /\ \A r, a, b : Reduced(RecvAt(r, 1), CellsAt(r, 2))' = Reduced(RecvAt(r, 1), CellsAt(r, 2))
        /\ \A r : Reduced(RecvAt(r, 1), RecvAt(r, 2))' = Reduced(RecvAt(r, 1), RecvAt(r, 2))
        /\ \A r : OwnReduced(CellsAt(r, 1), CellsAt(r, 2))' = OwnReduced(CellsAt(r, 1), CellsAt(r, 2))
    BY <1>3, <1>7, <1>10
  <2>2. \A r : Reduced(Polygons(RecvAt(r, 1)), Polygons(RecvAt(r, 2)))'
               = Reduced(Polygons(RecvAt(r, 1)), Polygons(RecvAt(r, 2)))
    BY <1>2, <1>3, <1>10
  <2>3. \A r : Shapes(PairsAt(r))' = Shapes(PairsAt(r))
    BY <1>2, <1>5
  <2>4. \A c, p : InCell(c, p)' = InCell(c, p)
    BY DEF InCell
  <2>5. \A r, k : Overlaid(Shapes(PairsAt(r)), k)' = Overlaid(Shapes(PairsAt(r)), k)
    BY <1>2, <2>3
  <2>6. ASSUME NEW r, NEW s, NEW f PROVE IsFound(r, s, f)' <=> IsFound(r, s, f)
    <3>0. {p \in Shapes(PairsAt(r)) : ~Throws(p)}' = {p \in Shapes(PairsAt(r)) : ~Throws(p)}
      BY <1>2, <2>3
    <3>1. (s = "overlay" => \E kept \in SUBSET {p \in Shapes(PairsAt(r)) : ~Throws(p)} :
             f = InCell(0, Overlaid(Shapes(PairsAt(r)), kept)))'
          <=> (s = "overlay" => \E kept \in SUBSET {p \in Shapes(PairsAt(r)) : ~Throws(p)} :
                 f = InCell(0, Overlaid(Shapes(PairsAt(r)), kept)))
      BY <2>4, <2>5, <3>0
    <3>2. (s = "join" => f = InCell(0, Shapes(PairsAt(r))))'
          <=> (s = "join" => f = InCell(0, Shapes(PairsAt(r))))
      BY <2>3, <2>4, <2>5
    <3>. QED BY <1>3, <2>1, <2>2, <3>1, <3>2 DEF IsFound
  <2>. QED BY <2>6
<1>12. \A r, D, m : ReadInv(r, D, m)' <=> ReadInv(r, D, m)
  BY ZenonT(30), <1>2, <1>3, <1>4, <1>5 DEF ReadInv
<1>13. \A r, D, m : GridInv(r, D, m)' <=> GridInv(r, D, m)
  BY ZenonT(30), <1>2, <1>4, <1>5, <1>6, <1>7 DEF GridInv, Owners
<1>14. \A r, D, m : RecvInv(r, D, m)' <=> RecvInv(r, D, m)
  BY <1>2, <1>6, <1>10 DEF RecvInv
<1>15. \A r, D, m : FoundInv(r, D, m)' <=> FoundInv(r, D, m)
  BY <1>3, <1>5, <1>11 DEF FoundInv
<1>16. \A r, D, m : MemOK(r, D, m)' <=> MemOK(r, D, m)
  BY <1>12, <1>13, <1>14, <1>15 DEF MemOK, IsMem, IsPair
<1>17. \A r, e : SentInv(r, e)' <=> SentInv(r, e)
  BY <1>2, <1>3, <1>4, <1>6, <1>9 DEF SentInv
<1>. QED BY <1>1, <1>16, <1>17

(* The invariant.                                                          *)
JoinInv == program \in Programs /\ input \in Inputs /\ CallsInv /\ MemInv

-----------------------------------------------------------------------------
(* A step disturbs only what it sets.                                      *)
LEMMA ReadStays ==
  ASSUME NEW r, NEW D, NEW m, NEW n, NEW s, ReadInv(r, D, m),
         n.lines = m.lines, n.geoms = m.geoms, n.index = m.index,
         s \notin {"partition", "partition large", "parse 1", "parse 2", "read queries", "index",
                   "read all 2"}
  PROVE  ReadInv(r, D \cup {s}, n)
BY DEF ReadInv, ReadSteps

LEMMA GridStays ==
  ASSUME NEW r, NEW D, NEW m, NEW n, NEW s, GridInv(r, D, m),
         n.box = m.box, n.grid = m.grid, n.cells = m.cells, n.owner = m.owner,
         s \notin {"mbr", "union", "uniform grid", "adaptive grid", "populate 1", "populate 2",
                   "partition queries", "strategy"}
  PROVE  GridInv(r, D \cup {s}, n)
BY DEF GridInv, GridSteps

LEMMA RecvStays ==
  ASSUME NEW r, NEW D, NEW m, NEW n, NEW s, RecvInv(r, D, m),
         n.recv = m.recv, s \notin {"exchange", "exchange pair", "exchange roads"}
  PROVE  RecvInv(r, D \cup {s}, n)
BY DEF RecvInv, ExchangeSteps

LEMMA FoundStays ==
  ASSUME NEW r, NEW D, NEW m, NEW n, NEW s, FoundInv(r, D, m),
         n.candidates = m.candidates, n.found = m.found,
         "reduce total" \in D => n.total = m.total,
         s \notin {"query", "join queries", "join pairs", "join on GPU", "join own cells",
                   "join own files", "join", "overlay"},
         s # "reduce total" \/ r # 0
  PROVE  FoundInv(r, D \cup {s}, n)
BY DEF FoundInv, JoinSteps

-----------------------------------------------------------------------------
(* The local steps.                                                        *)

(* A process that has done D and is at step s.                             *)
Takes(r, s, D, m) ==
  /\ program \in Programs /\ MemOK(r, D, m)
  /\ s \in AllSteps /\ D \subseteq AllSteps /\ Ready(AllSteps, s, D)

LEMMA TwoLayers == 1 \in Layers /\ 2 \in Layers /\ 1 # 2 /\ Layers = {1, 2}
BY DEF Layers

LEMMA TakesFacts ==
  ASSUME NEW r, NEW s, NEW D, NEW m, Takes(r, s, D, m)
  PROVE  /\ "mbr" \in AllSteps => "union" \in AllSteps
         /\ "union" \in AllSteps => "adaptive grid" \notin AllSteps
         /\ "fixed universe" \in AllSteps => {"mbr", "union"} \cap AllSteps = {}
         /\ "verify" \in AllSteps => "reduce total" \notin AllSteps
BY OrderOfSteps DEF Takes, Facts

LEMMA JoinStepIsNew ==
  ASSUME NEW r, NEW s \in JoinSteps, NEW D, NEW m, Takes(r, s, D, m)
  PROVE  JoinSteps \cap D = {} /\ JoinSteps \cap (D \cup {s}) = {s}
<1>1. JoinSteps \cap AllSteps = {s} /\ s \notin D /\ D \subseteq AllSteps
  BY DEF Takes, Ready
<1>. QED BY <1>1

LEMMA FoundAtJoin ==
  ASSUME NEW r, NEW s \in JoinSteps, NEW D, NEW m, NEW n, Takes(r, s, D, m),
         n.candidates = m.candidates, n.total = m.total, IsFound(r, s, n.found)
  PROVE  FoundInv(r, D \cup {s}, n)
<1>1. JoinSteps \cap (D \cup {s}) = {s} /\ s # "query" /\ s # "reduce total" /\ FoundInv(r, D, m)
  BY ZenonT(30), JoinStepIsNew DEF Takes, MemOK, JoinSteps
<1>. QED BY <1>1 DEF FoundInv

LEMMA ReadOwnPart ==
  ASSUME NEW r, NEW D, NEW m, NEW n, Takes(r, "partition", D, m),
         n = [m EXCEPT !.lines = LinesOf(1, r) \cup LinesOf(2, r)]
  PROVE  MemOK(r, D \cup {"partition"}, n)
<1>0. IsMem(m)
  BY DEF Takes, MemOK
<1>1. /\ IsMem(n) /\ n.lines = LinesOf(1, r) \cup LinesOf(2, r) /\ n.geoms = m.geoms
      /\ n.box = m.box /\ n.grid = m.grid /\ n.cells = m.cells /\ n.owner = m.owner
      /\ n.recv = m.recv /\ n.index = m.index /\ n.candidates = m.candidates
      /\ n.found = m.found /\ n.total = m.total
  BY <1>0 DEF IsMem, IsPair
<1>2. ReadInv(r, D \cup {"partition"}, n)
  BY <1>1 DEF Takes, MemOK, ReadInv, Ready, ReadSteps, PartOf
<1>3. GridInv(r, D \cup {"partition"}, n)
  BY <1>1, GridStays DEF Takes, MemOK
<1>4. RecvInv(r, D \cup {"partition"}, n)
  BY <1>1, RecvStays DEF Takes, MemOK
<1>5. FoundInv(r, D \cup {"partition"}, n)
  BY <1>1, FoundStays DEF Takes, MemOK
<1>. QED BY <1>1, <1>2, <1>3, <1>4, <1>5 DEF MemOK

LEMMA ReadNothing ==
  ASSUME NEW r, NEW D, NEW m, NEW n, Takes(r, "partition large", D, m),
         n = [m EXCEPT !.lines = {}]
  PROVE  MemOK(r, D \cup {"partition large"}, n)
<1>0. IsMem(m)
  BY DEF Takes, MemOK
<1>1. /\ IsMem(n) /\ n.lines = {} /\ n.geoms = m.geoms /\ n.box = m.box /\ n.grid = m.grid
      /\ n.cells = m.cells /\ n.owner = m.owner /\ n.recv = m.recv /\ n.index = m.index
      /\ n.candidates = m.candidates /\ n.found = m.found /\ n.total = m.total
  BY <1>0 DEF IsMem, IsPair
<1>2. ReadInv(r, D \cup {"partition large"}, n)
  BY <1>1 DEF Takes, MemOK, ReadInv, Ready, ReadSteps, PartOf
<1>3. GridInv(r, D \cup {"partition large"}, n)
  BY <1>1, GridStays DEF Takes, MemOK
<1>4. RecvInv(r, D \cup {"partition large"}, n)
  BY <1>1, RecvStays DEF Takes, MemOK
<1>5. FoundInv(r, D \cup {"partition large"}, n)
  BY <1>1, FoundStays DEF Takes, MemOK
<1>. QED BY <1>1, <1>2, <1>3, <1>4, <1>5 DEF MemOK

LEMMA ReadAllLines ==
  ASSUME NEW r, NEW D, NEW m, NEW n, Takes(r, "read all 2", D, m),
         n = [m EXCEPT !.lines = WholeFile(2)]
  PROVE  MemOK(r, D \cup {"read all 2"}, n)
<1>0. IsMem(m)
  BY DEF Takes, MemOK
<1>1. /\ IsMem(n) /\ n.lines = WholeFile(2) /\ n.geoms = m.geoms
      /\ n.box = m.box /\ n.grid = m.grid /\ n.cells = m.cells /\ n.owner = m.owner
      /\ n.recv = m.recv /\ n.index = m.index /\ n.candidates = m.candidates
      /\ n.found = m.found /\ n.total = m.total
  BY <1>0 DEF IsMem, IsPair
<1>2. ReadInv(r, D \cup {"read all 2"}, n)
  BY <1>1 DEF Takes, MemOK, ReadInv, Ready, ReadSteps
<1>3. GridInv(r, D \cup {"read all 2"}, n)
  BY <1>1, GridStays DEF Takes, MemOK
<1>4. RecvInv(r, D \cup {"read all 2"}, n)
  BY <1>1, RecvStays DEF Takes, MemOK
<1>5. FoundInv(r, D \cup {"read all 2"}, n)
  BY <1>1, FoundStays DEF Takes, MemOK
<1>. QED BY <1>1, <1>2, <1>3, <1>4, <1>5 DEF MemOK

LEMMA Parse1 ==
  ASSUME NEW r, NEW D, NEW m, NEW n, Takes(r, "parse 1", D, m),
         n = [m EXCEPT !.geoms[1] = Parsed(m.lines, 1)]
  PROVE  MemOK(r, D \cup {"parse 1"}, n)
<1>0. IsMem(m)
  BY DEF Takes, MemOK
<1>1. /\ IsMem(n) /\ n.geoms[1] = Parsed(m.lines, 1) /\ n.geoms[2] = m.geoms[2]
      /\ n.lines = m.lines /\ n.box = m.box /\ n.grid = m.grid /\ n.cells = m.cells
      /\ n.owner = m.owner /\ n.recv = m.recv /\ n.index = m.index
      /\ n.candidates = m.candidates /\ n.found = m.found /\ n.total = m.total
  BY <1>0, TwoLayers DEF IsMem, IsPair
<1>2. ReadInv(r, D \cup {"parse 1"}, n)
  BY <1>1 DEF Takes, MemOK, ReadInv, Ready, ReadSteps, First
<1>3. GridInv(r, D \cup {"parse 1"}, n)
  BY <1>1, GridStays DEF Takes, MemOK
<1>4. RecvInv(r, D \cup {"parse 1"}, n)
  BY <1>1, RecvStays DEF Takes, MemOK
<1>5. FoundInv(r, D \cup {"parse 1"}, n)
  BY <1>1, FoundStays DEF Takes, MemOK
<1>. QED BY <1>1, <1>2, <1>3, <1>4, <1>5 DEF MemOK

LEMMA Parse2 ==
  ASSUME NEW r, NEW D, NEW m, NEW n, Takes(r, "parse 2", D, m),
         n = [m EXCEPT !.geoms[2] = Parsed(m.lines, 2)]
  PROVE  MemOK(r, D \cup {"parse 2"}, n)
<1>0. IsMem(m)
  BY DEF Takes, MemOK
<1>1. /\ IsMem(n) /\ n.geoms[2] = Parsed(m.lines, 2) /\ n.geoms[1] = m.geoms[1]
      /\ n.lines = m.lines /\ n.box = m.box /\ n.grid = m.grid /\ n.cells = m.cells
      /\ n.owner = m.owner /\ n.recv = m.recv /\ n.index = m.index
      /\ n.candidates = m.candidates /\ n.found = m.found /\ n.total = m.total
  BY <1>0, TwoLayers DEF IsMem, IsPair
<1>2. ReadInv(r, D \cup {"parse 2"}, n)
  BY <1>1 DEF Takes, MemOK, ReadInv, Ready, ReadSteps, Second
<1>3. GridInv(r, D \cup {"parse 2"}, n)
  BY <1>1, GridStays DEF Takes, MemOK
<1>4. RecvInv(r, D \cup {"parse 2"}, n)
  BY <1>1, RecvStays DEF Takes, MemOK
<1>5. FoundInv(r, D \cup {"parse 2"}, n)
  BY <1>1, FoundStays DEF Takes, MemOK
<1>. QED BY <1>1, <1>2, <1>3, <1>4, <1>5 DEF MemOK

LEMMA ReadTheQueries ==
  ASSUME NEW r, NEW D, NEW m, NEW n, Takes(r, "read queries", D, m),
         n = [m EXCEPT !.index = Parsed(WholeFile(2), 2)]
  PROVE  MemOK(r, D \cup {"read queries"}, n)
<1>0. IsMem(m)
  BY DEF Takes, MemOK
<1>1. /\ IsMem(n) /\ n.index = Parsed(WholeFile(2), 2) /\ n.lines = m.lines /\ n.geoms = m.geoms
      /\ n.box = m.box /\ n.grid = m.grid /\ n.cells = m.cells /\ n.owner = m.owner
      /\ n.recv = m.recv /\ n.candidates = m.candidates /\ n.found = m.found
      /\ n.total = m.total
  BY <1>0 DEF IsMem, IsPair
<1>2. ReadInv(r, D \cup {"read queries"}, n)
  BY <1>1 DEF Takes, MemOK, ReadInv, Ready, ReadSteps, Indexed
<1>3. GridInv(r, D \cup {"read queries"}, n)
  BY <1>1, GridStays DEF Takes, MemOK
<1>4. RecvInv(r, D \cup {"read queries"}, n)
  BY <1>1, RecvStays DEF Takes, MemOK
<1>5. FoundInv(r, D \cup {"read queries"}, n)
  BY <1>1, FoundStays DEF Takes, MemOK
<1>. QED BY <1>1, <1>2, <1>3, <1>4, <1>5 DEF MemOK

LEMMA IndexLayer1 ==
  ASSUME NEW r, NEW D, NEW m, NEW n, Takes(r, "index", D, m),
         n = [m EXCEPT !.index = m.geoms[1]]
  PROVE  MemOK(r, D \cup {"index"}, n)
<1>0. IsMem(m)
  BY DEF Takes, MemOK
<1>1. /\ IsMem(n) /\ n.index = m.geoms[1] /\ n.lines = m.lines /\ n.geoms = m.geoms
      /\ n.box = m.box /\ n.grid = m.grid /\ n.cells = m.cells /\ n.owner = m.owner
      /\ n.recv = m.recv /\ n.candidates = m.candidates /\ n.found = m.found
      /\ n.total = m.total
  BY <1>0 DEF IsMem, IsPair
<1>2. ReadInv(r, D \cup {"index"}, n)
  BY <1>1 DEF Takes, MemOK, ReadInv, Ready, ReadSteps, Indexed
<1>3. GridInv(r, D \cup {"index"}, n)
  BY <1>1, GridStays DEF Takes, MemOK
<1>4. RecvInv(r, D \cup {"index"}, n)
  BY <1>1, RecvStays DEF Takes, MemOK
<1>5. FoundInv(r, D \cup {"index"}, n)
  BY <1>1, FoundStays DEF Takes, MemOK
<1>. QED BY <1>1, <1>2, <1>3, <1>4, <1>5 DEF MemOK

LEMMA OwnBoxIsKnown ==
  ASSUME NEW r, NEW D, NEW m, NEW n, Takes(r, "mbr", D, m),
         n = [m EXCEPT !.box = GetMBR(m.geoms[1])]
  PROVE  MemOK(r, D \cup {"mbr"}, n)
<1>0. IsMem(m)
  BY DEF Takes, MemOK
<1>1. /\ IsMem(n) /\ n.box = GetMBR(m.geoms[1]) /\ n.lines = m.lines /\ n.geoms = m.geoms
      /\ n.grid = m.grid /\ n.cells = m.cells /\ n.owner = m.owner /\ n.recv = m.recv
      /\ n.index = m.index /\ n.candidates = m.candidates /\ n.found = m.found
      /\ n.total = m.total
  BY <1>0 DEF IsMem, IsPair
<1>2. ReadInv(r, D \cup {"mbr"}, n)
  BY <1>1, ReadStays DEF Takes, MemOK
<1>3. GridInv(r, D \cup {"mbr"}, n)
  BY <1>1, TakesFacts DEF Takes, MemOK, ReadInv, GridInv, Ready, GridSteps
<1>4. RecvInv(r, D \cup {"mbr"}, n)
  BY <1>1, RecvStays DEF Takes, MemOK
<1>5. FoundInv(r, D \cup {"mbr"}, n)
  BY <1>1, FoundStays DEF Takes, MemOK
<1>. QED BY <1>1, <1>2, <1>3, <1>4, <1>5 DEF MemOK

LEMMA FixedBoxIsKnown ==
  ASSUME NEW r, NEW D, NEW m, NEW n, Takes(r, "fixed universe", D, m),
         n = [m EXCEPT !.box = Universe]
  PROVE  MemOK(r, D \cup {"fixed universe"}, n)
<1>0. IsMem(m)
  BY DEF Takes, MemOK
<1>1. /\ IsMem(n) /\ n.box = Universe /\ n.lines = m.lines /\ n.geoms = m.geoms
      /\ n.grid = m.grid /\ n.cells = m.cells /\ n.owner = m.owner /\ n.recv = m.recv
      /\ n.index = m.index /\ n.candidates = m.candidates /\ n.found = m.found
      /\ n.total = m.total
  BY <1>0 DEF IsMem, IsPair
<1>2. ReadInv(r, D \cup {"fixed universe"}, n)
  BY <1>1, ReadStays DEF Takes, MemOK
<1>3. GridInv(r, D \cup {"fixed universe"}, n)
  BY <1>1, TakesFacts DEF Takes, MemOK, ReadInv, GridInv, Ready, GridSteps
<1>4. RecvInv(r, D \cup {"fixed universe"}, n)
  BY <1>1, RecvStays DEF Takes, MemOK
<1>5. FoundInv(r, D \cup {"fixed universe"}, n)
  BY <1>1, FoundStays DEF Takes, MemOK
<1>. QED BY <1>1, <1>2, <1>3, <1>4, <1>5 DEF MemOK

LEMMA UniformGridIsKnown ==
  ASSUME NEW r, NEW D, NEW m, NEW n, Takes(r, "uniform grid", D, m),
         n = [m EXCEPT !.grid = UniformCells(m.box)]
  PROVE  MemOK(r, D \cup {"uniform grid"}, n)
<1>0. IsMem(m)
  BY DEF Takes, MemOK
<1>1. /\ IsMem(n) /\ n.grid = UniformCells(m.box) /\ n.lines = m.lines
      /\ n.geoms = m.geoms /\ n.box = m.box /\ n.cells = m.cells /\ n.owner = m.owner
      /\ n.recv = m.recv /\ n.index = m.index /\ n.candidates = m.candidates
      /\ n.found = m.found /\ n.total = m.total
  BY <1>0 DEF IsMem, IsPair
<1>2. ReadInv(r, D \cup {"uniform grid"}, n)
  BY <1>1, ReadStays DEF Takes, MemOK
<1>3. GridInv(r, D \cup {"uniform grid"}, n)
  BY <1>1, TakesFacts DEF Takes, MemOK, ReadInv, GridInv, Ready, GridSteps, CommonGrid, CommonBox
<1>4. RecvInv(r, D \cup {"uniform grid"}, n)
  BY <1>1, RecvStays DEF Takes, MemOK
<1>5. FoundInv(r, D \cup {"uniform grid"}, n)
  BY <1>1, FoundStays DEF Takes, MemOK
<1>. QED BY <1>1, <1>2, <1>3, <1>4, <1>5 DEF MemOK

LEMMA AdaptiveGridIsKnown ==
  ASSUME NEW r, NEW D, NEW m, NEW n, Takes(r, "adaptive grid", D, m),
         n = [m EXCEPT !.grid = AdaptiveCells]
  PROVE  MemOK(r, D \cup {"adaptive grid"}, n)
<1>0. IsMem(m)
  BY DEF Takes, MemOK
<1>1. /\ IsMem(n) /\ n.grid = AdaptiveCells /\ n.lines = m.lines /\ n.geoms = m.geoms
      /\ n.box = m.box /\ n.cells = m.cells /\ n.owner = m.owner /\ n.recv = m.recv
      /\ n.index = m.index /\ n.candidates = m.candidates /\ n.found = m.found
      /\ n.total = m.total
  BY <1>0 DEF IsMem, IsPair
<1>2. ReadInv(r, D \cup {"adaptive grid"}, n)
  BY <1>1, ReadStays DEF Takes, MemOK
<1>3. GridInv(r, D \cup {"adaptive grid"}, n)
  BY <1>1, TakesFacts DEF Takes, MemOK, ReadInv, GridInv, Ready, GridSteps, CommonGrid
<1>4. RecvInv(r, D \cup {"adaptive grid"}, n)
  BY <1>1, RecvStays DEF Takes, MemOK
<1>5. FoundInv(r, D \cup {"adaptive grid"}, n)
  BY <1>1, FoundStays DEF Takes, MemOK
<1>. QED BY <1>1, <1>2, <1>3, <1>4, <1>5 DEF MemOK

LEMMA Cells1AreKnown ==
  ASSUME NEW r, NEW D, NEW m, NEW n, Takes(r, "populate 1", D, m),
         n = [m EXCEPT !.cells[1] = InCells(m.geoms[1], m.grid)]
  PROVE  MemOK(r, D \cup {"populate 1"}, n)
<1>0. IsMem(m)
  BY DEF Takes, MemOK
<1>1. /\ IsMem(n) /\ n.cells[1] = InCells(m.geoms[1], m.grid) /\ n.cells[2] = m.cells[2]
      /\ n.lines = m.lines /\ n.geoms = m.geoms /\ n.box = m.box /\ n.grid = m.grid
      /\ n.owner = m.owner /\ n.recv = m.recv /\ n.index = m.index
      /\ n.candidates = m.candidates /\ n.found = m.found /\ n.total = m.total
  BY <1>0, TwoLayers DEF IsMem, IsPair
<1>2. ReadInv(r, D \cup {"populate 1"}, n)
  BY <1>1, ReadStays DEF Takes, MemOK
<1>3. GridInv(r, D \cup {"populate 1"}, n)
  BY <1>1, TakesFacts DEF Takes, MemOK, ReadInv, GridInv, Ready, GridSteps, CellsAt, InGrid
<1>4. RecvInv(r, D \cup {"populate 1"}, n)
  BY <1>1, RecvStays DEF Takes, MemOK
<1>5. FoundInv(r, D \cup {"populate 1"}, n)
  BY <1>1, FoundStays DEF Takes, MemOK
<1>. QED BY <1>1, <1>2, <1>3, <1>4, <1>5 DEF MemOK

LEMMA Cells2AreKnown ==
  ASSUME NEW r, NEW D, NEW m, NEW n, Takes(r, "populate 2", D, m),
         n = [m EXCEPT !.cells[2] = InCells(m.geoms[2], m.grid)]
  PROVE  MemOK(r, D \cup {"populate 2"}, n)
<1>0. IsMem(m)
  BY DEF Takes, MemOK
<1>1. /\ IsMem(n) /\ n.cells[2] = InCells(m.geoms[2], m.grid) /\ n.cells[1] = m.cells[1]
      /\ n.lines = m.lines /\ n.geoms = m.geoms /\ n.box = m.box /\ n.grid = m.grid
      /\ n.owner = m.owner /\ n.recv = m.recv /\ n.index = m.index
      /\ n.candidates = m.candidates /\ n.found = m.found /\ n.total = m.total
  BY <1>0, TwoLayers DEF IsMem, IsPair
<1>2. ReadInv(r, D \cup {"populate 2"}, n)
  BY <1>1, ReadStays DEF Takes, MemOK
<1>3. GridInv(r, D \cup {"populate 2"}, n)
  <2>1. m.geoms[2] = Second(r) /\ m.grid = CommonGrid /\ "partition queries" \notin AllSteps
    BY DEF Takes, MemOK, ReadInv, GridInv, Ready, GridSteps
  <2>2. InGrid(r, 2) = Second(r)
    BY <2>1, TwoLayers DEF InGrid
  <2>3. n.cells[2] = CellsAt(r, 2)
    BY <1>1, <2>1, <2>2 DEF CellsAt
  <2>. QED BY <1>1, <2>3 DEF Takes, MemOK, GridInv, GridSteps
<1>4. RecvInv(r, D \cup {"populate 2"}, n)
  BY <1>1, RecvStays DEF Takes, MemOK
<1>5. FoundInv(r, D \cup {"populate 2"}, n)
  BY <1>1, FoundStays DEF Takes, MemOK
<1>. QED BY <1>1, <1>2, <1>3, <1>4, <1>5 DEF MemOK

LEMMA QueryCellsAreKnown ==
  ASSUME NEW r, NEW D, NEW m, NEW n, Takes(r, "partition queries", D, m),
         n = [m EXCEPT !.cells[2] = InCells(m.index, m.grid)]
  PROVE  MemOK(r, D \cup {"partition queries"}, n)
<1>0. IsMem(m)
  BY DEF Takes, MemOK
<1>1. /\ IsMem(n) /\ n.cells[2] = InCells(m.index, m.grid) /\ n.cells[1] = m.cells[1]
      /\ n.lines = m.lines /\ n.geoms = m.geoms /\ n.box = m.box /\ n.grid = m.grid
      /\ n.owner = m.owner /\ n.recv = m.recv /\ n.index = m.index
      /\ n.candidates = m.candidates /\ n.found = m.found /\ n.total = m.total
  BY <1>0, TwoLayers DEF IsMem, IsPair
<1>2. ReadInv(r, D \cup {"partition queries"}, n)
  BY <1>1, ReadStays DEF Takes, MemOK
<1>3. GridInv(r, D \cup {"partition queries"}, n)
  <2>1. m.index = Indexed(r) /\ m.grid = CommonGrid /\ "partition queries" \in AllSteps
    BY DEF Takes, MemOK, ReadInv, GridInv, Ready, GridSteps
  <2>2. InGrid(r, 2) = Indexed(r)
    BY <2>1, TwoLayers DEF InGrid
  <2>3. n.cells[2] = CellsAt(r, 2)
    BY <1>1, <2>1, <2>2 DEF CellsAt
  <2>. QED BY <1>1, <2>3 DEF Takes, MemOK, GridInv, GridSteps
<1>4. RecvInv(r, D \cup {"partition queries"}, n)
  BY <1>1, RecvStays DEF Takes, MemOK
<1>5. FoundInv(r, D \cup {"partition queries"}, n)
  BY <1>1, FoundStays DEF Takes, MemOK
<1>. QED BY <1>1, <1>2, <1>3, <1>4, <1>5 DEF MemOK

LEMMA OwnersAreKnown ==
  ASSUME NEW r, NEW D, NEW m, NEW n, Takes(r, "strategy", D, m),
         n = [m EXCEPT !.owner = Owners(m.grid)]
  PROVE  MemOK(r, D \cup {"strategy"}, n)
<1>0. IsMem(m)
  BY DEF Takes, MemOK
<1>1. /\ IsMem(n) /\ n.owner = Owners(m.grid) /\ n.lines = m.lines /\ n.geoms = m.geoms
      /\ n.box = m.box /\ n.grid = m.grid /\ n.cells = m.cells /\ n.recv = m.recv
      /\ n.index = m.index /\ n.candidates = m.candidates /\ n.found = m.found
      /\ n.total = m.total
  BY <1>0 DEF IsMem, IsPair
<1>2. ReadInv(r, D \cup {"strategy"}, n)
  BY <1>1, ReadStays DEF Takes, MemOK
<1>3. GridInv(r, D \cup {"strategy"}, n)
  BY <1>1, TakesFacts DEF Takes, MemOK, ReadInv, GridInv, Ready, GridSteps
<1>4. RecvInv(r, D \cup {"strategy"}, n)
  BY <1>1, RecvStays DEF Takes, MemOK
<1>5. FoundInv(r, D \cup {"strategy"}, n)
  BY <1>1, FoundStays DEF Takes, MemOK
<1>. QED BY <1>1, <1>2, <1>3, <1>4, <1>5 DEF MemOK

LEMMA QueryTheIndex ==
  ASSUME NEW r, NEW D, NEW m, NEW n, Takes(r, "query", D, m),
         n = [m EXCEPT !.candidates = Candidates(m.index, m.geoms[2])]
  PROVE  MemOK(r, D \cup {"query"}, n)
<1>0. IsMem(m)
  BY DEF Takes, MemOK
<1>1. /\ IsMem(n) /\ n.candidates = Candidates(m.index, m.geoms[2]) /\ n.lines = m.lines
      /\ n.geoms = m.geoms /\ n.box = m.box /\ n.grid = m.grid /\ n.cells = m.cells
      /\ n.owner = m.owner /\ n.recv = m.recv /\ n.index = m.index /\ n.found = m.found
      /\ n.total = m.total
  BY <1>0 DEF IsMem, IsPair
<1>2. ReadInv(r, D \cup {"query"}, n)
  BY <1>1, ReadStays DEF Takes, MemOK
<1>3. GridInv(r, D \cup {"query"}, n)
  BY <1>1, GridStays DEF Takes, MemOK
<1>4. RecvInv(r, D \cup {"query"}, n)
  BY <1>1, RecvStays DEF Takes, MemOK
<1>5. FoundInv(r, D \cup {"query"}, n)
  BY <1>1 DEF Takes, MemOK, ReadInv, FoundInv, Ready, JoinSteps, PairsAt
<1>. QED BY <1>1, <1>2, <1>3, <1>4, <1>5 DEF MemOK

LEMMA FoundByQueries ==
  ASSUME NEW r, NEW D, NEW m, NEW n, Takes(r, "join queries", D, m),
         n = [m EXCEPT !.found = Reduced(m.recv[1], m.cells[2])]
  PROVE  MemOK(r, D \cup {"join queries"}, n)
<1>0. IsMem(m)
  BY DEF Takes, MemOK
<1>1. /\ IsMem(n) /\ n.found = Reduced(m.recv[1], m.cells[2]) /\ n.lines = m.lines
      /\ n.geoms = m.geoms /\ n.box = m.box /\ n.grid = m.grid /\ n.cells = m.cells
      /\ n.owner = m.owner /\ n.recv = m.recv /\ n.index = m.index
      /\ n.candidates = m.candidates /\ n.total = m.total
  BY <1>0 DEF IsMem, IsPair
<1>2. ReadInv(r, D \cup {"join queries"}, n)
  BY <1>1, ReadStays DEF Takes, MemOK
<1>3. GridInv(r, D \cup {"join queries"}, n)
  BY <1>1, GridStays DEF Takes, MemOK
<1>4. RecvInv(r, D \cup {"join queries"}, n)
  BY <1>1, RecvStays DEF Takes, MemOK
<1>5. FoundInv(r, D \cup {"join queries"}, n)
  <2>1. m.recv[1] = RecvAt(r, 1) /\ m.cells[2] = CellsAt(r, 2)
    BY DEF Takes, MemOK, RecvInv, GridInv, FoundInv, Ready, ExchangeSteps
  <2>2. IsFound(r, "join queries", n.found)
    BY <1>1, <2>1 DEF IsFound
  <2>. QED BY <1>1, <2>2, FoundAtJoin DEF JoinSteps
<1>. QED BY <1>1, <1>2, <1>3, <1>4, <1>5 DEF MemOK

LEMMA FoundByPairs ==
  ASSUME NEW r, NEW D, NEW m, NEW n, Takes(r, "join pairs", D, m),
         n = [m EXCEPT !.found = Reduced(m.recv[1], m.recv[2])]
  PROVE  MemOK(r, D \cup {"join pairs"}, n)
<1>0. IsMem(m)
  BY DEF Takes, MemOK
<1>1. /\ IsMem(n) /\ n.found = Reduced(m.recv[1], m.recv[2]) /\ n.lines = m.lines
      /\ n.geoms = m.geoms /\ n.box = m.box /\ n.grid = m.grid /\ n.cells = m.cells
      /\ n.owner = m.owner /\ n.recv = m.recv /\ n.index = m.index
      /\ n.candidates = m.candidates /\ n.total = m.total
  BY <1>0 DEF IsMem, IsPair
<1>2. ReadInv(r, D \cup {"join pairs"}, n)
  BY <1>1, ReadStays DEF Takes, MemOK
<1>3. GridInv(r, D \cup {"join pairs"}, n)
  BY <1>1, GridStays DEF Takes, MemOK
<1>4. RecvInv(r, D \cup {"join pairs"}, n)
  BY <1>1, RecvStays DEF Takes, MemOK
<1>5. FoundInv(r, D \cup {"join pairs"}, n)
  <2>1. m.recv[1] = RecvAt(r, 1) /\ m.recv[2] = RecvAt(r, 2)
    BY DEF Takes, MemOK, RecvInv, GridInv, FoundInv, Ready, ExchangeSteps
  <2>2. IsFound(r, "join pairs", n.found)
    BY <1>1, <2>1 DEF IsFound
  <2>. QED BY <1>1, <2>2, FoundAtJoin DEF JoinSteps
<1>. QED BY <1>1, <1>2, <1>3, <1>4, <1>5 DEF MemOK

LEMMA FoundOnGPU ==
  ASSUME NEW r, NEW D, NEW m, NEW n, Takes(r, "join on GPU", D, m),
         n = [m EXCEPT !.found = Reduced(Polygons(m.recv[1]), Polygons(m.recv[2]))]
  PROVE  MemOK(r, D \cup {"join on GPU"}, n)
<1>0. IsMem(m)
  BY DEF Takes, MemOK
<1>1. /\ IsMem(n) /\ n.found = Reduced(Polygons(m.recv[1]), Polygons(m.recv[2]))
      /\ n.lines = m.lines /\ n.geoms = m.geoms /\ n.box = m.box /\ n.grid = m.grid
      /\ n.cells = m.cells /\ n.owner = m.owner /\ n.recv = m.recv /\ n.index = m.index
      /\ n.candidates = m.candidates /\ n.total = m.total
  BY <1>0 DEF IsMem, IsPair
<1>2. ReadInv(r, D \cup {"join on GPU"}, n)
  BY <1>1, ReadStays DEF Takes, MemOK
<1>3. GridInv(r, D \cup {"join on GPU"}, n)
  BY <1>1, GridStays DEF Takes, MemOK
<1>4. RecvInv(r, D \cup {"join on GPU"}, n)
  BY <1>1, RecvStays DEF Takes, MemOK
<1>5. FoundInv(r, D \cup {"join on GPU"}, n)
  <2>1. m.recv[1] = RecvAt(r, 1) /\ m.recv[2] = RecvAt(r, 2)
    BY DEF Takes, MemOK, RecvInv, GridInv, FoundInv, Ready, ExchangeSteps
  <2>2. IsFound(r, "join on GPU", n.found)
    BY <1>1, <2>1 DEF IsFound
  <2>. QED BY <1>1, <2>2, FoundAtJoin DEF JoinSteps
<1>. QED BY <1>1, <1>2, <1>3, <1>4, <1>5 DEF MemOK

LEMMA FoundInOwnCells ==
  ASSUME NEW r, NEW D, NEW m, NEW n, Takes(r, "join own cells", D, m),
         n = [m EXCEPT !.found = OwnReduced(m.cells[1], m.cells[2])]
  PROVE  MemOK(r, D \cup {"join own cells"}, n)
<1>0. IsMem(m)
  BY DEF Takes, MemOK
<1>1. /\ IsMem(n) /\ n.found = OwnReduced(m.cells[1], m.cells[2]) /\ n.lines = m.lines
      /\ n.geoms = m.geoms /\ n.box = m.box /\ n.grid = m.grid /\ n.cells = m.cells
      /\ n.owner = m.owner /\ n.recv = m.recv /\ n.index = m.index
      /\ n.candidates = m.candidates /\ n.total = m.total
  BY <1>0 DEF IsMem, IsPair
<1>2. ReadInv(r, D \cup {"join own cells"}, n)
  BY <1>1, ReadStays DEF Takes, MemOK
<1>3. GridInv(r, D \cup {"join own cells"}, n)
  BY <1>1, GridStays DEF Takes, MemOK
<1>4. RecvInv(r, D \cup {"join own cells"}, n)
  BY <1>1, RecvStays DEF Takes, MemOK
<1>5. FoundInv(r, D \cup {"join own cells"}, n)
  <2>1. m.cells[1] = CellsAt(r, 1) /\ m.cells[2] = CellsAt(r, 2)
    BY DEF Takes, MemOK, RecvInv, GridInv, FoundInv, Ready, ExchangeSteps
  <2>2. IsFound(r, "join own cells", n.found)
    BY <1>1, <2>1 DEF IsFound
  <2>. QED BY <1>1, <2>2, FoundAtJoin DEF JoinSteps
<1>. QED BY <1>1, <1>2, <1>3, <1>4, <1>5 DEF MemOK

LEMMA FoundInOwnFiles ==
  ASSUME NEW r, NEW D, NEW m, NEW n, Takes(r, "join own files", D, m),
         n = [m EXCEPT !.found = FilesFound(r)]
  PROVE  MemOK(r, D \cup {"join own files"}, n)
<1>0. IsMem(m)
  BY DEF Takes, MemOK
<1>1. /\ IsMem(n) /\ n.found = FilesFound(r) /\ n.lines = m.lines /\ n.geoms = m.geoms
      /\ n.box = m.box /\ n.grid = m.grid /\ n.cells = m.cells /\ n.owner = m.owner
      /\ n.recv = m.recv /\ n.index = m.index /\ n.candidates = m.candidates
      /\ n.total = m.total
  BY <1>0 DEF IsMem, IsPair
<1>2. ReadInv(r, D \cup {"join own files"}, n)
  BY <1>1, ReadStays DEF Takes, MemOK
<1>3. GridInv(r, D \cup {"join own files"}, n)
  BY <1>1, GridStays DEF Takes, MemOK
<1>4. RecvInv(r, D \cup {"join own files"}, n)
  BY <1>1, RecvStays DEF Takes, MemOK
<1>5. FoundInv(r, D \cup {"join own files"}, n)
  <2>1. IsFound(r, "join own files", n.found)
    BY <1>1 DEF IsFound
  <2>. QED BY <1>1, <2>1, FoundAtJoin DEF JoinSteps
<1>. QED BY <1>1, <1>2, <1>3, <1>4, <1>5 DEF MemOK

LEMMA FoundByJoin ==
  ASSUME NEW r, NEW D, NEW m, NEW n, Takes(r, "join", D, m),
         n = [m EXCEPT !.found = InCell(0, Shapes(m.candidates))]
  PROVE  MemOK(r, D \cup {"join"}, n)
<1>0. IsMem(m)
  BY DEF Takes, MemOK
<1>1. /\ IsMem(n) /\ n.found = InCell(0, Shapes(m.candidates)) /\ n.lines = m.lines
      /\ n.geoms = m.geoms /\ n.box = m.box /\ n.grid = m.grid /\ n.cells = m.cells
      /\ n.owner = m.owner /\ n.recv = m.recv /\ n.index = m.index
      /\ n.candidates = m.candidates /\ n.total = m.total
  BY <1>0 DEF IsMem, IsPair
<1>2. ReadInv(r, D \cup {"join"}, n)
  BY <1>1, ReadStays DEF Takes, MemOK
<1>3. GridInv(r, D \cup {"join"}, n)
  BY <1>1, GridStays DEF Takes, MemOK
<1>4. RecvInv(r, D \cup {"join"}, n)
  BY <1>1, RecvStays DEF Takes, MemOK
<1>5. FoundInv(r, D \cup {"join"}, n)
  <2>1. m.candidates = PairsAt(r)
    BY DEF Takes, MemOK, RecvInv, GridInv, FoundInv, Ready, ExchangeSteps
  <2>2. IsFound(r, "join", n.found)
    BY <1>1, <2>1 DEF IsFound
  <2>. QED BY <1>1, <2>2, FoundAtJoin DEF JoinSteps
<1>. QED BY <1>1, <1>2, <1>3, <1>4, <1>5 DEF MemOK

LEMMA FoundByOverlay ==
  ASSUME NEW r, NEW D, NEW m, NEW n, Takes(r, "overlay", D, m),
         NEW kept \in SUBSET {p \in Shapes(m.candidates) : ~Throws(p)},
         n = [m EXCEPT !.found = InCell(0, Overlaid(Shapes(m.candidates), kept))]
  PROVE  MemOK(r, D \cup {"overlay"}, n)
<1>0. IsMem(m)
  BY DEF Takes, MemOK
<1>1. /\ IsMem(n) /\ n.found = InCell(0, Overlaid(Shapes(m.candidates), kept))
      /\ n.lines = m.lines /\ n.geoms = m.geoms /\ n.box = m.box /\ n.grid = m.grid
      /\ n.cells = m.cells /\ n.owner = m.owner /\ n.recv = m.recv /\ n.index = m.index
      /\ n.candidates = m.candidates /\ n.total = m.total
  BY <1>0 DEF IsMem, IsPair
<1>2. ReadInv(r, D \cup {"overlay"}, n)
  BY <1>1, ReadStays DEF Takes, MemOK
<1>3. GridInv(r, D \cup {"overlay"}, n)
  BY <1>1, GridStays DEF Takes, MemOK
<1>4. RecvInv(r, D \cup {"overlay"}, n)
  BY <1>1, RecvStays DEF Takes, MemOK
<1>5. FoundInv(r, D \cup {"overlay"}, n)
  <2>1. m.candidates = PairsAt(r)
    BY DEF Takes, MemOK, RecvInv, GridInv, FoundInv, Ready, ExchangeSteps
  <2>2. IsFound(r, "overlay", n.found)
    BY <1>1, <2>1 DEF IsFound
  <2>. QED BY <1>1, <2>2, FoundAtJoin DEF JoinSteps
<1>. QED BY <1>1, <1>2, <1>3, <1>4, <1>5 DEF MemOK

LEMMA VerifiedTotal ==
  ASSUME NEW r, NEW D, NEW m, NEW n, Takes(r, "verify", D, m), NEW v,
         n = [m EXCEPT !.total = v]
  PROVE  MemOK(r, D \cup {"verify"}, n)
<1>0. IsMem(m)
  BY DEF Takes, MemOK
<1>1. /\ IsMem(n) /\ n.total = v /\ n.lines = m.lines /\ n.geoms = m.geoms
      /\ n.box = m.box /\ n.grid = m.grid /\ n.cells = m.cells /\ n.owner = m.owner
      /\ n.recv = m.recv /\ n.index = m.index /\ n.candidates = m.candidates
      /\ n.found = m.found
  BY <1>0 DEF IsMem, IsPair
<1>2. ReadInv(r, D \cup {"verify"}, n)
  BY <1>1, ReadStays DEF Takes, MemOK
<1>3. GridInv(r, D \cup {"verify"}, n)
  BY <1>1, GridStays DEF Takes, MemOK
<1>4. RecvInv(r, D \cup {"verify"}, n)
  BY <1>1, RecvStays DEF Takes, MemOK
<1>5. FoundInv(r, D \cup {"verify"}, n)
  BY <1>1, TakesFacts DEF Takes, MemOK, FoundInv, JoinSteps
<1>. QED BY <1>1, <1>2, <1>3, <1>4, <1>5 DEF MemOK

-----------------------------------------------------------------------------
(* The collective steps.                                                   *)

(* The union of the boxes is the same for every process.                   *)
LEMMA UnionIsKnown ==
  ASSUME NEW r, NEW D, NEW m, NEW n, Takes(r, "union", D, m), NEW sent,
         sent = [q \in Ranks |-> sent[q]],
         \A q \in Ranks : sent[q] = GetMBR(First(q)),
         n = [m EXCEPT !.box = UnionBox(r, sent)]
  PROVE  MemOK(r, D \cup {"union"}, n)
<1>0. IsMem(m) /\ "union" \in AllSteps
  BY DEF Takes, MemOK
<1>1. /\ IsMem(n) /\ n.box = UnionBox(r, sent) /\ n.lines = m.lines /\ n.geoms = m.geoms
      /\ n.grid = m.grid /\ n.cells = m.cells /\ n.owner = m.owner /\ n.recv = m.recv
      /\ n.index = m.index /\ n.candidates = m.candidates /\ n.found = m.found
      /\ n.total = m.total
  BY <1>0 DEF IsMem, IsPair
<1>2. Range(sent) = {GetMBR(First(q)) : q \in Ranks}
  BY DEF Range
<1>3. n.box = CommonBox
  BY <1>0, <1>1, <1>2 DEF CommonBox, UnionBox
<1>4. GridInv(r, D \cup {"union"}, n)
  BY <1>1, <1>3 DEF Takes, MemOK, GridInv, GridSteps
<1>5. ReadInv(r, D \cup {"union"}, n)
  BY <1>1, ReadStays DEF Takes, MemOK
<1>6. RecvInv(r, D \cup {"union"}, n)
  BY <1>1, RecvStays DEF Takes, MemOK
<1>7. FoundInv(r, D \cup {"union"}, n)
  BY <1>1, FoundStays DEF Takes, MemOK
<1>. QED BY <1>1, <1>4, <1>5, <1>6, <1>7 DEF MemOK

(* The root of the static balancer has the sum of what the others found.   *)
LEMMA TotalIsKnown ==
  ASSUME NEW D, NEW m, NEW n, Takes(0, "reduce total", D, m), NEW sent,
         sent = [q \in Ranks |-> Cardinality(FilesFound(q))],
         n = [m EXCEPT !.total = SumFunction(sent)]
  PROVE  MemOK(0, D \cup {"reduce total"}, n)
<1>0. IsMem(m)
  BY DEF Takes, MemOK
<1>1. /\ IsMem(n) /\ n.total = SumFunction(sent) /\ n.lines = m.lines /\ n.geoms = m.geoms
      /\ n.box = m.box /\ n.grid = m.grid /\ n.cells = m.cells /\ n.owner = m.owner
      /\ n.recv = m.recv /\ n.index = m.index /\ n.candidates = m.candidates
      /\ n.found = m.found
  BY <1>0 DEF IsMem, IsPair
<1>2. FoundInv(0, D \cup {"reduce total"}, n)
  BY <1>1 DEF Takes, MemOK, FoundInv, JoinSteps
<1>3. ReadInv(0, D \cup {"reduce total"}, n)
  BY <1>1, ReadStays DEF Takes, MemOK
<1>4. GridInv(0, D \cup {"reduce total"}, n)
  BY <1>1, GridStays DEF Takes, MemOK
<1>5. RecvInv(0, D \cup {"reduce total"}, n)
  BY <1>1, RecvStays DEF Takes, MemOK
<1>. QED BY <1>1, <1>2, <1>3, <1>4, <1>5 DEF MemOK

(* What a process makes of what it is sent depends only on what the others *)
(* have in its cells.                                                      *)
LEMMA GroupedIsKnown ==
  ASSUME NEW r \in Ranks, NEW sent, NEW l \in Layers,
         \A q \in Ranks : sent[q][r][l] = ParcelTo(q, r, l)
  PROVE  GroupedByCell(r, sent, l) = RecvAt(r, l)
<1>1. \A q \in Ranks : AllParcels[q][r][l] = sent[q][r][l]
  BY DEF AllParcels
<1>2. Boxes(r, sent, l) = Boxes(r, AllParcels, l)
  BY <1>1 DEF Boxes
<1>. QED BY <1>2 DEF RecvAt, GroupedByCell

NowReceived(r, s, sent, m) ==
  [l \in Layers |-> IF l \in ExchangedLayers(s) THEN GroupedByCell(r, sent, l) ELSE m.recv[l]]

LEMMA RecvIsKnown ==
  ASSUME NEW r \in Ranks, NEW s \in ExchangeSteps, NEW D, NEW m, NEW n, Takes(r, s, D, m),
         NEW sent, \A q \in Ranks : sent[q] = Parcels(q, s),
         s = "exchange" => DOMAIN CommonGrid \subseteq CellIds,
         n = [m EXCEPT !.recv = NowReceived(r, s, sent, m)]
  PROVE  MemOK(r, D \cup {s}, n)
<1>. DEFINE v == NowReceived(r, s, sent, m)
<1>0. IsMem(m) /\ n = [m EXCEPT !.recv = v]
  BY DEF Takes, MemOK
<1>1. /\ \A l \in ExchangedLayers(s) : v[l] = RecvAt(r, l)
      /\ \A l \in Layers \ ExchangedLayers(s) : v[l] = m.recv[l]
  <2>1. ASSUME NEW l \in ExchangedLayers(s) PROVE GroupedByCell(r, sent, l) = RecvAt(r, l)
    <3>0. l \in Layers
      BY TwoLayers DEF ExchangedLayers
    <3>1. ASSUME NEW q \in Ranks PROVE sent[q][r][l] = ParcelTo(q, r, l)
      <4>2. sent[q][r] = [k \in ExchangedLayers(s) |-> ParcelTo(q, r, k)]
        BY DEF Parcels
      <4>. QED BY <4>2
    <3>. QED BY <3>0, <3>1, GroupedIsKnown
  <2>2. ExchangedLayers(s) \subseteq Layers
    BY TwoLayers DEF ExchangedLayers
  <2>. QED BY <2>1, <2>2 DEF NowReceived
<1>2. IsPair(v)
  BY DEF IsPair, NowReceived
<1>. HIDE DEF v
<1>3. /\ IsMem(n) /\ n.recv = v /\ n.lines = m.lines /\ n.geoms = m.geoms
      /\ n.box = m.box /\ n.grid = m.grid /\ n.cells = m.cells /\ n.owner = m.owner
      /\ n.index = m.index /\ n.candidates = m.candidates /\ n.found = m.found
      /\ n.total = m.total
  BY <1>0, <1>2 DEF IsMem
<1>4. /\ n.recv[1] = RecvAt(r, 1)
      /\ s = "exchange pair" => n.recv[2] = RecvAt(r, 2)
      /\ s # "exchange pair" => n.recv[2] = m.recv[2]
  <2>1. CASE s = "exchange pair"
    <3>1. 1 \in ExchangedLayers(s) /\ 2 \in ExchangedLayers(s)
      BY <2>1, TwoLayers DEF ExchangedLayers
    <3>. QED BY <1>1, <1>3, <2>1, <3>1
  <2>2. CASE s # "exchange pair"
    <3>1. 1 \in ExchangedLayers(s) /\ 2 \in Layers \ ExchangedLayers(s)
      BY <2>2, TwoLayers DEF ExchangedLayers
    <3>. QED BY <1>1, <1>3, <2>2, <3>1
  <2>. QED BY <2>1, <2>2
<1>5. RecvInv(r, D \cup {s}, n)
  BY <1>3, <1>4 DEF Takes, MemOK, RecvInv, ExchangeSteps
<1>6. s \notin {"partition", "partition large", "parse 1", "parse 2", "read queries", "index",
                "read all 2", "mbr", "union", "uniform grid", "adaptive grid", "populate 1",
                "populate 2", "partition queries", "strategy", "query", "join queries",
                "join pairs", "join on GPU", "join own cells", "join own files", "join",
                "overlay", "reduce total"}
  BY DEF ExchangeSteps
<1>7. ReadInv(r, D \cup {s}, n)
  BY <1>3, <1>6, ReadStays DEF Takes, MemOK
<1>8. GridInv(r, D \cup {s}, n)
  BY <1>3, <1>6, GridStays DEF Takes, MemOK
<1>9. FoundInv(r, D \cup {s}, n)
  BY <1>3, <1>6, FoundStays DEF Takes, MemOK
<1>. QED BY <1>3, <1>5, <1>7, <1>8, <1>9 DEF MemOK

(* The other steps change nothing.                                         *)
Idle == {"barrier", "reduce count", "allreduce count", "reduce time", "close", "finalize",
         "join nothing"}
LEMMA IdleStep ==
  ASSUME NEW r, NEW s \in Idle, NEW D, NEW m, Takes(r, s, D, m)
  PROVE  MemOK(r, D \cup {s}, m)
<1>1. s \notin {"partition", "partition large", "parse 1", "parse 2", "read queries", "index",
                "read all 2", "mbr", "union", "uniform grid", "adaptive grid", "populate 1",
                "populate 2", "partition queries", "strategy", "exchange", "exchange pair",
                "exchange roads", "query", "join queries", "join pairs", "join on GPU",
                "join own cells", "join own files", "join", "overlay"}
      /\ (s # "reduce total" \/ r # 0)
  BY DEF Idle
<1>2. ReadInv(r, D \cup {s}, m)
  BY <1>1, ReadStays DEF Takes, MemOK
<1>3. GridInv(r, D \cup {s}, m)
  BY <1>1, GridStays DEF Takes, MemOK
<1>4. RecvInv(r, D \cup {s}, m)
  BY <1>1, RecvStays DEF Takes, MemOK
<1>5. FoundInv(r, D \cup {s}, m)
  BY <1>1, FoundStays DEF Takes, MemOK
<1>. QED BY <1>2, <1>3, <1>4, <1>5 DEF Takes, MemOK

LEMMA TotalElsewhere ==
  ASSUME NEW r, NEW s, s = "reduce total", NEW D, NEW m, Takes(r, s, D, m), r # 0
  PROVE  MemOK(r, D \cup {s}, m)
<1>1. s \notin {"partition", "partition large", "parse 1", "parse 2", "read queries", "index",
                "read all 2", "mbr", "union", "uniform grid", "adaptive grid", "populate 1",
                "populate 2", "partition queries", "strategy", "exchange", "exchange pair",
                "exchange roads", "query", "join queries", "join pairs", "join on GPU",
                "join own cells", "join own files", "join", "overlay"}
      /\ (s # "reduce total" \/ r # 0)
  BY DEF Idle
<1>2. ReadInv(r, D \cup {s}, m)
  BY <1>1, ReadStays DEF Takes, MemOK
<1>3. GridInv(r, D \cup {s}, m)
  BY <1>1, GridStays DEF Takes, MemOK
<1>4. RecvInv(r, D \cup {s}, m)
  BY <1>1, RecvStays DEF Takes, MemOK
<1>5. FoundInv(r, D \cup {s}, m)
  BY <1>1, FoundStays DEF Takes, MemOK
<1>. QED BY <1>2, <1>3, <1>4, <1>5 DEF Takes, MemOK

-----------------------------------------------------------------------------
(* The invariant is preserved.                                             *)

LEMMA Stands ==
  ASSUME JoinInv, NEW r \in Ranks, Step(r) # "return"
  PROVE  /\ Takes(r, Step(r), Done(r), mem[r])
         /\ pc[r] \in 1 .. Len(Steps) /\ Len(Steps) \in Nat
         /\ Before(Steps, pc[r]) = Done(r) \cup {Step(r)}
<1>1. pc[r] \in Nat \ {0}
  BY DEF JoinInv, CallsInv
<1>. QED BY <1>1, StepIsReady DEF JoinInv, MemInv, Takes

LEMMA Advance ==
  ASSUME JoinInv, NEW r \in Ranks, Step(r) # "return", NEW n,
         UNCHANGED <<program, input, calls>>, mem' = [mem EXCEPT ![r] = n],
         pc' = [pc EXCEPT ![r] = pc[r] + 1], MemOK(r, Done(r) \cup {Step(r)}, n)
  PROVE  MemInv'
<1>1. /\ pc[r] \in 1 .. Len(Steps) /\ Len(Steps) \in Nat
      /\ Before(Steps, pc[r]) = Done(r) \cup {Step(r)}
  BY Stands
<1>2. /\ pc'[r] = pc[r] + 1 /\ mem'[r] = n /\ mem' = [q \in Ranks |-> mem'[q]]
      /\ \A q \in Ranks \ {r} : pc'[q] = pc[q] /\ mem'[q] = mem[q]
  BY DEF JoinInv, CallsInv, MemInv
<1>3. /\ AllSteps' = AllSteps /\ Steps' = Steps
      /\ \A q, D, m : MemOK(q, D, m)' <=> MemOK(q, D, m)
      /\ \A q, e : SentInv(q, e)' <=> SentInv(q, e)
  BY SameValues
<1>4. ASSUME NEW q \in Ranks PROVE pc'[q] <= Len(Steps) + 1 /\ MemOK(q, Done(q)', mem'[q])
  <2>1. CASE q = r
    <3>1. (pc[r] + 1) - 1 = pc[r] /\ pc[r] + 1 <= Len(Steps) + 1
      BY <1>1
    <3>2. Done(r)' = Before(Steps, pc[r])
      BY <1>2, <1>3, <3>1 DEF Done, Before
    <3>. QED BY <1>1, <1>2, <2>1, <3>1, <3>2
  <2>2. CASE q # r
    <3>1. Done(q)' = Done(q)
      BY <1>2, <1>3, <2>2 DEF Done, Before
    <3>. QED BY <1>2, <2>2, <3>1 DEF JoinInv, MemInv
  <2>. QED BY <2>1, <2>2
<1>5. ASSUME NEW q \in Ranks PROVE MemOK(q, Done(q), mem[q])'
  BY <1>3, <1>4
<1>6. \A q \in Ranks : \A k \in 1 .. Len(calls'[q]) : SentInv(q, calls[q][k])'
  BY <1>3 DEF JoinInv, MemInv
<1>. QED BY <1>2, <1>3, <1>4, <1>5, <1>6 DEF MemInv

LEMMA LocalAdvance ==
  ASSUME JoinInv, NEW r \in Ranks, NEW s, s # "return", NEW n, Local(r, s, n),
         Takes(r, s, Done(r), mem[r]) => MemOK(r, Done(r) \cup {s}, n)
  PROVE  MemInv'
<1>1. Step(r) = s
  BY DEF Local
<1>2. Takes(r, s, Done(r), mem[r])
  BY <1>1, Stands
<1>. QED BY <1>1, <1>2, Advance DEF Local, NextStep

LEMMA SameMem ==
  ASSUME JoinInv, UNCHANGED <<program, input, pc, calls, mem>>
  PROVE  MemInv'
<1>1. /\ AllSteps' = AllSteps /\ Steps' = Steps
      /\ \A q, D, m : MemOK(q, D, m)' <=> MemOK(q, D, m)
      /\ \A q, e : SentInv(q, e)' <=> SentInv(q, e)
  BY SameValues
<1>2. \A q : Done(q)' = Done(q)
  BY <1>1 DEF Done, Before
<1>3. ASSUME NEW q \in Ranks PROVE MemOK(q, Done(q), mem[q])'
  BY <1>1, <1>2 DEF JoinInv, MemInv
<1>4. \A q \in Ranks : \A k \in 1 .. Len(calls'[q]) : SentInv(q, calls[q][k])'
  BY <1>1 DEF JoinInv, MemInv
<1>. QED BY <1>1, <1>3, <1>4 DEF JoinInv, MemInv

LEMMA LocalStepMem ==
  ASSUME JoinInv, NEW r \in Ranks, LocalStep(r) PROVE MemInv'
<1>1. CASE Parse(r)
  <2>1. PICK l \in Layers :
          Local(r, <<"parse 1", "parse 2">>[l],
                [mem[r] EXCEPT !.geoms[l] = Parsed(mem[r].lines, l)])
    BY <1>1 DEF Parse
  <2>2. CASE l = 1
    <3>1. Local(r, "parse 1", [mem[r] EXCEPT !.geoms[1] = Parsed(mem[r].lines, 1)])
      BY <2>1, <2>2
    <3>. QED BY <3>1, LocalAdvance, Parse1
  <2>3. CASE l = 2
    <3>1. Local(r, "parse 2", [mem[r] EXCEPT !.geoms[2] = Parsed(mem[r].lines, 2)])
      BY <2>1, <2>3
    <3>. QED BY <3>1, LocalAdvance, Parse2
  <2>. QED BY <2>2, <2>3, TwoLayers
<1>2. CASE Populate(r)
  <2>1. PICK l \in Layers :
          Local(r, <<"populate 1", "populate 2">>[l],
                [mem[r] EXCEPT !.cells[l] = InCells(mem[r].geoms[l], mem[r].grid)])
    BY <1>2 DEF Populate
  <2>2. CASE l = 1
    <3>1. Local(r, "populate 1",
                [mem[r] EXCEPT !.cells[1] = InCells(mem[r].geoms[1], mem[r].grid)])
      BY <2>1, <2>2
    <3>. QED BY <3>1, LocalAdvance, Cells1AreKnown
  <2>3. CASE l = 2
    <3>1. Local(r, "populate 2",
                [mem[r] EXCEPT !.cells[2] = InCells(mem[r].geoms[2], mem[r].grid)])
      BY <2>1, <2>3
    <3>. QED BY <3>1, LocalAdvance, Cells2AreKnown
  <2>. QED BY <2>2, <2>3, TwoLayers
<1>3. CASE ReadQueries(r)
  BY <1>3, LocalAdvance, ReadTheQueries DEF ReadQueries
<1>4. CASE ComputeMBR(r)
  BY <1>4, LocalAdvance, OwnBoxIsKnown DEF ComputeMBR
<1>5. CASE FixUniverse(r)
  BY <1>5, LocalAdvance, FixedBoxIsKnown DEF FixUniverse
<1>6. CASE CreateUniformGrid(r)
  BY <1>6, LocalAdvance, UniformGridIsKnown DEF CreateUniformGrid
<1>7. CASE CreateAdaptiveGrid(r)
  BY <1>7, LocalAdvance, AdaptiveGridIsKnown DEF CreateAdaptiveGrid
<1>8. CASE PartitionQueries(r)
  BY <1>8, LocalAdvance, QueryCellsAreKnown DEF PartitionQueries
<1>9. CASE CreateCellProcessMap(r)
  BY <1>9, LocalAdvance, OwnersAreKnown DEF CreateCellProcessMap
<1>10. CASE JoinQueries(r)
  BY <1>10, LocalAdvance, FoundByQueries DEF JoinQueries
<1>11. CASE JoinPairs(r)
  BY <1>11, LocalAdvance, FoundByPairs DEF JoinPairs
<1>12. CASE JoinOwnCells(r)
  BY <1>12, LocalAdvance, FoundInOwnCells DEF JoinOwnCells
<1>13. CASE JoinNothing(r)
  <2>1. Local(r, "join nothing", mem[r]) /\ "join nothing" \in Idle
    BY <1>13 DEF JoinNothing, Idle
  <2>2. Takes(r, "join nothing", Done(r), mem[r])
          => MemOK(r, Done(r) \cup {"join nothing"}, mem[r])
    BY <2>1, IdleStep
  <2>. QED BY <2>1, <2>2, LocalAdvance
<1>14. CASE JoinOnGPU(r)
  BY <1>14, LocalAdvance, FoundOnGPU DEF JoinOnGPU
<1>15. CASE JoinOwnFiles(r)
  BY <1>15, LocalAdvance, FoundInOwnFiles DEF JoinOwnFiles, FilesFound
<1>16. CASE CreateRTree(r)
  BY <1>16, LocalAdvance, IndexLayer1 DEF CreateRTree
<1>17. CASE ReadAll(r)
  BY <1>17, LocalAdvance, ReadAllLines DEF ReadAll
<1>18. CASE Query(r)
  BY <1>18, LocalAdvance, QueryTheIndex DEF Query
<1>19. CASE Join(r)
  BY <1>19, LocalAdvance, FoundByJoin DEF Join
<1>20. CASE OverlayPairs(r)
  BY <1>20, LocalAdvance, FoundByOverlay DEF OverlayPairs
<1>21. CASE NoQueries(r) \/ NoSuchCell(r) \/ NoPolygons(r) \/ NoPartner(r) \/ TooFewCells(r)
  BY <1>21, SameMem DEF NoQueries, NoSuchCell, NoPolygons, NoPartner, TooFewCells
<1>. QED BY <1>1, <1>2, <1>3, <1>4, <1>5, <1>6, <1>7, <1>8, <1>9, <1>10, <1>11, <1>12, <1>13,
            <1>14, <1>15, <1>16, <1>17, <1>18, <1>19, <1>20, <1>21 DEF LocalStep

(* What a process puts into a call.                                        *)
LEMMA SendsAreKnown ==
  ASSUME NEW r, NEW e, Takes(r, Step(r), Done(r), mem[r]), OutOfRange(r) = {},
         e.call = Step(r), e.sends = Sends(r)
  PROVE  SentInv(r, e)
<1>1. CASE Step(r) = "union"
  <2>1. Sends(r) = mem[r].box
    BY <1>1 DEF Sends, ExchangeSteps
  <2>2. mem[r].box = GetMBR(First(r))
    BY <1>1 DEF Takes, MemOK, GridInv, Ready
  <2>. QED BY <1>1, <2>1, <2>2 DEF SentInv, ExchangeSteps
<1>2. CASE Step(r) = "reduce total"
  <2>1. Sends(r) = Cardinality(mem[r].found)
    BY <1>2 DEF Sends, ExchangeSteps, Output
  <2>2. mem[r].found = FilesFound(r)
    BY <1>2 DEF Takes, MemOK, FoundInv, IsFound, Ready, JoinSteps
  <2>. QED BY <1>2, <2>1, <2>2 DEF SentInv, ExchangeSteps
<1>3. CASE Step(r) \in ExchangeSteps
  <2>. DEFINE s == Step(r)
              what == [p \in Ranks |-> [l \in ExchangedLayers(s) |-> Parcel(r, p, l)]]
  <2>1. Sends(r) = what
    BY <1>3 DEF Sends, ExchangeSteps
  <2>2. /\ mem[r].owner = Owners(CommonGrid)
        /\ mem[r].cells[1] = CellsAt(r, 1)
        /\ s = "exchange pair" => mem[r].cells[2] = CellsAt(r, 2)
    BY <1>3 DEF Takes, MemOK, GridInv, Ready
  <2>3. ASSUME NEW l \in ExchangedLayers(s)
        PROVE  mem[r].cells[l] = CellsAt(r, l)
    <3>1. CASE l = 1
      BY <2>2, <3>1
    <3>2. CASE l # 1
      <4>1. s = "exchange pair" /\ l = 2
        BY <3>2, TwoLayers DEF ExchangedLayers
      <4>. QED BY <2>2, <4>1
    <3>. QED BY <3>1, <3>2
  <2>4. ASSUME NEW p \in Ranks, NEW l \in ExchangedLayers(s)
        PROVE  Parcel(r, p, l) = ParcelTo(r, p, l)
    <3>1. {d \in DOMAIN mem[r].owner : mem[r].owner[d] = p} = OwnedBy(p)
      BY <2>2 DEF Owners, OwnedBy
    <3>. QED BY <2>3, <3>1 DEF Parcel, ParcelTo, CellsOf
  <2>5. what = [p \in Ranks |-> [l \in ExchangedLayers(s) |-> ParcelTo(r, p, l)]]
    BY <2>4
  <2>6. s = "exchange" => DOMAIN CommonGrid \subseteq CellIds
    <3>. SUFFICES ASSUME s = "exchange" PROVE DOMAIN CommonGrid \subseteq CellIds
      OBVIOUS
    <3>1. OutOfRange(r) = DOMAIN mem[r].owner \ CellIds
      BY DEF OutOfRange
    <3>2. DOMAIN mem[r].owner = DOMAIN CommonGrid
      BY <2>2 DEF Owners
    <3>. QED BY <3>1, <3>2
  <2>7. s # "union" /\ s # "reduce total"
    BY <1>3 DEF ExchangeSteps
  <2>. HIDE DEF what
  <2>. QED BY <2>1, <2>5, <2>6, <2>7 DEF SentInv, Parcels
<1>4. CASE Step(r) \notin ExchangeSteps \cup {"union", "reduce total"}
  BY <1>4 DEF SentInv, ExchangeSteps
<1>. QED BY <1>1, <1>2, <1>3, <1>4

LEMMA EnterMem ==
  ASSUME JoinInv, NEW r \in Ranks, Enter(r) PROVE MemInv'
<1>. DEFINE e == [call |-> Step(r), sends |-> Sends(r)]
<1>1. /\ Step(r) # "return" /\ OutOfRange(r) = {} /\ UNCHANGED <<program, input, pc, mem>>
      /\ calls'[r] = Append(calls[r], e) /\ \A q \in Ranks \ {r} : calls'[q] = calls[q]
  BY DEF Enter, CollectiveSteps, JoinInv, CallsInv
<1>2. /\ AllSteps' = AllSteps /\ Steps' = Steps
      /\ \A q, D, m : MemOK(q, D, m)' <=> MemOK(q, D, m)
      /\ \A q, x : SentInv(q, x)' <=> SentInv(q, x)
  BY <1>1, SameValues
<1>3. e.call = Step(r) /\ e.sends = Sends(r)
  OBVIOUS
<1>. HIDE DEF e
<1>4. SentInv(r, e)
  BY <1>1, <1>3, Stands, SendsAreKnown
<1>5. PICK M : calls[r] \in Seq(M)
  BY DEF JoinInv, CallsInv
<1>6. ASSUME NEW k \in 1 .. Len(calls'[r]) PROVE SentInv(r, calls'[r][k])
  <2>1. /\ Len(calls'[r]) = Len(calls[r]) + 1 /\ Len(calls[r]) \in Nat
        /\ \A j \in 1 .. Len(calls[r]) : calls'[r][j] = calls[r][j]
        /\ calls'[r][Len(calls[r]) + 1] = e
    BY <1>1, <1>5, AppendCall
  <2>2. CASE k = Len(calls[r]) + 1
    BY <1>4, <2>1, <2>2
  <2>3. CASE k \in 1 .. Len(calls[r])
    BY <2>1, <2>3 DEF JoinInv, MemInv
  <2>. QED BY <2>1, <2>2, <2>3
<1>7. ASSUME NEW q \in Ranks, NEW k \in 1 .. Len(calls'[q]) PROVE SentInv(q, calls'[q][k])
  <2>1. CASE q = r
    BY <1>6, <2>1
  <2>2. CASE q # r
    BY <1>1, <2>2 DEF JoinInv, MemInv
  <2>. QED BY <2>1, <2>2
<1>8. \A q : Done(q)' = Done(q)
  BY <1>1, <1>2 DEF Done, Before
<1>9. ASSUME NEW q \in Ranks PROVE MemOK(q, Done(q), mem[q])'
  BY <1>1, <1>2, <1>8 DEF JoinInv, MemInv
<1>. QED BY <1>1, <1>2, <1>7, <1>9 DEF JoinInv, MemInv

(* All that have entered the call a process is in have entered the same.   *)
LEMMA SameCall ==
  ASSUME JoinInv, NEW r \in Ranks, inCall[r], NEW q \in Ranks, HasEntered(q, Len(calls[r]))
  PROVE  /\ calls[q][Len(calls[r])].call = Step(r)
         /\ SentInv(q, calls[q][Len(calls[r])])
<1>. DEFINE k == Len(calls[r])
<1>1. /\ pc[r] \in Nat \ {0} /\ Step(r) \in CollectiveSteps
      /\ Len(calls[r]) = NumBefore(pc[r]) + 1 /\ Step(r) = StepAt(pc[r])
  BY DEF JoinInv, CallsInv, Step, StepAt
<1>2. NumBefore(pc[r]) \in Nat
  BY <1>1, NumBeforeNat
<1>3. IsCall(k, Step(r)) /\ k \in Nat \ {0}
  BY <1>1, <1>2 DEF IsCall
<1>4. k \in 1 .. Len(calls[q])
  <2>1. PICK M : calls[q] \in Seq(M)
    BY DEF JoinInv, CallsInv
  <2>2. Len(calls[q]) \in Nat
    BY <2>1
  <2>. QED BY <1>3, <2>2 DEF HasEntered
<1>5. IsCall(k, calls[q][k].call)
  BY <1>4 DEF JoinInv, CallsInv
<1>6. SentInv(q, calls[q][k])
  BY <1>4 DEF JoinInv, MemInv
<1>. HIDE DEF k
<1>7. calls[q][k].call = Step(r)
  BY <1>3, <1>5, OneKthCall
<1>. QED BY <1>6, <1>7 DEF k

LEMMA LeaveMem ==
  ASSUME JoinInv, NEW r \in Ranks, Leave(r) PROVE MemInv'
<1>. DEFINE s == Step(r)
            k == Len(calls[r])
            n == IF s \in Rooted /\ r # 0 THEN mem[r] ELSE Received(r, s, Sent(k))
<1>1. /\ inCall[r] /\ s \in CollectiveSteps /\ s # "return"
      /\ MayLeave(r) /\ UNCHANGED <<program, input, calls>>
      /\ pc' = [pc EXCEPT ![r] = pc[r] + 1]
      /\ mem' = [mem EXCEPT ![r] = n]
  BY DEF Leave, JoinInv, CallsInv, CollectiveSteps
<1>2. Takes(r, s, Done(r), mem[r])
  BY <1>1, Stands
<1>3. ASSUME ~(s \in Rooted /\ r # 0), NEW q \in Ranks
      PROVE  calls[q][k].call = s /\ SentInv(q, calls[q][k]) /\ Sent(k)[q] = calls[q][k].sends
  <2>1. HasEntered(q, k)
    BY <1>1, <1>3 DEF MayLeave
  <2>. QED BY <1>1, <2>1, SameCall DEF Sent
<1>4. Sent(k) = [q \in Ranks |-> Sent(k)[q]]
  BY DEF Sent
<1>5. MemOK(r, Done(r) \cup {s}, n)
  <2>1. CASE s \in Rooted /\ r # 0
    <3>1. n = mem[r] /\ (s \in Idle \/ s = "reduce total")
      BY <2>1 DEF Rooted, Idle
    <3>. HIDE DEF n, k, s
    <3>2. CASE s \in Idle
      BY <1>2, <3>1, <3>2, IdleStep
    <3>3. CASE s = "reduce total"
      BY <1>2, <2>1, <3>1, <3>3, TotalElsewhere
    <3>. QED BY <3>1, <3>2, <3>3
  <2>. SUFFICES ASSUME ~(s \in Rooted /\ r # 0) PROVE MemOK(r, Done(r) \cup {s}, n)
    BY <2>1
  <2>2. n = Received(r, s, Sent(k))
    OBVIOUS
  <2>3. \A q \in Ranks :
          calls[q][k].call = s /\ SentInv(q, calls[q][k]) /\ Sent(k)[q] = calls[q][k].sends
    BY <1>3
  <2>. HIDE DEF n, k
  <2>4. CASE s = "partition"
    <3>1. n = [mem[r] EXCEPT !.lines = LinesOf(1, r) \cup LinesOf(2, r)]
      BY <2>2, <2>4 DEF Received, ExchangeSteps
    <3>. QED BY <1>2, <2>4, <3>1, ReadOwnPart
  <2>5. CASE s = "partition large"
    <3>1. n = [mem[r] EXCEPT !.lines = {}]
      BY <2>2, <2>5 DEF Received, ExchangeSteps
    <3>. QED BY <1>2, <2>5, <3>1, ReadNothing
  <2>6. CASE s = "union"
    <3>1. n = [mem[r] EXCEPT !.box = UnionBox(r, Sent(k))]
      BY <2>2, <2>6 DEF Received, ExchangeSteps
    <3>2. \A q \in Ranks : Sent(k)[q] = GetMBR(First(q))
      BY <2>3, <2>6 DEF SentInv
    <3>. QED BY <1>2, <1>4, <2>6, <3>1, <3>2, UnionIsKnown
  <2>7. CASE s = "verify"
    <3>1. n = [mem[r] EXCEPT !.total = SumFunction(Sent(k))]
      BY <2>2, <2>7 DEF Received, ExchangeSteps
    <3>. QED BY <1>2, <2>7, <3>1, VerifiedTotal
  <2>8. CASE s = "reduce total"
    <3>1. n = [mem[r] EXCEPT !.total = SumFunction(Sent(k))] /\ r = 0
      BY <2>2, <2>8 DEF Received, ExchangeSteps, Rooted
    <3>2. Sent(k) = [q \in Ranks |-> Cardinality(FilesFound(q))]
      BY <1>4, <2>3, <2>8 DEF SentInv
    <3>. QED BY <1>2, <2>8, <3>1, <3>2, TotalIsKnown
  <2>9. CASE s \in ExchangeSteps
    <3>1. n = [mem[r] EXCEPT !.recv = NowReceived(r, s, Sent(k), mem[r])]
      BY <2>2, <2>9 DEF Received, ExchangeSteps, NowReceived
    <3>2. \A q \in Ranks : Sent(k)[q] = Parcels(q, s)
      BY <2>3, <2>9 DEF SentInv
    <3>3. s = "exchange" => DOMAIN CommonGrid \subseteq CellIds
      BY <2>3 DEF SentInv
    <3>. QED BY <1>2, <2>9, <3>1, <3>2, <3>3, RecvIsKnown
  <2>10. CASE s \in Idle
    <3>1. n = mem[r]
      BY <2>2, <2>10 DEF Received, ExchangeSteps, Idle
    <3>. QED BY <1>2, <2>10, <3>1, IdleStep
  <2>. QED BY <1>1, <2>4, <2>5, <2>6, <2>7, <2>8, <2>9, <2>10
           DEF CollectiveSteps, ExchangeSteps, Idle
<1>. HIDE DEF n
<1>. QED BY <1>1, <1>5, Advance

LEMMA InitJoin == Init => JoinInv
<1>. SUFFICES ASSUME Init PROVE JoinInv
  OBVIOUS
<1>1. CallsInv
  BY InitCalls
<1>2. Len(Steps) \in Nat /\ program \in Programs
  <2>1. PICK M : Steps \in Seq(M)
    BY OrderOfSteps DEF Ordered, Init
  <2>. QED BY <2>1 DEF Init
<1>3. ASSUME NEW r \in Ranks PROVE MemOK(r, {}, mem[r])
  <2>. DEFINE two(x) == <<x, x>>
  <2>1. mem[r] = [lines |-> {}, geoms |-> <<{}, {}>>, box |-> Universe, grid |-> <<>>,
                  cells |-> << <<>>, <<>> >>, owner |-> <<>>, recv |-> << <<>>, <<>> >>,
                  index |-> {}, candidates |-> {}, found |-> {}, total |-> 0]
    BY DEF Init
  <2>2. \A x : two(x)[1] = x /\ two(x)[2] = x /\ IsPair(two(x))
    BY TwoLayers DEF IsPair
  <2>3. IsPair(<<{}, {}>>) /\ IsPair(<< <<>>, <<>> >>)
    BY <2>2
  <2>4. IsMem(mem[r])
    BY <2>1, <2>3 DEF IsMem
  <2>5. ReadInv(r, {}, mem[r]) /\ GridInv(r, {}, mem[r]) /\ RecvInv(r, {}, mem[r])
    BY <2>1 DEF ReadInv, GridInv, RecvInv
  <2>6. FoundInv(r, {}, mem[r])
    BY <2>1 DEF FoundInv
  <2>. QED BY <2>4, <2>5, <2>6 DEF MemOK
<1>4. \A r \in Ranks : pc[r] = 1 /\ Done(r) = {} /\ calls[r] = <<>> /\ Len(<<>>) = 0
  BY DEF Init, Done, Before
<1>5. MemInv
  <2>1. mem = [r \in Ranks |-> mem[r]]
    BY DEF Init
  <2>2. \A r \in Ranks : pc[r] <= Len(Steps) + 1
    BY <1>2, <1>4
  <2>3. \A r \in Ranks : MemOK(r, Done(r), mem[r])
    BY <1>3, <1>4
  <2>. QED BY <1>4, <2>1, <2>2, <2>3 DEF MemInv
<1>. QED BY <1>1, <1>5 DEF JoinInv, Init

LEMMA NextJoin == JoinInv /\ [Next]_vars => JoinInv'
<1>. SUFFICES ASSUME JoinInv, [Next]_vars PROVE JoinInv'
  OBVIOUS
<1>1. CallsInv'
  BY NextCalls DEF JoinInv
<1>2. CASE UNCHANGED vars
  BY <1>1, <1>2, SameMem DEF vars, JoinInv
<1>3. CASE \E r \in Ranks : LocalStep(r)
  <2>1. UNCHANGED <<program, input>>
    BY ZenonT(30), <1>3 DEF LocalStep, Local, Parse, ReadQueries, NoQueries, NoSuchCell, ComputeMBR, FixUniverse,
       CreateUniformGrid, CreateAdaptiveGrid, Populate, PartitionQueries, CreateCellProcessMap,
       JoinQueries, JoinPairs, JoinOwnCells, JoinNothing, JoinOnGPU, JoinOwnFiles, NoPolygons, NoPartner, TooFewCells,
       CreateRTree, ReadAll, Query, Join, OverlayPairs
  <2>. QED BY <1>1, <1>3, <2>1, LocalStepMem DEF JoinInv
<1>4. CASE \E r \in Ranks : Enter(r)
  <2>1. UNCHANGED <<program, input>>
    BY <1>4 DEF Enter
  <2>. QED BY <1>1, <1>4, <2>1, EnterMem DEF JoinInv
<1>5. CASE \E r \in Ranks : Leave(r)
  <2>1. UNCHANGED <<program, input>>
    BY <1>5 DEF Leave
  <2>. QED BY <1>1, <1>5, <2>1, LeaveMem DEF JoinInv
<1>. QED BY <1>2, <1>3, <1>4, <1>5 DEF Next, Terminating

(* What each process has in its variables can be said from the input and   *)
(* the steps it has done alone, for every program, input and number of     *)
(* processes.                                                              *)
THEOREM JoinInvHolds == Spec => []JoinInv
BY InitJoin, NextJoin, PTL DEF Spec

-----------------------------------------------------------------------------
(* What the invariant says of a process.                                   *)

(* A step that is done had what it needs.                                  *)
LEMMA DoneWasReady ==
  ASSUME JoinInv, NEW r \in Ranks, NEW s \in Done(r)
  PROVE  s \in AllSteps /\ \E D \in SUBSET Done(r) : Ready(AllSteps, s, D)
<1>1. PICK M : Steps \in Seq(M)
  BY OrderOfSteps DEF Ordered, JoinInv
<1>2. pc[r] \in Nat \ {0} /\ pc[r] <= Len(Steps) + 1 /\ Len(Steps) \in Nat
  BY <1>1 DEF JoinInv, CallsInv, MemInv
<1>3. PICK j \in 1 .. pc[r] - 1 : s = Steps[j]
  BY DEF Done, Before
<1>4. j \in 1 .. Len(Steps) /\ \A i \in 1 .. j - 1 : i \in 1 .. pc[r] - 1
  BY <1>2, <1>3
<1>5. Ready(AllSteps, Steps[j], {} \cup Before(Steps, j - 1))
  BY <1>4, OrderOfSteps DEF Ordered, JoinInv
<1>6. {} \cup Before(Steps, j - 1) \in SUBSET Done(r)
  BY <1>4 DEF Done, Before
<1>. QED BY <1>3, <1>4, <1>5, <1>6 DEF AllSteps, Before

LEMMA MemIs ==
  ASSUME JoinInv, NEW r \in Ranks
  PROVE  MemOK(r, Done(r), mem[r])
BY DEF JoinInv, MemInv

LEMMA InputIs ==
  ASSUME JoinInv
  PROVE  /\ IsFiniteSet(Lines)
         /\ \A x \in Items : Geom(x).layer \in Layers /\ IsBox(BoxOf(x))
BY SpatialJoinConstants DEF JoinInv, IsInput, Lines, Items, Geom, BoxOf

LEMMA FiniteItems ==
  ASSUME JoinInv
  PROVE  IsFiniteSet(Items)
<1>1. IsFiniteSet(Ranks)
  BY SpatialJoinConstants, FS_Interval DEF Ranks
<1>2. IsFiniteSet({Whole} \cup Ranks)
  BY <1>1, FS_Singleton, FS_Union
<1>. QED BY <1>2, InputIs, FS_Product DEF Items

LEMMA LinesRead ==
  ASSUME NEW r \in Ranks
  PROVE  /\ PartOf(r) \subseteq Items /\ First(r) \subseteq Items /\ Second(r) \subseteq Items
         /\ Indexed(r) \subseteq Items /\ \A l : WholeFile(l) \subseteq Items
         /\ PairsAt(r) \subseteq Items \X Items
<1>1. PartOf(r) \subseteq Items /\ \A l : WholeFile(l) \subseteq Items
  <2>1. \A l : LinesOf(l, r) \subseteq Items /\ WholeFile(l) \subseteq Items
    BY DEF LinesOf, Items, WholeFile
  <2>. QED BY <2>1 DEF PartOf
<1>2. First(r) \subseteq Items /\ Second(r) \subseteq Items
  BY <1>1 DEF First, Second, Parsed
<1>3. Indexed(r) \subseteq Items
  BY <1>1, <1>2 DEF Indexed, Parsed
<1>. QED BY <1>1, <1>2, <1>3 DEF PairsAt, Candidates

(* What a process is sent: the geometries that others have in its cells.   *)
LEMMA BoxesAre ==
  ASSUME NEW r \in Ranks, NEW l \in Layers, NEW b
  PROVE  b \in Boxes(r, AllParcels, l) <=>
           \E q \in Ranks, c \in OwnedBy(r) :
             \E x \in CellsAt(q, l)[c] : b = [from |-> q, cellId |-> c, geom |-> x]
<1>1. ASSUME NEW q \in Ranks
      PROVE  /\ DOMAIN AllParcels[q][r][l] = OwnedBy(r)
             /\ \A c \in OwnedBy(r) : AllParcels[q][r][l][c] = CellsAt(q, l)[c]
  BY DEF AllParcels, ParcelTo
<1>2. b \in Boxes(r, AllParcels, l) <=>
        \E q \in Ranks : \E c \in DOMAIN AllParcels[q][r][l] :
          \E x \in AllParcels[q][r][l][c] : b = [from |-> q, cellId |-> c, geom |-> x]
  BY DEF Boxes
<1>. QED BY <1>1, <1>2

LEMMA RecvDomain ==
  ASSUME NEW r \in Ranks, NEW l \in Layers
  PROVE  /\ DOMAIN RecvAt(r, l) \subseteq OwnedBy(r)
         /\ \A c \in DOMAIN RecvAt(r, l) : RecvAt(r, l)[c] # {}
<1>. DEFINE boxes == Boxes(r, AllParcels, l)
<1>1. \A b \in boxes : b.cellId \in OwnedBy(r)
  BY BoxesAre
<1>2. RecvAt(r, l) = [c \in {b.cellId : b \in {d \in boxes : GeomsOfCell(boxes, d.cellId) # {}}} |->
                        GeomsOfCell(boxes, c)]
  BY DEF RecvAt, GroupedByCell
<1>. HIDE DEF boxes
<1>. QED BY <1>1, <1>2

LEMMA GridIds == DOMAIN CommonGrid \subseteq Int
<1>1. DOMAIN UniformCells(CommonBox) \subseteq Int
  <2>1. 0 .. numPartitions - 1 \subseteq Int
    BY SpatialJoinConstants
  <2>. QED BY <2>1 DEF UniformCells
<1>2. DOMAIN AdaptiveCells \subseteq Int
  BY DEF AdaptiveCells
<1>. QED BY <1>1, <1>2 DEF CommonGrid

LEMMA JoinType ==
  ASSUME JoinInv, killed \in BOOLEAN
  PROVE  TypeOK
<1>1. PICK M : Steps \in Seq(M)
  BY OrderOfSteps DEF Ordered, JoinInv
<1>2. ASSUME NEW r \in Ranks PROVE pc[r] \in 1 .. Len(Steps) + 1
  BY <1>1 DEF JoinInv, CallsInv, MemInv
<1>3. ASSUME NEW r \in Ranks
      PROVE  /\ mem[r].lines \subseteq Items /\ mem[r].index \subseteq Items
             /\ mem[r].candidates \subseteq Items \X Items
             /\ \A l \in Layers : mem[r].geoms[l] \subseteq Items
  <2>0. ReadInv(r, Done(r), mem[r])
    BY MemIs DEF MemOK
  <2>1. mem[r].geoms[1] \in {First(r), {}} /\ mem[r].geoms[2] \in {Second(r), {}}
    BY <2>0 DEF ReadInv
  <2>2. mem[r].lines \in {WholeFile(2), PartOf(r), {}} /\ mem[r].index \in {Indexed(r), {}}
    BY <2>0 DEF ReadInv
  <2>3. mem[r].candidates \subseteq Items \X Items
    BY MemIs, LinesRead DEF MemOK, FoundInv
  <2>. QED BY <2>1, <2>2, <2>3, LinesRead, TwoLayers
<1>4. ASSUME NEW r \in Ranks, NEW c \in DOMAIN mem[r].owner
      PROVE  mem[r].owner[c] \in Ranks
  <2>1. mem[r].owner = Owners(CommonGrid) \/ mem[r].owner = <<>>
    BY MemIs DEF MemOK, GridInv
  <2>2. mem[r].owner = Owners(CommonGrid) /\ c \in DOMAIN CommonGrid
    BY <2>1 DEF Owners
  <2>3. mem[r].owner[c] = c % numProcesses /\ c \in Int
    BY <2>2, GridIds DEF Owners
  <2>. QED BY <2>3, SpatialJoinConstants DEF Ranks
<1>5. ASSUME NEW r \in Ranks, NEW l \in Layers
      PROVE  /\ DOMAIN mem[r].cells[l] \subseteq CellIds
             /\ DOMAIN mem[r].recv[l] \subseteq DOMAIN mem[r].owner
  <2>1. DOMAIN <<>> = {} /\ DOMAIN CellsAt(r, 1) = CellIds /\ DOMAIN CellsAt(r, 2) = CellIds
    BY DEF CellsAt, InCells
  <2>2. DOMAIN mem[r].cells[1] \subseteq CellIds /\ DOMAIN mem[r].cells[2] \subseteq CellIds
    BY <2>1, MemIs DEF MemOK, GridInv
  <2>3. CASE ExchangeSteps \cap Done(r) = {}
    <3>1. "exchange pair" \notin Done(r)
      BY <2>3 DEF ExchangeSteps
    <3>2. mem[r].recv[1] = <<>> /\ mem[r].recv[2] = <<>>
      BY <2>3, <3>1, MemIs DEF MemOK, RecvInv
    <3>. QED BY <2>1, <2>2, <3>2, TwoLayers
  <2>4. CASE ExchangeSteps \cap Done(r) # {}
    <3>1. PICK s \in ExchangeSteps : s \in Done(r)
      BY <2>4
    <3>2. "strategy" \in Done(r)
      BY <3>1, DoneWasReady DEF Ready
    <3>3. DOMAIN mem[r].owner = DOMAIN CommonGrid
      BY <3>2, MemIs DEF MemOK, GridInv, Owners
    <3>4. /\ DOMAIN RecvAt(r, 1) \subseteq DOMAIN CommonGrid
          /\ DOMAIN RecvAt(r, 2) \subseteq DOMAIN CommonGrid
      BY RecvDomain, TwoLayers DEF OwnedBy
    <3>5. /\ DOMAIN mem[r].recv[1] \subseteq DOMAIN CommonGrid
          /\ DOMAIN mem[r].recv[2] \subseteq DOMAIN CommonGrid
      BY <2>1, <3>4, MemIs DEF MemOK, RecvInv
    <3>. QED BY <2>2, <3>3, <3>5, TwoLayers
  <2>. QED BY <2>3, <2>4
<1>6. pc \in [Ranks -> 1 .. Len(Steps) + 1] /\ inCall \in [Ranks -> BOOLEAN]
  BY <1>2 DEF JoinInv, CallsInv
<1>. QED BY <1>3, <1>4, <1>5, <1>6 DEF TypeOK, JoinInv

(* The types of the variables, for every program, input and number of      *)
(* processes.                                                              *)
THEOREM TypeCorrect == Spec => []TypeOK
<1>1. Init => killed \in BOOLEAN
  BY DEF Init
<1>2. killed \in BOOLEAN /\ [Next]_vars => (killed \in BOOLEAN)'
  <2>. SUFFICES ASSUME killed \in BOOLEAN, [Next]_vars PROVE killed' = killed \/ killed' = TRUE
    OBVIOUS
  <2>1. ASSUME NEW r \in Ranks, LocalStep(r) PROVE killed' = killed \/ killed' = TRUE
    BY <2>1 DEF LocalStep, Local, Parse, ReadQueries, NoQueries, NoSuchCell, ComputeMBR, FixUniverse,
       CreateUniformGrid, CreateAdaptiveGrid, Populate, PartitionQueries, CreateCellProcessMap,
       JoinQueries, JoinPairs, JoinOwnCells, JoinNothing, JoinOnGPU, JoinOwnFiles, NoPolygons, NoPartner, TooFewCells,
       CreateRTree, ReadAll, Query, Join, OverlayPairs
  <2>. QED BY <2>1 DEF Next, Enter, Leave, Terminating, vars
<1>. QED BY <1>1, <1>2, JoinInvHolds, JoinType, PTL DEF Spec

(* The reducer of a cell has an index whenever it is queried, for every    *)
(* number of processes.                                                    *)
THEOREM IndexBeforeQueryHolds == Spec => []IndexBeforeQuery
<1>1. ASSUME JoinInv, NEW r \in Ranks, Step(r) \in {"join queries", "join pairs", "join on GPU"},
             NEW second, NEW c \in ReducedCells(mem[r].recv[1], second)
      PROVE  mem[r].recv[1][c] # {}
  <2>1. ExchangeSteps \cap Done(r) # {}
    BY <1>1, Stands DEF Takes, Ready, ExchangeSteps
  <2>2. mem[r].recv[1] = RecvAt(r, 1) /\ c \in DOMAIN mem[r].recv[1]
    BY <1>1, <2>1, MemIs DEF MemOK, RecvInv, ReducedCells
  <2>. QED BY <2>2, RecvDomain, TwoLayers
<1>2. JoinInv => IndexBeforeQuery
  BY <1>1, Zenon DEF IndexBeforeQuery
<1>. QED BY <1>2, JoinInvHolds, PTL

-----------------------------------------------------------------------------
(* Boxes.                                                                  *)

(* A finite set of integers that is not empty has a least and a greatest.  *)
LEMMA HasBounds ==
  ASSUME NEW S, IsFiniteSet(S), S # {}, NEW f, \A x \in S : f[x] \in Int
  PROVE  /\ \E x \in S : \A y \in S : f[x] <= f[y]
         /\ \E x \in S : \A y \in S : f[y] <= f[x]
<1>. DEFINE Good == {T \in SUBSET S : T # {} =>
                       /\ \E x \in T : \A y \in T : f[x] <= f[y]
                       /\ \E x \in T : \A y \in T : f[y] <= f[x]}
<1>1. ASSUME NEW T \in SUBSET S, \A U \in SUBSET T : U # T => U \in Good
      PROVE  T \in Good
  <2>. SUFFICES ASSUME T # {}
                PROVE  /\ \E x \in T : \A y \in T : f[x] <= f[y]
                       /\ \E x \in T : \A y \in T : f[y] <= f[x]
    OBVIOUS
  <2>1. PICK z \in T : TRUE
    OBVIOUS
  <2>2. CASE T = {z}
    BY <2>2
  <2>3. CASE T # {z}
    <3>1. T \ {z} \in Good /\ T \ {z} # {}
      BY <1>1, <2>1, <2>3
    <3>2. PICK a \in T \ {z} : \A y \in T \ {z} : f[a] <= f[y]
      BY <3>1
    <3>3. PICK b \in T \ {z} : \A y \in T \ {z} : f[y] <= f[b]
      BY <3>1
    <3>4. \E x \in T : \A y \in T : f[x] <= f[y]
      <4>1. CASE f[a] <= f[z]
        BY <3>2, <4>1
      <4>2. CASE ~(f[a] <= f[z])
        BY <3>2, <4>2
      <4>. QED BY <4>1, <4>2
    <3>5. \E x \in T : \A y \in T : f[y] <= f[x]
      <4>1. CASE f[z] <= f[b]
        BY <3>3, <4>1
      <4>2. CASE ~(f[z] <= f[b])
        BY <3>3, <4>2
      <4>. QED BY <4>1, <4>2
    <3>. QED BY <3>4, <3>5
  <2>. QED BY <2>2, <2>3
<1>. HIDE DEF Good
<1>2. S \in Good
  BY <1>1, SubsetInduction
<1>. QED BY <1>2 DEF Good

(* The hull of boxes is a box around them.                                 *)
LEMMA HullIsAround ==
  ASSUME NEW B, IsFiniteSet(B), B # {}, \A b \in B : IsBox(b)
  PROVE  /\ IsBox(Hull(B))
         /\ \A b \in B : Hull(B).lo <= b.lo /\ b.hi <= Hull(B).hi
<1>. DEFINE low == [b \in B |-> b.lo]
            high == [b \in B |-> b.hi]
            x == CHOOSE v \in {b.lo : b \in B} : \A b \in B : v <= b.lo
            y == CHOOSE v \in {b.hi : b \in B} : \A b \in B : v >= b.hi
<1>1. \A b \in B : b.lo \in Int /\ b.hi \in Int /\ b.lo <= b.hi
  BY DEF IsBox
<1>2. x \in {b.lo : b \in B} /\ \A b \in B : x <= b.lo
  <2>1. \A b \in B : low[b] \in Int
    BY <1>1
  <2>2. PICK a \in B : \A b \in B : low[a] <= low[b]
    BY <2>1, HasBounds
  <2>3. \E v \in {b.lo : b \in B} : \A b \in B : v <= b.lo
    BY <2>2
  <2>. QED BY <2>3
<1>3. y \in {b.hi : b \in B} /\ \A b \in B : y >= b.hi
  <2>1. \A b \in B : high[b] \in Int
    BY <1>1
  <2>2. PICK a \in B : \A b \in B : high[b] <= high[a]
    BY ZenonT(30), <2>1, HasBounds
  <2>3. \E v \in {b.hi : b \in B} : \A b \in B : v >= b.hi
    BY <2>2
  <2>. QED BY <2>3
<1>4. Hull(B) = [lo |-> x, hi |-> y]
  BY DEF Hull, Box
<1>. HIDE DEF x, y
<1>5. x \in Int /\ y \in Int /\ x <= y
  BY <1>1, <1>2, <1>3
<1>6. Hull(B).lo = x /\ Hull(B).hi = y
  BY <1>4
<1>. QED BY <1>1, <1>2, <1>3, <1>5, <1>6 DEF IsBox

(* The box of geometries contains the box of each.                         *)
LEMMA MBRIsAround ==
  ASSUME NEW G, IsFiniteSet(G), \A i \in G : IsBox(BoxOf(i))
  PROVE  /\ IsBox(GetMBR(G))
         /\ \A i \in G : GetMBR(G).lo <= BoxOf(i).lo /\ BoxOf(i).hi <= GetMBR(G).hi
<1>1. CASE G = {}
  BY <1>1, SpatialJoinConstants DEF GetMBR
<1>2. CASE G # {}
  <2>. DEFINE B == {BoxOf(i) : i \in G}
  <2>1. IsFiniteSet(B)
    <3>. DEFINE f == [i \in G |-> BoxOf(i)]
    <3>1. f \in Surjection(G, B)
      BY DEF Surjection
    <3>. QED BY <3>1, FS_Surjection
  <2>2. B # {} /\ \A b \in B : IsBox(b)
    BY <1>2
  <2>3. GetMBR(G) = Hull(B)
    BY <1>2 DEF GetMBR
  <2>4. \A i \in G : BoxOf(i) \in B
    OBVIOUS
  <2>. HIDE DEF B
  <2>. QED BY <2>1, <2>2, <2>3, <2>4, HullIsAround
<1>. QED BY <1>1, <1>2

(* Multiplication by a width that is not negative keeps the order.         *)
LEMMA TimesKeepsOrder ==
  ASSUME NEW a \in Int, NEW b \in Int, NEW w \in Nat, a <= b
  PROVE  a * w <= b * w
<1>1. (b - a) * w >= 0 /\ (b - a) * w = b * w - a * w
  OBVIOUS
<1>. QED BY <1>1

(* A distance of at most n widths ends in one of n pieces of that width.   *)
LEMMA SomePiece ==
  ASSUME NEW n \in Nat \ {0}, NEW w \in Nat, NEW d \in Nat, d <= n * w
  PROVE  \E c \in 0 .. n - 1 : c * w <= d /\ d <= (c + 1) * w
<1>1. CASE w = 0
  <2>1. d = 0 /\ 0 \in 0 .. n - 1 /\ 0 * w = 0 /\ (0 + 1) * w = 0
    BY <1>1
  <2>. QED BY <2>1
<1>2. CASE w # 0
  <2>. DEFINE c == d \div w
  <2>1. c \in Nat /\ c * w <= d /\ d <= (c + 1) * w
    BY <1>2
  <2>. HIDE DEF c
  <2>2. CASE c <= n - 1
    BY <2>1, <2>2
  <2>3. CASE c >= n
    <3>1. n * w <= c * w
      BY <2>1, <2>3, TimesKeepsOrder
    <3>2. d = n * w /\ (n - 1) * w <= n * w /\ ((n - 1) + 1) * w = n * w
      BY <2>1, <3>1, TimesKeepsOrder
    <3>. QED BY <3>2
  <2>. QED BY <2>1, <2>2, <2>3
<1>. QED BY <1>1, <1>2

(* The uniform grid of a box covers it: a box inside meets a cell.         *)
LEMMA GridCovers ==
  ASSUME NEW u, IsBox(u), NEW b, IsBox(b), u.lo <= b.lo, b.hi <= u.hi
  PROVE  \E c \in 0 .. numPartitions - 1 : Meet(Scaled(b), UniformCells(u)[c])
<1>. DEFINE N == numPartitions
            w == u.hi - u.lo
            d == b.lo * N - u.lo * N
<1>1. N \in Nat \ {0} /\ {u.lo, u.hi, b.lo, b.hi} \subseteq Int
      /\ u.lo <= b.lo /\ b.lo <= b.hi /\ b.hi <= u.hi
  BY SpatialJoinConstants DEF IsBox
<1>2. /\ w \in Nat /\ d \in Nat /\ d <= N * w /\ d + u.lo * N = b.lo * N
      /\ b.lo * N <= b.hi * N
  <2>1. u.lo * N <= b.lo * N /\ b.lo * N <= b.hi * N /\ b.hi * N <= u.hi * N
    BY <1>1, TimesKeepsOrder
  <2>2. N * w = u.hi * N - u.lo * N
    BY <1>1
  <2>3. b.lo * N \in Int /\ u.lo * N \in Int
    BY <1>1
  <2>. HIDE DEF N
  <2>. QED BY <1>1, <2>1, <2>2, <2>3
<1>3. PICK c \in 0 .. N - 1 : c * w <= d /\ d <= (c + 1) * w
  BY <1>1, <1>2, SomePiece
<1>4. UniformCells(u)[c] = [lo |-> u.lo * N + c * w, hi |-> u.lo * N + (c + 1) * w]
  BY <1>3 DEF UniformCells, Box
<1>5. Scaled(b) = [lo |-> b.lo * N, hi |-> b.hi * N]
  BY DEF Scaled, Box
<1>6. b.lo * N <= u.lo * N + (c + 1) * w /\ u.lo * N + c * w <= b.hi * N
  <2>1. /\ c * w \in Int /\ (c + 1) * w \in Int /\ b.lo * N \in Int /\ u.lo * N \in Int
        /\ b.hi * N \in Int
    BY <1>1, <1>2, <1>3
  <2>. HIDE DEF d, w, N
  <2>. QED BY <1>2, <1>3, <2>1
<1>. HIDE DEF N, w, d
<1>. QED BY <1>3, <1>4, <1>5, <1>6 DEF Meet, N

-----------------------------------------------------------------------------
(* The grid.                                                               *)

(* The united box is around the geometries of layer 1 of every process.    *)
LEMMA CommonBoxIsAround ==
  ASSUME JoinInv, "union" \in AllSteps, NEW r \in Ranks, NEW i \in First(r)
  PROVE  /\ IsBox(CommonBox) /\ i \in Items /\ IsBox(BoxOf(i))
         /\ CommonBox.lo <= BoxOf(i).lo /\ BoxOf(i).hi <= CommonBox.hi
<1>1. \A q \in Ranks : IsFiniteSet(First(q)) /\ \A j \in First(q) : j \in Items /\ IsBox(BoxOf(j))
  BY LinesRead, InputIs, FiniteItems, FS_Subset
<1>2. /\ \A q \in Ranks : IsBox(GetMBR(First(q)))
      /\ GetMBR(First(r)).lo <= BoxOf(i).lo /\ BoxOf(i).hi <= GetMBR(First(r)).hi
  BY <1>1, MBRIsAround
<1>3. /\ IsBox(CommonBox)
      /\ CommonBox.lo <= GetMBR(First(r)).lo /\ GetMBR(First(r)).hi <= CommonBox.hi
  <2>. DEFINE B == {GetMBR(First(q)) : q \in Ranks}
  <2>1. IsFiniteSet(B)
    <3>. DEFINE f == [q \in Ranks |-> GetMBR(First(q))]
    <3>1. f \in Surjection(Ranks, B)
      BY DEF Surjection
    <3>2. IsFiniteSet(Ranks)
      BY SpatialJoinConstants, FS_Interval DEF Ranks
    <3>. QED BY <3>1, <3>2, FS_Surjection
  <2>2. GetMBR(First(r)) \in B /\ \A b \in B : IsBox(b)
    BY <1>2
  <2>3. CommonBox = Hull(B)
    BY DEF CommonBox
  <2>. HIDE DEF B
  <2>. QED BY <2>1, <2>2, <2>3, HullIsAround
<1>4. /\ {CommonBox.lo, CommonBox.hi, BoxOf(i).lo, BoxOf(i).hi} \subseteq Int
      /\ {GetMBR(First(r)).lo, GetMBR(First(r)).hi} \subseteq Int
  BY <1>1, <1>2, <1>3 DEF IsBox
<1>. QED BY <1>1, <1>2, <1>3, <1>4

LEMMA UnitedGrid ==
  ASSUME JoinInv, "union" \in AllSteps
  PROVE  /\ CommonGrid = UniformCells(CommonBox) /\ CellIds = 0 .. numPartitions - 1
         /\ DOMAIN CommonGrid = CellIds
<1>1. "adaptive grid" \notin AllSteps /\ program # "adaptive"
  BY OrderOfSteps DEF Facts, JoinInv
<1>. QED BY <1>1 DEF CommonGrid, CellIds, UniformCells

(* A program that unites the boxes builds a grid that no geometry of layer *)
(* 1 is outside of.                                                        *)
LEMMA AllInGrid ==
  ASSUME JoinInv, "union" \in AllSteps, NEW r \in Ranks
  PROVE  First(r) \subseteq UNION Range(CellsAt(r, 1))
<1>. SUFFICES ASSUME NEW i \in First(r) PROVE \E c \in CellIds : i \in CellsAt(r, 1)[c]
  <2>1. DOMAIN CellsAt(r, 1) = CellIds
    BY DEF CellsAt, InCells
  <2>. QED BY <2>1 DEF Range
<1>1. PICK c \in 0 .. numPartitions - 1 : Meet(Scaled(BoxOf(i)), UniformCells(CommonBox)[c])
  BY CommonBoxIsAround, GridCovers
<1>2. c \in DOMAIN CommonGrid /\ c \in CellIds
  BY UnitedGrid
<1>3. InGrid(r, 1) = First(r)
  BY DEF InGrid
<1>4. i \in CellsAt(r, 1)[c]
  BY <1>1, <1>2, <1>3, UnitedGrid DEF CellsAt, InCells
<1>. QED BY <1>2, <1>4

(* All processes have the same grid and the same owners of its cells, and  *)
(* a grid built for the union of the boxes holds every geometry of layer   *)
(* 1: for every number of processes and partitions, and all boxes.         *)
THEOREM GridsAgreeHolds == Spec => []GridsAgree
<1>1. ASSUME JoinInv PROVE GridsAgree
  <2>1. ASSUME NEW r \in Ranks
        PROVE  mem[r].grid \in {<<>>, CommonGrid} /\ mem[r].owner \in {<<>>, Owners(CommonGrid)}
    BY <1>1, MemIs DEF MemOK, GridInv
  <2>2. ASSUME Contains(Steps, "union"), NEW r \in Ranks, mem[r].cells[1] # <<>>
        PROVE  mem[r].geoms[1] \subseteq UNION Range(mem[r].cells[1])
    <3>1. "union" \in AllSteps
      BY <2>2 DEF Contains, AllSteps, Before
    <3>2. mem[r].cells[1] = CellsAt(r, 1) /\ mem[r].geoms[1] \subseteq First(r)
      BY <1>1, <2>2, MemIs DEF MemOK, GridInv, ReadInv
    <3>. QED BY <1>1, <3>1, <3>2, AllInGrid
  <2>. QED BY <2>1, <2>2 DEF GridsAgree
<1>. QED BY <1>1, JoinInvHolds, PTL

-----------------------------------------------------------------------------
(* What is found.                                                          *)

(* What a process has found is nothing, or what the one join step of its   *)
(* program finds.                                                          *)
LEMMA FoundIs ==
  ASSUME JoinInv, NEW r \in Ranks
  PROVE  \/ mem[r].found = {}
         \/ \E s \in JoinSteps \cap AllSteps : s \in Done(r) /\ IsFound(r, s, mem[r].found)
<1>1. CASE JoinSteps \cap Done(r) = {}
  BY <1>1, MemIs DEF MemOK, FoundInv
<1>2. CASE JoinSteps \cap Done(r) # {}
  <2>1. PICK s \in JoinSteps : s \in Done(r)
    BY <1>2
  <2>. QED BY <2>1, MemIs, DoneWasReady DEF MemOK, FoundInv
<1>. QED BY <1>1, <1>2

LEMMA OneJoinStep ==
  ASSUME JoinInv, NEW s \in JoinSteps \cap AllSteps, NEW t \in JoinSteps \cap AllSteps
  PROVE  s = t
BY OrderOfSteps DEF Facts, JoinInv

(* Pairs in the cells of layer 1 a process was sent are in its own cells.  *)
LEMMA ReducedInOwnCells ==
  ASSUME NEW r, NEW first, DOMAIN first \subseteq OwnedBy(r), NEW second,
         NEW x \in Reduced(first, second)
  PROVE  x.cellId % numProcesses = r
BY DEF Reduced, ReducedCells, InCell, OwnedBy

(* A program that does not join with the whole of layer 2 finds pairs in   *)
(* cells that process r owns.                                              *)
LEMMA FoundInOwn ==
  ASSUME JoinInv, program \notin JoinsWithLayer2, NEW r \in Ranks, NEW x \in mem[r].found
  PROVE  x.cellId % numProcesses = r
<1>1. PICK s \in JoinSteps \cap AllSteps : IsFound(r, s, mem[r].found)
  BY FoundIs
<1>2. s \notin {"join", "overlay"}
  BY OrderOfSteps DEF Facts, JoinInv, JoinsWithLayer2
<1>3. CASE s \in {"join queries", "join pairs", "join on GPU"}
  <2>1. /\ DOMAIN RecvAt(r, 1) \subseteq OwnedBy(r)
        /\ DOMAIN Polygons(RecvAt(r, 1)) \subseteq OwnedBy(r)
    BY RecvDomain, TwoLayers DEF Polygons
  <2>2. \E first, second : DOMAIN first \subseteq OwnedBy(r) /\ x \in Reduced(first, second)
    BY <1>1, <1>3, <2>1 DEF IsFound
  <2>. QED BY <2>2, ReducedInOwnCells
<1>4. CASE s = "join own files"
  <2>1. x \in FilesFound(r)
    BY <1>1, <1>4 DEF IsFound
  <2>. QED BY <2>1 DEF FilesFound, InCell, OwnFiles
<1>5. CASE s = "join own cells"
  <2>1. First(r) = {}
    BY <1>5, OrderOfSteps DEF Facts, JoinInv, First, PartOf, Parsed
  <2>2. \A c \in DOMAIN CellsAt(r, 1) : CellsAt(r, 1)[c] = {}
    BY <2>1 DEF CellsAt, InCells, InGrid
  <2>3. OwnReduced(CellsAt(r, 1), CellsAt(r, 2)) = {}
    BY <2>2 DEF OwnReduced, ReducedCells
  <2>. QED BY <1>1, <1>5, <2>3 DEF IsFound
<1>. QED BY <1>2, <1>3, <1>4, <1>5 DEF JoinSteps

(* No two processes find pairs in the same cell, for every number of them, *)
(* whatever lines they have read and wherever texts were put.              *)
THEOREM FoundOnceHolds == Spec => []FoundOnce
<1>1. ASSUME JoinInv PROVE FoundOnce
  <2>. SUFFICES ASSUME program \notin JoinsWithLayer2, NEW r \in Ranks, NEW q \in Ranks, r # q,
                       NEW x \in mem[r].found, NEW y \in mem[q].found, x.cellId = y.cellId
                PROVE  FALSE
    BY DEF FoundOnce
  <2>. QED BY <1>1, FoundInOwn
<1>. QED BY <1>1, JoinInvHolds, PTL

-----------------------------------------------------------------------------
(* What all processes find together.                                       *)

LEMMA InCandidates ==
  ASSUME NEW A, NEW B, NEW p
  PROVE  p \in Candidates(A, B) <=>
           p = <<p[1], p[2]>> /\ p[1] \in A /\ p[2] \in B /\ Meet(BoxOf(p[1]), BoxOf(p[2]))
<1>1. p \in A \X B <=> p = <<p[1], p[2]>> /\ p[1] \in A /\ p[2] \in B
  OBVIOUS
<1>. QED BY <1>1 DEF Candidates

(* A program joins in one way only.                                        *)
LEMMA OneKind ==
  ASSUME JoinInv
  PROVE  /\ BroadcastJoins \cap {"adaptive", "static", "overlay", "cuda"} \cap {program} = {}
         /\ program \in JoinsWithLayer2 =>
              {"partition", "read all 2", "query"} \subseteq AllSteps /\ "read queries" \notin AllSteps
<1>1. /\ program \in BroadcastJoins <=> "join" \in AllSteps
      /\ program = "adaptive" <=> "join queries" \in AllSteps
      /\ program = "static" <=> "join own files" \in AllSteps
      /\ program = "overlay" <=> "overlay" \in AllSteps
      /\ program = "cuda" <=> "join on GPU" \in AllSteps
  BY OrderOfSteps DEF Facts, JoinInv
<1>2. ASSUME "join" \in AllSteps,
             NEW s \in {"join queries", "join own files", "overlay", "join on GPU"} \cap AllSteps
      PROVE  FALSE
  <2>1. "join" \in JoinSteps \cap AllSteps /\ s \in JoinSteps \cap AllSteps /\ s # "join"
    BY <1>2 DEF JoinSteps
  <2>. QED BY <2>1, OneJoinStep
<1>3. program \in JoinsWithLayer2 => {"join", "overlay"} \cap AllSteps # {}
  BY <1>1 DEF JoinsWithLayer2
<1>4. program \in JoinsWithLayer2 =>
        {"partition", "read all 2", "query"} \subseteq AllSteps /\ "read queries" \notin AllSteps
  BY <1>3, OrderOfSteps DEF Facts, JoinInv
<1>. QED BY <1>1, <1>2, <1>4

(* The copies of lines of a layer in the parts of a file are what the      *)
(* processes parse of them.                                                *)
LEMMA PartsRead ==
  ASSUME "partition" \in AllSteps, NEW l \in Layers, NEW x
  PROVE  x \in Parsed(UNION {LinesOf(l, r) : r \in Ranks}, l) <=>
           \E q \in Ranks : x \in Parsed(PartOf(q), l)
<1>1. \A q : PartOf(q) = LinesOf(1, q) \cup LinesOf(2, q)
  BY DEF PartOf
<1>2. \A k, q : x \in LinesOf(k, q) => Geom(x).layer = k
  BY DEF LinesOf, Geom
<1>. QED BY <1>1, <1>2, TwoLayers DEF Parsed

(* Of layer 1, and on the GPU of layer 2, the copies are what the processes *)
(* have in memory among them; other programs have all of layer 2 each.     *)
LEMMA LayersRead ==
  ASSUME JoinInv, program \in JoinsWithLayer2 \cup {"adaptive", "cuda"}
  PROVE  /\ "partition" \in AllSteps
         /\ \A x : x \in Copies(1) <=> \E q \in Ranks : x \in First(q)
         /\ program \in JoinsWithLayer2 =>
              \A q \in Ranks : Indexed(q) = First(q) /\ Second(q) = Copies(2)
         /\ program = "adaptive" => \A q \in Ranks : Indexed(q) = Copies(2)
         /\ program = "cuda" => \A x : x \in Copies(2) <=> \E q \in Ranks : x \in Second(q)
<1>1. program # "static" /\ (program = "cuda" => program \notin JoinsWithLayer2)
  BY OneKind DEF JoinsWithLayer2
<1>2. /\ program \in JoinsWithLayer2 =>
           {"partition", "read all 2"} \subseteq AllSteps /\ "read queries" \notin AllSteps
      /\ program \in {"adaptive", "cuda"} => "partition" \in AllSteps /\ "read all 2" \notin AllSteps
      /\ program = "adaptive" => "read queries" \in AllSteps
  BY OneKind, OrderOfSteps DEF Facts, JoinInv
<1>3. /\ ~ReadWhole(1) /\ (program = "cuda" => ~ReadWhole(2))
      /\ (program \in JoinsWithLayer2 \cup {"adaptive"} => ReadWhole(2))
  BY <1>1, TwoLayers DEF ReadWhole
<1>4. /\ Copies(1) = Parsed(UNION {LinesOf(1, r) : r \in Ranks}, 1)
      /\ program = "cuda" => Copies(2) = Parsed(UNION {LinesOf(2, r) : r \in Ranks}, 2)
      /\ program \in JoinsWithLayer2 \cup {"adaptive"} => Copies(2) = Parsed(WholeFile(2), 2)
  BY <1>3 DEF Copies
<1>5. \A x : x \in Copies(1) <=> \E q \in Ranks : x \in First(q)
  BY <1>2, <1>4, PartsRead, TwoLayers DEF First
<1>6. ASSUME program \in JoinsWithLayer2, NEW q \in Ranks
      PROVE  Indexed(q) = First(q) /\ Second(q) = Copies(2)
  BY <1>2, <1>4, <1>6 DEF Indexed, Second
<1>7. ASSUME program = "adaptive", NEW q \in Ranks
      PROVE  Indexed(q) = Copies(2)
  BY <1>2, <1>4, <1>7 DEF Indexed
<1>8. program = "cuda" => \A x : x \in Copies(2) <=> \E q \in Ranks : x \in Second(q)
  BY <1>2, <1>4, PartsRead, TwoLayers DEF Second
<1>. QED BY <1>2, <1>5, <1>6, <1>7, <1>8

AllCandidates == Candidates(Copies(1), Copies(2))

(* The pairs of a process are those whose copy of layer 1 it has read.     *)
LEMMA PairsRead ==
  ASSUME JoinInv, program \in JoinsWithLayer2
  PROVE  /\ \A r \in Ranks : PairsAt(r) \subseteq AllCandidates
         /\ \A r \in Ranks : \A p \in PairsAt(r) : p[1][2] = r
         /\ \A p \in AllCandidates : \E r \in Ranks : p \in PairsAt(r)
<1>1. \A x : x \in Copies(1) <=> \E q \in Ranks : x \in First(q)
  BY LayersRead
<1>2. \A r \in Ranks : PairsAt(r) = Candidates(First(r), Copies(2))
  BY LayersRead DEF PairsAt
<1>3. ASSUME NEW r \in Ranks, NEW p \in PairsAt(r)
      PROVE  p \in AllCandidates /\ p[1][2] = r
  <2>1. /\ p = <<p[1], p[2]>> /\ p[1] \in First(r) /\ p[2] \in Copies(2)
        /\ Meet(BoxOf(p[1]), BoxOf(p[2]))
    BY <1>2, <1>3, InCandidates
  <2>2. p \in AllCandidates
    BY <1>1, <2>1, InCandidates DEF AllCandidates
  <2>3. p[1] \in PartOf(r)
    BY <2>1 DEF First, Parsed
  <2>4. \A l, x : x \in LinesOf(l, r) => x[2] = r
    BY DEF LinesOf
  <2>5. p[1][2] = r
    BY <2>3, <2>4 DEF PartOf
  <2>. QED BY <2>2, <2>5
<1>4. ASSUME NEW p \in AllCandidates PROVE \E r \in Ranks : p \in PairsAt(r)
  <2>1. /\ p = <<p[1], p[2]>> /\ p[1] \in Copies(1) /\ p[2] \in Copies(2)
        /\ Meet(BoxOf(p[1]), BoxOf(p[2]))
    BY InCandidates DEF AllCandidates
  <2>2. PICK q \in Ranks : p[1] \in First(q)
    BY <1>1, <2>1
  <2>3. p \in Candidates(First(q), Copies(2))
    BY <2>1, <2>2, InCandidates
  <2>. QED BY <1>2, <2>3
<1>. QED BY <1>3, <1>4

(* The copies of layer l whose box meets cell c, and those among them that *)
(* the owner of the cell reads.                                            *)
Holds(l, c)  == {x \in Copies(l) : Meet(Scaled(BoxOf(x)), CommonGrid[c])}
ReadIn(l, c) == {x \in Holds(l, c) : <<x, c>> \notin input.unread}

(* A process reads nothing but texts it was sent.                          *)
LEMMA RecvSent ==
  ASSUME NEW r \in Ranks, NEW l \in Layers, NEW c \in DOMAIN RecvAt(r, l), NEW x \in RecvAt(r, l)[c],
         DOMAIN CommonGrid \subseteq CellIds
  PROVE  \E q \in Ranks : x \in InGrid(q, l)
<1>. DEFINE boxes == Boxes(r, AllParcels, l)
<1>1. x \in GeomsOfCell(boxes, c)
  BY DEF RecvAt, GroupedByCell
<1>2. \A d \in boxes : TextOf(boxes, d) \subseteq {b.geom : b \in boxes}
  <2>. HIDE DEF boxes
  <2>. QED BY DEF TextOf
<1>3. PICK b \in boxes : x = b.geom
  <2>. HIDE DEF boxes
  <2>. QED BY <1>1, <1>2 DEF GeomsOfCell
<1>4. PICK q \in Ranks, d \in OwnedBy(r) : x \in CellsAt(q, l)[d]
  BY <1>3, BoxesAre
<1>5. d \in CellIds
  BY DEF OwnedBy
<1>. QED BY <1>4, <1>5 DEF CellsAt, InCells

(* If each text is read at its own place, the owner of a cell has all of   *)
(* the texts of the cell that are read.                                    *)
LEMMA RecvHolds ==
  ASSUME NEW l \in Layers, NEW r \in Ranks, DOMAIN CommonGrid \subseteq CellIds,
         program \in RoundPrograms \/ input.unread = {}, program \notin RoadPrograms,
         \A x : x \in Copies(l) <=> \E q \in Ranks : x \in InGrid(q, l)
  PROVE  /\ DOMAIN RecvAt(r, l) = {c \in OwnedBy(r) : ReadIn(l, c) # {}}
         /\ \A c \in DOMAIN RecvAt(r, l) : RecvAt(r, l)[c] = ReadIn(l, c)
<1>. DEFINE boxes == Boxes(r, AllParcels, l)
<1>1. \A b : b \in boxes <=>
        \E q \in Ranks, c \in OwnedBy(r) :
          \E x \in CellsAt(q, l)[c] : b = [from |-> q, cellId |-> c, geom |-> x]
  BY BoxesAre
<1>2. \A c \in OwnedBy(r) : \A x :
        x \in Holds(l, c) <=> \E q \in Ranks : x \in CellsAt(q, l)[c]
  <2>1. \A c \in OwnedBy(r) : c \in DOMAIN CommonGrid /\ c \in CellIds
    BY DEF OwnedBy
  <2>2. \A q : \A c \in OwnedBy(r) :
          CellsAt(q, l)[c] = {x \in InGrid(q, l) : Meet(Scaled(BoxOf(x)), CommonGrid[c])}
    BY <2>1 DEF CellsAt, InCells
  <2>. QED BY <2>2 DEF Holds
<1>3. RecvAt(r, l) = [c \in {b.cellId : b \in {d \in boxes : GeomsOfCell(boxes, d.cellId) # {}}} |->
                        GeomsOfCell(boxes, c)]
  BY DEF RecvAt, GroupedByCell
<1>. HIDE DEF boxes
<1>4. \A d \in boxes : TextOf(boxes, d) = {d.geom}
  <2>1. input.unread = {} => Unread(boxes) = {}
    BY DEF Unread
  <2>2. input.unread = {} => \A d : Earlier(boxes, d) \ Unread(boxes) = Earlier(boxes, d)
    BY <2>1
  <2>. QED BY <2>2 DEF TextOf
<1>5. \A b : b \in Unread(boxes) <=> b \in boxes /\ <<b.geom, b.cellId>> \in input.unread
  BY DEF Unread
<1>6. ASSUME NEW c \in OwnedBy(r)
      PROVE  GeomsOfCell(boxes, c) = ReadIn(l, c)
  <2>1. \A x : x \in GeomsOfCell(boxes, c) <=>
          \E b \in boxes : b \notin Unread(boxes) /\ b.cellId = c /\ x = b.geom
    BY <1>4 DEF GeomsOfCell
  <2>2. \A x : x \in GeomsOfCell(boxes, c) =>
          x \in Holds(l, c) /\ <<x, c>> \notin input.unread
    <3>. SUFFICES ASSUME NEW b \in boxes, b \notin Unread(boxes), b.cellId = c
                  PROVE  b.geom \in Holds(l, c) /\ <<b.geom, c>> \notin input.unread
      BY <2>1
    <3>1. PICK q \in Ranks, d \in OwnedBy(r) :
            \E x \in CellsAt(q, l)[d] : b = [from |-> q, cellId |-> d, geom |-> x]
      BY <1>1
    <3>2. d = c /\ b.geom \in CellsAt(q, l)[c]
      BY <3>1
    <3>. QED BY <1>2, <1>5, <3>2
  <2>3. ASSUME NEW x \in Holds(l, c), <<x, c>> \notin input.unread
        PROVE  x \in GeomsOfCell(boxes, c)
    <3>1. PICK q \in Ranks : x \in CellsAt(q, l)[c]
      BY <1>2, <2>3
    <3>. DEFINE b == [from |-> q, cellId |-> c, geom |-> x]
    <3>2. b \in boxes
      BY <1>1, <3>1
    <3>3. b.cellId = c /\ b.geom = x
      OBVIOUS
    <3>. HIDE DEF b
    <3>. QED BY <1>5, <2>1, <2>3, <3>2, <3>3
  <2>. QED BY <2>2, <2>3 DEF ReadIn
<1>7. DOMAIN RecvAt(r, l) = {c \in OwnedBy(r) : ReadIn(l, c) # {}}
  <2>1. \A b \in boxes : b.cellId \in OwnedBy(r)
    BY <1>1
  <2>2. ASSUME NEW c \in OwnedBy(r), NEW x \in ReadIn(l, c)
        PROVE  \E b \in boxes : b.cellId = c
    <3>1. PICK q \in Ranks : x \in CellsAt(q, l)[c]
      BY <1>2, <2>2 DEF ReadIn
    <3>2. [from |-> q, cellId |-> c, geom |-> x] \in boxes
      BY <1>1, <3>1
    <3>. QED BY <3>2
  <2>3. DOMAIN RecvAt(r, l) = {b.cellId : b \in {d \in boxes : GeomsOfCell(boxes, d.cellId) # {}}}
    BY <1>3
  <2>4. \A c : c \in DOMAIN RecvAt(r, l) <=>
          \E b \in boxes : b.cellId = c /\ GeomsOfCell(boxes, c) # {}
    BY <2>3
  <2>5. \A c : c \in DOMAIN RecvAt(r, l) <=> c \in OwnedBy(r) /\ ReadIn(l, c) # {}
    <3>1. ASSUME NEW c \in DOMAIN RecvAt(r, l) PROVE c \in OwnedBy(r) /\ ReadIn(l, c) # {}
      <4>1. c \in OwnedBy(r) /\ GeomsOfCell(boxes, c) # {}
        BY <2>1, <2>4, <3>1
      <4>. QED BY <1>6, <4>1
    <3>2. ASSUME NEW c \in OwnedBy(r), ReadIn(l, c) # {} PROVE c \in DOMAIN RecvAt(r, l)
      <4>1. GeomsOfCell(boxes, c) # {}
        BY <1>6, <3>2
      <4>2. \E b \in boxes : b.cellId = c
        BY <2>2, <3>2
      <4>. QED BY <2>4, <4>1, <4>2
    <3>. QED BY <3>1, <3>2
  <2>. QED BY <2>5
<1>8. \A c \in DOMAIN RecvAt(r, l) : RecvAt(r, l)[c] = ReadIn(l, c)
  BY <1>3, <1>6, <1>7
<1>. QED BY <1>7, <1>8

LEMMA InReduced ==
  ASSUME NEW first, NEW second, NEW x
  PROVE  x \in Reduced(first, second) <=>
           \E c \in ReducedCells(first, second) : \E p \in Shapes(Candidates(first[c], second[c])) :
             x = [cellId |-> c, pair |-> p]
BY DEF Reduced, InCell

(* x is a pair in a cell of process r that both its geometries meet.       *)
IsShared(r, x) ==
  \E c \in 0 .. numPartitions - 1 : \E p \in AllPairs :
    c % numProcesses = r /\ c \in SharedCells(p) /\ x = [cellId |-> c, pair |-> p]

FindsShared(r, F, S) ==
  \A c \in 0 .. numPartitions - 1 : \A p :
    c \in ReducedCells(F, S) /\ p \in Shapes(Candidates(F[c], S[c]))
    <=> p \in AllPairs /\ c % numProcesses = r /\ c \in SharedCells(p)

LEMMA SharedReduced ==
  ASSUME NEW r, NEW F, NEW S, FindsShared(r, F, S), NEW x
  PROVE  x \in Reduced(F, S) <=> IsShared(r, x)
<1>1. \A c \in ReducedCells(F, S) : c \in 0 .. numPartitions - 1
  BY DEF ReducedCells
<1>. QED BY <1>1, InReduced DEF FindsShared, IsShared

-----------------------------------------------------------------------------
(* The adaptive driver.                                                    *)

(* A process finds the pairs that share a cell it owns, in each of these.  *)
LEMMA AdaptiveFinds ==
  ASSUME JoinInv, program = "adaptive", NEW r \in Ranks, "join queries" \in Done(r), NEW x
  PROVE  x \in mem[r].found <=> IsShared(r, x)
<1>1. /\ {"adaptive grid", "read queries", "partition queries", "partition"} \subseteq AllSteps
      /\ "read all 2" \notin AllSteps
  BY OrderOfSteps DEF Facts, JoinInv
<1>2. mem[r].found = Reduced(RecvAt(r, 1), CellsAt(r, 2))
  BY MemIs DEF MemOK, FoundInv, JoinSteps, IsFound
<1>3. DOMAIN CommonGrid \subseteq CellIds
  <2>1. "exchange" \in Done(r)
    BY DoneWasReady DEF Ready
  <2>. QED BY <2>1, MemIs DEF MemOK, RecvInv
<1>4. CommonGrid = JoinGrid
  BY <1>1 DEF CommonGrid, JoinGrid
<1>5. \A q : InGrid(q, 1) = First(q)
  BY DEF InGrid
<1>6. InGrid(r, 2) = Copies(2)
  BY <1>1, LayersRead, TwoLayers DEF InGrid
<1>7. /\ DOMAIN RecvAt(r, 1) = {c \in OwnedBy(r) : ReadIn(1, c) # {}}
      /\ \A c \in DOMAIN RecvAt(r, 1) : RecvAt(r, 1)[c] = ReadIn(1, c)
  <2>1. \A y : y \in Copies(1) <=> \E q \in Ranks : y \in InGrid(q, 1)
    BY <1>5, LayersRead
  <2>2. program \in RoundPrograms /\ program \notin RoadPrograms
    BY DEF RoundPrograms, RoadPrograms
  <2>. QED BY <1>3, <2>1, <2>2, RecvHolds, TwoLayers
<1>8. /\ DOMAIN CellsAt(r, 2) = CellIds
      /\ \A c \in DOMAIN CommonGrid : CellsAt(r, 2)[c] = Holds(2, c)
  BY <1>3, <1>6 DEF CellsAt, InCells, Holds
<1>9. ASSUME NEW c \in 0 .. numPartitions - 1, NEW p
      PROVE  /\ c \in ReducedCells(RecvAt(r, 1), CellsAt(r, 2))
             /\ p \in Shapes(Candidates(RecvAt(r, 1)[c], CellsAt(r, 2)[c]))
             <=> p \in AllPairs /\ c % numProcesses = r /\ c \in SharedCells(p)
  <2>1. ASSUME c \in ReducedCells(RecvAt(r, 1), CellsAt(r, 2)),
               p \in Shapes(Candidates(RecvAt(r, 1)[c], CellsAt(r, 2)[c]))
        PROVE  p \in AllPairs /\ c % numProcesses = r /\ c \in SharedCells(p)
    <3>1. c \in OwnedBy(r) /\ RecvAt(r, 1)[c] = ReadIn(1, c)
      BY <1>7, <2>1 DEF ReducedCells
    <3>2. c % numProcesses = r /\ c \in DOMAIN CommonGrid /\ CellsAt(r, 2)[c] = Holds(2, c)
      BY <1>8, <3>1 DEF OwnedBy
    <3>3. /\ p = <<p[1], p[2]>> /\ p[1] \in ReadIn(1, c) /\ p[2] \in Holds(2, c)
          /\ Meet(BoxOf(p[1]), BoxOf(p[2])) /\ LinesOfPair(p) \notin input.apart
      <4>1. p \in Candidates(ReadIn(1, c), Holds(2, c)) /\ LinesOfPair(p) \notin input.apart
        BY <2>1, <3>1, <3>2 DEF Shapes
      <4>. QED BY <4>1, InCandidates
    <3>4. p \in AllPairs
      BY <3>3, InCandidates DEF AllPairs, Shapes, Holds, ReadIn
    <3>5. c \in SharedCells(p)
      BY <1>4, <3>2, <3>3 DEF SharedCells, Holds, ReadIn
    <3>. QED BY <3>2, <3>4, <3>5
  <2>2. ASSUME p \in AllPairs, c % numProcesses = r, c \in SharedCells(p)
        PROVE  /\ c \in ReducedCells(RecvAt(r, 1), CellsAt(r, 2))
               /\ p \in Shapes(Candidates(RecvAt(r, 1)[c], CellsAt(r, 2)[c]))
    <3>1. /\ p = <<p[1], p[2]>> /\ p[1] \in Copies(1) /\ p[2] \in Copies(2)
          /\ Meet(BoxOf(p[1]), BoxOf(p[2])) /\ LinesOfPair(p) \notin input.apart
      BY <2>2, InCandidates DEF AllPairs, Shapes
    <3>2. /\ c \in DOMAIN CommonGrid
          /\ Meet(Scaled(BoxOf(p[1])), CommonGrid[c]) /\ Meet(Scaled(BoxOf(p[2])), CommonGrid[c])
          /\ <<p[1], c>> \notin input.unread
      BY <1>4, <2>2 DEF SharedCells
    <3>3. p[1] \in ReadIn(1, c) /\ p[2] \in Holds(2, c) /\ c \in OwnedBy(r)
      BY <2>2, <3>1, <3>2 DEF Holds, ReadIn, OwnedBy
    <3>4. c \in DOMAIN RecvAt(r, 1) /\ c \in DOMAIN CellsAt(r, 2)
      BY <1>3, <1>7, <1>8, <3>2, <3>3
    <3>5. RecvAt(r, 1)[c] = ReadIn(1, c) /\ CellsAt(r, 2)[c] = Holds(2, c)
      BY <1>7, <1>8, <3>2, <3>4
    <3>6. p \in Candidates(ReadIn(1, c), Holds(2, c))
      BY <3>1, <3>3, InCandidates
    <3>. QED BY <3>1, <3>4, <3>5, <3>6 DEF ReducedCells, Shapes
  <2>. QED BY <2>1, <2>2
<1>10. FindsShared(r, RecvAt(r, 1), CellsAt(r, 2))
  BY <1>9 DEF FindsShared
<1>. QED BY <1>2, <1>10, SharedReduced

-----------------------------------------------------------------------------
(* The static balancer: the cells are files.                               *)
LEMMA StaticFinds ==
  ASSUME JoinInv, program = "static", NEW r, NEW x
  PROVE  x \in FilesFound(r) <=> IsShared(r, x)
<1>. DEFINE one(c) == Parsed(IndexedFile(1, c), 1)
            two(c) == Parsed(IndexedFile(2, c), 2)
<1>1. JoinGrid = UniformCells(Universe) /\ DOMAIN JoinGrid = 0 .. numPartitions - 1
  BY DEF JoinGrid, UniformCells
<1>0. /\ Copies(1) = Parsed(WholeFile(1), 1) /\ Copies(2) = Parsed(WholeFile(2), 2)
      /\ \A y \in Copies(1) : \A c : <<y, c>> \notin input.unread
  <2>1. Copies(1) = Parsed(WholeFile(1), 1) /\ Copies(2) = Parsed(WholeFile(2), 2)
    BY DEF Copies, ReadWhole
  <2>2. \A y \in Copies(1) : y[2] = Whole
    BY <2>1 DEF Parsed, WholeFile
  <2>3. \A y \in input.unread : y[1][2] \in Ranks
    BY SpatialJoinConstants DEF JoinInv, IsInput
  <2>4. Whole \notin Ranks
    BY SpatialJoinConstants DEF Whole, Ranks
  <2>. QED BY <2>1, <2>2, <2>3, <2>4
<1>2. ASSUME NEW c \in 0 .. numPartitions - 1, NEW p
      PROVE  (c \in OwnFiles(r) /\ p \in Shapes(Candidates(one(c), two(c))))
             <=> (p \in AllPairs /\ c % numProcesses = r /\ c \in SharedCells(p))
  <2>1. /\ \A i : i \in one(c) <=> i \in Copies(1) /\ Meet(Scaled(BoxOf(i)), JoinGrid[c])
        /\ \A i : i \in two(c) <=> i \in Copies(2) /\ Meet(Scaled(BoxOf(i)), JoinGrid[c])
    BY <1>0, <1>1 DEF Parsed, IndexedFile
  <2>2. one(c) \subseteq IndexedFile(1, c)
    BY DEF Parsed
  <2>. HIDE DEF one, two
  <2>3. p \in Candidates(one(c), two(c)) <=>
          /\ p \in Candidates(Copies(1), Copies(2))
          /\ Meet(Scaled(BoxOf(p[1])), JoinGrid[c]) /\ Meet(Scaled(BoxOf(p[2])), JoinGrid[c])
    BY <2>1, InCandidates
  <2>4. c \in SharedCells(p) <=>
          /\ Meet(Scaled(BoxOf(p[1])), JoinGrid[c]) /\ Meet(Scaled(BoxOf(p[2])), JoinGrid[c])
          /\ <<p[1], c>> \notin input.unread
    BY <1>1 DEF SharedCells
  <2>5. p \in Candidates(one(c), two(c)) => IndexedFile(1, c) # {}
    BY <2>2, InCandidates
  <2>9. p \in Candidates(Copies(1), Copies(2)) => <<p[1], c>> \notin input.unread
    BY <1>0, InCandidates
  <2>6. p \in Shapes(Candidates(one(c), two(c))) <=> p \in AllPairs /\ c \in SharedCells(p)
    BY <2>3, <2>4, <2>9 DEF AllPairs, Shapes
  <2>7. p \in Shapes(Candidates(one(c), two(c))) => IndexedFile(1, c) # {}
    BY <2>5 DEF Shapes
  <2>8. c \in OwnFiles(r) <=> c % numProcesses = r /\ IndexedFile(1, c) # {}
    BY DEF OwnFiles
  <2>. QED BY <2>6, <2>7, <2>8
<1>3. x \in FilesFound(r) <=>
        \E c \in OwnFiles(r) : \E p \in Shapes(Candidates(one(c), two(c))) :
          x = [cellId |-> c, pair |-> p]
  BY DEF FilesFound, InCell
<1>4. \A c \in OwnFiles(r) : c \in 0 .. numPartitions - 1
  BY DEF OwnFiles
<1>. HIDE DEF one, two
<1>. QED BY <1>2, <1>3, <1>4 DEF IsShared

-----------------------------------------------------------------------------
(* The driver on the GPU.                                                  *)

(* Two boxes that meet, one of them in the common box, meet in a cell.     *)
LEMMA MeetInCell ==
  ASSUME NEW u, IsBox(u), NEW a, IsBox(a), NEW b, IsBox(b), Meet(a, b),
         u.lo <= a.lo, a.hi <= u.hi
  PROVE  \E c \in 0 .. numPartitions - 1 :
           Meet(Scaled(a), UniformCells(u)[c]) /\ Meet(Scaled(b), UniformCells(u)[c])
<1>. DEFINE l == IF a.lo <= b.lo THEN b.lo ELSE a.lo
            h == IF a.hi <= b.hi THEN a.hi ELSE b.hi
            m == [lo |-> l, hi |-> h]
            N == numPartitions
<1>1. /\ {u.lo, u.hi, a.lo, a.hi, b.lo, b.hi} \subseteq Int
      /\ a.lo <= a.hi /\ b.lo <= b.hi /\ a.lo <= b.hi /\ b.lo <= a.hi /\ N \in Nat
  BY SpatialJoinConstants DEF IsBox, Meet
<1>2. /\ l \in Int /\ h \in Int /\ l <= h /\ u.lo <= l /\ h <= u.hi
      /\ a.lo <= l /\ h <= a.hi /\ b.lo <= l /\ h <= b.hi
  BY <1>1
<1>. HIDE DEF l, h
<1>3. IsBox(m) /\ m.lo = l /\ m.hi = h
  BY <1>2 DEF IsBox
<1>. HIDE DEF m
<1>4. PICK c \in 0 .. numPartitions - 1 : Meet(Scaled(m), UniformCells(u)[c])
  BY <1>2, <1>3, GridCovers
<1>. DEFINE g == UniformCells(u)[c]
<1>5. \E x, y \in Int : g = [lo |-> x, hi |-> y]
  <2>1. /\ u.lo * N + c * (u.hi - u.lo) \in Int
        /\ u.lo * N + (c + 1) * (u.hi - u.lo) \in Int
    <3>1. c \in Int /\ N \in Int /\ u.lo \in Int /\ u.hi - u.lo \in Int
      BY <1>1
    <3>. QED BY <3>1
  <2>2. g = [lo |-> u.lo * N + c * (u.hi - u.lo), hi |-> u.lo * N + (c + 1) * (u.hi - u.lo)]
    BY DEF UniformCells, Box
  <2>. QED BY <2>1, <2>2
<1>6. PICK x \in Int, y \in Int : g.lo = x /\ g.hi = y
  BY <1>5
<1>. HIDE DEF g
<1>7. ASSUME NEW k, IsBox(k), k.lo <= l, h <= k.hi PROVE Meet(Scaled(k), g)
  <2>1. k.lo * N <= l * N /\ h * N <= k.hi * N
    BY <1>1, <1>2, <1>7, TimesKeepsOrder DEF IsBox
  <2>2. {k.lo * N, k.hi * N, l * N, h * N} \subseteq Int
    BY <1>1, <1>2, <1>7 DEF IsBox
  <2>3. l * N <= y /\ x <= h * N
    BY <1>3, <1>4, <1>6 DEF Meet, Scaled, Box, g
  <2>4. Scaled(k).lo = k.lo * N /\ Scaled(k).hi = k.hi * N
    BY DEF Scaled, Box
  <2>. HIDE DEF N
  <2>5. k.lo * N <= y /\ x <= k.hi * N
    BY <2>1, <2>2, <2>3
  <2>. QED BY <1>6, <2>4, <2>5 DEF Meet
<1>. QED BY <1>2, <1>7 DEF g

(* What the driver on the GPU finds.                                       *)
GPUFound(r)  == Reduced(Polygons(RecvAt(r, 1)), Polygons(RecvAt(r, 2)))

LEMMA OnGPU ==
  ASSUME JoinInv, program = "cuda", NEW l \in Layers
  PROVE  /\ DOMAIN CommonGrid \subseteq CellIds
         /\ \A x : x \in Copies(l) <=> \E q \in Ranks : x \in InGrid(q, l)
<1>1. "union" \in AllSteps /\ "partition queries" \notin AllSteps
  BY OrderOfSteps DEF Facts, JoinInv
<1>2. \/ l = 1 /\ \A q : InGrid(q, l) = First(q)
      \/ l = 2 /\ \A q : InGrid(q, l) = Second(q)
  BY <1>1, TwoLayers DEF InGrid
<1>. QED BY <1>1, <1>2, LayersRead, UnitedGrid

LEMMA PolygonsReceived ==
  ASSUME JoinInv, program = "cuda", input.unread = {}, NEW r \in Ranks, NEW l \in Layers
  PROVE  /\ DOMAIN Polygons(RecvAt(r, l)) = {c \in OwnedBy(r) : Holds(l, c) # {}}
         /\ \A c \in DOMAIN Polygons(RecvAt(r, l)) :
              Polygons(RecvAt(r, l))[c] = {i \in Holds(l, c) : Geom(i).polygon}
<1>1. \A c : ReadIn(l, c) = Holds(l, c)
  BY DEF ReadIn
<1>2. program \notin RoadPrograms
  BY DEF RoadPrograms
<1>3. /\ DOMAIN RecvAt(r, l) = {c \in OwnedBy(r) : Holds(l, c) # {}}
      /\ \A c \in DOMAIN RecvAt(r, l) : RecvAt(r, l)[c] = Holds(l, c)
  <2>1. /\ DOMAIN CommonGrid \subseteq CellIds
        /\ \A x : x \in Copies(l) <=> \E q \in Ranks : x \in InGrid(q, l)
    BY OnGPU
  <2>2. /\ DOMAIN RecvAt(r, l) = {c \in OwnedBy(r) : ReadIn(l, c) # {}}
        /\ \A c \in DOMAIN RecvAt(r, l) : RecvAt(r, l)[c] = ReadIn(l, c)
    BY <1>2, <2>1, RecvHolds
  <2>. QED BY <1>1, <2>2
<1>. QED BY <1>3 DEF Polygons

(* It finds only pairs of polygons that intersect, texts out of their      *)
(* place or not,                                                           *)
LEMMA OnlyPolygonPairs ==
  ASSUME JoinInv, program = "cuda", NEW r \in Ranks, NEW x \in GPUFound(r)
  PROVE  x.pair \in OfPolygons
<1>. DEFINE F == Polygons(RecvAt(r, 1))
            S == Polygons(RecvAt(r, 2))
<1>1. PICK c \in ReducedCells(F, S) : \E p \in Shapes(Candidates(F[c], S[c])) :
             x = [cellId |-> c, pair |-> p]
  BY InReduced DEF GPUFound
<1>2. x.pair \in Shapes(Candidates(F[c], S[c]))
  BY <1>1
<1>3. c \in DOMAIN RecvAt(r, 1) /\ c \in DOMAIN RecvAt(r, 2)
  BY DEF ReducedCells, Polygons
<1>4. /\ F[c] = {i \in RecvAt(r, 1)[c] : Geom(i).polygon}
      /\ S[c] = {i \in RecvAt(r, 2)[c] : Geom(i).polygon}
  BY <1>3 DEF Polygons
<1>. HIDE DEF F, S
<1>. DEFINE p == x.pair
<1>5. /\ p = <<p[1], p[2]>> /\ p[1] \in F[c] /\ p[2] \in S[c] /\ Meet(BoxOf(p[1]), BoxOf(p[2]))
      /\ LinesOfPair(p) \notin input.apart
  BY <1>2, InCandidates DEF Shapes
<1>. HIDE DEF p
<1>6. p[1] \in Copies(1) /\ p[2] \in Copies(2)
  <2>1. p[1] \in RecvAt(r, 1)[c] /\ p[2] \in RecvAt(r, 2)[c]
    BY <1>4, <1>5
  <2>. QED BY <1>3, <2>1, RecvSent, OnGPU, TwoLayers
<1>7. p \in Candidates(Copies(1), Copies(2))
  BY <1>5, <1>6, InCandidates
<1>8. p \in AllPairs /\ Geom(p[1]).polygon /\ Geom(p[2]).polygon
  BY <1>4, <1>5, <1>7 DEF AllPairs, Shapes
<1>. QED BY <1>8 DEF p, OfPolygons

(* and if all texts are read, each of them in some process: their boxes    *)
(* meet in a cell.                                                         *)
LEMMA AllPolygonPairs ==
  ASSUME JoinInv, program = "cuda", input.unread = {}, NEW p \in OfPolygons
  PROVE  \E r \in Ranks : \E x \in GPUFound(r) : x.pair = p
<1>1. {"union", "partition"} \subseteq AllSteps
  BY OrderOfSteps DEF Facts, JoinInv
<1>2. /\ p = <<p[1], p[2]>> /\ p[1] \in Copies(1) /\ p[2] \in Copies(2)
      /\ Meet(BoxOf(p[1]), BoxOf(p[2])) /\ LinesOfPair(p) \notin input.apart
      /\ Geom(p[1]).polygon /\ Geom(p[2]).polygon
  BY InCandidates DEF OfPolygons, AllPairs, Shapes
<1>3. PICK q \in Ranks : p[1] \in First(q)
  BY <1>2, LayersRead
<1>4. /\ IsBox(CommonBox) /\ IsBox(BoxOf(p[1]))
      /\ CommonBox.lo <= BoxOf(p[1]).lo /\ BoxOf(p[1]).hi <= CommonBox.hi
  BY <1>1, <1>3, CommonBoxIsAround
<1>5. IsBox(BoxOf(p[2]))
  <2>1. PICK q1 \in Ranks : p[2] \in Second(q1)
    BY <1>2, LayersRead
  <2>. QED BY <2>1, LinesRead, InputIs
<1>6. PICK c \in 0 .. numPartitions - 1 :
        /\ Meet(Scaled(BoxOf(p[1])), UniformCells(CommonBox)[c])
        /\ Meet(Scaled(BoxOf(p[2])), UniformCells(CommonBox)[c])
  BY <1>2, <1>4, <1>5, MeetInCell
<1>. DEFINE r == c % numProcesses
            F == Polygons(RecvAt(r, 1))
            S == Polygons(RecvAt(r, 2))
<1>7. r \in Ranks
  BY SpatialJoinConstants DEF Ranks
<1>8. c \in OwnedBy(r) /\ CommonGrid = UniformCells(CommonBox)
  BY <1>1, UnitedGrid DEF OwnedBy
<1>9. p[1] \in Holds(1, c) /\ p[2] \in Holds(2, c)
  BY <1>2, <1>6, <1>8 DEF Holds
<1>10. /\ c \in DOMAIN F /\ F[c] = {i \in Holds(1, c) : Geom(i).polygon}
       /\ c \in DOMAIN S /\ S[c] = {i \in Holds(2, c) : Geom(i).polygon}
  <2>. HIDE DEF r
  <2>1. c \in {d \in OwnedBy(r) : Holds(1, d) # {}}
    BY <1>8, <1>9
  <2>2. c \in {d \in OwnedBy(r) : Holds(2, d) # {}}
    BY <1>8, <1>9
  <2>3. /\ DOMAIN F = {d \in OwnedBy(r) : Holds(1, d) # {}}
        /\ DOMAIN S = {d \in OwnedBy(r) : Holds(2, d) # {}}
    BY <1>7, PolygonsReceived, TwoLayers
  <2>4. c \in DOMAIN F /\ c \in DOMAIN S
    BY <2>1, <2>2, <2>3
  <2>. QED BY <1>7, <2>4, PolygonsReceived, TwoLayers
<1>. HIDE DEF F, S, r
<1>11. p \in Candidates(F[c], S[c])
  BY <1>2, <1>9, <1>10, InCandidates
<1>12. [cellId |-> c, pair |-> p] \in Reduced(F, S)
  BY <1>2, <1>10, <1>11, InReduced DEF ReducedCells, Shapes
<1>13. [cellId |-> c, pair |-> p].pair = p
  OBVIOUS
<1>. QED BY <1>7, <1>12, <1>13 DEF GPUFound, F, S

-----------------------------------------------------------------------------
(* What is found at the end.                                               *)
LEMMA AllDone ==
  ASSUME JoinInv, Ended, NEW r \in Ranks
  PROVE  Done(r) = AllSteps
BY DoneAtEnd DEF JoinInv, CallsInv, MemInv, Ended

LEMMA StaticFound ==
  ASSUME JoinInv, Ended, program = "static", NEW r \in Ranks
  PROVE  mem[r].found = FilesFound(r)
<1>1. "join own files" \in Done(r)
  BY AllDone, OrderOfSteps DEF Facts, JoinInv
<1>. QED BY <1>1, MemIs DEF MemOK, FoundInv, JoinSteps, IsFound

LEMMA SharedFound ==
  ASSUME JoinInv, Ended, program \in {"adaptive", "static"}, NEW r \in Ranks, NEW x
  PROVE  x \in mem[r].found <=> IsShared(r, x)
<1>1. CASE program = "adaptive"
  <2>1. "join queries" \in Done(r)
    BY <1>1, AllDone, OrderOfSteps DEF Facts, JoinInv
  <2>. QED BY <1>1, <2>1, AdaptiveFinds
<1>2. CASE program = "static"
  BY <1>2, StaticFound, StaticFinds
<1>. QED BY <1>1, <1>2

SharedPairs ==
  UNION {InCell(c, {p \in AllPairs : c \in SharedCells(p)}) : c \in 0 .. numPartitions - 1}

LEMMA InSharedPairs ==
  ASSUME NEW x
  PROVE  x \in SharedPairs <=> \E r \in Ranks : IsShared(r, x)
<1>1. x \in SharedPairs <=>
        \E c \in 0 .. numPartitions - 1 : \E p \in AllPairs :
          c \in SharedCells(p) /\ x = [cellId |-> c, pair |-> p]
  BY DEF SharedPairs, InCell
<1>2. \A c \in 0 .. numPartitions - 1 : c % numProcesses \in Ranks
  BY SpatialJoinConstants DEF Ranks
<1>. QED BY <1>1, <1>2 DEF IsShared

LEMMA FilesFoundFinite ==
  ASSUME JoinInv, NEW r
  PROVE  IsFiniteSet(FilesFound(r))
<1>. DEFINE C == 0 .. numPartitions - 1
            D == C \X (Items \X Items)
            T == {[cellId |-> d[1], pair |-> d[2]] : d \in D}
            f == [d \in D |-> [cellId |-> d[1], pair |-> d[2]]]
<1>1. IsFiniteSet(D)
  <2>1. IsFiniteSet(C)
    BY SpatialJoinConstants, FS_Interval
  <2>2. IsFiniteSet(Items \X Items)
    BY FiniteItems, FS_Product
  <2>. HIDE DEF C
  <2>. QED BY <2>1, <2>2, FS_Product
<1>2. f \in Surjection(D, T)
  BY DEF Surjection
<1>3. IsFiniteSet(T)
  <2>. HIDE DEF f, T, D
  <2>. QED BY <1>1, <1>2, FS_Surjection
<1>4. ASSUME NEW x \in FilesFound(r) PROVE x \in T
  <2>1. PICK c \in OwnFiles(r) :
          x \in InCell(c, Shapes(Candidates(Parsed(IndexedFile(1, c), 1), Parsed(IndexedFile(2, c), 2))))
    BY <1>4 DEF FilesFound
  <2>2. PICK p \in Shapes(Candidates(Parsed(IndexedFile(1, c), 1), Parsed(IndexedFile(2, c), 2))) :
          x = [cellId |-> c, pair |-> p]
    BY <2>1 DEF InCell
  <2>3. p \in Items \X Items
    <3>1. /\ Parsed(IndexedFile(1, c), 1) \subseteq Items
          /\ Parsed(IndexedFile(2, c), 2) \subseteq Items
      BY DEF Parsed, IndexedFile, WholeFile, Items
    <3>. QED BY <2>2, <3>1 DEF Shapes, Candidates
  <2>4. <<c, p>> \in D /\ <<c, p>>[1] = c /\ <<c, p>>[2] = p
    BY <2>1, <2>3 DEF OwnFiles
  <2>. HIDE DEF D
  <2>. QED BY <2>2, <2>4
<1>5. FilesFound(r) \in SUBSET T
  BY <1>4
<1>. QED BY <1>3, <1>5, FS_Subset

(* What the root of the static balancer has added up is the number of the  *)
(* pairs in all files.                                                     *)
LEMMA TotalAtRoot ==
  ASSUME JoinInv, Ended, program = "static"
  PROVE  mem[0].total = Cardinality(SharedPairs)
<1>. DEFINE F == [q \in Ranks |-> FilesFound(q)]
            size == [q \in Ranks |-> Cardinality(FilesFound(q))]
<1>1. mem[0].total = SumFunction(size)
  <2>1. 0 \in Ranks
    BY SpatialJoinConstants DEF Ranks
  <2>2. "reduce total" \in Done(0)
    BY <2>1, AllDone, OrderOfSteps DEF Facts, JoinInv
  <2>. QED BY <2>1, <2>2, MemIs DEF MemOK, FoundInv
<1>2. SumFunction(size) = SumOver(size, Ranks)
  <2>1. DOMAIN size = Ranks
    OBVIOUS
  <2>. HIDE DEF size
  <2>. QED BY <2>1 DEF SumFunction, SumOver
<1>3. IsFiniteSet(Ranks)
  BY SpatialJoinConstants, FS_Interval DEF Ranks
<1>4. /\ \A q \in Ranks : F[q] = FilesFound(q) /\ IsFiniteSet(F[q])
      /\ \A q \in Ranks : size[q] = Cardinality(F[q])
  BY FilesFoundFinite
<1>5. Disjoint(F, Ranks)
  <2>. SUFFICES ASSUME NEW q \in Ranks, NEW r \in Ranks, NEW x \in FilesFound(q) \cap FilesFound(r)
                PROVE  q = r
    BY <1>4 DEF Disjoint
  <2>1. x.cellId % numProcesses = q
    BY DEF FilesFound, InCell, OwnFiles
  <2>2. x.cellId % numProcesses = r
    BY DEF FilesFound, InCell, OwnFiles
  <2>. QED BY <2>1, <2>2
<1>6. AllOf(F, Ranks) = SharedPairs
  <2>1. \A x : x \in AllOf(F, Ranks) <=> \E q \in Ranks : x \in FilesFound(q)
    BY <1>4 DEF AllOf
  <2>2. \A x : \A q : x \in FilesFound(q) <=> IsShared(q, x)
    BY StaticFinds
  <2>3. \A x : x \in AllOf(F, Ranks) <=> x \in SharedPairs
    BY <2>1, <2>2, InSharedPairs
  <2>. HIDE DEF F
  <2>. QED BY <2>3
<1>. HIDE DEF F, size
<1>. QED BY <1>1, <1>2, <1>3, <1>4, <1>5, <1>6, SumOfSizes

(* A pair is found once for each cell (or file) it shares and in no other, *)
(* by all processes together, and the total the root of the static         *)
(* balancer reports is their number.                                       *)
THEOREM FoundInEverySharedCellHolds == Spec => []FoundInEverySharedCell
<1>1. ASSUME JoinInv PROVE FoundInEverySharedCell
  <2>. SUFFICES ASSUME Ended, program \in {"adaptive", "static"}
                PROVE  /\ UNION {mem[r].found : r \in Ranks} = SharedPairs
                       /\ program = "static" => mem[0].total = Cardinality(SharedPairs)
    BY DEF FoundInEverySharedCell, SharedPairs
  <2>1. \A x : \A r \in Ranks : x \in mem[r].found <=> IsShared(r, x)
    BY <1>1, SharedFound
  <2>2. \A x : x \in UNION {mem[r].found : r \in Ranks} <=> x \in SharedPairs
    BY <2>1, InSharedPairs
  <2>3. UNION {mem[r].found : r \in Ranks} = SharedPairs
    BY <2>2
  <2>. QED BY <1>1, <2>3, TotalAtRoot
<1>. QED BY <1>1, JoinInvHolds, PTL

-----------------------------------------------------------------------------
(* The implementation of JoinSpec.                                         *)
Found == {x.pair : x \in UNION {mem[r].found : r \in Ranks}}

(* Each program is one of the kinds Required tells apart.                  *)
LEMMA RequiredIs ==
  ASSUME JoinInv
  PROVE  /\ program \in BroadcastJoins => Required = AllPairs
         /\ program \in {"adaptive", "static"} =>
              Required = {p \in AllPairs : SharedCells(p) # {}}
         /\ program = "overlay" =>
              Required = AllPairs \ Thrown /\ Optional = {p \in Thrown : ~Throws(p)}
         /\ program = "cuda" =>
              Required = (IF input.unread = {} THEN OfPolygons ELSE {}) /\ Optional = OfPolygons
         /\ program \notin BroadcastJoins \cup {"adaptive", "static", "overlay", "cuda"} =>
              Required = {}
<1>1. program \in BroadcastJoins => program \notin {"adaptive", "static", "overlay", "cuda"}
  BY OneKind
<1>. QED BY <1>1 DEF Required, Optional

(* Programs of the large-file partitioner read and find nothing.           *)
LEMMA NothingFound ==
  ASSUME JoinInv, NEW r \in Ranks, {"join pairs", "join own cells"} \cap AllSteps # {}
  PROVE  /\ Reduced(RecvAt(r, 1), RecvAt(r, 2)) = {}
         /\ OwnReduced(CellsAt(r, 1), CellsAt(r, 2)) = {}
<1>1. \A q : First(q) = {}
  BY OrderOfSteps DEF Facts, JoinInv, First, PartOf, Parsed
<1>2. "adaptive grid" \notin AllSteps /\ program # "adaptive"
  <2>1. "join queries" \in AllSteps <=> program = "adaptive"
    BY OrderOfSteps DEF Facts, JoinInv
  <2>2. "adaptive grid" \in AllSteps <=> program = "adaptive"
    BY OrderOfSteps DEF Facts, JoinInv
  <2>3. "join queries" \notin AllSteps
    <3>1. PICK s \in {"join pairs", "join own cells"} : s \in AllSteps
      OBVIOUS
    <3>2. s \in JoinSteps \cap AllSteps /\ s # "join queries" /\ "join queries" \in JoinSteps
      BY <3>1 DEF JoinSteps
    <3>. QED BY <3>2, OneJoinStep
  <2>. QED BY <2>1, <2>2, <2>3
<1>3. DOMAIN CommonGrid \subseteq CellIds
  BY <1>2 DEF CommonGrid, CellIds, UniformCells
<1>4. \A q : \A c \in CellIds : CellsAt(q, 1)[c] = {}
  BY <1>1 DEF CellsAt, InCells, InGrid
<1>6. DOMAIN RecvAt(r, 1) = {}
  <2>1. \A q \in Ranks : InGrid(q, 1) = {}
    BY <1>1 DEF InGrid
  <2>. QED BY <1>3, <2>1, RecvSent, RecvDomain, TwoLayers
<1>7. Reduced(RecvAt(r, 1), RecvAt(r, 2)) = {}
  BY <1>6 DEF Reduced, ReducedCells
<1>8. DOMAIN CellsAt(r, 1) = CellIds
  BY DEF CellsAt, InCells
<1>9. OwnReduced(CellsAt(r, 1), CellsAt(r, 2)) = {}
  BY <1>4, <1>8 DEF OwnReduced, ReducedCells
<1>. QED BY <1>7, <1>9

LEMMA InOneCell ==
  ASSUME NEW c, NEW P, NEW x
  PROVE  x \in InCell(c, P) <=> x.pair \in P /\ x = [cellId |-> c, pair |-> x.pair]
BY DEF InCell

LEMMA PairInCell ==
  ASSUME NEW c, NEW P, NEW p \in P
  PROVE  \E x \in InCell(c, P) : x.pair = p
<1>. DEFINE x == [cellId |-> c, pair |-> p]
<1>1. x \in InCell(c, P) /\ x.pair = p
  BY DEF InCell
<1>. QED BY <1>1

LEMMA SharedIsPair ==
  ASSUME NEW r, NEW x, IsShared(r, x)
  PROVE  x.pair \in AllPairs /\ SharedCells(x.pair) # {}
BY DEF IsShared

(* Nothing is found that must not be, at any time.                         *)
LEMMA FoundIsSound ==
  ASSUME JoinInv, NEW r \in Ranks, NEW x \in mem[r].found
  PROVE  x.pair \in Required \cup Optional
<1>1. PICK s \in JoinSteps \cap AllSteps : s \in Done(r) /\ IsFound(r, s, mem[r].found)
  BY FoundIs
<1>2. /\ s = "join" => program \in BroadcastJoins
      /\ s = "join queries" => program = "adaptive"
      /\ s = "join own files" => program = "static"
      /\ s = "overlay" => program = "overlay"
      /\ s = "join on GPU" => program = "cuda"
      /\ s \in {"join", "overlay"} => program \in JoinsWithLayer2
  BY OrderOfSteps DEF Facts, JoinInv, JoinsWithLayer2
<1>3. AllPairs = Shapes(AllCandidates)
  BY DEF AllPairs, AllCandidates
<1>4. CASE s = "join queries"
  <2>1. IsShared(r, x)
    BY <1>1, <1>2, <1>4, AdaptiveFinds
  <2>2. x.pair \in AllPairs /\ SharedCells(x.pair) # {}
    BY <2>1, SharedIsPair
  <2>. QED BY <1>2, <1>4, <2>2, RequiredIs
<1>5. CASE s \in {"join pairs", "join own cells"}
  BY <1>1, <1>5, NothingFound DEF IsFound
<1>6. CASE s = "join on GPU"
  <2>1. x \in GPUFound(r)
    BY <1>1, <1>6 DEF IsFound, GPUFound
  <2>2. x.pair \in OfPolygons
    BY <1>2, <1>6, <2>1, OnlyPolygonPairs
  <2>. QED BY <1>2, <1>6, <2>2, RequiredIs
<1>7. CASE s = "join own files"
  <2>1. x \in FilesFound(r)
    BY <1>1, <1>7 DEF IsFound
  <2>2. IsShared(r, x)
    BY <1>2, <1>7, <2>1, StaticFinds
  <2>3. x.pair \in AllPairs /\ SharedCells(x.pair) # {}
    BY <2>2, SharedIsPair
  <2>. QED BY <1>2, <1>7, <2>3, RequiredIs
<1>8. CASE s = "join"
  <2>1. x.pair \in Shapes(PairsAt(r))
    BY <1>1, <1>8, InOneCell DEF IsFound
  <2>2. x.pair \in AllPairs
    BY <1>2, <1>3, <1>8, <2>1, PairsRead DEF Shapes
  <2>. QED BY <1>2, <1>8, <2>2, RequiredIs
<1>9. CASE s = "overlay"
  <2>1. PICK kept : x.pair \in Overlaid(Shapes(PairsAt(r)), kept)
    BY <1>1, <1>9, InOneCell DEF IsFound
  <2>2. x.pair \in Shapes(PairsAt(r)) /\ ~Throws(x.pair)
    BY <2>1 DEF Overlaid
  <2>3. x.pair \in AllPairs
    BY <1>2, <1>3, <1>9, <2>2, PairsRead DEF Shapes
  <2>. QED BY <1>2, <1>9, <2>2, <2>3, RequiredIs
<1>. QED BY <1>4, <1>5, <1>6, <1>7, <1>8, <1>9 DEF JoinSteps

(* At the end nothing is missing.                                          *)
LEMMA FoundIsComplete ==
  ASSUME JoinInv, Ended, NEW p \in Required
  PROVE  \E r \in Ranks : \E x \in mem[r].found : x.pair = p
<1>1. AllPairs = Shapes(AllCandidates)
  BY DEF AllPairs, AllCandidates
<1>2. ASSUME NEW s \in JoinSteps \cap AllSteps, NEW r \in Ranks
      PROVE  IsFound(r, s, mem[r].found)
  <2>1. s \in JoinSteps \cap Done(r)
    BY AllDone
  <2>. QED BY <2>1, MemIs DEF MemOK, FoundInv
<1>3. CASE program \in BroadcastJoins
  <2>1. "join" \in AllSteps /\ program \in JoinsWithLayer2
    BY <1>3, OrderOfSteps DEF Facts, JoinInv, JoinsWithLayer2
  <2>2. p \in AllPairs
    BY <1>3, RequiredIs
  <2>3. PICK r \in Ranks : p \in PairsAt(r)
    BY <1>1, <2>1, <2>2, PairsRead DEF Shapes
  <2>4. mem[r].found = InCell(0, Shapes(PairsAt(r)))
    BY <1>2, <2>1 DEF IsFound, JoinSteps
  <2>5. p \in Shapes(PairsAt(r))
    BY <2>2, <2>3 DEF AllPairs, Shapes
  <2>. QED BY <2>4, <2>5, PairInCell
<1>4. CASE program \in {"adaptive", "static"}
  <2>1. p \in AllPairs /\ SharedCells(p) # {}
    BY <1>4, RequiredIs
  <2>2. PICK c \in 0 .. numPartitions - 1 : c \in SharedCells(p)
    BY <2>1 DEF SharedCells
  <2>. DEFINE x == [cellId |-> c, pair |-> p]
  <2>3. c % numProcesses \in Ranks
    BY SpatialJoinConstants DEF Ranks
  <2>4. IsShared(c % numProcesses, x)
    BY <2>1, <2>2 DEF IsShared
  <2>5. x.pair = p
    OBVIOUS
  <2>. HIDE DEF x
  <2>6. x \in mem[c % numProcesses].found
    BY <1>4, <2>3, <2>4, SharedFound
  <2>. QED BY <2>3, <2>5, <2>6
<1>5. CASE program = "overlay"
  <2>1. "overlay" \in AllSteps /\ program \in JoinsWithLayer2
    BY <1>5, OrderOfSteps DEF Facts, JoinInv, JoinsWithLayer2
  <2>2. p \in AllPairs /\ p \notin Thrown
    BY <1>5, RequiredIs
  <2>3. PICK r \in Ranks : p \in PairsAt(r)
    BY <1>1, <2>1, <2>2, PairsRead DEF Shapes
  <2>4. PICK kept : mem[r].found = InCell(0, Overlaid(Shapes(PairsAt(r)), kept))
    BY <1>2, <2>1 DEF IsFound, JoinSteps
  <2>5. p \in Shapes(PairsAt(r))
    BY <2>2, <2>3 DEF AllPairs, Shapes
  <2>6. p \in Overlaid(Shapes(PairsAt(r)), kept)
    <3>1. \A q \in Shapes(PairsAt(r)) : q \in AllPairs /\ q[1][2] = p[1][2]
      BY <1>1, <2>1, <2>3, PairsRead DEF Shapes
    <3>. QED BY <2>2, <2>5, <3>1 DEF Overlaid, Thrown
  <2>. QED BY <2>4, <2>6, PairInCell
<1>6. CASE program = "cuda"
  <2>1. p \in OfPolygons /\ input.unread = {}
    BY <1>6, RequiredIs
  <2>2. "join on GPU" \in JoinSteps \cap AllSteps
    BY <1>6, OrderOfSteps DEF Facts, JoinInv, JoinSteps
  <2>3. \A r \in Ranks : mem[r].found = GPUFound(r)
    BY <1>2, <2>2 DEF IsFound, GPUFound
  <2>. QED BY <1>6, <2>1, <2>3, AllPolygonPairs
<1>. QED BY <1>3, <1>4, <1>5, <1>6, RequiredIs

(* Found changes in a join step only, which is one step of one process.    *)
OnlyJoinFinds(r) ==
  \A q \in Ranks : \/ mem'[q].found = mem[q].found
                   \/ q = r /\ Step(r) \in JoinSteps /\ pc' = [pc EXCEPT ![r] = pc[r] + 1]

LEMMA LocalFinds ==
  ASSUME JoinInv, NEW r \in Ranks, NEW s, NEW n, Local(r, s, n),
         s \in JoinSteps \/ n.found = mem[r].found
  PROVE  OnlyJoinFinds(r)
<1>1. /\ Step(r) = s /\ mem' = [mem EXCEPT ![r] = n]
      /\ pc' = [pc EXCEPT ![r] = pc[r] + 1] /\ DOMAIN mem = Ranks
  BY DEF Local, NextStep, JoinInv, MemInv
<1>2. mem'[r] = n /\ \A q \in Ranks \ {r} : mem'[q] = mem[q]
  BY <1>1
<1>. QED BY <1>1, <1>2 DEF OnlyJoinFinds

LEMMA StepFinds ==
  ASSUME JoinInv, NEW r \in Ranks, LocalStep(r) \/ Enter(r) \/ Leave(r)
  PROVE  OnlyJoinFinds(r)
<1>0. IsMem(mem[r])
  BY MemIs DEF MemOK
<1>. DEFINE m == mem[r]
<1>1. /\ \A v : \A l : [m EXCEPT !.geoms[l] = v].found = m.found
      /\ \A v : \A l : [m EXCEPT !.cells[l] = v].found = m.found
      /\ \A v : [m EXCEPT !.index = v].found = m.found
      /\ \A v : [m EXCEPT !.box = v].found = m.found
      /\ \A v : [m EXCEPT !.grid = v].found = m.found
      /\ \A v : [m EXCEPT !.owner = v].found = m.found
      /\ \A v : [m EXCEPT !.lines = v].found = m.found
      /\ \A v : [m EXCEPT !.recv = v].found = m.found
      /\ \A v : [m EXCEPT !.total = v].found = m.found
      /\ \A v : [m EXCEPT !.candidates = v].found = m.found
  BY <1>0 DEF IsMem
<1>. HIDE DEF m
<1>2. CASE \/ ReadQueries(r) \/ ComputeMBR(r) \/ FixUniverse(r) \/ CreateUniformGrid(r)
           \/ CreateAdaptiveGrid(r) \/ CreateCellProcessMap(r)
  BY <1>1, <1>2, LocalFinds DEF m, ReadQueries, ComputeMBR, FixUniverse, CreateUniformGrid,
     CreateAdaptiveGrid, CreateCellProcessMap
<1>3. CASE Parse(r) \/ Populate(r) \/ PartitionQueries(r)
  BY <1>1, <1>3, LocalFinds DEF m, Parse, Populate, PartitionQueries
<1>4. CASE JoinNothing(r) \/ CreateRTree(r) \/ ReadAll(r) \/ Query(r)
  BY <1>1, <1>4, LocalFinds DEF m, JoinNothing, CreateRTree, ReadAll, Query
<1>5. CASE JoinQueries(r) \/ JoinPairs(r) \/ JoinOwnCells(r) \/ JoinOnGPU(r)
  BY <1>5, LocalFinds DEF JoinSteps, JoinQueries, JoinPairs, JoinOwnCells, JoinOnGPU
<1>6. CASE JoinOwnFiles(r) \/ Join(r) \/ OverlayPairs(r)
  BY <1>6, LocalFinds DEF JoinSteps, JoinOwnFiles, Join, OverlayPairs
<1>7. CASE \/ NoQueries(r) \/ NoSuchCell(r) \/ NoPolygons(r) \/ NoPartner(r) \/ TooFewCells(r)
           \/ Enter(r)
  BY <1>7 DEF NoQueries, NoSuchCell, NoPolygons, NoPartner, TooFewCells, Enter, OnlyJoinFinds
<1>8. CASE Leave(r)
  <2>. DEFINE s == Step(r)
              sent == Sent(Len(calls[r]))
  <2>1. Received(r, s, sent).found = m.found
    <3>. HIDE DEF sent, s
    <3>0. CASE s = "partition"
      <4>1. Received(r, s, sent) = [m EXCEPT !.lines = LinesOf(1, r) \cup LinesOf(2, r)]
        BY <3>0 DEF Received, ExchangeSteps, m
      <4>. QED BY <1>1, <4>1
    <3>1. CASE s = "partition large"
      <4>1. Received(r, s, sent) = [m EXCEPT !.lines = {}]
        BY <3>1 DEF Received, ExchangeSteps, m
      <4>. QED BY <1>1, <4>1
    <3>2. CASE s = "union"
      <4>1. Received(r, s, sent) = [m EXCEPT !.box = UnionBox(r, sent)]
        BY <3>2 DEF Received, ExchangeSteps, m
      <4>. QED BY <1>1, <4>1
    <3>3. CASE s \in {"verify", "reduce total"}
      <4>1. Received(r, s, sent) = [m EXCEPT !.total = SumFunction(sent)]
        BY <3>3 DEF Received, ExchangeSteps, m
      <4>. QED BY <1>1, <4>1
    <3>4. CASE s \in ExchangeSteps
      <4>1. Received(r, s, sent) = [m EXCEPT !.recv = NowReceived(r, s, sent, m)]
        BY <3>4 DEF Received, ExchangeSteps, NowReceived, m
      <4>. QED BY <1>1, <4>1
    <3>5. CASE s \notin {"partition", "partition large", "union", "verify", "reduce total"}
                       \cup ExchangeSteps
      BY <3>5 DEF Received, m
    <3>. QED BY <3>0, <3>1, <3>2, <3>3, <3>4, <3>5
  <2>2. mem' = [mem EXCEPT ![r] = mem'[r]] /\ mem'[r].found = mem[r].found
    <3>1. DOMAIN mem = Ranks
      BY DEF JoinInv, MemInv
    <3>2. mem' = [mem EXCEPT ![r] = IF s \in Rooted /\ r # 0 THEN mem[r] ELSE Received(r, s, sent)]
      BY <1>8 DEF Leave
    <3>. HIDE DEF s, sent
    <3>. QED BY <2>1, <3>1, <3>2 DEF m
  <2>3. DOMAIN mem = Ranks
    BY DEF JoinInv, MemInv
  <2>. QED BY <2>2, <2>3 DEF OnlyJoinFinds
<1>. QED BY <1>2, <1>3, <1>4, <1>5, <1>6, <1>7, <1>8 DEF LocalStep

(* What a program has to find does not change while it runs.               *)
LEMMA SameRequired ==
  ASSUME UNCHANGED <<program, input>>
  PROVE  Required' = Required /\ Optional' = Optional
<1>1. /\ \A x : Geom(x)' = Geom(x) /\ BoxOf(x)' = BoxOf(x)
      /\ \A l, r : LinesOf(l, r)' = LinesOf(l, r)
      /\ \A l : WholeFile(l)' = WholeFile(l) /\ (ReadWhole(l)' <=> ReadWhole(l))
      /\ \A s, l : Parsed(s, l)' = Parsed(s, l)
      /\ \A a, b : Candidates(a, b)' = Candidates(a, b)
      /\ \A p : Shapes(p)' = Shapes(p) /\ (Throws(p)' <=> Throws(p))
      /\ JoinGrid' = JoinGrid
  BY DEF Lines, Geom, BoxOf, LinesOf, WholeFile, ReadWhole, Parsed, Candidates, Shapes, LinesOfPair,
         Throws, JoinGrid, AdaptiveCells, Scaled
<1>2. AllPairs' = AllPairs
  <2>1. \A l : Copies(l)' = Copies(l)
    BY <1>1 DEF Copies
  <2>. QED BY <1>1, <2>1 DEF AllPairs
<1>3. /\ Thrown' = Thrown /\ OfPolygons' = OfPolygons
      /\ \A p : SharedCells(p)' = SharedCells(p)
  BY <1>1, <1>2 DEF Thrown, OfPolygons, SharedCells
<1>. QED BY <1>1, <1>2, <1>3 DEF Required, Optional

LEMMA FoundBefore ==
  ASSUME JoinInv, NEW r \in Ranks, Step(r) \in JoinSteps
  PROVE  mem[r].found = {}
<1>1. Step(r) # "return"
  BY DEF JoinSteps
<1>2. JoinSteps \cap Done(r) = {}
  BY <1>1, Stands, JoinStepIsNew
<1>. QED BY <1>2, MemIs DEF MemOK, FoundInv

(* After its join step a process has not come to its end.                  *)
LEMMA JoinIsNotLast ==
  ASSUME JoinInv, NEW r \in Ranks, Step(r) \in JoinSteps, UNCHANGED <<program, input>>,
         pc' = [pc EXCEPT ![r] = pc[r] + 1]
  PROVE  ~Ended'
<1>1. Step(r) # "return"
  BY DEF JoinSteps
<1>2. /\ Ready(AllSteps, Step(r), Done(r)) /\ pc[r] \in 1 .. Len(Steps) /\ Len(Steps) \in Nat
      /\ Before(Steps, pc[r]) = Done(r) \cup {Step(r)}
  BY <1>1, Stands DEF Takes
<1>3. "finalize" \in AllSteps /\ "finalize" \notin Before(Steps, pc[r])
  BY <1>2 DEF Ready, JoinSteps
<1>4. pc[r] + 1 \in 1 .. Len(Steps)
  <2>1. PICK j \in 1 .. Len(Steps) : "finalize" = Steps[j]
    BY <1>3 DEF AllSteps, Before
  <2>2. j \notin 1 .. pc[r]
    BY <1>3, <2>1 DEF Before
  <2>. QED BY <1>2, <2>1, <2>2
<1>5. Ready(AllSteps, Steps[pc[r] + 1], {} \cup Before(Steps, (pc[r] + 1) - 1))
  BY <1>4, OrderOfSteps DEF Ordered, JoinInv
<1>6. Steps[pc[r] + 1] # "return"
  BY <1>5 DEF Ready
<1>7. Steps' = Steps /\ pc'[r] = pc[r] + 1 /\ pc[r] + 1 <= Len(Steps)
  BY <1>2, <1>4 DEF Steps, JoinInv, CallsInv
<1>8. Step(r)' = Steps[pc[r] + 1]
  BY <1>7 DEF Step
<1>. QED BY <1>6, <1>8 DEF Ended

Exact ==
  /\ Found \subseteq Required \cup Optional
  /\ Ended => Required \subseteq Found

LEMMA NotAfterReturn ==
  ASSUME JoinInv, NEW r \in Ranks, LocalStep(r) \/ Enter(r) \/ Leave(r)
  PROVE  UNCHANGED <<program, input>> /\ Step(r) # "return"
<1>1. CASE Enter(r) \/ Leave(r)
  BY <1>1 DEF Enter, Leave, CollectiveSteps, JoinInv, CallsInv
<1>2. CASE Parse(r) \/ Populate(r)
  <2>1. /\ UNCHANGED <<program, input>>
        /\ \E l \in Layers : \/ Step(r) = <<"parse 1", "parse 2">>[l]
                            \/ Step(r) = <<"populate 1", "populate 2">>[l]
    BY <1>2 DEF Parse, Populate, Local
  <2>2. \A l \in Layers : /\ <<"parse 1", "parse 2">>[l] # "return"
                         /\ <<"populate 1", "populate 2">>[l] # "return"
    <3>1. \A a, b, c : a # c /\ b # c => \A l \in Layers : <<a, b>>[l] # c
      BY TwoLayers
    <3>2. /\ "parse 1" # "return" /\ "parse 2" # "return"
          /\ "populate 1" # "return" /\ "populate 2" # "return"
      OBVIOUS
    <3>. QED BY <3>1, <3>2, Zenon
  <2>. QED BY <2>1, <2>2
<1>3. CASE NoQueries(r)
  <2>1. Step(r) = "read queries" /\ UNCHANGED <<program, input, pc, inCall, calls, mem>>
    BY <1>3, Zenon DEF NoQueries
  <2>. QED BY <2>1
<1>10. CASE NoPolygons(r)
  <2>1. \/ Step(r) = "join on GPU"
        \/ Step(r) = "join own files"
    BY <1>10 DEF NoPolygons
  <2>. QED BY <1>10, <2>1 DEF NoPolygons
<1>11. CASE NoPartner(r) \/ TooFewCells(r)
  BY <1>11 DEF NoPartner, TooFewCells
<1>4. CASE NoSuchCell(r)
  BY <1>4 DEF NoSuchCell, OutOfRange
<1>5. CASE ReadQueries(r) \/ ComputeMBR(r) \/ FixUniverse(r) \/ CreateUniformGrid(r)
  BY <1>5 DEF ReadQueries, ComputeMBR, FixUniverse, CreateUniformGrid, Local
<1>6. CASE CreateAdaptiveGrid(r) \/ PartitionQueries(r) \/ CreateCellProcessMap(r)
  BY <1>6 DEF CreateAdaptiveGrid, PartitionQueries, CreateCellProcessMap, Local
<1>7. CASE JoinQueries(r) \/ JoinPairs(r) \/ JoinOwnCells(r) \/ JoinNothing(r)
  BY <1>7 DEF JoinQueries, JoinPairs, JoinOwnCells, JoinNothing, Local
<1>8. CASE JoinOnGPU(r) \/ JoinOwnFiles(r) \/ CreateRTree(r) \/ ReadAll(r)
  BY <1>8 DEF JoinOnGPU, JoinOwnFiles, CreateRTree, ReadAll, Local
<1>9. CASE Query(r) \/ Join(r) \/ OverlayPairs(r)
  BY <1>9 DEF Query, Join, OverlayPairs, Local
<1>. QED BY <1>1, <1>2, <1>3, <1>4, <1>5, <1>6, <1>7, <1>8, <1>9, <1>10, <1>11 DEF LocalStep

LEMMA RefinesStep ==
  ASSUME JoinInv, [Next]_vars, Exact'
  PROVE  [JoinImplemented!Find \/ JoinImplemented!End]_(JoinImplemented!joinVars)
<1>. DEFINE Step1 == [JoinImplemented!Find \/ JoinImplemented!End]_(JoinImplemented!joinVars)
<1>0. /\ (/\ ~Ended /\ Found' \subseteq Required \cup Optional /\ Found \subseteq Found'
          /\ Required' = Required /\ Optional' = Optional /\ (Ended' <=> Ended)) => Step1
      /\ (/\ ~Ended /\ Required \subseteq Found /\ Ended'
          /\ Required' = Required /\ Optional' = Optional /\ Found' = Found) => Step1
      /\ (/\ Required' = Required /\ Optional' = Optional /\ Found' = Found
          /\ (Ended' <=> Ended)) => Step1
  <2>1. /\ (Ended' <=> Ended) => Ended' = Ended
        /\ Ended' => Ended' = TRUE
    BY DEF Ended
  <2>2. (/\ ~Ended /\ Found' \subseteq Required \cup Optional /\ Found \subseteq Found'
         /\ Required' = Required /\ Optional' = Optional /\ Ended' = Ended)
          => JoinImplemented!Find
    BY DEF JoinImplemented!Find, Found
  <2>3. (/\ ~Ended /\ Required \subseteq Found /\ Ended' = TRUE
         /\ Required' = Required /\ Optional' = Optional /\ Found' = Found)
          => JoinImplemented!End
    BY DEF JoinImplemented!End, Found
  <2>4. /\ Required' = Required /\ Optional' = Optional /\ Found' = Found /\ Ended' = Ended
          => UNCHANGED JoinImplemented!joinVars
    BY DEF JoinImplemented!joinVars, Found
  <2>. QED BY <2>1, <2>2, <2>3, <2>4, Zenon
<1>. HIDE DEF Step1
<1>. SUFFICES Step1
  BY DEF Step1
<1>1. CASE UNCHANGED vars
  <2>1. Found' = Found /\ (Ended' <=> Ended)
    BY <1>1 DEF vars, Found, Ended, Step, Steps
  <2>2. Required' = Required /\ Optional' = Optional
    BY <1>1, SameRequired DEF vars
  <2>. QED BY <1>0, <2>1, <2>2
<1>2. ASSUME NEW r \in Ranks, LocalStep(r) \/ Enter(r) \/ Leave(r)
      PROVE  Step1
  <2>1. UNCHANGED <<program, input>> /\ Step(r) # "return"
    BY <1>2, NotAfterReturn
  <2>2. Required' = Required /\ Optional' = Optional
    BY <2>1, SameRequired
  <2>3. ~Ended /\ OnlyJoinFinds(r)
    BY <1>2, <2>1, StepFinds DEF Ended
  <2>5. CASE \A q \in Ranks : mem'[q].found = mem[q].found
    <3>1. Found' = Found
      BY <2>5 DEF Found
    <3>2. Found \subseteq Required \cup Optional /\ (Ended' => Required \subseteq Found)
      BY <2>2, <3>1 DEF Exact
    <3>. QED BY <1>0, <2>2, <2>3, <3>1, <3>2
  <2>6. CASE ~ \A q \in Ranks : mem'[q].found = mem[q].found
    <3>1. Step(r) \in JoinSteps /\ pc' = [pc EXCEPT ![r] = pc[r] + 1]
      BY <2>3, <2>6 DEF OnlyJoinFinds
    <3>2. ~Ended' /\ mem[r].found = {}
      BY <2>1, <3>1, JoinIsNotLast, FoundBefore
    <3>3. Found \subseteq Found'
      <4>1. \A q \in Ranks : mem[q].found \subseteq mem'[q].found
        BY <2>3, <3>2 DEF OnlyJoinFinds
      <4>. QED BY <4>1 DEF Found
    <3>4. Found' \subseteq Required \cup Optional
      BY <2>2 DEF Exact
    <3>. QED BY <1>0, <2>2, <2>3, <3>2, <3>3, <3>4
  <2>. QED BY <2>5, <2>6
<1>. QED BY <1>1, <1>2 DEF Next, Terminating

LEMMA ExactAlways ==
  ASSUME JoinInv PROVE Exact
<1>1. Found \subseteq Required \cup Optional
  BY FoundIsSound DEF Found
<1>2. ASSUME Ended, NEW p \in Required PROVE p \in Found
  BY <1>2, FoundIsComplete DEF Found
<1>. QED BY <1>1, <1>2 DEF Exact

LEMMA InitRefines == Init => JoinImplemented!JoinInit
<1>. SUFFICES ASSUME Init PROVE JoinImplemented!JoinInit
  OBVIOUS
<1>1. JoinInv
  BY InitJoin
<1>2. ~Ended
  <2>1. 0 \in Ranks
    BY SpatialJoinConstants DEF Ranks
  <2>2. AllSteps # {}
    BY <1>1, OrderOfSteps DEF Facts, JoinInv
  <2>3. Done(0) = {}
    BY <2>1 DEF Init, Done, Before
  <2>. QED BY <1>1, <2>1, <2>2, <2>3, AllDone
<1>3. \A r \in Ranks : mem[r].found = {}
  BY DEF Init
<1>. QED BY <1>2, <1>3 DEF JoinImplemented!JoinInit

(* Every program that joins implements JoinSpec: it holds no pair it must  *)
(* not find at any time, and all it has to find at its end, wherever the   *)
(* lines were read and in whatever order the processes run.                *)
THEOREM RefinesJoinHolds == Spec => RefinesJoin
<1>1. JoinInv => Exact
  BY ExactAlways
<1>2. JoinInv /\ [Next]_vars /\ Exact' =>
        [JoinImplemented!Find \/ JoinImplemented!End]_(JoinImplemented!joinVars)
  BY RefinesStep
<1>. QED BY <1>1, <1>2, InitRefines, JoinInvHolds, PTL
         DEF Spec, RefinesJoin, JoinImplemented!JoinSafety

(* So no program ever holds a pair it must not find, and at its end it     *)
(* misses none it has to find, for every number of processes, all files    *)
(* and whatever lines the partitioner gives to whom.                       *)
THEOREM FoundIsExact == Spec => [](JoinImplemented!Sound /\ JoinImplemented!Complete)
<1>1. JoinInv => JoinImplemented!Sound /\ JoinImplemented!Complete
  BY ExactAlways DEF Exact, Found, JoinImplemented!Sound, JoinImplemented!Complete
<1>. QED BY <1>1, JoinInvHolds, PTL
=============================================================================
