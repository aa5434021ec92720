------------------------------- MODULE Shuffle -------------------------------
(***************************************************************************)
(* The exchange of geometries between the MPI processes: every rank has    *)
(* put the geometries of its part of the file into the cells of the grid,  *)
(* and sends those of each cell to the rank that owns the cell.  The cells *)
(* are exchanged in rounds; a round is four collective calls, and what was *)
(* received is parsed and inserted into the rank's map from cell to        *)
(* geometries.  These classes do it:                                       *)
(*                                                                         *)
(*   "all"     AllObjectsCommBuffer: text is sent in units of PACKING_LEN  *)
(*             characters, each rank's part padded to whole units          *)
(*   "multi"   MultiRoundOneLayerGeomBufferMgr: text without padding       *)
(*   "single"  SingleLayerGeomBufferMgr: as "multi", in one round          *)
(*   "pair"    BufferManagerForGeoms on top of MPI_BufferManager: two       *)
(*             layers at once, in one round                                *)
(*   "boxes"   MPI_BufferManager: the boxes of two layers, without texts   *)
(*   "roads"   BufferRoadNetwork: the boxes of one layer                   *)
(***************************************************************************)
EXTENDS Integers, Sequences, FiniteSets, SequencesExt

CONSTANTS
  numProcesses,  \* number of MPI processes
  numRounds,     \* rounds of "all" and "multi" (10 in the code)
  PACKING_LEN,   \* characters in a unit of "all" (10000 in the code)
  Setups,        \* pairs of a class and a text reader
  Inputs         \* grids, and geometries with their place in them

Ranks    == 0 .. numProcesses - 1
Managers == {"all", "multi", "single", "pair", "boxes", "roads"}

(* GEOS's WKTReader on the text of a geometry, whose buffer does not end   *)
(* with '\0': "lenient" ones stop behind the geometry, "strict" ones throw *)
(* when the bytes that follow in memory look like more text.               *)
Readers == {"lenient", "strict"}

(* A geometry: its layer, the length of its text, the rank that read it    *)
(* from the file and the cells that meet its envelope.                     *)
IsInput(in) ==
  /\ in.numCells \in Nat
  /\ Len(in.geoms) \in Nat /\ DOMAIN in.geoms = 1 .. Len(in.geoms)
  /\ \A g \in DOMAIN in.geoms : /\ in.geoms[g].layer \in 1 .. 2
                                /\ in.geoms[g].len \in Nat \ {0}
                                /\ in.geoms[g].rank \in Ranks
                                /\ in.geoms[g].cells \subseteq 0 .. in.numCells - 1

ASSUME ShuffleConstants ==
  /\ numProcesses \in Nat \ {0}
  /\ numRounds \in Nat \ {0}
  /\ PACKING_LEN \in Nat \ {0}
  /\ Setups \subseteq [manager : Managers, reader : Readers]
  /\ \A in \in Inputs : IsInput(in)

VARIABLES
  setup, input,   \* chosen at the start
  round,          \* per rank: the round it is in
  pc,             \* per rank: its next (or current) collective call, or "parse"
  inCall,         \* per rank: has it entered that call?
  calls,          \* per rank: the calls it has entered, with what it sends
  got,            \* per rank: what it received in the last call of each kind
  geomMap,        \* per rank and layer: the map from cell to list of geometries
  totalGeoms,     \* per rank: geometries counted so far ("multi" only)
  unread          \* ghost, per rank: cell and geometry whose own read threw

vars == <<setup, input, round, pc, inCall, calls, got, geomMap, totalGeoms, unread>>

Cells  == 0 .. input.numCells - 1
Geoms  == DOMAIN input.geoms
Layers == IF setup.manager \in {"pair", "boxes"} THEN 1 .. 2 ELSE 1 .. 1
Rounds == IF setup.manager \in {"all", "multi"} THEN numRounds ELSE 1
Unit   == IF setup.manager = "all" THEN PACKING_LEN ELSE 1

ByRank(f) == FlattenSeq([i \in 1 .. numProcesses |-> f[i - 1]])

(* The elements of the sequence s that are in T, in the order of s.        *)
Only(s, T) == FlattenSeq([i \in 1 .. Len(s) |-> IF s[i] \in T THEN <<s[i]>> ELSE <<>>])

-----------------------------------------------------------------------------
(* What a rank has to send.                                                *)

(* RoundRobinStrategy: the cells of process p, in ascending order.         *)
CellsOf(p) ==
  Only([i \in 1 .. input.numCells |-> i - 1], {c \in Cells : c % numProcesses = p})

(* Mutant: the last round leaves out the remainder of the division.        *)
EqualRounds(p, rd) ==
  LET size == Len(CellsOf(p)) \div Rounds
  IN  SubSeq(CellsOf(p), rd * size + 1, (rd + 1) * size)

(* Mutant: startIndex is rounded up.                                       *)
OverlappingRounds(p, rd) ==
  LET size  == Len(CellsOf(p)) \div Rounds
      end   == IF rd = Rounds - 1 THEN Len(CellsOf(p)) ELSE (rd + 1) * size + 1
  IN  SubSeq(CellsOf(p), rd * size + 1, end)

CellsForARound(p, rd) ==
  LET size == Len(CellsOf(p)) \div Rounds
      end  == IF rd = Rounds - 1 THEN Len(CellsOf(p)) ELSE (rd + 1) * size
  IN  SubSeq(CellsOf(p), rd * size + 1, end)

(* assert(cellsSize >= numRounds), for every process.                      *)
EnoughCells ==
  setup.manager \notin {"all", "multi"} \/ \A p \in Ranks : Len(CellsOf(p)) >= numRounds

(* The geometries of a layer that rank r has put into cell c.              *)
Layer(r, c, l) ==
  Only([g \in Geoms |-> g],
       {g \in Geoms : /\ input.geoms[g].layer = l /\ input.geoms[g].rank = r
                      /\ c \in input.geoms[g].cells})

(* What r packs for p: cell by cell, a geometry once for each of its cells. *)
InOneCell(c, gs) == [j \in 1 .. Len(gs) |-> [cellId |-> c, geom |-> gs[j]]]
Packed(r, p, rd, l) ==
  LET cs == CellsForARound(p, rd)
  IN  FlattenSeq([i \in 1 .. Len(cs) |-> InOneCell(cs[i], Layer(r, cs[i], l))])

(* The units of Unit characters for a text of n: ceil(n / PACKING_LEN).      *)
UnitsRoundedDown(n) == n \div Unit   \* mutant: no ceil
Units(n) == (n + Unit - 1) \div Unit

(* A box has the coordinates of its geometry, and of a road its edgeId,    *)
(* which "boxes" and "roads" need: here they are the geometry itself.      *)
Boxes(r, p, rd, l) ==
  LET packed == Packed(r, p, rd, l)
  IN  [i \in 1 .. Len(packed) |->
         [cellId |-> packed[i].cellId, vertStrLen |-> input.geoms[packed[i].geom].len,
          coords |-> packed[i].geom]]

(* The characters of the first n boxes.                                    *)
VertStrLens(boxes, n) ==
  SumFunctionOnSet([i \in 1 .. Len(boxes) |-> boxes[i].vertStrLen], 1 .. n)
TextLen(r, p, rd, l) == LET boxes == Boxes(r, p, rd, l) IN VertStrLens(boxes, Len(boxes))

(* The texts in the send buffer for p: where each geometry's text begins.   *)
Texts(r, p, rd, l) ==
  LET packed == Packed(r, p, rd, l)
      boxes  == Boxes(r, p, rd, l)
  IN  {[geom |-> packed[i].geom, at |-> VertStrLens(boxes, i - 1)] : i \in 1 .. Len(packed)}

(* assert(buffCounter <= upperBound && buffCounter <= sendBufSize)         *)
FitsBuffer(r, rd, l) ==
  \A p \in Ranks : TextLen(r, p, rd, l) <= Unit * Units(TextLen(r, p, rd, l))

(* The calls of a round.  Those that end in 2 are for the second layer;    *)
(* the counts of both layers are sent together.                            *)
CallsOf(manager) ==
  CASE manager = "pair"  -> <<"mbrCounts", "mbrs", "mbrs2", "geomCounts", "geoms", "geoms2">>
    [] manager = "boxes" -> <<"mbrCounts", "mbrs", "mbrs2">>
    [] manager = "roads" -> <<"mbrCounts", "mbrs">>
    [] OTHER             -> <<"mbrCounts", "mbrs", "geomCounts", "geoms">>

Mbrs(l)    == <<"mbrs", "mbrs2">>[l]
GeomsOf(l) == <<"geoms", "geoms2">>[l]
MbrCalls   == {"mbrs", "mbrs2"}
TextCalls  == {"geoms", "geoms2"}
Calls      == MbrCalls \cup TextCalls \cup {"mbrCounts", "geomCounts", "allreduce"}
LayerOf(call) == IF call \in {"mbrs2", "geoms2"} THEN 2 ELSE 1

Payload(r) ==
  [p \in Ranks |->
    CASE pc[r] = "mbrCounts"  -> [l \in Layers |-> Len(Packed(r, p, round[r], l))]
      [] pc[r] \in MbrCalls   -> Boxes(r, p, round[r], LayerOf(pc[r]))
      [] pc[r] = "geomCounts" -> [l \in Layers |-> Units(TextLen(r, p, round[r], l))]
      [] pc[r] \in TextCalls  -> Texts(r, p, round[r], LayerOf(pc[r]))
      [] pc[r] = "allreduce"  -> totalGeoms[r]]

-----------------------------------------------------------------------------
(* What a rank makes of what it received.                                  *)

(* prefixSum: where in the receive buffer the part of sender p begins.     *)
Displacement(counts, p, l) ==
  SumFunctionOnSet([i \in 1 .. numProcesses |-> counts[i - 1][l]], 1 .. p)

AllBoxes(r, l) == ByRank(got[r][Mbrs(l)])

(* The texts in the receive buffer.                                        *)
TextsGot(r, l) ==
  UNION {{[geom |-> t.geom, at |-> Displacement(got[r].geomCounts, p, l) * Unit + t.at] :
            t \in got[r][GeomsOf(l)][p]} : p \in Ranks}

(* The geometry read from the n characters at offset o of the buffer, as a *)
(* sequence; it is empty when the reader throws.  clean: the copy of the   *)
(* text happens to be followed by '\0'.                                    *)
ReadText(r, l, o, n, clean) ==
  LET found == {t \in TextsGot(r, l) :
                  /\ t.at = o /\ input.geoms[t.geom].len <= n
                  /\ setup.reader = "strict" => input.geoms[t.geom].len = n /\ clean}
  IN  IF found = {} THEN <<>> ELSE <<(CHOOSE t \in found : TRUE).geom>>

(* Mutant: cells are counted from 1.                                       *)
PushedFromOne(cell, geoms) == InOneCell(cell + 1, geoms)
Pushed(cell, geoms) == InOneCell(cell, geoms)

(* Mutant: the text of p follows that of p - 1 without padding, as in      *)
(* parseGeomFromLayerAllObj.                                               *)
OffsetWithoutPadding(r, p) ==
  VertStrLens(AllBoxes(r, 1), Displacement(got[r].mbrCounts, p, 1))
OffsetOfSender(r, p) == Displacement(got[r].geomCounts, p, 1) * Unit

(* parseGeomByProcess: the text of a sender begins at its displacement in  *)
(* the buffer, and the offset advances whether or not a text can be read.  *)
ParseByProcess(r, clean) ==
  LET first(p) == Displacement(got[r].mbrCounts, p, 1)
      boxes(p) == SubSeq(AllBoxes(r, 1), first(p) + 1, first(p) + got[r].mbrCounts[p][1])
      parse(p, i) ==
        LET n == boxes(p)[i].vertStrLen
            o == OffsetOfSender(r, p) + VertStrLens(boxes(p), i - 1)
        IN  Pushed(boxes(p)[i].cellId, ReadText(r, 1, o, n, first(p) + i \in clean))
  IN  ByRank([p \in Ranks |->
        FlattenSeq([i \in 1 .. got[r].mbrCounts[p][1] |-> parse(p, i)])])

(* parseGeomFromLayerGrpByCell: one offset for all senders, which advances *)
(* only after a text has been read.                                        *)
ParseByCell(r, l, clean) ==
  LET boxes == AllBoxes(r, l)
      read(n, o) == ReadText(r, l, o, boxes[n].vertStrLen, n \in clean)
      advance == [n \in 1 .. Len(boxes) |-> [o \in Nat |->
                    IF read(n, o) = <<>> THEN o ELSE o + boxes[n].vertStrLen]]
      offset[n \in 1 .. Len(boxes)] == IF n = 1 THEN 0 ELSE advance[n - 1][offset[n - 1]]
  IN  FlattenSeq([n \in 1 .. Len(boxes) |-> Pushed(boxes[n].cellId, read(n, offset[n]))])

(* parseEnvelopesFromStruct: the boxes are all there is.                   *)
ParseBoxes(r, l) ==
  LET boxes == AllBoxes(r, l)
  IN  FlattenSeq([n \in 1 .. Len(boxes) |-> Pushed(boxes[n].cellId, <<boxes[n].coords>>)])

ParseLayer(r, l, clean) ==
  CASE setup.manager = "all"                -> ParseByProcess(r, clean)
    [] setup.manager \in {"boxes", "roads"} -> ParseBoxes(r, l)
    [] OTHER                                -> ParseByCell(r, l, clean)

(* map::insert leaves an entry that is already there as it is.             *)
Insert(map, new) ==
  [c \in DOMAIN map \cup DOMAIN new |-> IF c \in DOMAIN map THEN map[c] ELSE new[c]]

GroupByCell(pushed) ==
  [c \in {pushed[i].cellId : i \in 1 .. Len(pushed)} |->
     LET ofCell == Only(pushed, {x \in Range(pushed) : x.cellId = c})
     IN  [i \in 1 .. Len(ofCell) |-> ofCell[i].geom]]

-----------------------------------------------------------------------------
Init ==
  /\ setup \in Setups
  /\ input \in Inputs
  /\ round = [r \in Ranks |-> 0]
  /\ pc = [r \in Ranks |-> "mbrCounts"]
  /\ inCall = [r \in Ranks |-> FALSE]
  /\ calls = [r \in Ranks |-> <<>>]
  /\ got = [r \in Ranks |-> <<>>]
  /\ geomMap = [r \in Ranks |-> [l \in Layers |-> <<>>]]
  /\ totalGeoms = [r \in Ranks |-> 0]
  /\ unread = [r \in Ranks |-> {}]

(* The assertions before a call.                                           *)
AssertionsHold(r) ==
  /\ pc[r] = "mbrCounts" => EnoughCells
  /\ pc[r] \in TextCalls => FitsBuffer(r, round[r], LayerOf(pc[r]))

Abort(r) ==
  /\ pc[r] \in Calls /\ ~inCall[r] /\ ~AssertionsHold(r)
  /\ pc' = [pc EXCEPT ![r] = "abort"]
  /\ UNCHANGED <<setup, input, round, inCall, calls, got, geomMap, totalGeoms, unread>>

Enter(r) ==
  /\ pc[r] \in Calls /\ ~inCall[r] /\ AssertionsHold(r)
  /\ inCall' = [inCall EXCEPT ![r] = TRUE]
  /\ calls' = [calls EXCEPT ![r] =
                 Append(@, [call |-> pc[r], round |-> round[r], to |-> Payload(r)])]
  /\ UNCHANGED <<setup, input, round, pc, got, geomMap, totalGeoms, unread>>

(* A rank may leave a call as soon as it has what it receives there: what  *)
(* it expects nothing from need not have entered.                          *)
Expects(r, q) ==
  /\ pc[r] \in MbrCalls  => got[r].mbrCounts[q][LayerOf(pc[r])] > 0
  /\ pc[r] \in TextCalls => got[r].geomCounts[q][LayerOf(pc[r])] > 0

HasEntered(q, k) == Len(calls[q]) >= k
AllEntered(k) == \A q \in Ranks : HasEntered(q, k)

NextCall(call) ==
  LET s == CallsOf(setup.manager)
  IN  CASE call = "allreduce" -> "done"
        [] call = Last(s)     -> "parse"
        [] OTHER              -> s[CHOOSE i \in 1 .. Len(s) : i > 1 /\ s[i - 1] = call]

(* Mutant: a rank that receives no text skips the exchange of texts.       *)
SkipEmptyCall(r, received) ==
  IF pc[r] = "geomCounts" /\ \A q \in Ranks : \A l \in Layers : received[q][l] = 0
  THEN "parse" ELSE NextCall(pc[r])
AfterCall(r, received) == NextCall(pc[r])

Put(f, x, v) == [y \in DOMAIN f \cup {x} |-> IF y = x THEN v ELSE f[y]]

Leave(r) ==
  /\ inCall[r]
  /\ LET k == Len(calls[r])
         received == [q \in Ranks |->
                        IF HasEntered(q, k) THEN calls[q][k].to[r]
                        ELSE IF pc[r] \in TextCalls THEN {} ELSE <<>>]
     IN  /\ \A q \in Ranks : Expects(r, q) => HasEntered(q, k)
         /\ got' = [got EXCEPT ![r] = Put(@, pc[r], received)]
         /\ pc' = [pc EXCEPT ![r] = AfterCall(r, received)]
  /\ inCall' = [inCall EXCEPT ![r] = FALSE]
  /\ UNCHANGED <<setup, input, round, calls, geomMap, totalGeoms, unread>>

(* What the boxes of r's current round stand for.                          *)
Received(r, l) == ByRank([q \in Ranks |-> Packed(q, r, round[r], l)])
Positions(r) == UNION {{<<l, i>> : i \in 1 .. Len(Received(r, l))} : l \in Layers}

(* A text that is read may fail; boxes are not read.                       *)
MayThrow == setup.reader = "strict" /\ setup.manager \notin {"boxes", "roads"}

AfterLoop == IF setup.manager = "multi" THEN "allreduce" ELSE "done"

(* Mutant: only the root takes part in the reduction of the totals.        *)
AfterRoundAtRoot(r) ==
  IF round[r] + 1 < Rounds THEN "mbrCounts" ELSE IF r = 0 THEN AfterLoop ELSE "done"
AfterRound(r) == IF round[r] + 1 < Rounds THEN "mbrCounts" ELSE AfterLoop

(* Parse what was received and insert it.                                  *)
ParseRound(r) ==
  /\ pc[r] = "parse"
  /\ \E clean \in IF MayThrow THEN SUBSET Positions(r) ELSE {Positions(r)} :
       \E pushed \in {[l \in Layers |-> ParseLayer(r, l, {x[2] : x \in {y \in clean : y[1] = l}})]} :
           /\ geomMap' = [geomMap EXCEPT ![r] =
                            [l \in Layers |-> Insert(@[l], GroupByCell(pushed[l]))]]
           /\ totalGeoms' = [totalGeoms EXCEPT ![r] =
                               IF setup.manager = "multi" THEN @ + Len(pushed[1]) ELSE @]
           /\ unread' = [unread EXCEPT ![r] =
                @ \cup {Received(r, x[1])[x[2]] : x \in Positions(r) \ clean}]
  /\ round' = [round EXCEPT ![r] = @ + 1]
  /\ pc' = [pc EXCEPT ![r] = AfterRound(r)]
  /\ UNCHANGED <<setup, input, inCall, calls, got>>

AllStopped == \A r \in Ranks : pc[r] \in {"done", "abort"}
Terminating == AllStopped /\ UNCHANGED vars

Next ==
  \/ \E r \in Ranks : Abort(r) \/ Enter(r) \/ Leave(r) \/ ParseRound(r)
  \/ Terminating

(* Every process keeps running, and MPI completes a collective call that   *)
(* all processes have entered; earlier it may or may not let a rank go.    *)
(* This is said of the control, which every step of a rank changes.        *)
Proceed(r) ==
  \/ /\ pc[r] \in Calls /\ ~inCall[r]
     /\ \/ pc' = [pc EXCEPT ![r] = "abort"] /\ UNCHANGED inCall
        \/ inCall' = [inCall EXCEPT ![r] = TRUE] /\ UNCHANGED pc
  \/ /\ inCall[r] /\ AllEntered(Len(calls[r]))
     /\ inCall' = [inCall EXCEPT ![r] = FALSE]
     /\ \E call \in Calls \cup {"parse", "done"} : pc' = [pc EXCEPT ![r] = call]
  \/ /\ pc[r] = "parse"
     /\ pc' = [pc EXCEPT ![r] = AfterRound(r)] /\ UNCHANGED inCall
Fairness == WF_<<pc, inCall>>(\E r \in Ranks : Proceed(r))
Spec == Init /\ [][Next]_vars /\ Fairness

-----------------------------------------------------------------------------
(* Properties.                                                             *)

TypeOK ==
  /\ setup \in Setups /\ input \in Inputs
  /\ round \in [Ranks -> 0 .. Rounds]
  /\ pc \in [Ranks -> Calls \cup {"parse", "done", "abort"}]
  /\ inCall \in [Ranks -> BOOLEAN]
  /\ \A r \in Ranks :
       /\ \A l \in Layers :
            /\ DOMAIN geomMap[r][l] \subseteq Cells
            /\ \A c \in DOMAIN geomMap[r][l] : geomMap[r][l][c] \in Seq(Geoms) \ {<<>>}
       /\ unread[r] \subseteq [cellId : Cells, geom : Geoms]
       /\ totalGeoms[r] \in Nat

(* MPI requires that all processes make the same collective calls in the   *)
(* same order: the k-th call of every rank is the same one, of the same    *)
(* round, however far some ranks are ahead of others.                      *)
CallsMatch ==
  \A r, q \in Ranks : \A k \in 1 .. Len(calls[r]) :
    k <= Len(calls[q]) => /\ calls[r][k].call = calls[q][k].call
                          /\ calls[r][k].round = calls[q][k].round

(* No assertion of the exchange fails but the one in getCellsForARound:    *)
(* what is packed always fits what was counted.                            *)
AbortsOnlyWithFewCells ==
  (\E r \in Ranks : pc[r] = "abort") => ~EnoughCells

(* "Each MPI process gets a list of (cellId, geoms) pairs.  Geometries are *)
(* grouped by cell": after each round, the rank's map holds, for its cells *)
(* of the rounds so far, what all ranks together have in the cell, and     *)
(* nothing else; a text that could not be read costs that geometry only.   *)
InCell(r, c, l) ==
  Only(ByRank([q \in Ranks |-> Layer(q, c, l)]),
       {g \in Geoms : [cellId |-> c, geom |-> g] \notin unread[r]})
CellsSoFar(r) ==
  UNION {Range(CellsForARound(r, rd)) : rd \in 0 .. round[r] - 1}
OwnersHaveTheirCells ==
  \A r \in Ranks : \A l \in Layers :
    geomMap[r][l] = [c \in {d \in CellsSoFar(r) : InCell(r, d, l) # <<>>} |-> InCell(r, c, l)]

(* At the end no geometry is missing: every cell of the grid is with the   *)
(* rank that owns it.                                                      *)
AllCellsDelivered ==
  (\A r \in Ranks : pc[r] = "done") =>
    \A c \in Cells : \A l \in Layers :
      LET r == c % numProcesses
      IN  c \in DOMAIN geomMap[r][l] \/ InCell(r, c, l) = <<>>

(* Geometries are grouped by cell: a rank has a geometry in the list of a  *)
(* cell only if it lies in that cell.                                      *)
GroupedByCell ==
  \A r \in Ranks : \A l \in Layers : \A c \in DOMAIN geomMap[r][l] :
    \A i \in 1 .. Len(geomMap[r][l][c]) : c \in input.geoms[geomMap[r][l][c][i]].cells

(* The total "multi" prints is the number of geometries in all cells.      *)
TotalIsComplete ==
  \A r \in Ranks : pc[r] = "done" /\ setup.manager = "multi" =>
    SumFunction(got[r].allreduce) =
      SumFunction([c \in Cells |-> Len(InCell(r, c, 1))])

(* Every rank gets to the end of the exchange.                             *)
Termination == EnoughCells ~> \A r \in Ranks : pc[r] = "done"
=============================================================================
