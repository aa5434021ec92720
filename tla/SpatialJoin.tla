----------------------------- MODULE SpatialJoin -----------------------------
(***************************************************************************)
(* The programs that join two layers of geometries, or exchange one: their *)
(* main functions as the sequence of steps every MPI process takes, and    *)
(* what each step does with the geometries.  Local steps of the processes  *)
(* interleave; a collective step is entered by each process on its own and *)
(* left once the others it depends on have entered it.                     *)
(*                                                                         *)
(* Space has one dimension here: a box is an interval.  UniformGrid models *)
(* the cells in two dimensions and Shuffle the exchange, which are one     *)
(* step here each; which lines a rank reads is what FilePartition says.    *)
(***************************************************************************)
EXTENDS Integers, Sequences, FiniteSets, SequencesExt

CONSTANTS
  numProcesses,   \* number of MPI processes
  numPartitions,  \* argument #partitions: cells of the uniform grid
  overlap,        \* bytes read beyond a rank's share of a file
  numRounds,      \* rounds of AllObjectsCommBuffer, 10
  Universe,       \* the fixed universe of some programs, (-180,180,-90,90)
  EmptyListBox,   \* what getMBR returns for an empty list
  adaptiveCells,  \* the number of cells of the adaptive grid, 68677
  Programs,       \* the programs to look at
  Inputs          \* the files

Ranks  == 0 .. numProcesses - 1
Layers == 1 .. 2

Box(l, h) == [lo |-> l, hi |-> h]
Meet(a, b) == a.lo <= b.hi /\ b.lo <= a.hi
Hull(boxes) ==
  Box(CHOOSE x \in {b.lo : b \in boxes} : \A b \in boxes : x <= b.lo,
      CHOOSE x \in {b.hi : b \in boxes} : \A b \in boxes : x >= b.hi)

(* A box holds at least a point.                                           *)
IsBox(b) == {b.lo, b.hi} \subseteq Int /\ b.lo <= b.hi

(* FilePartition for one of the files.                                     *)
Partition(file) ==
  INSTANCE FilePartition WITH
    MPI_Processes <- numProcesses, Layers <- {}, layer <- file,
    first <- <<>>, last <- <<>>, splits <- <<>>

(* A line of a file: its layer, the box of its geometry, whether it parses *)
(* and whether its geometry is a polygon.  WKTParser::extract cuts a line  *)
(* at its tabs, wants three columns and takes the second: from is the byte *)
(* before the first tab and to the one behind the second, and unless it    *)
(* has all the bytes between them nothing is parsed of a piece.            *)
(*                                                                         *)
(* files are the layers' files, as in FilePartition.  apart and throws are *)
(* pairs of lines whose boxes meet: of apart the shapes do not, and for    *)
(* throws the intersection throws an exception.  unread are the texts of   *)
(* the exchange whose reading throws, as pairs of a geometry and a cell.   *)
(* queryFile tells which processes find the file of the queries, gridFile  *)
(* has the boxes of the adaptive grid, and numFilesLayer2 is the length of *)
(* the static balancer's list of files of layer 2.                         *)
Needed(line) == line.from .. line.to

IsInput(in) ==
  /\ IsFiniteSet(DOMAIN in.lines) /\ DOMAIN in.lines \subseteq Nat
  /\ \A i \in DOMAIN in.lines :
       /\ in.lines[i].layer \in Layers
       /\ LET file == in.files[in.lines[i].layer]
          IN  /\ Needed(in.lines[i]) \subseteq 0 .. file.size - 1
              /\ Needed(in.lines[i]) \cap file.newlines = {}
       /\ IsBox(in.lines[i].box)
       /\ {in.lines[i].valid, in.lines[i].polygon} \subseteq BOOLEAN
  /\ \A l \in Layers : Partition(in.files[l])!IsLayer(in.files[l])
  /\ in.queryFile \in [Ranks -> BOOLEAN]
  /\ in.apart \cap in.throws = {}
  /\ \A x \in in.unread : x[1] \in (DOMAIN in.lines) \X Ranks
  /\ in.numFilesLayer2 \in Nat

ASSUME SpatialJoinConstants ==
  /\ numProcesses \in Nat \ {0} /\ numPartitions \in Nat \ {0}
  /\ overlap \in Nat /\ numRounds \in Nat /\ adaptiveCells \in Nat
  /\ IsBox(Universe) /\ IsBox(EmptyListBox)
  /\ EmptyListBox.lo <= Universe.lo /\ Universe.hi <= EmptyListBox.hi
  /\ \A in \in Inputs : IsInput(in)

VARIABLES
  program, input,  \* chosen at the start
  pc,              \* per rank: the number of its step
  inCall,          \* per rank: has it entered that collective step?
  calls,           \* per rank: the collective calls it has entered
  mem,             \* per rank: the variables of its main function
  killed           \* MPI_Abort, exit or a signal has ended the job

vars == <<program, input, pc, inCall, calls, mem, killed>>

-----------------------------------------------------------------------------
(* The programs.                                                           *)

Counts == <<"reduce count">>
Times(n) == [i \in 1 .. n |-> "reduce time"]

ReadLayers  == <<"partition", "parse 1", "parse 2">>
CountLayers == <<"partition large">> \o Counts \o <<"parse 1", "parse 2">>
GridOfUnion == <<"mbr", "union", "uniform grid", "populate 1">>

(* adaptiveDriver.cpp: the queries are read by every process, and each     *)
(* process puts them into the cells of the grid itself.                    *)
AdaptiveInput    == <<"read queries", "barrier">> \o ReadLayers
AdaptiveGridding == <<"adaptive grid", "populate 1", "partition queries", "strategy">>
AdaptiveJoin     == <<"exchange", "join queries">>
AdaptiveMain ==
  AdaptiveInput \o AdaptiveGridding \o AdaptiveJoin \o Times(5) \o <<"finalize">>

(* driver.cpp: every process joins its part of layer 1 with the whole of   *)
(* layer 2.  Other programs have copies of this function.                  *)
BroadcastInput == <<"partition", "parse 1", "index", "read all 2", "parse 2">>
BroadcastMain  == BroadcastInput \o <<"query", "join", "close", "finalize">>
SequentialMain == BroadcastMain
AllObjMain1    == BroadcastMain
MPEMain1       == BroadcastMain
BenchMain1     == BroadcastMain
MBRJoinMain1   == BroadcastMain
SingleMain1    == BroadcastMain

(* overlaydriver.cpp                                                       *)
OverlayMain == BroadcastInput \o <<"query", "overlay", "close", "finalize">>

(* The other main functions of driver.cpp: main_grid, where layer 1 is     *)
(* exchanged twice and the reducers it calls have no body, and three that  *)
(* stop after reading or parsing.                                          *)
GridInput    == <<"barrier", "partition", "parse 1", "barrier">>
GridGridding == <<"fixed universe", "uniform grid", "populate 1", "strategy">>
GridExchange == <<"exchange", "join nothing", "barrier", "exchange", "barrier">>
GridMain     == GridInput \o GridGridding \o GridExchange \o <<"finalize">>
LargeMain    == <<"barrier">> \o CountLayers \o Counts
ReadMain     == <<"partition", "finalize">>
ParseMain    == <<"partition", "parse 1">>

(* allobjdriver.cpp, whose main10 does not finalize MPI                    *)
AllObjInput    == <<"barrier">> \o CountLayers \o Counts
AllObjGridding == <<"barrier">> \o GridOfUnion \o <<"populate 2", "strategy">>
AllObjMain     == AllObjInput \o AllObjGridding \o <<"exchange", "finalize">>
AllObjMain10   == CountLayers \o <<"allreduce count">>
AllObjMain0    == ReadMain

(* driverMPE.cpp: main stops after parsing, without MPI_Finalize; mainReal *)
(* joins two layers.                                                       *)
MPELargeMain    == LargeMain
MPEReadMain     == ReadMain
MPEMain         == ParseMain
MPERealInput    == LargeMain \o <<"barrier">>
MPERealGridding == GridOfUnion \o <<"populate 2", "strategy">>
MPERealJoin     == <<"barrier", "exchange pair", "barrier", "join pairs", "verify">>
MPERealMain ==
  MPERealInput \o MPERealGridding \o MPERealJoin \o Times(5) \o <<"finalize">>

(* CudaDriver.cpp                                                          *)
CudaMain ==
  ReadLayers \o GridOfUnion \o
  <<"populate 2", "strategy", "exchange pair", "join on GPU", "finalize">>

(* bench_commtime.cpp: main exchanges a road network, main10 geometries.   *)
BenchInput  == <<"partition", "parse 1">> \o GridOfUnion \o <<"strategy">>
BenchMain   == BenchInput \o <<"exchange roads">> \o Times(4) \o <<"finalize">>
BenchMain10 == BenchInput \o <<"exchange">> \o Times(4) \o <<"finalize">>

(* mbrJoinDriver.cpp: the boxes come from a binary file.                   *)
MBRJoinMain ==
  <<"partition", "parse 1", "fixed universe", "uniform grid">> \o
  <<"populate 1", "strategy", "exchange roads", "finalize">>
MBRJoinMain10 == AllObjMain10

(* SingleProcessDriver.cpp joins the cells without an exchange.            *)
SingleInput == <<"partition large", "parse 1", "parse 2", "barrier">>
SingleGridding ==
  <<"fixed universe", "uniform grid", "populate 1", "populate 2", "strategy">>
SingleMain ==
  SingleInput \o SingleGridding \o <<"join own cells", "verify">> \o
  Times(5) \o <<"finalize">>

(* adlb_mpigis_static.cpp: the files are the cells of an index, and each   *)
(* process joins every numProcesses-th of them.                            *)
StaticMain == <<"join own files", "reduce total", "finalize">>

StepsOf ==
  [adaptive |-> AdaptiveMain, static |-> StaticMain,
   driver |-> BroadcastMain, grid |-> GridMain, large |-> LargeMain,
   read |-> ReadMain, count |-> ParseMain,
   sequential |-> SequentialMain, overlay |-> OverlayMain,
   allobj |-> AllObjMain, allobj0 |-> AllObjMain0, allobj1 |-> AllObjMain1,
   allobj10 |-> AllObjMain10,
   mpe |-> MPEMain, mpe1 |-> MPEMain1, mpeLarge |-> MPELargeMain, mpeRead |-> MPEReadMain,
   mpeReal |-> MPERealMain, cuda |-> CudaMain,
   bench |-> BenchMain, bench1 |-> BenchMain1, bench10 |-> BenchMain10,
   mbrJoin |-> MBRJoinMain, mbrJoin1 |-> MBRJoinMain1, mbrJoin10 |-> MBRJoinMain10,
   single |-> SingleMain, single1 |-> SingleMain1]
BroadcastJoins == {p \in DOMAIN StepsOf : StepsOf[p] = BroadcastMain}

ASSUME KnownPrograms == Programs \subseteq DOMAIN StepsOf

Steps == StepsOf[program]
Step(r) == IF pc[r] <= Len(Steps) THEN Steps[pc[r]] ELSE "return"

-----------------------------------------------------------------------------
(* What the local steps compute.                                           *)

Lines == DOMAIN input.lines

(* A geometry in memory is a copy of a line: the line, and the rank whose  *)
(* part of the file it was read from.  Files that a process reads whole    *)
(* have the part Whole.                                                    *)
Whole == -1
Items == Lines \X ({Whole} \cup Ranks)
Geom(x) == input.lines[x[1]]
BoxOf(x) == Geom(x).box
WholeFile(l) == {<<i, Whole>> : i \in {j \in Lines : input.lines[j].layer = l}}

(* The lines of rank r's part of the file: partitionLayer copies some of   *)
(* its bytes, and cuts what it copied at the newlines.  A piece of a line  *)
(* is as good as the line if it has the bytes that the parser needs.       *)
LinesOf(l, r) ==
  LET copied == Partition(input.files[l])!CopiedBytes(r)
  IN  {<<i, r>> : i \in {j \in Lines : /\ input.lines[j].layer = l
                                      /\ Needed(input.lines[j]) \subseteq copied}}

(* WKTParser::parse: a line that cannot be parsed costs that line only.    *)
Parsed(items, l) == {x \in items : Geom(x).layer = l /\ Geom(x).valid}

(* GeometryUtility::getMBR                                                 *)
GetMBR(geoms) == IF geoms = {} THEN EmptyListBox ELSE Hull({BoxOf(i) : i \in geoms})

(* Boxes in the grid are measured in units of 1 / numPartitions.           *)
Scaled(b) == Box(b.lo * numPartitions, b.hi * numPartitions)

UniformCells(u) ==
  [c \in 0 .. numPartitions - 1 |->
     Box(u.lo * numPartitions + c * (u.hi - u.lo),
         u.lo * numPartitions + (c + 1) * (u.hi - u.lo))]
AdaptiveCells == [c \in 0 .. Len(input.gridFile) - 1 |-> Scaled(input.gridFile[c + 1])]

(* The lists of a grid are made for its number of cells (initShapesInCell), *)
(* the boxes of the adaptive grid come from the file.                      *)
CellIds == 0 .. (IF program = "adaptive" THEN adaptiveCells ELSE numPartitions) - 1

(* Mutant: a geometry goes into the first of its cells only.               *)
FirstCellOnly(geoms, grid) ==
  [c \in CellIds |->
     {i \in geoms : /\ c \in DOMAIN grid /\ Meet(Scaled(BoxOf(i)), grid[c])
                    /\ \A d \in 0 .. c - 1 : ~Meet(Scaled(BoxOf(i)), grid[d])}]

(* Index::populateWithShapes, Index::partitionGeomsAmongGridCells          *)
InCells(geoms, grid) ==
  [c \in CellIds |-> {i \in geoms : c \in DOMAIN grid /\ Meet(Scaled(BoxOf(i)), grid[c])}]

(* Boxes that geometries meet and for which the grid has no list.          *)
WithoutList(geoms, grid) ==
  {c \in DOMAIN grid \ CellIds : \E i \in geoms : Meet(Scaled(BoxOf(i)), grid[c])}

(* A query of the index is answered with the boxes that meet, and the join *)
(* keeps the pairs whose shapes do; an exception of the intersection comes *)
(* after the pair was stored.                                              *)
Candidates(as, bs) == {p \in as \X bs : Meet(BoxOf(p[1]), BoxOf(p[2]))}
LinesOfPair(p) == <<p[1][1], p[2][1]>>
Shapes(pairs) == {p \in pairs : LinesOfPair(p) \notin input.apart}
InCell(c, pairs) == {[cellId |-> c, pair |-> p] : p \in pairs}

(* Mutant: the loop runs over all cells of the grid.                       *)
AllCellsReduced(first, second) == DOMAIN first \cap DOMAIN second

(* The cells a reducer is called for: those below numPartitions that are   *)
(* in both maps.                                                           *)
ReducedCells(first, second) ==
  {c \in 0 .. numPartitions - 1 : c \in DOMAIN first /\ c \in DOMAIN second}

(* GeomJoinReducer::reduce, for all of these cells                         *)
Reduced(first, second) ==
  UNION {InCell(c, Shapes(Candidates(first[c], second[c]))) :
           c \in ReducedCells(first, second)}

(* createReducers on the rank's own cells skips a cell whose list of one   *)
(* layer is empty.                                                         *)
OwnReduced(first, second) ==
  UNION {InCell(c, Shapes(Candidates(first[c], second[c]))) :
           c \in {d \in ReducedCells(first, second) : first[d] # {} /\ second[d] # {}}}

(* CudaJoinInterface::populateLayerData passes polygons on to the GPU.     *)
Polygons(cells) == [c \in DOMAIN cells |-> {i \in cells[c] : Geom(i).polygon}]

(* Overlay::overlay: for each geometry of layer 2 the pairs before the     *)
(* first one that throws, in the order the query returned them.            *)
Throws(p) == LinesOfPair(p) \in input.throws
Overlaid(pairs, kept) ==
  {p \in pairs : \/ \A q \in pairs : q[2] = p[2] => ~Throws(q)
                 \/ p \in kept /\ ~Throws(p)}

(* The files of the static balancer, one for each cell and layer.  A file  *)
(* without a line is passed over.                                          *)
IndexedFile(l, c) ==
  {x \in WholeFile(l) : Meet(Scaled(BoxOf(x)), UniformCells(Universe)[c])}
OwnFiles(r) ==
  {c \in 0 .. numPartitions - 1 : c % numProcesses = r /\ IndexedFile(1, c) # {}}

-----------------------------------------------------------------------------
Init ==
  /\ program \in Programs
  /\ input \in Inputs
  /\ pc = [r \in Ranks |-> 1]
  /\ inCall = [r \in Ranks |-> FALSE]
  /\ calls = [r \in Ranks |-> <<>>]
  /\ mem = [r \in Ranks |->
              [lines |-> {}, geoms |-> <<{}, {}>>, box |-> Universe, grid |-> <<>>,
               cells |-> << <<>>, <<>> >>, owner |-> <<>>, recv |-> << <<>>, <<>> >>,
               index |-> {}, candidates |-> {}, found |-> {}, total |-> 0]]
  /\ killed = FALSE

CollectiveSteps ==
  {"barrier", "partition", "partition large", "reduce count", "allreduce count",
   "union", "exchange", "exchange pair", "exchange roads", "verify",
   "reduce total", "reduce time", "close", "finalize"}

(* Mutant: a process without geometries leaves out the union of the boxes. *)
UnionIfNotEmpty(r, m) ==
  IF pc[r] < Len(Steps) /\ Steps[pc[r] + 1] = "union" /\ m.geoms[1] = {}
  THEN pc[r] + 2 ELSE pc[r] + 1
(* Mutant: only the root finalizes MPI.                                     *)
FinalizeAtRoot(r, m) ==
  IF r # 0 /\ pc[r] < Len(Steps) /\ Steps[pc[r] + 1] = "finalize"
  THEN pc[r] + 2 ELSE pc[r] + 1
NextStep(r, m) == pc[r] + 1

Local(r, s, m) ==
  /\ ~killed /\ Step(r) = s
  /\ mem' = [mem EXCEPT ![r] = m]
  /\ pc' = [pc EXCEPT ![r] = NextStep(r, m)]
  /\ UNCHANGED <<program, input, inCall, calls, killed>>

-----------------------------------------------------------------------------
(* Local steps.                                                            *)

Parse(r) ==
  \E l \in Layers :
    Local(r, <<"parse 1", "parse 2">>[l],
          [mem[r] EXCEPT !.geoms[l] = Parsed(mem[r].lines, l)])

(* readSampleFile: the lines of the queries, for every process.            *)
ReadQueries(r) ==
  /\ input.queryFile[r]
  /\ Parsed(WholeFile(2), 2) # {}
  /\ Local(r, "read queries", [mem[r] EXCEPT !.index = Parsed(WholeFile(2), 2)])

(* There is no such file, and MPI_Abort ends the job; or no line of it can *)
(* be parsed, and averageSize divides by zero.                             *)
NoQueries(r) ==
  /\ ~killed /\ Step(r) = "read queries"
  /\ ~input.queryFile[r] \/ Parsed(WholeFile(2), 2) = {}
  /\ killed' = TRUE
  /\ UNCHANGED <<program, input, pc, inCall, calls, mem>>

ComputeMBR(r) == Local(r, "mbr", [mem[r] EXCEPT !.box = GetMBR(mem[r].geoms[1])])
FixUniverse(r) == Local(r, "fixed universe", [mem[r] EXCEPT !.box = Universe])
CreateUniformGrid(r) ==
  Local(r, "uniform grid", [mem[r] EXCEPT !.grid = UniformCells(mem[r].box)])
CreateAdaptiveGrid(r) ==
  Local(r, "adaptive grid", [mem[r] EXCEPT !.grid = AdaptiveCells])

Populate(r) ==
  \E l \in Layers :
    /\ WithoutList(mem[r].geoms[l], mem[r].grid) = {}
    /\ Local(r, <<"populate 1", "populate 2">>[l],
             [mem[r] EXCEPT !.cells[l] = InCells(mem[r].geoms[l], mem[r].grid)])
PartitionQueries(r) ==
  /\ WithoutList(mem[r].index, mem[r].grid) = {}
  /\ Local(r, "partition queries",
           [mem[r] EXCEPT !.cells[2] = InCells(mem[r].index, mem[r].grid)])

(* map::at throws std::out_of_range, which nothing catches: for a geometry *)
(* in a cell that has no list, and in the exchange for every such cell.    *)
OutOfRange(r) ==
  CASE Step(r) = "populate 1"        -> WithoutList(mem[r].geoms[1], mem[r].grid)
    [] Step(r) = "partition queries" -> WithoutList(mem[r].index, mem[r].grid)
    [] Step(r) = "exchange"          -> DOMAIN mem[r].owner \ CellIds
    [] OTHER                         -> {}
NoSuchCell(r) ==
  /\ ~killed /\ OutOfRange(r) # {}
  /\ killed' = TRUE
  /\ UNCHANGED <<program, input, pc, inCall, calls, mem>>

(* RoundRobinStrategy::createCellProcessMap                                *)
OwnersTooMany(grid) == [c \in DOMAIN grid |-> c % (numProcesses + 1)]   \* mutant
Owners(grid) == [c \in DOMAIN grid |-> c % numProcesses]
CreateCellProcessMap(r) ==
  Local(r, "strategy", [mem[r] EXCEPT !.owner = Owners(mem[r].grid)])

(* createReducers for geometries and queries, and for a pair of layers.    *)
(* The first does not report its total.                                    *)
JoinQueries(r) ==
  Local(r, "join queries",
        [mem[r] EXCEPT !.found = Reduced(mem[r].recv[1], mem[r].cells[2])])
JoinPairs(r) ==
  Local(r, "join pairs",
        [mem[r] EXCEPT !.found = Reduced(mem[r].recv[1], mem[r].recv[2])])
JoinOwnCells(r) ==
  Local(r, "join own cells",
        [mem[r] EXCEPT !.found = OwnReduced(mem[r].cells[1], mem[r].cells[2])])
JoinNothing(r) == Local(r, "join nothing", mem[r])

(* prefixSum reads the first element of the vertex counts, and there is    *)
(* none in a cell where a layer has no polygon.                            *)
CellsWithoutPolygons(r) ==
  {c \in ReducedCells(mem[r].recv[1], mem[r].recv[2]) :
     \E l \in Layers : Polygons(mem[r].recv[l])[c] = {}}
JoinOnGPU(r) ==
  /\ CellsWithoutPolygons(r) = {}
  /\ Local(r, "join on GPU",
           [mem[r] EXCEPT !.found = Reduced(Polygons(mem[r].recv[1]), Polygons(mem[r].recv[2]))])
(* The static balancer passes layer 1 of a file to populateLayerData, and  *)
(* the result to nobody.                                                   *)
FilesWithoutPolygons(r) ==
  {c \in OwnFiles(r) : \A x \in Parsed(IndexedFile(1, c), 1) : ~Geom(x).polygon}
(* layer2->at(fileNum), although the loop runs over the files of layer 1.  *)
FilesWithoutPartner(r) ==
  {c \in 0 .. numPartitions - 1 : c % numProcesses = r /\ c >= input.numFilesLayer2}
JoinOwnFiles(r) ==
  LET pairsOf(c) ==
        Shapes(Candidates(Parsed(IndexedFile(1, c), 1), Parsed(IndexedFile(2, c), 2)))
  IN  /\ FilesWithoutPolygons(r) = {} /\ FilesWithoutPartner(r) = {}
      /\ Local(r, "join own files",
               [mem[r] EXCEPT !.found = UNION {InCell(c, pairsOf(c)) : c \in OwnFiles(r)}])

NoPolygons(r) ==
  /\ ~killed
  /\ \/ Step(r) = "join on GPU" /\ CellsWithoutPolygons(r) # {}
     \/ Step(r) = "join own files" /\ FilesWithoutPolygons(r) # {}
  /\ killed' = TRUE
  /\ UNCHANGED <<program, input, pc, inCall, calls, mem>>
NoPartner(r) ==
  /\ ~killed /\ Step(r) = "join own files" /\ FilesWithoutPartner(r) # {}
  /\ killed' = TRUE
  /\ UNCHANGED <<program, input, pc, inCall, calls, mem>>

(* The broadcast join: index layer 1, read all of layer 2 and query.       *)
CreateRTree(r) == Local(r, "index", [mem[r] EXCEPT !.index = mem[r].geoms[1]])
ReadAll(r) ==
  Local(r, "read all 2", [mem[r] EXCEPT !.lines = WholeFile(2)])
Query(r) ==
  Local(r, "query",
        [mem[r] EXCEPT !.candidates = Candidates(mem[r].index, mem[r].geoms[2])])
Join(r) ==
  Local(r, "join", [mem[r] EXCEPT !.found = InCell(0, Shapes(mem[r].candidates))])
OverlayPairs(r) ==
  \E kept \in SUBSET {p \in Shapes(mem[r].candidates) : ~Throws(p)} :
    Local(r, "overlay",
          [mem[r] EXCEPT !.found = InCell(0, Overlaid(Shapes(mem[r].candidates), kept))])

-----------------------------------------------------------------------------
(* Collective steps.                                                       *)

(* AllObjectsCommBuffer exchanges the cells in rounds, and asserts that    *)
(* every process owns at least one cell for each round.                    *)
RoundPrograms == {"adaptive", "allobj"}
CellsOf(r, p) == {c \in DOMAIN mem[r].owner : mem[r].owner[c] = p}
EnoughCells(r) == \A p \in Ranks : Cardinality(CellsOf(r, p)) >= numRounds
AssertionsHold(r) ==
  Step(r) = "exchange" /\ program \in RoundPrograms => EnoughCells(r)
TooFewCells(r) ==
  /\ ~killed /\ Step(r) = "exchange" /\ ~AssertionsHold(r)
  /\ killed' = TRUE
  /\ UNCHANGED <<program, input, pc, inCall, calls, mem>>

ExchangedLayers(s) == IF s = "exchange pair" THEN Layers ELSE {1}
ExchangeSteps == {"exchange", "exchange pair", "exchange roads"}

ParcelForAll(r, p, l) == mem[r].cells[l]   \* mutant: every rank gets all cells
Parcel(r, p, l) ==
  [c \in CellsOf(r, p) |-> mem[r].cells[l][c]]

Output(r) == Cardinality(mem[r].found)

Sends(r) ==
  CASE Step(r) = "union"  -> mem[r].box
    [] Step(r) \in {"verify", "reduce total"} -> Output(r)
    [] Step(r) \in ExchangeSteps ->
         [p \in Ranks |-> [l \in ExchangedLayers(Step(r)) |-> Parcel(r, p, l)]]
    [] OTHER -> "nothing"

Enter(r) ==
  /\ ~killed /\ ~inCall[r] /\ Step(r) \in CollectiveSteps
  /\ OutOfRange(r) = {} /\ AssertionsHold(r)
  /\ inCall' = [inCall EXCEPT ![r] = TRUE]
  /\ calls' = [calls EXCEPT ![r] = Append(@, [call |-> Step(r), sends |-> Sends(r)])]
  /\ UNCHANGED <<program, input, pc, mem, killed>>

Sent(k) == [q \in Ranks |-> calls[q][k].sends]

(* The boxes that r receives for a layer, and those before a box: sorted   *)
(* by sender and cell, and in a cell in the order of the file.             *)
Boxes(r, sent, l) ==
  UNION {UNION {{[from |-> q, cellId |-> c, geom |-> x] : x \in sent[q][r][l][c]} :
                  c \in DOMAIN sent[q][r][l]} : q \in Ranks}
SortedBefore(b, d) ==
  \/ b.from < d.from
  \/ b.from = d.from /\ b.cellId < d.cellId
  \/ b.from = d.from /\ b.cellId = d.cellId /\ b.geom[1] < d.geom[1]
Earlier(boxes, d) == {b \in boxes : SortedBefore(b, d)}

(* The boxes whose text is not read; a road is a box without a text.       *)
RoadPrograms == {"bench", "mbrJoin"}
Unread(boxes) ==
  {b \in boxes : program \notin RoadPrograms /\ <<b.geom, b.cellId>> \in input.unread}

(* The geometry read for a box: parseGeomByProcess takes the text of the   *)
(* box, parseGeomFromLayerGrpByCell the one at an offset that advances     *)
(* only after a text has been read, so that texts after one that throws    *)
(* are read in the place of an earlier one.                                *)
TextOf(boxes, d) ==
  LET readBefore == Earlier(boxes, d) \ Unread(boxes)
  IN  IF program \in RoundPrograms \/ readBefore = Earlier(boxes, d) THEN {d.geom}
      ELSE {b.geom : b \in {e \in boxes :
              Cardinality(Earlier(boxes, e)) = Cardinality(readBefore)}}

GeomsOfCell(boxes, c) ==
  UNION {TextOf(boxes, d) : d \in {b \in boxes \ Unread(boxes) : b.cellId = c}}

(* Mutant: a cell in which nothing was received has an empty list.         *)
WithEmptyCells(r, sent, l) ==
  [c \in UNION {DOMAIN sent[q][r][l] : q \in Ranks} |-> GeomsOfCell(Boxes(r, sent, l), c)]

(* What rank r is sent for a layer, by cell: only cells with a geometry    *)
(* get an entry.                                                           *)
GroupedByCell(r, sent, l) ==
  LET boxes == Boxes(r, sent, l)
  IN  [c \in {b.cellId : b \in {d \in boxes : GeomsOfCell(boxes, d.cellId) # {}}} |->
         GeomsOfCell(boxes, c)]

OwnBox(r, sent) == sent[r]            \* mutant: no reduction
UnionBox(r, sent) == Hull(Range(sent))   \* SpatialTypes::mbrUnion

Received(r, s, sent) ==
  CASE s = "partition" -> [mem[r] EXCEPT !.lines = LinesOf(1, r) \cup LinesOf(2, r)]
    [] s = "partition large" -> [mem[r] EXCEPT !.lines = {}]
    [] s = "union"  -> [mem[r] EXCEPT !.box = UnionBox(r, sent)]
    [] s \in {"verify", "reduce total"} -> [mem[r] EXCEPT !.total = SumFunction(sent)]
    [] s \in ExchangeSteps ->
         [mem[r] EXCEPT !.recv =
            [l \in Layers |-> IF l \in ExchangedLayers(s)
                              THEN GroupedByCell(r, sent, l) ELSE @[l]]]
    [] OTHER -> mem[r]

(* MPI_Reduce lets all processes but the root go at once, every other call *)
(* is left when all processes are in it.                                   *)
Rooted == {"reduce count", "reduce time", "reduce total"}
HasEntered(q, k) == Len(calls[q]) >= k
MayLeave(r) ==
  \/ Step(r) \in Rooted /\ r # 0
  \/ \A q \in Ranks : HasEntered(q, Len(calls[r]))

Leave(r) ==
  /\ ~killed /\ inCall[r] /\ MayLeave(r)
  /\ mem' = [mem EXCEPT ![r] =
               IF Step(r) \in Rooted /\ r # 0 THEN @
               ELSE Received(r, Step(r), Sent(Len(calls[r])))]
  /\ pc' = [pc EXCEPT ![r] = @ + 1]
  /\ inCall' = [inCall EXCEPT ![r] = FALSE]
  /\ UNCHANGED <<program, input, calls, killed>>

Ended == \A r \in Ranks : Step(r) = "return"
Terminating == (killed \/ Ended) /\ UNCHANGED vars

LocalStep(r) ==
  \/ Parse(r) \/ ReadQueries(r) \/ NoQueries(r) \/ NoSuchCell(r) \/ ComputeMBR(r) \/ FixUniverse(r)
  \/ CreateUniformGrid(r) \/ CreateAdaptiveGrid(r) \/ Populate(r) \/ PartitionQueries(r)
  \/ CreateCellProcessMap(r) \/ JoinQueries(r) \/ JoinPairs(r) \/ JoinOwnCells(r)
  \/ JoinNothing(r) \/ JoinOnGPU(r) \/ JoinOwnFiles(r) \/ NoPolygons(r)
  \/ NoPartner(r) \/ TooFewCells(r)
  \/ CreateRTree(r) \/ ReadAll(r) \/ Query(r) \/ Join(r) \/ OverlayPairs(r)

Next == (\E r \in Ranks : LocalStep(r) \/ Enter(r) \/ Leave(r)) \/ Terminating

(* Every process keeps running, and MPI completes its calls.               *)
Fairness == \A r \in Ranks : WF_vars(LocalStep(r) \/ Enter(r) \/ Leave(r))
Spec == Init /\ [][Next]_vars /\ Fairness

-----------------------------------------------------------------------------
(* Properties.                                                             *)

TypeOK ==
  /\ program \in Programs /\ input \in Inputs /\ killed \in BOOLEAN
  /\ pc \in [Ranks -> 1 .. Len(Steps) + 1]
  /\ inCall \in [Ranks -> BOOLEAN]
  /\ \A r \in Ranks :
       /\ mem[r].lines \subseteq Items /\ mem[r].index \subseteq Items
       /\ mem[r].candidates \subseteq Items \X Items
       /\ \A c \in DOMAIN mem[r].owner : mem[r].owner[c] \in Ranks
       /\ \A l \in Layers : /\ mem[r].geoms[l] \subseteq Items
                            /\ DOMAIN mem[r].cells[l] \subseteq CellIds
                            /\ DOMAIN mem[r].recv[l] \subseteq DOMAIN mem[r].owner

(* All processes make the same collective calls in the same order, whoever *)
(* found nothing or has no geometries: MPI requires it.                    *)
CallsMatch ==
  \A r, q \in Ranks : \A k \in 1 .. Len(calls[r]) :
    k <= Len(calls[q]) => calls[r][k].call = calls[q][k].call

(* All processes build the same grid and send each cell to the same owner, *)
(* although each starts from the box of its own geometries, or of none;    *)
(* and no geometry of layer 1 is outside a grid built for their union.     *)
GridsAgree ==
  /\ \A r, q \in Ranks :
       /\ mem[r].grid # <<>> /\ mem[q].grid # <<>> => mem[r].grid = mem[q].grid
       /\ mem[r].owner # <<>> /\ mem[q].owner # <<>> => mem[r].owner = mem[q].owner
  /\ Contains(Steps, "union") =>
       \A r \in Ranks : mem[r].cells[1] # <<>> =>
         mem[r].geoms[1] \subseteq UNION Range(mem[r].cells[1])

(* The reducer of a cell queries an index only if it has built one: a cell *)
(* it is called for has a geometry of layer 1.                             *)
IndexBeforeQuery ==
  \A r \in Ranks : Step(r) \in {"join queries", "join pairs", "join on GPU"} =>
    LET second == IF Step(r) = "join queries" THEN mem[r].cells[2] ELSE mem[r].recv[2]
    IN  \A c \in ReducedCells(mem[r].recv[1], second) : mem[r].recv[1][c] # {}

(* A cell is joined by one process: no two processes find a pair in the    *)
(* same cell, although all of them put geometries into it.                 *)
JoinsWithLayer2 == BroadcastJoins \cup {"overlay"}
FoundOnce ==
  program \notin JoinsWithLayer2 =>
    \A r, q \in Ranks : r # q =>
      {x.cellId : x \in mem[r].found} \cap {x.cellId : x \in mem[q].found} = {}

(* The geometries a program joins: the copies of lines that its processes  *)
(* have read of their parts of a file, or those of a whole file.           *)
ReadWhole(l) ==
  program \in {"static"} \cup (IF l = 2 THEN JoinsWithLayer2 \cup {"adaptive"} ELSE {})
Copies(l) ==
  Parsed(IF ReadWhole(l) THEN WholeFile(l) ELSE UNION {LinesOf(l, r) : r \in Ranks}, l)
AllPairs == Shapes(Candidates(Copies(1), Copies(2)))

(* The cells in which both geometries of a pair are joined.                *)
JoinGrid == IF program = "static" THEN UniformCells(Universe) ELSE AdaptiveCells
SharedCells(p) ==
  {c \in DOMAIN JoinGrid \cap (0 .. numPartitions - 1) :
     /\ \A x \in {p[1], p[2]} : Meet(Scaled(BoxOf(x)), JoinGrid[c])
     /\ <<p[1], c>> \notin input.unread}
Thrown ==
  {p \in AllPairs :
     \E q \in AllPairs : q[2] = p[2] /\ q[1][2] = p[1][2] /\ Throws(q)}
OfPolygons == {p \in AllPairs : Geom(p[1]).polygon /\ Geom(p[2]).polygon}

(* The pairs a program has to find, and those it may find as well.  The    *)
(* programs of the large-file partitioner read nothing.                    *)
Required ==
  CASE program \in BroadcastJoins -> AllPairs
    [] program \in {"adaptive", "static"} -> {p \in AllPairs : SharedCells(p) # {}}
    [] program = "overlay" -> AllPairs \ Thrown
    [] program = "cuda" /\ input.unread = {} -> OfPolygons
    [] OTHER -> {}
Optional ==
  CASE program = "overlay" -> {p \in Thrown : ~Throws(p)}
    [] program = "cuda" -> OfPolygons
    [] OTHER -> {}

(* Of the copies of lines that its processes have read, a program that     *)
(* joins its layers finds exactly the pairs that intersect, wherever they  *)
(* were read: the adaptive driver those that share a cell whose number is  *)
(* below numPartitions and whose text was read there (and the static       *)
(* balancer those that share a file), the overlay those of geometries      *)
(* without exception, the driver on the GPU those of polygons.  Once a     *)
(* text has not been read there, geometries are in the wrong cells: pairs  *)
(* are missing then, and what is found still intersects.                   *)
JoinImplemented ==
  INSTANCE JoinSpec WITH
    required <- Required, optional <- Optional,
    found <- {x.pair : x \in UNION {mem[r].found : r \in Ranks}},
    ended <- Ended
RefinesJoin == JoinImplemented!JoinSafety

(* A pair is found once for each cell it shares, not once: this is what    *)
(* the number of pairs of the adaptive driver counts, and what the root of *)
(* the static balancer reports.                                            *)
FoundInEverySharedCell ==
  Ended /\ program \in {"adaptive", "static"} =>
    LET all == UNION {InCell(c, {p \in AllPairs : c \in SharedCells(p)}) :
                        c \in 0 .. numPartitions - 1}
    IN  /\ UNION {mem[r].found : r \in Ranks} = all
        /\ program = "static" => mem[0].total = Cardinality(all)

(* Every process comes to the end of its program, or the job is killed.    *)
Termination == <>(killed \/ Ended)
=============================================================================
