# MPI-GIS: a verification project

TLA+ models of MPI-GIS, a spatial join over MPI: the reading and partitioning of
the input, the exchange of geometries between the processes, the join and the
programs that put these parts together, and the load balancing of the join. TLC
checks the models on small instances, TLAPS proves the main results for every value of
the constants. Paths below are relative to `src/src/`.

## 1. Inventory

### How a job runs

A spatial join of two layers of geometries goes through a *filter* step, which
brings geometries that may intersect together in the cells of a grid, and a
*refine* step, which joins the geometries of each cell exactly. There are three
kinds of programs.

* The **pipeline** (`adaptiveDriver.cpp`, `CudaDriver.cpp`, `SingleProcessDriver.cpp`,
  and in parts `driver.cpp`, `driverMPE.cpp`, `allobjdriver.cpp` and others): every
  rank reads its part of the input file (partitioner), all ranks agree on a grid,
  each puts its geometries into the cells (index), cells are given to ranks round
  robin, the ranks exchange geometries so that each has everything in its cells
  (communication buffers), and joins them (reducers).
* The **broadcast join** (`driver.cpp`, its copies in five other files, and
  `overlaydriver.cpp`): every rank indexes its part of one layer and queries the index
  with all of the other.
* The **load balancers** (`MPILoadBalancer.cpp`, `adlb_mpigis_dyn.cpp`,
  `adlb_mpigis_static.cpp`): each cell is already a pair of files. Rank 0 hands the
  file numbers to the other ranks one at a time; optionally a first pass counts the
  intersecting envelopes of each file, and the join starts with the largest.

All processes are single threaded. They share nothing but MPI messages, collective
calls and files; concurrency is the interleaving of ranks.

### Components

| Component | State | Operations | What makes it correct | Modules |
|---|---|---|---|---|
| Refinement scheduler: `MPILoadBalancer.cpp`, `adlb_mpigis_dyn.cpp` | master: list of files, index, loop counter, totals per slave; slave: the file in hand; messages | seed, receive and dispatch, drain, DIETAG; slave: receive, join, reply | no file lost or joined twice; no slave idle while files are left; exit only with all results in; everybody ends | `MasterWorker`, `WorkPool`, `MasterWorkerProofs`, `DataTheorems` |
| Load calculation: `dynamicMPILoadCalculator.cpp` | as above, and the map file -> load | the same loops, insertion of loads, inversion of the map | phases on one communicator do not mix; every file is counted before the schedule is made; every loaded cell is refined | `LoadBalancer`, `LoadBalancerProofs` |
| Static balancer: `adlb_mpigis_static.cpp`, `staticMPILoadCalculator.cpp` | list of files per rank | join of every `numProcesses`-th file, Reduce | every pair in every file it shares; the root reports their number | `SpatialJoin`, `SpatialJoinProofs` |
| Text partitioner: `MPI_File_Partitioner.cpp` | chunk of the file, its ends | read, find line ends, copy, split | every line with exactly one rank | `FilePartition`, `FilePartitionProofs` |
| Binary readers, samples: `MPI_ReadBinaryMBRFile.cpp`, `MPIReadBinMBRStruct.cpp`, `MPIReadBinaryAllPointNodes.cpp`, `SeqFilePartitioner.cpp` | buffers, file views; the sample | contiguous and strided reads, parsing; blocks, reservoir sampling | every record with one rank, none torn, no write behind a buffer; a full sample of lines | `FileReaders`, `FileReadersProofs` |
| Uniform grid: `uniformGrid.cpp` | map cell -> envelope | nested partition, population | cells cover the universe once; ids unique | `UniformGrid`, `UniformGridProofs` |
| Adaptive grid: `QuadTreeBasedGrid.cpp`, `fileRead.cpp`, `index.cpp` | boxes from a file; a list for each cell | population with geometries and queries | cell ids agree with the lists and with what the join asks for | `SpatialJoin`, `SpatialJoinProofs` |
| Cell mapping: `roundRobinStrategy.cpp` | map process -> cells | creation | every cell has one owner | `Shuffle` |
| Exchange: `AllObjectsCommBuffer_DerivedType.cpp`, `MultiRoundOneLayer*.cpp`, `SingleLayer*.cpp`, `WKTParser.cpp` | counts, displacements, buffers, the rank's map cell -> geometries | four collective calls a round, packing, parsing, insertion | calls match; every geometry reaches the owner of its cells, under the right cell | `Shuffle`, `ShuffleProofs` |
| Two-layer exchange: `bufferManagerGeom.cpp`, `bufferManagerMBR.cpp`, `bufferRoadNetwork.cpp` | the same for two layers | one round for each layer; boxes without texts | as above | `Shuffle`, `ShuffleProofs` |
| Join: `join.cpp`, `mrdriver.cpp`, `GeomJoinReducer.cpp`, `overlay.cpp` | index and results of a rank | index, query, join per cell, reduction of the totals | of the lines the ranks have read, exactly the intersecting pairs, each by one rank for each cell it shares | `SpatialJoin`, `JoinSpec`, `SpatialJoinProofs` |
| Programs: the `main` functions | what a rank has read, parsed, received | the order of the steps | the same collective calls on all ranks, the same grid everywhere, an end | `SpatialJoin`, `SpatialJoinProofs` |
| Sequential tools, tests, `spatial-data-aware-MPI/` | | | no protocol of their own | not modelled |

### What is hard here

* **Ordering across phases.** The load calculation and the refinement follow each
  other on `MPI_COMM_WORLD` without a barrier, both receive with `MPI_ANY_TAG` (the
  master also with `MPI_ANY_SOURCE`) and use the same tags. Only MPI's order between
  two processes and the master's wait for all results keep the phases apart.
* **Counting instead of knowing.** The drain loop makes `nProcs - 1` receives, and
  does not look at what is outstanding.
* **Standard-mode sends.** `MPI_Send` may or may not wait for its receiver.
* **Collective calls.** The rounds of the exchange need the same calls in the same
  order on every rank, also where a rank has nothing to send; between calls ranks
  drift apart.
* **Agreement without messages.** A rank finds the end of its byte range, its
  neighbour the beginning of the next one.
* **Offsets.** Texts of different lengths are concatenated, padded, displaced and
  cut apart again by a list of lengths received before.
* **Programs as long sequences** of local and collective steps, in which a rank may be
  without geometries, in an exception or already out of a reduction the others are in.
* **Division** of a file by bytes where records count, and file views that repeat.
* There is **no failure handling**: no time limits, retries or restarts. MPI aborts
  a job as a whole, and so do the assertions.

The list with lines is under `hazards` in `PROJECT.json`.

## 2. The models

### `MasterWorker`: one master/slave phase

The four copies of the master loop in the program differ in the work list and in the
use of a result; the module has both as constants. Master actions, in the order of
the code: `SeedSlave`/`SeedEnd` (the `for` over ranks), `ReceiveResult` and
`DispatchNext` (`while (fileIndex < size)`), `DrainResult`/`DrainEnd`,
`SendDie`, `Return`. Slave actions: `TakeWork`, `Reply`, `TakeDie`. The join of a
file is one number, `Result[f]`. There is a FIFO queue between the master and each
slave in both directions (MPI does not let messages of a pair of processes overtake
each other). `eager` is chosen once: with `~eager` a process does nothing after an
`MPI_Send` until the receiver has taken the message.
Names: `files` is `fileNames`, `totals` is `totalWorkDoneArr`, `sender` is
`status.MPI_SOURCE`. `collected` and the file in a result are ghosts.

`WorkPool` is the abstract specification: a set of things to do, workers that take
one and finish it, and an end that comes when all are finished. `MasterWorker`
implements it (`ImplementsPool`): a file is held by a slave from the send of it to the receipt
of its result.

### `LoadBalancer`: the two phases of `refineLB`

Two instances of `MasterWorker` over the same queues. A rank is in the calculation
until its own copy of it ends, then starts the refinement by itself
(`StartScheduler`, `StartSlaveTask`). `InsertLoad`, `FirstOfItsLoad` and
`FileNames` are what `calculateLoad` does with the results: a map keyed by the load,
with `insert`, read from the largest key down.

### `FilePartition`: byte ranges of a text file

A file is a size and a set of newline offsets; `PartitionLayer(r)` is one call of
`partitionLayer`, in any order of the ranks. The byte behind the file, which the last
rank's buffer holds without having read it, is chosen freely.

### `UniformGrid`: nested division of the universe

`calls` is the set of nested calls whose box holds a chosen point; each `Descend` goes
one level down. The two kinds of division are `Halves` and `Quadrants`; the
functions for 16384 cells and more are `LowerQuadrantsTwice`, as they are written.

### `Shuffle`: the exchange of geometries

Every rank runs through rounds of four collective calls (number of boxes, boxes, length
of the texts, texts), then `ParseRound` parses and inserts; `MultiRoundOneLayer...`
ends with an `MPI_Allreduce`. `Enter(r)` puts what r sends into `calls[r]`;
`Leave(r)` needs the same call of every rank that sends it something (an
`MPI_Alltoallv` need not wait for others), so that ranks drift apart as far as MPI
allows. `setup.manager` chooses one of the six classes: `"all"` pads each part to
units of `PACKING_LEN` and parses with `parseGeomByProcess`, `"multi"` and `"single"`
do not pad and use `parseGeomFromLayerGrpByCell`; `"pair"` (`BufferManagerForGeoms`)
exchanges two layers, first the boxes of both and then the texts of both; `"boxes"`
(`MPI_BufferManager`) and `"roads"` (`BufferRoadNetwork`) exchange boxes only.
`CallsOf` is the list of calls of a class.
Texts are lengths with a place in the buffer; reading at an offset gives the geometry
whose text begins there, or throws. `setup.reader` stands for the undefined part: the
copied text has no terminating `'\0'`, so a strict `WKTReader` may throw on what
follows in memory (any subset of the texts).

### `SpatialJoin`: the programs

The modules above look into one component each; this one puts them together. A
program is its `main` function as a sequence of steps (`AdaptiveMain`, `CudaMain`,
...): local steps, such as parsing, `"populate 1"` or `"query"`, and collective ones
(`CollectiveSteps`). `mem[r]` holds the variables of `main` at rank r, `Local(r, s, m)` is a
local step, `Enter`/`Leave` a collective one, with the ranks' contributions in
`calls`. `MPI_Reduce` lets every rank but the root go at once. Partitioning, exchange
and reduction are one step each here. Space has one dimension, which is enough
for boxes that meet, do not meet, lie in one or in several cells or in none. Ends by
a signal, an exception nobody catches, an assertion or `MPI_Abort` are actions of their
own (`NoQueries`, `NoSuchCell`, `NoPolygons`, `NoPartner`, `TooFewCells`) and set `killed`.

*Partitioning.* The two layers are files with byte positions, and the lines of a rank are
those of which the partitioner copies enough for the parser (`LinesOf`, by
`FilePartition!CopiedBytes`): a rank may miss lines of its range and have one of its
predecessor's, as finding 3 says. A geometry in memory is therefore a *copy* of a
line, `<<line, rank>>`; files read whole have the part `Whole`.

*Exchange.* What a rank receives is sorted by sender and cell, and read by the class that
the program uses (`TextOf`). `input.unread` are the texts whose reading throws.
`AllObjectsCommBuffer` (`RoundPrograms`) loses those texts only; with
`parseGeomFromLayerGrpByCell` all later texts are read in the place of an earlier one, as in
finding 5. `AllObjectsCommBuffer` also asserts that every rank has a cell for each of its
rounds (`TooFewCells`). The rounds and displacements themselves are the subject of `Shuffle`.

`JoinSpec` is the abstract specification of all programs: a growing set of pairs which never
holds a wrong one and holds every required one at the end. `Required` says what a program
has to find among the copies of lines that its ranks have read: all intersecting pairs for
the broadcast joins, those of polygons for the GPU, those sharing a cell below
`numPartitions` in which the text of layer 1 was read for the adaptive driver, and a file
for the static balancer, those of geometries without an exception for the overlay. Nothing
is required of programs that do not join, or whose large-file partitioner delivers nothing,
nor of the GPU driver once a text was not read: pairs get lost then, and `Optional` says
that what it finds still intersects. That the copies are not the lines of the files, so that
pairs of the files are missing or found twice, is finding 3.

### `FileReaders`: reading by size

One record of `Readers` for each reading function: bytes of an element in the file
and in memory (the extent of the MPI datatype), elements in a record, block length,
and the kind of access. `Read(r)` is the collective read of rank r, `Parse(r)` the
`parse...` function on its buffer; bytes are known by their position in the file.
`InView` is the file view: a vector of blocks, repeated from its extent. For
`SeqFilePartitioner`, `ReadBlock` reads a block and splits it with `strtok`,
`TakeLine` is the body of the sampling loop with any random number. A write behind
the end of a buffer may or may not end the job (`killed`).

## 3. The runs

| Run | Instance | What it shows |
|---|---|---|
| `master_worker` | 3 slaves; lists of 0, 2, 3, 5 files; eager and not | `Conservation`, `OneAtATime`, `NoIdleSlave`, `ExitOnlyWhenAllCollected`, `TotalIsExact`, `ReturnsOnlyWithEnoughFiles`, `Termination`, `ImplementsPool` |
| `drain` | the same | violated: the drain loop waits though nothing is outstanding |
| `load_balancer` | 2 slaves, 3 files with loads 0, 4 or 6 | `PhaseIsolation`, `ScheduleFromAllLoads`, `RefinesOneFilePerLoad`, `Termination` |
| `cells_refined` | the same | violated: of two cells with one load, one is never refined |
| `file_partition` | 3 ranks, overlap 3, all files of up to 9 bytes with lines of up to 3 | `RangesTile`, `EveryLineInOneRange`, `FirstRankDeliversItsLines` |
| `overlaps` | the same | violated: two ranks deliver the same byte |
| `uniform_grid` | universe 128 x 64, 2 to 8192 cells, every point | `CoveredByOneCell`, `IdsShared` |
| `uniform_grid_large` | 128 x 128, 16384 cells | violated: a point of the lower half in two nested calls |
| `shuffle` | 2 ranks, 2 rounds, 5 cells, 4 geometries in 2 layers, 6 classes | `CallsMatch`, `AbortsOnlyWithFewCells`, `OwnersHaveTheirCells`, `AllCellsDelivered`, `TotalIsComplete`, `Termination` |
| `shuffle_groups` | the same, with a reader that throws and no padding | violated: a geometry in the list of a cell it is not in |
| `spatial_join` | 16 programs, 2 ranks, 4 cells (adaptive: 5), 2 rounds, 2 + 2 lines, 26 inputs | `CallsMatch`, `GridsAgree`, `IndexBeforeQuery`, `FoundOnce`, `FoundInEverySharedCell`, `RefinesJoin`, `Termination` |
| `file_readers` | 3 ranks, binary files of 1 to 40 bytes; texts of 9 and 10 bytes in 2 blocks, samples of 2 | `OnlyTheRestReadTwice`, `EverythingDeliveredOnce`, `SampleOfTheLines` |

Every passing run also checks its module's `TypeOK`.

**Bounds.** *Three slaves* are the least number for which a result can come from a slave
that is neither the one seeded first nor the last; the lists are longer than, as long as and
shorter than the number of slaves, and empty. *Results* are 0 and powers of two, so that a
total names the files in it. *Three loads* allow equal loads, loads of zero and different
ones in one list. *Nine bytes for three ranks* give shares of 0 to 3 bytes, lines that begin
and end on a share's border, cross it, and empty lines; files shorter than the number of
ranks are among them. *The universe* has one unit per cell of the largest grid of a run, so
no border cuts a unit. *In the exchange*, one rank owns three cells and the other two, so
the last round has a remainder; texts of 1 and 2 characters with units of 2 give padded and
full units; a geometry may lie in two cells of one rank, of two ranks, or in one; cells,
rounds and ranks without any geometry occur; three cells are too few and hit the assertion.
*In the programs*, the files are laid out in four ways (of a layer each line reaches one
rank, a line reaches two, or one reaches nobody, which leaves a rank without geometries),
boxes lie inside a cell, across several, on a border and only in the fifth cell of the
adaptive grid, which the loop over four partitions never reaches; each of nine variants
makes one thing go wrong: a line or all lines of a layer that do not parse, no polygon,
shapes that do not meet and an exception, no file of queries on one rank, a box too many in
the grid, too few for the rounds, a file of layer 2 missing, texts that are not read. The
eleven programs left out are copies of one that is in, step by step (`StepsOf`). *Forty
bytes* are more than three ranks times the longest record of four blocks; the sizes of
elements are scaled down (a box of four floats is two elements of two bytes), and `"with
rest"` also has an element of two bytes for three ranks, for which the rest is not empty,
and one that takes 7 bytes of memory for 4 of the file, as 28 for 16 in `IntMBR`. *Two
blocks and a sample of two* with up to six lines have lines cut by a block's end, samples
never filled and lines after the sample is full. None of the models has an unbounded
counter.

**Deadlock** is checked in every run but those of `MasterWorker` and `LoadBalancer`,
where the program really may stop: with fewer files than slaves the drain loop waits
for good (`drain`).

**Fairness.** In `MasterWorker` and `LoadBalancer` each process is weakly fair: it runs
straight-line code between MPI calls, and MPI delivers what was sent. The master's receive
takes the oldest message of any slave with one; no fairness between slaves is assumed. In
`Shuffle` it is enough that some process goes on, where a collective call is only sure to
end once every rank has entered it (leaving earlier is possible, never assumed); the
condition is on the steps that go on (`Proceed`), told by what they do to `pc` and `inCall`,
which every one of them changes. In `SpatialJoin` every process is weakly fair, for its
local and its collective steps together. `Termination` is claimed under what the code needs:
a file for every slave, a distinct positive load for every slave, a cell for every round; in
`SpatialJoin` under nothing but that, with a killed job as the other end. `FilePartition`,
`UniformGrid` and `FileReaders` have no liveness properties: their ranks do not wait for
each other.

**Mutants.** Every property of a passing run is violated by at least one plausible
bug, written beside the definition it changes and marked "Mutant" (for example
`DrainEndEarly`, `SendWorkAgain`, `OffsetWithoutPadding`, `EqualRounds`). Nothing else
uses these definitions.

### Findings

1. `MPILoadBalancer.cpp:121` (also `adlb_mpigis_dyn.cpp:361`,
   `dynamicMPILoadCalculator.cpp:160`): with fewer files than slaves the job hangs.
2. `dynamicMPILoadCalculator.cpp:17`: cells with equal loads are dropped, except one.
3. `MPI_File_Partitioner.cpp:187`: the copy begins at the chunk and not at the first
   whole line, so ranks deliver parts of their predecessor's lines, and miss some.
4. `uniformGrid.cpp:452`: grids of 16384 and more cells cover the lower half of
   each box twice, which the run shows for one point, and the upper not at all.
5. `WKTParser.cpp:438`: after a text that cannot be read, the next box gets that text.

What 3 does to the joins is in `SpatialJoin`: in the run a rank without a line of its own,
and one with a line that another has too, lose pairs of the files and find pairs twice.
`Required` therefore speaks of the copies of lines that were read. Without a run of their
own, but in the model: `MPI_ReadBinaryMBRFile.cpp:88` divides the bytes of a file and not
its records, which are torn then (`Torn`), and a strided read that does not fill its blocks
reads elements of the next rank (`Rest`, line 177), in spite of the hint `read_once` (line
136).

## 4. The proofs

Every theorem holds for every value of the constants that the named assumption of its
module admits (`ConstantsOK`, `SpatialJoinConstants`, ...); TLC evaluates these
assumptions in the runs. Theorems that state a property of a run are listed in
`PROJECT.json`.

**`MasterWorkerProofs`** (any number of slaves, any lists without repetition, any
results). The properties are not inductive; the invariant is
`IInv == TypeOK /\ ShapeInv /\ ExitInv /\ ConserveInv /\ LoopInv`:

* `ShapeInv`: of a slave's queue, hand and answers, at most one is non-empty, with one
  file (so `OneAtATime`), or it has a DIETAG and nothing else;
* `ExitInv`: DIETAGs and exited slaves are exactly those the exit loop has passed;
* `ConserveInv`: the handed-out files are the collected ones and those with a slave,
  without overlap;
* `LoopInv`: what each loop knows: which slaves have a file while seeding, that all but
  the one being answered have one while files are left, and that in the drain loop
  the number of collected results and the counter together tell how many files are
  still out. From the last, the loop is left only when nothing is out.

Each action preserves it by a lemma of its own (`SeedSlaveStep` ... `ReturnStep`,
`TakeWorkStep`, ...); `NextInv` puts them together. From `IInv` follow
`TypeCorrect`, `ConservationHolds`, `OneAtATimeHolds`, `NoIdleSlaveHolds`,
`ExitHolds`, `ReturnHolds`, and `ImplementsPoolSafety`: `SeedSlave` and
`DispatchNext` are the pool's assignment, `ReceiveResult` and `DrainResult` its
completion, `DrainEnd` its close, all others stutter. `TotalHolds` adds that the totals
of the slaves sum up to the results collected so far.

**`DataTheorems`**: facts about sums and sequences, none about the program. The library
defines the sum over a function by a recursive function over subsets whose elements `CHOOSE`
picks; the equation is proved from the well-foundedness of the strict subsets of a finite
set (`SubsetInduction`, where the property is a set, not an operator), then that any element
may be taken out (`SumRemove`), and that sizes of disjoint sets sum up to the size of their
union (`SumOfSizes`). `FlattenSeq`, also recursive, is shown to put each element of each
part at the place the lengths before it give (`FlattenIs`), to keep an order
(`FlattenSorted`) and to add up weights (`WeighFlattened`); a sequence that is sorted by an
asymmetric relation is determined by its elements (`SortedSame`) and as long as they are
many (`SortedLen`).

**`LoadBalancerProofs`**: the composition. Both phases share the channels, so each is seen
through the part of them that belongs to it: until the master leaves the load calculation
all messages are of that phase, and later only the first message on the way to a
slave can still be (`LoadPart`, `RefinePart`). Seen so, each phase is a run of
`MasterWorker`, and the invariant `IInv` says its `IInv` of both (`CalcP`, `RefineP`);
`RefineAtStart`: until then the refinement's variables are initial; `LinkInv`: a slave is in
the refinement only when it has exited from the load calculation. With `LoadMapInv` (the
map holds the positive loads of the collected files) follow `TypeCorrect`,
`PhaseIsolationHolds`, `ScheduleHolds` and `RefinesHolds`. The last needs that a list of a
finite set of loads in descending order exists, for which `Descending` is a choice.

**`FilePartitionProofs`**: `RangesTileHolds`, for any number of ranks and any file whose
lines are shorter than the overlap. Both `LocEnd(r)` and `LocStart(r + 1)` are shown
to be the least newline at or behind the same byte of the file. `LinesInOneRange`, under
the same assumption: ends grow with the rank and the last is the end of the file, so a
line is in the range of the least rank whose end is not before it, all of it because a
range ends with a newline, and in no other because ranges tile. `TypeCorrect`, and
`FirstRankHolds`: what rank 0 copies is exactly its own lines.

**`UniformGridProofs`**: `GridCovers`, for every universe and all sizes up to 8192: the
halves and quadrants of a box that holds the point hold it exactly once. `TypeCorrect` and
`IdsSharedHolds` are for all sizes, those of 16384 and more too: a nested call owns the
numbers of its cells, and its parts share them out.

**`FileReadersProofs`**: all properties of `FileReaders`, for any number of ranks and blocks
and any sizes. `DeliveryHolds` has the property's premises (`Fits`, `WholeBlocks`,
`WholeRecords`), outside of which the code does lose, tear or overrun. For the binary
readers `WorkInv` says that a rank's buffer and records are empty or what its position in
the file makes them, and that no buffer is overrun; the rest is arithmetic.
`OnlyTheRestHolds` has no premise on sizes: the contiguous positions of two ranks are in
disjoint intervals, also with the last rank's larger count; in a strided read the view
repeats from its extent, so that the elements beyond the whole blocks are in the block
behind the rank's last one, which is the next rank's (`BlockIs`, `BlocksShared`).
`DeliveryHolds`: positions grow with the number of the element (`PositionGrows`, three
digits of a number), so what is in the file is a prefix of what is asked for
(`ReadsThePrefix`), with whole records all of it (`AllRead`); the m-th record of a rank is
number `RecordNo(r, m)` of the file (`RecordIs`), and these numbers are all different and
all there are (`RecordsApart`, `EveryRecord`). For this a block must have whole records,
which `IsReader` says: the code's blocks are 100 * 1024 floats, or elements that are
records.

For the sequential reader the invariant is about `lines \o todo`, which taking a line leaves
as it is: it is in the order of the file, holds no newline, and covers every other
byte before the end of the blocks read (`Pass`). A block adds its pieces behind it
(`PassGrows`); `CHOOSE` does take them in order, as each number of pieces before a piece
occurs once (`PieceRanks`). `SampleHolds`: a line that is taken differs from all before it,
so it has the places it is just stored in, and the others keep theirs or fewer
(`PlacesInv`). `TypeCorrect` collects the types.

**`ShuffleProofs`**: all properties of `Shuffle` but termination, for any number of ranks,
cells, rounds and characters in a unit and any geometries. Its parts:

* *What the operators compute.* The rounds of a process cut its cells into parts
  (`RoundIs`, `RoundsDiffer`, `EveryCellHasARound`). What a rank packs is sorted by cell
  and geometry, so the receive buffer is sorted by sender, cell and geometry, and holds
  each geometry once for each of its cells (`ReceivedIs`). The text of the j-th geometry of
  a sender begins at the sender's displacement plus the lengths before it (`TextsGotIs`);
  as no text is empty, no other begins there, so a read there finds that text
  (`ReadTextIs`). So `parseGeomByProcess` reads what can be read of what was received
  (`ParseByProcessIs`), and `parseGeomFromLayerGrpByCell` all of it when no read throws, as
  then its single offset is the sum of all lengths before (`ParseByCellIs`; without
  padding the parts of the senders are adjacent). Grouping sorted geometries gives the
  sorted list of each cell (`GroupMatches`).
* *The calls.* `CallsMatch` compares two ranks that may be in different rounds, so
  `CallsInv` ties each to the program instead: a rank in round i at the j-th of N calls has
  left i * N + j - 1 of them (one more if it is in it), and its k-th call is `CallAt(k)`, of
  round `RoundAt(k)`, which depend on k and the class only (`CallsMatchHolds`).
* *The invariant* `ShuffleInv` of `InvHolds`. `SentInv`: the k-th call of a rank sends
  `Sent(r, p, CallAt(k), RoundAt(k))`, a function of the input. `GotInv`: before the i-th
  call of a round a rank has what the i - 1 calls before sent to it (`HasGot`); this needs
  that a rank which leaves early misses nothing, since one that is not expected to send has
  nothing to send (`LeaveGets`, `NothingSent`). `OwnInv`: its map, the geometries whose read
  threw and its total are those of its rounds so far (`Data`), which `ParseData` shows for
  one more round: a later round never has a cell of an earlier one, so `map::insert`, which
  leaves entries alone, loses nothing (`ParsedMaps`). `AbortInv` says why a rank stops.
* From it `TypeCorrect`, `AbortsHold` (the buffer for the texts is always large
  enough, `TextLenIs`), `OwnersHold`, `DeliveryHolds` and `TotalsHold` (ranks' totals and
  cells' sizes are two ways to count the same set, `RanksAddUp`, `CellsAddUp`).

The last three are proved under `ReadsInPlace`: the reader does not throw, or the class
advances its offset before it reads (`"all"`), or reads no texts (`"boxes"`, `"roads"`).
The run has just these cases. In the others the code is wrong, which is finding 5.

**`SpatialJoinProofs`**: all properties of `SpatialJoin` but termination, for every
program, every number of processes and cells, and every finite input.

* `CallsMatchHolds` by the idea of `Shuffle`: the calls a process has made are as
  many as collective steps before its step (`NumBefore`), and the k-th one is the k-th
  collective step of the program; there is only one (`OneKthCall`).
* `JoinInvHolds`: the invariant. A process may be anywhere in its program while another
  is elsewhere, and what is in its variables was computed from what others sent. But each
  value is a function of the input, the program and the set of steps the process has
  done (`MemOK(r, Done(r), mem[r])`), and so is what it has sent (`SentInv`); the set of
  processes' interleavings no longer matters. This is inductive only since each step
  finds what it needs and is not undone by a later one: `Ready(all, s, D)` says what
  a step needs of those before it, `ProgramOrdered` that each of the 27 programs is an
  order in which every step is ready, part by part (`OrderedReadLayers`, ...). One
  lemma for each kind of step shows that it sets its variable to the value
  (`OwnBoxIsKnown` ... `FoundByOverlay`, `UnionIsKnown`, `RecvIsKnown`, ...).
* From it, `TypeCorrect` and `IndexBeforeQueryHolds`; `GridsAgreeHolds`, where
  `GridCovers` says that a box inside the divided box meets one of its cells,
  with an induction over the cells in the form of a greatest element (`SomePiece`), and
  `HullIsAround` that the united box is around the geometries of all processes;
  `FoundOnceHolds`, since the cells of two processes are disjoint (the programs that join
  with a whole layer 2 are not its subject: two ranks that were given the same line
  both join it).
* `FoundInEverySharedCellHolds`: the pairs process r finds are the ones that share a cell of
  r (`IsShared`): for the adaptive driver since what r receives for a cell are the copies of
  lines of layer 1 that meet it and can be read there (`RecvHolds`), for the static balancer
  by its files. The total at the root is a sum of the sizes of disjoint sets.
* `RefinesJoinHolds`: every program implements `JoinSpec`. `FoundIsSound` and
  `FoundIsComplete` compare what the processes found with `Required` for each kind of
  program (for the GPU, two boxes that meet also meet in a cell, `MeetInCell`);
  `RefinesStep` maps a join step to `Find`, the step with which the last process ends
  to `End`, and all others to stuttering. `FoundIsExact` draws the
  conclusion. All of this holds of the copies of lines that `LinesOf` delivers, of which
  the proofs use nothing but that they are copies of lines of the file: which lines the
  partitioner loses or repeats does not matter to them.

The run's inputs on 2 processes are one instance of these theorems.

**Only model-checked:** liveness (`Termination`, the fairness of `ImplementsPool`),
out of the reach of the prover. The findings are runs of TLC by nature.

## 5. Not modelled

* **GEOS** (predicates, trees, the WKT format) and **MPI** are black boxes; what the
  models need of them is named external.
* **Widths** of integers: totals, lengths, displacements and, in
  `MPIReadBinMBRStruct.cpp`, sizes of files are `int`. They matter at 2^31, out of
  reach of the models' instances; the hazards name the lines.
* **Failures of the environment**: files that cannot be opened or read (but the file of
  queries), allocations, processes that die by themselves. The code has no recovery.
* **Reductions for statistics** under macros the makefile does not define (`DBUG2`,
  `DBUG3`, `DBUG5`), timing and logging; the reductions of counts and times that are
  compiled are steps of `SpatialJoin`.
* **Lines longer than the overlap**, and files without a last newline: premises of
  `FilePartition` (`IsLayer`). The code then searches behind its buffer.
* **Strided reads of less than one block per rank**, for which the view is empty.
* **Programs that do not build** as they are: several `main` functions call
  `parse` with arguments `Parser.h` no longer has; the one of
  `MPIReadBinMBRStruct.cpp` calls a method on the wrong type;
  `mpi_readAll_binary.cpp`. Those that differ from the interfaces only in such a
  call are modelled by what the call means; the others are left out.
* **Code without a caller or a body**: `staticMPILoadCalculator.cpp` (its use is commented
  out), `EnvelopeReducer.cpp`, `controlDataManager.cpp`, `geom_util/reserve_sampling.cpp`.
* **Sequential tools and tests** (`seqOSMJoin.cpp`, `loadCalculationByIndex.cpp`,
  `seqReadWriteGeomToMBR.cpp`, `sequentialIO.cpp`, `test*.cpp`, `iotest.cpp`): loops over
  a file without state that lasts. `tbb/par_for.cpp` is an example of a library,
  `ShapeFilePartitioner.cpp` a wrapper of one, `spatial-data-aware-MPI/` a separate
  experiment.

## 6. Plan

All modules of the plan are written: `MasterWorker` with `WorkPool`, `LoadBalancer`,
`FilePartition`, `UniformGrid`, `Shuffle`, `SpatialJoin` with `JoinSpec`, `FileReaders`.
Every safety property of a run that passes is proved too. What would add most to the
models are the widths of the exchange's counts and displacements.
