------------------------------ MODULE FileReaders ------------------------------
(***************************************************************************)
(* The readers that cut a file by its size, without a look at its lines or *)
(* records:                                                                *)
(*                                                                         *)
(*   the functions that read a binary file of records by all processes,    *)
(*     ReadBinaryMBRFile, MPIReadBinMBRStruct, ReadBinaryPointFile and     *)
(*     the main function of mpi_read_all.cpp;                              *)
(*   SeqFilePartitioner, one process that reads a file of lines block by   *)
(*     block and parses them (k = 0) or draws a sample of k lines.         *)
(*                                                                         *)
(* A byte of the file is known by its position, an element by the position *)
(* of its first byte.                                                      *)
(***************************************************************************)
EXTENDS Integers, Sequences, FiniteSets

CONSTANTS
  numProcesses,  \* number of MPI processes
  numBlocks,     \* blocks of the sequential reader
  k,             \* lines to sample
  Readers,       \* the functions, see IsReader
  Files          \* a size, and the positions of the newlines

Ranks == 0 .. numProcesses - 1

(* What a function reads: sizeOf and extent are the bytes of an element in *)
(* the file and in memory, where the MPI datatype puts it; perRecord       *)
(* elements make a record.  access is                                      *)
(*   "at rank"    one contiguous part for each process                     *)
(*   "with rest"  the same, with more elements for the last process        *)
(*   "strided"    every numProcesses-th block of elements; a block has     *)
(*                whole records                                            *)
(*   "lines"      SeqFilePartitioner                                       *)
IsReader(rd) ==
  /\ rd.access \in {"at rank", "with rest", "strided", "lines"}
  /\ {rd.sizeOf, rd.extent, rd.perRecord, rd.block} \subseteq Nat \ {0}
  /\ rd.sizeOf <= rd.extent
  /\ rd.access = "strided" => rd.block % rd.perRecord = 0

ASSUME FileReadersConstants ==
  /\ numProcesses \in Nat \ {0} /\ numBlocks \in Nat \ {0} /\ k \in Nat
  /\ \A rd \in Readers : IsReader(rd)
  /\ \A f \in Files : f.size \in Nat \ {0} /\ f.newlines \subseteq 0 .. f.size - 1

VARIABLES
  reader, file,  \* chosen at the start
  pc,            \* per process: "read", "parse" or "done"
  buffer,        \* per process: its elements, in the order they were read
  records,       \* per process: what it made of them
  blocks,        \* number of blocks the sequential reader has read
  todo,          \* the lines of its current block it has not looked at
  lines,         \* the lines it has looked at
  samples,       \* the sample, from the index
  killed         \* a write behind the end of a buffer has ended the job

vars == <<reader, file, pc, buffer, records, blocks, todo, lines, samples, killed>>

-----------------------------------------------------------------------------
(* The binary readers.                                                     *)

BufSizeRoundedUp == (file.size + numProcesses - 1) \div numProcesses   \* mutant
BufSize  == file.size \div numProcesses
Elements == BufSize \div reader.sizeOf

(* The rest the last process takes: of the bytes of its own part, after a  *)
(* division by the number of processes.                                    *)
Extra(r) ==
  IF reader.access = "with rest" /\ r = numProcesses - 1
  THEN (BufSize % numProcesses) \div reader.sizeOf ELSE 0
Count(r) == Elements + Extra(r)

(* The file view of a strided read: a vector of blocks, which is repeated  *)
(* from its extent on when there is more to read.                          *)
BlocksInView == Elements \div reader.block
ViewExtent == ((BlocksInView - 1) * numProcesses + 1) * reader.block
InView(i) ==
  LET b == i \div reader.block
  IN  (b \div BlocksInView) * ViewExtent
        + (b % BlocksInView) * numProcesses * reader.block + (i % reader.block)

(* Mutant: the last process starts where its predecessor does.             *)
StartOfPredecessor(r, i) ==
  reader.sizeOf *
    (IF reader.access = "strided" THEN r * reader.block + InView(i)
     ELSE Elements * (IF r = numProcesses - 1 /\ r > 0 THEN r - 1 ELSE r) + i)

(* The position of the i-th element for process r.  The last process       *)
(* multiplies its rank with its own count.                                 *)
Position(r, i) ==
  reader.sizeOf *
    (IF reader.access = "strided" THEN r * reader.block + InView(i) ELSE Count(r) * r + i)

(* A read ends at the end of the file.                                     *)
ElementsRead(r) ==
  LET inFile == {i \in 0 .. Count(r) - 1 : Position(r, i) + reader.sizeOf <= file.size}
  IN  [i \in 1 .. Cardinality(inFile) |-> Position(r, i - 1)]

Overrun(r) == Len(ElementsRead(r)) * reader.extent > BufSize

(* The records are taken from the buffer as if its elements were packed,   *)
(* for the number asked for: a record that is not one of the file is Torn. *)
Torn == -1
RecordSize == reader.perRecord * reader.sizeOf
Record(buf, n) ==
  LET first == (n - 1) * reader.perRecord + 1
      last  == n * reader.perRecord
  IN  IF /\ last <= Len(buf) /\ reader.extent = reader.sizeOf
         /\ buf[first] % RecordSize = 0
         /\ \A i \in first .. last : buf[i] = buf[first] + (i - first) * reader.sizeOf
      THEN buf[first] \div RecordSize ELSE Torn
RecordsIn(buf, count) ==
  [n \in 1 .. (count + reader.perRecord - 1) \div reader.perRecord |-> Record(buf, n)]

-----------------------------------------------------------------------------
(* The sequential reader.                                                  *)

PartitionSize == file.size \div numBlocks
BlockStart(b) == b * PartitionSize
BlockEnd(b) == IF b = numBlocks - 1 THEN file.size - 1 ELSE (b + 1) * PartitionSize

(* FileSplits::write: strtok takes the pieces between newlines, and skips  *)
(* empty ones.                                                             *)
IsPiece(from, to, b) ==
  /\ BlockStart(b) <= from /\ from <= to /\ to < BlockEnd(b)
  /\ from .. to \cap file.newlines = {}
  /\ from = BlockStart(b) \/ from - 1 \in file.newlines
  /\ to = BlockEnd(b) - 1 \/ to + 1 \in file.newlines
Pieces(b) == {p \in (0 .. file.size) \X (0 .. file.size) : IsPiece(p[1], p[2], b)}
LinesOfBlock(b) ==
  LET ps == Pieces(b)
  IN  [n \in 1 .. Cardinality(ps) |->
         CHOOSE p \in ps : Cardinality({q \in ps : q[1] < p[1]}) = n - 1]

(* reserveSampling, for a line with number n and a random j <= n.          *)
(* Mutant: while the sample fills, a line is stored in the place drawn     *)
(* only.                                                                   *)
SampledAtRandom(s, n, j, line) ==
  [i \in DOMAIN s \cup {x \in {j} : x < k} |-> IF i = j THEN line ELSE s[i]]
(* Mutant: the sample is filled up to one line too many.                   *)
SampledBeyond(s, n, j, line) ==
  [i \in DOMAIN s \cup {x \in {n, j} : x <= k} |-> IF i \in {n, j} THEN line ELSE s[i]]
Sampled(s, n, j, line) ==
  [i \in DOMAIN s \cup {x \in {n, j} : x < k} |-> IF i \in {n, j} THEN line ELSE s[i]]

-----------------------------------------------------------------------------
Binary == reader.access # "lines"

Init ==
  /\ reader \in Readers /\ file \in Files
  /\ reader.access = "strided" => BlocksInView > 0
  /\ pc = [r \in Ranks |-> IF Binary \/ r = 0 THEN "read" ELSE "done"]
  /\ buffer = [r \in Ranks |-> <<>>]
  /\ records = [r \in Ranks |-> <<>>]
  /\ blocks = 0 /\ todo = <<>> /\ lines = <<>> /\ samples = <<>>
  /\ killed = FALSE

Read(r) ==
  /\ Binary /\ ~killed /\ pc[r] = "read"
  /\ buffer' = [buffer EXCEPT ![r] = ElementsRead(r)]
  /\ killed' \in IF Overrun(r) THEN BOOLEAN ELSE {FALSE}
  /\ pc' = [pc EXCEPT ![r] = "parse"]
  /\ UNCHANGED <<reader, file, records, blocks, todo, lines, samples>>

Parse(r) ==
  /\ Binary /\ ~killed /\ pc[r] = "parse"
  /\ records' = [records EXCEPT ![r] = RecordsIn(buffer[r], Count(r))]
  /\ pc' = [pc EXCEPT ![r] = "done"]
  /\ UNCHANGED <<reader, file, buffer, blocks, todo, lines, samples, killed>>

ReadBlock ==
  /\ ~Binary /\ pc[0] = "read" /\ todo = <<>> /\ blocks < numBlocks
  /\ todo' = LinesOfBlock(blocks)
  /\ blocks' = blocks + 1
  /\ UNCHANGED <<reader, file, pc, buffer, records, lines, samples, killed>>

TakeLine ==
  /\ ~Binary /\ todo # <<>>
  /\ \E j \in 0 .. Len(lines) : samples' = Sampled(samples, Len(lines), j, Head(todo))
  /\ lines' = Append(lines, Head(todo))
  /\ todo' = Tail(todo)
  /\ UNCHANGED <<reader, file, pc, buffer, records, blocks, killed>>

EndOfBlocks ==
  /\ ~Binary /\ pc[0] = "read" /\ todo = <<>> /\ blocks = numBlocks
  /\ pc' = [pc EXCEPT ![0] = "done"]
  /\ UNCHANGED <<reader, file, buffer, records, blocks, todo, lines, samples, killed>>

Done == \A r \in Ranks : pc[r] = "done"
Terminating == (killed \/ Done) /\ UNCHANGED vars

Next ==
  \/ \E r \in Ranks : Read(r) \/ Parse(r)
  \/ ReadBlock \/ TakeLine \/ EndOfBlocks
  \/ Terminating

Spec == Init /\ [][Next]_vars

-----------------------------------------------------------------------------
(* Properties.                                                             *)

TypeOK ==
  /\ reader \in Readers /\ file \in Files /\ killed \in BOOLEAN
  /\ pc \in [Ranks -> {"read", "parse", "done"}]
  /\ \A r \in Ranks : /\ buffer[r] \in Seq(0 .. file.size)
                      /\ records[r] \in Seq(0 .. file.size \cup {Torn})
  /\ blocks \in 0 .. numBlocks
  /\ {todo, lines} \subseteq Seq((0 .. file.size) \X (0 .. file.size))
  /\ DOMAIN samples \subseteq 0 .. k - 1

(* No two processes read the same element, not even when the last one adds *)
(* the rest to its count, which moves its start too.  Only what a strided  *)
(* read asks for beyond its whole blocks comes from the last block of the  *)
(* next process, which reads it too.                                       *)
ElementsOf(r) == {buffer[r][i] : i \in 1 .. Len(buffer[r])}
Rest(r) ==
  {Position(r, i) : i \in {j \in 0 .. Count(r) - 1 : /\ reader.access = "strided"
                                                     /\ j >= BlocksInView * reader.block}}
OnlyTheRestReadTwice ==
  \A r, q \in Ranks : r < q =>
    \A e \in ElementsOf(r) \cap ElementsOf(q) : e \in Rest(r) /\ q = r + 1

(* When each process has a whole number of records, and blocks, in a       *)
(* buffer they fit, all of the file is delivered, each record once, up to  *)
(* a rest that is smaller than one element for each process; no process    *)
(* writes behind its buffer.  The sequential reader loses the last byte of *)
(* the file and delivers every other, once and in order.                   *)
WholeBlocks == reader.access = "strided" => Elements % reader.block = 0
Fits ==
  /\ reader.extent = reader.sizeOf
  /\ reader.access = "with rest" => numProcesses <= reader.sizeOf
WholeRecords == Elements % reader.perRecord = 0
Delivered(n) ==
  {x \in Ranks \X (1 .. file.size) : x[2] <= Len(records[x[1]]) /\ records[x[1]][x[2]] = n}
BufferHolds == Binary /\ Fits => ~killed
EverythingDeliveredOnce ==
  /\ BufferHolds
  /\ Binary /\ Fits /\ WholeBlocks /\ WholeRecords /\ Done =>
       LET all == (Elements \div reader.perRecord) * numProcesses
       IN  /\ \A n \in 0 .. all - 1 : Cardinality(Delivered(n)) = 1
           /\ Delivered(Torn) = {}
           /\ file.size - all * RecordSize < numProcesses * reader.sizeOf
  /\ ~Binary =>
       /\ \A i, j \in 1 .. Len(lines) : i < j => lines[i][2] < lines[j][1]
       /\ Done => UNION {lines[i][1] .. lines[i][2] : i \in 1 .. Len(lines)} =
                    (0 .. file.size - 2) \ file.newlines

(* The sample is full as soon as there are k lines, and the line in place  *)
(* i is the i-th or a later one.  A line is in it once; one of the first k *)
(* may be there twice, as it is stored in its place and in the one drawn.  *)
Places(line) == {i \in DOMAIN samples : samples[i] = line}
SampleFull == DOMAIN samples = {i \in 0 .. k - 1 : i < Len(lines)}
InPlaceOrLater ==
  \A i \in DOMAIN samples : \E n \in i + 1 .. Len(lines) : samples[i] = lines[n]
SampleOfTheLines ==
  ~Binary =>
    /\ SampleFull
    /\ InPlaceOrLater
    /\ \A n \in 1 .. Len(lines) :
         Cardinality(Places(lines[n])) <= (IF n <= k THEN 2 ELSE 1)
=============================================================================
