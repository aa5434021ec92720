---------------------------- MODULE FilePartition ----------------------------
(***************************************************************************)
(* MPI_File_Partitioner::partitionLayer: every rank reads its share of a   *)
(* text file, one geometry per line, plus some overlap, moves both ends of *)
(* the share to line ends and turns what it copies into a list of lines    *)
(* (FileSplits).  A byte is its offset in the file; all that matters about *)
(* it is whether it is a newline.                                          *)
(***************************************************************************)
EXTENDS Integers, FiniteSets

CONSTANTS
  MPI_Processes,  \* number of ranks
  overlap,        \* bytes read beyond a rank's share (2 000 000 in the code)
  Layers          \* the files: their size and the offsets of their newlines

Ranks == 0 .. MPI_Processes - 1

(* A layer ends with a newline, and its lines are shorter than the overlap. *)
(* Otherwise the search for a line end would leave the bytes that were read. *)
IsLayer(l) ==
  /\ l.size \in Nat \ {0}
  /\ l.newlines \subseteq 0 .. l.size - 1
  /\ l.size - 1 \in l.newlines
  /\ \A i \in 0 .. l.size - 1 : \E n \in l.newlines : i <= n /\ n < i + overlap

ASSUME PartitionConstants ==
  /\ MPI_Processes \in Nat \ {0}
  /\ overlap \in Nat
  /\ \A l \in Layers : IsLayer(l)

VARIABLES
  layer,   \* the file all ranks have open
  first,   \* per finished rank: offset of chunk[locstart] ...
  last,    \* ... and of chunk[locend]
  splits   \* per finished rank: its lines, as pairs of first and last offset

vars == <<layer, first, last, splits>>

Finished == DOMAIN splits

Init ==
  /\ layer \in Layers
  /\ first = <<>> /\ last = <<>> /\ splits = <<>>

-----------------------------------------------------------------------------
Share    == layer.size \div MPI_Processes
Start(r) == r * Share
EndOverlapsAlways(r) == Start(r) + Share - 1 + overlap   \* mutant
End(r)   == IF r = MPI_Processes - 1 THEN layer.size
                                     ELSE Start(r) + Share - 1 + overlap
ChunkSize(r) == End(r) - Start(r) + 1

IsNewline(r, k) == k < ChunkSize(r) /\ Start(r) + k \in layer.newlines

Least(S) == CHOOSE i \in S : \A j \in S : i <= j

(* Mutant: the newline found still belongs to the rank.                    *)
LocStartAtNewline(r) ==
  IF r = 0 THEN 0
  ELSE Least({k \in 0 .. ChunkSize(r) : IsNewline(r, k)})

(* locstart: behind the first newline of the chunk, but 0 at rank 0.       *)
LocStart(r) ==
  IF r = 0 THEN 0
  ELSE Least({k \in 0 .. ChunkSize(r) : IsNewline(r, k)}) + 1

(* Mutant: the search starts one byte behind the share.                    *)
LocEndLate(r) ==
  IF r = MPI_Processes - 1 THEN ChunkSize(r)
  ELSE Least({k \in ChunkSize(r) - overlap + 1 .. ChunkSize(r) + 1 :
                IsNewline(r, k) \/ k = ChunkSize(r) + 1})

(* locend: the first newline at or behind the end of the rank's share; the *)
(* last rank stops at the end of its chunk, one byte behind the file.      *)
LocEnd(r) ==
  IF r = MPI_Processes - 1 THEN ChunkSize(r)
  ELSE Least({k \in ChunkSize(r) - overlap .. ChunkSize(r) + 1 :
                IsNewline(r, k) \/ k = ChunkSize(r) + 1})

(* Mutant: only the rank's share is copied.                                *)
CopiedBytesOfShare(r) == Start(r) .. Start(r) + Share - 1

(* The locend - locstart + 1 bytes from chunk[0] on that become data; the  *)
(* last rank's chunk ends with a byte the read has not filled, at offset   *)
(* layer.size, and with '\0'.                                              *)
CopiedBytes(r) ==
  LET n == LocEnd(r) - LocStart(r) + 1
  IN  (Start(r) .. Start(r) + n - 1) \cap (0 .. layer.size)

(* strtok(data, "\n"): the maximal runs of bytes between newlines.         *)
Lines(bytes, newlines) ==
  LET text == bytes \ newlines
  IN  {l \in text \X text :
         /\ l[1] - 1 \notin text /\ l[2] + 1 \notin text
         /\ l[1] <= l[2] /\ l[1] .. l[2] \subseteq text}

(* unread: what the byte behind the file happens to be in memory.          *)
Delivered(r, unread) ==
  Lines(IF unread = "character" THEN CopiedBytes(r)
                                ELSE CopiedBytes(r) \ {layer.size},
        layer.newlines)

WithResult(f, r, v) == [q \in DOMAIN f \cup {r} |-> IF q = r THEN v ELSE f[q]]

PartitionLayer(r) ==
  /\ r \notin Finished
  /\ \E unread \in {"end of string", "newline", "character"} :
       splits' = WithResult(splits, r, Delivered(r, unread))
  /\ first' = WithResult(first, r, Start(r) + LocStart(r))
  /\ last'  = WithResult(last, r, Start(r) + LocEnd(r))
  /\ UNCHANGED layer

Terminating == Finished = Ranks /\ UNCHANGED vars
Next == (\E r \in Ranks : PartitionLayer(r)) \/ Terminating
Spec == Init /\ [][Next]_vars

-----------------------------------------------------------------------------
(* Properties.                                                             *)

TypeOK ==
  /\ layer \in Layers
  /\ Finished \subseteq Ranks /\ DOMAIN first = Finished /\ DOMAIN last = Finished
  /\ \A r \in Finished : /\ first[r] \in 0 .. layer.size
                         /\ last[r] \in 0 .. layer.size + 1
                         /\ splits[r] \subseteq (0 .. layer.size) \X (0 .. layer.size)

(* "everyone calculate what their start and end *really* are": without a   *)
(* message between them, a rank and its successor agree on the byte where  *)
(* one ends and the other begins, the first rank begins the file and the   *)
(* last one ends it.                                                       *)
RangesTile ==
  \A r \in Finished :
    /\ r = 0 => first[r] = 0
    /\ r + 1 \in Finished => first[r + 1] = last[r] + 1
    /\ r = MPI_Processes - 1 => last[r] >= layer.size - 1

FileLines == Lines(0 .. layer.size - 1, layer.newlines)

(* Every line of the file lies whole in the range of exactly one rank.     *)
EveryLineInOneRange ==
  Finished = Ranks =>
    \A l \in FileLines :
      Cardinality({r \in Ranks : first[r] <= l[1] /\ l[2] <= last[r]}) = 1

(* What rank 0 of several ranks delivers is whole lines of the file: those *)
(* that begin in its share, the one crossing its end included.             *)
FirstRankDeliversItsLines ==
  0 \in Finished /\ MPI_Processes > 1 =>
    splits[0] = {l \in FileLines : l[1] <= last[0]}

(* "Now let's copy our actual data over into a new array, with no          *)
(* overlaps": no byte of the file is in the lines of two ranks.            *)
NoOverlaps ==
  \A r, q \in Finished : r # q =>
    \A k \in splits[r], l \in splits[q] : k[2] < l[1] \/ l[2] < k[1]
=============================================================================
