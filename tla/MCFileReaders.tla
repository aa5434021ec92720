---------------------------- MODULE MCFileReaders ----------------------------
(* The functions on small elements, for TLC.                               *)
EXTENDS FileReaders

Reader(access, size, extent, perRecord, block) ==
  [access |-> access, sizeOf |-> size, extent |-> extent, perRecord |-> perRecord,
   block |-> block]

MCReaders ==
  {Reader("at rank", 2, 2, 2, 1),     \* ReadBinaryMBRFile: floats, four to a record
   Reader("strided", 1, 1, 2, 4),     \* the same by blocks
   Reader("with rest", 4, 4, 1, 1),   \* MPIReadBinMBRStruct: MBR
   Reader("with rest", 2, 2, 1, 1),   \* with more processes than bytes in an MBR
   Reader("with rest", 4, 7, 1, 1),   \* IntMBR, in the layout of MBR
   Reader("strided", 2, 2, 1, 2),     \* MBR by blocks
   Reader("at rank", 3, 3, 1, 1),     \* ReadBinaryPointFile
   Reader("strided", 3, 3, 1, 2),     \* the same by blocks
   Reader("lines", 1, 1, 1, 1)}       \* SeqFilePartitioner

(* Binary files of up to 40 bytes, and texts of 9 or 10.                   *)
MCFiles == {[size |-> n, newlines |-> {}] : n \in 1 .. 40}
           \cup {[size |-> n, newlines |-> m] : n \in {9, 10}, m \in SUBSET {1, 2, 4, 6, 7}}
=============================================================================
