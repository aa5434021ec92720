-------------------------- MODULE MCFilePartition --------------------------
(* Every text file of up to 9 bytes whose lines have at most 2 bytes and a *)
(* newline, for three ranks.  Files shorter than three bytes have an empty *)
(* share per rank, and lines cross the share ends of the longer ones.      *)
EXTENDS FilePartition

MCLayers ==
  {l \in UNION {[size : {n}, newlines : SUBSET (0 .. n - 1)] : n \in 1 .. 9} :
     IsLayer(l)}
=============================================================================
