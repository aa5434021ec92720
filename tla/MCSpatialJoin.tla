---------------------------- MODULE MCSpatialJoin ----------------------------
(* Small instances of SpatialJoin for TLC: two processes, a grid of four   *)
(* cells, and an adaptive grid with a fifth one.                           *)
EXTENDS SpatialJoin

MCUniverse     == Box(0, 8)
MCEmptyListBox == Box(-8, 16)
MCGridFile     == <<Box(0, 2), Box(2, 3), Box(3, 4), Box(4, 6), Box(6, 8)>>

(* One program for each sequence of steps; the others are copies.         *)
MCPrograms ==
  {"adaptive", "driver", "overlay", "grid", "large", "read", "count", "allobj",
   "allobj10", "mpeReal", "cuda", "bench", "bench10", "mbrJoin", "single", "static"}

(* Files of two lines, by the bytes the parser needs of them: of Exact     *)
(* each process gets one line, of Twice process 1 gets the second line     *)
(* again, and of Lost it gets the end of the first and not the second.     *)
MCFile(size, newlines) == [size |-> size, newlines |-> newlines]
Exact == [file |-> MCFile(6, {3, 5}), from |-> <<0, 4>>, to |-> <<2, 4>>]
Twice == [file |-> MCFile(6, {2, 5}), from |-> <<0, 3>>, to |-> <<1, 4>>]
Lost  == [file |-> MCFile(11, {8, 10}), from |-> <<2, 9>>, to |-> <<6, 9>>]

(* Lines 1 and 2 are of layer 1, and 3 and 4 of layer 2.                   *)
Input(layouts, boxes) ==
  [lines |-> [i \in 1 .. 4 |->
     LET l == IF i <= 2 THEN 1 ELSE 2
         n == IF i <= 2 THEN i ELSE i - 2
     IN  [layer |-> l, from |-> layouts[l].from[n], to |-> layouts[l].to[n],
          box |-> boxes[i], valid |-> TRUE, polygon |-> TRUE]],
   files |-> [l \in Layers |-> layouts[l].file],
   apart |-> {}, throws |-> {}, unread |-> {},
   queryFile |-> [r \in Ranks |-> TRUE], gridFile |-> MCGridFile, numFilesLayer2 |-> 4]

(* The boxes lie inside a cell, across several, and in the fifth cell of   *)
(* the adaptive grid only.                                                 *)
MCBoxes == {<<Box(1, 3), Box(5, 7), Box(2, 6), Box(7, 8)>>,
            <<Box(7, 8), Box(0, 8), Box(8, 8), Box(3, 3)>>}
MCLayouts == {<<Exact, Exact>>, <<Twice, Exact>>, <<Exact, Twice>>, <<Lost, Twice>>}
MCPlain == {Input(layouts, boxes) : layouts \in MCLayouts, boxes \in MCBoxes}

(* The same with a line that does not parse, with a collection instead of  *)
(* a polygon, with shapes that do not meet and exceptions, without the     *)
(* file of queries on one process, with a box too many in the grid and     *)
(* with too few for the rounds, with a file of layer 2 missing, and with   *)
(* texts that are not read.                                                *)
MCVariants(in) ==
  {[in EXCEPT !.lines[1].valid = FALSE],
   [in EXCEPT !.lines[3].valid = FALSE, !.lines[4].valid = FALSE],
   [in EXCEPT !.lines[2].polygon = FALSE],
   [in EXCEPT !.apart = {<<1, 3>>}, !.throws = {<<2, 3>>}],
   [in EXCEPT !.queryFile[1] = FALSE],
   [in EXCEPT !.gridFile = Append(@, Box(7, 7))],
   [in EXCEPT !.gridFile = SubSeq(@, 1, 3)],
   [in EXCEPT !.numFilesLayer2 = 3],
   [in EXCEPT !.unread = {<<<<1, 0>>, c>> : c \in 0 .. 1} \cup {<<<<2, 1>>, 3>>}]}
MCInputs == MCPlain \cup UNION {MCVariants(Input(<<Twice, Exact>>, boxes)) : boxes \in MCBoxes}
=============================================================================
