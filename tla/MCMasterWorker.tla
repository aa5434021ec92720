--------------------------- MODULE MCMasterWorker ---------------------------
(* A small instance of MasterWorker for TLC: three slaves.                 *)
EXTENDS MasterWorker

(* Five files whose results have distinct subset sums, one of them 0 (an   *)
(* empty or missing file), so that a total identifies the results in it.   *)
MCFiles == 0 .. 4
MCResult == [f \in MCFiles |-> <<0, 1, 2, 4, 8>>[f + 1]]

(* The list 0 .. numFiles-1 of masterWithoutLoadCalc, and lists in another *)
(* order as masterRefinementScheduler builds them: longer than the number  *)
(* of slaves, as long, shorter, and empty.                                 *)
MCWorkLists == {<<0, 1, 2, 3, 4>>, <<3, 0, 1>>, <<4, 2>>, <<>>}
=============================================================================
