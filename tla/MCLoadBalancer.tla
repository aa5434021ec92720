--------------------------- MODULE MCLoadBalancer ---------------------------
(* Two slaves, files with load 0, 4 or 6: every assignment of loads to     *)
(* files is an initial state.  The exact join finds 2^id of the pairs, so  *)
(* that the total tells which files were refined.                          *)
EXTENDS LoadBalancer
MCPairsOf(id, load) == IF load = 0 THEN 0 ELSE 2^id
=============================================================================
