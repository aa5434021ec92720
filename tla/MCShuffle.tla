------------------------------ MODULE MCShuffle ------------------------------
(* Small instances of Shuffle for TLC: two ranks and four geometries.      *)
EXTENDS Shuffle

Setup(m, r) == [manager |-> m, reader |-> r]

(* A reader that throws shifts the texts behind it in "multi" and "single"; *)
(* MCShuffleGroups.cfg looks at that.                                      *)
MCSetups == {Setup("all", "lenient"), Setup("all", "strict"),
             Setup("multi", "lenient"), Setup("single", "lenient"),
             Setup("pair", "lenient"), Setup("boxes", "lenient"),
             Setup("roads", "lenient")}
MCStrictSetups == {Setup("multi", "strict"), Setup("single", "strict")}

(* A rank's cells are 0, 2, 4 or 1, 3.  The texts have 1, 2 and 2          *)
(* characters, so that with units of two characters some parts are padded. *)
(* The fourth geometry is of the second layer.                             *)
MCLens == <<1, 2, 2, 1>>
MCPlaces == {{0}, {1, 4}, {2, 4}} \X {{0}, {2, 4}} \X {{1, 4}, {2, 4}}
MCInputs(numCells) ==
  {[numCells |-> numCells,
    geoms |-> [g \in 1 .. 4 |->
                [layer |-> IF g = 4 THEN 2 ELSE 1, len |-> MCLens[g], rank |-> h[g],
                 cells |-> IF g = 4 THEN {0, 1} ELSE p[g]]]] :
     h \in {<<0, 0, 1, 0>>, <<1, 0, 1, 1>>}, p \in MCPlaces}

(* With three cells rank 1 has fewer than there are rounds.                *)
MCFewCells ==
  {[numCells |-> 3, geoms |-> <<[layer |-> 1, len |-> 1, rank |-> 0, cells |-> {0, 2}]>>]}

MCAllInputs == MCInputs(5) \cup MCFewCells
MCFiveCells == MCInputs(5)
=============================================================================
