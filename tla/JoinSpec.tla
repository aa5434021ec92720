------------------------------- MODULE JoinSpec -------------------------------
(***************************************************************************)
(* What a program that joins two layers promises, without processes, grids *)
(* or messages: a set of pairs that only grows, holds no pair that must    *)
(* not be there, and is complete when the program ends.  SpatialJoin       *)
(* implements it.                                                          *)
(***************************************************************************)
VARIABLES
  required,  \* the pairs the program has to find
  optional,  \* pairs it may find as well
  found,     \* pairs found so far
  ended

joinVars == <<required, optional, found, ended>>

JoinInit ==
  /\ found = {}
  /\ ended = FALSE

Find ==
  /\ ~ended
  /\ found' \subseteq required \cup optional
  /\ found \subseteq found'
  /\ UNCHANGED <<required, optional, ended>>

End ==
  /\ ~ended
  /\ required \subseteq found
  /\ ended' = TRUE
  /\ UNCHANGED <<required, optional, found>>

JoinSafety == JoinInit /\ [][Find \/ End]_joinVars

-----------------------------------------------------------------------------
(* Nothing is found that must not be, and at the end nothing is missing.   *)
Sound    == found \subseteq required \cup optional
Complete == ended => required \subseteq found
=============================================================================
