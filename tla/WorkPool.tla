------------------------------ MODULE WorkPool ------------------------------
(***************************************************************************)
(* What the master/slave protocol promises, without messages: a pool of    *)
(* files, each joined by exactly one worker that holds no other file, and  *)
(* closed only when every file is finished.  MasterWorker implements it.   *)
(***************************************************************************)
CONSTANTS Workers, Files

VARIABLES
  todo,      \* files nobody has been given yet
  held,      \* held[w]: the file worker w has, a set of at most one
  finished,  \* files whose result is known
  closed     \* the workers are told to go

poolVars == <<todo, held, finished, closed>>

PoolInit ==
  /\ todo \subseteq Files
  /\ held = [w \in Workers |-> {}]
  /\ finished = {}
  /\ closed = FALSE

Assign(w) ==
  /\ held[w] = {}
  /\ \E f \in todo : /\ held' = [held EXCEPT ![w] = {f}]
                     /\ todo' = todo \ {f}
  /\ UNCHANGED <<finished, closed>>

Finish(w) ==
  /\ held[w] # {}
  /\ finished' = finished \cup held[w]
  /\ held' = [held EXCEPT ![w] = {}]
  /\ UNCHANGED <<todo, closed>>

Close ==
  /\ ~closed
  /\ todo = {}
  /\ \A w \in Workers : held[w] = {}
  /\ closed' = TRUE
  /\ UNCHANGED <<todo, held, finished>>

PoolNext == (\E w \in Workers : Assign(w) \/ Finish(w)) \/ Close

PoolFairness ==
  /\ WF_poolVars(\E w \in Workers : Assign(w))
  /\ \A w \in Workers : WF_poolVars(Finish(w))

PoolSafety == PoolInit /\ [][PoolNext]_poolVars
PoolSpec   == PoolSafety /\ PoolFairness
=============================================================================
