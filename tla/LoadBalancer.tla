---------------------------- MODULE LoadBalancer ----------------------------
(***************************************************************************)
(* The refineLB program (MPILoadBalancer.cpp): all ranks first run the     *)
(* distributed load calculation (DynamicMPILoadCalculator), which counts   *)
(* the pairs of intersecting MBRs of every file, then rank 0 schedules the *)
(* exact join of the files in descending order of that load.  Both phases  *)
(* are master/slave loops over the same communicator, receive with         *)
(* MPI_ANY_TAG and use the same tags, and there is no barrier in between:  *)
(* the master may already send refinement work to a slave that has not yet *)
(* received the DIETAG of the load calculation.                            *)
(***************************************************************************)
EXTENDS Integers, Sequences, FiniteSets, Functions

CONSTANTS
  nProcs,     \* number of MPI processes
  numFiles,   \* number of files per layer
  Loads,      \* possible numbers of intersecting MBR pairs of a file
  PairsOf(_, _)  \* pairs the exact join finds in file id, given its load

(* A file, with what the two phases will find in it.                       *)
Files == [id : 0 .. numFiles - 1, load : Loads]
LoadResult   == [f \in Files |-> f.load]
RefineResult == [f \in Files |-> PairsOf(f.id, f.load)]

(* The load calculation hands out file 0 .. numFiles-1 in this order.      *)
FileLists == {[i \in 1 .. numFiles |-> [id |-> i - 1, load |-> l[i]]] :
                l \in [1 .. numFiles -> Loads]}

(* The refinement's list is computed: any list without repetition.         *)
RefineLists == {l \in Seq(Files) : IsInjective(l)}

ASSUME LoadBalancerConstants ==
  /\ nProcs \in Nat \ {0}
  /\ numFiles \in Nat
  /\ Loads \subseteq Nat
  /\ RefineResult \in [Files -> Nat]

VARIABLES
  toSlave, toMaster, eager,                  \* MPI_COMM_WORLD, both phases
  cmpc, cfiles, cfileIndex, crank, csender, ctotals, cspc, cwork, ccollected,
  loadMap,   \* master's local map<int, long>: file -> load, load > 0 only
  rmpc, rfiles, rfileIndex, rrank, rsender, rtotals, rspc, rwork, rcollected

Calc == INSTANCE MasterWorker WITH
  WorkLists <- FileLists, Result <- LoadResult, Phase <- "load",
  mpc <- cmpc, files <- cfiles, fileIndex <- cfileIndex, rank <- crank,
  sender <- csender, totals <- ctotals, spc <- cspc, work <- cwork,
  collected <- ccollected

Refine == INSTANCE MasterWorker WITH
  WorkLists <- RefineLists, Result <- RefineResult, Phase <- "refine",
  mpc <- rmpc, files <- rfiles, fileIndex <- rfileIndex, rank <- rrank,
  sender <- rsender, totals <- rtotals, spc <- rspc, work <- rwork,
  collected <- rcollected

Ranks == Calc!Ranks

calcMaster   == <<cmpc, cfiles, cfileIndex, crank, csender, ctotals, ccollected>>
refineMaster == <<rmpc, rfiles, rfileIndex, rrank, rsender, rtotals, rcollected>>
calcVars     == <<calcMaster, cspc, cwork, loadMap>>
refineVars   == <<refineMaster, rspc, rwork>>
vars         == <<toSlave, toMaster, eager, calcVars, refineVars>>

(* "wait": the process is still in the load calculation.                   *)
Init ==
  /\ Calc!Init
  /\ loadMap = <<>>
  /\ rmpc = "wait" /\ rfiles = <<>> /\ rfileIndex = 0 /\ rrank = 1
  /\ rsender = 0 /\ rtotals = [r \in Ranks |-> 0]
  /\ rspc = [r \in Ranks |-> "wait"] /\ rwork = [r \in Ranks |-> {}]
  /\ rcollected = {}

-----------------------------------------------------------------------------
(* Mutant: files without a pair of MBRs are inserted as well.              *)
InsertAnyLoad(lm, m) ==
  [f \in DOMAIN lm \cup {m.file} |-> IF f = m.file THEN m.pairs ELSE lm[f]]

(* if (result.pairs > 0) loadMap->insert(...): map::insert keeps an entry   *)
(* that is already there.                                                  *)
InsertLoad(lm, m) ==
  IF m.pairs > 0 /\ m.file \notin DOMAIN lm
  THEN [f \in DOMAIN lm \cup {m.file} |-> IF f = m.file THEN m.pairs ELSE lm[f]]
  ELSE lm

(* The map from load to file, greatest load first.  Its keys are loads and *)
(* insert keeps the first file of a load: with files inserted in order of  *)
(* their id, only the lowest id of every load gets into the map.           *)
LastOfItsLoad(lm) ==   \* mutant: the entry is overwritten
  {f \in DOMAIN lm : \A g \in DOMAIN lm : lm[g] = lm[f] => f.id >= g.id}

FirstOfItsLoad(lm) ==
  {f \in DOMAIN lm : \A g \in DOMAIN lm : lm[g] = lm[f] => f.id <= g.id}
Descending(lm, l) == \A i, j \in DOMAIN l : i < j => lm[l[i]] > lm[l[j]]
FileNames(lm) ==
  LET once == FirstOfItsLoad(lm)
  IN  CHOOSE l \in [1 .. Cardinality(once) -> once] : Descending(lm, l)

(* Mutant: the results of the drain loop are received but not inserted.    *)
CalcMasterDropsLast ==
  /\ \/ \E r \in Ranks : /\ Calc!MasterReceives(r)
                         /\ loadMap' = IF cmpc = "drain" THEN loadMap
                                       ELSE InsertLoad(loadMap, Head(toMaster[r]))
     \/ Calc!MasterProceeds /\ UNCHANGED loadMap
  /\ UNCHANGED <<eager, refineVars>>

CalcMaster ==
  /\ \/ \E r \in Ranks : /\ Calc!MasterReceives(r)
                         /\ loadMap' = InsertLoad(loadMap, Head(toMaster[r]))
     \/ Calc!MasterProceeds /\ UNCHANGED loadMap
  /\ UNCHANGED <<eager, refineVars>>

CalcSlave(r) == Calc!Slave(r) /\ UNCHANGED <<loadMap, refineVars>>

(* calculateLoad returns at the master, and its map becomes the work list. *)
StartScheduler ==
  /\ cmpc = "done" /\ rmpc = "wait"
  /\ rmpc' = "seed"
  /\ rfiles' = FileNames(loadMap)
  /\ UNCHANGED <<toSlave, toMaster, eager, calcVars, rfileIndex, rrank>>
  /\ UNCHANGED <<rsender, rtotals, rcollected, rspc, rwork>>

RefineMaster == Refine!Master /\ UNCHANGED calcVars

(* A slave leaves the load calculation on its DIETAG and goes straight to  *)
(* the receive of slaveTaskForRefinement.                                  *)
StartSlaveTask(r) ==
  /\ cspc[r] = "exit" /\ rspc[r] = "wait"
  /\ rspc' = [rspc EXCEPT ![r] = "recv"]
  /\ UNCHANGED <<toSlave, toMaster, eager, calcVars, refineMaster, rwork>>

RefineSlave(r) == Refine!Slave(r) /\ UNCHANGED calcVars

MasterRank   == CalcMaster \/ StartScheduler \/ RefineMaster
SlaveRank(r) == CalcSlave(r) \/ StartSlaveTask(r) \/ RefineSlave(r)

AllDone == Refine!AllDone
Terminating == AllDone /\ UNCHANGED vars

Next == MasterRank \/ (\E r \in Ranks : SlaveRank(r)) \/ Terminating

(* As in MasterWorker: every process keeps running.                        *)
Fairness == WF_vars(MasterRank) /\ \A r \in Ranks : WF_vars(SlaveRank(r))
Spec == Init /\ [][Next]_vars /\ Fairness

-----------------------------------------------------------------------------
(* Properties.                                                             *)

TypeOK ==
  /\ DOMAIN loadMap \subseteq Files
  /\ loadMap \in [DOMAIN loadMap -> Loads \ {0}]
  /\ rfiles \in Seq(Files) /\ rfileIndex \in 0 .. Len(rfiles)
  /\ cspc \in [Ranks -> {"recv", "busy", "exit"}]
  /\ rspc \in [Ranks -> {"wait", "recv", "busy", "exit"}]
  /\ cwork \in [Ranks -> SUBSET Files] /\ rwork \in [Ranks -> SUBSET Files]
  /\ toSlave \in [Ranks -> Seq(Calc!Message \cup Refine!Message)]

(* Messages of one phase are never received in the other, although the     *)
(* receives accept any tag: the master's results and what the next receive *)
(* of each slave takes belong to the phase the receiver is in.             *)
PhaseIsolation ==
  /\ rmpc # "wait" =>
       \A r \in Ranks : \A i \in 1 .. Len(toMaster[r]) :
         toMaster[r][i].phase = "refine"
  /\ \A r \in Ranks : toSlave[r] # <<>> =>
       Head(toSlave[r]).phase = IF cspc[r] = "exit" THEN "refine" ELSE "load"

(* The schedule is built from the loads of all files: when the master      *)
(* starts the refinement no file is still being counted, and its load map  *)
(* holds exactly the files with a positive load.                           *)
ScheduleFromAllLoads ==
  rmpc # "wait" =>
    /\ DOMAIN loadMap = {f \in Calc!ListedFiles : f.load > 0}
    /\ \A f \in DOMAIN loadMap : loadMap[f] = f.load
    /\ \A r \in Ranks : cwork[r] = {}

(* What is refined: of the files with the same positive load, the one with *)
(* the lowest number; and the reported total is the sum of their pairs.    *)
LowestFileOfEachLoad ==
  {f \in Calc!ListedFiles :
     f.load > 0 /\ \A g \in Calc!ListedFiles : g.load = f.load => f.id <= g.id}
RefinesOneFilePerLoad ==
  rmpc = "done" =>
    /\ rcollected = LowestFileOfEachLoad
    /\ Refine!Total = SumFunctionOnSet(RefineResult, LowestFileOfEachLoad)

(* README.md: "Refine step: Spatial join computation in each cell."  At    *)
(* the end every cell whose MBRs intersect has been refined.               *)
EveryLoadedCellRefined ==
  rmpc = "done" => {f \in Calc!ListedFiles : f.load > 0} \subseteq rcollected

(* With a file for every slave, and as many distinct positive loads as     *)
(* slaves, both phases end on every process.                               *)
EnoughLoads ==
  /\ Calc!EnoughFiles
  /\ Cardinality({f.load : f \in Calc!ListedFiles} \ {0}) >= nProcs - 1
Termination == EnoughLoads ~> AllDone
=============================================================================
