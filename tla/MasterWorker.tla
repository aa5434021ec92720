---------------------------- MODULE MasterWorker ----------------------------
(***************************************************************************)
(* The dynamic load balancing protocol of MPI-GIS.  Rank 0 (the master)    *)
(* hands the files of a work list, one at a time, to ranks 1..nProcs-1     *)
(* (the slaves), adds up the number of join pairs they report and tells    *)
(* them to exit.  The program holds four copies of the master loop, which  *)
(* differ in the work list and in what a result is used for:               *)
(*                                                                         *)
(*   masterWithOutLoadCalc      adlb_mpigis_dyn.cpp                        *)
(*   masterRefinementScheduler  MPILoadBalancer.cpp                        *)
(*   masterWithoutLoadCalc      MPILoadBalancer.cpp                        *)
(*   master                     dynamicMPILoadCalculator.cpp               *)
(*                                                                         *)
(* MPI delivers the messages of one sender to one receiver in the order    *)
(* they were sent, hence a FIFO queue per direction and slave.  A standard *)
(* mode MPI_Send may return as soon as the message is buffered (eager) or  *)
(* only when the receiver has taken it (~eager); the library chooses.      *)
(***************************************************************************)
EXTENDS Integers, Sequences, FiniteSets, Functions

CONSTANTS
  nProcs,      \* number of MPI processes, the master included
  Files,       \* identifiers of the partition files (one file is one cell)
  WorkLists,   \* the work lists the master may start with
  Result,      \* Result[f]: the join pairs a slave finds in file f
  Phase        \* which of the master loops this is: a ghost label in messages

Ranks == 1 .. nProcs - 1

ASSUME ConstantsOK ==
  /\ nProcs \in Nat \ {0}
  /\ Result \in [Files -> Nat]
  /\ \A l \in WorkLists : l \in Seq(Files) /\ IsInjective(l)

WORKTAG == "WORKTAG"
DIETAG  == "DIETAG"

(* The integer a refinement slave returns does not name its file: there    *)
(* the field file is a ghost.  In the load calculation it is FilterResult. *)
WorkMsg(f)   == [tag |-> WORKTAG, phase |-> Phase, file |-> f]
DieMsg       == [tag |-> DIETAG, phase |-> Phase]
ResultMsg(f) == [phase |-> Phase, file |-> f, pairs |-> Result[f]]

VARIABLES
  mpc,        \* where the master is: which of its loops
  files,      \* the work list (fileNames, or 0 .. numFiles-1)
  fileIndex,  \* how many files of it are handed out
  rank,       \* counter of the master's "for (rank = 1; ...)" loops
  sender,     \* status.MPI_SOURCE of the master's last receive
  totals,     \* totalWorkDoneArr
  spc,        \* where each slave is
  work,       \* the file each slave is working on, a set of at most one
  toSlave,    \* messages from the master to each slave
  toMaster,   \* messages from each slave to the master
  eager,      \* does MPI_Send return before its message is received?
  collected   \* ghost: the files whose result the master has received

masterVars == <<mpc, files, fileIndex, rank, sender, totals, collected>>
slaveVars  == <<spc, work>>
vars       == <<masterVars, slaveVars, toSlave, toMaster, eager>>

Init ==
  /\ mpc = "seed"
  /\ files \in WorkLists
  /\ fileIndex = 0
  /\ rank = 1
  /\ sender = 0
  /\ totals = [r \in Ranks |-> 0]
  /\ spc = [r \in Ranks |-> "recv"]
  /\ work = [r \in Ranks |-> {}]
  /\ toSlave = [r \in Ranks |-> <<>>]
  /\ toMaster = [r \in Ranks |-> <<>>]
  /\ collected = {}
  /\ eager \in BOOLEAN

-----------------------------------------------------------------------------
(* The master.                                                             *)

MasterFree == eager \/ \A r \in Ranks : toSlave[r] = <<>>
MoreFiles  == fileIndex < Len(files)
LoopStart(pc) == mpc' = pc /\ rank' = 1

SendToSlave(r, m) == toSlave' = [toSlave EXCEPT ![r] = Append(@, m)]

(* Mutant: fileIndex is not advanced.                                      *)
SendWorkAgain(r) ==
  /\ SendToSlave(r, WorkMsg(files[fileIndex + 1]))
  /\ fileIndex' = IF mpc = "seed" THEN fileIndex + 1 ELSE fileIndex

(* One file for rank r: work = fileNames[fileIndex]; MPI_Send; fileIndex++ *)
SendWork(r) ==
  /\ SendToSlave(r, WorkMsg(files[fileIndex + 1]))
  /\ fileIndex' = fileIndex + 1

(* Mutant: the result is stored over the sender's earlier ones.            *)
CollectOverwrites(r) ==
  /\ toMaster[r] # <<>>
  /\ toMaster' = [toMaster EXCEPT ![r] = Tail(@)]
  /\ sender' = r
  /\ totals' = [totals EXCEPT ![r] = Head(toMaster[r]).pairs]
  /\ collected' = collected \cup {Head(toMaster[r]).file}

(* MPI_Recv from MPI_ANY_SOURCE: the oldest message of any slave.          *)
Collect(r) ==
  /\ toMaster[r] # <<>>
  /\ toMaster' = [toMaster EXCEPT ![r] = Tail(@)]
  /\ sender' = r
  /\ totals' = [totals EXCEPT ![r] = @ + Head(toMaster[r]).pairs]
  /\ collected' = collected \cup {Head(toMaster[r]).file}

(* Mutant: the seeding loop stops one rank early.                          *)
SeedEndEarly ==
  /\ mpc = "seed" /\ MasterFree
  /\ rank = nProcs - 1
  /\ LoopStart(IF MoreFiles THEN "receive" ELSE "drain")
  /\ UNCHANGED <<files, fileIndex, sender, totals, collected>>
  /\ UNCHANGED <<slaveVars, toSlave, toMaster>>

SeedSlave ==
  /\ mpc = "seed" /\ MasterFree
  /\ rank < nProcs
  /\ \/ MoreFiles /\ SendWork(rank)
     \/ ~MoreFiles /\ UNCHANGED <<toSlave, fileIndex>>
  /\ rank' = rank + 1
  /\ UNCHANGED <<mpc, files, sender, totals, collected, slaveVars, toMaster>>

SeedEnd ==
  /\ mpc = "seed" /\ MasterFree
  /\ rank = nProcs
  /\ LoopStart(IF MoreFiles THEN "receive" ELSE "drain")
  /\ UNCHANGED <<files, fileIndex, sender, totals, collected>>
  /\ UNCHANGED <<slaveVars, toSlave, toMaster>>

ReceiveResult(r) ==
  /\ mpc = "receive" /\ MasterFree
  /\ Collect(r)
  /\ mpc' = "dispatch"
  /\ UNCHANGED <<files, fileIndex, rank, slaveVars, toSlave>>

(* Mutant: the answer goes to the loop variable's rank, not to the sender. *)
DispatchToRank ==
  /\ mpc = "dispatch"
  /\ SendWork(rank)
  /\ mpc' = IF fileIndex + 1 < Len(files) THEN "receive" ELSE "drain"
  /\ UNCHANGED <<files, rank, sender, totals, collected, slaveVars, toMaster>>

DispatchNext ==
  /\ mpc = "dispatch"
  /\ SendWork(sender)
  /\ mpc' = IF fileIndex + 1 < Len(files) THEN "receive" ELSE "drain"
  /\ UNCHANGED <<files, rank, sender, totals, collected, slaveVars, toMaster>>

(* "Receive results for outstanding work requests": nProcs - 1 receives.   *)
DrainResult(r) ==
  /\ mpc = "drain" /\ MasterFree
  /\ rank < nProcs
  /\ Collect(r)
  /\ rank' = rank + 1
  /\ UNCHANGED <<mpc, files, fileIndex, slaveVars, toSlave>>

(* Mutant: one receive too few in the drain loop.                          *)
DrainEndEarly ==
  /\ mpc = "drain" /\ MasterFree
  /\ rank >= nProcs - 1
  /\ LoopStart("die")
  /\ UNCHANGED <<files, fileIndex, sender, totals, collected>>
  /\ UNCHANGED <<slaveVars, toSlave, toMaster>>

DrainEnd ==
  /\ mpc = "drain" /\ MasterFree
  /\ rank = nProcs
  /\ LoopStart("die")
  /\ UNCHANGED <<files, fileIndex, sender, totals, collected>>
  /\ UNCHANGED <<slaveVars, toSlave, toMaster>>

(* Mutants: the exit loop runs to nProcs inclusive; it leaves a rank out.  *)
SendDieInclusive ==
  /\ mpc = "die" /\ MasterFree
  /\ rank <= nProcs
  /\ SendToSlave(rank, DieMsg)
  /\ rank' = rank + 1
  /\ UNCHANGED <<mpc, files, fileIndex, sender, totals, collected>>
  /\ UNCHANGED <<slaveVars, toMaster>>

SendDieSkipsLast ==
  /\ mpc = "die" /\ MasterFree
  /\ rank < nProcs
  /\ IF rank < nProcs - 1 THEN SendToSlave(rank, DieMsg) ELSE UNCHANGED toSlave
  /\ rank' = rank + 1
  /\ UNCHANGED <<mpc, files, fileIndex, sender, totals, collected>>
  /\ UNCHANGED <<slaveVars, toMaster>>

SendDie ==
  /\ mpc = "die" /\ MasterFree
  /\ rank < nProcs
  /\ SendToSlave(rank, DieMsg)
  /\ rank' = rank + 1
  /\ UNCHANGED <<mpc, files, fileIndex, sender, totals, collected>>
  /\ UNCHANGED <<slaveVars, toMaster>>

Return ==
  /\ mpc = "die" /\ MasterFree
  /\ rank = nProcs
  /\ mpc' = "done"
  /\ UNCHANGED <<files, fileIndex, rank, sender, totals, collected>>
  /\ UNCHANGED <<slaveVars, toSlave, toMaster>>

MasterReceives(r) == ReceiveResult(r) \/ DrainResult(r)
MasterProceeds ==
  SeedSlave \/ SeedEnd \/ DispatchNext \/ DrainEnd \/ SendDie \/ Return
Master ==
  /\ (\E r \in Ranks : MasterReceives(r)) \/ MasterProceeds
  /\ UNCHANGED eager

-----------------------------------------------------------------------------
(* The slaves.                                                             *)

SlaveFree(r) == eager \/ toMaster[r] = <<>>

(* MPI_Recv from rank 0 with MPI_ANY_TAG.                                  *)
TakeMessage(r, tag) ==
  /\ spc[r] = "recv" /\ SlaveFree(r)
  /\ toSlave[r] # <<>>
  /\ Head(toSlave[r]).tag = tag
  /\ toSlave' = [toSlave EXCEPT ![r] = Tail(@)]

TakeWork(r) ==
  /\ TakeMessage(r, WORKTAG)
  /\ spc' = [spc EXCEPT ![r] = "busy"]
  /\ work' = [work EXCEPT ![r] = {Head(toSlave[r]).file}]
  /\ UNCHANGED <<masterVars, toMaster>>

(* The file is read and joined, and the number of pairs sent to the master. *)
Reply(r) ==
  /\ spc[r] = "busy"
  /\ \E f \in work[r] :
       toMaster' = [toMaster EXCEPT ![r] = Append(@, ResultMsg(f))]
  /\ spc' = [spc EXCEPT ![r] = "recv"]
  /\ work' = [work EXCEPT ![r] = {}]
  /\ UNCHANGED <<masterVars, toSlave>>

TakeDie(r) ==
  /\ TakeMessage(r, DIETAG)
  /\ spc' = [spc EXCEPT ![r] = "exit"]
  /\ UNCHANGED <<masterVars, work, toMaster>>

Slave(r) == (TakeWork(r) \/ Reply(r) \/ TakeDie(r)) /\ UNCHANGED eager

-----------------------------------------------------------------------------
AllDone == mpc = "done" /\ \A r \in Ranks : spc[r] = "exit"
Terminating == AllDone /\ UNCHANGED vars

Next == Master \/ (\E r \in Ranks : Slave(r)) \/ Terminating

(* Every process keeps running its straight-line code, and MPI delivers a  *)
(* message that was sent: each process is weakly fair.                     *)
Fairness == WF_vars(Master) /\ \A r \in Ranks : WF_vars(Slave(r))
Spec == Init /\ [][Next]_vars /\ Fairness

(* What the calling driver reports: the sum over the slaves.               *)
Total == SumFunction(totals)

-----------------------------------------------------------------------------
(* Properties.                                                             *)

ListedFiles == {files[i] : i \in 1 .. Len(files)}
HandedOut   == {files[i] : i \in 1 .. fileIndex}

Message == [tag : {WORKTAG}, phase : {Phase}, file : Files] \cup {DieMsg}
ResultMessage == {ResultMsg(f) : f \in Files}

TypeOK ==
  /\ mpc \in {"seed", "receive", "dispatch", "drain", "die", "done"}
  /\ files \in WorkLists
  /\ fileIndex \in 0 .. Len(files)
  /\ rank \in 1 .. nProcs
  /\ sender \in 0 .. nProcs - 1
  /\ totals \in [Ranks -> Nat]
  /\ spc \in [Ranks -> {"recv", "busy", "exit"}]
  /\ work \in [Ranks -> SUBSET Files]
  /\ toSlave \in [Ranks -> Seq(Message)]
  /\ toMaster \in [Ranks -> Seq(ResultMessage)]
  /\ collected \subseteq Files
  /\ eager \in BOOLEAN

(* f is on its way to slave r, being joined there, or on its way back.     *)
Outstanding(r, f) ==
  \/ \E i \in 1 .. Len(toSlave[r]) : toSlave[r][i] = WorkMsg(f)
  \/ f \in work[r]
  \/ \E i \in 1 .. Len(toMaster[r]) : toMaster[r][i] = ResultMsg(f)

(* No file is lost and none is joined twice: a file of the list that was   *)
(* handed out is either with exactly one slave or its result has been      *)
(* added to the totals, and no other file is anywhere in the system.       *)
Conservation ==
  /\ HandedOut = collected \cup {f \in Files : \E r \in Ranks : Outstanding(r, f)}
  /\ \A f \in collected, r \in Ranks : ~Outstanding(r, f)
  /\ \A f \in Files, r, s \in Ranks :
       Outstanding(r, f) /\ Outstanding(s, f) => r = s

(* A slave has one file at a time, so that the next one can still go to    *)
(* whichever slave becomes free first.                                     *)
OneAtATime ==
  \A r \in Ranks : Len(toSlave[r]) + Cardinality(work[r]) + Len(toMaster[r]) <= 1

(* While files are left, the master's request-reply loop leaves no slave   *)
(* without work except the one it is about to answer.                      *)
NoIdleSlave ==
  mpc \in {"receive", "dispatch"} =>
    \A r \in Ranks : \/ mpc = "dispatch" /\ r = sender
                     \/ \E f \in Files : Outstanding(r, f)

(* The master reaches the exit loop only with every result of the list     *)
(* in: a DIETAG never overtakes work, and no result is left in the network *)
(* for a later MPI_Recv of the same communicator to find.                  *)
ExitOnlyWhenAllCollected ==
  mpc \in {"die", "done"} =>
    /\ collected = ListedFiles
    /\ \A r \in Ranks : toMaster[r] = <<>> /\ work[r] = {}

(* The reported total is the sum of the results of the files on the list.  *)
TotalIsExact ==
  mpc \in {"die", "done"} => Total = SumFunctionOnSet(Result, ListedFiles)

(* Comment before the drain loop: "Receive results for outstanding work    *)
(* requests."  When the master waits there, some work is outstanding.      *)
DrainAwaitsOutstandingWork ==
  mpc = "drain" /\ rank < nProcs =>
    \E r \in Ranks, f \in Files : Outstanding(r, f)

(* The drain loop makes nProcs-1 receives however many files there are: it *)
(* is left only when the list has a file for every slave.                  *)
EnoughFiles == Len(files) >= nProcs - 1
ReturnsOnlyWithEnoughFiles == mpc \in {"die", "done"} => EnoughFiles

(* Such a list is worked off: the master returns its total and every slave *)
(* exits.                                                                  *)
Termination == EnoughFiles ~> AllDone

-----------------------------------------------------------------------------
(* The protocol implements the pool: a file is held by a slave from the    *)
(* master's MPI_Send of it to the MPI_Recv of its result.                  *)
Pool == INSTANCE WorkPool WITH
  Workers  <- Ranks,
  todo     <- ListedFiles \ HandedOut,
  held     <- [r \in Ranks |-> {f \in Files : Outstanding(r, f)}],
  finished <- collected,
  closed   <- mpc \in {"die", "done"}

(* Every step of the master and the slaves is a step of the pool or leaves *)
(* it alone, and the pool's fairness holds.                                *)
ImplementsPool == Pool!PoolSpec
=============================================================================
