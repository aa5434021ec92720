--------------------------- MODULE LoadBalancerProofs ---------------------------
(***************************************************************************)
(* Proofs about LoadBalancer, for any number of processes, files and       *)
(* loads: the two master/slave phases do not see each other's messages,    *)
(* the schedule is made from the loads of all files, and what is refined   *)
(* is the first file of each load.                                         *)
(*                                                                         *)
(* The proofs of MasterWorkerProofs are used for each phase: seen through  *)
(* the part of the channels that belongs to it, each phase of LoadBalancer *)
(* is a run of MasterWorker.                                               *)
(***************************************************************************)
EXTENDS LoadBalancer, DataTheorems

(* While the master is in the load calculation all messages belong to it.  *)
(* Later the result of a slave belongs to the refinement, and on the way   *)
(* to a slave only the first message can still be of the load calculation. *)
LoadPart(q)   == IF q # <<>> /\ Head(q).phase = "load" THEN <<Head(q)>> ELSE <<>>
RefinePart(q) == IF q # <<>> /\ Head(q).phase = "load" THEN Tail(q) ELSE q

Waiting    == rmpc = "wait"
NoMessages == [r \in 1 .. nProcs - 1 |-> <<>>]
CalcDown   == IF Waiting THEN toSlave ELSE [r \in 1 .. nProcs - 1 |-> LoadPart(toSlave[r])]
CalcUp     == IF Waiting THEN toMaster ELSE NoMessages
RefineDown == [r \in 1 .. nProcs - 1 |-> RefinePart(toSlave[r])]
RefineUp   == IF Waiting THEN NoMessages ELSE toMaster
RefineSpc  == [r \in 1 .. nProcs - 1 |-> IF rspc[r] = "wait" THEN "recv" ELSE rspc[r]]

CalcP == INSTANCE MasterWorkerProofs WITH
  WorkLists <- FileLists, Result <- LoadResult, Phase <- "load",
  mpc <- cmpc, files <- cfiles, fileIndex <- cfileIndex, rank <- crank,
  sender <- csender, totals <- ctotals, spc <- cspc, work <- cwork,
  collected <- ccollected, toSlave <- CalcDown, toMaster <- CalcUp

RefineP == INSTANCE MasterWorkerProofs WITH
  WorkLists <- RefineLists, Result <- RefineResult, Phase <- "refine",
  mpc <- rmpc, files <- rfiles, fileIndex <- rfileIndex, rank <- rrank,
  sender <- rsender, totals <- rtotals, spc <- RefineSpc, work <- rwork,
  collected <- rcollected, toSlave <- RefineDown, toMaster <- RefineUp

(* The loads of the files whose result the master has received.            *)
LoadMapInv ==
  /\ loadMap = [f \in DOMAIN loadMap |-> loadMap[f]]
  /\ DOMAIN loadMap = {f \in ccollected : f.load > 0}
  /\ \A f \in DOMAIN loadMap : loadMap[f] = f.load

(* The refinement has not begun at the master.                             *)
RefineAtStart ==
  /\ rfiles = <<>> /\ rfileIndex = 0 /\ rrank = 1 /\ rsender = 0
  /\ rtotals = [r \in Ranks |-> 0] /\ rcollected = {}
  /\ rwork = [r \in Ranks |-> {}]
  /\ \A r \in Ranks : rspc[r] \in {"wait", "recv"}

LinkInv ==
  /\ toSlave = [r \in Ranks |-> toSlave[r]]
  /\ \A r \in Ranks : \E M : toSlave[r] \in Seq(M)
  /\ rspc \in [Ranks -> {"wait", "recv", "busy", "exit"}]
  /\ \A r \in Ranks : rspc[r] # "wait" => cspc[r] = "exit"
  /\ Waiting => RefineAtStart
  /\ ~Waiting => cmpc = "done" /\ rfiles = FileNames(loadMap)

RefineInv == RefineP!IInv /\ RefineP!TotalInv
IInv == /\ CalcP!IInv /\ LoadMapInv /\ LinkInv
        /\ ~Waiting => RefineInv

-----------------------------------------------------------------------------
(* The constants of the two phases are those of MasterWorker.              *)

LEMMA CalcOK == CalcP!ConstantsOK
<1>1. nProcs \in Nat \ {0} /\ LoadResult \in [Files -> Nat]
  BY LoadBalancerConstants DEF LoadResult, Files
<1>2. ASSUME NEW l \in FileLists PROVE l \in Seq(Files) /\ CalcP!IsInjective(l)
  <2>1. PICK k \in [1 .. numFiles -> Loads] :
          l = [i \in 1 .. numFiles |-> [id |-> i - 1, load |-> k[i]]]
    BY DEF FileLists
  <2>. QED BY <2>1, LoadBalancerConstants DEF Files, CalcP!IsInjective
<1>. QED BY <1>1, <1>2 DEF CalcP!ConstantsOK

LEMMA RefineOK == RefineP!ConstantsOK
BY LoadBalancerConstants DEF RefineP!ConstantsOK, RefineLists, RefineP!IsInjective, IsInjective

(* FiniteSets is instantiated with the proofs.                             *)
LEMMA SameFinite == \A S : CalcP!IsFiniteSet(S) <=> IsFiniteSet(S)
BY DEF IsFiniteSet, CalcP!IsFiniteSet

LEMMA SameRanks == /\ Ranks = 1 .. nProcs - 1
                   /\ CalcP!Ranks = Ranks /\ RefineP!Ranks = Ranks
                   /\ Refine!Ranks = Ranks
BY DEF Ranks, Calc!Ranks, CalcP!Ranks, RefineP!Ranks, Refine!Ranks

-----------------------------------------------------------------------------
(* The two parts of a channel.                                             *)

LEMMA OneMessage ==
  ASSUME NEW m, NEW q, q = <<m>> PROVE q # <<>> /\ Head(q) = m /\ Tail(q) = <<>>
OBVIOUS

LEMMA EmptyParts == LoadPart(<<>>) = <<>> /\ RefinePart(<<>>) = <<>>
BY DEF LoadPart, RefinePart

LEMMA AppendParts ==
  ASSUME NEW M, NEW q \in Seq(M), NEW m, m.phase = "refine"
  PROVE  /\ LoadPart(Append(q, m)) = LoadPart(q)
         /\ RefinePart(Append(q, m)) = Append(RefinePart(q), m)
         /\ Append(q, m) \in Seq(M \cup {m})
<1>1. q \in Seq(M \cup {m}) /\ m \in M \cup {m}
  OBVIOUS
<1>2. CASE q = <<>>
  <2>1. Append(q, m) = <<m>> /\ Head(<<m>>) = m
    BY <1>2
  <2>. QED BY <1>1, <1>2, <2>1 DEF LoadPart, RefinePart
<1>3. CASE q # <<>>
  <2>1. /\ Append(q, m) # <<>> /\ Head(Append(q, m)) = Head(q)
        /\ Tail(Append(q, m)) = Append(Tail(q), m)
    BY <1>1, <1>3
  <2>. QED BY <1>1, <1>3, <2>1 DEF LoadPart, RefinePart
<1>. QED BY <1>2, <1>3

LEMMA TakeParts ==
  ASSUME NEW M, NEW q \in Seq(M), q # <<>>
  PROVE  /\ Tail(q) \in Seq(M)
         /\ Head(q).phase = "load" => LoadPart(q) = <<Head(q)>> /\ RefinePart(q) = Tail(q)
         /\ Head(q).phase # "load" => LoadPart(q) = <<>> /\ RefinePart(q) = q
BY DEF LoadPart, RefinePart

-----------------------------------------------------------------------------
(* What the two phases' invariants say of a slave.                         *)

(* When the load calculation is over at the master, a slave has exited it  *)
(* or has yet to take the DIETAG.                                          *)
DyingOrOut(r) ==
  /\ cwork[r] = {} /\ CalcUp[r] = <<>>
  /\ \/ cspc[r] = "recv" /\ CalcDown[r] = <<Calc!DieMsg>>
     \/ cspc[r] = "exit" /\ CalcDown[r] = <<>>

LEMMA SameMessages ==
  /\ CalcP!DieMsg = Calc!DieMsg /\ RefineP!DieMsg = Refine!DieMsg
  /\ \A f : /\ CalcP!WorkMsg(f) = Calc!WorkMsg(f) /\ RefineP!WorkMsg(f) = Refine!WorkMsg(f)
            /\ CalcP!ResultMsg(f) = Calc!ResultMsg(f)
            /\ RefineP!ResultMsg(f) = Refine!ResultMsg(f)
            /\ Calc!WorkMsg(f).phase = "load" /\ Refine!WorkMsg(f).phase = "refine"
            /\ Calc!WorkMsg(f).tag # Calc!DIETAG
            /\ Refine!ResultMsg(f).phase = "refine"
  /\ Calc!DieMsg.phase = "load" /\ Refine!DieMsg.phase = "refine"
  /\ Calc!DieMsg.tag # Calc!WORKTAG
BY DEF CalcP!DieMsg, Calc!DieMsg, RefineP!DieMsg, Refine!DieMsg, CalcP!WorkMsg,
   Calc!WorkMsg, RefineP!WorkMsg, Refine!WorkMsg, CalcP!ResultMsg, Calc!ResultMsg,
   RefineP!ResultMsg, Refine!ResultMsg, CalcP!DIETAG, Calc!DIETAG, RefineP!DIETAG,
   Refine!DIETAG, CalcP!WORKTAG, Calc!WORKTAG, RefineP!WORKTAG, Refine!WORKTAG

LEMMA CalcOver ==
  ASSUME CalcP!IInv, cmpc = "done", NEW r \in Ranks
  PROVE  DyingOrOut(r)
<1>1. CalcP!Dying(r) \/ CalcP!Exited(r)
  BY SameRanks DEF CalcP!IInv, CalcP!ExitInv
<1>. QED
  BY <1>1, SameMessages DEF CalcP!Dying, CalcP!Exited, CalcP!At, DyingOrOut

(* A slave that has left the load calculation has nothing of it any more.  *)
LEMMA CalcExited ==
  ASSUME CalcP!IInv, NEW r \in Ranks, cspc[r] = "exit"
  PROVE  CalcDown[r] = <<>> /\ cwork[r] = {}
BY SameRanks
   DEF CalcP!IInv, CalcP!ShapeInv, CalcP!HasFile, CalcP!Has, CalcP!Sent, CalcP!Busy,
       CalcP!Replied, CalcP!Idle, CalcP!Dying, CalcP!Exited, CalcP!At

(* The refinement has at most one message on its way to a slave.           *)
LEMMA RefineShape ==
  ASSUME RefineP!IInv, NEW r \in Ranks
  PROVE  \/ RefineDown[r] = <<>>
         \/ \E m : m.phase = "refine" /\ RefineDown[r] = <<m>>
<1>1. RefineDown[r] = <<>> \/ (\E f \in Files : RefineDown[r] = <<Refine!WorkMsg(f)>>)
        \/ RefineDown[r] = <<Refine!DieMsg>>
  BY SameRanks, SameMessages
     DEF RefineP!IInv, RefineP!ShapeInv, RefineP!HasFile, RefineP!Has, RefineP!Sent,
         RefineP!Busy, RefineP!Replied, RefineP!Idle, RefineP!Dying, RefineP!Exited,
         RefineP!At
<1>. QED BY <1>1, SameMessages

-----------------------------------------------------------------------------
(* The steps of the load calculation while the master is in it.            *)

LEMMA SeenWaiting == ASSUME Waiting PROVE CalcDown = toSlave /\ CalcUp = toMaster
BY DEF CalcDown, CalcUp

LEMMA SeenWaitingNext ==
  ASSUME Waiting' PROVE CalcDown' = toSlave' /\ CalcUp' = toMaster'
BY DEF CalcDown, CalcUp

LEMMA CalcMasterSame ==
  ASSUME Waiting, Waiting'
  PROVE  /\ \A r : Calc!MasterReceives(r) => CalcP!MasterReceives(r)
         /\ Calc!MasterProceeds => CalcP!MasterProceeds
<1>1. /\ CalcDown = toSlave /\ CalcUp = toMaster
      /\ CalcDown' = toSlave' /\ CalcUp' = toMaster'
  BY SeenWaiting, SeenWaitingNext
<1>2. /\ CalcP!MasterFree <=> Calc!MasterFree
      /\ CalcP!MoreFiles <=> Calc!MoreFiles
      /\ \A pc : CalcP!LoopStart(pc) <=> Calc!LoopStart(pc)
  BY <1>1 DEF CalcP!MasterFree, Calc!MasterFree, CalcP!MoreFiles, Calc!MoreFiles,
     CalcP!LoopStart, Calc!LoopStart, CalcP!Ranks, Calc!Ranks
<1>3. /\ \A r : CalcP!SendWork(r) <=> Calc!SendWork(r)
      /\ CalcP!SendToSlave(crank, CalcP!DieMsg) <=> Calc!SendToSlave(crank, Calc!DieMsg)
  BY <1>1, SameMessages
     DEF CalcP!SendWork, Calc!SendWork, CalcP!SendToSlave, Calc!SendToSlave
<1>4. \A r : CalcP!Collect(r) <=> Calc!Collect(r)
  BY <1>1 DEF CalcP!Collect, Calc!Collect
<1>5. \A r : Calc!MasterReceives(r) => CalcP!MasterReceives(r)
  BY <1>1, <1>2, <1>4
     DEF CalcP!MasterReceives, Calc!MasterReceives, CalcP!ReceiveResult,
         Calc!ReceiveResult, CalcP!DrainResult, Calc!DrainResult,
         CalcP!slaveVars, Calc!slaveVars
<1>6. Calc!MasterProceeds => CalcP!MasterProceeds
  BY <1>1, <1>2, <1>3
     DEF CalcP!MasterProceeds, Calc!MasterProceeds, CalcP!SeedSlave, Calc!SeedSlave,
         CalcP!SeedEnd, Calc!SeedEnd, CalcP!DispatchNext, Calc!DispatchNext,
         CalcP!DrainEnd, Calc!DrainEnd, CalcP!SendDie, Calc!SendDie,
         CalcP!Return, Calc!Return, CalcP!slaveVars, Calc!slaveVars
<1>. QED BY <1>5, <1>6

LEMMA CalcSlaveSame ==
  ASSUME Waiting, Waiting', NEW r, Calc!Slave(r)
  PROVE  CalcP!Slave(r)
<1>1. /\ CalcDown = toSlave /\ CalcUp = toMaster
      /\ CalcDown' = toSlave' /\ CalcUp' = toMaster'
  BY SeenWaiting, SeenWaitingNext
<1>2. \A tag : CalcP!TakeMessage(r, tag) <=> Calc!TakeMessage(r, tag)
  BY <1>1 DEF CalcP!TakeMessage, Calc!TakeMessage, CalcP!SlaveFree, Calc!SlaveFree
<1>3. \A f : CalcP!ResultMsg(f) = Calc!ResultMsg(f)
  BY SameMessages
<1>. QED
  BY <1>1, <1>2, <1>3
     DEF CalcP!Slave, Calc!Slave, CalcP!TakeWork, Calc!TakeWork, CalcP!Reply, Calc!Reply,
         CalcP!TakeDie, Calc!TakeDie, CalcP!masterVars, Calc!masterVars,
         CalcP!WORKTAG, Calc!WORKTAG, CalcP!DIETAG, Calc!DIETAG

LEMMA CalcNext ==
  ASSUME CalcP!IInv,
         \/ (\E r \in Ranks : CalcP!MasterReceives(r) \/ CalcP!Slave(r))
         \/ CalcP!MasterProceeds
         \/ UNCHANGED <<calcMaster, cspc, cwork, CalcDown, CalcUp>>,
         UNCHANGED eager
  PROVE  CalcP!IInv'
<1>1. [CalcP!Next]_(CalcP!vars)
  BY SameRanks DEF CalcP!Next, CalcP!Master, CalcP!vars, CalcP!masterVars,
     CalcP!slaveVars, calcMaster
<1>. QED BY <1>1, CalcOK, CalcP!NextInv DEF CalcP!NextInv

(* Before the refinement the channels to the slaves are those of the load  *)
(* calculation, and nothing of LinkInv depends on the master's progress.   *)
LEMMA LinkWaiting ==
  ASSUME LinkInv, Waiting', CalcP!IInv', UNCHANGED refineVars,
         \A r \in Ranks : cspc[r] = "exit" => cspc'[r] = "exit"
  PROVE  LinkInv'
<1>1. CalcDown' \in [Ranks -> Seq(CalcP!Message)]
  BY SameRanks DEF CalcP!IInv, CalcP!TypeOK
<1>2. toSlave' \in [Ranks -> Seq(CalcP!Message)]
  BY <1>1, SeenWaitingNext
<1>3. Waiting /\ RefineAtStart'
  BY DEF Waiting, LinkInv, RefineAtStart, refineVars, refineMaster
<1>4. rspc' = rspc
  BY DEF refineVars
<1>. QED BY <1>2, <1>3, <1>4 DEF LinkInv

LEMMA InsertStep ==
  ASSUME CalcP!IInv, LoadMapInv, Waiting, Waiting', NEW r \in Ranks,
         CalcP!MasterReceives(r), loadMap' = InsertLoad(loadMap, Head(toMaster[r]))
  PROVE  LoadMapInv'
<1>1. CalcP!Collect(r) /\ UNCHANGED <<CalcP!slaveVars, CalcDown>>
  BY DEF CalcP!MasterReceives, CalcP!ReceiveResult, CalcP!DrainResult
<1>2. PICK f \in Files : CalcP!Replied(r, f) /\ ccollected' = ccollected \cup {f}
  BY <1>1, SameRanks, CalcOK, CalcP!CollectEffect DEF CalcP!CollectEffect, CalcP!IInv
<1>3. f \notin ccollected
  BY <1>2, SameRanks DEF CalcP!IInv, CalcP!ConserveInv, CalcP!Has
<1>4. toMaster[r] = <<Calc!ResultMsg(f)>>
  BY <1>2, SeenWaiting, SameMessages DEF CalcP!Replied, CalcP!At
<1>5. /\ Head(toMaster[r]).file = f /\ Head(toMaster[r]).pairs = f.load
      /\ f.load \in Nat
  <2>1. Head(toMaster[r]) = Calc!ResultMsg(f)
    BY <1>4
  <2>2. LoadResult[f] = f.load
    BY DEF LoadResult
  <2>3. f.load \in Loads
    BY DEF Files
  <2>4. f.load \in Nat
    BY <2>3, LoadBalancerConstants
  <2>5. Calc!ResultMsg(f).file = f /\ Calc!ResultMsg(f).pairs = LoadResult[f]
    BY DEF Calc!ResultMsg
  <2>. QED BY <2>1, <2>2, <2>4, <2>5
<1>6. f \notin DOMAIN loadMap
  BY <1>3 DEF LoadMapInv
<1>7. CASE f.load > 0
  <2>1. loadMap' = [g \in DOMAIN loadMap \cup {f} |-> IF g = f THEN f.load ELSE loadMap[g]]
    BY <1>5, <1>6, <1>7 DEF InsertLoad
  <2>2. DOMAIN loadMap \cup {f} = {g \in ccollected' : g.load > 0}
    BY <1>2, <1>7 DEF LoadMapInv
  <2>. QED BY <2>1, <2>2 DEF LoadMapInv
<1>8. CASE ~(f.load > 0)
  <2>1. loadMap' = loadMap
    BY <1>5, <1>8 DEF InsertLoad
  <2>. QED BY <1>2, <1>8, <2>1 DEF LoadMapInv
<1>. QED BY <1>7, <1>8

LEMMA CalcMasterStep == ASSUME IInv, CalcMaster PROVE IInv'
<1>1. cmpc # "done"
  BY DEF CalcMaster, Calc!MasterReceives, Calc!MasterProceeds, Calc!ReceiveResult,
     Calc!DrainResult, Calc!SeedSlave, Calc!SeedEnd, Calc!DispatchNext,
     Calc!DrainEnd, Calc!SendDie, Calc!Return
<1>2. Waiting /\ Waiting' /\ UNCHANGED <<eager, refineVars>>
  BY <1>1 DEF IInv, LinkInv, Waiting, CalcMaster, refineVars, refineMaster
<1>3. \/ \E r \in Ranks : /\ CalcP!MasterReceives(r)
                          /\ loadMap' = InsertLoad(loadMap, Head(toMaster[r]))
      \/ CalcP!MasterProceeds /\ UNCHANGED loadMap
  BY <1>2, CalcMasterSame DEF CalcMaster
<1>4. CalcP!IInv'
  BY <1>2, <1>3, CalcNext DEF IInv
<1>5. LoadMapInv'
  <2>1. CASE CalcP!MasterProceeds /\ UNCHANGED loadMap
    <3>1. UNCHANGED ccollected
      BY <2>1 DEF CalcP!MasterProceeds, CalcP!SeedSlave, CalcP!SeedEnd,
         CalcP!DispatchNext, CalcP!DrainEnd, CalcP!SendDie, CalcP!Return
    <3>. QED BY <2>1, <3>1 DEF IInv, LoadMapInv
  <2>. QED BY <1>2, <1>3, <2>1, InsertStep DEF IInv
<1>6. cspc' = cspc
  BY <1>3 DEF CalcP!MasterReceives, CalcP!ReceiveResult, CalcP!DrainResult,
     CalcP!MasterProceeds, CalcP!SeedSlave, CalcP!SeedEnd, CalcP!DispatchNext,
     CalcP!DrainEnd, CalcP!SendDie, CalcP!Return, CalcP!slaveVars
<1>7. LinkInv'
  BY <1>2, <1>4, <1>6, LinkWaiting DEF IInv
<1>. QED BY <1>2, <1>4, <1>5, <1>7 DEF IInv

-----------------------------------------------------------------------------
(* The other steps of the load calculation's slaves: the master has left   *)
(* the calculation, and may already have sent refinement work.             *)

(* Nothing of the refinement changes at its master and on its channels.    *)
LEMMA RefineUnseen ==
  ASSUME RefineInv, UNCHANGED <<eager, refineMaster, rwork, RefineSpc, RefineDown, RefineUp>>
  PROVE  RefineInv'
<1>1. [RefineP!Next]_(RefineP!vars)
  BY DEF RefineP!vars, RefineP!masterVars, RefineP!slaveVars, refineMaster
<1>. QED
  BY <1>1, RefineOK, RefineP!NextInv, RefineP!TotalNext
     DEF RefineP!NextInv, RefineP!TotalNext, RefineInv

(* The only thing left to do is to take the DIETAG.                        *)
LEMMA LateTakeDie ==
  ASSUME IInv, ~Waiting, NEW r \in Ranks, Calc!Slave(r)
  PROVE  /\ toSlave[r] # <<>> /\ Head(toSlave[r]) = Calc!DieMsg
         /\ CalcUp[r] = <<>> /\ CalcDown[r] = <<Calc!DieMsg>>
         /\ Calc!TakeDie(r)
<1>1. DyingOrOut(r)
  BY CalcOver DEF IInv, LinkInv
<1>2. cspc[r] # "exit" /\ ~Calc!Reply(r)
  BY <1>1 DEF DyingOrOut, Calc!Slave, Calc!TakeWork, Calc!TakeDie, Calc!TakeMessage, Calc!Reply
<1>3. CalcUp[r] = <<>> /\ CalcDown[r] = <<Calc!DieMsg>>
  BY <1>1, <1>2 DEF DyingOrOut
<1>4. LoadPart(toSlave[r]) = <<Calc!DieMsg>>
  BY <1>3, SameRanks DEF CalcDown
<1>5. toSlave[r] # <<>> /\ <<Head(toSlave[r])>> = <<Calc!DieMsg>>
  <2>1. <<Calc!DieMsg>> # <<>>
    OBVIOUS
  <2>. QED BY <1>4, <2>1 DEF LoadPart
<1>6. Head(toSlave[r]) = Calc!DieMsg
  BY <1>5
<1>7. ~Calc!TakeWork(r)
  BY <1>6, SameMessages DEF Calc!TakeWork, Calc!TakeMessage
<1>. QED BY <1>2, <1>3, <1>5, <1>6, <1>7 DEF Calc!Slave

LEMMA LateSlaveStep ==
  ASSUME IInv, ~Waiting, NEW r \in Ranks, CalcSlave(r)
  PROVE  IInv'
<1>1. /\ toSlave[r] # <<>> /\ Head(toSlave[r]) = Calc!DieMsg
      /\ CalcUp[r] = <<>> /\ CalcDown[r] = <<Calc!DieMsg>>
      /\ Calc!TakeDie(r)
  BY LateTakeDie DEF CalcSlave
<1>2. /\ toSlave' = [toSlave EXCEPT ![r] = Tail(@)] /\ cspc[r] = "recv"
      /\ cspc' = [cspc EXCEPT ![r] = "exit"]
      /\ UNCHANGED <<calcMaster, cwork, toMaster, eager, loadMap, refineVars>>
  BY <1>1 DEF Calc!TakeDie, Calc!TakeMessage, CalcSlave, Calc!Slave, Calc!masterVars, calcMaster
<1>3. UNCHANGED <<rmpc, rspc, rwork, refineMaster>>
  BY <1>2 DEF refineVars, refineMaster
<1>4. PICK M : toSlave[r] \in Seq(M)
  BY DEF IInv, LinkInv
<1>5. /\ Tail(toSlave[r]) \in Seq(M) /\ RefinePart(toSlave[r]) = Tail(toSlave[r])
  BY <1>1, <1>4, TakeParts, SameMessages
<1>6. RefineDown[r] = Tail(toSlave[r])
  BY <1>5, SameRanks DEF RefineDown
<1>7. RefinePart(Tail(toSlave[r])) = Tail(toSlave[r]) /\ LoadPart(Tail(toSlave[r])) = <<>>
  <2>1. CASE Tail(toSlave[r]) = <<>>
    BY <2>1, EmptyParts
  <2>2. ASSUME NEW m, m.phase = "refine", Tail(toSlave[r]) = <<m>>
        PROVE  RefinePart(Tail(toSlave[r])) = Tail(toSlave[r]) /\ LoadPart(Tail(toSlave[r])) = <<>>
    <3>1. Tail(toSlave[r]) # <<>> /\ Head(Tail(toSlave[r])) = m
      BY <2>2, OneMessage
    <3>. QED BY <1>5, <2>2, <3>1, TakeParts
  <2>. QED BY <1>6, <2>1, <2>2, RefineShape DEF IInv, RefineInv
<1>8. /\ toSlave'[r] = Tail(toSlave[r])
      /\ \A q \in Ranks \ {r} : toSlave'[q] = toSlave[q]
      /\ toSlave' = [q \in Ranks |-> toSlave'[q]]
  BY <1>2 DEF IInv, LinkInv
<1>9. Waiting' = Waiting
  BY <1>3 DEF Waiting
<1>10. RefineDown' = RefineDown
  BY <1>5, <1>7, <1>8, SameRanks DEF RefineDown
<1>11. CalcDown' = [CalcDown EXCEPT ![r] = Tail(@)]
  <2>1. Tail(<<Calc!DieMsg>>) = <<>>
    OBVIOUS
  <2>. QED BY <1>1, <1>7, <1>8, <1>9, <2>1, SameRanks DEF CalcDown
<1>12. CalcUp' = CalcUp /\ RefineUp' = RefineUp /\ RefineSpc' = RefineSpc
  BY <1>2, <1>3, <1>9 DEF CalcUp, RefineUp, RefineSpc, NoMessages
<1>13. CalcP!Slave(r)
  <2>1. /\ CalcDown[r] # <<>> /\ Head(CalcDown[r]) = Calc!DieMsg
    BY <1>1
  <2>2. Calc!DieMsg.tag = CalcP!DIETAG
    BY DEF Calc!DieMsg, Calc!DIETAG, CalcP!DIETAG
  <2>3. CalcP!TakeMessage(r, CalcP!DIETAG)
    BY <1>1, <1>2, <1>11, <2>1, <2>2 DEF CalcP!TakeMessage, CalcP!SlaveFree
  <2>. QED
    BY <1>2, <1>12, <2>3 DEF CalcP!Slave, CalcP!TakeDie, CalcP!masterVars, calcMaster
<1>14. CalcP!IInv'
  BY <1>2, <1>13, CalcNext DEF IInv
<1>15. RefineInv'
  BY <1>2, <1>3, <1>10, <1>12, RefineUnseen DEF IInv
<1>16. LinkInv'
  <2>1. \A q \in Ranks : \E N : toSlave'[q] \in Seq(N)
    BY <1>5, <1>8 DEF IInv, LinkInv
  <2>2. \A q \in Ranks : rspc'[q] # "wait" => cspc'[q] = "exit"
    BY <1>2, <1>3, CalcOK DEF IInv, LinkInv, CalcP!IInv, CalcP!TypeOK
  <2>3. cmpc' = "done" /\ rfiles' = FileNames(loadMap)'
    BY <1>2, <1>3 DEF IInv, LinkInv, calcMaster, refineMaster, FileNames,
       FirstOfItsLoad, Descending
  <2>. QED BY <1>3, <1>8, <1>9, <2>1, <2>2, <2>3 DEF IInv, LinkInv
<1>17. LoadMapInv'
  BY <1>2 DEF IInv, LoadMapInv, calcMaster
<1>. QED BY <1>9, <1>14, <1>15, <1>16, <1>17 DEF IInv

LEMMA CalcSlaveStep ==
  ASSUME IInv, NEW r \in Ranks, CalcSlave(r) PROVE IInv'
<1>1. CASE ~Waiting
  BY <1>1, LateSlaveStep
<1>2. CASE Waiting
  <2>1. /\ Waiting' /\ Calc!Slave(r)
        /\ UNCHANGED <<eager, loadMap, calcMaster, refineVars>>
    BY <1>2 DEF CalcSlave, Waiting, refineVars, refineMaster, Calc!Slave, Calc!TakeWork,
       Calc!Reply, Calc!TakeDie, Calc!masterVars, calcMaster
  <2>2. CalcP!Slave(r)
    BY <1>2, <2>1, CalcSlaveSame
  <2>3. CalcP!IInv'
    BY <2>1, <2>2, CalcNext DEF IInv
  <2>4. \A q \in Ranks : cspc[q] = "exit" => cspc'[q] = "exit"
    <3>1. cspc \in [Ranks -> {"recv", "busy", "exit"}]
      BY SameRanks DEF IInv, CalcP!IInv, CalcP!TypeOK
    <3>. QED BY <2>1, <3>1 DEF Calc!Slave, Calc!TakeWork, Calc!Reply, Calc!TakeDie, Calc!TakeMessage
  <2>5. LinkInv'
    BY <2>1, <2>3, <2>4, LinkWaiting DEF IInv
  <2>6. LoadMapInv'
    BY <2>1 DEF IInv, LoadMapInv, calcMaster
  <2>. QED BY <2>1, <2>3, <2>5, <2>6 DEF IInv
<1>. QED BY <1>1, <1>2

-----------------------------------------------------------------------------
(* The work list of the refinement: the greatest load first.               *)

(* How many files of S have at least the load of f.                        *)
Place(lm, S, f) == Cardinality({g \in S : lm[g] >= lm[f]})

LEMMA PlaceIn ==
  ASSUME NEW lm, NEW S, IsFiniteSet(S), \A f \in S : lm[f] \in Nat, NEW f \in S
  PROVE  Place(lm, S, f) \in 1 .. Cardinality(S)
<1>. DEFINE A == {g \in S : lm[g] >= lm[f]}
<1>1. A \subseteq S /\ f \in A
  OBVIOUS
<1>. HIDE DEF A
<1>2. /\ IsFiniteSet(A) /\ Cardinality(A) <= Cardinality(S)
      /\ Cardinality(A) \in Nat /\ Cardinality(S) \in Nat
  BY <1>1, FS_Subset, FS_CardinalityType
<1>3. Cardinality(A) # 0
  BY <1>1, <1>2, FS_EmptySet
<1>4. Cardinality(A) \in 1 .. Cardinality(S)
  BY <1>2, <1>3
<1>. QED BY <1>4 DEF Place, A

LEMMA PlaceOrder ==
  ASSUME NEW lm, NEW S, IsFiniteSet(S), \A f \in S : lm[f] \in Nat,
         NEW f \in S, NEW g \in S, lm[f] < lm[g]
  PROVE  Place(lm, S, g) < Place(lm, S, f)
<1>. DEFINE A == {h \in S : lm[h] >= lm[f]}
            B == {h \in S : lm[h] >= lm[g]}
<1>1. B \subseteq A \ {f} /\ f \in A /\ A \subseteq S
  OBVIOUS
<1>. HIDE DEF A, B
<1>2. IsFiniteSet(A) /\ IsFiniteSet(A \ {f})
  BY <1>1, FS_Subset, FS_RemoveElement
<1>3. Cardinality(A \ {f}) = Cardinality(A) - 1
  BY <1>1, <1>2, FS_RemoveElement
<1>4. Cardinality(B) <= Cardinality(A \ {f})
  BY <1>1, <1>2, FS_Subset
<1>5. IsFiniteSet(B) /\ Cardinality(A) \in Nat /\ Cardinality(B) \in Nat
  BY <1>1, <1>2, FS_Subset, FS_CardinalityType
<1>6. Cardinality(B) < Cardinality(A)
  BY <1>3, <1>4, <1>5
<1>. QED BY <1>6 DEF Place, A, B

(* Files with different loads can be put in descending order.              *)
LEMMA SortedExists ==
  ASSUME NEW lm, NEW S, IsFiniteSet(S), \A f \in S : lm[f] \in Nat,
         \A f, g \in S : lm[f] = lm[g] => f = g
  PROVE  \E l \in [1 .. Cardinality(S) -> S] : Descending(lm, l)
<1>. DEFINE n == Cardinality(S)
            place == [f \in S |-> Place(lm, S, f)]
            l == [i \in 1 .. n |-> CHOOSE f \in S : place[f] = i]
<1>1. n \in Nat
  BY FS_CardinalityType
<1>2. place \in [S -> 1 .. n]
  BY PlaceIn
<1>3. \A f, g \in S : lm[f] < lm[g] => place[g] < place[f]
  BY PlaceOrder
<1>4. \A f \in S : place[f] \in Nat
  BY <1>1, <1>2
<1>. HIDE DEF place
<1>5. \A f, g \in S : place[f] = place[g] => f = g
  <2>. SUFFICES ASSUME NEW f \in S, NEW g \in S, f # g PROVE place[f] # place[g]
    OBVIOUS
  <2>1. lm[f] < lm[g] \/ lm[g] < lm[f]
    OBVIOUS
  <2>. QED BY <1>3, <1>4, <2>1
<1>6. IsFiniteSet(1 .. n) /\ Cardinality(1 .. n) = n
  <2>1. 1 \in Int /\ n \in Int /\ (1 > n => n = 0) /\ n - 1 + 1 = n
    BY <1>1
  <2>. HIDE DEF n
  <2>. QED BY <2>1, FS_Interval
<1>7. place \in Surjection(S, 1 .. n)
  <2>1. place \in Injection(S, 1 .. n)
    BY <1>2, <1>5 DEF Injection, IsInjective
  <2>. QED BY <1>6, <2>1, FS_Injection
<1>8. \A i \in 1 .. n : l[i] \in S /\ place[l[i]] = i
  BY <1>7 DEF Surjection
<1>9. l \in [1 .. n -> S]
  BY <1>8
<1>10. Descending(lm, l)
  <2>. SUFFICES ASSUME NEW i \in 1 .. n, NEW j \in 1 .. n, i < j
                PROVE  lm[l[i]] > lm[l[j]]
    BY DEF Descending
  <2>1. place[l[i]] < place[l[j]] /\ l[i] # l[j]
    BY <1>8
  <2>2. ~(lm[l[i]] < lm[l[j]]) /\ lm[l[i]] # lm[l[j]]
    BY <1>1, <1>3, <1>4, <1>8, <2>1
  <2>. HIDE DEF l
  <2>. QED BY <1>8, <2>2
<1>. QED BY <1>9, <1>10

LEMMA FileNamesSorted ==
  ASSUME NEW lm, IsFiniteSet(DOMAIN lm), DOMAIN lm \subseteq Files,
         \A f \in DOMAIN lm : lm[f] = f.load
  PROVE  /\ FileNames(lm) \in RefineLists
         /\ {FileNames(lm)[i] : i \in 1 .. Len(FileNames(lm))} = FirstOfItsLoad(lm)
<1>. DEFINE S == FirstOfItsLoad(lm)
            n == Cardinality(S)
            l == FileNames(lm)
<1>1. S \subseteq DOMAIN lm /\ IsFiniteSet(S) /\ n \in Nat
  <2>1. S \subseteq DOMAIN lm
    BY DEF FirstOfItsLoad
  <2>. HIDE DEF S
  <2>. QED BY <2>1, FS_Subset, FS_CardinalityType
<1>2. \A f \in S : f \in Files /\ lm[f] = f.load /\ lm[f] \in Nat
  BY <1>1, LoadBalancerConstants DEF Files
<1>3. \A f, g \in S : lm[f] = lm[g] => f = g
  <2>. SUFFICES ASSUME NEW f \in S, NEW g \in S, lm[f] = lm[g] PROVE f = g
    OBVIOUS
  <2>1. f.id <= g.id /\ g.id <= f.id
    BY <1>1 DEF FirstOfItsLoad
  <2>2. f.load = g.load /\ f \in Files /\ g \in Files
    BY <1>2
  <2>3. f.id \in Int /\ g.id \in Int
    BY <2>2 DEF Files
  <2>4. f.id = g.id
    BY <2>1, <2>3
  <2>. QED BY <2>2, <2>4 DEF Files
<1>4. l \in [1 .. n -> S] /\ Descending(lm, l)
  <2>1. \E k \in [1 .. n -> S] : Descending(lm, k)
    <3>. HIDE DEF S
    <3>. QED BY <1>1, <1>2, <1>3, SortedExists
  <2>. QED BY <2>1 DEF FileNames
<1>. HIDE DEF l, S
<1>5. \A i, j \in 1 .. n : l[i] = l[j] => i = j
  <2>. SUFFICES ASSUME NEW i \in 1 .. n, NEW j \in 1 .. n, i < j, l[i] = l[j] PROVE FALSE
    BY <1>1
  <2>1. lm[l[i]] > lm[l[j]] /\ lm[l[i]] \in Nat
    BY <1>2, <1>4 DEF Descending
  <2>. QED BY <2>1
<1>6. l \in Seq(Files) /\ Len(l) = n
  BY <1>1, <1>2, <1>4
<1>7. l \in RefineLists
  BY <1>4, <1>5, <1>6 DEF RefineLists, IsInjective
<1>8. IsFiniteSet(1 .. n) /\ Cardinality(1 .. n) = n
  <2>1. 1 \in Int /\ n \in Int /\ (1 > n => n = 0) /\ n - 1 + 1 = n
    BY <1>1
  <2>. HIDE DEF n
  <2>. QED BY <2>1, FS_Interval
<1>9. l \in Surjection(1 .. n, S)
  <2>1. l \in Injection(1 .. n, S)
    BY <1>4, <1>5 DEF Injection, IsInjective
  <2>. QED BY <1>1, <1>8, <2>1, FS_Injection
<1>10. {l[i] : i \in 1 .. n} = S
  BY <1>9 DEF Surjection
<1>. QED BY <1>6, <1>7, <1>10 DEF l, S

-----------------------------------------------------------------------------
(* The refinement starts with every slave waiting for its work.            *)

LEMMA RefineInitInv == RefineP!Init => RefineInv
BY RefineOK, RefineP!InitInv, RefineP!TotalInit
   DEF RefineP!InitInv, RefineP!TotalInit, RefineInv

LEMMA RefineInitInvNext == RefineP!Init' => RefineInv'
BY RefineInitInv, PTL

LEMMA StartSchedulerStep == ASSUME IInv, StartScheduler PROVE IInv'
<1>1. /\ cmpc = "done" /\ Waiting /\ ~Waiting' /\ rmpc' = "seed"
      /\ rfiles' = FileNames(loadMap)
      /\ UNCHANGED <<toSlave, toMaster, eager, calcMaster, cspc, cwork, loadMap,
                     rfileIndex, rrank, rsender, rtotals, rcollected, rspc, rwork>>
  BY DEF StartScheduler, Waiting, calcVars
<1>2. CalcDown = toSlave /\ CalcUp = toMaster
  BY <1>1, SeenWaiting
<1>3. \A r \in Ranks : DyingOrOut(r)
  BY <1>1, CalcOver DEF IInv
<1>4. ASSUME NEW r \in Ranks
      PROVE  LoadPart(toSlave[r]) = toSlave[r] /\ RefinePart(toSlave[r]) = <<>>
  <2>1. toSlave[r] = <<>> \/ toSlave[r] = <<Calc!DieMsg>>
    BY <1>2, <1>3 DEF DyingOrOut
  <2>2. CASE toSlave[r] = <<Calc!DieMsg>>
    <3>1. toSlave[r] # <<>> /\ Head(toSlave[r]) = Calc!DieMsg /\ Tail(toSlave[r]) = <<>>
      BY <2>2, OneMessage
    <3>. QED BY <2>2, <3>1, SameMessages DEF LoadPart, RefinePart
  <2>. QED BY <2>1, <2>2, EmptyParts
<1>5. toMaster = NoMessages
  <2>1. \A r \in Ranks : toMaster[r] = <<>>
    BY <1>2, <1>3 DEF DyingOrOut
  <2>2. toMaster \in [Ranks -> Seq(CalcP!ResultMessage)]
    BY <1>2, SameRanks DEF IInv, CalcP!IInv, CalcP!TypeOK
  <2>. QED BY <2>1, <2>2, SameRanks DEF NoMessages
<1>6. CalcDown' = CalcDown /\ CalcUp' = CalcUp
  <2>1. toSlave = [r \in Ranks |-> toSlave[r]]
    BY DEF IInv, LinkInv
  <2>2. CalcDown' = [r \in Ranks |-> LoadPart(toSlave[r])]
    BY <1>1, SameRanks DEF CalcDown
  <2>3. CalcUp' = NoMessages
    BY <1>1 DEF CalcUp, NoMessages
  <2>. QED BY <1>2, <1>4, <1>5, <2>1, <2>2, <2>3
<1>7. CalcP!IInv'
  BY <1>1, <1>6, CalcNext DEF IInv
<1>8. RefineAtStart
  BY <1>1 DEF IInv, LinkInv
<1>9. rfiles' \in RefineLists
  <2>1. DOMAIN loadMap \subseteq ccollected
    BY DEF IInv, LoadMapInv
  <2>2. IsFiniteSet(ccollected) /\ ccollected \subseteq Files
    BY SameFinite DEF IInv, CalcP!IInv, CalcP!LoopInv, CalcP!TypeOK
  <2>3. IsFiniteSet(DOMAIN loadMap) /\ DOMAIN loadMap \subseteq Files
    BY <2>1, <2>2, FS_Subset
  <2>4. \A f \in DOMAIN loadMap : loadMap[f] = f.load
    BY DEF IInv, LoadMapInv
  <2>5. FileNames(loadMap) \in RefineLists
    BY <2>3, <2>4, FileNamesSorted
  <2>. QED BY <1>1, <2>5
<1>10. RefineP!Init'
  <2>1. RefineSpc' = [r \in Ranks |-> "recv"]
    BY <1>1, <1>8, SameRanks DEF RefineSpc, RefineAtStart
  <2>2. RefineDown' = [r \in Ranks |-> <<>>]
    BY <1>1, <1>4, SameRanks DEF RefineDown
  <2>3. RefineUp' = [r \in Ranks |-> <<>>]
    BY <1>1, <1>5, SameRanks DEF RefineUp, NoMessages
  <2>4. eager' \in BOOLEAN
    BY <1>1 DEF IInv, CalcP!IInv, CalcP!TypeOK
  <2>5. /\ rfileIndex' = 0 /\ rrank' = 1 /\ rsender' = 0 /\ rcollected' = {}
        /\ rtotals' = [r \in Ranks |-> 0] /\ rwork' = [r \in Ranks |-> {}]
    BY <1>1, <1>8 DEF RefineAtStart
  <2>. QED BY <1>1, <1>9, <2>1, <2>2, <2>3, <2>4, <2>5, SameRanks DEF RefineP!Init, RefineP!Ranks
<1>11. RefineInv'
  BY <1>10, RefineInitInvNext
<1>12. LinkInv'
  BY <1>1 DEF IInv, LinkInv, calcMaster, FileNames, FirstOfItsLoad, Descending
<1>13. LoadMapInv'
  BY <1>1 DEF IInv, LoadMapInv, calcMaster
<1>. QED BY <1>1, <1>7, <1>11, <1>12, <1>13 DEF IInv

-----------------------------------------------------------------------------
(* The steps of the refinement.                                            *)

LEMMA SeenRefining ==
  ASSUME ~Waiting
  PROVE  RefineUp = toMaster /\ CalcUp = NoMessages
         /\ CalcDown = [r \in Ranks |-> LoadPart(toSlave[r])]
BY SameRanks DEF RefineUp, CalcUp, CalcDown

LEMMA SeenRefiningNext ==
  ASSUME ~Waiting'
  PROVE  RefineUp' = toMaster' /\ CalcUp' = NoMessages
         /\ CalcDown' = [r \in Ranks |-> LoadPart(toSlave'[r])]
BY SameRanks DEF RefineUp, CalcUp, CalcDown, NoMessages

LEMMA RefineNext ==
  ASSUME RefineInv, \/ (\E r \in Ranks : RefineP!MasterReceives(r) \/ RefineP!Slave(r))
                    \/ RefineP!MasterProceeds,
         UNCHANGED eager
  PROVE  RefineInv'
<1>1. [RefineP!Next]_(RefineP!vars)
  BY SameRanks DEF RefineP!Next, RefineP!Master
<1>. QED
  BY <1>1, RefineOK, RefineP!NextInv, RefineP!TotalNext
     DEF RefineP!NextInv, RefineP!TotalNext, RefineInv

(* What is left to show of a step of the refinement.                       *)
LEMMA RefineStep ==
  ASSUME IInv, RefineInv', ~Waiting, ~Waiting',
         UNCHANGED <<eager, calcVars, rfiles, CalcDown>>,
         toSlave' = [r \in Ranks |-> toSlave'[r]],
         \A r \in Ranks : \E M : toSlave'[r] \in Seq(M),
         rspc' \in [Ranks -> {"wait", "recv", "busy", "exit"}],
         \A r \in Ranks : rspc'[r] # "wait" => cspc[r] = "exit"
  PROVE  IInv'
<1>1. UNCHANGED <<calcMaster, cspc, cwork, loadMap>>
  BY DEF calcVars
<1>2. CalcUp' = CalcUp
  BY SeenRefining, SeenRefiningNext
<1>3. CalcP!IInv'
  BY <1>1, <1>2, CalcNext DEF IInv
<1>4. LoadMapInv'
  BY <1>1 DEF IInv, LoadMapInv, calcMaster
<1>5. LinkInv'
  BY <1>1 DEF IInv, LinkInv, calcMaster, FileNames, FirstOfItsLoad, Descending
<1>. QED BY <1>3, <1>4, <1>5 DEF IInv

LEMMA SendsRefine ==
  ASSUME LinkInv, ~Waiting, ~Waiting', NEW r, NEW m, m.phase = "refine",
         Refine!SendToSlave(r, m)
  PROVE  /\ RefineP!SendToSlave(r, m) /\ CalcDown' = CalcDown
         /\ toSlave' = [q \in Ranks |-> toSlave'[q]]
         /\ \A q \in Ranks : \E M : toSlave'[q] \in Seq(M)
<1>1. toSlave' = [toSlave EXCEPT ![r] = Append(@, m)]
  BY DEF Refine!SendToSlave
<1>2. toSlave' = [q \in Ranks |-> IF q = r THEN Append(toSlave[q], m) ELSE toSlave[q]]
  BY <1>1 DEF LinkInv
<1>3. \A q \in Ranks :
        /\ LoadPart(Append(toSlave[q], m)) = LoadPart(toSlave[q])
        /\ RefinePart(Append(toSlave[q], m)) = Append(RefinePart(toSlave[q]), m)
        /\ \E M : Append(toSlave[q], m) \in Seq(M)
  BY AppendParts DEF LinkInv
<1>4. RefineDown' = [RefineDown EXCEPT ![r] = Append(@, m)]
  BY <1>2, <1>3, SameRanks DEF RefineDown
<1>5. CalcDown' = CalcDown
  BY <1>2, <1>3, SeenRefining, SeenRefiningNext
<1>6. \A q \in Ranks : \E M : toSlave'[q] \in Seq(M)
  BY <1>2, <1>3 DEF LinkInv
<1>. QED BY <1>2, <1>4, <1>5, <1>6 DEF RefineP!SendToSlave

LEMMA RefineMasterStep == ASSUME IInv, RefineMaster PROVE IInv'
<1>1. /\ UNCHANGED <<eager, calcVars, rfiles, rspc, rwork>>
      /\ ~Waiting /\ ~Waiting'
  BY DEF RefineMaster, Refine!Master, Refine!MasterReceives, Refine!MasterProceeds,
     Refine!ReceiveResult, Refine!DrainResult, Refine!SeedSlave, Refine!SeedEnd,
     Refine!DispatchNext, Refine!DrainEnd, Refine!SendDie, Refine!Return,
     Refine!LoopStart, Refine!slaveVars, Waiting
<1>2. /\ RefineUp = toMaster /\ RefineUp' = toMaster' /\ RefineSpc' = RefineSpc
      /\ UNCHANGED toSlave => UNCHANGED <<CalcDown, RefineDown>>
  BY <1>1, SeenRefining, SeenRefiningNext DEF RefineSpc, RefineDown
<1>3. /\ toSlave = [q \in Ranks |-> toSlave[q]]
      /\ \A q \in Ranks : \E M : toSlave[q] \in Seq(M)
  BY DEF IInv, LinkInv
<1>4. Refine!MasterFree => RefineP!MasterFree
  BY EmptyParts, SameRanks
     DEF Refine!MasterFree, RefineP!MasterFree, RefineDown
<1>5. /\ RefineP!MoreFiles <=> Refine!MoreFiles
      /\ \A pc : RefineP!LoopStart(pc) <=> Refine!LoopStart(pc)
      /\ \A r : RefineP!Collect(r) <=> Refine!Collect(r)
  BY <1>2 DEF RefineP!MoreFiles, Refine!MoreFiles, RefineP!LoopStart, Refine!LoopStart,
     RefineP!Collect, Refine!Collect
<1>. DEFINE SlavesSee ==
       /\ CalcDown' = CalcDown
       /\ toSlave' = [q \in Ranks |-> toSlave'[q]]
       /\ \A q \in Ranks : \E M : toSlave'[q] \in Seq(M)
<1>6. ASSUME NEW r, Refine!SendWork(r) PROVE RefineP!SendWork(r) /\ SlavesSee
  <2>1. Refine!SendToSlave(r, Refine!WorkMsg(rfiles[rfileIndex + 1]))
    BY <1>6 DEF Refine!SendWork
  <2>. QED
    BY <1>1, <1>6, <2>1, SendsRefine, SameMessages
       DEF IInv, Refine!SendWork, RefineP!SendWork
<1>7. UNCHANGED toSlave => SlavesSee
  BY <1>2, <1>3
<1>8. ASSUME NEW r \in Ranks, Refine!MasterReceives(r)
      PROVE  RefineP!MasterReceives(r) /\ SlavesSee
  <2>1. UNCHANGED <<toSlave, rspc, rwork>>
    BY <1>8 DEF Refine!MasterReceives, Refine!ReceiveResult, Refine!DrainResult, Refine!slaveVars
  <2>2. RefineP!MasterReceives(r)
    BY <1>2, <1>4, <1>5, <1>8, <2>1
       DEF RefineP!MasterReceives, Refine!MasterReceives, RefineP!ReceiveResult,
           Refine!ReceiveResult, RefineP!DrainResult, Refine!DrainResult, RefineP!slaveVars
  <2>. QED BY <1>7, <2>1, <2>2
<1>9. ASSUME Refine!MasterProceeds PROVE RefineP!MasterProceeds /\ SlavesSee
  <2>1. CASE Refine!SeedSlave
    <3>1. UNCHANGED RefineP!slaveVars
      BY <1>1, <1>2 DEF RefineP!slaveVars
    <3>2. CASE Refine!MoreFiles /\ Refine!SendWork(rrank)
      <4>1. RefineP!SendWork(rrank) /\ SlavesSee
        BY <1>6, <3>2
      <4>2. RefineP!SeedSlave
        BY <1>2, <1>4, <1>5, <2>1, <3>1, <3>2, <4>1 DEF RefineP!SeedSlave, Refine!SeedSlave
      <4>. QED BY <4>1, <4>2 DEF RefineP!MasterProceeds
    <3>3. CASE ~Refine!MoreFiles /\ UNCHANGED <<toSlave, rfileIndex>>
      <4>1. RefineP!SeedSlave
        BY <1>2, <1>4, <1>5, <2>1, <3>1, <3>3 DEF RefineP!SeedSlave, Refine!SeedSlave
      <4>. QED BY <1>7, <3>3, <4>1 DEF RefineP!MasterProceeds
    <3>. QED BY <2>1, <3>2, <3>3 DEF Refine!SeedSlave
  <2>2. CASE Refine!DispatchNext
    <3>1. RefineP!SendWork(rsender) /\ SlavesSee
      BY <1>6, <2>2 DEF Refine!DispatchNext
    <3>2. RefineP!DispatchNext
      BY <1>1, <1>2, <2>2, <3>1
         DEF RefineP!DispatchNext, Refine!DispatchNext, RefineP!slaveVars
    <3>. QED BY <3>1, <3>2 DEF RefineP!MasterProceeds
  <2>3. CASE Refine!SendDie
    <3>1. RefineP!SendToSlave(rrank, RefineP!DieMsg) /\ SlavesSee
      BY <1>1, <2>3, SendsRefine, SameMessages DEF IInv, Refine!SendDie
    <3>2. RefineP!SendDie
      BY <1>1, <1>2, <1>4, <2>3, <3>1
         DEF RefineP!SendDie, Refine!SendDie, RefineP!slaveVars
    <3>. QED BY <3>1, <3>2 DEF RefineP!MasterProceeds
  <2>4. CASE Refine!SeedEnd \/ Refine!DrainEnd \/ Refine!Return
    <3>1. UNCHANGED <<toSlave, toMaster, rspc, rwork>>
      BY <2>4 DEF Refine!SeedEnd, Refine!DrainEnd, Refine!Return, Refine!slaveVars
    <3>2. UNCHANGED <<RefineP!slaveVars, RefineDown, RefineUp>>
      BY <1>2, <3>1 DEF RefineP!slaveVars
    <3>3. RefineP!MasterProceeds
      BY <1>4, <1>5, <2>4, <3>2
         DEF RefineP!MasterProceeds, RefineP!SeedEnd, Refine!SeedEnd, RefineP!DrainEnd,
             Refine!DrainEnd, RefineP!Return, Refine!Return
    <3>. QED BY <1>7, <3>1, <3>3
  <2>. QED BY <1>9, <2>1, <2>2, <2>3, <2>4 DEF Refine!MasterProceeds
<1>10. \/ (\E r \in Ranks : RefineP!MasterReceives(r)) \/ RefineP!MasterProceeds
  BY <1>8, <1>9, SameRanks DEF RefineMaster, Refine!Master
<1>11. SlavesSee
  BY <1>8, <1>9, SameRanks DEF RefineMaster, Refine!Master
<1>12. RefineInv'
  BY <1>1, <1>10, RefineNext DEF IInv
<1>. QED BY <1>1, <1>11, <1>12, RefineStep DEF IInv, LinkInv

(* A slave of the refinement has left the load calculation, and so has     *)
(* everything on its way to it.                                            *)
LEMMA RefineSlaveAlone ==
  ASSUME IInv, NEW r \in Ranks, Refine!Slave(r)
  PROVE  /\ ~Waiting /\ rspc[r] # "wait" /\ cspc[r] = "exit" /\ CalcDown[r] = <<>>
         /\ RefineDown[r] = toSlave[r]
<1>1. rspc[r] = "busy" \/ (rspc[r] = "recv" /\ toSlave[r] # <<>>)
  BY DEF Refine!Slave, Refine!TakeWork, Refine!Reply, Refine!TakeDie, Refine!TakeMessage
<1>2. cspc[r] = "exit" /\ CalcDown[r] = <<>>
  BY <1>1, CalcExited DEF IInv, LinkInv
<1>3. ~Waiting
  BY <1>1, <1>2, SeenWaiting DEF IInv, LinkInv, RefineAtStart
<1>4. LoadPart(toSlave[r]) = <<>>
  BY <1>2, <1>3, SeenRefining
<1>5. RefinePart(toSlave[r]) = toSlave[r]
  <2>1. \A m : <<m>> # <<>>
    OBVIOUS
  <2>. QED BY <1>4, <2>1 DEF LoadPart, RefinePart
<1>. QED BY <1>1, <1>2, <1>3, <1>5, SameRanks DEF RefineDown

LEMMA RefineSlaveStep ==
  ASSUME IInv, NEW r \in Ranks, RefineSlave(r) PROVE IInv'
<1>1. /\ Refine!Slave(r) /\ UNCHANGED <<eager, calcVars, refineMaster>>
  BY DEF RefineSlave, Refine!Slave, Refine!TakeWork, Refine!Reply, Refine!TakeDie,
     Refine!masterVars, refineMaster
<1>2. /\ ~Waiting /\ rspc[r] # "wait" /\ cspc[r] = "exit"
      /\ CalcDown[r] = <<>> /\ RefineDown[r] = toSlave[r]
  BY <1>1, RefineSlaveAlone
<1>3. ~Waiting' /\ rfiles' = rfiles
  BY <1>1, <1>2 DEF Waiting, refineMaster
<1>4. RefineUp = toMaster /\ RefineUp' = toMaster'
  BY <1>2, <1>3, SeenRefining, SeenRefiningNext
<1>5. /\ rspc \in [Ranks -> {"wait", "recv", "busy", "exit"}]
      /\ toSlave = [q \in Ranks |-> toSlave[q]]
  BY DEF IInv, LinkInv
<1>6. /\ RefineSpc[r] = rspc[r]
      /\ \A s \in {"recv", "busy", "exit"} :
           rspc' = [rspc EXCEPT ![r] = s] => /\ RefineSpc' = [RefineSpc EXCEPT ![r] = s]
                                             /\ rspc' \in [Ranks -> {"wait", "recv", "busy", "exit"}]
                                             /\ \A q \in Ranks : rspc'[q] # "wait" => rspc[q] # "wait"
  BY <1>2, <1>5, SameRanks DEF RefineSpc
<1>7. ASSUME NEW tag, Refine!TakeMessage(r, tag)
      PROVE  /\ RefineP!TakeMessage(r, tag) /\ CalcDown' = CalcDown
             /\ RefineDown[r] = toSlave[r]
             /\ toSlave' = [q \in Ranks |-> toSlave'[q]]
             /\ \A q \in Ranks : \E M : toSlave'[q] \in Seq(M)
  <2>1. /\ toSlave[r] # <<>> /\ Head(toSlave[r]).tag = tag /\ rspc[r] = "recv"
        /\ Refine!SlaveFree(r)
        /\ toSlave' = [toSlave EXCEPT ![r] = Tail(@)]
    BY <1>7 DEF Refine!TakeMessage
  <2>2. PICK m : toSlave[r] = <<m>>
    BY <1>2, <2>1, RefineShape DEF IInv, RefineInv
  <2>3. Tail(toSlave[r]) = <<>>
    BY <2>2, OneMessage
  <2>4. toSlave' = [q \in Ranks |-> IF q = r THEN <<>> ELSE toSlave[q]]
    BY <1>5, <2>1, <2>3
  <2>5. RefineDown' = [RefineDown EXCEPT ![r] = Tail(@)]
    BY <1>2, <2>3, <2>4, EmptyParts, SameRanks DEF RefineDown
  <2>6. CalcDown' = CalcDown
    BY <1>2, <1>3, <2>4, EmptyParts, SeenRefining, SeenRefiningNext
  <2>7. \A q \in Ranks : \E M : toSlave'[q] \in Seq(M)
    <3>1. <<>> \in Seq({})
      OBVIOUS
    <3>. QED BY <2>4, <3>1 DEF IInv, LinkInv
  <2>8. RefineP!SlaveFree(r)
    BY <1>4, <2>1 DEF RefineP!SlaveFree, Refine!SlaveFree
  <2>. QED
    BY <1>2, <1>6, <2>1, <2>4, <2>5, <2>6, <2>7, <2>8 DEF RefineP!TakeMessage
<1>8. /\ RefineP!Slave(r) /\ CalcDown' = CalcDown
      /\ toSlave' = [q \in Ranks |-> toSlave'[q]]
      /\ \A q \in Ranks : \E M : toSlave'[q] \in Seq(M)
      /\ rspc' \in [Ranks -> {"wait", "recv", "busy", "exit"}]
      /\ \A q \in Ranks : rspc'[q] # "wait" => rspc[q] # "wait"
  <2>1. UNCHANGED RefineP!masterVars
    BY <1>1 DEF RefineP!masterVars, refineMaster
  <2>2. CASE Refine!TakeWork(r)
    <3>1. RefineP!TakeWork(r)
      BY <1>2, <1>4, <1>6, <1>7, <2>1, <2>2
         DEF RefineP!TakeWork, Refine!TakeWork, RefineP!WORKTAG, Refine!WORKTAG
    <3>. QED BY <1>1, <1>6, <1>7, <2>2, <3>1 DEF RefineP!Slave, Refine!TakeWork
  <2>3. CASE Refine!TakeDie(r)
    <3>1. RefineP!TakeDie(r)
      BY <1>4, <1>6, <1>7, <2>1, <2>3
         DEF RefineP!TakeDie, Refine!TakeDie, RefineP!DIETAG, Refine!DIETAG
    <3>. QED BY <1>1, <1>6, <1>7, <2>3, <3>1 DEF RefineP!Slave, Refine!TakeDie
  <2>4. CASE Refine!Reply(r)
    <3>1. UNCHANGED <<toSlave, CalcDown, RefineDown>>
      BY <1>2, <1>3, <2>4, SeenRefining, SeenRefiningNext DEF Refine!Reply, RefineDown
    <3>2. RefineP!Reply(r)
      BY <1>4, <1>6, <2>1, <2>4, <3>1, SameMessages DEF RefineP!Reply, Refine!Reply
    <3>. QED BY <1>1, <1>6, <2>4, <3>1, <3>2 DEF RefineP!Slave, Refine!Reply, IInv, LinkInv
  <2>. QED BY <1>1, <2>2, <2>3, <2>4 DEF Refine!Slave
<1>9. RefineInv'
  BY <1>1, <1>2, <1>8, RefineNext DEF IInv
<1>10. \A q \in Ranks : rspc'[q] # "wait" => cspc[q] = "exit"
  BY <1>8 DEF IInv, LinkInv
<1>. QED BY <1>1, <1>2, <1>3, <1>8, <1>9, <1>10, RefineStep

(* Neither phase sees that a slave goes from one to the other.             *)
LEMMA StartSlaveTaskStep ==
  ASSUME IInv, NEW r \in Ranks, StartSlaveTask(r) PROVE IInv'
<1>1. /\ cspc[r] = "exit" /\ rspc[r] = "wait" /\ rspc' = [rspc EXCEPT ![r] = "recv"]
      /\ UNCHANGED <<toSlave, toMaster, eager, calcMaster, cspc, cwork, loadMap,
                     refineMaster, rmpc, rwork>>
  BY DEF StartSlaveTask, calcVars, refineMaster
<1>2. rspc \in [Ranks -> {"wait", "recv", "busy", "exit"}]
  BY DEF IInv, LinkInv
<1>3. RefineSpc' = RefineSpc
  BY <1>1, <1>2, SameRanks DEF RefineSpc
<1>4. Waiting' = Waiting
  BY <1>1 DEF Waiting
<1>5. UNCHANGED <<CalcDown, CalcUp, RefineDown, RefineUp>>
  BY <1>1, <1>4 DEF CalcDown, CalcUp, RefineDown, RefineUp, NoMessages
<1>6. CalcP!IInv'
  BY <1>1, <1>5, CalcNext DEF IInv
<1>7. RefineInv => RefineInv'
  BY <1>1, <1>3, <1>5, RefineUnseen
<1>8. LoadMapInv'
  BY <1>1 DEF IInv, LoadMapInv, calcMaster
<1>9. LinkInv'
  <2>1. /\ rspc' \in [Ranks -> {"wait", "recv", "busy", "exit"}]
        /\ \A q \in Ranks : rspc'[q] # "wait" => cspc'[q] = "exit"
    BY <1>1, <1>2 DEF IInv, LinkInv
  <2>2. Waiting' => RefineAtStart'
    BY <1>1, <1>2, <1>4 DEF IInv, LinkInv, RefineAtStart, refineMaster
  <2>3. ~Waiting' => cmpc' = "done" /\ rfiles' = FileNames(loadMap)'
    BY <1>1, <1>4 DEF IInv, LinkInv, calcMaster, refineMaster, FileNames, FirstOfItsLoad, Descending
  <2>. QED BY <1>1, <2>1, <2>2, <2>3 DEF IInv, LinkInv
<1>. QED BY <1>4, <1>6, <1>7, <1>8, <1>9 DEF IInv

-----------------------------------------------------------------------------
(* The inductive invariant.                                                *)

LEMMA InitInv == Init => IInv
<1>. SUFFICES ASSUME Init PROVE IInv
  OBVIOUS
<1>1. Waiting /\ Calc!Init
  BY DEF Init, Waiting
<1>2. CalcDown = toSlave /\ CalcUp = toMaster
  BY <1>1, SeenWaiting
<1>3. CalcP!Init
  BY <1>1, <1>2 DEF Calc!Init, CalcP!Init, Calc!Ranks, CalcP!Ranks
<1>4. CalcP!IInv
  BY <1>3, CalcOK, CalcP!InitInv DEF CalcP!InitInv
<1>5. loadMap = <<>> /\ ccollected = {}
  BY DEF Init, Calc!Init
<1>6. LoadMapInv
  BY <1>5 DEF LoadMapInv
<1>7. LinkInv
  <2>1. toSlave = [r \in Ranks |-> <<>>] /\ rspc = [r \in Ranks |-> "wait"]
    BY DEF Init, Calc!Init, Ranks
  <2>2. <<>> \in Seq({})
    OBVIOUS
  <2>3. RefineAtStart
    BY <2>1 DEF Init, RefineAtStart
  <2>. QED BY <1>1, <2>1, <2>2, <2>3 DEF LinkInv
<1>. QED BY <1>1, <1>4, <1>6, <1>7 DEF IInv

LEMMA NextInv == IInv /\ [Next]_vars => IInv'
<1>. SUFFICES ASSUME IInv, [Next]_vars PROVE IInv'
  OBVIOUS
<1>1. CASE UNCHANGED vars
  <2>1. /\ UNCHANGED <<toSlave, toMaster, eager, calcMaster, cspc, cwork, loadMap,
                       refineMaster, rmpc, rspc, rwork>>
    BY <1>1 DEF vars, calcVars, refineVars, refineMaster
  <2>2. Waiting' = Waiting
    BY <2>1 DEF Waiting
  <2>3. UNCHANGED <<CalcDown, CalcUp, RefineDown, RefineUp, RefineSpc>>
    BY <2>1, <2>2 DEF CalcDown, CalcUp, RefineDown, RefineUp, RefineSpc, NoMessages
  <2>4. CalcP!IInv'
    BY <2>1, <2>3, CalcNext DEF IInv
  <2>5. RefineInv => RefineInv'
    BY <2>1, <2>3, RefineUnseen
  <2>6. LoadMapInv'
    BY <2>1 DEF IInv, LoadMapInv, calcMaster
  <2>7. RefineAtStart => RefineAtStart'
    BY <2>1 DEF RefineAtStart, refineMaster
  <2>8. rfiles = FileNames(loadMap) => rfiles' = FileNames(loadMap)'
    BY <2>1 DEF refineMaster, FileNames, FirstOfItsLoad, Descending
  <2>9. LinkInv'
    BY <2>1, <2>2, <2>7, <2>8 DEF IInv, LinkInv, calcMaster
  <2>. QED BY <2>2, <2>4, <2>5, <2>6, <2>9 DEF IInv
<1>. QED
  BY <1>1, CalcMasterStep, StartSchedulerStep, RefineMasterStep, CalcSlaveStep,
     StartSlaveTaskStep, RefineSlaveStep
     DEF Next, MasterRank, SlaveRank, Terminating

(* The load calculation and, once the master has started it, the           *)
(* refinement keep the invariant of the master/slave protocol, each on its *)
(* part of the channels; the load map has the loads received so far, and   *)
(* the refinement's list is what the map was at its start.                 *)
THEOREM Invariance == Spec => []IInv
BY InitInv, NextInv, PTL DEF Spec

-----------------------------------------------------------------------------
(* The properties.                                                         *)

LEMMA WholeQueue ==
  ASSUME NEW M, NEW q \in Seq(M), NEW A, NEW B,
         LoadPart(q) \in Seq(A), RefinePart(q) \in Seq(B)
  PROVE  q \in Seq(A \cup B)
<1>1. CASE q = <<>>
  BY <1>1
<1>2. CASE q # <<>> /\ Head(q).phase = "load"
  <2>1. LoadPart(q) = <<Head(q)>> /\ RefinePart(q) = Tail(q)
    BY <1>2, TakeParts
  <2>2. /\ Len(q) \in Nat /\ DOMAIN q = 1 .. Len(q) /\ Len(q) # 0
        /\ Len(Tail(q)) = Len(q) - 1
        /\ \A i \in 1 .. Len(Tail(q)) : Tail(q)[i] = q[i + 1]
        /\ Head(q) = q[1]
    BY <1>2
  <2>3. Head(q) \in A
    <3>1. <<Head(q)>>[1] = Head(q) /\ Len(<<Head(q)>>) = 1
      OBVIOUS
    <3>2. <<Head(q)>> \in Seq(A)
      BY <2>1
    <3>. QED BY <3>1, <3>2
  <2>4. \A i \in 1 .. Len(Tail(q)) : Tail(q)[i] \in B
    BY <2>1
  <2>5. \A i \in 1 .. Len(q) : q[i] \in A \cup B
    <3>. SUFFICES ASSUME NEW i \in 1 .. Len(q) PROVE q[i] \in A \cup B
      OBVIOUS
    <3>1. CASE i = 1
      BY <2>2, <2>3, <3>1
    <3>2. CASE i # 1
      <4>1. i - 1 \in 1 .. Len(Tail(q)) /\ (i - 1) + 1 = i
        BY <2>2, <3>2
      <4>. QED BY <2>2, <2>4, <4>1
    <3>. QED BY <3>1, <3>2
  <2>6. q = [i \in 1 .. Len(q) |-> q[i]]
    BY <2>2
  <2>. QED BY <2>2, <2>5, <2>6
<1>3. CASE q # <<>> /\ Head(q).phase # "load"
  BY <1>3, TakeParts
<1>. QED BY <1>1, <1>2, <1>3

(* Every variable keeps its type, and only messages of the two phases are  *)
(* sent to the slaves.                                                     *)
THEOREM TypeCorrect == Spec => []TypeOK
<1>1. ASSUME IInv PROVE TypeOK
  <2>. USE <1>1
  <2>1. /\ CalcP!TypeOK /\ LinkInv /\ LoadMapInv
        /\ ~Waiting => RefineP!TypeOK
    BY DEF IInv, RefineInv, CalcP!IInv, RefineP!IInv
  <2>2. /\ DOMAIN loadMap \subseteq Files
        /\ loadMap \in [DOMAIN loadMap -> Loads \ {0}]
    <3>1. DOMAIN loadMap \subseteq Files
      BY <2>1 DEF LoadMapInv, CalcP!TypeOK
    <3>2. \A f \in DOMAIN loadMap : loadMap[f] \in Loads \ {0}
      BY <2>1, <3>1 DEF LoadMapInv, Files
    <3>. QED BY <2>1, <3>1, <3>2 DEF LoadMapInv
  <2>3. /\ rfiles \in Seq(Files) /\ rfileIndex \in 0 .. Len(rfiles)
        /\ rwork \in [Ranks -> SUBSET Files]
    <3>1. CASE Waiting
      BY <2>1, <3>1 DEF LinkInv, RefineAtStart
    <3>2. CASE ~Waiting
      BY <2>1, <3>2, SameRanks DEF RefineP!TypeOK, RefineLists
    <3>. QED BY <3>1, <3>2
  <2>4. /\ cspc \in [Ranks -> {"recv", "busy", "exit"}]
        /\ rspc \in [Ranks -> {"wait", "recv", "busy", "exit"}]
        /\ cwork \in [Ranks -> SUBSET Files]
    BY <2>1, SameRanks DEF LinkInv, CalcP!TypeOK
  <2>5. toSlave \in [Ranks -> Seq(Calc!Message \cup Refine!Message)]
    <3>1. CalcP!Message = Calc!Message /\ RefineP!Message = Refine!Message
      BY SameMessages DEF CalcP!Message, Calc!Message, RefineP!Message, Refine!Message,
         CalcP!WORKTAG, Calc!WORKTAG, RefineP!WORKTAG, Refine!WORKTAG
    <3>2. CASE Waiting
      <4>1. toSlave \in [Ranks -> Seq(Calc!Message)]
        BY <2>1, <3>1, <3>2, SeenWaiting, SameRanks DEF CalcP!TypeOK
      <4>. QED BY <4>1
    <3>3. ASSUME ~Waiting, NEW r \in Ranks
          PROVE  toSlave[r] \in Seq(Calc!Message \cup Refine!Message)
      <4>1. CalcDown[r] \in Seq(Calc!Message)
        BY <2>1, <3>1, SameRanks DEF CalcP!TypeOK
      <4>2. RefineDown[r] \in Seq(Refine!Message)
        BY <2>1, <3>1, <3>3, SameRanks DEF RefineP!TypeOK
      <4>3. LoadPart(toSlave[r]) = CalcDown[r] /\ RefinePart(toSlave[r]) = RefineDown[r]
        BY <3>3, SeenRefining, SameRanks DEF RefineDown
      <4>. QED BY <2>1, <4>1, <4>2, <4>3, WholeQueue DEF LinkInv
    <3>. QED BY <2>1, <3>2, <3>3 DEF LinkInv
  <2>. QED BY <2>2, <2>3, <2>4, <2>5 DEF TypeOK
<1>. QED BY <1>1, Invariance, PTL

(* Although both phases receive any tag on the same communicator, and no   *)
(* barrier is between them, no process ever takes a message of the other   *)
(* phase, for any number of processes.                                     *)
THEOREM PhaseIsolationHolds == Spec => []PhaseIsolation
<1>1. ASSUME IInv PROVE PhaseIsolation
  <2>. USE <1>1
  <2>1. ASSUME ~Waiting, NEW r \in Ranks, NEW i \in 1 .. Len(toMaster[r])
        PROVE  toMaster[r][i].phase = "refine"
    <3>1. RefineUp \in [Ranks -> Seq(RefineP!ResultMessage)]
      BY <2>1, SameRanks DEF IInv, RefineInv, RefineP!IInv, RefineP!TypeOK
    <3>2. toMaster[r] \in Seq(RefineP!ResultMessage)
      BY <2>1, <3>1, SeenRefining
    <3>3. PICK f \in Files : toMaster[r][i] = RefineP!ResultMsg(f)
      BY <2>1, <3>2 DEF RefineP!ResultMessage
    <3>. QED BY <3>3, SameMessages
  <2>2. ASSUME NEW r \in Ranks, toSlave[r] # <<>>, cspc[r] = "exit"
        PROVE  Head(toSlave[r]).phase = "refine"
    <3>1. CalcDown[r] = <<>>
      BY <2>2, CalcExited DEF IInv
    <3>2. ~Waiting
      BY <2>2, <3>1, SeenWaiting
    <3>3. LoadPart(toSlave[r]) = <<>> /\ RefinePart(toSlave[r]) = RefineDown[r]
      BY <3>1, <3>2, SeenRefining, SameRanks DEF RefineDown
    <3>4. RefineDown[r] = toSlave[r]
      <4>1. \A m : <<m>> # <<>>
        OBVIOUS
      <4>. QED BY <3>3, <4>1 DEF LoadPart, RefinePart
    <3>5. PICK m : m.phase = "refine" /\ toSlave[r] = <<m>>
      BY <2>2, <3>2, <3>4, RefineShape DEF IInv, RefineInv
    <3>. QED BY <3>5, OneMessage
  <2>3. ASSUME NEW r \in Ranks, toSlave[r] # <<>>, cspc[r] # "exit"
        PROVE  Head(toSlave[r]).phase = "load"
    <3>1. CASE Waiting
      <4>1. toSlave[r] \in Seq(CalcP!Message)
        BY <3>1, SeenWaiting, SameRanks DEF IInv, CalcP!IInv, CalcP!TypeOK
      <4>2. Head(toSlave[r]) \in CalcP!Message
        BY <2>3, <4>1
      <4>. QED BY <4>2 DEF CalcP!Message, CalcP!DieMsg
    <3>2. CASE ~Waiting
      <4>1. LoadPart(toSlave[r]) = <<Calc!DieMsg>>
        BY <2>3, <3>2, CalcOver, SeenRefining DEF IInv, LinkInv, DyingOrOut
      <4>2. <<Calc!DieMsg>> # <<>>
        OBVIOUS
      <4>. QED BY <4>1, <4>2 DEF LoadPart
    <3>. QED BY <3>1, <3>2
  <2>. QED BY <2>1, <2>2, <2>3 DEF PhaseIsolation, Waiting
<1>. QED BY <1>1, Invariance, PTL

LEMMA LoadsComplete ==
  ASSUME IInv, ~Waiting
  PROVE  /\ ccollected = Calc!ListedFiles
         /\ DOMAIN loadMap = {f \in Calc!ListedFiles : f.load > 0}
         /\ \A f \in DOMAIN loadMap : loadMap[f] = f.load
<1>1. ccollected = CalcP!ListedFiles
  BY DEF IInv, LinkInv, CalcP!IInv, CalcP!LoopInv
<1>. QED BY <1>1 DEF CalcP!ListedFiles, Calc!ListedFiles, IInv, LoadMapInv

(* The schedule of the refinement is built when no file is being counted   *)
(* any more, from the loads of all files.                                  *)
THEOREM ScheduleHolds == Spec => []ScheduleFromAllLoads
<1>1. ASSUME IInv PROVE ScheduleFromAllLoads
  <2>1. ASSUME ~Waiting, NEW r \in Ranks PROVE cwork[r] = {}
    BY <1>1, <2>1, CalcOver DEF IInv, LinkInv, DyingOrOut
  <2>. QED BY <1>1, <2>1, LoadsComplete DEF ScheduleFromAllLoads, Waiting
<1>. QED BY <1>1, Invariance, PTL

(* Of the files with the same positive load exactly the one with the       *)
(* lowest number is refined, and the total is the sum of the pairs of      *)
(* these files.                                                            *)
THEOREM RefinesHolds == Spec => []RefinesOneFilePerLoad
<1>1. ASSUME IInv, rmpc = "done" PROVE rcollected = LowestFileOfEachLoad
  <2>. USE <1>1
  <2>1. ~Waiting
    BY DEF Waiting
  <2>2. rcollected = RefineP!ListedFiles
    BY <2>1 DEF IInv, RefineInv, RefineP!IInv, RefineP!LoopInv
  <2>3. IsFiniteSet(ccollected) /\ ccollected \subseteq Files
    BY SameFinite DEF IInv, CalcP!IInv, CalcP!LoopInv, CalcP!TypeOK
  <2>4. DOMAIN loadMap \subseteq ccollected
    BY DEF IInv, LoadMapInv
  <2>5. IsFiniteSet(DOMAIN loadMap) /\ DOMAIN loadMap \subseteq Files
    BY <2>3, <2>4, FS_Subset
  <2>6. {rfiles[i] : i \in 1 .. Len(rfiles)} = FirstOfItsLoad(loadMap)
    <3>1. rfiles = FileNames(loadMap)
      BY <2>1 DEF IInv, LinkInv
    <3>. QED BY <2>1, <2>5, <3>1, LoadsComplete, FileNamesSorted
  <2>7. FirstOfItsLoad(loadMap) = LowestFileOfEachLoad
    BY <2>1, LoadsComplete DEF FirstOfItsLoad, LowestFileOfEachLoad
  <2>. QED BY <2>2, <2>6, <2>7 DEF RefineP!ListedFiles
<1>2. ASSUME IInv, rmpc = "done"
      PROVE  Refine!Total = SumFunctionOnSet(RefineResult, LowestFileOfEachLoad)
  <2>1. RefineP!IInv /\ RefineP!TotalInv
    BY <1>2 DEF IInv, RefineInv, Waiting
  <2>2. RefineP!TotalIsExact
    BY <2>1, RefineOK, RefineP!TotalFromInv DEF RefineP!TotalFromInv
  <2>3. rcollected = RefineP!ListedFiles
    BY <1>2, <2>1 DEF RefineP!IInv, RefineP!LoopInv
  <2>4. RefineP!Total = RefineP!SumFunctionOnSet(RefineResult, rcollected)
    BY <1>2, <2>2, <2>3 DEF RefineP!TotalIsExact
  <2>5. RefineP!Total = Refine!Total
    BY DEF RefineP!Total, Refine!Total, RefineP!SumFunction, Refine!SumFunction,
       RefineP!SumFunctionOnSet, Refine!SumFunctionOnSet, RefineP!FoldFunctionOnSet,
       Refine!FoldFunctionOnSet, RefineP!MapThenFoldSet, Refine!MapThenFoldSet
  <2>6. RefineP!SumFunctionOnSet(RefineResult, rcollected)
          = SumFunctionOnSet(RefineResult, rcollected)
    BY DEF RefineP!SumFunctionOnSet, SumFunctionOnSet, RefineP!FoldFunctionOnSet,
       FoldFunctionOnSet, RefineP!MapThenFoldSet, MapThenFoldSet
  <2>. QED BY <1>1, <1>2, <2>4, <2>5, <2>6
<1>3. IInv => RefinesOneFilePerLoad
  BY <1>1, <1>2 DEF RefinesOneFilePerLoad
<1>. QED BY <1>3, Invariance, PTL

=============================================================================
