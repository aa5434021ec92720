------------------------- MODULE MasterWorkerProofs -------------------------
(***************************************************************************)
(* Proofs about MasterWorker, for any number of processes, any files and   *)
(* any work list: type correctness, that no file is lost or joined twice,  *)
(* that the exit loop starts only when every result is in, and that every  *)
(* step is a step of WorkPool.                                             *)
(***************************************************************************)
EXTENDS MasterWorker, DataTheorems

(* What a slave and its two channels can look like.                        *)
At(r, pc, w, down, up) ==
  spc[r] = pc /\ work[r] = w /\ toSlave[r] = down /\ toMaster[r] = up

Idle(r)       == At(r, "recv", {}, <<>>, <<>>)
Sent(r, f)    == At(r, "recv", {}, <<WorkMsg(f)>>, <<>>)
Busy(r, f)    == At(r, "busy", {f}, <<>>, <<>>)
Replied(r, f) == At(r, "recv", {}, <<>>, <<ResultMsg(f)>>)
Dying(r)      == At(r, "recv", {}, <<DieMsg>>, <<>>)
Exited(r)     == At(r, "exit", {}, <<>>, <<>>)

Has(r, f) == Sent(r, f) \/ Busy(r, f) \/ Replied(r, f)
HasFile(r) == \E f \in Files : Has(r, f)

ShapeInv ==
  \A r \in Ranks : Idle(r) \/ HasFile(r) \/ Dying(r) \/ Exited(r)

(* Slaves are told to exit in the exit loop only, in the order of ranks.   *)
ExitInv ==
  \A r \in Ranks :
    Dying(r) \/ Exited(r) <=> mpc = "done" \/ (mpc = "die" /\ r < rank)

ConserveInv ==
  /\ HandedOut = collected \cup {f \in Files : \E r \in Ranks : Has(r, f)}
  /\ \A r \in Ranks, f \in Files : Has(r, f) => f \notin collected
  /\ \A r, s \in Ranks, f \in Files : Has(r, f) /\ Has(s, f) => r = s

(* How many results are in, per loop of the master.                        *)
Count == Cardinality(collected)
LoopInv ==
  /\ IsFiniteSet(collected)
  /\ mpc = "seed" =>
       /\ collected = {}
       /\ fileIndex <= rank - 1
       /\ fileIndex < rank - 1 => fileIndex = Len(files)
       /\ \A r \in Ranks : r >= rank => Idle(r)
       /\ fileIndex = rank - 1 => \A r \in Ranks : r < rank => HasFile(r)
  /\ mpc \in {"receive", "dispatch"} =>
       /\ rank = 1
       /\ fileIndex < Len(files)
       /\ \A r \in Ranks : HasFile(r) \/ (mpc = "dispatch" /\ r = sender)
  /\ mpc = "receive" => Count = fileIndex - (nProcs - 1)
  /\ mpc = "dispatch" => /\ Count = fileIndex - (nProcs - 1) + 1
                         /\ sender \in Ranks /\ Idle(sender)
  /\ mpc \in {"drain", "die", "done"} => fileIndex = Len(files)
  /\ mpc = "drain" => /\ Count >= Len(files) - (nProcs - 1) + (rank - 1)
                      /\ Count >= rank - 1
  /\ mpc \in {"die", "done"} => collected = ListedFiles /\ EnoughFiles

IInv == TypeOK /\ ShapeInv /\ ExitInv /\ ConserveInv /\ LoopInv

-----------------------------------------------------------------------------
(* Lemmas about the messages and the shapes.                               *)

LEMMA Singleton ==
  ASSUME NEW m
  PROVE  /\ Len(<<m>>) = 1 /\ <<m>>[1] = m /\ <<m>> # <<>>
         /\ Head(<<m>>) = m /\ Tail(<<m>>) = <<>>
         /\ Append(<<>>, m) = <<m>>
         /\ Len(<<>>) = 0
OBVIOUS

LEMMA SingletonsDiffer ==
  ASSUME NEW m, NEW n, <<m>> = <<n>> PROVE m = n
OBVIOUS

LEMMA Messages ==
  /\ \A f \in Files : WorkMsg(f) \in Message
  /\ DieMsg \in Message
  /\ \A f, g : WorkMsg(f) = WorkMsg(g) => f = g
  /\ \A f, g : ResultMsg(f) = ResultMsg(g) => f = g
  /\ \A f : /\ WorkMsg(f).tag = WORKTAG /\ WorkMsg(f).file = f
            /\ ResultMsg(f).file = f /\ ResultMsg(f).pairs = Result[f]
            /\ WorkMsg(f) # DieMsg
  /\ DieMsg.tag = DIETAG /\ WORKTAG # DIETAG
BY DEF WorkMsg, DieMsg, ResultMsg, Message, WORKTAG, DIETAG

(* The shapes exclude each other, and a slave has at most one file.        *)
Exclusion(r) ==
  /\ Idle(r) => ~Dying(r) /\ ~Exited(r) /\ \A f : ~Has(r, f)
  /\ Dying(r) \/ Exited(r) => \A f : ~Has(r, f)
  /\ \A f, g : Has(r, f) /\ Has(r, g) => f = g

LEMMA Exclusive == \A r \in Ranks : Exclusion(r)
<1>. SUFFICES ASSUME NEW r \in Ranks PROVE Exclusion(r)
  OBVIOUS
<1>1. \A f, g : /\ <<WorkMsg(f)>> = <<WorkMsg(g)>> => f = g
                /\ <<ResultMsg(f)>> = <<ResultMsg(g)>> => f = g
                /\ <<WorkMsg(f)>> # <<DieMsg>>
  BY SingletonsDiffer, Messages
<1>2. \A m : <<m>> # <<>>
  BY Singleton
<1>3. Idle(r) => ~Dying(r) /\ ~Exited(r) /\ \A f : ~Has(r, f)
  BY <1>2 DEF Idle, Has, Sent, Busy, Replied, Dying, Exited, At
<1>4. Dying(r) \/ Exited(r) => \A f : ~Has(r, f)
  BY <1>1, <1>2 DEF Has, Sent, Busy, Replied, Dying, Exited, At
<1>5. ASSUME NEW f, NEW g, Has(r, f), Has(r, g)
      PROVE  f = g
  <2>1. CASE Sent(r, f)
    BY <1>1, <1>2, <1>5, <2>1 DEF Has, Sent, Busy, Replied, At
  <2>2. CASE Busy(r, f)
    BY <1>1, <1>2, <1>5, <2>2 DEF Has, Sent, Busy, Replied, At
  <2>3. CASE Replied(r, f)
    BY <1>1, <1>2, <1>5, <2>3 DEF Has, Sent, Busy, Replied, At
  <2>. QED BY <1>5, <2>1, <2>2, <2>3 DEF Has
<1>. QED BY <1>3, <1>4, <1>5 DEF Exclusion

LEMMA ExclusiveNext == (\A r \in Ranks : Exclusion(r))'
BY Exclusive, PTL

(* A slave whose state and channels do not change keeps its shape.         *)
Still(r) ==
  /\ spc'[r] = spc[r] /\ work'[r] = work[r]
  /\ toSlave'[r] = toSlave[r] /\ toMaster'[r] = toMaster[r]

LEMMA StillKeepsShape ==
  ASSUME NEW r, Still(r)
  PROVE  /\ Idle(r)' <=> Idle(r)
         /\ Dying(r)' <=> Dying(r)
         /\ Exited(r)' <=> Exited(r)
         /\ \A f : Has(r, f)' <=> Has(r, f)
         /\ HasFile(r)' <=> HasFile(r)
BY DEF Still, Idle, Dying, Exited, Has, HasFile, Sent, Busy, Replied, At

OthersStill(r) == \A s \in Ranks \ {r} : Still(s)

LEMMA TakeWorkEffect ==
  ASSUME NEW r \in Ranks, TypeOK, ShapeInv, TakeWork(r)
  PROVE  \E f \in Files : Sent(r, f) /\ Busy(r, f)' /\ OthersStill(r)
<1>1. spc[r] = "recv" /\ toSlave[r] # <<>> /\ Head(toSlave[r]).tag = WORKTAG
  BY DEF TakeWork, TakeMessage
<1>2. PICK f \in Files : Sent(r, f)
  BY <1>1, Messages, Singleton
     DEF ShapeInv, Idle, HasFile, Has, Sent, Busy, Replied, Dying, Exited, At
<1>3. Busy(r, f)'
  BY <1>2, Messages, Singleton
     DEF Sent, Busy, At, TakeWork, TakeMessage, TypeOK, masterVars
<1>4. OthersStill(r)
  BY DEF OthersStill, Still, TakeWork, TakeMessage, TypeOK, masterVars
<1>. QED BY <1>2, <1>3, <1>4

LEMMA ReplyEffect ==
  ASSUME NEW r \in Ranks, TypeOK, ShapeInv, Reply(r)
  PROVE  \E f \in Files : Busy(r, f) /\ Replied(r, f)' /\ OthersStill(r)
<1>1. spc[r] = "busy"
  BY DEF Reply
<1>2. PICK f \in Files : Busy(r, f)
  BY <1>1 DEF ShapeInv, Idle, HasFile, Has, Sent, Busy, Replied, Dying, Exited, At
<1>3. Replied(r, f)'
  BY <1>2, Singleton DEF Busy, Replied, At, Reply, TypeOK, masterVars
<1>4. OthersStill(r)
  BY DEF OthersStill, Still, Reply, TypeOK, masterVars
<1>. QED BY <1>2, <1>3, <1>4

LEMMA TakeDieEffect ==
  ASSUME NEW r \in Ranks, TypeOK, ShapeInv, TakeDie(r)
  PROVE  Dying(r) /\ Exited(r)' /\ OthersStill(r)
<1>1. spc[r] = "recv" /\ toSlave[r] # <<>> /\ Head(toSlave[r]).tag = DIETAG
  BY DEF TakeDie, TakeMessage
<1>2. Dying(r)
  BY <1>1, Messages, Singleton
     DEF ShapeInv, Idle, HasFile, Has, Sent, Busy, Replied, Dying, Exited, At
<1>3. Exited(r)'
  BY <1>2, Singleton DEF Dying, Exited, At, TakeDie, TakeMessage, TypeOK, masterVars
<1>4. OthersStill(r)
  BY DEF OthersStill, Still, TakeDie, TakeMessage, TypeOK, masterVars
<1>. QED BY <1>2, <1>3, <1>4

LEMMA SendToSlaveEffect ==
  ASSUME NEW r \in Ranks, NEW m, TypeOK, Idle(r), SendToSlave(r, m),
         UNCHANGED <<slaveVars, toMaster>>
  PROVE  At(r, "recv", {}, <<m>>, <<>>)' /\ OthersStill(r)
BY Singleton
   DEF Idle, At, SendToSlave, TypeOK, slaveVars, OthersStill, Still

LEMMA CollectEffect ==
  ASSUME NEW r \in Ranks, TypeOK, ShapeInv, Collect(r),
         UNCHANGED <<slaveVars, toSlave>>
  PROVE  \E f \in Files : /\ Replied(r, f) /\ Idle(r)' /\ OthersStill(r)
                         /\ collected' = collected \cup {f}
                         /\ totals' = [totals EXCEPT ![r] = @ + Result[f]]
<1>1. toMaster[r] # <<>>
  BY DEF Collect
<1>2. PICK f \in Files : Replied(r, f)
  BY <1>1 DEF ShapeInv, Idle, HasFile, Has, Sent, Busy, Replied, Dying, Exited, At
<1>3. Idle(r)'
  BY <1>2, Singleton DEF Idle, Replied, At, Collect, TypeOK, slaveVars
<1>4. OthersStill(r)
  BY DEF OthersStill, Still, Collect, TypeOK, slaveVars
<1>5. /\ collected' = collected \cup {f}
      /\ totals' = [totals EXCEPT ![r] = @ + Result[f]]
  <2>1. Head(toMaster[r]) = ResultMsg(f)
    BY <1>2, Singleton DEF Replied, At
  <2>. QED BY <2>1, Messages DEF Collect
<1>. QED BY <1>2, <1>3, <1>4, <1>5

-----------------------------------------------------------------------------
(* Type correctness.                                                       *)

LEMMA RanksAndFiles ==
  ASSUME TypeOK
  PROVE  /\ nProcs \in Nat \ {0} /\ Ranks = 1 .. nProcs - 1
         /\ files \in Seq(Files) /\ IsInjective(files)
         /\ Len(files) \in Nat /\ fileIndex \in 0 .. Len(files)
         /\ rank \in 1 .. nProcs
         /\ MoreFiles => files[fileIndex + 1] \in Files
BY ConstantsOK DEF TypeOK, Ranks, MoreFiles

LEMMA SendTyped ==
  ASSUME TypeOK, NEW r \in Ranks, NEW m \in Message, SendToSlave(r, m)
  PROVE  toSlave' \in [Ranks -> Seq(Message)]
BY DEF TypeOK, SendToSlave

LEMMA CollectTyped ==
  ASSUME TypeOK, ShapeInv, NEW r \in Ranks, Collect(r),
         UNCHANGED <<slaveVars, toSlave>>
  PROVE  /\ toMaster' \in [Ranks -> Seq(ResultMessage)]
         /\ sender' \in 0 .. nProcs - 1
         /\ totals' \in [Ranks -> Nat]
         /\ collected' \subseteq Files
<1>1. PICK f \in Files : /\ collected' = collected \cup {f}
                         /\ totals' = [totals EXCEPT ![r] = @ + Result[f]]
  BY CollectEffect
<1>2. collected' \subseteq Files /\ totals' \in [Ranks -> Nat]
  BY <1>1, ConstantsOK DEF TypeOK
<1>3. toMaster' \in [Ranks -> Seq(ResultMessage)]
  BY DEF TypeOK, Collect
<1>4. sender' \in 0 .. nProcs - 1
  BY ConstantsOK DEF Collect, Ranks
<1>. QED BY <1>2, <1>3, <1>4

LEMMA MasterType ==
  ASSUME IInv, Master
  PROVE  TypeOK'
<1>. USE DEF IInv
<1>. USE RanksAndFiles
<1>1. CASE SeedSlave
  <2>1. rank \in Ranks /\ rank' \in 1 .. nProcs
    BY <1>1 DEF SeedSlave
  <2>2. CASE MoreFiles /\ SendWork(rank)
    <3>1. toSlave' \in [Ranks -> Seq(Message)]
      BY <2>1, <2>2, SendTyped, Messages DEF SendWork
    <3>2. fileIndex' \in 0 .. Len(files)
      BY <2>2 DEF SendWork, MoreFiles
    <3>. QED BY <1>1, <2>1, <3>1, <3>2, Master DEF Master, TypeOK, SeedSlave, slaveVars
  <2>3. CASE UNCHANGED <<toSlave, fileIndex>>
    BY <1>1, <2>1, <2>3, Master DEF Master, TypeOK, SeedSlave, slaveVars
  <2>. QED BY <1>1, <2>2, <2>3 DEF SeedSlave
<1>2. CASE SeedEnd
  <2>1. mpc' \in {"receive", "drain"} /\ rank' \in 1 .. nProcs
    BY <1>2, ConstantsOK DEF SeedEnd, LoopStart
  <2>. QED BY <1>2, <2>1, Master DEF Master, TypeOK, SeedEnd, slaveVars
<1>3. ASSUME NEW r \in Ranks, ReceiveResult(r) PROVE TypeOK'
  BY <1>3, CollectTyped, Master DEF Master, TypeOK, ReceiveResult, slaveVars
<1>4. ASSUME NEW r \in Ranks, DrainResult(r) PROVE TypeOK'
  <2>1. rank' \in 1 .. nProcs
    BY <1>4 DEF DrainResult
  <2>. QED
    BY <1>4, <2>1, CollectTyped, Master DEF Master, TypeOK, DrainResult, slaveVars
<1>5. CASE DispatchNext
  <2>1. sender \in Ranks /\ MoreFiles
    BY <1>5 DEF DispatchNext, LoopInv, MoreFiles
  <2>2. toSlave' \in [Ranks -> Seq(Message)]
    BY <1>5, <2>1, SendTyped, Messages DEF DispatchNext, SendWork
  <2>3. fileIndex' \in 0 .. Len(files)
    BY <1>5, <2>1 DEF DispatchNext, SendWork, MoreFiles
  <2>. QED BY <1>5, <2>2, <2>3, Master DEF Master, TypeOK, DispatchNext, slaveVars
<1>6. CASE DrainEnd
  <2>1. mpc' = "die" /\ rank' \in 1 .. nProcs
    BY <1>6, ConstantsOK DEF DrainEnd, LoopStart
  <2>. QED BY <1>6, <2>1, Master DEF Master, TypeOK, DrainEnd, slaveVars
<1>7. CASE SendDie
  <2>1. rank \in Ranks /\ rank' \in 1 .. nProcs
    BY <1>7 DEF SendDie
  <2>2. toSlave' \in [Ranks -> Seq(Message)]
    BY <1>7, <2>1, SendTyped, Messages DEF SendDie
  <2>. QED BY <1>7, <2>1, <2>2, Master DEF Master, TypeOK, SendDie, slaveVars
<1>8. CASE Return
  BY <1>8, Master DEF Master, TypeOK, Return, slaveVars
<1>. QED
  BY <1>1, <1>2, <1>3, <1>4, <1>5, <1>6, <1>7, <1>8, Master
     DEF Master, MasterReceives, MasterProceeds

LEMMA SlaveType ==
  ASSUME IInv, NEW r \in Ranks, Slave(r)
  PROVE  TypeOK'
<1>. USE DEF IInv
<1>1. CASE TakeWork(r)
  <2>1. toSlave' \in [Ranks -> Seq(Message)]
    BY <1>1 DEF TypeOK, TakeWork, TakeMessage
  <2>2. PICK f \in Files : Busy(r, f)'
    BY <1>1, TakeWorkEffect
  <2>3. work' \in [Ranks -> SUBSET Files]
    BY <1>1, <2>2 DEF TypeOK, TakeWork, Busy, At
  <2>4. spc' \in [Ranks -> {"recv", "busy", "exit"}]
    BY <1>1 DEF TypeOK, TakeWork
  <2>. QED BY <1>1, <2>1, <2>3, <2>4, Slave(r) DEF TypeOK, TakeWork, masterVars, Slave
<1>2. CASE Reply(r)
  <2>1. toMaster' \in [Ranks -> Seq(ResultMessage)]
    <3>1. PICK f \in work[r] :
            toMaster' = [toMaster EXCEPT ![r] = Append(@, ResultMsg(f))]
      BY <1>2 DEF Reply
    <3>2. ResultMsg(f) \in ResultMessage
      BY <3>1 DEF TypeOK, ResultMessage
    <3>. QED BY <3>1, <3>2 DEF TypeOK
  <2>2. work' \in [Ranks -> SUBSET Files] /\ spc' \in [Ranks -> {"recv", "busy", "exit"}]
    BY <1>2 DEF TypeOK, Reply
  <2>. QED BY <1>2, <2>1, <2>2, Slave(r) DEF TypeOK, Reply, masterVars, Slave
<1>3. CASE TakeDie(r)
  <2>1. toSlave' \in [Ranks -> Seq(Message)]
    BY <1>3 DEF TypeOK, TakeDie, TakeMessage
  <2>2. spc' \in [Ranks -> {"recv", "busy", "exit"}]
    BY <1>3 DEF TypeOK, TakeDie
  <2>. QED BY <1>3, <2>1, <2>2, Slave(r) DEF TypeOK, TakeDie, masterVars, Slave
<1>. QED BY <1>1, <1>2, <1>3, Slave(r) DEF Slave

-----------------------------------------------------------------------------
(* The four ways a step changes the shape of one slave r, and what each    *)
(* does to ConserveInv.                                                    *)

LEMMA OthersKeepShape ==
  ASSUME NEW r, OthersStill(r), NEW s \in Ranks, s # r
  PROVE  /\ Idle(s)' <=> Idle(s)
         /\ Dying(s)' <=> Dying(s)
         /\ Exited(s)' <=> Exited(s)
         /\ \A f : Has(s, f)' <=> Has(s, f)
         /\ HasFile(s)' <=> HasFile(s)
BY StillKeepsShape DEF OthersStill

(* Slave r passes its file on along its way.                               *)
LEMMA FileMoves ==
  ASSUME IInv, NEW r \in Ranks, NEW f \in Files,
         Has(r, f), Has(r, f)', OthersStill(r),
         UNCHANGED <<files, fileIndex, collected>>
  PROVE  /\ \A s \in Ranks : \A g : Has(s, g)' <=> Has(s, g)
         /\ \A s \in Ranks : HasFile(s)' <=> HasFile(s)
         /\ ConserveInv'
<1>1. \A s \in Ranks : \A g : Has(s, g)' <=> Has(s, g)
  BY Exclusive, ExclusiveNext, OthersKeepShape DEF Exclusion
<1>2. \A s \in Ranks : HasFile(s)' <=> HasFile(s)
  BY <1>1 DEF HasFile
<1>3. ConserveInv'
  BY <1>1 DEF IInv, ConserveInv, HandedOut
<1>. QED BY <1>1, <1>2, <1>3

(* Slave r, which has no file before and after, changes otherwise.         *)
LEMMA NoFileMoves ==
  ASSUME IInv, NEW r \in Ranks, OthersStill(r),
         Idle(r) \/ Dying(r) \/ Exited(r), (Idle(r) \/ Dying(r) \/ Exited(r))',
         UNCHANGED <<files, fileIndex, collected>>
  PROVE  /\ \A s \in Ranks : \A g : Has(s, g)' <=> Has(s, g)
         /\ \A s \in Ranks : HasFile(s)' <=> HasFile(s)
         /\ ConserveInv'
<1>1. \A s \in Ranks : \A g : Has(s, g)' <=> Has(s, g)
  BY Exclusive, ExclusiveNext, OthersKeepShape DEF Exclusion
<1>2. \A s \in Ranks : HasFile(s)' <=> HasFile(s)
  BY <1>1 DEF HasFile
<1>3. ConserveInv'
  BY <1>1 DEF IInv, ConserveInv, HandedOut
<1>. QED BY <1>1, <1>2, <1>3

(* The next file of the list goes to an idle slave r.                      *)
LEMMA FileGiven ==
  ASSUME IInv, NEW r \in Ranks, Idle(r), MoreFiles, SendWork(r),
         UNCHANGED <<files, collected, slaveVars, toMaster>>
  PROVE  \E g \in Files : /\ g = files[fileIndex + 1]
                         /\ Sent(r, g)' /\ HasFile(r)'
                         /\ OthersStill(r)
                         /\ ConserveInv'
<1>1. /\ files[fileIndex + 1] \in Files
      /\ fileIndex \in Nat /\ Len(files) \in Nat /\ fileIndex < Len(files)
  BY RanksAndFiles DEF IInv, MoreFiles
<1>2. PICK g \in Files : g = files[fileIndex + 1]
  BY <1>1
<1>3. Sent(r, g)' /\ OthersStill(r)
  BY <1>2, SendToSlaveEffect DEF SendWork, IInv, Sent
<1>4. Has(r, g)' /\ HasFile(r)'
  BY <1>3 DEF HasFile, Has
<1>5. HandedOut' = HandedOut \cup {g}
  BY <1>1, <1>2 DEF HandedOut, SendWork
<1>6. g \notin HandedOut
  <2>1. SUFFICES ASSUME NEW i \in 1 .. fileIndex, files[i] = g PROVE FALSE
    BY DEF HandedOut
  <2>2. /\ DOMAIN files = 1 .. Len(files)
        /\ \A a, b \in DOMAIN files : files[a] = files[b] => a = b
    BY RanksAndFiles DEF IInv, IsInjective
  <2>. QED BY <1>1, <1>2, <2>1, <2>2
<1>7. \A h : Has(r, h)' <=> h = g
  BY <1>4, ExclusiveNext DEF Exclusion
<1>8. \A h : ~Has(r, h)
  BY Exclusive DEF Exclusion
<1>9. \A s \in Ranks : s # r => \A h : Has(s, h)' <=> Has(s, h)
  BY <1>3, OthersKeepShape
<1>10. {f \in Files : \E s \in Ranks : Has(s, f)}'
         = {f \in Files : \E s \in Ranks : Has(s, f)} \cup {g}
  BY <1>2, <1>7, <1>8, <1>9
<1>11. ConserveInv'
  <2>1. HandedOut' = collected' \cup {f \in Files : \E s \in Ranks : Has(s, f)}'
    BY <1>5, <1>10 DEF IInv, ConserveInv
  <2>2. ASSUME NEW s \in Ranks, NEW f \in Files, Has(s, f)'
        PROVE  f \notin collected'
    BY <2>2, <1>6, <1>7, <1>9 DEF IInv, ConserveInv
  <2>3. ASSUME NEW s \in Ranks, NEW t \in Ranks, NEW f \in Files,
               Has(s, f)', Has(t, f)'
        PROVE  s = t
    BY <2>3, <1>6, <1>7, <1>9 DEF IInv, ConserveInv
  <2>. QED BY <2>1, <2>2, <2>3 DEF ConserveInv
<1>. QED BY <1>2, <1>3, <1>4, <1>11

(* The result of slave r arrives.                                          *)
LEMMA FileCollected ==
  ASSUME IInv, NEW r \in Ranks, Collect(r),
         UNCHANGED <<files, fileIndex, slaveVars, toSlave>>
  PROVE  \E f \in Files : /\ Has(r, f) /\ Idle(r)' /\ OthersStill(r)
                         /\ collected' = collected \cup {f}
                         /\ f \notin collected
                         /\ ConserveInv'
<1>1. PICK f \in Files : /\ Replied(r, f) /\ Idle(r)' /\ OthersStill(r)
                         /\ collected' = collected \cup {f}
  BY CollectEffect DEF IInv
<1>2. Has(r, f)
  BY <1>1 DEF Has
<1>3. \A h : Has(r, h) <=> h = f
  BY <1>2, Exclusive DEF Exclusion
<1>4. \A h : ~Has(r, h)'
  BY <1>1, ExclusiveNext DEF Exclusion
<1>5. \A s \in Ranks : s # r => \A h : Has(s, h)' <=> Has(s, h)
  BY <1>1, OthersKeepShape
<1>6. f \notin collected
  BY <1>2 DEF IInv, ConserveInv
<1>7. ConserveInv'
  <2>1. HandedOut' = collected' \cup {h \in Files : \E s \in Ranks : Has(s, h)}'
    BY <1>1, <1>3, <1>4, <1>5 DEF IInv, ConserveInv, HandedOut
  <2>2. ASSUME NEW s \in Ranks, NEW h \in Files, Has(s, h)'
        PROVE  h \notin collected'
    BY <2>2, <1>1, <1>3, <1>4, <1>5 DEF IInv, ConserveInv
  <2>3. ASSUME NEW s \in Ranks, NEW t \in Ranks, NEW h \in Files,
               Has(s, h)', Has(t, h)'
        PROVE  s = t
    BY <2>3, <1>4, <1>5 DEF IInv, ConserveInv
  <2>. QED BY <2>1, <2>2, <2>3 DEF ConserveInv
<1>. QED BY <1>1, <1>2, <1>6, <1>7

(* The files of the list are no more than its length.                      *)
LEMMA ListedBound ==
  ASSUME TypeOK
  PROVE  IsFiniteSet(ListedFiles) /\ Cardinality(ListedFiles) <= Len(files)
<1>. DEFINE n == Len(files)
            F == [i \in 1 .. n |-> files[i]]
<1>1. n \in Nat
  BY RanksAndFiles
<1>2. F \in Surjection(1 .. n, ListedFiles)
  BY DEF Surjection, ListedFiles
<1>. HIDE DEF F, n
<1>3. IsFiniteSet(1 .. n) /\ Cardinality(1 .. n) = n
  <2>1. /\ IsFiniteSet(1 .. n)
        /\ Cardinality(1 .. n) = IF 1 > n THEN 0 ELSE n - 1 + 1
    BY <1>1, FS_Interval
  <2>. QED BY <1>1, <2>1
<1>4. IsFiniteSet(ListedFiles) /\ Cardinality(ListedFiles) <= n
  BY <1>2, <1>3, FS_Surjection
<1>. QED BY <1>4 DEF n

(* Once as many results are in as there are files, all of them are.        *)
LEMMA AllCollected ==
  ASSUME IInv, fileIndex = Len(files), Count >= Len(files)
  PROVE  collected = ListedFiles
<1>1. HandedOut = ListedFiles
  BY DEF HandedOut, ListedFiles
<1>2. collected \subseteq ListedFiles
  BY <1>1 DEF IInv, ConserveInv
<1>3. IsFiniteSet(ListedFiles) /\ Cardinality(ListedFiles) <= Len(files)
  BY ListedBound DEF IInv
<1>4. /\ Cardinality(collected) <= Cardinality(ListedFiles)
      /\ Cardinality(ListedFiles) = Cardinality(collected) => ListedFiles = collected
  BY <1>2, <1>3, FS_Subset
<1>5. Cardinality(collected) \in Nat /\ Cardinality(ListedFiles) \in Nat
  BY <1>3, FS_CardinalityType DEF IInv, LoopInv
<1>6. Len(files) \in Nat
  BY RanksAndFiles DEF IInv
<1>. QED BY <1>3, <1>4, <1>5, <1>6 DEF Count

LEMMA CountNat ==
  ASSUME IInv
  PROVE  /\ Count \in Nat
         /\ \A f : f \notin collected =>
              /\ IsFiniteSet(collected \cup {f})
              /\ Cardinality(collected \cup {f}) = Count + 1
<1>1. IsFiniteSet(collected)
  BY DEF IInv, LoopInv
<1>. QED BY <1>1, FS_CardinalityType, FS_AddElement DEF Count

(* What is left of the invariant once TypeOK and ConserveInv are known.    *)
RestInv == ShapeInv /\ ExitInv /\ LoopInv

(* RestInv survives a step that changes neither the master's loop nor what *)
(* it says of any slave.                                                   *)
LEMMA SameRest ==
  ASSUME IInv, UNCHANGED <<mpc, files, fileIndex, rank, sender, collected>>,
         \A s \in Ranks :
           /\ Idle(s)' <=> Idle(s)
           /\ HasFile(s)' <=> HasFile(s)
           /\ (Dying(s) \/ Exited(s))' <=> (Dying(s) \/ Exited(s))
  PROVE  RestInv'
<1>1. ShapeInv'
  BY DEF IInv, ShapeInv
<1>2. ExitInv'
  BY DEF IInv, ExitInv
<1>3. LoopInv'
  BY DEF IInv, LoopInv, Count, ListedFiles, EnoughFiles
<1>. QED BY <1>1, <1>2, <1>3 DEF RestInv

-----------------------------------------------------------------------------
(* The initial states.                                                     *)

LEMMA InitInv == Init => IInv
<1>. SUFFICES ASSUME Init PROVE IInv
  OBVIOUS
<1>1. /\ nProcs \in Nat \ {0}
      /\ files \in Seq(Files) /\ Len(files) \in Nat
  BY ConstantsOK DEF Init
<1>2. TypeOK
  BY <1>1 DEF Init, TypeOK, Ranks
<1>3. \A r \in Ranks : Idle(r)
  BY DEF Init, Idle, At
<1>4. ShapeInv
  BY <1>3 DEF ShapeInv
<1>5. ExitInv
  BY <1>3, Exclusive DEF ExitInv, Exclusion, Init
<1>6. ConserveInv
  <2>1. \A r \in Ranks, f \in Files : ~Has(r, f)
    BY <1>3, Exclusive DEF Exclusion
  <2>2. HandedOut = {}
    BY DEF HandedOut, Init
  <2>. QED BY <2>1, <2>2 DEF ConserveInv, Init
<1>7. LoopInv
  <2>1. IsFiniteSet(collected)
    BY FS_EmptySet DEF Init
  <2>2. \A r \in Ranks : ~(r < rank)
    BY DEF Init, Ranks
  <2>. QED BY <1>3, <2>1, <2>2 DEF LoopInv, Init
<1>. QED BY <1>2, <1>4, <1>5, <1>6, <1>7 DEF IInv

-----------------------------------------------------------------------------
(* The steps of the slaves.                                                *)

LEMMA TakeWorkStep ==
  ASSUME IInv, NEW r \in Ranks, TakeWork(r)
  PROVE  ConserveInv' /\ RestInv'
<1>1. PICK f \in Files : Sent(r, f) /\ Busy(r, f)' /\ OthersStill(r)
  BY TakeWorkEffect DEF IInv
<1>2. Has(r, f) /\ Has(r, f)'
  BY <1>1 DEF Has
<1>3. UNCHANGED <<mpc, files, fileIndex, rank, sender, collected>>
  BY DEF TakeWork, masterVars
<1>4. /\ \A s \in Ranks : HasFile(s)' <=> HasFile(s)
      /\ ConserveInv'
  BY <1>1, <1>2, <1>3, FileMoves
<1>5. ~Idle(r) /\ ~Dying(r) /\ ~Exited(r) /\ HasFile(r)
  BY <1>2, Exclusive DEF Exclusion, HasFile
<1>6. ~Idle(r)' /\ ~Dying(r)' /\ ~Exited(r)'
  BY <1>2, ExclusiveNext DEF Exclusion
<1>7. \A s \in Ranks : /\ Idle(s)' <=> Idle(s)
                       /\ Dying(s)' <=> Dying(s)
                       /\ Exited(s)' <=> Exited(s)
  BY <1>1, <1>5, <1>6, OthersKeepShape
<1>. QED BY <1>3, <1>4, <1>7, SameRest

LEMMA ReplyStep ==
  ASSUME IInv, NEW r \in Ranks, Reply(r)
  PROVE  ConserveInv' /\ RestInv'
<1>1. PICK f \in Files : Busy(r, f) /\ Replied(r, f)' /\ OthersStill(r)
  BY ReplyEffect DEF IInv
<1>2. Has(r, f) /\ Has(r, f)'
  BY <1>1 DEF Has
<1>3. UNCHANGED <<mpc, files, fileIndex, rank, sender, collected>>
  BY DEF Reply, masterVars
<1>4. /\ \A s \in Ranks : HasFile(s)' <=> HasFile(s)
      /\ ConserveInv'
  BY <1>1, <1>2, <1>3, FileMoves
<1>5. ~Idle(r) /\ ~Dying(r) /\ ~Exited(r) /\ HasFile(r)
  BY <1>2, Exclusive DEF Exclusion, HasFile
<1>6. ~Idle(r)' /\ ~Dying(r)' /\ ~Exited(r)'
  BY <1>2, ExclusiveNext DEF Exclusion
<1>7. \A s \in Ranks : /\ Idle(s)' <=> Idle(s)
                       /\ Dying(s)' <=> Dying(s)
                       /\ Exited(s)' <=> Exited(s)
  BY <1>1, <1>5, <1>6, OthersKeepShape
<1>. QED BY <1>3, <1>4, <1>7, SameRest

LEMMA TakeDieStep ==
  ASSUME IInv, NEW r \in Ranks, TakeDie(r)
  PROVE  ConserveInv' /\ RestInv'
<1>1. Dying(r) /\ Exited(r)' /\ OthersStill(r)
  BY TakeDieEffect DEF IInv
<1>2. UNCHANGED <<mpc, files, fileIndex, rank, sender, collected>>
  BY DEF TakeDie, masterVars
<1>3. /\ \A s \in Ranks : HasFile(s)' <=> HasFile(s)
      /\ ConserveInv'
  BY <1>1, <1>2, NoFileMoves
<1>4. ~Idle(r)
  BY <1>1, Exclusive DEF Exclusion
<1>5. ~Idle(r)'
  BY <1>1, ExclusiveNext DEF Exclusion
<1>6. \A s \in Ranks : /\ Idle(s)' <=> Idle(s)
                       /\ (Dying(s) \/ Exited(s))' <=> (Dying(s) \/ Exited(s))
  BY <1>1, <1>4, <1>5, OthersKeepShape
<1>. QED BY <1>2, <1>3, <1>6, SameRest

-----------------------------------------------------------------------------
(* The steps of the master.                                                *)

LEMMA SeedSlaveStep ==
  ASSUME IInv, SeedSlave
  PROVE  ConserveInv' /\ RestInv'
<1>1. /\ mpc = "seed" /\ mpc' = "seed" /\ rank' = rank + 1
      /\ UNCHANGED <<files, sender, collected, slaveVars, toMaster>>
  BY DEF SeedSlave
<1>2. PICK r \in Ranks : r = rank
  BY RanksAndFiles DEF SeedSlave, IInv
<1>3. /\ \A s \in Ranks : s >= r => Idle(s)
      /\ collected = {} /\ IsFiniteSet(collected)
      /\ fileIndex <= r - 1
      /\ fileIndex < r - 1 => fileIndex = Len(files)
      /\ fileIndex = r - 1 => \A s \in Ranks : s < r => HasFile(s)
      /\ r \in Nat /\ fileIndex \in Nat /\ Len(files) \in Nat
      /\ fileIndex <= Len(files)
      /\ Ranks \subseteq Nat
  BY <1>1, <1>2, RanksAndFiles DEF IInv, LoopInv
<1>4. CASE MoreFiles /\ SendWork(rank)
  <2>1. Idle(r) /\ SendWork(r)
    BY <1>2, <1>3, <1>4
  <2>2. PICK g \in Files : /\ Sent(r, g)' /\ HasFile(r)'
                           /\ OthersStill(r) /\ ConserveInv'
    BY <1>1, <1>4, <2>1, FileGiven
  <2>3. Has(r, g)'
    BY <2>2 DEF Has
  <2>4. /\ ~Idle(r)' /\ ~Dying(r)' /\ ~Exited(r)'
        /\ ~Dying(r) /\ ~Exited(r)
    BY <2>1, <2>3, Exclusive, ExclusiveNext DEF Exclusion
  <2>5. fileIndex = r - 1 /\ fileIndex' = fileIndex + 1
    BY <1>3, <1>4 DEF MoreFiles, SendWork
  <2>6. \A s \in Ranks : s # r => /\ Idle(s)' <=> Idle(s)
                                  /\ HasFile(s)' <=> HasFile(s)
                                  /\ Dying(s)' <=> Dying(s)
                                  /\ Exited(s)' <=> Exited(s)
    BY <2>2, OthersKeepShape
  <2>7. ShapeInv'
    BY <2>2, <2>6 DEF ShapeInv, IInv
  <2>8. ExitInv'
    BY <1>1, <2>4, <2>6 DEF ExitInv, IInv
  <2>9. LoopInv'
    <3>1. \A s \in Ranks : s >= rank' => Idle(s)'
      BY <1>1, <1>2, <1>3, <2>6
    <3>2. \A s \in Ranks : s < rank' => HasFile(s)'
      BY <1>1, <1>2, <1>3, <2>2, <2>5, <2>6
    <3>3. fileIndex' = rank' - 1
      BY <1>1, <1>2, <1>3, <2>5
    <3>. QED BY <1>1, <1>3, <3>1, <3>2, <3>3 DEF LoopInv
  <2>. QED BY <2>2, <2>7, <2>8, <2>9 DEF RestInv
<1>5. CASE ~MoreFiles /\ UNCHANGED <<toSlave, fileIndex>>
  <2>1. \A s \in Ranks : Still(s)
    BY <1>1, <1>5 DEF Still, slaveVars
  <2>2. \A s \in Ranks : /\ Idle(s)' <=> Idle(s)
                         /\ HasFile(s)' <=> HasFile(s)
                         /\ Dying(s)' <=> Dying(s)
                         /\ Exited(s)' <=> Exited(s)
                         /\ \A f : Has(s, f)' <=> Has(s, f)
    BY <2>1, StillKeepsShape
  <2>3. fileIndex = Len(files)
    BY <1>3, <1>5 DEF MoreFiles
  <2>4. ConserveInv'
    BY <1>1, <1>5, <2>2 DEF IInv, ConserveInv, HandedOut
  <2>5. ShapeInv' /\ ExitInv'
    BY <1>1, <2>2 DEF IInv, ShapeInv, ExitInv
  <2>6. LoopInv'
    BY <1>1, <1>2, <1>3, <1>5, <2>2, <2>3 DEF LoopInv
  <2>. QED BY <2>4, <2>5, <2>6 DEF RestInv
<1>. QED BY <1>4, <1>5 DEF SeedSlave

(* A step of the master that sends and receives nothing.                   *)
LEMMA QuietStep ==
  ASSUME IInv, UNCHANGED <<files, fileIndex, collected, slaveVars, toSlave, toMaster>>
  PROVE  /\ \A s \in Ranks : /\ Idle(s)' <=> Idle(s)
                             /\ HasFile(s)' <=> HasFile(s)
                             /\ Dying(s)' <=> Dying(s)
                             /\ Exited(s)' <=> Exited(s)
         /\ ConserveInv' /\ ShapeInv'
<1>1. \A s \in Ranks : Still(s)
  BY DEF Still, slaveVars
<1>2. \A s \in Ranks : /\ Idle(s)' <=> Idle(s)
                       /\ HasFile(s)' <=> HasFile(s)
                       /\ Dying(s)' <=> Dying(s)
                       /\ Exited(s)' <=> Exited(s)
                       /\ \A f : Has(s, f)' <=> Has(s, f)
  BY <1>1, StillKeepsShape
<1>3. ConserveInv'
  BY <1>2 DEF IInv, ConserveInv, HandedOut
<1>4. ShapeInv'
  BY <1>2 DEF IInv, ShapeInv
<1>. QED BY <1>2, <1>3, <1>4

LEMMA SeedEndStep ==
  ASSUME IInv, SeedEnd
  PROVE  ConserveInv' /\ RestInv'
<1>1. /\ mpc = "seed" /\ rank = nProcs /\ rank' = 1
      /\ mpc' = IF MoreFiles THEN "receive" ELSE "drain"
      /\ UNCHANGED <<files, fileIndex, sender, collected,
                     slaveVars, toSlave, toMaster>>
  BY DEF SeedEnd, LoopStart
<1>2. /\ \A s \in Ranks : /\ HasFile(s)' <=> HasFile(s)
                          /\ Dying(s)' <=> Dying(s)
                          /\ Exited(s)' <=> Exited(s)
      /\ ConserveInv' /\ ShapeInv'
  BY <1>1, QuietStep
<1>3. /\ nProcs \in Nat /\ fileIndex \in Nat /\ Len(files) \in Nat
      /\ fileIndex <= Len(files)
      /\ \A s \in Ranks : s < nProcs
  BY RanksAndFiles DEF IInv
<1>4. /\ IsFiniteSet(collected) /\ collected = {}
      /\ fileIndex <= nProcs - 1
      /\ fileIndex < nProcs - 1 => fileIndex = Len(files)
      /\ fileIndex = nProcs - 1 => \A s \in Ranks : HasFile(s)
  BY <1>1, <1>3 DEF IInv, LoopInv
<1>5. Cardinality(collected) = 0
  BY <1>4, FS_EmptySet
<1>6. ExitInv'
  BY <1>1, <1>2 DEF IInv, ExitInv
<1>7. LoopInv'
  <2>1. CASE MoreFiles
    <3>1. fileIndex < Len(files) /\ fileIndex = nProcs - 1
      BY <1>3, <1>4, <2>1 DEF MoreFiles
    <3>2. Count' = fileIndex' - (nProcs - 1)
      BY <1>1, <1>3, <1>5, <3>1 DEF Count
    <3>. QED BY <1>1, <1>2, <1>4, <2>1, <3>1, <3>2 DEF LoopInv
  <2>2. CASE ~MoreFiles
    <3>1. fileIndex = Len(files)
      BY <1>3, <2>2 DEF MoreFiles
    <3>2. /\ Count' >= Len(files) - (nProcs - 1) + (rank' - 1)
          /\ Count' >= rank' - 1
      BY <1>1, <1>3, <1>4, <1>5, <3>1 DEF Count
    <3>. QED BY <1>1, <1>4, <2>2, <3>1, <3>2 DEF LoopInv
  <2>. QED BY <2>1, <2>2
<1>. QED BY <1>2, <1>6, <1>7 DEF RestInv

LEMMA ReceiveResultStep ==
  ASSUME IInv, NEW r \in Ranks, ReceiveResult(r)
  PROVE  ConserveInv' /\ RestInv'
<1>1. /\ mpc = "receive" /\ mpc' = "dispatch" /\ Collect(r) /\ sender' = r
      /\ UNCHANGED <<files, fileIndex, rank, slaveVars, toSlave>>
  BY DEF ReceiveResult, Collect
<1>2. PICK f \in Files : /\ Has(r, f) /\ Idle(r)' /\ OthersStill(r)
                         /\ collected' = collected \cup {f}
                         /\ f \notin collected
                         /\ ConserveInv'
  BY <1>1, FileCollected
<1>3. \A s \in Ranks : s # r => /\ Idle(s)' <=> Idle(s)
                                /\ HasFile(s)' <=> HasFile(s)
                                /\ Dying(s)' <=> Dying(s)
                                /\ Exited(s)' <=> Exited(s)
  BY <1>2, OthersKeepShape
<1>4. ~Dying(r) /\ ~Exited(r) /\ ~Dying(r)' /\ ~Exited(r)'
  BY <1>2, Exclusive, ExclusiveNext DEF Exclusion
<1>5. ShapeInv'
  BY <1>2, <1>3 DEF IInv, ShapeInv
<1>6. ExitInv'
  BY <1>1, <1>3, <1>4 DEF IInv, ExitInv
<1>7. LoopInv'
  <2>1. IsFiniteSet(collected') /\ Count' = Count + 1 /\ Count \in Nat
    BY <1>2, CountNat DEF Count
  <2>2. /\ nProcs \in Nat /\ fileIndex \in Nat /\ rank = 1
        /\ fileIndex < Len(files)
        /\ Count = fileIndex - (nProcs - 1)
        /\ \A s \in Ranks : HasFile(s)
    BY <1>1, RanksAndFiles DEF IInv, LoopInv
  <2>3. Count' = fileIndex' - (nProcs - 1) + 1
    BY <1>1, <2>1, <2>2
  <2>. QED BY <1>1, <1>2, <1>3, <2>1, <2>2, <2>3 DEF LoopInv
<1>. QED BY <1>2, <1>5, <1>6, <1>7 DEF RestInv

LEMMA DrainResultStep ==
  ASSUME IInv, NEW r \in Ranks, DrainResult(r)
  PROVE  ConserveInv' /\ RestInv'
<1>1. /\ mpc = "drain" /\ mpc' = "drain" /\ Collect(r) /\ rank' = rank + 1
      /\ UNCHANGED <<files, fileIndex, slaveVars, toSlave>>
  BY DEF DrainResult
<1>2. PICK f \in Files : /\ Has(r, f) /\ Idle(r)' /\ OthersStill(r)
                         /\ collected' = collected \cup {f}
                         /\ f \notin collected
                         /\ ConserveInv'
  BY <1>1, FileCollected
<1>3. \A s \in Ranks : s # r => /\ Idle(s)' <=> Idle(s)
                                /\ HasFile(s)' <=> HasFile(s)
                                /\ Dying(s)' <=> Dying(s)
                                /\ Exited(s)' <=> Exited(s)
  BY <1>2, OthersKeepShape
<1>4. ~Dying(r) /\ ~Exited(r) /\ ~Dying(r)' /\ ~Exited(r)'
  BY <1>2, Exclusive, ExclusiveNext DEF Exclusion
<1>5. ShapeInv'
  BY <1>2, <1>3 DEF IInv, ShapeInv
<1>6. ExitInv'
  BY <1>1, <1>3, <1>4 DEF IInv, ExitInv
<1>7. LoopInv'
  <2>1. IsFiniteSet(collected') /\ Count' = Count + 1 /\ Count \in Nat
    BY <1>2, CountNat DEF Count
  <2>2. /\ nProcs \in Nat /\ rank \in Nat /\ Len(files) \in Nat
        /\ fileIndex = Len(files)
        /\ Count >= Len(files) - (nProcs - 1) + (rank - 1)
        /\ Count >= rank - 1
    BY <1>1, RanksAndFiles DEF IInv, LoopInv
  <2>3. /\ Count' >= Len(files') - (nProcs - 1) + (rank' - 1)
        /\ Count' >= rank' - 1
    BY <1>1, <2>1, <2>2
  <2>. QED BY <1>1, <2>1, <2>2, <2>3 DEF LoopInv
<1>. QED BY <1>2, <1>5, <1>6, <1>7 DEF RestInv

LEMMA DispatchNextStep ==
  ASSUME IInv, DispatchNext
  PROVE  ConserveInv' /\ RestInv'
<1>1. /\ mpc = "dispatch"
      /\ mpc' = IF fileIndex + 1 < Len(files) THEN "receive" ELSE "drain"
      /\ SendWork(sender) /\ fileIndex' = fileIndex + 1
      /\ UNCHANGED <<files, rank, sender, collected, slaveVars, toMaster>>
  BY DEF DispatchNext, SendWork
<1>2. /\ nProcs \in Nat /\ fileIndex \in Nat /\ Len(files) \in Nat
      /\ rank = 1 /\ fileIndex < Len(files)
      /\ Count = fileIndex - (nProcs - 1) + 1
      /\ \A s \in Ranks : s # sender => HasFile(s)
      /\ sender \in Ranks /\ Idle(sender)
      /\ IsFiniteSet(collected)
  BY <1>1, RanksAndFiles DEF IInv, LoopInv
<1>3. PICK r \in Ranks : r = sender
  BY <1>2
<1>4. PICK g \in Files : /\ Sent(r, g)' /\ HasFile(r)'
                         /\ OthersStill(r) /\ ConserveInv'
  BY <1>1, <1>2, <1>3, FileGiven DEF MoreFiles
<1>5. \A s \in Ranks : s # r => /\ Idle(s)' <=> Idle(s)
                                /\ HasFile(s)' <=> HasFile(s)
                                /\ Dying(s)' <=> Dying(s)
                                /\ Exited(s)' <=> Exited(s)
  BY <1>4, OthersKeepShape
<1>6. Has(r, g)'
  BY <1>4 DEF Has
<1>7. ~Dying(r) /\ ~Exited(r) /\ ~Dying(r)' /\ ~Exited(r)'
  BY <1>2, <1>3, <1>6, Exclusive, ExclusiveNext DEF Exclusion
<1>8. ShapeInv'
  BY <1>4, <1>5 DEF IInv, ShapeInv
<1>9. ExitInv'
  BY <1>1, <1>5, <1>7 DEF IInv, ExitInv
<1>10. LoopInv'
  <2>1. Count' = Count
    BY <1>1 DEF Count
  <2>2. Count' = fileIndex' - (nProcs - 1)
    BY <1>1, <1>2, <2>1
  <2>3. \A s \in Ranks : HasFile(s)'
    BY <1>2, <1>3, <1>4, <1>5
  <2>4. CASE fileIndex + 1 < Len(files)
    BY <1>1, <1>2, <2>2, <2>3, <2>4 DEF LoopInv
  <2>5. CASE ~(fileIndex + 1 < Len(files))
    <3>1. fileIndex' = Len(files)
      BY <1>1, <1>2, <2>5
    <3>2. /\ Count' >= Len(files) - (nProcs - 1) + (rank' - 1)
          /\ Count' >= rank' - 1
      BY <1>1, <1>2, <2>1, <2>2, <3>1, CountNat
    <3>. QED BY <1>1, <1>2, <2>5, <3>1, <3>2 DEF LoopInv
  <2>. QED BY <2>4, <2>5
<1>. QED BY <1>4, <1>8, <1>9, <1>10 DEF RestInv

LEMMA DrainEndStep ==
  ASSUME IInv, DrainEnd
  PROVE  ConserveInv' /\ RestInv'
<1>1. /\ mpc = "drain" /\ rank = nProcs /\ rank' = 1 /\ mpc' = "die"
      /\ UNCHANGED <<files, fileIndex, sender, collected,
                     slaveVars, toSlave, toMaster>>
  BY DEF DrainEnd, LoopStart
<1>2. /\ \A s \in Ranks : /\ Dying(s)' <=> Dying(s)
                          /\ Exited(s)' <=> Exited(s)
      /\ ConserveInv' /\ ShapeInv'
  BY <1>1, QuietStep
<1>3. ExitInv'
  <2>1. \A s \in Ranks : ~(s < rank')
    BY <1>1, RanksAndFiles DEF IInv
  <2>. QED BY <1>1, <1>2, <2>1 DEF IInv, ExitInv
<1>4. collected = ListedFiles /\ EnoughFiles
  <2>1. /\ fileIndex = Len(files)
        /\ Count >= Len(files) - (nProcs - 1) + (rank - 1) /\ Count >= rank - 1
    BY <1>1 DEF IInv, LoopInv
  <2>2. nProcs \in Nat /\ Len(files) \in Nat
    BY RanksAndFiles DEF IInv
  <2>3. Count >= Len(files)
    BY <1>1, <2>1, <2>2, CountNat
  <2>4. collected = ListedFiles
    BY <2>1, <2>3, AllCollected
  <2>5. Count <= Len(files)
    BY <2>4, ListedBound DEF IInv, Count
  <2>6. Len(files) >= nProcs - 1
    BY <1>1, <2>1, <2>2, <2>5, CountNat
  <2>. QED BY <2>4, <2>6 DEF EnoughFiles
<1>5. LoopInv'
  BY <1>1, <1>4 DEF IInv, LoopInv, ListedFiles, EnoughFiles
<1>. QED BY <1>2, <1>3, <1>5 DEF RestInv

(* In the exit loop no slave has a file any more.                          *)
LEMMA NoneHasFile ==
  ASSUME IInv, mpc \in {"die", "done"}
  PROVE  \A r \in Ranks : ~HasFile(r)
<1>1. HandedOut = collected
  BY DEF IInv, LoopInv, HandedOut, ListedFiles
<1>. QED BY <1>1 DEF IInv, ConserveInv, HasFile

LEMMA SendDieStep ==
  ASSUME IInv, SendDie
  PROVE  ConserveInv' /\ RestInv'
<1>1. /\ mpc = "die" /\ mpc' = "die" /\ rank' = rank + 1
      /\ SendToSlave(rank, DieMsg)
      /\ UNCHANGED <<files, fileIndex, sender, collected, slaveVars, toMaster>>
  BY DEF SendDie
<1>2. PICK r \in Ranks : r = rank
  BY RanksAndFiles DEF SendDie, IInv
<1>3. Idle(r)
  <2>1. ~Dying(r) /\ ~Exited(r)
    BY <1>1, <1>2, RanksAndFiles DEF IInv, ExitInv
  <2>. QED BY <1>1, <2>1, NoneHasFile DEF IInv, ShapeInv
<1>4. Dying(r)' /\ OthersStill(r)
  BY <1>1, <1>2, <1>3, SendToSlaveEffect DEF IInv, Dying
<1>5. ConserveInv'
  BY <1>1, <1>3, <1>4, NoFileMoves
<1>6. \A s \in Ranks : s # r => /\ Idle(s)' <=> Idle(s)
                                /\ HasFile(s)' <=> HasFile(s)
                                /\ Dying(s)' <=> Dying(s)
                                /\ Exited(s)' <=> Exited(s)
  BY <1>4, OthersKeepShape
<1>7. ShapeInv'
  BY <1>4, <1>6 DEF IInv, ShapeInv
<1>8. ExitInv'
  <2>1. \A s \in Ranks : s < rank' <=> s < rank \/ s = r
    BY <1>1, <1>2, RanksAndFiles DEF IInv
  <2>. QED BY <1>1, <1>4, <1>6, <2>1 DEF IInv, ExitInv
<1>9. LoopInv'
  BY <1>1 DEF IInv, LoopInv, ListedFiles, EnoughFiles
<1>. QED BY <1>5, <1>7, <1>8, <1>9 DEF RestInv

LEMMA ReturnStep ==
  ASSUME IInv, Return
  PROVE  ConserveInv' /\ RestInv'
<1>1. /\ mpc = "die" /\ mpc' = "done" /\ rank = nProcs
      /\ UNCHANGED <<files, fileIndex, rank, sender, collected,
                     slaveVars, toSlave, toMaster>>
  BY DEF Return
<1>2. /\ \A s \in Ranks : /\ Dying(s)' <=> Dying(s)
                          /\ Exited(s)' <=> Exited(s)
      /\ ConserveInv' /\ ShapeInv'
  BY <1>1, QuietStep
<1>3. ExitInv'
  <2>1. \A s \in Ranks : s < rank
    BY <1>1, RanksAndFiles DEF IInv
  <2>. QED BY <1>1, <1>2, <2>1 DEF IInv, ExitInv
<1>4. LoopInv'
  BY <1>1 DEF IInv, LoopInv, ListedFiles, EnoughFiles
<1>. QED BY <1>2, <1>3, <1>4 DEF RestInv
-----------------------------------------------------------------------------
(* The inductive invariant.                                                *)

LEMMA NextInv == IInv /\ [Next]_vars => IInv'
<1>. SUFFICES ASSUME IInv, [Next]_vars PROVE IInv'
  OBVIOUS
<1>1. CASE Master
  <2>1. TypeOK'
    BY <1>1, MasterType
  <2>2. ConserveInv' /\ RestInv'
    BY <1>1, SeedSlaveStep, SeedEndStep, ReceiveResultStep, DispatchNextStep,
       DrainResultStep, DrainEndStep, SendDieStep, ReturnStep
       DEF Master, MasterReceives, MasterProceeds
  <2>. QED BY <2>1, <2>2 DEF IInv, RestInv
<1>2. ASSUME NEW r \in Ranks, Slave(r) PROVE IInv'
  <2>1. TypeOK'
    BY <1>2, SlaveType
  <2>2. ConserveInv' /\ RestInv'
    BY <1>2, TakeWorkStep, ReplyStep, TakeDieStep DEF Slave
  <2>. QED BY <2>1, <2>2 DEF IInv, RestInv
<1>3. CASE UNCHANGED vars
  <2>1. UNCHANGED <<mpc, files, fileIndex, rank, sender, totals, collected,
                    spc, work, toSlave, toMaster, eager>>
    BY <1>3 DEF vars, masterVars, slaveVars
  <2>2. TypeOK'
    BY <2>1 DEF IInv, TypeOK
  <2>3. /\ \A s \in Ranks : /\ Idle(s)' <=> Idle(s)
                            /\ HasFile(s)' <=> HasFile(s)
                            /\ Dying(s)' <=> Dying(s)
                            /\ Exited(s)' <=> Exited(s)
        /\ ConserveInv'
    BY <2>1, QuietStep DEF slaveVars
  <2>4. RestInv'
    BY <2>1, <2>3, SameRest
  <2>. QED BY <2>2, <2>3, <2>4 DEF IInv, RestInv
<1>. QED BY <1>1, <1>2, <1>3 DEF Next, Terminating

(* The invariant that the theorems below rest on: every slave is idle, has *)
(* one file in one place, is told to exit or has exited; the files handed  *)
(* out are the collected ones and those of the slaves; and the number of   *)
(* results received is what the loop the master is in has reached.         *)
THEOREM Invariance == Spec => []IInv
BY InitInv, NextInv, PTL DEF Spec

(* Every variable keeps its type; in particular the master never sends to  *)
(* a rank outside 1 .. nProcs-1, and never reads past its work list.       *)
THEOREM TypeCorrect == Spec => []TypeOK
<1>1. IInv => TypeOK
  BY DEF IInv
<1>. QED BY <1>1, Invariance, PTL

-----------------------------------------------------------------------------
(* The safety properties.                                                  *)

LEMMA OutstandingIsHas ==
  ASSUME IInv, NEW r \in Ranks, NEW f \in Files
  PROVE  Outstanding(r, f) <=> Has(r, f)
<1>1. ASSUME Has(r, f) PROVE Outstanding(r, f)
  BY <1>1, Singleton DEF Has, Sent, Busy, Replied, At, Outstanding
<1>2. ASSUME Outstanding(r, f) PROVE Has(r, f)
  <2>1. \A m : Len(<<m>>) = 1 /\ <<m>>[1] = m
    BY Singleton
  <2>2. CASE Idle(r) \/ Dying(r) \/ Exited(r)
    <3>1. work[r] = {} /\ toMaster[r] = <<>>
      BY <2>2 DEF Idle, Dying, Exited, At
    <3>2. toSlave[r] = <<>> \/ toSlave[r] = <<DieMsg>>
      BY <2>2 DEF Idle, Dying, Exited, At
    <3>3. WorkMsg(f) # DieMsg
      BY Messages
    <3>4. ~Outstanding(r, f)
      <4>1. \A i \in 1 .. Len(toSlave[r]) : toSlave[r][i] # WorkMsg(f)
        BY <3>2, <3>3, Singleton
      <4>2. \A i \in 1 .. Len(toMaster[r]) : FALSE
        BY <3>1, Singleton
      <4>. QED BY <3>1, <4>1, <4>2 DEF Outstanding
    <3>. QED BY <1>2, <3>4
  <2>3. ASSUME NEW g \in Files, Has(r, g) PROVE Has(r, f)
    <3>1. CASE Sent(r, g)
      <4>1. /\ toSlave[r] = <<WorkMsg(g)>> /\ work[r] = {} /\ toMaster[r] = <<>>
        BY <3>1 DEF Sent, At
      <4>2. WorkMsg(f) = WorkMsg(g)
        BY <1>2, <2>1, <4>1, Singleton DEF Outstanding
      <4>. QED BY <2>3, <4>2, Messages
    <3>2. CASE Busy(r, g)
      BY <1>2, <2>3, <3>2, Singleton DEF Busy, At, Outstanding
    <3>3. CASE Replied(r, g)
      <4>1. /\ toMaster[r] = <<ResultMsg(g)>> /\ work[r] = {} /\ toSlave[r] = <<>>
        BY <3>3 DEF Replied, At
      <4>2. ResultMsg(f) = ResultMsg(g)
        BY <1>2, <2>1, <4>1, Singleton DEF Outstanding
      <4>. QED BY <2>3, <4>2, Messages
    <3>. QED BY <2>3, <3>1, <3>2, <3>3 DEF Has
  <2>. QED BY <2>2, <2>3 DEF IInv, ShapeInv, HasFile
<1>. QED BY <1>1, <1>2

(* No file of the list is lost on its way and none is joined twice, for    *)
(* any number of slaves and files and whichever slave answers first.       *)
THEOREM ConservationHolds == Spec => []Conservation
<1>1. ASSUME IInv PROVE Conservation
  <2>1. \A r \in Ranks, f \in Files : Outstanding(r, f) <=> Has(r, f)
    BY <1>1, OutstandingIsHas
  <2>2. collected \subseteq Files
    BY <1>1 DEF IInv, TypeOK
  <2>. QED BY <1>1, <2>1, <2>2 DEF IInv, ConserveInv, Conservation
<1>. QED BY <1>1, Invariance, PTL

(* A slave never has a second file queued behind the one it works on.      *)
THEOREM OneAtATimeHolds == Spec => []OneAtATime
<1>1. ASSUME IInv, NEW r \in Ranks
      PROVE  Len(toSlave[r]) + Cardinality(work[r]) + Len(toMaster[r]) <= 1
  <2>1. /\ Len(<<>>) = 0 /\ \A m : Len(<<m>>) = 1
        /\ Cardinality({}) = 0 /\ \A f : Cardinality({f}) = 1
    BY Singleton, FS_EmptySet, FS_Singleton
  <2>2. 0 + 0 + 0 <= 1 /\ 1 + 0 + 0 <= 1 /\ 0 + 1 + 0 <= 1 /\ 0 + 0 + 1 <= 1
    OBVIOUS
  <2>3. CASE Idle(r) \/ Dying(r) \/ Exited(r)
    <3>1. work[r] = {} /\ toMaster[r] = <<>>
      BY <2>3 DEF Idle, Dying, Exited, At
    <3>2. toSlave[r] = <<>> \/ toSlave[r] = <<DieMsg>>
      BY <2>3 DEF Idle, Dying, Exited, At
    <3>. QED BY <2>1, <2>2, <3>1, <3>2, Zenon
  <2>4. ASSUME NEW f \in Files, Has(r, f)
        PROVE  Len(toSlave[r]) + Cardinality(work[r]) + Len(toMaster[r]) <= 1
    <3>1. \/ toSlave[r] = <<WorkMsg(f)>> /\ work[r] = {} /\ toMaster[r] = <<>>
          \/ toSlave[r] = <<>> /\ work[r] = {f} /\ toMaster[r] = <<>>
          \/ toSlave[r] = <<>> /\ work[r] = {} /\ toMaster[r] = <<ResultMsg(f)>>
      BY <2>4 DEF Has, Sent, Busy, Replied, At
    <3>. QED BY <2>1, <2>2, <3>1, Zenon
  <2>. QED BY <1>1, <2>3, <2>4 DEF IInv, ShapeInv, HasFile
<1>2. IInv => OneAtATime
  BY <1>1 DEF OneAtATime
<1>. QED BY <1>2, Invariance, PTL

(* While there are files left, nobody is idle but the slave whose result   *)
(* the master has just received.                                           *)
THEOREM NoIdleSlaveHolds == Spec => []NoIdleSlave
<1>1. ASSUME IInv PROVE NoIdleSlave
  <2>1. \A r \in Ranks, f \in Files : Outstanding(r, f) <=> Has(r, f)
    BY <1>1, OutstandingIsHas
  <2>. QED BY <1>1, <2>1 DEF IInv, LoopInv, NoIdleSlave, HasFile
<1>. QED BY <1>1, Invariance, PTL

(* No DIETAG is sent, and the master does not return, before the results   *)
(* of the whole list are in and the slaves' channels are empty: what makes *)
(* it safe to start the next phase on the same communicator.               *)
THEOREM ExitHolds == Spec => []ExitOnlyWhenAllCollected
<1>1. ASSUME IInv PROVE ExitOnlyWhenAllCollected
  <2>1. SUFFICES ASSUME mpc \in {"die", "done"}, NEW r \in Ranks
                 PROVE  /\ collected = ListedFiles
                        /\ toMaster[r] = <<>> /\ work[r] = {}
    BY <1>1 DEF ExitOnlyWhenAllCollected, IInv, LoopInv
  <2>2. collected = ListedFiles
    BY <1>1, <2>1 DEF IInv, LoopInv
  <2>3. Idle(r) \/ Dying(r) \/ Exited(r)
    BY <1>1, <2>1, NoneHasFile DEF IInv, ShapeInv
  <2>. QED BY <2>2, <2>3 DEF Idle, Dying, Exited, At
<1>. QED BY <1>1, Invariance, PTL

(* For no number of processes and no list shorter than the number of       *)
(* slaves does the master ever leave its drain loop.                       *)
THEOREM ReturnHolds == Spec => []ReturnsOnlyWithEnoughFiles
<1>1. IInv => ReturnsOnlyWithEnoughFiles
  BY DEF IInv, LoopInv, ReturnsOnlyWithEnoughFiles
<1>. QED BY <1>1, Invariance, PTL

-----------------------------------------------------------------------------
(* The total.                                                              *)

(* The totals of the slaves add up to the results of the collected files.  *)
TotalInv == SumOver(totals, Ranks) = SumOver(Result, collected)

LEMMA RanksFinite == ASSUME TypeOK PROVE IsFiniteSet(Ranks)
<1>1. 1 \in Int /\ nProcs - 1 \in Int
  BY RanksAndFiles
<1>. QED BY <1>1, FS_Interval DEF Ranks

LEMMA TotalInit == Init => TotalInv
<1>. SUFFICES ASSUME Init PROVE TotalInv
  OBVIOUS
<1>1. IsFiniteSet(Ranks)
  BY InitInv, RanksFinite DEF IInv
<1>2. \A r \in Ranks : totals[r] = 0
  BY DEF Init
<1>3. SumOver(totals, Ranks) = 0
  BY <1>1, <1>2, SumZero
<1>. QED BY <1>3, SumEmpty DEF Init, TotalInv

(* A file's result is added once: the first time, it was not collected.    *)
LEMMA CollectKeepsTotal ==
  ASSUME IInv, TotalInv, NEW r \in Ranks, Collect(r),
         UNCHANGED <<files, fileIndex, slaveVars, toSlave>>
  PROVE  TotalInv'
<1>1. PICK f \in Files : /\ Replied(r, f)
                         /\ collected' = collected \cup {f}
                         /\ totals' = [totals EXCEPT ![r] = @ + Result[f]]
  BY CollectEffect DEF IInv
<1>2. f \notin collected
  BY <1>1 DEF IInv, ConserveInv, Has
<1>3. /\ totals \in [Ranks -> Nat] /\ IsFiniteSet(Ranks)
      /\ IsFiniteSet(collected) /\ Result[f] \in Nat
      /\ \A g \in collected \cup {f} : Result[g] \in Nat
  BY RanksFinite, ConstantsOK DEF IInv, TypeOK, LoopInv
<1>4. SumOver(totals', Ranks) = SumOver(totals, Ranks) + Result[f]
  BY <1>1, <1>3, SumIncrease
<1>5. SumOver(Result, collected') = SumOver(Result, collected) + Result[f]
  BY <1>1, <1>2, <1>3, SumAdd
<1>. QED BY <1>4, <1>5 DEF TotalInv

LEMMA TotalNext == IInv /\ TotalInv /\ [Next]_vars => TotalInv'
<1>. SUFFICES ASSUME IInv, TotalInv, [Next]_vars PROVE TotalInv'
  OBVIOUS
<1>1. ASSUME NEW r \in Ranks, MasterReceives(r) PROVE TotalInv'
  <2>1. Collect(r) /\ UNCHANGED <<files, fileIndex, slaveVars, toSlave>>
    BY <1>1 DEF MasterReceives, ReceiveResult, DrainResult
  <2>. QED BY <2>1, CollectKeepsTotal
<1>2. CASE MasterProceeds \/ (\E r \in Ranks : Slave(r)) \/ UNCHANGED vars
  <2>1. UNCHANGED <<totals, collected>>
    BY <1>2 DEF MasterProceeds, SeedSlave, SeedEnd, DispatchNext, DrainEnd,
       SendDie, Return, Slave, TakeWork, Reply, TakeDie, vars, masterVars
  <2>. QED BY <2>1 DEF TotalInv
<1>. QED BY <1>1, <1>2 DEF Next, Master, Terminating

LEMMA TotalFromInv == IInv /\ TotalInv => TotalIsExact
<1>. SUFFICES ASSUME IInv, TotalInv, mpc \in {"die", "done"}
              PROVE  Total = SumFunctionOnSet(Result, ListedFiles)
  BY DEF TotalIsExact
<1>1. DOMAIN totals = Ranks
  BY DEF IInv, TypeOK
<1>2. Total = SumOver(totals, Ranks)
  BY <1>1 DEF Total, SumFunction, SumFunctionOnSet, FoldFunction, SumOver
<1>3. collected = ListedFiles
  BY DEF IInv, LoopInv
<1>. QED BY <1>2, <1>3 DEF TotalInv, SumOver

(* What the driver reports is the sum of the results of the listed files,  *)
(* in whatever order and from whichever slave they came.                   *)
THEOREM TotalHolds == Spec => []TotalIsExact
<1>1. Spec => []TotalInv
  BY TotalInit, TotalNext, Invariance, PTL DEF Spec
<1>. QED BY <1>1, TotalFromInv, Invariance, PTL

-----------------------------------------------------------------------------
(* The protocol implements the pool.                                       *)

Held == [r \in Ranks |-> {f \in Files : Outstanding(r, f)}]
Todo == ListedFiles \ HandedOut
Closed == mpc \in {"die", "done"}

LEMMA HeldIs ==
  ASSUME IInv
  PROVE  Held = [r \in Ranks |-> {f \in Files : Has(r, f)}]
BY OutstandingIsHas DEF Held

HeldMatches == Held = [r \in Ranks |-> {f \in Files : Has(r, f)}]

LEMMA HeldPrime == IInv' => HeldMatches'
<1>1. IInv => HeldMatches
  BY HeldIs DEF HeldMatches
<1>. QED BY <1>1, PTL

LEMMA HeldIsNext ==
  ASSUME IInv'
  PROVE  Held' = [r \in Ranks |-> {f \in Files : Has(r, f)'}]
BY HeldPrime DEF HeldMatches

NobodyHasFile == \A r \in Ranks : ~HasFile(r)

LEMMA NobodyHasFilePrime == IInv' /\ Closed' => NobodyHasFile'
<1>1. IInv /\ Closed => NobodyHasFile
  BY NoneHasFile DEF Closed, NobodyHasFile
<1>. QED BY <1>1, PTL

LEMMA NoneHasFileNext ==
  ASSUME IInv', Closed'
  PROVE  \A r \in Ranks : ~HasFile(r)'
BY NobodyHasFilePrime DEF NobodyHasFile

LEMMA AssignSim ==
  ASSUME IInv, IInv', NEW r \in Ranks, Idle(r), MoreFiles, SendWork(r),
         UNCHANGED <<files, collected, slaveVars, toMaster>>, Closed' = Closed
  PROVE  Pool!Assign(r)
<1>1. /\ files[fileIndex + 1] \in Files
      /\ fileIndex \in Nat /\ Len(files) \in Nat /\ fileIndex < Len(files)
      /\ fileIndex' = fileIndex + 1
  BY RanksAndFiles DEF IInv, MoreFiles, SendWork
<1>2. PICK g \in Files : /\ g = files[fileIndex + 1]
                         /\ Sent(r, g)' /\ OthersStill(r)
  BY FileGiven
<1>3. Has(r, g)'
  BY <1>2 DEF Has
<1>4. /\ \A h : Has(r, h)' <=> h = g
      /\ \A h : ~Has(r, h)
      /\ \A s \in Ranks : s # r => \A h : Has(s, h)' <=> Has(s, h)
  BY <1>2, <1>3, Exclusive, ExclusiveNext, OthersKeepShape DEF Exclusion
<1>5. /\ Held[r] = {}
      /\ Held' = [Held EXCEPT ![r] = {g}]
  BY <1>2, <1>4, HeldIs, HeldIsNext
<1>6. g \notin HandedOut
  <2>1. SUFFICES ASSUME NEW i \in 1 .. fileIndex, files[i] = g PROVE FALSE
    BY DEF HandedOut
  <2>2. /\ DOMAIN files = 1 .. Len(files)
        /\ \A a, b \in DOMAIN files : files[a] = files[b] => a = b
    BY RanksAndFiles DEF IInv, IsInjective
  <2>. QED BY <1>1, <1>2, <2>1, <2>2
<1>7. g \in ListedFiles
  BY <1>1, <1>2 DEF ListedFiles
<1>8. HandedOut' = HandedOut \cup {g} /\ ListedFiles' = ListedFiles
  BY <1>1, <1>2 DEF HandedOut, ListedFiles
<1>9. g \in Todo /\ Todo' = Todo \ {g}
  BY <1>6, <1>7, <1>8 DEF Todo
<1>. QED BY <1>5, <1>9 DEF Pool!Assign, Held, Todo, Closed

LEMMA FinishSim ==
  ASSUME IInv, IInv', NEW r \in Ranks, Collect(r),
         UNCHANGED <<files, fileIndex, slaveVars, toSlave>>, Closed' = Closed
  PROVE  Pool!Finish(r)
<1>1. PICK f \in Files : /\ Has(r, f) /\ Idle(r)' /\ OthersStill(r)
                         /\ collected' = collected \cup {f}
  BY FileCollected
<1>2. /\ \A h : Has(r, h) <=> h = f
      /\ \A h : ~Has(r, h)'
      /\ \A s \in Ranks : s # r => \A h : Has(s, h)' <=> Has(s, h)
  BY <1>1, Exclusive, ExclusiveNext, OthersKeepShape DEF Exclusion
<1>3. /\ Held[r] = {f}
      /\ Held' = [Held EXCEPT ![r] = {}]
  BY <1>1, <1>2, HeldIs, HeldIsNext
<1>4. Todo' = Todo
  BY DEF Todo, ListedFiles, HandedOut
<1>5. collected' = collected \cup Held[r] /\ Held[r] # {}
  BY <1>1, <1>3
<1>. QED BY <1>3, <1>4, <1>5 DEF Pool!Finish, Held, Todo, Closed

(* The master only moves on, or a slave passes its file on: nothing the    *)
(* pool can see.                                                           *)
LEMMA InternalSim ==
  ASSUME IInv, IInv', UNCHANGED <<files, fileIndex, collected>>,
         \A s \in Ranks : \A h : Has(s, h)' <=> Has(s, h),
         Closed' = Closed
  PROVE  UNCHANGED Pool!poolVars
<1>1. Held' = Held
  BY HeldIs, HeldIsNext
<1>2. Todo' = Todo
  BY DEF Todo, ListedFiles, HandedOut
<1>. QED BY <1>1, <1>2 DEF Pool!poolVars, Held, Todo, Closed

LEMMA CloseSim ==
  ASSUME IInv, IInv', DrainEnd
  PROVE  Pool!Close
<1>1. /\ mpc = "drain" /\ mpc' = "die"
      /\ UNCHANGED <<files, fileIndex, collected, slaveVars, toSlave, toMaster>>
  BY DEF DrainEnd, LoopStart
<1>2. \A s \in Ranks : Still(s)
  BY <1>1 DEF Still, slaveVars
<1>3. \A s \in Ranks : \A h : Has(s, h)' <=> Has(s, h)
  BY <1>2, StillKeepsShape
<1>4. Held' = Held
  BY <1>3, HeldIs, HeldIsNext
<1>5. HandedOut = ListedFiles
  BY <1>1 DEF IInv, LoopInv, HandedOut, ListedFiles
<1>6. collected = ListedFiles
  BY <1>1 DEF IInv, LoopInv, ListedFiles
<1>7. \A s \in Ranks, h \in Files : ~Has(s, h)
  BY <1>5, <1>6 DEF IInv, ConserveInv
<1>8. \A s \in Ranks : Held[s] = {}
  BY <1>7, HeldIs
<1>9. Todo = {} /\ Todo' = Todo /\ ~Closed /\ Closed'
  BY <1>1, <1>5 DEF Todo, ListedFiles, HandedOut, Closed
<1>. QED BY <1>1, <1>4, <1>8, <1>9 DEF Pool!Close, Held, Todo, Closed

LEMMA MasterSim ==
  ASSUME IInv, IInv', Master
  PROVE  [Pool!PoolNext]_(Pool!poolVars)
<1>1. CASE SeedSlave
  <2>1. /\ mpc = "seed" /\ mpc' = "seed"
        /\ UNCHANGED <<files, collected, slaveVars, toMaster>>
    BY <1>1 DEF SeedSlave
  <2>2. Closed' = Closed
    BY <2>1 DEF Closed
  <2>3. PICK r \in Ranks : r = rank
    BY <1>1, RanksAndFiles DEF SeedSlave, IInv
  <2>4. CASE MoreFiles /\ SendWork(rank)
    <3>1. Idle(r)
      BY <2>1, <2>3, RanksAndFiles DEF IInv, LoopInv
    <3>2. Pool!Assign(r)
      BY <2>1, <2>2, <2>3, <2>4, <3>1, AssignSim
    <3>. QED BY <3>2 DEF Pool!PoolNext
  <2>5. CASE UNCHANGED <<toSlave, fileIndex>>
    <3>1. \A s \in Ranks : Still(s)
      BY <2>1, <2>5 DEF Still, slaveVars
    <3>2. \A s \in Ranks : \A h : Has(s, h)' <=> Has(s, h)
      BY <3>1, StillKeepsShape
    <3>. QED BY <2>1, <2>2, <2>5, <3>2, InternalSim
  <2>. QED BY <1>1, <2>4, <2>5 DEF SeedSlave
<1>2. CASE SeedEnd \/ Return
  <2>1. /\ UNCHANGED <<files, fileIndex, collected, slaveVars, toSlave, toMaster>>
        /\ Closed' = Closed
    BY <1>2 DEF SeedEnd, Return, LoopStart, Closed
  <2>2. \A s \in Ranks : Still(s)
    BY <2>1 DEF Still, slaveVars
  <2>3. \A s \in Ranks : \A h : Has(s, h)' <=> Has(s, h)
    BY <2>2, StillKeepsShape
  <2>. QED BY <2>1, <2>3, InternalSim
<1>3. ASSUME NEW r \in Ranks, MasterReceives(r) PROVE Pool!Finish(r)
  <2>1. /\ Collect(r) /\ Closed' = Closed
        /\ UNCHANGED <<files, fileIndex, slaveVars, toSlave>>
    BY <1>3 DEF MasterReceives, ReceiveResult, DrainResult, Closed
  <2>. QED BY <2>1, FinishSim
<1>4. CASE DispatchNext
  <2>1. /\ SendWork(sender) /\ Closed' = Closed
        /\ UNCHANGED <<files, collected, slaveVars, toMaster>>
    BY <1>4 DEF DispatchNext, Closed
  <2>2. MoreFiles /\ sender \in Ranks /\ Idle(sender)
    BY <1>4 DEF DispatchNext, IInv, LoopInv, MoreFiles
  <2>3. PICK r \in Ranks : r = sender
    BY <2>2
  <2>4. Pool!Assign(r)
    BY <2>1, <2>2, <2>3, AssignSim
  <2>. QED BY <2>4 DEF Pool!PoolNext
<1>5. CASE DrainEnd
  BY <1>5, CloseSim DEF Pool!PoolNext
<1>6. CASE SendDie
  <2>1. /\ mpc = "die" /\ mpc' = "die" /\ SendToSlave(rank, DieMsg)
        /\ UNCHANGED <<files, fileIndex, collected, slaveVars, toMaster>>
    BY <1>6 DEF SendDie
  <2>2. \A s \in Ranks, h \in Files : ~Has(s, h)
    BY <2>1, NoneHasFile DEF HasFile
  <2>3. \A s \in Ranks, h \in Files : ~Has(s, h)'
    BY <2>1, NoneHasFileNext DEF HasFile, Closed
  <2>4. Held' = Held
    BY <2>2, <2>3, HeldIs, HeldIsNext
  <2>5. Todo' = Todo /\ Closed' = Closed
    BY <2>1 DEF Todo, ListedFiles, HandedOut, Closed
  <2>. QED BY <2>1, <2>4, <2>5 DEF Pool!poolVars, Held, Todo, Closed
<1>. QED
  BY <1>1, <1>2, <1>3, <1>4, <1>5, <1>6, Master
     DEF Master, MasterProceeds, Pool!PoolNext

LEMMA SlaveSim ==
  ASSUME IInv, IInv', NEW r \in Ranks, Slave(r)
  PROVE  UNCHANGED Pool!poolVars
<1>1. /\ UNCHANGED <<files, fileIndex, collected>> /\ Closed' = Closed
  BY DEF Slave, TakeWork, Reply, TakeDie, masterVars, Closed
<1>2. CASE TakeWork(r) \/ Reply(r)
  <2>1. PICK f \in Files : Has(r, f) /\ Has(r, f)' /\ OthersStill(r)
    BY <1>2, TakeWorkEffect, ReplyEffect DEF IInv, Has
  <2>2. \A s \in Ranks : \A g : Has(s, g)' <=> Has(s, g)
    BY <1>1, <2>1, FileMoves
  <2>. QED BY <1>1, <2>2, InternalSim
<1>3. CASE TakeDie(r)
  <2>1. Dying(r) /\ Exited(r)' /\ OthersStill(r)
    BY <1>3, TakeDieEffect DEF IInv
  <2>2. \A s \in Ranks : \A g : Has(s, g)' <=> Has(s, g)
    BY <1>1, <2>1, NoFileMoves
  <2>. QED BY <1>1, <2>2, InternalSim
<1>. QED BY <1>2, <1>3 DEF Slave

(* Every behaviour of the message protocol, seen through the files each    *)
(* slave has, is a behaviour of the pool: a file goes to a slave that has  *)
(* none, is finished by it, and the pool closes when all are finished.     *)
(* (The fairness part of ImplementsPool stays with TLC.)                   *)
THEOREM ImplementsPoolSafety == Spec => Pool!PoolSafety
<1>1. Init => Pool!PoolInit
  <2>. SUFFICES ASSUME Init PROVE Pool!PoolInit
    OBVIOUS
  <2>1. IInv
    BY InitInv
  <2>2. Todo \subseteq Files
    BY <2>1, RanksAndFiles DEF Todo, ListedFiles, IInv
  <2>3. \A r \in Ranks : Idle(r)
    BY DEF Init, Idle, At
  <2>4. Held = [r \in Ranks |-> {}]
    BY <2>1, <2>3, HeldIs, Exclusive DEF Exclusion
  <2>. QED BY <2>2, <2>4 DEF Init, Pool!PoolInit, Held, Todo
<1>2. IInv /\ IInv' /\ [Next]_vars => [Pool!PoolNext]_(Pool!poolVars)
  <2>. SUFFICES ASSUME IInv, IInv', [Next]_vars
                PROVE  [Pool!PoolNext]_(Pool!poolVars)
    OBVIOUS
  <2>1. CASE Master
    BY <2>1, MasterSim
  <2>2. ASSUME NEW r \in Ranks, Slave(r) PROVE UNCHANGED Pool!poolVars
    BY <2>2, SlaveSim
  <2>3. CASE UNCHANGED vars
    <3>1. UNCHANGED <<mpc, files, fileIndex, collected, spc, work, toSlave, toMaster>>
      BY <2>3 DEF vars, masterVars, slaveVars
    <3>2. \A s \in Ranks : Still(s)
      BY <3>1 DEF Still
    <3>3. \A s \in Ranks : \A h : Has(s, h)' <=> Has(s, h)
      BY <3>2, StillKeepsShape
    <3>. QED BY <3>1, <3>3, InternalSim DEF Closed
  <2>. QED BY <2>1, <2>2, <2>3 DEF Next, Terminating
<1>. QED BY <1>1, <1>2, Invariance, PTL DEF Spec, Pool!PoolSafety
=============================================================================
