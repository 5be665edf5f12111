------------------------- MODULE PortScannerProofs -------------------------
(***************************************************************************)
(* Machine-checked proofs about PortScanner, for every number of scans,     *)
(* every set of requests, every number of workers and every live buffer:    *)
(* the bookkeeping of a scan, then what the object shows of its current     *)
(* scan, then the refinement of ScanJob and of ScanEngine.  The last part   *)
(* is about StartRequest: the lists a scan is started with.                 *)
(***************************************************************************)
EXTENDS PortScannerSerial, PortScannerEngine, StartRequest, TLAPS, FiniteSetTheorems,
        SequenceTheorems, WellFoundedInduction

\* What the assumptions say of the numbers of a request (Start 149-159).
LEMMA RequestNumbers ==
  ASSUME NEW r \in Requests
  PROVE  /\ r.ips \in Nat \ {0} /\ r.ports \in Nat \ {0}
         /\ r.ips * r.ports \in Nat
         /\ WorkersOf(r) \in 1 .. MaxWorkers
         /\ MaxWorkers \in Nat
<1>1. r.ips \in Nat \ {0} /\ r.ports \in Nat \ {0} /\ r.workers \in Nat
  BY RequestsAssumption
<1>2. r.ips * r.ports \in Nat
  BY <1>1
<1>3. WorkersOf(r) \in 1 .. MaxWorkers /\ MaxWorkers \in Nat
  BY <1>1, RequestsAssumption DEF WorkersOf
<1> QED BY <1>1, <1>2, <1>3

-----------------------------------------------------------------------------
(* Type correctness.                                                        *)

\* Setting one local of one worker keeps the type and the other locals.
LEMMA SetWFacts ==
  ASSUME NEW S, NEW var \in [Scan -> [WorkerId -> S]],
         NEW g \in Scan, NEW w \in WorkerId, NEW val \in S
  PROVE  /\ SetW(var, g, w, val) \in [Scan -> [WorkerId -> S]]
         /\ SetW(var, g, w, val)[g][w] = val
         /\ \A h \in Scan, v \in WorkerId :
              h # g \/ v # w => SetW(var, g, w, val)[h][v] = var[h][v]
BY DEF SetW

\* A group of variables that a step leaves alone keeps its types.
LEMMA TypeUnchanged ==
  /\ TypeObj /\ UNCHANGED objVars => TypeObj'
  /\ TypeRun /\ UNCHANGED runVars => TypeRun'
  /\ TypeChan /\ UNCHANGED chanVars => TypeChan'
  /\ TypeWorkers /\ UNCHANGED wVars => TypeWorkers'
  /\ TypeHist /\ UNCHANGED histVars => TypeHist'
<1>1. TypeObj /\ UNCHANGED objVars => TypeObj'
  BY DEF TypeObj, objVars
<1>2. TypeRun /\ UNCHANGED runVars => TypeRun'
  BY DEF TypeRun, runVars
<1>3. TypeChan /\ UNCHANGED chanVars => TypeChan'
  BY DEF TypeChan, chanVars
<1>4. TypeWorkers /\ UNCHANGED wVars => TypeWorkers'
  BY DEF TypeWorkers, wVars
<1>5. TypeHist /\ UNCHANGED histVars => TypeHist'
  BY DEF TypeHist, histVars
<1> QED BY <1>1, <1>2, <1>3, <1>4, <1>5

\* The object NewPortScanner returns has the types, and no scan exists.
LEMMA TypeInit == Init => TypeOK
<1> SUFFICES ASSUME Init PROVE TypeOK
  OBVIOUS
<1>0. MaxScans \in Nat \ {0} /\ LiveCap \in Nat /\ MaxWorkers \in Nat
  BY ScansAssumption, LiveAssumption, RequestsAssumption
<1>1. TypeObj
  <2>1. liveScanned \in Seq(Result) /\ Len(liveScanned) = 0
    BY DEF Init
  <2>2. isRunning \in BOOLEAN
    BY Zenon DEF Init
  <2> QED BY <1>0, <2>1, <2>2 DEF Init, TypeObj
<1>2. TypeRun
  BY <1>0 DEF Init, TypeRun
<1>3. TypeChan
  BY <1>0 DEF Init, TypeChan
<1>4. TypeWorkers
  BY <1>0 DEF Init, TypeWorkers, NoTarget
<1>5. TypeHist
  BY <1>0 DEF Init, TypeHist
<1> QED BY <1>1, <1>2, <1>3, <1>4, <1>5 DEF TypeOK

\* Every call of the object and every step of a goroutine keeps the types.
LEMMA TypeStep == TypeOK /\ [Next]_vars => TypeOK'
<1> SUFFICES ASSUME TypeOK, [Next]_vars PROVE TypeOK'
  OBVIOUS
<1>0. MaxScans \in Nat \ {0} /\ LiveCap \in Nat /\ MaxWorkers \in Nat
  BY ScansAssumption, LiveAssumption, RequestsAssumption
<1> USE <1>0
<1>1. ASSUME NEW r \in Requests, Start(r) PROVE TypeOK'
  <2>1. r.ips * r.ports \in Nat /\ WorkersOf(r) \in 0 .. MaxWorkers
    BY RequestNumbers
  <2>2. ctx + 1 \in Scan
    BY <1>1 DEF TypeOK, TypeObj, Start, Scan
  <2>3. TypeObj'
    BY <1>1, <2>1 DEF TypeOK, TypeObj, Start, ResetProgress
  <2>4. TypeRun'
    <3>1. request' \in [Scan -> Requests \cup {NoRequest}]
      BY <1>1, <2>2 DEF TypeOK, TypeRun, Start
    <3>2. /\ runPc' \in [Scan -> {"none", "launched", "sized", "clamping",
                                "collecting", "recording", "done"}]
          /\ \A g \in Scan : runPc'[g] = IF g = ctx + 1 THEN "launched" ELSE runPc[g]
      BY <1>1, <2>2 DEF TypeOK, TypeRun, Start
    <3> QED BY <1>1, <3>1, <3>2 DEF TypeOK, TypeRun, Start
  <2>5. TypeHist'
    BY <1>1 DEF TypeOK, TypeHist, Start
  <2> QED BY <1>1, <2>3, <2>4, <2>5, TypeUnchanged DEF TypeOK, Start
<1>2. CASE Stop
  <2>1. TypeObj'
    <3>1. ctx' = ctx /\ cancelled' \subseteq 1 .. ctx'
      BY <1>2 DEF TypeOK, TypeObj, Stop
    <3>2. isRunning' \in BOOLEAN
      BY <1>2, Zenon DEF Stop
    <3> QED BY <1>2, <3>1, <3>2 DEF TypeOK, TypeObj, Stop
  <2> QED BY <1>2, <2>1, TypeUnchanged DEF TypeOK, Stop
<1>3. CASE GetStatus
  <2>1. TypeObj'
    BY <1>3 DEF TypeOK, TypeObj, GetStatus
  <2> QED BY <1>3, <2>1, TypeUnchanged DEF TypeOK, GetStatus
<1>4. ASSUME NEW g \in Scan, Orchestrator(g) PROVE TypeOK'
  <2>1. CASE ReadWorkers(g)
    <3>1. TypeRun'
      BY <2>1 DEF TypeOK, TypeObj, TypeRun, ReadWorkers
    <3> QED BY <2>1, <3>1, TypeUnchanged DEF TypeOK, ReadWorkers
  <2>2. CASE Clamp(g)
    <3>1. TypeRun'
      BY <2>2 DEF TypeOK, TypeRun, Clamp
    <3> QED BY <2>2, <3>1, TypeUnchanged DEF TypeOK, Clamp
  <2>3. CASE SpawnWorkers(g)
    <3>1. TypeRun'
      BY <2>3 DEF TypeOK, TypeRun, SpawnWorkers
    <3>2. TypeWorkers'
      BY <2>3 DEF TypeOK, TypeWorkers, SpawnWorkers
    <3> QED BY <2>3, <3>1, <3>2, TypeUnchanged DEF TypeOK, SpawnWorkers
  <2>4. CASE CollectorReceive(g)
    <3>1. TypeRun'
      <4>1. /\ resultsChan[g] \in Seq(Result) /\ resultsChan[g] # <<>>
            /\ Head(resultsChan[g]) \in Result
        BY <2>4 DEF TypeOK, TypeChan, CollectorReceive
      <4>2. <<Head(resultsChan[g])>> \in Seq(Result) /\ Len(<<Head(resultsChan[g])>>) = 1
        BY <4>1
      <4>3. /\ inHand' \in [Scan -> Seq(Result)]
            /\ inHand'[g] = <<Head(resultsChan[g])>>
            /\ \A h \in Scan : h # g => inHand'[h] = inHand[h] /\ runPc'[h] = runPc[h]
        BY <2>4, <4>2 DEF TypeOK, TypeRun, CollectorReceive
      <4>4. \A h \in Scan : runPc'[h] = "recording" => Len(inHand'[h]) = 1
        BY <4>2, <4>3 DEF TypeOK, TypeRun
      <4> QED BY <2>4, <4>3, <4>4 DEF TypeOK, TypeRun, CollectorReceive
    <3>2. TypeChan'
      BY <2>4 DEF TypeOK, TypeChan, CollectorReceive
    <3> QED BY <2>4, <3>1, <3>2, TypeUnchanged DEF TypeOK, CollectorReceive
  <2>5. CASE CollectorRecord(g)
    <3>1. Head(inHand[g]) \in Result
      BY <2>5 DEF TypeOK, TypeRun, CollectorRecord
    <3>2. TypeObj'
      BY <2>5, <3>1 DEF TypeOK, TypeObj, CollectorRecord, LiveRoom
    <3>3. TypeRun'
      <4>1. /\ inHand' \in [Scan -> Seq(Result)]
            /\ \A h \in Scan : h # g => inHand'[h] = inHand[h] /\ runPc'[h] = runPc[h]
            /\ runPc'[g] = "collecting"
        BY <2>5 DEF TypeOK, TypeRun, CollectorRecord
      <4>2. \A h \in Scan : runPc'[h] = "recording" => Len(inHand'[h]) = 1
        BY <4>1 DEF TypeOK, TypeRun
      <4> QED BY <2>5, <4>1, <4>2 DEF TypeOK, TypeRun, CollectorRecord
    <3>4. TypeHist'
      BY <2>5 DEF TypeOK, TypeHist, CollectorRecord
    <3> QED BY <2>5, <3>2, <3>3, <3>4, TypeUnchanged DEF TypeOK, CollectorRecord
  <2>6. CASE CollectorFinish(g)
    <3>1. TypeObj'
      BY <2>6 DEF TypeOK, TypeObj, CollectorFinish, MarkEnded
    <3>2. TypeRun'
      BY <2>6 DEF TypeOK, TypeRun, CollectorFinish
    <3> QED BY <2>6, <3>1, <3>2, TypeUnchanged DEF TypeOK, CollectorFinish
  <2> QED BY <1>4, <2>1, <2>2, <2>3, <2>4, <2>5, <2>6 DEF Orchestrator
<1>5. ASSUME NEW g \in Scan, Feeder(g) \/ CloseResults(g) PROVE TypeOK'
  <2>1. TypeChan'
    <3>1. CASE FeedPort(g)
      BY <3>1 DEF TypeOK, TypeChan, FeedPort
    <3>2. CASE ClosePorts(g)
      BY <3>2 DEF TypeOK, TypeChan, ClosePorts
    <3>3. CASE CloseResults(g)
      BY <3>3 DEF TypeOK, TypeChan, CloseResults
    <3> QED BY <1>5, <3>1, <3>2, <3>3 DEF Feeder
  <2> QED BY <1>5, <2>1, TypeUnchanged
          DEF TypeOK, Feeder, FeedPort, ClosePorts, CloseResults
<1>6. ASSUME NEW g \in Scan, NEW w \in WorkerId, WorkerStep(g, w) PROVE TypeOK'
  <2>1. CASE WorkerEnter(g, w)
    <3>1. TypeWorkers'
      BY <2>1 DEF TypeOK, TypeObj, TypeWorkers, WorkerEnter, SetW
    <3> QED BY <2>1, <3>1, TypeUnchanged DEF TypeOK, WorkerEnter
  <2>2. CASE WorkerReceive(g, w)
    <3>1. TypeWorkers'
      BY <2>2 DEF TypeOK, TypeChan, TypeWorkers, WorkerReceive, SetW
    <3>2. TypeChan'
      BY <2>2 DEF TypeOK, TypeChan, WorkerReceive, TakePort
    <3> QED BY <2>2, <3>1, <3>2, TypeUnchanged DEF TypeOK, WorkerReceive
  <2>3. CASE WorkerReturn(g, w)
    <3>1. TypeWorkers'
      BY <2>3 DEF TypeOK, TypeWorkers, WorkerReturn, SetW
    <3> QED BY <2>3, <3>1, TypeUnchanged DEF TypeOK, WorkerReturn
  <2>4. CASE WorkerProbe(g, w)
    <3>1. TypeWorkers'
      BY <2>4 DEF TypeOK, TypeObj, TypeWorkers, WorkerProbe, SetW
    <3>2. TypeHist'
      BY <2>4 DEF TypeOK, TypeHist, TypeWorkers, WorkerProbe
    <3> QED BY <2>4, <3>1, <3>2, TypeUnchanged DEF TypeOK, WorkerProbe
  <2>5. CASE WorkerAbandon(g, w)
    <3>1. TypeWorkers'
      BY <2>5 DEF TypeOK, TypeWorkers, WorkerAbandon, SetW, NoTarget
    <3> QED BY <2>5, <3>1, TypeUnchanged DEF TypeOK, WorkerAbandon
  <2>6. CASE WorkerDialed(g, w)
    <3>1. TypeWorkers'
      BY <2>6 DEF TypeOK, TypeWorkers, WorkerDialed, SetW
    <3> QED BY <2>6, <3>1, TypeUnchanged DEF TypeOK, WorkerDialed
  <2>7. CASE WorkerSend(g, w)
    <3>1. TypeWorkers'
      <4>1. wtarget' \in [Scan -> [WorkerId -> Nat \X Nat]]
        <5>1. wtarget \in [Scan -> [WorkerId -> Nat \X Nat]]
          BY DEF TypeOK, TypeWorkers
        <5>2. /\ <<wtarget[g][w][1], wtarget[g][w][2] + 1>> \in Nat \X Nat
              /\ NoTarget \in Nat \X Nat
          BY <5>1 DEF NoTarget
        <5>3. PICK t \in Nat \X Nat : wtarget' = SetW(wtarget, g, w, t)
          BY <2>7, <5>2 DEF WorkerSend
        <5> QED BY <5>1, <5>3, SetWFacts
      <4>2. wres' \in [Scan -> [WorkerId -> Outcomes \cup {"none"}]]
        BY <2>7 DEF TypeOK, TypeWorkers, WorkerSend, SetW
      <4>3. PICK pc \in {"probe", "enter"} : wpc' = SetW(wpc, g, w, pc)
        BY <2>7 DEF WorkerSend
      <4>4. /\ wpc' \in [Scan -> [WorkerId -> {"none", "enter", "select", "probe",
                                             "dialing", "send", "done"}]]
            /\ \A h \in Scan, v \in WorkerId :
                 wpc'[h][v] = "send" => wpc[h][v] = "send" /\ wres'[h][v] = wres[h][v]
        BY <2>7, <4>3 DEF TypeOK, TypeWorkers, WorkerSend, SetW
      <4> QED BY <2>7, <4>1, <4>2, <4>4 DEF TypeOK, TypeWorkers, WorkerSend
    <3>2. [scan |-> g, target |-> <<wtarget[g][w][1], wtarget[g][w][2]>>,
           outcome |-> wres[g][w]] \in Result
      BY <2>7 DEF TypeOK, TypeWorkers, WorkerSend, Result
    <3>3. TypeChan'
      BY <2>7, <3>2 DEF TypeOK, TypeChan, WorkerSend
    <3> QED BY <2>7, <3>1, <3>3, TypeUnchanged DEF TypeOK, WorkerSend
  <2> QED BY <1>6, <2>1, <2>2, <2>3, <2>4, <2>5, <2>6, <2>7 DEF WorkerStep
<1>7. CASE UNCHANGED vars
  BY <1>7, TypeUnchanged DEF TypeOK, vars
<1> QED BY <1>1, <1>2, <1>3, <1>4, <1>5, <1>6, <1>7 DEF Next

\* Every reachable state has the types of PortScannerProps.
THEOREM TypeCorrect == Spec => []TypeOK
  BY TypeInit, TypeStep, PTL DEF Spec

-----------------------------------------------------------------------------
(* The life of a scan.                                                      *)

\* A step that is not about scan g leaves everything of g alone.
Same(g) ==
  /\ request'[g] = request[g] /\ runPc'[g] = runPc[g]
  /\ numWorkers'[g] = numWorkers[g] /\ inHand'[g] = inHand[g]
  /\ fed'[g] = fed[g] /\ portsClosed'[g] = portsClosed[g]
  /\ taken'[g] = taken[g]
  /\ resultsChan'[g] = resultsChan[g] /\ resultsClosed'[g] = resultsClosed[g]
  /\ wpc'[g] = wpc[g] /\ wtarget'[g] = wtarget[g]
  /\ wctx'[g] = wctx[g] /\ wres'[g] = wres[g]
  /\ probed'[g] = probed[g] /\ recorded'[g] = recorded[g]

\* The goroutines of scan g.
StepOf(g) ==
  \/ Orchestrator(g) \/ Feeder(g) \/ CloseResults(g)
  \/ \E w \in WorkerId : WorkerStep(g, w)

\* The goroutines of a scan share no local, channel or history with those of
\* another one.
LEMMA OthersSame ==
  ASSUME TypeOK, NEW g \in Scan, StepOf(g), NEW h \in Scan, h # g
  PROVE  Same(h)
<1>1. CASE Orchestrator(g)
  BY <1>1 DEF Orchestrator, ReadWorkers, Clamp, SpawnWorkers, CollectorReceive,
     CollectorRecord, CollectorFinish, TypeOK, TypeRun, TypeChan, TypeWorkers,
     TypeHist, Same, objVars, runVars, chanVars, wVars, histVars
<1>2. CASE Feeder(g) \/ CloseResults(g)
  BY <1>2 DEF Feeder, FeedPort, ClosePorts, CloseResults, TypeOK, TypeChan,
     Same, objVars, runVars, chanVars, wVars, histVars
<1>3. ASSUME NEW w \in WorkerId, WorkerStep(g, w) PROVE Same(h)
  BY <1>3 DEF WorkerStep, WorkerEnter, WorkerReceive, TakePort, WorkerReturn,
     WorkerProbe, WorkerAbandon, WorkerDialed, WorkerSend, SetW, TypeOK,
     TypeChan, TypeWorkers, TypeHist, Same, runVars, chanVars, histVars
<1> QED BY <1>1, <1>2, <1>3 DEF StepOf

\* Only the calls of the object replace or cancel a context.
LEMMA StepKeepsContext ==
  ASSUME NEW g \in Scan, StepOf(g)
  PROVE  ctx' = ctx /\ cancelled' = cancelled /\ request' = request
BY DEF StepOf, Orchestrator, ReadWorkers, Clamp, SpawnWorkers, CollectorReceive,
   CollectorRecord, CollectorFinish, Feeder, FeedPort, ClosePorts, CloseResults,
   WorkerStep, WorkerEnter, WorkerReceive, WorkerReturn, WorkerProbe,
   WorkerAbandon, WorkerDialed, WorkerSend, objVars, runVars

\* Nothing about a scan changes its invariant when nothing of it changes.
LEMMA SameKeeps ==
  ASSUME NEW g \in Scan, Same(g)
  PROVE  /\ LifeOK(g) /\ (g > ctx <=> g > ctx') => LifeOK(g)'
         /\ PortsOK(g) => PortsOK(g)'
<1>1. LifeOK(g) /\ (g > ctx <=> g > ctx') => LifeOK(g)'
  BY DEF Same, LifeOK, Spawned, Untouched, AllReturned, Drained
<1>2. PortsOK(g) => PortsOK(g)'
  BY DEF Same, PortsOK, OnPort, ProbedInOrder
<1> QED BY <1>1, <1>2

\* A worker that is somewhere in its loop belongs to a scan whose workers were
\* spawned and whose resultsChan is still open.
LEMMA WorkingScan ==
  ASSUME NEW g \in Scan, LifeOK(g), NEW w \in WorkerId,
         wpc[g][w] \notin {"none", "done"}
  PROVE  Spawned(g) /\ ~resultsClosed[g]
BY DEF LifeOK, Untouched, AllReturned

\* The steps of a scan's own goroutines keep the order of its life.
LEMMA LifeOwnStep ==
  ASSUME TypeOK, NEW g \in Scan, LifeOK(g), StepOf(g)
  PROVE  LifeOK(g)'
<1>0. ctx' = ctx /\ request' = request
  BY StepKeepsContext
<1>1. CASE ReadWorkers(g) \/ Clamp(g)
  BY <1>0, <1>1 DEF ReadWorkers, Clamp, TypeOK, TypeRun, LifeOK, Spawned,
     Untouched, AllReturned, Drained, chanVars, wVars, histVars
<1>2. CASE SpawnWorkers(g)
  BY <1>0, <1>2 DEF SpawnWorkers, TypeOK, TypeRun, TypeWorkers, LifeOK, Spawned,
     Untouched, AllReturned, Drained, chanVars, histVars
<1>3. CASE CollectorReceive(g)
  BY <1>0, <1>3 DEF CollectorReceive, TypeOK, TypeRun, TypeChan, LifeOK, Spawned,
     AllReturned, Drained, wVars
<1>4. CASE CollectorRecord(g)
  BY <1>0, <1>4 DEF CollectorRecord, TypeOK, TypeRun, LifeOK, Spawned,
     AllReturned, Drained, chanVars, wVars
<1>5. CASE CollectorFinish(g)
  BY <1>0, <1>5 DEF CollectorFinish, TypeOK, TypeRun, LifeOK, Spawned,
     AllReturned, Drained, chanVars, wVars
<1>6. CASE Feeder(g)
  BY <1>0, <1>6 DEF Feeder, FeedPort, ClosePorts, LifeOK, Spawned, AllReturned,
     Drained, runVars, wVars
<1>7. CASE CloseResults(g)
  BY <1>0, <1>7 DEF CloseResults, TypeOK, TypeChan, LifeOK, Spawned, AllReturned,
     Drained, runVars, wVars
<1>8. ASSUME NEW w \in WorkerId, WorkerStep(g, w) PROVE LifeOK(g)'
  <2>1. Spawned(g) /\ ~resultsClosed[g]
    BY <1>8, WorkingScan
       DEF WorkerStep, WorkerEnter, WorkerReceive, WorkerReturn, WorkerProbe,
           WorkerAbandon, BeforeDial, WorkerDialed, WorkerSend
  <2>2. UNCHANGED <<runVars, resultsClosed>>
    BY <1>8 DEF WorkerStep, WorkerEnter, WorkerReceive, WorkerReturn, WorkerProbe,
       WorkerAbandon, WorkerDialed, WorkerSend, chanVars
  <2> QED BY <1>0, <2>1, <2>2 DEF LifeOK, Spawned, Drained, runVars
<1> QED BY <1>1, <1>2, <1>3, <1>4, <1>5, <1>6, <1>7, <1>8 DEF StepOf, Orchestrator

\* The calls of the object that leave the goroutines alone.
LEMMA OutsideStep ==
  ASSUME TypeOK, Stop \/ GetStatus \/ UNCHANGED vars, NEW g \in Scan
  PROVE  Same(g) /\ ctx' = ctx
BY DEF Stop, GetStatus, Same, vars, objVars, runVars, chanVars, wVars, histVars

\* Start gives the next scan its request and launches its goroutine.
LEMMA StartStep ==
  ASSUME TypeOK, NEW r \in Requests, Start(r), NEW g \in Scan
  PROVE  /\ ctx' = ctx + 1 /\ ctx \in Nat
         /\ g # ctx + 1 => Same(g)
         /\ g = ctx + 1 =>
              /\ request'[g] = r /\ runPc'[g] = "launched"
              /\ inHand'[g] = inHand[g]
         /\ UNCHANGED <<chanVars, wVars, probed, recorded>>
BY DEF Start, TypeOK, TypeObj, TypeRun, Same, chanVars, wVars

\* So does every step of the system.
LEMMA LifeStep ==
  TypeOK /\ (\A g \in Scan : LifeOK(g)) /\ [Next]_vars => (\A g \in Scan : LifeOK(g))'
<1> SUFFICES ASSUME TypeOK, \A g \in Scan : LifeOK(g), [Next]_vars, NEW g \in Scan
             PROVE  LifeOK(g)'
  OBVIOUS
<1>1. ASSUME NEW r \in Requests, Start(r) PROVE LifeOK(g)'
  <2>1. CASE g # ctx + 1
    <3>1. g > ctx <=> g > ctx'
      BY <1>1, <2>1, StartStep DEF Scan
    <3> QED BY <1>1, <2>1, <3>1, StartStep, SameKeeps
  <2>2. CASE g = ctx + 1
    BY <1>1, <2>2, StartStep
       DEF LifeOK, Untouched, Spawned, AllReturned, Drained, chanVars, wVars
  <2> QED BY <2>1, <2>2
<1>2. CASE Stop \/ GetStatus \/ UNCHANGED vars
  BY <1>2, OutsideStep, SameKeeps
<1>3. ASSUME NEW h \in Scan, StepOf(h) PROVE LifeOK(g)'
  BY <1>3, LifeOwnStep, OthersSame, SameKeeps, StepKeepsContext
<1> QED BY <1>1, <1>2, <1>3 DEF Next, StepOf

\* At first no scan was started.
LEMMA LifeInit == Init => \A g \in Scan : LifeOK(g)
BY ScansAssumption DEF Init, LifeOK, Scan, Spawned, Untouched, AllReturned, Drained

\* The life of every scan is in order, however Start and Stop come.
LEMMA LifeInvariant == Spec => [](\A g \in Scan : LifeOK(g))
<1> USE DEF Spec
<1> QED BY TypeCorrect, LifeInit, LifeStep, PTL

\* No worker can send on resultsChan after it was closed.
THEOREM SendsAreSafe == Spec => []NoSendOnClosed
<1>1. (\A g \in Scan : LifeOK(g)) => NoSendOnClosed
  BY DEF LifeOK, AllReturned, NoSendOnClosed
<1> QED BY <1>1, LifeInvariant, PTL

\* When runScan is over, no worker of the scan is left and no result waits.
THEOREM DoneIsQuiet == Spec => []DoneMeansQuiet
<1>1. (\A g \in Scan : LifeOK(g)) => DoneMeansQuiet
  BY DEF LifeOK, AllReturned, Drained, DoneMeansQuiet
<1> QED BY <1>1, LifeInvariant, PTL

-----------------------------------------------------------------------------
(* How the workers divide the targets.                                      *)

\* A scan that was not spawned has no worker on a port.
LEMMA UntouchedPorts ==
  ASSUME TypeOK, NEW g \in Scan, Untouched(g), request[g].ports \in Nat
  PROVE  PortsOK(g)
BY DEF Untouched, PortsOK, OnPort

\* A worker that is on no port after the step disturbs nobody's ports.
LEMMA LeavesPort ==
  ASSUME TypeOK, NEW g \in Scan, NEW w \in WorkerId, PortsOK(g),
         request' = request, fed' = fed, taken' = taken, probed' = probed,
         ~OnPort(g, w)',
         \A v \in WorkerId : v # w =>
            wpc'[g][v] = wpc[g][v] /\ wtarget'[g][v] = wtarget[g][v]
  PROVE  PortsOK(g)'
BY DEF PortsOK, OnPort, ProbedInOrder

\* A step of one worker keeps the division of the ports among all of them.
LEMMA PortsWorkerStep ==
  ASSUME TypeOK, NEW g \in Scan, NEW w \in WorkerId, PortsOK(g), LifeOK(g),
         WorkerStep(g, w)
  PROVE  PortsOK(g)'
<1>1. request' = request /\ request[g].ips \in Nat \ {0} /\ request[g].ports \in Nat
  <2>1. StepOf(g) /\ Spawned(g)
    BY WorkingScan
       DEF StepOf, WorkerStep, WorkerEnter, WorkerReceive, WorkerReturn,
           WorkerProbe, WorkerAbandon, BeforeDial, WorkerDialed, WorkerSend
  <2> QED BY <2>1, StepKeepsContext, RequestNumbers DEF LifeOK, Spawned
<1> DEFINE Others == \A v \in WorkerId : v # w =>
                       wpc'[g][v] = wpc[g][v] /\ wtarget'[g][v] = wtarget[g][v]
<1>2. CASE WorkerEnter(g, w) \/ WorkerReturn(g, w) \/ WorkerAbandon(g, w)
  <2>1. fed' = fed /\ taken' = taken /\ probed' = probed
    BY <1>2 DEF WorkerEnter, WorkerReturn, WorkerAbandon, chanVars, histVars
  <2>2. ~OnPort(g, w)' /\ Others
    BY <1>2 DEF WorkerEnter, WorkerReturn, WorkerAbandon, OnPort, SetW,
                TypeOK, TypeWorkers
  <2> QED BY <1>1, <2>1, <2>2, LeavesPort
<1>3. CASE WorkerReceive(g, w)
  <2>1. /\ fed' = fed /\ probed' = probed
        /\ taken'[g] = taken[g] + 1 /\ taken[g] \in Nat
        /\ taken[g] < fed[g] /\ fed[g] \in Nat
    BY <1>3 DEF WorkerReceive, TakePort, TypeOK, TypeChan, histVars
  <2>2. /\ wpc'[g][w] = "probe" /\ wtarget'[g][w] = <<taken[g] + 1, 1>>
        /\ Others
    BY <1>3 DEF WorkerReceive, SetW, TypeOK, TypeWorkers
  <2>3. taken'[g] <= fed'[g] /\ fed'[g] <= request'[g].ports
    BY <1>1, <2>1 DEF PortsOK, TypeOK, TypeChan
  <2>4. probed'[g] \subseteq (1 .. taken'[g]) \X (1 .. request'[g].ips)
    BY <1>1, <2>1 DEF PortsOK
  <2>5. \A v \in WorkerId : v # w /\ OnPort(g, v)' =>
          /\ wtarget'[g][v] \in (1 .. taken[g]) \X (1 .. request[g].ips)
          /\ ProbedInOrder(g, v)'
    BY <1>1, <2>1, <2>2 DEF PortsOK, OnPort, ProbedInOrder
  <2>6. wtarget'[g][w] \in (1 .. taken'[g]) \X (1 .. request'[g].ips)
    BY <1>1, <2>1, <2>2
  <2>7. ProbedInOrder(g, w)'
    BY <1>1, <2>1, <2>2 DEF PortsOK, ProbedInOrder
  <2>8. \A u, v \in WorkerId : u # v /\ OnPort(g, u)' /\ OnPort(g, v)' =>
          wtarget'[g][u][1] # wtarget'[g][v][1]
    <3> SUFFICES ASSUME NEW u \in WorkerId, NEW v \in WorkerId, u # v,
                        OnPort(g, u)', OnPort(g, v)'
                 PROVE  wtarget'[g][u][1] # wtarget'[g][v][1]
      OBVIOUS
    <3>1. CASE u = w \/ v = w
      BY <2>1, <2>2, <2>5, <3>1
    <3>2. CASE u # w /\ v # w
      BY <2>2, <3>2 DEF PortsOK, OnPort
    <3> QED BY <3>1, <3>2
  <2>9. \A v \in WorkerId : v # w /\ OnPort(g, v)' =>
          wtarget'[g][v] \in (1 .. taken'[g]) \X (1 .. request'[g].ips)
    BY <1>1, <2>1, <2>5
  <2> QED BY <2>3, <2>4, <2>5, <2>6, <2>7, <2>8, <2>9 DEF PortsOK
<1>4. CASE WorkerProbe(g, w)
  <2>1. /\ fed' = fed /\ taken' = taken /\ wtarget' = wtarget
        /\ probed'[g] = probed[g] \cup {wtarget[g][w]}
        /\ wpc[g][w] = "probe" /\ wpc'[g][w] = "dialing" /\ Others
    BY <1>4 DEF WorkerProbe, SetW, TypeOK, TypeWorkers, TypeHist, chanVars
  <2>2. \A v \in WorkerId : OnPort(g, v)' <=> OnPort(g, v)
    BY <2>1 DEF OnPort
  <2>3. /\ wtarget[g][w] \in (1 .. taken[g]) \X (1 .. request[g].ips)
        /\ wtarget[g][w] = <<wtarget[g][w][1], wtarget[g][w][2]>>
    BY <2>1 DEF PortsOK, OnPort
  <2>4. ProbedInOrder(g, w)'
    BY <1>1, <2>1, <2>3 DEF PortsOK, ProbedInOrder, OnPort
  <2>5. \A v \in WorkerId : v # w /\ OnPort(g, v) => ProbedInOrder(g, v)'
    <3> SUFFICES ASSUME NEW v \in WorkerId, v # w, OnPort(g, v)
                 PROVE  ProbedInOrder(g, v)'
      OBVIOUS
    <3>1. wtarget[g][v][1] # wtarget[g][w][1] /\ ProbedInOrder(g, v)
      BY <2>1 DEF PortsOK, OnPort
    <3>2. \A j : <<wtarget[g][v][1], j>> \in probed'[g] <=>
                 <<wtarget[g][v][1], j>> \in probed[g]
      BY <2>1, <2>3, <3>1
    <3> QED BY <1>1, <2>1, <3>1, <3>2 DEF ProbedInOrder
  <2> QED BY <1>1, <2>1, <2>2, <2>3, <2>4, <2>5 DEF PortsOK
<1>5. CASE WorkerDialed(g, w)
  <2>1. /\ fed' = fed /\ taken' = taken /\ wtarget' = wtarget /\ probed' = probed
        /\ wpc[g][w] = "dialing" /\ wpc'[g][w] = "send" /\ Others
    BY <1>5 DEF WorkerDialed, SetW, TypeOK, TypeWorkers, chanVars, histVars
  <2> QED BY <1>1, <2>1 DEF PortsOK, OnPort, ProbedInOrder
<1>6. CASE WorkerSend(g, w)
  <2>1. /\ fed' = fed /\ taken' = taken /\ probed' = probed /\ Others
        /\ wpc[g][w] = "send"
    BY <1>6 DEF WorkerSend, SetW, TypeOK, TypeWorkers, histVars
  <2>2. CASE ~MoreIps(g, wtarget[g][w][2])
    <3>1. ~OnPort(g, w)'
      BY <1>6, <2>2 DEF WorkerSend, SetW, OnPort, TypeOK, TypeWorkers
    <3> QED BY <1>1, <2>1, <3>1, LeavesPort
  <2>3. CASE MoreIps(g, wtarget[g][w][2])
    <3>1. /\ wpc'[g][w] = "probe"
          /\ wtarget'[g][w] = <<wtarget[g][w][1], wtarget[g][w][2] + 1>>
      BY <1>6, <2>3 DEF WorkerSend, SetW, TypeOK, TypeWorkers
    <3>2. /\ wtarget[g][w] \in (1 .. taken[g]) \X (1 .. request[g].ips)
          /\ ProbedInOrder(g, w)
      BY <2>1 DEF PortsOK, OnPort
    <3>3. wtarget'[g][w] \in (1 .. taken[g]) \X (1 .. request[g].ips)
      BY <1>1, <2>3, <3>1, <3>2 DEF MoreIps
    <3>4. ProbedInOrder(g, w)'
      BY <1>1, <2>1, <3>1, <3>2 DEF ProbedInOrder
    <3>5. \A v \in WorkerId : OnPort(g, v)' <=> OnPort(g, v)
      BY <2>1, <3>1 DEF OnPort
    <3>6. \A v \in WorkerId : wtarget'[g][v][1] = wtarget[g][v][1]
      BY <2>1, <3>1
    <3>7. \A v \in WorkerId : v # w /\ OnPort(g, v) =>
            /\ wtarget'[g][v] \in (1 .. taken[g]) \X (1 .. request[g].ips)
            /\ ProbedInOrder(g, v)'
      BY <1>1, <2>1 DEF PortsOK, ProbedInOrder
    <3> QED BY <1>1, <2>1, <3>3, <3>4, <3>5, <3>6, <3>7 DEF PortsOK
  <2> QED BY <2>2, <2>3
<1> QED BY <1>2, <1>3, <1>4, <1>5, <1>6 DEF WorkerStep

\* So does a step of any goroutine of the scan.
LEMMA PortsOwnStep ==
  ASSUME TypeOK, NEW g \in Scan, PortsOK(g), LifeOK(g), StepOf(g)
  PROVE  PortsOK(g)'
<1>1. CASE ReadWorkers(g) \/ Clamp(g) \/ CollectorReceive(g) \/ CollectorRecord(g)
           \/ CollectorFinish(g) \/ CloseResults(g) \/ ClosePorts(g)
  BY <1>1 DEF ReadWorkers, Clamp, CollectorReceive, CollectorRecord,
     CollectorFinish, CloseResults, ClosePorts, PortsOK, OnPort, ProbedInOrder,
     runVars, chanVars, wVars, histVars
<1>2. CASE SpawnWorkers(g)
  <2>1. \A w \in WorkerId : ~OnPort(g, w)'
    BY <1>2 DEF SpawnWorkers, OnPort, TypeOK, TypeWorkers
  <2>2. request' = request /\ fed' = fed /\ taken' = taken /\ probed' = probed
    BY <1>2 DEF SpawnWorkers, chanVars, histVars
  <2> QED BY <2>1, <2>2 DEF PortsOK
<1>3. CASE FeedPort(g)
  <2>1. request[g].ports \in Nat
    BY <1>3, RequestNumbers DEF FeedPort, Spawned, LifeOK
  <2>2. taken[g] <= fed'[g] /\ fed'[g] <= request[g].ports
    BY <1>3, <2>1 DEF FeedPort, TypeOK, TypeChan, PortsOK
  <2> QED BY <1>3, <2>2 DEF FeedPort, PortsOK, OnPort, ProbedInOrder, runVars,
                            wVars, histVars
<1>4. ASSUME NEW w \in WorkerId, WorkerStep(g, w) PROVE PortsOK(g)'
  BY <1>4, PortsWorkerStep
<1> QED BY <1>1, <1>2, <1>3, <1>4 DEF StepOf, Orchestrator, Feeder

\* Every step of the system keeps the invariant of every scan.
LEMMA PortsStep ==
  TypeOK /\ ScanInv /\ [Next]_vars => ScanInv'
<1> SUFFICES ASSUME TypeOK, ScanInv, [Next]_vars, NEW g \in Scan PROVE PortsOK(g)'
  BY LifeStep DEF ScanInv
<1>1. ASSUME NEW r \in Requests, Start(r) PROVE PortsOK(g)'
  <2>1. CASE g # ctx + 1
    BY <1>1, <2>1, StartStep, SameKeeps DEF ScanInv
  <2>2. CASE g = ctx + 1
    <3>1. Untouched(g)'
      BY <1>1, <2>2, StartStep DEF ScanInv, LifeOK, Spawned, Untouched, chanVars, wVars
    <3>2. request'[g].ports \in Nat
      BY <1>1, <2>2, StartStep, RequestNumbers
    <3> QED BY <3>1, <3>2 DEF Untouched, PortsOK, OnPort
  <2> QED BY <2>1, <2>2
<1>2. CASE Stop \/ GetStatus \/ UNCHANGED vars
  BY <1>2, OutsideStep, SameKeeps DEF ScanInv
<1>3. ASSUME NEW h \in Scan, StepOf(h) PROVE PortsOK(g)'
  BY <1>3, PortsOwnStep, OthersSame, SameKeeps DEF ScanInv
<1> QED BY <1>1, <1>2, <1>3 DEF Next, StepOf

\* It holds while no scan was started.
LEMMA ScanInit == Init => ScanInv
<1> SUFFICES ASSUME Init, NEW g \in Scan PROVE PortsOK(g)
  BY LifeInit DEF ScanInv
<1>1. request[g].ports \in Nat
  BY DEF Init, NoRequest
<1>2. Untouched(g)
  BY DEF Init, Untouched
<1> QED BY <1>1, <1>2, TypeInit, UntouchedPorts

\* The invariant of one scan holds of every scan, however Start and Stop come.
THEOREM ScanInvariant == Spec => []ScanInv
  BY TypeCorrect, ScanInit, PortsStep, PTL DEF Spec

\* The target a worker is about to dial was not dialed before in its scan.
LEMMA FreshTarget ==
  ASSUME TypeOK, ScanInv, NEW g \in Scan, NEW w \in WorkerId, wpc[g][w] = "probe"
  PROVE  wtarget[g][w] \notin probed[g]
<1>1. /\ wtarget[g][w] \in (1 .. taken[g]) \X (1 .. request[g].ips)
      /\ ProbedInOrder(g, w)
  BY DEF ScanInv, PortsOK, OnPort
<1>2. /\ wtarget[g][w] = <<wtarget[g][w][1], wtarget[g][w][2]>>
      /\ wtarget[g][w][2] \in 1 .. request[g].ips /\ wtarget[g][w][2] \in Nat
  BY <1>1 DEF TypeOK, TypeWorkers
<1> QED BY <1>1, <1>2 DEF ProbedInOrder

\* No target is dialed twice in a scan.
THEOREM ProbesOnce == Spec => ProbeAtMostOnce
<1> DEFINE Fresh == \A g \in Scan, w \in WorkerId :
       wpc[g][w] = "probe" /\ wpc'[g][w] = "dialing" => wtarget[g][w] \notin probed[g]
<1>1. TypeOK /\ ScanInv => [Fresh]_vars
  BY FreshTarget
<1> QED BY <1>1, TypeCorrect, ScanInvariant, PTL DEF ProbeAtMostOnce

-----------------------------------------------------------------------------
(* No result is lost or counted twice.                                      *)

\* The account of one scan: every target dialed is with a worker, in
\* resultsChan, in the collector's hand or recorded.
Balance(g) ==
  /\ IsFiniteSet(probed[g])
  /\ Cardinality(probed[g]) = Cardinality(Busy(g)) + Len(resultsChan[g])
                                + Len(inHand[g]) + recorded[g]

\* The workers of a scan are finitely many.
LEMMA BusyIsFinite ==
  ASSUME NEW g \in Scan
  PROVE  IsFiniteSet(Busy(g)) /\ Cardinality(Busy(g)) \in Nat
<1>1. MaxWorkers \in Nat
  BY RequestsAssumption
<1>2. IsFiniteSet(WorkerId)
  BY <1>1, FS_Interval DEF WorkerId
<1>3. Busy(g) \in SUBSET WorkerId
  BY DEF Busy
<1> QED BY <1>2, <1>3, FS_Subset, FS_CardinalityType

\* The numbers of the account are natural.
LEMMA BalanceType ==
  ASSUME TypeOK, NEW g \in Scan
  PROVE  /\ Len(resultsChan[g]) \in Nat /\ Len(inHand[g]) \in Nat
         /\ recorded[g] \in Nat
BY DEF TypeOK, TypeChan, TypeRun, TypeHist

\* How much a step adds to each place of the account.
Adds(g, dp, db, dl, di, dr) ==
  /\ IsFiniteSet(probed'[g])
  /\ Cardinality(probed'[g]) = Cardinality(probed[g]) + dp
  /\ Cardinality(Busy(g)') = Cardinality(Busy(g)) + db
  /\ Len(resultsChan'[g]) = Len(resultsChan[g]) + dl
  /\ Len(inHand'[g]) = Len(inHand[g]) + di
  /\ recorded'[g] = recorded[g] + dr

\* A step that adds as much on one side as on the other keeps the account.
LEMMA BalanceMoves ==
  ASSUME TypeOK, NEW g \in Scan, Balance(g),
         NEW dp \in Int, NEW db \in Int, NEW dl \in Int, NEW di \in Int, NEW dr \in Int,
         dp = db + dl + di + dr, Adds(g, dp, db, dl, di, dr)
  PROVE  Balance(g)'
<1> DEFINE p == Cardinality(probed[g])
           b == Cardinality(Busy(g))
           l == Len(resultsChan[g])
           i == Len(inHand[g])
           r == recorded[g]
<1>1. b \in Nat /\ l \in Nat /\ i \in Nat /\ r \in Nat /\ p = b + l + i + r
  BY BusyIsFinite, BalanceType DEF Balance
<1>2. p + dp = (b + db) + (l + dl) + (i + di) + (r + dr)
  <2> HIDE DEF p, b, l, i, r
  <2> QED BY <1>1
<1>3. Cardinality(probed'[g]) = Cardinality(Busy(g)') + Len(resultsChan'[g])
                                  + Len(inHand'[g]) + recorded'[g]
  BY <1>2 DEF Adds
<1> QED BY <1>3 DEF Balance, Adds

\* A step that moves no result and takes none from a worker keeps the account.
LEMMA BalanceIdle ==
  ASSUME NEW g \in Scan, Balance(g), Busy(g)' = Busy(g),
         probed'[g] = probed[g], resultsChan'[g] = resultsChan[g],
         inHand'[g] = inHand[g], recorded'[g] = recorded[g]
  PROVE  Balance(g)'
BY DEF Balance

\* So does a step that leaves the whole scan alone.
LEMMA BalanceSame ==
  ASSUME NEW g \in Scan, Balance(g), Same(g)
  PROVE  Balance(g)'
<1>1. Busy(g)' = Busy(g)
  BY DEF Same, Busy
<1> QED BY <1>1, BalanceIdle DEF Same

\* The collector moves a result from resultsChan to its hand and from there to
\* the record.
LEMMA BalanceCollector ==
  ASSUME TypeOK, NEW g \in Scan, LifeOK(g), Balance(g),
         CollectorReceive(g) \/ CollectorRecord(g)
  PROVE  Balance(g)'
<1>1. Busy(g)' = Busy(g) /\ probed' = probed
  BY DEF CollectorReceive, CollectorRecord, Busy, wVars, histVars
<1>2. /\ IsFiniteSet(probed'[g])
      /\ Cardinality(probed'[g]) = Cardinality(probed[g]) + 0
      /\ Cardinality(Busy(g)') = Cardinality(Busy(g)) + 0
  <2>1. Cardinality(probed[g]) \in Nat /\ Cardinality(Busy(g)) \in Nat
    BY BusyIsFinite, FS_CardinalityType DEF Balance
  <2> QED BY <1>1, <2>1 DEF Balance
<1>3. CASE CollectorReceive(g)
  <2>1. /\ inHand[g] = <<>> /\ Len(inHand[g]) = 0
        /\ recorded' = recorded
    BY <1>3 DEF CollectorReceive, LifeOK, histVars
  <2>2. /\ resultsChan[g] \in Seq(Result) /\ resultsChan[g] # <<>>
        /\ resultsChan'[g] = Tail(resultsChan[g])
        /\ inHand'[g] = <<Head(resultsChan[g])>>
    BY <1>3 DEF CollectorReceive, TypeOK, TypeChan, TypeRun
  <2>3. /\ Len(resultsChan'[g]) = Len(resultsChan[g]) + (-1)
        /\ Len(inHand'[g]) = Len(inHand[g]) + 1
        /\ recorded'[g] = recorded[g] + 0
    BY <2>1, <2>2, BalanceType
  <2>4. Adds(g, 0, 0, -1, 1, 0)
    BY <1>2, <2>3 DEF Adds
  <2> QED BY <2>4, BalanceMoves
<1>4. CASE CollectorRecord(g)
  <2>1. /\ Len(inHand[g]) = 1 /\ inHand'[g] = <<>>
        /\ resultsChan' = resultsChan
        /\ recorded'[g] = recorded[g] + 1
    BY <1>4 DEF CollectorRecord, TypeOK, TypeRun, TypeHist, chanVars
  <2>2. /\ Len(resultsChan'[g]) = Len(resultsChan[g]) + 0
        /\ Len(inHand'[g]) = Len(inHand[g]) + (-1)
        /\ recorded'[g] = recorded[g] + 1
    BY <2>1, BalanceType
  <2>3. Adds(g, 0, 0, 0, -1, 1)
    BY <1>2, <2>2 DEF Adds
  <2> QED BY <2>3, BalanceMoves
<1> QED BY <1>3, <1>4

\* A dial adds a target nobody dialed before and makes its worker busy; a send
\* makes it idle and adds one result to resultsChan.
LEMMA BalanceWorker ==
  ASSUME TypeOK, ScanInv, NEW g \in Scan, NEW w \in WorkerId, Balance(g),
         WorkerStep(g, w)
  PROVE  Balance(g)'
<1>1. CASE WorkerEnter(g, w) \/ WorkerReceive(g, w) \/ WorkerReturn(g, w)
             \/ WorkerAbandon(g, w) \/ WorkerDialed(g, w)
  <2>1. Busy(g)' = Busy(g)
    BY <1>1 DEF WorkerEnter, WorkerReceive, WorkerReturn, WorkerAbandon,
       BeforeDial, WorkerDialed, Busy, SetW, TypeOK, TypeWorkers
  <2>2. UNCHANGED <<probed, resultsChan, inHand, recorded>>
    BY <1>1 DEF WorkerEnter, WorkerReceive, WorkerReturn, WorkerAbandon,
       WorkerDialed, runVars, chanVars, histVars
  <2> QED BY <2>1, <2>2, BalanceIdle
<1>2. CASE WorkerProbe(g, w)
  <2>1. /\ wpc[g][w] = "probe"
        /\ probed'[g] = probed[g] \cup {wtarget[g][w]}
        /\ UNCHANGED <<resultsChan, inHand, recorded>>
    BY <1>2 DEF WorkerProbe, TypeOK, TypeHist, runVars, chanVars
  <2>2. w \notin Busy(g) /\ Busy(g)' = Busy(g) \cup {w}
    BY <1>2 DEF WorkerProbe, Busy, SetW, TypeOK, TypeWorkers
  <2>3. Cardinality(Busy(g)') = Cardinality(Busy(g)) + 1
    BY <2>2, BusyIsFinite, FS_AddElement
  <2>4. wtarget[g][w] \notin probed[g]
    BY <2>1, FreshTarget
  <2>5. /\ IsFiniteSet(probed'[g])
        /\ Cardinality(probed'[g]) = Cardinality(probed[g]) + 1
    <3>1. IsFiniteSet(probed[g])
      BY DEF Balance
    <3>2. /\ IsFiniteSet(probed[g] \cup {wtarget[g][w]})
          /\ Cardinality(probed[g] \cup {wtarget[g][w]}) = Cardinality(probed[g]) + 1
      BY <2>4, <3>1, FS_AddElement
    <3> QED BY <2>1, <3>2
  <2>6. /\ Len(resultsChan'[g]) = Len(resultsChan[g]) + 0
        /\ Len(inHand'[g]) = Len(inHand[g]) + 0
        /\ recorded'[g] = recorded[g] + 0
    BY <2>1, BalanceType
  <2>7. Adds(g, 1, 1, 0, 0, 0)
    BY <2>3, <2>5, <2>6 DEF Adds
  <2> QED BY <2>7, BalanceMoves
<1>3. CASE WorkerSend(g, w)
  <2>1. UNCHANGED <<probed, inHand, recorded>>
    BY <1>3 DEF WorkerSend, runVars, histVars
  <2>2. w \in Busy(g) /\ Busy(g)' = Busy(g) \ {w}
    BY <1>3 DEF WorkerSend, Busy, SetW, TypeOK, TypeWorkers
  <2>3. Cardinality(Busy(g)') = Cardinality(Busy(g)) + (-1)
    BY <2>2, BusyIsFinite, FS_RemoveElement
  <2>4. /\ IsFiniteSet(probed'[g])
        /\ Cardinality(probed'[g]) = Cardinality(probed[g]) + 0
    BY <2>1, FS_CardinalityType DEF Balance
  <2>5. /\ Len(resultsChan'[g]) = Len(resultsChan[g]) + 1
        /\ Len(inHand'[g]) = Len(inHand[g]) + 0
        /\ recorded'[g] = recorded[g] + 0
    BY <1>3, <2>1, BalanceType DEF WorkerSend, TypeOK, TypeChan
  <2>6. Adds(g, 0, -1, 1, 0, 0)
    BY <2>3, <2>4, <2>5 DEF Adds
  <2> QED BY <2>6, BalanceMoves
<1> QED BY <1>1, <1>2, <1>3 DEF WorkerStep

\* Every goroutine of a scan keeps the account of the scan.
LEMMA BalanceOwnStep ==
  ASSUME TypeOK, ScanInv, NEW g \in Scan, Balance(g), StepOf(g)
  PROVE  Balance(g)'
<1>1. CASE ReadWorkers(g) \/ Clamp(g) \/ CollectorFinish(g) \/ Feeder(g)
             \/ CloseResults(g)
  <2>1. /\ Busy(g)' = Busy(g)
        /\ UNCHANGED <<probed, resultsChan, inHand, recorded>>
    BY <1>1 DEF ReadWorkers, Clamp, CollectorFinish, Feeder, FeedPort,
       ClosePorts, CloseResults, Busy, runVars, chanVars, wVars, histVars
  <2> QED BY <2>1, BalanceIdle
<1>2. CASE SpawnWorkers(g)
  <2>1. Busy(g) = {}
    BY <1>2 DEF SpawnWorkers, ScanInv, LifeOK, Spawned, Untouched, Busy
  <2>2. Busy(g)' = {}
    BY <1>2 DEF SpawnWorkers, Busy, TypeOK, TypeWorkers
  <2>3. UNCHANGED <<probed, resultsChan, inHand, recorded>>
    BY <1>2 DEF SpawnWorkers, chanVars, histVars
  <2> QED BY <2>1, <2>2, <2>3, BalanceIdle
<1>3. CASE CollectorReceive(g) \/ CollectorRecord(g)
  BY <1>3, BalanceCollector DEF ScanInv
<1>4. ASSUME NEW w \in WorkerId, WorkerStep(g, w) PROVE Balance(g)'
  BY <1>4, BalanceWorker
<1> QED BY <1>1, <1>2, <1>3, <1>4 DEF StepOf, Orchestrator

\* Nothing was dialed and nothing reported before the first Start.
LEMMA BalanceInit == Init => \A g \in Scan : Balance(g)
<1> SUFFICES ASSUME Init, NEW g \in Scan PROVE Balance(g)
  OBVIOUS
<1>1. Busy(g) = {} /\ probed[g] = {} /\ recorded[g] = 0
  BY DEF Init, Busy
<1>2. Len(resultsChan[g]) = 0 /\ Len(inHand[g]) = 0
  BY DEF Init
<1> QED BY <1>1, <1>2, FS_EmptySet DEF Balance

\* Every step of the system keeps every account.
LEMMA BalanceStep ==
  TypeOK /\ ScanInv /\ (\A g \in Scan : Balance(g)) /\ [Next]_vars
     => (\A g \in Scan : Balance(g))'
<1> SUFFICES ASSUME TypeOK, ScanInv, \A g \in Scan : Balance(g), [Next]_vars,
                    NEW g \in Scan
             PROVE  Balance(g)'
  OBVIOUS
<1>1. ASSUME NEW r \in Requests, Start(r) PROVE Balance(g)'
  <2>1. UNCHANGED <<chanVars, wVars, probed, recorded>> /\ inHand'[g] = inHand[g]
    BY <1>1, StartStep DEF Same
  <2>2. Busy(g)' = Busy(g)
    BY <2>1 DEF Busy, wVars
  <2> QED BY <2>1, <2>2, BalanceIdle DEF chanVars
<1>2. CASE Stop \/ GetStatus \/ UNCHANGED vars
  BY <1>2, OutsideStep, BalanceSame
<1>3. ASSUME NEW h \in Scan, StepOf(h) PROVE Balance(g)'
  BY <1>3, BalanceOwnStep, OthersSame, BalanceSame
<1> QED BY <1>1, <1>2, <1>3 DEF Next, StepOf

\* No result is lost and none is counted twice, however Start and Stop come
\* (runScan, worker).
THEOREM ResultsAreKept == Spec => []NoResultLost
<1>1. (\A g \in Scan : Balance(g)) => NoResultLost
  BY DEF Balance, NoResultLost
<1> QED BY <1>1, TypeCorrect, ScanInvariant, BalanceInit, BalanceStep, PTL DEF Spec

-----------------------------------------------------------------------------
(***************************************************************************)
(* What the object of PortScanner shows belongs to its current scan, as     *)
(* long as no Start found goroutines of a stopped scan alive.               *)
(***************************************************************************)

\* What the workers and the collector carry was found by the scan on a target
\* it dialed.
OwnResult(g, res) == res.scan = g /\ res.target \in probed[g]
ResultsOwn(g) ==
  /\ \A i \in 1 .. Len(resultsChan[g]) : OwnResult(g, resultsChan[g][i])
  /\ \A i \in 1 .. Len(inHand[g]) : OwnResult(g, inHand[g][i])

\* A scan that has workers keeps them.
HasWorkers(g) == Spawned(g) => \E w \in WorkerId : wpc[g][w] # "none"

\* The object and its current scan.
ObjectOK ==
  ~overlapped =>
    /\ \A g \in Scan : Live(g) => g = ctx
    /\ isRunning => ctx # 0
    /\ ctx # 0 =>
         /\ isRunning <=> Live(ctx) /\ ctx \notin cancelled
         /\ scannedPorts = recorded[ctx]
         /\ totalPorts = request[ctx].ips * request[ctx].ports
    /\ \A res \in openPorts : ctx # 0 /\ OwnResult(ctx, res)

\* A port taken from portsChan is dialed on every address, or a worker is on it.
Covered(g, p) ==
  \/ \A j \in 1 .. request[g].ips : <<p, j>> \in probed[g]
  \/ \E w \in WorkerId : OnPort(g, w) /\ wtarget[g][w][1] = p

\* Nobody gives up on a scan when neither it nor a later one was stopped: its
\* goroutines never look at the context of an earlier one.
GoesOn(g) ==
  NotStopped(g) =>
    /\ portsClosed[g] => FedAll(g)
    /\ \A w \in WorkerId :
         /\ wpc[g][w] = "done" => portsClosed[g] /\ taken[g] = fed[g]
         /\ wpc[g][w] = "select" => wctx[g][w] >= g
    /\ \A p \in 1 .. taken[g] : Covered(g, p)

-----------------------------------------------------------------------------
(* What every step leaves in place.                                         *)

\* A target once dialed stays in the history.
LEMMA ProbedGrows ==
  ASSUME TypeOK, [Next]_vars, NEW g \in Scan
  PROVE  probed[g] \subseteq probed'[g]
<1>1. ASSUME NEW r \in Requests, Start(r) PROVE probed[g] \subseteq probed'[g]
  BY <1>1 DEF Start
<1>2. CASE Stop \/ GetStatus \/ UNCHANGED vars
  BY <1>2, OutsideStep DEF Same
<1>3. ASSUME NEW h \in Scan, StepOf(h), h # g PROVE probed[g] \subseteq probed'[g]
  BY <1>3, OthersSame DEF Same
<1>4. ASSUME Orchestrator(g) \/ Feeder(g) \/ CloseResults(g)
      PROVE  probed[g] \subseteq probed'[g]
  BY <1>4 DEF Orchestrator, ReadWorkers, Clamp, SpawnWorkers, CollectorReceive,
     CollectorRecord, CollectorFinish, Feeder, FeedPort, ClosePorts, CloseResults,
     histVars
<1>5. ASSUME NEW w \in WorkerId, WorkerStep(g, w) PROVE probed[g] \subseteq probed'[g]
  BY <1>5 DEF WorkerStep, WorkerEnter, WorkerReceive, WorkerReturn, WorkerProbe,
     WorkerAbandon, WorkerDialed, WorkerSend, histVars, TypeOK, TypeHist
<1> QED BY <1>1, <1>2, <1>3, <1>4, <1>5 DEF Next, StepOf

\* What nobody touches stays a result of the scan.
LEMMA ResultsKept ==
  ASSUME NEW g \in Scan, ResultsOwn(g), probed[g] \subseteq probed'[g],
         resultsChan'[g] = resultsChan[g], inHand'[g] = inHand[g]
  PROVE  ResultsOwn(g)'
BY DEF ResultsOwn, OwnResult

\* A worker sends what it found on the target it dialed, and the collector
\* takes what was sent.
LEMMA ResultsOwnStep ==
  ASSUME TypeOK, ScanInv, NEW g \in Scan, ResultsOwn(g), StepOf(g),
         probed[g] \subseteq probed'[g]
  PROVE  ResultsOwn(g)'
<1>1. CASE ReadWorkers(g) \/ Clamp(g) \/ SpawnWorkers(g) \/ CollectorFinish(g)
             \/ Feeder(g) \/ CloseResults(g)
  <2>1. UNCHANGED <<resultsChan, inHand>>
    BY <1>1 DEF ReadWorkers, Clamp, SpawnWorkers, CollectorFinish, Feeder,
       FeedPort, ClosePorts, CloseResults, runVars, chanVars
  <2> QED BY <2>1, ResultsKept
<1>2. CASE CollectorReceive(g)
  <2>1. /\ resultsChan[g] \in Seq(Result) /\ resultsChan[g] # <<>>
        /\ resultsChan'[g] = Tail(resultsChan[g])
        /\ inHand'[g] = <<Head(resultsChan[g])>>
    BY <1>2 DEF CollectorReceive, TypeOK, TypeChan, TypeRun
  <2>2. /\ \A i \in 1 .. Len(resultsChan'[g]) :
             /\ resultsChan'[g][i] = resultsChan[g][i + 1]
             /\ i + 1 \in 1 .. Len(resultsChan[g])
        /\ Len(inHand'[g]) = 1 /\ inHand'[g][1] = resultsChan[g][1]
        /\ 1 \in 1 .. Len(resultsChan[g])
    BY <2>1
  <2> QED BY <2>2 DEF ResultsOwn, OwnResult
<1>3. CASE CollectorRecord(g)
  <2>1. resultsChan' = resultsChan /\ inHand'[g] = <<>>
    BY <1>3 DEF CollectorRecord, TypeOK, TypeRun, chanVars
  <2> QED BY <2>1 DEF ResultsOwn, OwnResult
<1>4. ASSUME NEW w \in WorkerId, WorkerStep(g, w), ~WorkerSend(g, w)
      PROVE  ResultsOwn(g)'
  <2>1. UNCHANGED <<resultsChan, inHand>>
    BY <1>4 DEF WorkerStep, WorkerEnter, WorkerReceive, WorkerReturn,
       WorkerProbe, WorkerAbandon, WorkerDialed, runVars, chanVars
  <2> QED BY <2>1, ResultsKept
<1>5. ASSUME NEW w \in WorkerId, WorkerSend(g, w) PROVE ResultsOwn(g)'
  <2> DEFINE res == [scan |-> g,
                     target |-> <<wtarget[g][w][1], wtarget[g][w][2]>>,
                     outcome |-> wres[g][w]]
  <2>1. /\ wpc[g][w] = "send" /\ inHand' = inHand
        /\ resultsChan[g] \in Seq(Result)
        /\ resultsChan'[g] = Append(resultsChan[g], res)
    BY <1>5 DEF WorkerSend, TypeOK, TypeChan, runVars
  <2>2. /\ wtarget[g][w] \in (1 .. taken[g]) \X (1 .. request[g].ips)
        /\ ProbedInOrder(g, w)
    BY <2>1 DEF ScanInv, PortsOK, OnPort
  <2>3. <<wtarget[g][w][1], wtarget[g][w][2]>> \in probed[g]
    BY <2>1, <2>2 DEF ProbedInOrder
  <2>4. OwnResult(g, res)
    BY <2>3 DEF OwnResult
  <2>5. /\ Len(resultsChan'[g]) = Len(resultsChan[g]) + 1
        /\ Len(resultsChan[g]) \in Nat
        /\ \A i \in 1 .. Len(resultsChan[g]) : resultsChan'[g][i] = resultsChan[g][i]
        /\ resultsChan'[g][Len(resultsChan[g]) + 1] = res
    <3> HIDE DEF res
    <3>1. res \in Result
      BY <1>5 DEF res, WorkerSend, TypeOK, TypeWorkers, Result
    <3> QED BY <2>1, <3>1
  <2>6. \A i \in 1 .. Len(resultsChan'[g]) : OwnResult(g, resultsChan'[g][i])
    <3> HIDE DEF res
    <3> SUFFICES ASSUME NEW i \in 1 .. Len(resultsChan'[g])
                 PROVE  OwnResult(g, resultsChan'[g][i])
      OBVIOUS
    <3>1. CASE i \in 1 .. Len(resultsChan[g])
      BY <2>5, <3>1 DEF ResultsOwn
    <3>2. CASE i = Len(resultsChan[g]) + 1
      BY <2>4, <2>5, <3>2
    <3> QED BY <2>5, <3>1, <3>2
  <2> QED BY <2>1, <2>6 DEF ResultsOwn, OwnResult
<1> QED BY <1>1, <1>2, <1>3, <1>4, <1>5 DEF StepOf, Orchestrator

\* Spawned workers are not taken back.
LEMMA HasWorkersStep ==
  ASSUME TypeOK, NEW g \in Scan, HasWorkers(g), StepOf(g)
  PROVE  HasWorkers(g)'
<1>1. CASE ReadWorkers(g) \/ Clamp(g)
  BY <1>1 DEF ReadWorkers, Clamp, HasWorkers, Spawned, TypeOK, TypeRun
<1>2. CASE SpawnWorkers(g)
  <2>1. PICK n \in 1 .. MaxWorkers :
          wpc' = [wpc EXCEPT ![g] = [w \in WorkerId |-> IF w <= n THEN "enter" ELSE "none"]]
    BY <1>2 DEF SpawnWorkers
  <2>2. MaxWorkers \in Nat
    BY RequestsAssumption
  <2>3. 1 \in WorkerId /\ wpc'[g][1] = "enter"
    BY <2>1, <2>2 DEF WorkerId, TypeOK, TypeWorkers
  <2> QED BY <2>3 DEF HasWorkers
<1>3. CASE CollectorReceive(g) \/ CollectorRecord(g) \/ CollectorFinish(g)
             \/ Feeder(g) \/ CloseResults(g)
  <2>1. wpc' = wpc /\ (Spawned(g)' => Spawned(g))
    BY <1>3 DEF CollectorReceive, CollectorRecord, CollectorFinish, Feeder,
       FeedPort, ClosePorts, CloseResults, Spawned, TypeOK, TypeRun, runVars, wVars
  <2> QED BY <2>1 DEF HasWorkers
<1>4. ASSUME NEW w \in WorkerId, WorkerStep(g, w) PROVE HasWorkers(g)'
  <2>1. wpc'[g][w] # "none" /\ w \in WorkerId
    BY <1>4 DEF WorkerStep, WorkerEnter, WorkerReceive, WorkerReturn,
       WorkerProbe, WorkerAbandon, WorkerDialed, WorkerSend, SetW, TypeOK, TypeWorkers
  <2> QED BY <2>1 DEF HasWorkers
<1> QED BY <1>1, <1>2, <1>3, <1>4 DEF StepOf, Orchestrator

-----------------------------------------------------------------------------
(* Nobody gives up on a scan before a Stop.                                 *)

\* A worker in its loop works for the current scan.
LEMMA WorkingIsCurrent ==
  ASSUME NEW g \in Scan, LifeOK(g), ObjectOK, ~overlapped,
         NEW w \in WorkerId, wpc[g][w] \notin {"none", "done"}
  PROVE  g = ctx /\ Live(g)
<1>1. Spawned(g) /\ ~resultsClosed[g]
  BY WorkingScan
<1>2. Live(g)
  BY <1>1 DEF LifeOK, Drained, Spawned, Live
<1> QED BY <1>2 DEF ObjectOK

\* A step that leaves a scan alone.
LEMMA GoesOnSame ==
  ASSUME NEW g \in Scan, GoesOn(g), Same(g), cancelled \subseteq cancelled'
  PROVE  GoesOn(g)'
BY DEF GoesOn, NotStopped, Same, FedAll, Covered, OnPort

\* A step of the scan that moves no worker and no port.
LEMMA GoesOnIdle ==
  ASSUME NEW g \in Scan, GoesOn(g), cancelled' = cancelled, request' = request,
         UNCHANGED <<fed, portsClosed, taken, wVars, probed>>
  PROVE  GoesOn(g)'
BY DEF GoesOn, NotStopped, FedAll, Covered, OnPort, wVars

\* A port is left only when every address was dialed.
LEMMA LeavesCovered ==
  ASSUME TypeOK, ScanInv, NEW g \in Scan, NEW w \in WorkerId,
         wpc[g][w] = "send", ~MoreIps(g, wtarget[g][w][2]),
         request[g].ips \in Nat
  PROVE  \A j \in 1 .. request[g].ips : <<wtarget[g][w][1], j>> \in probed[g]
<1>1. /\ wtarget[g][w] \in (1 .. taken[g]) \X (1 .. request[g].ips)
      /\ ProbedInOrder(g, w)
  BY DEF ScanInv, PortsOK, OnPort
<1>2. wtarget[g][w][2] = request[g].ips
  BY <1>1 DEF MoreIps
<1> QED BY <1>1, <1>2 DEF ProbedInOrder

\* The context that the goroutines of such a scan ask was not cancelled.
LEMMA ContextOpen ==
  ASSUME TypeOK, ScanInv, NEW g \in Scan, Spawned(g), NotStopped(g)
  PROVE  ctx \in Nat /\ ctx >= g /\ ~Cancelled(ctx)
<1>1. ctx \in Nat /\ g \in Nat
  BY ScansAssumption DEF TypeOK, TypeObj, Scan
<1>2. ~(g > ctx)
  BY DEF ScanInv, LifeOK, Spawned
<1> QED BY <1>1, <1>2 DEF NotStopped, Cancelled

\* The workers of a scan that nobody stopped take every port to its end.
LEMMA GoesOnWorker ==
  ASSUME TypeOK, ScanInv, NEW g \in Scan, GoesOn(g),
         NEW w \in WorkerId, WorkerStep(g, w), NotStopped(g)
  PROVE  GoesOn(g)'
<1>1. /\ ctx' = ctx /\ cancelled' = cancelled /\ request' = request
  BY StepKeepsContext DEF StepOf
<1>2. wpc[g][w] \notin {"none", "done"}
  BY DEF WorkerStep, WorkerEnter, WorkerReceive, WorkerReturn, WorkerProbe,
     WorkerAbandon, BeforeDial, WorkerDialed, WorkerSend
<1>3. /\ Spawned(g) /\ request[g].ips \in Nat \ {0}
      /\ ctx >= g /\ ~Cancelled(ctx)
  <2>1. Spawned(g)
    BY <1>2, WorkingScan DEF ScanInv
  <2> QED BY <2>1, ContextOpen, RequestNumbers DEF ScanInv, LifeOK, Spawned
<1>4. portsClosed' = portsClosed /\ fed' = fed
  BY DEF WorkerStep, WorkerEnter, WorkerReceive, WorkerReturn, WorkerProbe,
     WorkerAbandon, WorkerDialed, WorkerSend, chanVars
<1> DEFINE Others == \A v \in WorkerId : v # w =>
                       /\ wpc'[g][v] = wpc[g][v] /\ wtarget'[g][v] = wtarget[g][v]
                       /\ wctx'[g][v] = wctx[g][v]
<1>5. Others
  BY DEF WorkerStep, WorkerEnter, WorkerReceive, WorkerReturn, WorkerProbe,
     WorkerAbandon, WorkerDialed, WorkerSend, SetW, TypeOK, TypeWorkers
<1>6. CASE WorkerEnter(g, w) \/ WorkerReturn(g, w)
  <2>1. /\ UNCHANGED <<taken, probed>>
        /\ ~OnPort(g, w)
        /\ wpc'[g][w] = "select" => wctx'[g][w] >= g
        /\ wpc'[g][w] = "done" => portsClosed[g] /\ taken[g] = fed[g]
    <3>1. CASE WorkerEnter(g, w)
      BY <1>3, <3>1 DEF WorkerEnter, OnPort, SetW, TypeOK, TypeWorkers, chanVars, histVars
    <3>2. CASE WorkerReturn(g, w)
      <4>1. wpc[g][w] = "select" /\ wctx[g][w] >= g
        BY <3>2 DEF WorkerReturn, GoesOn
      <4>2. ~Cancelled(wctx[g][w])
        BY <4>1, ScansAssumption DEF NotStopped, Cancelled, TypeOK, TypeWorkers, Scan
      <4> QED BY <3>2, <4>1, <4>2 DEF WorkerReturn, OnPort, SetW, TypeOK, TypeWorkers,
                 chanVars, histVars
    <3> QED BY <1>6, <3>1, <3>2
  <2>2. \A p : Covered(g, p) => Covered(g, p)'
    BY <1>1, <1>5, <2>1 DEF Covered, OnPort
  <2> QED BY <1>1, <1>4, <1>5, <2>1, <2>2 DEF GoesOn, FedAll
<1>7. CASE WorkerReceive(g, w)
  <2>1. /\ wpc[g][w] = "select" /\ wpc'[g][w] = "probe"
        /\ wtarget'[g][w][1] = taken[g] + 1
        /\ taken'[g] = taken[g] + 1 /\ taken[g] \in Nat
        /\ taken[g] < fed[g] /\ probed' = probed
    BY <1>7 DEF WorkerReceive, TakePort, SetW, TypeOK, TypeWorkers, TypeChan, histVars
  <2>2. \A p : Covered(g, p) => Covered(g, p)'
    BY <1>1, <1>5, <2>1 DEF Covered, OnPort
  <2>3. \A p : p = taken[g] + 1 => Covered(g, p)'
    BY <2>1 DEF Covered, OnPort
  <2>4. \A p \in 1 .. taken'[g] : Covered(g, p)'
    BY <2>1, <2>2, <2>3 DEF GoesOn
  <2>5. \A v \in WorkerId : wpc[g][v] # "done"
    BY <2>1 DEF GoesOn, TypeOK, TypeChan
  <2> QED BY <1>1, <1>4, <1>5, <2>1, <2>4, <2>5 DEF GoesOn, FedAll
<1>8. CASE WorkerProbe(g, w) \/ WorkerDialed(g, w)
  <2>1. /\ taken' = taken /\ wtarget' = wtarget
        /\ probed[g] \subseteq probed'[g]
        /\ OnPort(g, w)' /\ wpc'[g][w] \notin {"done", "select"}
    BY <1>8 DEF WorkerProbe, WorkerDialed, OnPort, SetW, TypeOK, TypeWorkers,
       TypeHist, chanVars, histVars
  <2>2. \A p : Covered(g, p) => Covered(g, p)'
    BY <1>1, <1>5, <2>1 DEF Covered, OnPort
  <2> QED BY <1>1, <1>4, <1>5, <2>1, <2>2 DEF GoesOn, FedAll
<1>9. CASE WorkerAbandon(g, w)
  BY <1>3, <1>9 DEF WorkerAbandon
<1>10. CASE WorkerSend(g, w)
  <2>1. /\ UNCHANGED <<taken, probed>> /\ wpc[g][w] = "send"
        /\ wpc'[g][w] \notin {"done", "select"}
    BY <1>10 DEF WorkerSend, SetW, TypeOK, TypeWorkers, histVars
  <2>2. \A p : Covered(g, p) => Covered(g, p)'
    <3>1. CASE MoreIps(g, wtarget[g][w][2])
      <4>1. OnPort(g, w)' /\ wtarget'[g][w][1] = wtarget[g][w][1]
        BY <1>10, <3>1 DEF WorkerSend, OnPort, SetW, TypeOK, TypeWorkers
      <4> QED BY <1>1, <1>5, <2>1, <4>1 DEF Covered, OnPort
    <3>2. CASE ~MoreIps(g, wtarget[g][w][2])
      <4>1. \A j \in 1 .. request[g].ips : <<wtarget[g][w][1], j>> \in probed[g]
        BY <1>3, <2>1, <3>2, LeavesCovered
      <4> QED BY <1>1, <1>5, <2>1, <4>1 DEF Covered, OnPort
    <3> QED BY <3>1, <3>2
  <2> QED BY <1>1, <1>4, <1>5, <2>1, <2>2 DEF GoesOn, FedAll
<1> QED BY <1>6, <1>7, <1>8, <1>9, <1>10 DEF WorkerStep

\* No goroutine gives up on its scan before Stop.
LEMMA GoesOnStep ==
  ASSUME TypeOK, ScanInv, NEW g \in Scan, GoesOn(g), HasWorkers(g),
         StepOf(g)
  PROVE  GoesOn(g)'
<1>1. cancelled' = cancelled /\ request' = request
  BY StepKeepsContext
<1>2. CASE ~NotStopped(g)
  BY <1>1, <1>2 DEF GoesOn, NotStopped
<1> SUFFICES ASSUME NotStopped(g) PROVE GoesOn(g)'
  BY <1>2
<1>3. CASE ReadWorkers(g) \/ Clamp(g) \/ CollectorReceive(g) \/ CollectorRecord(g)
             \/ CollectorFinish(g) \/ CloseResults(g)
  <2>1. UNCHANGED <<fed, portsClosed, taken, wVars, probed>>
    BY <1>3 DEF ReadWorkers, Clamp, CollectorReceive, CollectorRecord,
       CollectorFinish, CloseResults, chanVars, histVars
  <2> QED BY <1>1, <2>1, GoesOnIdle
<1>4. CASE SpawnWorkers(g)
  <2>1. /\ taken'[g] = 0 /\ ~portsClosed'[g]
    BY <1>4 DEF SpawnWorkers, ScanInv, LifeOK, Spawned, Untouched, chanVars
  <2>2. \A w \in WorkerId : wpc'[g][w] \in {"enter", "none"}
    BY <1>4 DEF SpawnWorkers, TypeOK, TypeWorkers
  <2> QED BY <2>1, <2>2 DEF GoesOn
<1>5. CASE FeedPort(g)
  <2>1. ~portsClosed'[g] /\ UNCHANGED <<taken, wVars, probed>>
    BY <1>5 DEF FeedPort, histVars
  <2>2. \A w \in WorkerId : wpc[g][w] # "done"
    BY <1>5 DEF FeedPort, GoesOn
  <2> QED BY <1>1, <2>1, <2>2 DEF GoesOn, Covered, OnPort, wVars
<1>6. CASE ClosePorts(g)
  <2>1. \A w \in WorkerId : wpc[g][w] # "done"
    BY <1>6 DEF ClosePorts, GoesOn
  <2>2. Spawned(g)
    BY <1>6 DEF ClosePorts
  <2>3. FedAll(g) /\ UNCHANGED <<fed, taken, wVars, probed>>
    BY <1>6, <2>2, ContextOpen DEF ClosePorts, histVars
  <2> QED BY <1>1, <2>1, <2>3 DEF GoesOn, FedAll, Covered, OnPort, wVars
<1>7. ASSUME NEW w \in WorkerId, WorkerStep(g, w) PROVE GoesOn(g)'
  BY <1>7, GoesOnWorker
<1> QED BY <1>3, <1>4, <1>5, <1>6, <1>7 DEF StepOf, Orchestrator, Feeder

-----------------------------------------------------------------------------
(* The object belongs to its current scan.                                  *)

\* A step that leaves the object alone, ends no scan and forgets no target.
LEMMA ObjectIdle ==
  ASSUME ObjectOK,
         UNCHANGED <<isRunning, totalPorts, scannedPorts, openPorts, ctx,
                     cancelled, request, recorded, overlapped>>,
         \A g \in Scan : Live(g)' <=> Live(g),
         \A g \in Scan : probed[g] \subseteq probed'[g], ctx \in 0 .. MaxScans
  PROVE  ObjectOK'
<1>1. /\ isRunning' = isRunning /\ totalPorts' = totalPorts
      /\ scannedPorts' = scannedPorts /\ openPorts' = openPorts /\ ctx' = ctx
      /\ cancelled' = cancelled /\ request' = request /\ recorded' = recorded
      /\ overlapped' = overlapped
  OBVIOUS
<1>2. CASE overlapped
  BY <1>1, <1>2 DEF ObjectOK
<1>3. CASE ~overlapped
  <2>1. ctx # 0 => ctx \in Scan
    BY ScansAssumption DEF Scan
  <2>2. \A res \in openPorts' : ctx' # 0 /\ OwnResult(ctx, res)'
    BY <1>1, <1>3, <2>1 DEF ObjectOK, OwnResult
  <2>3. ctx # 0 => (Live(ctx)' <=> Live(ctx))
    BY <1>1, <2>1 DEF Live
  <2> QED BY <1>1, <1>3, <2>1, <2>2, <2>3 DEF ObjectOK
<1> QED BY <1>2, <1>3

\* A Start that finds no goroutine of a stopped scan finds none at all.
LEMMA StartFindsNobody ==
  ASSUME TypeOK, ObjectOK, NEW r \in Requests, Start(r), ~overlapped'
  PROVE  ~overlapped /\ \A g \in Scan : ~Live(g)
<1>1. ~overlapped /\ ~isRunning /\ \A h \in cancelled : ~Live(h)
  BY DEF Start, MayStart
<1>2. ASSUME NEW g \in Scan, Live(g) PROVE FALSE
  <2>1. g = ctx /\ ctx # 0
    BY <1>1, <1>2 DEF ObjectOK, Scan
  <2> QED BY <1>1, <1>2, <2>1 DEF ObjectOK
<1> QED BY <1>1, <1>2

\* The object describes the scan that Start launches.
LEMMA ObjectStart ==
  ASSUME TypeOK, ScanInv, ObjectOK, NEW r \in Requests, Start(r)
  PROVE  ObjectOK'
<1> SUFFICES ASSUME ~overlapped' PROVE ObjectOK'
  BY DEF ObjectOK
<1>2. \A g \in Scan : ~Live(g)
  BY StartFindsNobody
<1>3. /\ ctx' = ctx + 1 /\ ctx \in Nat /\ ctx' \in Scan /\ ctx' # 0
      /\ ctx + 1 \notin cancelled /\ cancelled' = cancelled
  BY ScansAssumption DEF Start, TypeOK, TypeObj, Scan
<1>4. /\ isRunning' /\ scannedPorts' = 0 /\ openPorts' = {}
      /\ totalPorts' = r.ips * r.ports /\ recorded' = recorded
  BY Zenon DEF Start, ResetProgress
<1>5. /\ runPc'[ctx'] = "launched" /\ request'[ctx'] = r
      /\ \A g \in Scan : g # ctx' => runPc'[g] = runPc[g]
  BY <1>3, StartStep DEF Same
<1>6. recorded[ctx'] = 0
  BY <1>3 DEF ScanInv, LifeOK, Spawned, Untouched
<1>7. /\ Live(ctx)' /\ ctx' \notin cancelled'
      /\ \A g \in Scan : Live(g)' => g = ctx'
  BY <1>2, <1>3, <1>5 DEF Live
<1> QED BY <1>3, <1>4, <1>5, <1>6, <1>7 DEF ObjectOK

\* A Stop takes the mark from the object and leaves the rest.
LEMMA ObjectStop ==
  ASSUME TypeOK, ObjectOK, Stop
  PROVE  ObjectOK'
<1>1. /\ ctx' = ctx /\ totalPorts' = totalPorts /\ scannedPorts' = scannedPorts
      /\ openPorts' = openPorts /\ request' = request /\ recorded' = recorded
      /\ overlapped' = overlapped /\ probed' = probed /\ runPc' = runPc
      /\ ~isRunning' /\ ctx' \in cancelled'
  BY DEF Stop, runVars, histVars
<1>2. \A g \in Scan : Live(g)' <=> Live(g)
  BY <1>1 DEF Live
<1> QED BY <1>1, <1>2 DEF ObjectOK, OwnResult

\* The collector counts a result of the current scan.
LEMMA ObjectRecord ==
  ASSUME TypeOK, ObjectOK, NEW g \in Scan, ResultsOwn(g), CollectorRecord(g)
  PROVE  ObjectOK'
<1>1. /\ UNCHANGED <<isRunning, totalPorts, ctx, cancelled, request, probed, overlapped>>
      /\ scannedPorts' = scannedPorts + 1 /\ recorded'[g] = recorded[g] + 1
      /\ openPorts' \subseteq openPorts \cup {Head(inHand[g])}
      /\ Live(g)
  BY DEF CollectorRecord, Live, TypeOK, TypeHist
<1>2. OwnResult(g, Head(inHand[g]))
  <2>1. inHand[g] \in Seq(Result) /\ Len(inHand[g]) = 1
    BY DEF CollectorRecord, TypeOK, TypeRun
  <2>2. Head(inHand[g]) = inHand[g][1]
    BY <2>1
  <2> QED BY <2>1, <2>2 DEF ResultsOwn
<1>3. \A h \in Scan : Live(h)' <=> Live(h)
  BY DEF CollectorRecord, Live, TypeOK, TypeRun
<1> SUFFICES ASSUME ~overlapped' PROVE ObjectOK'
  BY DEF ObjectOK
<1>5. g = ctx /\ ctx # 0 /\ ~overlapped
  BY <1>1 DEF ObjectOK, Scan
<1>6. Live(ctx)' <=> Live(ctx)
  BY <1>1, <1>3, <1>5
<1>7. isRunning' <=> Live(ctx)' /\ ctx' \notin cancelled'
  BY <1>1, <1>5, <1>6 DEF ObjectOK
<1>8. scannedPorts' = recorded'[ctx']
  BY <1>1, <1>5 DEF ObjectOK
<1>9. \A res \in openPorts' : OwnResult(ctx, res)'
  BY <1>1, <1>2, <1>5 DEF ObjectOK, OwnResult
<1> QED BY <1>1, <1>3, <1>5, <1>7, <1>8, <1>9 DEF ObjectOK

\* The end of runScan takes the mark from its own scan.
LEMMA ObjectFinish ==
  ASSUME TypeOK, ObjectOK, NEW g \in Scan, CollectorFinish(g)
  PROVE  ObjectOK'
<1>1. /\ UNCHANGED <<totalPorts, scannedPorts, openPorts, ctx, cancelled, request,
                     recorded, probed, overlapped>>
      /\ ~isRunning' /\ Live(g) /\ ~Live(g)'
      /\ \A h \in Scan : h # g => (Live(h)' <=> Live(h))
  BY DEF CollectorFinish, MarkEnded, Live, TypeOK, TypeRun, histVars
<1> SUFFICES ASSUME ~overlapped' PROVE ObjectOK'
  BY DEF ObjectOK
<1>3. g = ctx /\ ~overlapped
  BY <1>1 DEF ObjectOK
<1>4. ~Live(ctx)'
  BY <1>1, <1>3
<1> QED BY <1>1, <1>3, <1>4 DEF ObjectOK, OwnResult

-----------------------------------------------------------------------------
(* The invariant of the whole.                                              *)

ObjectInv ==
  /\ ObjectOK
  /\ \A g \in Scan : ResultsOwn(g) /\ HasWorkers(g) /\ GoesOn(g)

\* It holds of a new object.
LEMMA ObjectInit == Init => ObjectInv
<1> SUFFICES ASSUME Init PROVE ObjectInv
  OBVIOUS
<1>1. ~isRunning /\ ~overlapped /\ ctx = 0 /\ openPorts = {}
  BY Zenon DEF Init
<1>2. \A g \in Scan : ~Live(g)
  BY DEF Init, Live
<1>3. ObjectOK
  BY <1>1, <1>2 DEF ObjectOK
<1>4. ASSUME NEW g \in Scan PROVE ResultsOwn(g) /\ HasWorkers(g) /\ GoesOn(g)
  <2>1. /\ resultsChan[g] = <<>> /\ inHand[g] = <<>> /\ runPc[g] = "none"
        /\ taken[g] = 0 /\ ~portsClosed[g]
        /\ \A w \in WorkerId : wpc[g][w] = "none"
    BY DEF Init
  <2> QED BY <2>1 DEF ResultsOwn, HasWorkers, Spawned, GoesOn
<1> QED BY <1>3, <1>4 DEF ObjectInv

\* What a step leaves alone keeps the invariant of a scan.
LEMMA ScanKept ==
  ASSUME NEW g \in Scan, ResultsOwn(g), HasWorkers(g), GoesOn(g), Same(g),
         cancelled \subseteq cancelled'
  PROVE  ResultsOwn(g)' /\ HasWorkers(g)' /\ GoesOn(g)'
<1>1. ResultsOwn(g)'
  BY ResultsKept DEF Same
<1>2. HasWorkers(g)'
  BY DEF Same, HasWorkers, Spawned
<1> QED BY <1>1, <1>2, GoesOnSame

\* Every step of the system keeps it.
LEMMA ObjectStep == TypeOK /\ ScanInv /\ ObjectInv /\ [Next]_vars => ObjectInv'
<1> SUFFICES ASSUME TypeOK, ScanInv, ObjectInv, [Next]_vars PROVE ObjectInv'
  OBVIOUS
<1>1. ASSUME NEW r \in Requests, Start(r) PROVE ObjectInv'
  <2>1. ObjectOK'
    BY <1>1, ObjectStart DEF ObjectInv
  <2>2. cancelled \subseteq cancelled'
    BY <1>1 DEF Start
  <2>3. ASSUME NEW g \in Scan PROVE ResultsOwn(g)' /\ HasWorkers(g)' /\ GoesOn(g)'
    <3>1. CASE g # ctx + 1
      BY <1>1, <2>2, <3>1, StartStep, ScanKept DEF ObjectInv
    <3>2. CASE g = ctx + 1
      <4>1. /\ inHand'[g] = inHand[g] /\ runPc'[g] = "launched"
            /\ UNCHANGED <<chanVars, wVars, probed>>
        BY <1>1, <3>2, StartStep
      <4>2. Untouched(g)
        BY <1>1, <3>2, StartStep DEF ScanInv, LifeOK, Spawned
      <4>3. ResultsOwn(g)'
        BY <4>1, ResultsKept DEF ObjectInv, chanVars
      <4>4. HasWorkers(g)'
        BY <4>1 DEF HasWorkers, Spawned
      <4>5. GoesOn(g)'
        BY <4>1, <4>2 DEF GoesOn, Untouched, chanVars, wVars
      <4> QED BY <4>3, <4>4, <4>5
    <3> QED BY <3>1, <3>2
  <2> QED BY <2>1, <2>3 DEF ObjectInv
<1>2. CASE Stop \/ GetStatus \/ UNCHANGED vars
  <2>1. /\ \A g \in Scan : Same(g)
        /\ cancelled \subseteq cancelled'
    BY <1>2, OutsideStep DEF Stop, GetStatus, vars, objVars, histVars
  <2>2. \A g \in Scan : ResultsOwn(g)' /\ HasWorkers(g)' /\ GoesOn(g)'
    BY <2>1, ScanKept DEF ObjectInv
  <2>3. CASE Stop
    BY <2>2, <2>3, ObjectStop DEF ObjectInv
  <2>4. CASE GetStatus \/ UNCHANGED vars
    <3>1. UNCHANGED <<isRunning, totalPorts, scannedPorts, openPorts, ctx,
                      cancelled, request, recorded, overlapped>>
      BY <2>4 DEF GetStatus, vars, objVars, runVars, histVars
    <3>2. /\ \A g \in Scan : Live(g)' <=> Live(g)
          /\ \A g \in Scan : probed[g] \subseteq probed'[g]
      BY <2>1 DEF Same, Live
    <3>3. ObjectOK'
      BY <3>1, <3>2, ObjectIdle DEF ObjectInv, TypeOK, TypeObj
    <3> QED BY <2>2, <3>3 DEF ObjectInv
  <2> QED BY <1>2, <2>3, <2>4
<1>3. ASSUME NEW h \in Scan, StepOf(h) PROVE ObjectInv'
  <2>1. cancelled' = cancelled
    BY <1>3, StepKeepsContext
  <2>2. \A g \in Scan : probed[g] \subseteq probed'[g]
    BY ProbedGrows
  <2>3. ASSUME NEW g \in Scan PROVE ResultsOwn(g)' /\ HasWorkers(g)' /\ GoesOn(g)'
    <3>1. CASE g = h
      BY <1>3, <2>2, <3>1, ResultsOwnStep, HasWorkersStep, GoesOnStep DEF ObjectInv
    <3>2. CASE g # h
      <4>1. Same(g)
        BY <1>3, <3>2, OthersSame
      <4> QED BY <2>1, <4>1, ScanKept DEF ObjectInv
    <3> QED BY <3>1, <3>2
  <2>4. ObjectOK'
    <3>1. CASE CollectorRecord(h)
      BY <3>1, ObjectRecord DEF ObjectInv
    <3>2. CASE CollectorFinish(h)
      BY <3>2, ObjectFinish DEF ObjectInv
    <3>3. CASE ~CollectorRecord(h) /\ ~CollectorFinish(h)
      <4>1. UNCHANGED <<isRunning, totalPorts, scannedPorts, openPorts, ctx,
                        cancelled, request, recorded, overlapped>>
        BY <1>3, <3>3 DEF StepOf, Orchestrator, ReadWorkers, Clamp, SpawnWorkers,
           CollectorReceive, Feeder, FeedPort, ClosePorts, CloseResults,
           WorkerStep, WorkerEnter, WorkerReceive, WorkerReturn, WorkerProbe,
           WorkerAbandon, WorkerDialed, WorkerSend, objVars, runVars, histVars
      <4>2. Live(h)' <=> Live(h)
        BY <1>3, <3>3 DEF StepOf, Orchestrator, ReadWorkers, Clamp, SpawnWorkers,
           CollectorReceive, Feeder, FeedPort, ClosePorts, CloseResults,
           WorkerStep, WorkerEnter, WorkerReceive, WorkerReturn, WorkerProbe,
           WorkerAbandon, WorkerDialed, WorkerSend, runVars, Live, TypeOK, TypeRun
      <4>3. \A g \in Scan : Live(g)' <=> Live(g)
        BY <1>3, <4>2, OthersSame DEF Same, Live
      <4> QED BY <2>2, <4>1, <4>3, ObjectIdle DEF ObjectInv, TypeOK, TypeObj
    <3> QED BY <3>1, <3>2, <3>3
  <2> QED BY <2>3, <2>4 DEF ObjectInv
<1> QED BY <1>1, <1>2, <1>3 DEF Next, StepOf

\* The invariant of the object holds in every reachable state.
THEOREM ObjectInvariant == Spec => []ObjectInv
  BY TypeCorrect, ScanInvariant, ObjectInit, ObjectStep, PTL DEF Spec

\* All that is known of a reachable state.
Known == TypeOK /\ ScanInv /\ (\A g \in Scan : Balance(g)) /\ ObjectInv

\* The four invariants together.
LEMMA KnownAlways == Spec => []Known
<1>1. Spec => [](\A g \in Scan : Balance(g))
  BY TypeCorrect, ScanInvariant, BalanceInit, BalanceStep, PTL DEF Spec
<1> QED BY <1>1, TypeCorrect, ScanInvariant, ObjectInvariant, PTL DEF Known

-----------------------------------------------------------------------------
(* What follows for the callers.                                            *)

\* The targets of a request are finitely many: its ports times its addresses.
LEMMA TargetsCount ==
  ASSUME NEW m \in Nat, NEW n \in Nat
  PROVE  /\ IsFiniteSet((1 .. m) \X (1 .. n))
         /\ Cardinality((1 .. m) \X (1 .. n)) = m * n
<1>1. IsFiniteSet(1 .. m) /\ Cardinality(1 .. m) = m
  BY FS_Interval
<1>2. IsFiniteSet(1 .. n) /\ Cardinality(1 .. n) = n
  BY FS_Interval
<1> DEFINE M == 1 .. m
           N == 1 .. n
<1>3. IsFiniteSet(M \X N) /\ Cardinality(M \X N) = Cardinality(M) * Cardinality(N)
  <2>1. IsFiniteSet(M) /\ IsFiniteSet(N)
    BY <1>1, <1>2
  <2> HIDE DEF M, N
  <2> QED BY <2>1, FS_Product
<1> QED BY <1>1, <1>2, <1>3

\* A scan has no more targets than its request, and no more results than
\* targets dialed.
LEMMA CountsAreBounded ==
  ASSUME Known, NEW g \in Scan, runPc[g] # "none"
  PROVE  /\ Cardinality(Targets(request[g])) = request[g].ips * request[g].ports
         /\ IsFiniteSet(Targets(request[g]))
         /\ probed[g] \subseteq Targets(request[g])
         /\ recorded[g] <= request[g].ips * request[g].ports
<1>1. request[g].ips \in Nat \ {0} /\ request[g].ports \in Nat \ {0}
  BY RequestNumbers DEF Known, ScanInv, LifeOK
<1>2. /\ IsFiniteSet(Targets(request[g]))
      /\ Cardinality(Targets(request[g])) = request[g].ports * request[g].ips
  <2> DEFINE m == request[g].ports
             n == request[g].ips
  <2>1. m \in Nat /\ n \in Nat
    BY <1>1
  <2>2. /\ IsFiniteSet((1 .. m) \X (1 .. n))
        /\ Cardinality((1 .. m) \X (1 .. n)) = m * n
    <3> HIDE DEF m, n
    <3> QED BY <2>1, TargetsCount
  <2> QED BY <2>2 DEF Targets
<1>3. request[g].ports * request[g].ips = request[g].ips * request[g].ports
  BY <1>1
<1>4. probed[g] \subseteq Targets(request[g])
  <2>1. /\ taken[g] \in Nat /\ taken[g] <= request[g].ports
        /\ probed[g] \subseteq (1 .. taken[g]) \X (1 .. request[g].ips)
    BY <1>1 DEF Known, ScanInv, PortsOK, TypeOK, TypeChan
  <2>2. 1 .. taken[g] \subseteq 1 .. request[g].ports
    BY <1>1, <2>1
  <2> QED BY <2>1, <2>2 DEF Targets
<1>5. Cardinality(probed[g]) <= Cardinality(Targets(request[g]))
  BY <1>2, <1>4, FS_Subset
<1>6. recorded[g] <= Cardinality(probed[g])
  <2> DEFINE p == Cardinality(probed[g])
             b == Cardinality(Busy(g))
             l == Len(resultsChan[g])
             i == Len(inHand[g])
             r == recorded[g]
  <2>1. b \in Nat /\ l \in Nat /\ i \in Nat /\ r \in Nat /\ p = b + l + i + r
    BY BusyIsFinite, BalanceType DEF Known, Balance
  <2>2. r <= p
    <3> HIDE DEF p, b, l, i, r
    <3> QED BY <2>1
  <2> QED BY <2>2
<1>7. recorded[g] \in Nat /\ Cardinality(probed[g]) \in Nat
  BY BalanceType, FS_CardinalityType DEF Known, Balance
<1>8. request[g].ips * request[g].ports \in Nat
  BY <1>1
<1> QED BY <1>2, <1>3, <1>4, <1>5, <1>6, <1>7, <1>8

\* When runScan is over, every target dialed is recorded.
LEMMA EndedIsCounted ==
  ASSUME Known, NEW g \in Scan, runPc[g] = "done"
  PROVE  recorded[g] = Cardinality(probed[g])
<1>1. /\ resultsChan[g] = <<>> /\ inHand[g] = <<>>
      /\ \A w \in WorkerId : wpc[g][w] \in {"none", "done"}
  BY DEF Known, ScanInv, LifeOK, Drained, AllReturned
<1>2. Busy(g) = {}
  BY <1>1 DEF Busy
<1>3. Len(resultsChan[g]) = 0 /\ Len(inHand[g]) = 0 /\ Cardinality(Busy(g)) = 0
  BY <1>1, <1>2, FS_EmptySet
<1>4. recorded[g] \in Nat
  BY BalanceType DEF Known
<1> QED BY <1>3, <1>4 DEF Known, Balance

\* When runScan is over and nobody stopped it, every target was dialed.
LEMMA EndedIsComplete ==
  ASSUME Known, NEW g \in Scan, runPc[g] = "done", NotStopped(g)
  PROVE  /\ probed[g] = Targets(request[g])
         /\ recorded[g] = request[g].ips * request[g].ports
<1>1. /\ Spawned(g)
      /\ \A w \in WorkerId : wpc[g][w] \in {"none", "done"}
  BY DEF Known, ScanInv, LifeOK, Drained, AllReturned, Spawned
<1>2. PICK w \in WorkerId : wpc[g][w] = "done"
  BY <1>1 DEF Known, ObjectInv, HasWorkers
<1>3. taken[g] = request[g].ports
  BY <1>2 DEF Known, ObjectInv, GoesOn, FedAll
<1>4. \A p \in 1 .. request[g].ports, j \in 1 .. request[g].ips : <<p, j>> \in probed[g]
  BY <1>1, <1>3 DEF Known, ObjectInv, GoesOn, Covered, OnPort
<1>5. probed[g] = Targets(request[g])
  <2>1. probed[g] \subseteq Targets(request[g])
    BY CountsAreBounded
  <2>2. ASSUME NEW t \in Targets(request[g]) PROVE t \in probed[g]
    <3>1. PICK p \in 1 .. request[g].ports, j \in 1 .. request[g].ips : t = <<p, j>>
      BY DEF Targets
    <3> QED BY <1>4, <3>1
  <2> QED BY <2>1, <2>2
<1> QED BY <1>5, CountsAreBounded, EndedIsCounted

\* Of the current scan it is enough that itself was not stopped.
LEMMA CurrentNotStopped ==
  ASSUME Known, ctx \notin cancelled
  PROVE  NotStopped(ctx)
BY DEF Known, TypeOK, TypeObj, NotStopped

\* A scan ends only when all its targets were dialed and recorded, unless it or a
\* later one was stopped (runScan, worker).
THEOREM ScansAreComplete == Spec => []CompleteUnlessStopped
<1>1. Known => CompleteUnlessStopped
  BY EndedIsComplete DEF CompleteUnlessStopped
<1> QED BY <1>1, KnownAlways, PTL

\* isRunning tells whether the current scan is alive and not stopped
\* (Start 122, Stop 184, runScan 301).
THEOREM RunningIsTruthful == Spec => []RunningMeansLive
<1>1. Known => RunningMeansLive
  BY DEF RunningMeansLive, Known, ObjectInv, ObjectOK
<1> QED BY <1>1, KnownAlways, PTL

\* The counter of the snapshots belongs to the current scan and stays within
\* its total (GetStatus 201-204, runScan 283-284).
THEOREM ProgressIsTruthful == Spec => []ProgressIsOwn
<1>1. Known => ProgressIsOwn
  <2> SUFFICES ASSUME Known, ~overlapped, ctx # 0
               PROVE  scannedPorts = recorded[ctx] /\ scannedPorts <= totalPorts
    BY DEF ProgressIsOwn
  <2>1. ctx \in Scan
    BY ScansAssumption DEF Known, TypeOK, TypeObj, Scan
  <2>2. runPc[ctx] # "none"
    BY <2>1 DEF Known, ScanInv, LifeOK, Scan
  <2>3. recorded[ctx] <= request[ctx].ips * request[ctx].ports
    BY <2>1, <2>2, CountsAreBounded
  <2> QED BY <2>3 DEF Known, ObjectInv, ObjectOK
<1> QED BY <1>1, KnownAlways, PTL

\* The open ports of the snapshots were found by the current scan
\* (Start 162, runScan 285-287).
THEOREM OpenPortsAreTruthful == Spec => []OpenPortsAreOwn
<1>1. Known => OpenPortsAreOwn
  BY DEF OpenPortsAreOwn, Known, ObjectInv, ObjectOK, OwnResult
<1> QED BY <1>1, KnownAlways, PTL

\* The ETA label is derived from two counters, yet tells a stopped scan from a
\* finished one (GetStatus 213-224).
THEOREM EtaIsTruthful == Spec => []EtaIsTrue
<1>1. Known => EtaIsTrue
  <2> SUFFICES ASSUME Known, ~overlapped, ctx # 0, ctx \notin cancelled, ~isRunning
               PROVE  /\ Eta # "Stopped"
                      /\ scannedPorts = Cardinality(probed[ctx])
    BY DEF EtaIsTrue, Eta
  <2>1. ctx \in Scan
    BY ScansAssumption DEF Known, TypeOK, TypeObj, Scan
  <2>2. runPc[ctx] = "done"
    BY <2>1 DEF Known, ObjectInv, ObjectOK, Live, ScanInv, LifeOK, Scan
  <2>3. scannedPorts = totalPorts
    BY <2>1, <2>2, CurrentNotStopped, EndedIsComplete DEF Known, ObjectInv, ObjectOK
  <2>4. Eta # "Stopped"
    BY <2>3 DEF Eta, Known, TypeOK, TypeObj
  <2>5. scannedPorts = Cardinality(probed[ctx])
    BY <2>1, <2>2, EndedIsCounted DEF Known, ObjectInv, ObjectOK
  <2> QED BY <2>4, <2>5
<1> QED BY <1>1, KnownAlways, PTL

\* All that a snapshot says of the current scan is true of it (GetStatus
\* 191-244).
THEOREM StatusIsTruthful == Spec => []StatusIsTrue
<1>1. TypeOK /\ RunningMeansLive /\ ProgressIsOwn /\ OpenPortsAreOwn /\ EtaIsTrue => StatusIsTrue
  BY DEF StatusIsTrue
<1> QED
  BY <1>1, TypeCorrect, RunningIsTruthful, ProgressIsTruthful, OpenPortsAreTruthful, EtaIsTruthful, PTL

\* Only the inner select of a worker begins a dial.
LEMMA OnlyProbesDial ==
  ASSUME Next
  PROVE  probed' = probed \/ \E h \in Scan, w \in WorkerId : WorkerProbe(h, w)
<1>1. ASSUME NEW r \in Requests, Start(r) PROVE probed' = probed
  BY <1>1 DEF Start
<1>2. CASE Stop \/ GetStatus
  BY <1>2 DEF Stop, GetStatus, histVars
<1>3. ASSUME NEW h \in Scan, Orchestrator(h) \/ Feeder(h) \/ CloseResults(h)
      PROVE  probed' = probed
  BY <1>3 DEF Orchestrator, ReadWorkers, Clamp, SpawnWorkers, CollectorReceive,
     CollectorRecord, CollectorFinish, Feeder, FeedPort, ClosePorts, CloseResults,
     histVars
<1>4. ASSUME NEW h \in Scan, NEW w \in WorkerId, WorkerStep(h, w)
      PROVE  probed' = probed \/ WorkerProbe(h, w)
  BY <1>4 DEF WorkerStep, WorkerEnter, WorkerReceive, WorkerReturn,
     WorkerAbandon, WorkerDialed, WorkerSend, histVars
<1> QED BY <1>1, <1>2, <1>3, <1>4 DEF Next

\* No worker begins another dial once its scan is stopped (worker 319-325).
THEOREM StopEndsTheDialing == Spec => StopIsFinal
<1> DEFINE Quiet == ~overlapped' => \A g \in cancelled : probed'[g] = probed[g]
<1>1. Known /\ [Next]_vars => [Quiet]_vars
  <2> SUFFICES ASSUME Known, Next, ~overlapped', NEW g \in cancelled
               PROVE  probed'[g] = probed[g]
    OBVIOUS
  <2>1. g \in Scan
    BY ScansAssumption DEF Known, TypeOK, TypeObj, Scan
  <2>2. CASE probed' = probed
    BY <2>2
  <2>3. ASSUME NEW h \in Scan, NEW w \in WorkerId, WorkerProbe(h, w)
        PROVE  probed'[g] = probed[g]
    <3>1. wpc[h][w] = "probe" /\ ctx \notin cancelled /\ overlapped' = overlapped
      BY <2>3 DEF WorkerProbe, MayDial, Cancelled
    <3>2. h = ctx
      BY <3>1, WorkingIsCurrent DEF Known, ScanInv, ObjectInv
    <3> QED BY <2>1, <2>3, <3>1, <3>2 DEF WorkerProbe, Known, TypeOK, TypeHist
  <2> QED BY <2>2, <2>3, OnlyProbesDial
<1> QED BY <1>1, KnownAlways, PTL DEF Spec, StopIsFinal

-----------------------------------------------------------------------------
(***************************************************************************)
(* The scanner implements ScanEngine for every order of Start and Stop, and *)
(* ScanJob for a caller that waits for the goroutines of a stopped scan     *)
(* before it starts the next one.                                           *)
(***************************************************************************)

(* The scanner implements ScanJob.                                          *)

\* The phase of the job in terms of the object.
LEMMA PhaseValues ==
  /\ isRunning => Phase = "running"
  /\ ~isRunning /\ ctx = 0 => Phase = "idle"
  /\ ~isRunning /\ ctx # 0 /\ Live(ctx) => Phase = "stopping"
  /\ ~isRunning /\ ctx # 0 /\ ~Live(ctx) => Phase = "ended"
BY DEF Phase

\* What the snapshots may count, and what a scan that nobody stopped has
\* counted at its end.
Counted ==
  /\ ctx # 0 => scannedPorts <= totalPorts
  /\ ctx # 0 /\ ctx \notin cancelled /\ ~Live(ctx) => scannedPorts = totalPorts

\* The state of the scanner under such a caller.
SerialInv == Known /\ ~overlapped /\ Counted

\* Under such a caller the object always belongs to its current scan.
LEMMA SerialAlways == SerialSpec => []SerialInv
<1>1. SerialSpec => Spec
  <2>1. [SerialNext]_vars => [Next]_vars
    BY DEF SerialNext
  <2> QED BY <2>1, PTL DEF SerialSpec, Spec
<1>2. SerialSpec => []~overlapped
  <2>1. Init => ~overlapped
    BY Zenon DEF Init
  <2>2. ~overlapped /\ [SerialNext]_vars => ~overlapped'
    BY DEF SerialNext, vars, histVars
  <2> QED BY <2>1, <2>2, PTL DEF SerialSpec
<1>3. Known /\ ~overlapped => Counted
  <2> SUFFICES ASSUME Known, ~overlapped, ctx # 0
               PROVE  /\ scannedPorts <= totalPorts
                      /\ ctx \notin cancelled /\ ~Live(ctx) => scannedPorts = totalPorts
    BY DEF Counted
  <2>1. ctx \in Scan
    BY ScansAssumption DEF Known, TypeOK, TypeObj, Scan
  <2>2. runPc[ctx] # "none"
    BY <2>1 DEF Known, ScanInv, LifeOK, Scan
  <2>3. scannedPorts <= totalPorts
    BY <2>1, <2>2, CountsAreBounded DEF Known, ObjectInv, ObjectOK
  <2>4. ASSUME ctx \notin cancelled, ~Live(ctx) PROVE scannedPorts = totalPorts
    <3>1. runPc[ctx] = "done"
      BY <2>2, <2>4 DEF Live
    <3> QED BY <2>1, <2>4, <3>1, CurrentNotStopped, EndedIsComplete DEF Known, ObjectInv, ObjectOK
  <2> QED BY <2>3, <2>4
<1> QED BY <1>1, <1>2, <1>3, KnownAlways, PTL DEF SerialInv

\* A Start begins a job, and only when the last one has ended.
LEMMA StartBegins ==
  ASSUME SerialInv, NEW r \in Requests, Start(r), ~overlapped'
  PROVE  Job!Begin(r.ips * r.ports)
<1>1. ~isRunning /\ isRunning'
  BY Zenon DEF Start, MayStart
<1>2. totalPorts' = r.ips * r.ports /\ scannedPorts' = 0
  BY DEF Start, ResetProgress
<1>3. Phase \in {"idle", "ended"}
  <2>1. ctx # 0 => ctx \in Scan
    BY ScansAssumption DEF SerialInv, Known, TypeOK, TypeObj, Scan
  <2>2. ctx # 0 => ~Live(ctx)
    BY <2>1, StartFindsNobody DEF SerialInv, Known, ObjectInv
  <2> QED BY <1>1, <2>2, PhaseValues
<1>4. Phase' = "running"
  BY <1>1 DEF Phase
<1> QED BY <1>2, <1>3, <1>4 DEF Job!Begin

\* A Stop stops the job that runs.
LEMMA StopStops ==
  ASSUME SerialInv, Stop
  PROVE  Job!Stop
<1>1. /\ isRunning /\ ~isRunning' /\ ctx # 0 /\ ctx' = ctx /\ runPc' = runPc
      /\ UNCHANGED <<totalPorts, scannedPorts>>
  BY Zenon DEF Stop, runVars
<1>2. Live(ctx)
  BY <1>1 DEF SerialInv, Known, ObjectInv, ObjectOK
<1>3. Live(ctx)'
  BY <1>1, <1>2 DEF Live
<1>4. Phase = "running"
  BY <1>1, PhaseValues
<1>5. Phase' = "stopping"
  BY <1>1, <1>3 DEF Phase
<1> QED BY <1>1, <1>4, <1>5 DEF Job!Stop

\* The collector counts for the job, and never beyond its total.
LEMMA RecordCounts ==
  ASSUME SerialInv, SerialInv', NEW g \in Scan, CollectorRecord(g)
  PROVE  Job!Count
<1>1. /\ UNCHANGED <<isRunning, ctx, totalPorts>>
      /\ scannedPorts' = scannedPorts + 1 /\ Live(g)
  BY DEF CollectorRecord, Live
<1>2. g = ctx /\ ctx # 0
  BY <1>1 DEF SerialInv, Known, ObjectInv, ObjectOK, Scan
<1>3. Live(ctx)'
  BY <1>1, <1>2 DEF CollectorRecord, Live, SerialInv, Known, TypeOK, TypeRun
<1>4. scannedPorts < totalPorts
  BY <1>1, <1>2 DEF SerialInv, Counted, Known, TypeOK, TypeObj
<1>5. Phase \in {"running", "stopping"}
  BY <1>1, <1>2, PhaseValues
<1>6. Phase' = Phase
  BY <1>1, <1>2, <1>3 DEF Phase
<1> QED BY <1>1, <1>4, <1>5, <1>6 DEF Job!Count

\* The end of runScan ends the job; when nobody stopped it, all is counted.
LEMMA FinishEnds ==
  ASSUME SerialInv, SerialInv', NEW g \in Scan, CollectorFinish(g)
  PROVE  Job!End
<1>1. /\ UNCHANGED <<ctx, cancelled, totalPorts, scannedPorts>>
      /\ ~isRunning' /\ Live(g)
  BY DEF CollectorFinish, MarkEnded, Live
<1>2. g = ctx /\ ctx # 0
  BY <1>1 DEF SerialInv, Known, ObjectInv, ObjectOK, Scan
<1>3. ~Live(ctx)'
  BY <1>1, <1>2 DEF CollectorFinish, Live, SerialInv, Known, TypeOK, TypeRun
<1>4. Phase' = "ended"
  BY <1>1, <1>2, <1>3 DEF Phase
<1>5. CASE isRunning
  <2>1. ctx \notin cancelled
    BY <1>2, <1>5 DEF SerialInv, Known, ObjectInv, ObjectOK
  <2>2. scannedPorts = totalPorts
    BY <1>1, <1>2, <1>3, <2>1 DEF SerialInv, Counted
  <2>3. Phase = "running"
    BY <1>5, PhaseValues
  <2> QED BY <1>1, <1>4, <2>2, <2>3 DEF Job!End
<1>6. CASE ~isRunning
  <2>1. Phase = "stopping"
    BY <1>1, <1>2, <1>6, PhaseValues
  <2> QED BY <1>1, <1>4, <2>1 DEF Job!End
<1> QED BY <1>5, <1>6

\* No other step is seen by an observer of the job.
LEMMA OthersStutter ==
  ASSUME SerialInv, UNCHANGED <<isRunning, ctx, totalPorts, scannedPorts>>,
         \A g \in Scan : Live(g)' <=> Live(g)
  PROVE  UNCHANGED Job!jobVars
<1>1. ctx # 0 => ctx \in Scan
  BY ScansAssumption DEF SerialInv, Known, TypeOK, TypeObj, Scan
<1>2. ctx # 0 => (Live(ctx)' <=> Live(ctx))
  BY <1>1 DEF Live
<1>3. Phase' = Phase
  BY <1>2 DEF Phase
<1> QED BY <1>3 DEF Job!jobVars

\* Every step of the scanner is a step of the job or a stutter.
LEMMA JobStep ==
  SerialInv /\ SerialInv' /\ [SerialNext]_vars => [Job!Next]_(Job!jobVars)
<1> SUFFICES ASSUME SerialInv, SerialInv', [SerialNext]_vars
             PROVE  [Job!Next]_(Job!jobVars)
  OBVIOUS
<1>1. ASSUME NEW r \in Requests, Start(r) PROVE Job!Next
  <2>1. Job!Begin(r.ips * r.ports)
    BY <1>1, StartBegins DEF SerialInv
  <2> QED BY <2>1 DEF Job!Next
<1>2. CASE Stop
  BY <1>2, StopStops DEF Job!Next
<1>3. CASE GetStatus \/ UNCHANGED vars
  <2>1. /\ UNCHANGED <<isRunning, ctx, totalPorts, scannedPorts>>
        /\ runPc' = runPc
    BY <1>3 DEF GetStatus, vars, objVars, runVars
  <2> QED BY <2>1, OthersStutter DEF Live
<1>4. ASSUME NEW g \in Scan, StepOf(g) PROVE [Job!Next]_(Job!jobVars)
  <2>1. CASE CollectorRecord(g)
    BY <2>1, RecordCounts DEF Job!Next
  <2>2. CASE CollectorFinish(g)
    BY <2>2, FinishEnds DEF Job!Next
  <2>3. CASE ~CollectorRecord(g) /\ ~CollectorFinish(g)
    <3>1. UNCHANGED <<isRunning, ctx, totalPorts, scannedPorts>>
      BY <1>4, <2>3 DEF StepOf, Orchestrator, ReadWorkers, Clamp, SpawnWorkers,
         CollectorReceive, Feeder, FeedPort, ClosePorts, CloseResults,
         WorkerStep, WorkerEnter, WorkerReceive, WorkerReturn, WorkerProbe,
         WorkerAbandon, WorkerDialed, WorkerSend, objVars
    <3>2. Live(g)' <=> Live(g)
      BY <1>4, <2>3 DEF StepOf, Orchestrator, ReadWorkers, Clamp, SpawnWorkers,
         CollectorReceive, Feeder, FeedPort, ClosePorts, CloseResults,
         WorkerStep, WorkerEnter, WorkerReceive, WorkerReturn, WorkerProbe,
         WorkerAbandon, WorkerDialed, WorkerSend, runVars, Live, SerialInv,
         Known, TypeOK, TypeRun
    <3>3. \A h \in Scan : Live(h)' <=> Live(h)
      BY <1>4, <3>2, OthersSame DEF Same, Live, SerialInv, Known
    <3> QED BY <3>1, <3>3, OthersStutter
  <2> QED BY <2>1, <2>2, <2>3
<1> QED BY <1>1, <1>2, <1>3, <1>4 DEF SerialNext, Next, StepOf

\* A new object has no job.
LEMMA JobInit == Init => Job!Init
<1> SUFFICES ASSUME Init PROVE Job!Init
  OBVIOUS
<1>1. ~isRunning /\ ctx = 0 /\ totalPorts = 0 /\ scannedPorts = 0
  BY Zenon DEF Init
<1> QED BY <1>1, PhaseValues DEF Job!Init

\* What the snapshots show moves only as a job may: the scanner implements
\* ScanJob (PortScanner.Start, Stop, GetStatus and runScan).
THEOREM ScannerImplementsJob == SerialSpec => ImplementsJob
<1>1. SerialSpec => Init /\ [][SerialNext]_vars
  BY DEF SerialSpec
<1> QED BY <1>1, SerialAlways, JobStep, JobInit, PTL DEF ImplementsJob, Job!Spec
-----------------------------------------------------------------------------
(* The scanner implements ScanEngine.                                       *)

\* A result is in one place only: the targets in resultsChan, in the collector's
\* hand and with the workers are all different.
Apart(g) ==
  /\ \A i, j \in 1 .. Len(resultsChan[g]) :
       resultsChan[g][i].target = resultsChan[g][j].target => i = j
  /\ \A i \in 1 .. Len(resultsChan[g]), k \in 1 .. Len(inHand[g]) :
       resultsChan[g][i].target # inHand[g][k].target
  /\ \A w \in Busy(g) :
       /\ \A i \in 1 .. Len(resultsChan[g]) : resultsChan[g][i].target # wtarget[g][w]
       /\ \A k \in 1 .. Len(inHand[g]) : inHand[g][k].target # wtarget[g][w]

\* A busy worker has a target of its own, which was dialed.
LEMMA BusyTargets ==
  ASSUME Known, NEW g \in Scan, NEW w \in Busy(g)
  PROVE  /\ w \in WorkerId /\ wtarget[g][w] \in probed[g]
         /\ wtarget[g][w] = <<wtarget[g][w][1], wtarget[g][w][2]>>
         /\ \A v \in Busy(g) : v # w => wtarget[g][v] # wtarget[g][w]
<1>1. w \in WorkerId /\ OnPort(g, w) /\ wpc[g][w] # "probe"
  BY DEF Busy, OnPort
<1>2. /\ wtarget[g][w] \in (1 .. taken[g]) \X (1 .. request[g].ips)
      /\ ProbedInOrder(g, w)
      /\ \A v \in WorkerId : v # w /\ OnPort(g, v) => wtarget[g][v][1] # wtarget[g][w][1]
  BY <1>1 DEF Known, ScanInv, PortsOK
<1>3. wtarget[g][w] \in probed[g]
  BY <1>1, <1>2 DEF ProbedInOrder
<1>4. \A v \in Busy(g) : v # w => wtarget[g][v] # wtarget[g][w]
  BY <1>2 DEF Busy, OnPort
<1> QED BY <1>1, <1>2, <1>3, <1>4

\* A step that moves no result and makes no worker busy.
LEMMA ApartIdle ==
  ASSUME NEW g \in Scan, Apart(g), Busy(g)' \subseteq Busy(g),
         \A w \in Busy(g) : wtarget'[g][w] = wtarget[g][w],
         resultsChan'[g] = resultsChan[g], inHand'[g] = inHand[g]
  PROVE  Apart(g)'
BY DEF Apart

\* What the idle steps of a scan leave alone: the targets dialed, those on the
\* way, and whether the scan is alive.
Unmoved(g) ==
  /\ Busy(g)' = Busy(g) /\ \A w \in Busy(g) : wtarget'[g][w] = wtarget[g][w]
  /\ resultsChan'[g] = resultsChan[g] /\ inHand'[g] = inHand[g]
  /\ probed'[g] = probed[g] /\ (Live(g)' <=> Live(g))
Reported(g) == probed[g] \ OnTheWay(g)

LEMMA UnmovedKeeps ==
  ASSUME NEW g \in Scan, Apart(g), Unmoved(g)
  PROVE  Apart(g)' /\ Reported(g)' = Reported(g)
<1>1. Apart(g)'
  BY ApartIdle DEF Unmoved
<1>2. OnTheWay(g)' = OnTheWay(g)
  BY DEF Unmoved, OnTheWay
<1> QED BY <1>1, <1>2 DEF Unmoved, Reported

\* A dial: the new target is on the way and was not dialed before.
LEMMA ProbeMoves ==
  ASSUME Known, NEW g \in Scan, NEW w \in WorkerId, Apart(g), WorkerProbe(g, w)
  PROVE  Apart(g)' /\ Reported(g)' = Reported(g) /\ (Live(g)' <=> Live(g))
<1> DEFINE t == wtarget[g][w]
<1>1. /\ wpc[g][w] = "probe" /\ wpc'[g][w] = "dialing"
      /\ \A v \in WorkerId : v # w => wpc'[g][v] = wpc[g][v]
      /\ wtarget' = wtarget /\ probed'[g] = probed[g] \cup {t}
      /\ UNCHANGED <<resultsChan, inHand, runPc>>
  BY DEF WorkerProbe, SetW, Known, TypeOK, TypeWorkers, TypeHist, chanVars, runVars
<1>2. t \notin probed[g]
  BY <1>1, FreshTarget DEF Known
<1>3. Busy(g)' = Busy(g) \cup {w}
  BY <1>1 DEF Busy
<1>4. /\ \A i \in 1 .. Len(resultsChan[g]) : resultsChan[g][i].target # t
      /\ \A k \in 1 .. Len(inHand[g]) : inHand[g][k].target # t
  BY <1>2 DEF Known, ObjectInv, ResultsOwn, OwnResult
<1>5. Apart(g)'
  BY <1>1, <1>3, <1>4 DEF Apart
<1>6. OnTheWay(g)' = OnTheWay(g) \cup {t}
  BY <1>1, <1>3 DEF OnTheWay
<1>7. Reported(g)' = Reported(g)
  BY <1>1, <1>2, <1>6 DEF Reported
<1>8. Live(g)' <=> Live(g)
  BY <1>1 DEF Live
<1> QED BY <1>5, <1>7, <1>8

\* A send: the target goes from the worker to resultsChan.
LEMMA SendMoves ==
  ASSUME Known, NEW g \in Scan, NEW w \in WorkerId, Apart(g), WorkerSend(g, w)
  PROVE  Apart(g)' /\ Reported(g)' = Reported(g) /\ (Live(g)' <=> Live(g))
<1> DEFINE t == <<wtarget[g][w][1], wtarget[g][w][2]>>
           res == [scan |-> g, target |-> t, outcome |-> wres[g][w]]
           n == Len(resultsChan[g])
<1>1. /\ wpc[g][w] = "send" /\ wpc'[g][w] \in {"probe", "enter"}
      /\ \A v \in WorkerId : v # w =>
           wpc'[g][v] = wpc[g][v] /\ wtarget'[g][v] = wtarget[g][v]
      /\ resultsChan'[g] = Append(resultsChan[g], res)
      /\ resultsChan[g] \in Seq(Result) /\ res \in Result
      /\ UNCHANGED <<probed, inHand, runPc>>
  <2>1. wtarget[g][w] \in Nat \X Nat /\ wres[g][w] \in Outcomes /\ wpc[g][w] = "send"
    BY DEF WorkerSend, Known, TypeOK, TypeWorkers
  <2>2. res \in Result
    BY <2>1 DEF Result
  <2>3. /\ wpc'[g][w] \in {"probe", "enter"}
        /\ \A v \in WorkerId : v # w =>
             wpc'[g][v] = wpc[g][v] /\ wtarget'[g][v] = wtarget[g][v]
    BY DEF WorkerSend, SetW, Known, TypeOK, TypeWorkers
  <2>4. /\ resultsChan'[g] = Append(resultsChan[g], res)
        /\ resultsChan[g] \in Seq(Result)
        /\ UNCHANGED <<probed, inHand, runPc>>
    BY DEF WorkerSend, Known, TypeOK, TypeChan, runVars, histVars
  <2> QED BY <2>1, <2>2, <2>3, <2>4
<1>2. w \in Busy(g) /\ Busy(g)' = Busy(g) \ {w}
  BY <1>1 DEF Busy
<1>3. t = wtarget[g][w] /\ \A v \in Busy(g) : v # w => wtarget[g][v] # t
  BY <1>2, BusyTargets
<1>4. res.target = t
  OBVIOUS
<1>5. /\ n \in Nat /\ Len(resultsChan'[g]) = n + 1
      /\ resultsChan'[g][n + 1] = res
      /\ \A i \in 1 .. n : resultsChan'[g][i] = resultsChan[g][i]
  <2> HIDE DEF res
  <2> QED BY <1>1
<1> HIDE DEF res, t, n
<1>6. /\ \A i \in 1 .. n : resultsChan[g][i].target # t
      /\ \A k \in 1 .. Len(inHand[g]) : inHand[g][k].target # t
  BY <1>2, <1>3 DEF Apart, n
<1>7. Apart(g)'
  <2>1. ASSUME NEW i \in 1 .. n + 1, NEW j \in 1 .. n + 1,
               resultsChan'[g][i].target = resultsChan'[g][j].target
        PROVE  i = j
    <3>1. CASE i \in 1 .. n /\ j \in 1 .. n
      BY <1>5, <2>1, <3>1 DEF Apart, n
    <3>2. CASE i = n + 1 \/ j = n + 1
      BY <1>4, <1>5, <1>6, <2>1, <3>2
    <3> QED BY <1>5, <3>1, <3>2
  <2>2. ASSUME NEW i \in 1 .. n + 1
        PROVE  /\ \A k \in 1 .. Len(inHand[g]) : resultsChan'[g][i].target # inHand[g][k].target
               /\ \A v \in Busy(g)' : resultsChan'[g][i].target # wtarget[g][v]
    <3>1. CASE i \in 1 .. n
      BY <1>2, <1>5, <3>1 DEF Apart, n
    <3>2. CASE i = n + 1
      BY <1>2, <1>3, <1>4, <1>5, <1>6, <3>2
    <3> QED BY <1>5, <3>1, <3>2
  <2>3. \A v \in Busy(g)' : wtarget'[g][v] = wtarget[g][v]
    BY <1>1, <1>2 DEF Busy
  <2>4. \A v \in Busy(g)', k \in 1 .. Len(inHand[g]) : inHand[g][k].target # wtarget[g][v]
    BY <1>2 DEF Apart
  <2> QED BY <1>1, <1>5, <2>1, <2>2, <2>3, <2>4 DEF Apart
<1>8. OnTheWay(g)' = OnTheWay(g)
  <2>1. {wtarget'[g][v] : v \in Busy(g)'} = {wtarget[g][v] : v \in Busy(g)} \ {t}
    BY <1>1, <1>2, <1>3 DEF Busy
  <2>2. {resultsChan'[g][i].target : i \in 1 .. Len(resultsChan'[g])}
          = {resultsChan[g][i].target : i \in 1 .. n} \cup {t}
    <3>1. \A i \in 1 .. n + 1 : resultsChan'[g][i].target
                                  \in {resultsChan[g][j].target : j \in 1 .. n} \cup {t}
      <4>1. \A i \in 1 .. n + 1 : i \in 1 .. n \/ i = n + 1
        BY <1>5
      <4> QED BY <1>4, <1>5, <4>1
    <3>2. \A i \in 1 .. n : i \in 1 .. n + 1
      BY <1>5
    <3>3. n + 1 \in 1 .. n + 1
      BY <1>5
    <3> QED BY <1>4, <1>5, <3>1, <3>2, <3>3
  <2>3. t \in {wtarget[g][v] : v \in Busy(g)}
    BY <1>2, <1>3
  <2> QED BY <1>1, <2>1, <2>2, <2>3 DEF OnTheWay, n
<1>9. Reported(g)' = Reported(g)
  BY <1>1, <1>8 DEF Reported
<1>10. Live(g)' <=> Live(g)
  BY <1>1 DEF Live
<1> QED BY <1>7, <1>9, <1>10

\* The collector takes the first result into its empty hand.
LEMMA ReceiveMoves ==
  ASSUME Known, NEW g \in Scan, Apart(g), CollectorReceive(g)
  PROVE  Apart(g)' /\ Reported(g)' = Reported(g) /\ (Live(g)' <=> Live(g))
<1> DEFINE n == Len(resultsChan[g])
           res == Head(resultsChan[g])
<1>1. /\ resultsChan[g] \in Seq(Result) /\ resultsChan[g] # <<>>
      /\ resultsChan'[g] = Tail(resultsChan[g]) /\ inHand'[g] = <<res>>
      /\ inHand[g] = <<>>
      /\ Busy(g)' = Busy(g) /\ UNCHANGED <<wtarget, probed>>
      /\ (Live(g)' <=> Live(g))
  BY DEF CollectorReceive, Known, TypeOK, TypeChan, TypeRun, ScanInv, LifeOK, Busy,
     Live, wVars, histVars
<1>2. /\ n \in Nat \ {0} /\ Len(resultsChan'[g]) = n - 1 /\ res = resultsChan[g][1]
      /\ \A i \in 1 .. n - 1 : resultsChan'[g][i] = resultsChan[g][i + 1]
      /\ Len(inHand'[g]) = 1 /\ inHand'[g][1] = res
  BY <1>1
<1> HIDE DEF n, res
<1>3. Apart(g)'
  <2>1. ASSUME NEW i \in 1 .. n - 1, NEW j \in 1 .. n - 1,
               resultsChan'[g][i].target = resultsChan'[g][j].target
        PROVE  i = j
    <3>1. i + 1 \in 1 .. n /\ j + 1 \in 1 .. n
      BY <1>2
    <3>2. i + 1 = j + 1
      BY <1>2, <2>1, <3>1 DEF Apart, n
    <3> QED BY <3>2
  <2>2. \A i \in 1 .. n - 1 : resultsChan'[g][i].target # res.target
    BY <1>2 DEF Apart, n
  <2>3. \A v \in Busy(g) :
          /\ \A i \in 1 .. n - 1 : resultsChan'[g][i].target # wtarget[g][v]
          /\ res.target # wtarget[g][v]
    BY <1>2 DEF Apart, n
  <2> QED BY <1>1, <1>2, <2>1, <2>2, <2>3 DEF Apart
<1>4. OnTheWay(g)' = OnTheWay(g)
  <2>1. {resultsChan[g][i].target : i \in 1 .. n}
          = {resultsChan'[g][i].target : i \in 1 .. n - 1} \cup {res.target}
    <3>1. ASSUME NEW i \in 1 .. n
          PROVE  resultsChan[g][i].target
                   \in {resultsChan'[g][j].target : j \in 1 .. n - 1} \cup {res.target}
      <4>1. CASE i = 1
        BY <1>2, <4>1
      <4>2. CASE i # 1
        <5>1. i - 1 \in 1 .. n - 1 /\ resultsChan'[g][i - 1] = resultsChan[g][(i - 1) + 1]
          BY <1>2, <4>2
        <5>2. resultsChan'[g][i - 1] = resultsChan[g][i]
          BY <5>1
        <5> QED BY <5>1, <5>2
      <4> QED BY <4>1, <4>2
    <3>2. ASSUME NEW j \in 1 .. n - 1
          PROVE  resultsChan'[g][j].target \in {resultsChan[g][i].target : i \in 1 .. n}
      <4>1. j + 1 \in 1 .. n
        BY <1>2
      <4> QED BY <1>2, <4>1
    <3>3. 1 \in 1 .. n
      BY <1>2
    <3> QED BY <1>2, <3>1, <3>2, <3>3
  <2>2. {inHand'[g][k].target : k \in 1 .. Len(inHand'[g])} = {res.target}
    BY <1>2
  <2>3. {inHand[g][k].target : k \in 1 .. Len(inHand[g])} = {}
    BY <1>1
  <2> DEFINE Dialing == {wtarget[g][w] : w \in Busy(g)}
             Queued(q, k) == {q[i].target : i \in 1 .. k}
  <2>4. OnTheWay(g) = Dialing \cup Queued(resultsChan[g], n)
    BY <2>3 DEF OnTheWay, n
  <2>5. Dialing' = Dialing
    BY <1>1
  <2>6. OnTheWay(g)' = Dialing \cup Queued(resultsChan'[g], n - 1) \cup {res.target}
    BY <1>2, <2>2, <2>5 DEF OnTheWay
  <2>7. Queued(resultsChan[g], n) = Queued(resultsChan'[g], n - 1) \cup {res.target}
    BY <2>1
  <2> HIDE DEF Dialing, Queued
  <2> QED BY <2>4, <2>6, <2>7
<1> QED BY <1>1, <1>3, <1>4 DEF Reported

\* The collector records the result in its hand, whose target is nowhere else.
LEMMA RecordMoves ==
  ASSUME Known, NEW g \in Scan, Apart(g), CollectorRecord(g)
  PROVE  LET res == Head(inHand[g]) IN
         /\ Apart(g)' /\ res.target \in probed[g] \ Reported(g)
         /\ Reported(g)' = Reported(g) \cup {res.target}
         /\ res \in Result /\ res.scan = g
<1> DEFINE res == Head(inHand[g])
<1>1. /\ inHand[g] \in Seq(Result) /\ Len(inHand[g]) = 1 /\ inHand'[g] = <<>>
      /\ Busy(g)' = Busy(g) /\ UNCHANGED <<resultsChan, wtarget, probed>>
  BY DEF CollectorRecord, Known, TypeOK, TypeRun, Busy, chanVars, wVars
<1>2. res = inHand[g][1] /\ res \in Result /\ Len(inHand'[g]) = 0
  BY <1>1
<1> HIDE DEF res
<1>3. res.scan = g /\ res.target \in probed[g]
  BY <1>1, <1>2 DEF Known, ObjectInv, ResultsOwn, OwnResult
<1>4. Apart(g)'
  BY <1>1, <1>2 DEF Apart
<1>5. /\ {inHand[g][k].target : k \in 1 .. Len(inHand[g])} = {res.target}
      /\ {inHand'[g][k].target : k \in 1 .. Len(inHand'[g])} = {}
  BY <1>1, <1>2
<1>6. OnTheWay(g) = OnTheWay(g)' \cup {res.target}
  BY <1>1, <1>5 DEF OnTheWay
<1>7. res.target \notin OnTheWay(g)'
  <2>1. res.target \notin {wtarget[g][w] : w \in Busy(g)}
    BY <1>1, <1>2 DEF Apart
  <2>2. res.target \notin {resultsChan[g][i].target : i \in 1 .. Len(resultsChan[g])}
    BY <1>1, <1>2 DEF Apart
  <2> QED BY <1>1, <1>5, <2>1, <2>2 DEF OnTheWay
<1>8. Reported(g)' = Reported(g) \cup {res.target} /\ res.target \notin Reported(g)
  BY <1>1, <1>3, <1>6, <1>7 DEF Reported
<1> QED BY <1>2, <1>3, <1>4, <1>8 DEF res

\* No other step moves a result, and only the end of runScan ends a scan.
LEMMA OthersMoveNothing ==
  ASSUME Known, NEW g \in Scan, StepOf(g),
         ~CollectorReceive(g), ~CollectorRecord(g), ~CollectorFinish(g),
         \A w \in WorkerId : ~WorkerProbe(g, w) /\ ~WorkerSend(g, w)
  PROVE  Unmoved(g)
<1>1. CASE ReadWorkers(g) \/ Clamp(g) \/ Feeder(g) \/ CloseResults(g)
  BY <1>1 DEF ReadWorkers, Clamp, Feeder, FeedPort, ClosePorts, CloseResults, Unmoved,
     Busy, Live, Known, TypeOK, TypeRun, runVars, chanVars, wVars, histVars
<1>2. CASE SpawnWorkers(g)
  <2>1. \A w \in WorkerId : wpc[g][w] = "none" /\ wpc'[g][w] \in {"enter", "none"}
    <3>1. \A w \in WorkerId : wpc[g][w] = "none"
      BY <1>2 DEF SpawnWorkers, Known, ScanInv, LifeOK, Spawned, Untouched
    <3>2. \A w \in WorkerId : wpc'[g][w] \in {"enter", "none"}
      BY <1>2 DEF SpawnWorkers, Known, TypeOK, TypeWorkers
    <3> QED BY <3>1, <3>2
  <2>2. Busy(g) = {} /\ Busy(g)' = {}
    BY <2>1 DEF Busy
  <2>3. /\ UNCHANGED <<resultsChan, inHand, probed>>
        /\ (Live(g)' <=> Live(g))
    BY <1>2 DEF SpawnWorkers, Live, Known, TypeOK, TypeRun, chanVars, histVars
  <2> QED BY <2>2, <2>3 DEF Unmoved
<1>3. ASSUME NEW w \in WorkerId,
             WorkerEnter(g, w) \/ WorkerReceive(g, w) \/ WorkerReturn(g, w)
               \/ WorkerAbandon(g, w) \/ WorkerDialed(g, w)
      PROVE  Unmoved(g)
  <2>1. Busy(g)' = Busy(g)
    BY <1>3 DEF WorkerEnter, WorkerReceive, WorkerReturn, WorkerAbandon, BeforeDial,
       WorkerDialed, Busy, SetW, Known, TypeOK, TypeWorkers
  <2>2. \A v \in Busy(g) : wtarget'[g][v] = wtarget[g][v]
    BY <1>3 DEF WorkerEnter, WorkerReceive, WorkerReturn, WorkerAbandon, BeforeDial,
       WorkerDialed, Busy, SetW, Known, TypeOK, TypeWorkers
  <2>3. UNCHANGED <<resultsChan, inHand, probed, runPc>>
    BY <1>3 DEF WorkerEnter, WorkerReceive, WorkerReturn, WorkerAbandon, WorkerDialed,
       runVars, chanVars, histVars
  <2> QED BY <2>1, <2>2, <2>3 DEF Unmoved, Live
<1> QED BY <1>1, <1>2, <1>3 DEF StepOf, Orchestrator, WorkerStep

\* Nor does a step that leaves the scan alone.
LEMMA SameMovesNothing ==
  ASSUME NEW g \in Scan, Same(g)
  PROVE  Unmoved(g)
BY DEF Same, Unmoved, Busy, Live

\* At the end of runScan nothing is on the way.
LEMMA FinishMoves ==
  ASSUME Known, NEW g \in Scan, Apart(g), CollectorFinish(g)
  PROVE  /\ Apart(g)' /\ Reported(g)' = Reported(g) /\ Reported(g) = probed[g]
         /\ Live(g) /\ runPc'[g] = "done" /\ probed' = probed /\ cancelled' = cancelled
         /\ request' = request
<1>1. /\ UNCHANGED <<resultsChan, inHand, probed, cancelled, request, wpc, wtarget>>
      /\ Live(g) /\ runPc'[g] = "done"
      /\ resultsClosed[g] /\ resultsChan[g] = <<>> /\ inHand[g] = <<>>
  BY DEF CollectorFinish, Drained, Live, Known, TypeOK, TypeRun, ScanInv, LifeOK,
     chanVars, wVars, histVars
<1>2. Busy(g) = {} /\ Busy(g)' = {}
  BY <1>1 DEF Known, ScanInv, LifeOK, AllReturned, Busy
<1>3. OnTheWay(g) = {} /\ OnTheWay(g)' = {}
  BY <1>1, <1>2 DEF OnTheWay
<1>4. Apart(g)'
  BY <1>1, <1>2 DEF Apart
<1> QED BY <1>1, <1>3, <1>4 DEF Reported

\* Steps that neither record a result nor end a scan change nothing a caller sees
\* of it.
LEMMA QuietMoves ==
  ASSUME Known, NEW h \in Scan, StepOf(h), ~CollectorRecord(h), ~CollectorFinish(h),
         NEW g \in Scan, Apart(g)
  PROVE  Apart(g)' /\ Reported(g)' = Reported(g) /\ (Live(g)' <=> Live(g))
<1>1. CASE g # h
  BY <1>1, OthersSame, SameMovesNothing, UnmovedKeeps DEF Unmoved, Known
<1>2. CASE g = h
  <2>1. CASE CollectorReceive(g)
    BY <2>1, ReceiveMoves
  <2>2. ASSUME NEW w \in WorkerId, WorkerProbe(g, w) \/ WorkerSend(g, w)
        PROVE  Apart(g)' /\ Reported(g)' = Reported(g) /\ (Live(g)' <=> Live(g))
    BY <2>2, ProbeMoves, SendMoves
  <2>3. CASE ~CollectorReceive(g) /\ \A w \in WorkerId : ~WorkerProbe(g, w) /\ ~WorkerSend(g, w)
    BY <1>2, <2>3, OthersMoveNothing, UnmovedKeeps DEF Unmoved
  <2> QED BY <2>1, <2>2, <2>3
<1> QED BY <1>1, <1>2

\* A Start, Stop or GetStatus moves no result either.
LEMMA CallsMoveNothing ==
  ASSUME TypeOK, (\E r \in Requests : Start(r)) \/ Stop \/ GetStatus \/ UNCHANGED vars,
         NEW g \in Scan, Apart(g)
  PROVE  Apart(g)' /\ Reported(g)' = Reported(g)
<1>1. /\ UNCHANGED <<wpc, wtarget, resultsChan, probed>>
      /\ inHand' = inHand
  BY DEF Start, Stop, GetStatus, vars, runVars, chanVars, wVars, histVars
<1>2. Busy(g)' = Busy(g)
  BY <1>1 DEF Busy
<1>3. OnTheWay(g)' = OnTheWay(g)
  BY <1>1, <1>2 DEF OnTheWay
<1>4. Apart(g)'
  BY <1>1, <1>2, ApartIdle
<1> QED BY <1>1, <1>3, <1>4 DEF Reported

-----------------------------------------------------------------------------

\* What is known for the engine.
EngineInv ==
  /\ Known
  /\ \A g \in Scan :
       /\ Apart(g)
       /\ runPc[g] = "done" /\ NotStopped(g) => probed[g] = Targets(request[g])

LEMMA EngineAlways == Spec => []EngineInv
<1> DEFINE AllApart == \A g \in Scan : Apart(g)
<1>1. Init => AllApart
  <2> SUFFICES ASSUME Init, NEW g \in Scan PROVE Apart(g)
    OBVIOUS
  <2>1. resultsChan[g] = <<>> /\ inHand[g] = <<>> /\ Busy(g) = {}
    BY DEF Init, Busy
  <2> QED BY <2>1 DEF Apart
<1>2. Known /\ AllApart /\ [Next]_vars => AllApart'
  <2> SUFFICES ASSUME Known, AllApart, [Next]_vars, NEW g \in Scan PROVE Apart(g)'
    OBVIOUS
  <2>1. CASE (\E r \in Requests : Start(r)) \/ Stop \/ GetStatus \/ UNCHANGED vars
    BY <2>1, CallsMoveNothing DEF Known
  <2>2. ASSUME NEW h \in Scan, StepOf(h) PROVE Apart(g)'
    <3>1. CASE g # h
      BY <2>2, <3>1, OthersSame, SameMovesNothing, UnmovedKeeps DEF Known
    <3>2. CASE g = h
      BY <2>2, <3>2, RecordMoves, FinishMoves, QuietMoves
    <3> QED BY <3>1, <3>2
  <2> QED BY <2>1, <2>2 DEF Next, StepOf
<1>3. Known /\ AllApart => EngineInv
  BY EndedIsComplete DEF EngineInv
<1> HIDE DEF AllApart
<1> QED BY <1>1, <1>2, <1>3, KnownAlways, PTL DEF Spec

\* A new object is an engine without scans.
LEMMA EngineStarts == Init => Engine!EngineInit
<1> SUFFICES ASSUME Init PROVE Engine!EngineInit
  OBVIOUS
<1>1. /\ ~isRunning /\ isRunning = FALSE /\ totalPorts = 0 /\ scannedPorts = 0
      /\ openPorts = {} /\ liveScanned = <<>> /\ ctx = 0 /\ cancelled = {}
      /\ overlapped = FALSE
  BY Zenon DEF Init
<1>2. \A g \in Scan : /\ Targets(request[g]) = {} /\ probed[g] \ OnTheWay(g) = {}
                      /\ ~Live(g)
  BY DEF Init, Targets, NoRequest, Live
<1>3. {g \in Scan : Live(g)} = {}
  BY <1>2
<1> QED BY <1>1, <1>2, <1>3 DEF Engine!EngineInit, Scan

\* A step that changes nothing a caller sees.
LEMMA EngineRests ==
  ASSUME UNCHANGED <<isRunning, totalPorts, scannedPorts, openPorts, liveScanned,
                     ctx, cancelled, request, overlapped>>,
         \A g \in Scan : Reported(g)' = Reported(g) /\ (Live(g)' <=> Live(g))
  PROVE  UNCHANGED Engine!engineVars
<1>1. \A g \in Scan : (probed[g] \ OnTheWay(g))' = probed[g] \ OnTheWay(g)
  BY DEF Reported
<1>2. [g \in Scan |-> probed[g] \ OnTheWay(g)]' = [g \in Scan |-> probed[g] \ OnTheWay(g)]
  BY <1>1
<1>3. [g \in Scan |-> Targets(request[g])]' = [g \in Scan |-> Targets(request[g])]
  OBVIOUS
<1>4. {g \in Scan : Live(g)}' = {g \in Scan : Live(g)}
  OBVIOUS
<1> QED BY <1>2, <1>3, <1>4 DEF Engine!engineVars

\* The engine counts as the scanner does.
LEMMA SameCount == \A S : Engine!Cardinality(S) = Cardinality(S)
BY DEF Engine!Cardinality, Cardinality, Engine!IsFiniteSet, IsFiniteSet

\* Start starts a job.
LEMMA StartStartsJob ==
  ASSUME EngineInv, NEW r \in Requests, Start(r)
  PROVE  Engine!Start(Targets(r))
<1>1. /\ ~isRunning /\ ctx < MaxScans /\ ctx' = ctx + 1 /\ isRunning' = TRUE
      /\ scannedPorts' = 0 /\ openPorts' = {} /\ liveScanned' = <<>>
      /\ cancelled' = cancelled /\ probed' = probed
  BY Zenon DEF Start, MayStart, ResetProgress
<1>2. /\ request' = [request EXCEPT ![ctx + 1] = r]
      /\ runPc' = [runPc EXCEPT ![ctx + 1] = "launched"]
      /\ totalPorts' = r.ips * r.ports
      /\ overlapped' = (overlapped \/ \E h \in cancelled : Live(h))
  BY DEF Start
<1>3. ctx + 1 \in Scan /\ cancelled \subseteq Scan
  BY <1>1, ScansAssumption DEF EngineInv, Known, TypeOK, TypeObj, Scan
<1>4. Cardinality(Targets(r)) = r.ips * r.ports
  <2> DEFINE m == r.ports
             n == r.ips
  <2>1. m \in Nat /\ n \in Nat
    BY RequestNumbers
  <2>2. Cardinality((1 .. m) \X (1 .. n)) = m * n
    <3> HIDE DEF m, n
    <3> QED BY <2>1, TargetsCount
  <2>3. m * n = n * m
    <3> HIDE DEF m, n
    <3> QED BY <2>1
  <2> QED BY <2>2, <2>3 DEF Targets
<1>5. [g \in Scan |-> Targets(request[g])]'
        = [[g \in Scan |-> Targets(request[g])] EXCEPT ![ctx + 1] = Targets(r)]
  BY <1>2, <1>3 DEF EngineInv, Known, TypeOK, TypeRun
<1>6. [g \in Scan |-> probed[g] \ OnTheWay(g)]' = [g \in Scan |-> probed[g] \ OnTheWay(g)]
  <2>1. \A g \in Scan : (probed[g] \ OnTheWay(g))' = probed[g] \ OnTheWay(g)
    BY CallsMoveNothing DEF Reported, EngineInv, Known
  <2> QED BY <2>1
<1>7. {g \in Scan : Live(g)}' = {g \in Scan : Live(g)} \cup {ctx + 1}
  BY <1>2, <1>3 DEF Live, EngineInv, Known, TypeOK, TypeRun
<1>8. (\E h \in cancelled : Live(h)) <=> {g \in Scan : Live(g)} \cap cancelled # {}
  BY <1>3
<1>9. overlapped' = (overlapped \/ {g \in Scan : Live(g)} \cap cancelled # {})
  BY <1>2, <1>8
<1> QED BY <1>1, <1>2, <1>4, <1>5, <1>6, <1>7, <1>9, SameCount DEF Engine!Start

\* Stop and GetStatus are those of the engine.
LEMMA CallsAreCalls ==
  ASSUME EngineInv
  PROVE  /\ Stop => Engine!Stop
         /\ GetStatus => Engine!GetStatus
<1>1. ASSUME Stop \/ GetStatus
      PROVE  /\ [g \in Scan |-> probed[g] \ OnTheWay(g)]' = [g \in Scan |-> probed[g] \ OnTheWay(g)]
             /\ [g \in Scan |-> Targets(request[g])]' = [g \in Scan |-> Targets(request[g])]
             /\ {g \in Scan : Live(g)}' = {g \in Scan : Live(g)}
  <2>1. \A g \in Scan : (probed[g] \ OnTheWay(g))' = probed[g] \ OnTheWay(g)
    BY <1>1, CallsMoveNothing DEF Reported, EngineInv, Known
  <2>2. runPc' = runPc /\ request' = request
    BY <1>1 DEF Stop, GetStatus, runVars
  <2> QED BY <2>1, <2>2 DEF Live
<1>2. Stop => /\ isRunning /\ isRunning' = FALSE /\ cancelled' = cancelled \cup {ctx}
              /\ UNCHANGED <<totalPorts, scannedPorts, openPorts, liveScanned, ctx, overlapped>>
  BY Zenon DEF Stop, histVars
<1>3. GetStatus => /\ liveScanned' = <<>>
                   /\ UNCHANGED <<isRunning, totalPorts, scannedPorts, openPorts, ctx,
                                  cancelled, overlapped>>
  BY DEF GetStatus, histVars
<1>4. Stop => Engine!Stop
  BY <1>1, <1>2 DEF Engine!Stop
<1>5. GetStatus => Engine!GetStatus
  BY <1>1, <1>3 DEF Engine!GetStatus
<1> QED BY <1>4, <1>5

\* A scan's targets contain what it dialed.
LEMMA DialsOwnTargets ==
  ASSUME EngineInv, NEW g \in Scan, Live(g)
  PROVE  probed[g] \subseteq Targets(request[g])
BY CountsAreBounded DEF EngineInv, Live

\* The collector's record is a report of the engine.
LEMMA RecordReports ==
  ASSUME EngineInv, NEW g \in Scan, CollectorRecord(g)
  PROVE  \E t \in Targets(request[g]), o \in Outcomes : Engine!Report(g, t, o)
<1> PICK res : res = Head(inHand[g])
  OBVIOUS
<1> DEFINE t == res.target
           o == res.outcome
<1>1. /\ Apart(g)' /\ t \in probed[g] \ Reported(g)
      /\ Reported(g)' = Reported(g) \cup {t}
      /\ res \in Result /\ res.scan = g
  BY RecordMoves DEF EngineInv
<1>2. res = [scan |-> g, target |-> t, outcome |-> o] /\ o \in Outcomes
  BY <1>1 DEF Result
<1>3. StateOf(o) = "open" <=> o = "connected"
  BY DEF StateOf
<1>4. /\ scannedPorts' = scannedPorts + 1
      /\ openPorts' = IF StateOf(o) = "open" THEN openPorts \cup {res} ELSE openPorts
      /\ liveScanned' = IF Len(liveScanned) < LiveCap THEN Append(liveScanned, res) ELSE liveScanned
      /\ UNCHANGED <<isRunning, totalPorts, ctx, cancelled, request, overlapped>>
      /\ runPc[g] = "recording" /\ runPc' = [runPc EXCEPT ![g] = "collecting"]
  BY DEF CollectorRecord, LiveRoom
<1> HIDE DEF t, o
<1>5. \A h \in Scan : h # g => Reported(h)' = Reported(h)
  BY OthersSame, SameMovesNothing, UnmovedKeeps DEF StepOf, Orchestrator, EngineInv, Known
<1>6. [h \in Scan |-> probed[h] \ OnTheWay(h)]'
        = [[h \in Scan |-> probed[h] \ OnTheWay(h)] EXCEPT ![g] = @ \cup {t}]
  <2>1. (probed[g] \ OnTheWay(g))' = (probed[g] \ OnTheWay(g)) \cup {t}
    BY <1>1 DEF Reported
  <2>2. \A h \in Scan : h # g => (probed[h] \ OnTheWay(h))' = probed[h] \ OnTheWay(h)
    BY <1>5 DEF Reported
  <2> QED BY <2>1, <2>2
<1>7. [h \in Scan |-> Targets(request[h])]' = [h \in Scan |-> Targets(request[h])]
  BY <1>4
<1>8. {h \in Scan : Live(h)}' = {h \in Scan : Live(h)}
  BY <1>4 DEF Live, EngineInv, Known, TypeOK, TypeRun
<1>9. Live(g) /\ t \in Targets(request[g])
  BY <1>1, <1>4, DialsOwnTargets DEF Live
<1>10. t \in [h \in Scan |-> Targets(request[h])][g] \ [h \in Scan |-> probed[h] \ OnTheWay(h)][g]
  BY <1>1, <1>9 DEF Reported
<1>11. Engine!Report(g, t, o)
  BY <1>2, <1>3, <1>4, <1>6, <1>7, <1>8, <1>9, <1>10 DEF Engine!Report
<1>12. t \in Targets(request[g]) /\ o \in Outcomes
  BY <1>2, <1>9
<1> QED BY <1>11, <1>12

\* The end of runScan is an end of the engine: all targets are reported unless
\* this scan or a later one was stopped.
LEMMA FinishIsEnd ==
  ASSUME EngineInv, EngineInv', NEW g \in Scan, CollectorFinish(g)
  PROVE  Engine!End(g)
<1>1. /\ Reported(g)' = Reported(g) /\ Reported(g) = probed[g]
      /\ Live(g) /\ runPc'[g] = "done" /\ probed' = probed /\ cancelled' = cancelled
      /\ request' = request
  BY FinishMoves DEF EngineInv
<1>2. Reported(g) = Targets(request[g]) \/ \E h \in cancelled : h >= g
  <2>1. CASE NotStopped(g)
    <3>1. NotStopped(g)'
      BY <1>1, <2>1 DEF NotStopped
    <3>2. probed'[g] = Targets(request'[g])
      BY <1>1, <3>1 DEF EngineInv
    <3> QED BY <1>1, <3>2
  <2>2. CASE ~NotStopped(g)
    <3>1. PICK h \in cancelled : ~(h < g)
      BY <2>2 DEF NotStopped
    <3>2. h \in Nat /\ g \in Nat
      BY <3>1, ScansAssumption DEF EngineInv, Known, TypeOK, TypeObj, Scan
    <3> QED BY <3>1, <3>2
  <2> QED BY <2>1, <2>2
<1>3. \A h \in Scan : h # g => Reported(h)' = Reported(h)
  BY OthersSame, SameMovesNothing, UnmovedKeeps DEF StepOf, Orchestrator, EngineInv, Known
<1>4. [h \in Scan |-> probed[h] \ OnTheWay(h)]' = [h \in Scan |-> probed[h] \ OnTheWay(h)]
  <2>1. \A h \in Scan : (probed[h] \ OnTheWay(h))' = probed[h] \ OnTheWay(h)
    BY <1>1, <1>3 DEF Reported
  <2> QED BY <2>1
<1>5. [h \in Scan |-> Targets(request[h])]' = [h \in Scan |-> Targets(request[h])]
  BY <1>1
<1>6. {h \in Scan : Live(h)}' = {h \in Scan : Live(h)} \ {g}
  BY DEF CollectorFinish, Live, EngineInv, Known, TypeOK, TypeRun
<1>7. /\ isRunning' = FALSE
      /\ UNCHANGED <<totalPorts, scannedPorts, openPorts, liveScanned, ctx, cancelled, overlapped>>
  BY DEF CollectorFinish, MarkEnded, histVars
<1>8. \/ [h \in Scan |-> probed[h] \ OnTheWay(h)][g] = [h \in Scan |-> Targets(request[h])][g]
      \/ \E h \in cancelled : h >= g
  BY <1>2 DEF Reported
<1> QED BY <1>1, <1>4, <1>5, <1>6, <1>7, <1>8 DEF Engine!End

\* Every step of the scanner is a step of the engine or a stutter.
LEMMA EngineStep ==
  EngineInv /\ EngineInv' /\ [Next]_vars => [Engine!EngineNext]_(Engine!engineVars)
<1> SUFFICES ASSUME EngineInv, EngineInv', [Next]_vars
             PROVE  [Engine!EngineNext]_(Engine!engineVars)
  OBVIOUS
<1>1. ASSUME NEW r \in Requests, Start(r) PROVE Engine!EngineNext
  <2>1. Engine!Start(Targets(r))
    BY <1>1, StartStartsJob
  <2> QED BY <2>1 DEF Engine!EngineNext
<1>2. CASE Stop \/ GetStatus
  BY <1>2, CallsAreCalls DEF Engine!EngineNext
<1>3. CASE UNCHANGED vars
  <2>1. /\ UNCHANGED <<isRunning, totalPorts, scannedPorts, openPorts, liveScanned,
                       ctx, cancelled, request, overlapped>>
        /\ \A g \in Scan : Reported(g)' = Reported(g) /\ (Live(g)' <=> Live(g))
    <3>1. \A g \in Scan : Reported(g)' = Reported(g)
      BY <1>3, CallsMoveNothing DEF EngineInv, Known
    <3> QED BY <1>3, <3>1 DEF vars, objVars, runVars, histVars, Live
  <2> QED BY <2>1, EngineRests
<1>4. ASSUME NEW h \in Scan, StepOf(h) PROVE [Engine!EngineNext]_(Engine!engineVars)
  <2>1. CASE CollectorRecord(h)
    <3>1. PICK t \in Targets(request[h]), o \in Outcomes : Engine!Report(h, t, o)
      BY <2>1, RecordReports
    <3>2. [g \in Scan |-> Targets(request[g])][h] = Targets(request[h]) /\ h \in 1 .. MaxScans
      BY DEF Scan
    <3> QED BY <3>1, <3>2 DEF Engine!EngineNext, Engine!Goroutines
  <2>2. CASE CollectorFinish(h)
    <3>1. Engine!End(h) /\ h \in 1 .. MaxScans
      BY <2>2, FinishIsEnd DEF Scan
    <3> QED BY <3>1 DEF Engine!EngineNext, Engine!Goroutines
  <2>3. CASE ~CollectorRecord(h) /\ ~CollectorFinish(h)
    <3>1. \A g \in Scan : Reported(g)' = Reported(g) /\ (Live(g)' <=> Live(g))
      BY <1>4, <2>3, QuietMoves DEF EngineInv
    <3>2. UNCHANGED <<isRunning, totalPorts, scannedPorts, openPorts, liveScanned,
                      ctx, cancelled, request, overlapped>>
      BY <1>4, <2>3 DEF StepOf, Orchestrator, ReadWorkers, Clamp, SpawnWorkers,
         CollectorReceive, Feeder, FeedPort, ClosePorts, CloseResults,
         WorkerStep, WorkerEnter, WorkerReceive, WorkerReturn, WorkerProbe,
         WorkerAbandon, WorkerDialed, WorkerSend, objVars, runVars, histVars
    <3> QED BY <3>1, <3>2, EngineRests
  <2> QED BY <2>1, <2>2, <2>3
<1> QED BY <1>1, <1>2, <1>3, <1>4 DEF Next, StepOf

\* However Start and Stop come, the scanner implements ScanEngine: each target is
\* reported once, and a scan that reported less than all of its targets ends only
\* behind a Stop (Start, Stop, GetStatus, runScan).
THEOREM ScannerImplementsEngine == Spec => ImplementsEngine
BY EngineAlways, EngineStarts, EngineStep, PTL
   DEF Spec, ImplementsEngine, Engine!EngineSpec

-----------------------------------------------------------------------------
(* The lists of a request: StartRequest, for every width of an address and   *)
(* every pair of fields.                                                     *)

(* Numbers.                                                                 *)

\* Induction over a set of numbers.
Less == {e \in Nat \X Nat : e[1] < e[2]}
LEMMA LessIsWellFounded == IsWellFoundedOn(Less, Nat)
<1>1. Less = OpToRel(<, Nat)
  BY DEF Less, OpToRel
<1> QED BY <1>1, NatLessThanWellFounded, Zenon

LEMMA SetInduction ==
  ASSUME NEW P \in SUBSET Nat, 0 \in P, \A n \in P : n + 1 \in P
  PROVE  \A n \in Nat : n \in P
<1> SUFFICES ASSUME Nat \ P # {}
             PROVE  FALSE
  OBVIOUS
<1>1. PICK n \in Nat \ P : \A k \in Nat \ P : <<k, n>> \notin Less
  BY WFMin, LessIsWellFounded
<1>2. n # 0 /\ n - 1 \in Nat /\ <<n - 1, n>> \in Less
  BY <1>1 DEF Less
<1>3. n - 1 \in P /\ n = (n - 1) + 1
  BY <1>1, <1>2
<1> QED BY <1>1, <1>3

\* The powers of 2: there is a function that its definition is true of.
IsPow2(f) == f = [n \in Nat |-> IF n = 0 THEN 1 ELSE 2 * f[n - 1]]
Pow2Upto(f, m) == \A n \in 0 .. m : f[n] = IF n = 0 THEN 1 ELSE 2 * f[n - 1]
LEMMA Pow2IsDefined == \E f : IsPow2(f)
<1> DEFINE P == {m \in Nat : \E f : Pow2Upto(f, m)}
<1>1. 0 \in P
  <2>1. Pow2Upto([n \in Nat |-> 1], 0)
    BY DEF Pow2Upto
  <2> QED BY <2>1
<1>2. ASSUME NEW m \in P PROVE m + 1 \in P
  <2>1. PICK f : Pow2Upto(f, m)
    BY <1>2
  <2> DEFINE g == [n \in Nat |-> IF n = m + 1 THEN 2 * f[m] ELSE f[n]]
  <2>2. Pow2Upto(g, m + 1)
    BY <2>1 DEF Pow2Upto
  <2> HIDE DEF g
  <2> QED BY <2>2
<1> HIDE DEF P
<1>3. \A m \in Nat : m \in P
  BY <1>1, <1>2, SetInduction DEF P
<1>4. \A m \in Nat : \E f : Pow2Upto(f, m)
  BY <1>3 DEF P
\* Two of them agree as far as both go.
<1>5. ASSUME NEW f, NEW g, NEW k \in Nat, NEW l \in Nat, Pow2Upto(f, k), Pow2Upto(g, l)
      PROVE  \A n \in Nat : n <= k /\ n <= l => f[n] = g[n]
  <2> DEFINE Q == {n \in Nat : n <= k /\ n <= l => f[n] = g[n]}
  <2>1. 0 \in Q
    BY <1>5 DEF Pow2Upto
  <2>2. ASSUME NEW n \in Q PROVE n + 1 \in Q
    BY <1>5, <2>2 DEF Pow2Upto
  <2> HIDE DEF Q
  <2>3. \A n \in Nat : n \in Q
    BY <2>1, <2>2, SetInduction DEF Q
  <2> QED BY <2>3 DEF Q
<1> DEFINE U(n) == CHOOSE f : Pow2Upto(f, n)
           h == [n \in Nat |-> U(n)[n]]
<1>6. \A n \in Nat : Pow2Upto(U(n), n)
  BY <1>4
<1> HIDE DEF U
<1>7. ASSUME NEW n \in Nat PROVE h[n] = IF n = 0 THEN 1 ELSE 2 * h[n - 1]
  <2>1. CASE n = 0
    BY <1>6, <2>1 DEF Pow2Upto
  <2>2. CASE n # 0
    <3>1. n - 1 \in Nat /\ Pow2Upto(U(n), n) /\ Pow2Upto(U(n - 1), n - 1)
      BY <1>6, <2>2
    <3>2. U(n)[n - 1] = U(n - 1)[n - 1]
      BY <1>5, <3>1
    <3>3. U(n)[n] = 2 * U(n)[n - 1]
      BY <2>2, <3>1 DEF Pow2Upto
    <3> QED BY <2>2, <3>1, <3>2, <3>3
  <2> QED BY <2>1, <2>2
<1>8. h = [n \in Nat |-> h[n]]
  OBVIOUS
<1>9. IsPow2(h)
  BY <1>7, <1>8 DEF IsPow2
<1> QED BY <1>9

LEMMA Pow2Values ==
  /\ Pow2[0] = 1
  /\ \A n \in Nat : Pow2[n] \in Nat \ {0} /\ Pow2[n + 1] = 2 * Pow2[n]
<1>1. IsPow2(Pow2)
  BY Pow2IsDefined, Zenon DEF Pow2, IsPow2
<1>2. Pow2[0] = 1 /\ \A n \in Nat : Pow2[n + 1] = 2 * Pow2[n]
  <2>1. \A n \in Nat : Pow2[n] = IF n = 0 THEN 1 ELSE 2 * Pow2[n - 1]
    BY <1>1 DEF IsPow2
  <2> QED BY <2>1
<1> DEFINE P == {n \in Nat : Pow2[n] \in Nat \ {0}}
<1>3. 0 \in P /\ \A n \in P : n + 1 \in P
  BY <1>2
<1> HIDE DEF P
<1>4. \A n \in Nat : n \in P
  BY <1>3, SetInduction DEF P
<1> QED BY <1>2, <1>4 DEF P

LEMMA Pow2Adds ==
  ASSUME NEW m \in Nat, NEW n \in Nat
  PROVE  Pow2[m + n] = Pow2[m] * Pow2[n]
<1> DEFINE P == {k \in Nat : Pow2[m + k] = Pow2[m] * Pow2[k]}
<1>1. 0 \in P
  BY Pow2Values
<1>2. ASSUME NEW k \in P PROVE k + 1 \in P
  <2>1. Pow2[m + k] = Pow2[m] * Pow2[k] /\ k \in Nat
    BY <1>2
  <2>2. Pow2[m + (k + 1)] = 2 * Pow2[m + k] /\ Pow2[k + 1] = 2 * Pow2[k]
    <3>1. m + k \in Nat /\ m + (k + 1) = (m + k) + 1
      BY <2>1
    <3> QED BY <3>1, <2>1, Pow2Values
  <2>3. Pow2[m] \in Nat /\ Pow2[k] \in Nat
    BY <2>1, Pow2Values
  <2> DEFINE a == Pow2[m]
             b == Pow2[k]
  <2>4. a * (2 * b) = 2 * (a * b)
    <3> HIDE DEF a, b
    <3>1. a \in Nat /\ b \in Nat
      BY <2>3 DEF a, b
    <3> QED BY <3>1
  <2> QED BY <2>1, <2>2, <2>4
<1> HIDE DEF P
<1>3. \A k \in Nat : k \in P
  BY <1>1, <1>2, SetInduction DEF P
<1> QED BY <1>3 DEF P

-----------------------------------------------------------------------------
(* The number of an address.                                                *)

Base == Pow2[OctetBits]
LEMMA BaseIsBig ==
  /\ Base \in Nat /\ Base >= 2 /\ Top = Base - 1 /\ Top \in Octet
  /\ Octet = 0 .. Base - 1 /\ NumOctets \in Nat /\ NumOctets >= 1 /\ OctetBits \in Nat
<1>1. OctetBits - 1 \in Nat /\ OctetBits = (OctetBits - 1) + 1
  BY AddressAssumption
<1>2. Pow2[OctetBits] = 2 * Pow2[OctetBits - 1] /\ Pow2[OctetBits - 1] \in Nat \ {0}
  BY <1>1, Pow2Values, Zenon
<1> QED BY <1>2, AddressAssumption DEF Base, Top, Octet

\* The values of the first octets.
Digits(v, ip) == v = [i \in 0 .. NumOctets |-> IF i = 0 THEN 0 ELSE v[i - 1] * Pow2[OctetBits] + ip[i]]
ValueOf(ip) == CHOOSE v : Digits(v, ip)
DigitsUpto(v, ip, m) == v[0] = 0 /\ \A n \in 1 .. m : v[n] = v[n - 1] * Base + ip[n]

LEMMA ValueSteps ==
  ASSUME NEW ip
  PROVE  Number(ip) = ValueOf(ip)[NumOctets] /\ DigitsUpto(ValueOf(ip), ip, NumOctets)
<1> DEFINE P == {m \in Nat : \E v : DigitsUpto(v, ip, m)}
<1>1. 0 \in P
  <2>1. DigitsUpto([n \in Nat |-> 0], ip, 0)
    BY DEF DigitsUpto
  <2> QED BY <2>1
<1>2. ASSUME NEW m \in P PROVE m + 1 \in P
  <2>1. PICK v : DigitsUpto(v, ip, m)
    BY <1>2
  <2> DEFINE w == [n \in Nat |-> IF n = m + 1 THEN v[m] * Base + ip[m + 1] ELSE v[n]]
  <2>2. DigitsUpto(w, ip, m + 1)
    BY <2>1 DEF DigitsUpto
  <2> HIDE DEF w
  <2> QED BY <2>2
<1> HIDE DEF P
<1>3. \A m \in Nat : m \in P
  BY <1>1, <1>2, SetInduction DEF P
<1>4. PICK v : DigitsUpto(v, ip, NumOctets)
  BY <1>3, AddressAssumption DEF P
<1> DEFINE w == [i \in 0 .. NumOctets |-> v[i]]
<1>5. Digits(w, ip)
  <2>1. \A i \in 0 .. NumOctets : w[i] = IF i = 0 THEN 0 ELSE w[i - 1] * Base + ip[i]
    BY <1>4, AddressAssumption DEF DigitsUpto
  <2> QED BY <2>1 DEF Digits, Base
<1> HIDE DEF w
<1>6. Digits(ValueOf(ip), ip)
  BY <1>5, Zenon DEF ValueOf
<1>7. DigitsUpto(ValueOf(ip), ip, NumOctets)
  <2> DEFINE u == ValueOf(ip)
  <2>1. Digits(u, ip)
    BY <1>6
  <2> HIDE DEF u
  <2> DEFINE x == [i \in 0 .. NumOctets |-> IF i = 0 THEN 0 ELSE u[i - 1] * Pow2[OctetBits] + ip[i]]
  <2>2. \A i \in 0 .. NumOctets : x[i] = IF i = 0 THEN 0 ELSE u[i - 1] * Pow2[OctetBits] + ip[i]
    OBVIOUS
  <2>3. u = x
    BY <2>1, Zenon DEF Digits
  <2> HIDE DEF x
  <2>4. DigitsUpto(u, ip, NumOctets)
    BY <2>2, <2>3, AddressAssumption DEF DigitsUpto, Base
  <2> QED BY <2>4 DEF u
<1>8. Number(ip) = ValueOf(ip)[NumOctets]
  BY Zenon DEF Number, ValueOf, Digits
<1> QED BY <1>7, <1>8

\* A product plus a rest that is smaller than a factor.
LEMMA DigitFits ==
  ASSUME NEW a \in Nat, NEW p \in Nat, a < p, NEW b \in Nat, NEW d \in 0 .. b - 1
  PROVE  a * b + d \in Nat /\ a * b + d < p * b
<1>1. a * b + b <= p * b
  <2>1. PICK k \in Nat : p = a + 1 + k
    <3>1. p - a - 1 \in Nat /\ p = a + 1 + (p - a - 1)
      OBVIOUS
    <3> QED BY <3>1
  <2>2. p * b = a * b + b + k * b
    BY <2>1
  <2>3. k * b \in Nat
    BY <2>1
  <2>4. a * b \in Nat
    OBVIOUS
  <2> QED BY <2>2, <2>3, <2>4
<1>2. a * b \in Nat
  OBVIOUS
<1> QED BY <1>1, <1>2

\* How many values the first i octets have.
Span2(i) == Pow2[i * OctetBits]
LEMMA SpanSteps ==
  /\ Span2(0) = 1
  /\ \A i \in Nat : Span2(i) \in Nat \ {0} /\ Span2(i + 1) = Span2(i) * Base
<1>1. \A i \in Nat : i * OctetBits \in Nat /\ (i + 1) * OctetBits = i * OctetBits + OctetBits
  BY AddressAssumption
<1>2. \A i \in Nat : Pow2[i * OctetBits + OctetBits] = Pow2[i * OctetBits] * Pow2[OctetBits]
  BY <1>1, AddressAssumption, Pow2Adds
<1>3. 0 * OctetBits = 0
  BY AddressAssumption
<1> QED BY <1>1, <1>2, <1>3, Pow2Values DEF Span2, Base

LEMMA ValueFits ==
  ASSUME NEW ip \in Address
  PROVE  \A i \in 0 .. NumOctets : ValueOf(ip)[i] \in 0 .. Span2(i) - 1
<1> DEFINE v == ValueOf(ip)
<1>1. DigitsUpto(v, ip, NumOctets)
  BY ValueSteps
<1> HIDE DEF v
<1> DEFINE P == {i \in Nat : i <= NumOctets => v[i] \in 0 .. Span2(i) - 1}
<1>2. 0 \in P
  BY <1>1, SpanSteps DEF DigitsUpto
<1>3. ASSUME NEW i \in P PROVE i + 1 \in P
  <2> SUFFICES ASSUME i + 1 <= NumOctets PROVE v[i + 1] \in 0 .. Span2(i + 1) - 1
    BY <1>3
  <2>1. i \in Nat /\ v[i] \in 0 .. Span2(i) - 1 /\ i + 1 \in 1 .. NumOctets
    BY <1>3, BaseIsBig
  <2>2. v[i + 1] = v[i] * Base + ip[i + 1] /\ ip[i + 1] \in 0 .. Base - 1
    BY <1>1, <2>1, BaseIsBig DEF DigitsUpto, Address
  <2>3. Span2(i) \in Nat /\ Span2(i + 1) = Span2(i) * Base
    BY <2>1, SpanSteps
  <2>4. v[i] \in Nat /\ v[i] < Span2(i)
    BY <2>1, <2>3
  <2>5. v[i + 1] \in Nat /\ v[i + 1] < Span2(i) * Base
    BY <2>2, <2>3, <2>4, BaseIsBig, DigitFits
  <2>6. Span2(i) * Base \in Nat
    BY <2>3, BaseIsBig
  <2> QED BY <2>3, <2>5, <2>6
<1> HIDE DEF P
<1>4. \A i \in Nat : i \in P
  BY <1>2, <1>3, SetInduction DEF P
<1> QED BY <1>4, BaseIsBig DEF P, v

Space == Pow2[Bits]
LEMMA NumberFits ==
  /\ Space \in Nat /\ Space >= 1 /\ Space = Span2(NumOctets)
  /\ \A ip \in Address : Number(ip) \in 0 .. Space - 1
<1>1. Bits = NumOctets * OctetBits /\ Bits \in Nat
  BY AddressAssumption DEF Bits
<1>2. Space = Span2(NumOctets)
  BY <1>1 DEF Space, Span2
<1>3. Space \in Nat \ {0}
  BY <1>1, Pow2Values DEF Space
<1> QED BY <1>2, <1>3, ValueFits, ValueSteps, BaseIsBig

\* bytes.Compare compares the numbers, and an address is known by its number.
LEMMA GreaterIsGreater ==
  ASSUME NEW a \in Address, NEW b \in Address, Greater(a, b)
  PROVE  Number(a) > Number(b)
<1> DEFINE v == ValueOf(a)
           w == ValueOf(b)
<1>1. /\ DigitsUpto(v, a, NumOctets) /\ Number(a) = v[NumOctets]
      /\ DigitsUpto(w, b, NumOctets) /\ Number(b) = w[NumOctets]
      /\ \A i \in 0 .. NumOctets : v[i] \in Nat /\ w[i] \in Nat
  BY ValueSteps, ValueFits
<1> HIDE DEF v, w
<1>2. PICK k \in 1 .. NumOctets : a[k] > b[k] /\ \A j \in 1 .. k - 1 : a[j] = b[j]
  BY DEF Greater
<1> DEFINE P == {i \in Nat : i <= NumOctets => IF i < k THEN v[i] = w[i] ELSE v[i] > w[i]}
<1>3. 0 \in P
  BY <1>1, <1>2, BaseIsBig DEF DigitsUpto
<1>4. ASSUME NEW i \in P PROVE i + 1 \in P
  <2> SUFFICES ASSUME i + 1 <= NumOctets
               PROVE  IF i + 1 < k THEN v[i + 1] = w[i + 1] ELSE v[i + 1] > w[i + 1]
    BY <1>4
  <2>1. /\ i \in Nat /\ v[i] \in Nat /\ w[i] \in Nat
        /\ IF i < k THEN v[i] = w[i] ELSE v[i] > w[i]
    BY <1>1, <1>4, BaseIsBig
  <2>2. /\ v[i + 1] = v[i] * Base + a[i + 1] /\ w[i + 1] = w[i] * Base + b[i + 1]
        /\ a[i + 1] \in 0 .. Base - 1 /\ b[i + 1] \in 0 .. Base - 1
    <3>1. i + 1 \in 1 .. NumOctets /\ (i + 1) - 1 = i
      BY <2>1, BaseIsBig
    <3> QED BY <1>1, <3>1, BaseIsBig DEF DigitsUpto, Address
  <2>3. CASE i + 1 < k
    BY <1>2, <2>1, <2>2, <2>3, BaseIsBig
  <2>4. CASE i + 1 = k
    <3>1. v[i] = w[i] /\ a[i + 1] > b[i + 1] /\ w[i] * Base \in Nat
      BY <1>2, <2>1, <2>4, BaseIsBig
    <3> QED BY <3>1, <2>2, <2>4, BaseIsBig
  <2>5. CASE i + 1 > k
    <3>1. w[i] < v[i]
      BY <1>2, <2>1, <2>5
    <3>2. w[i] * Base + b[i + 1] < v[i] * Base
      BY <2>1, <2>2, <3>1, BaseIsBig, DigitFits
    <3>3. w[i] * Base \in Nat /\ v[i] * Base \in Nat
      BY <2>1, BaseIsBig
    <3> QED BY <2>2, <2>5, <3>2, <3>3, <1>2, <2>1, BaseIsBig
  <2> QED BY <2>1, <2>3, <2>4, <2>5, <1>2
<1> HIDE DEF P
<1>5. \A i \in Nat : i \in P
  BY <1>3, <1>4, SetInduction DEF P
<1>6. v[NumOctets] > w[NumOctets]
  BY <1>2, <1>5, BaseIsBig DEF P
<1> QED BY <1>1, <1>6

LEMMA OneIsGreater ==
  ASSUME NEW a \in Address, NEW b \in Address, a # b
  PROVE  Greater(a, b) \/ Greater(b, a)
<1> SUFFICES ASSUME ~Greater(a, b), ~Greater(b, a) PROVE FALSE
  OBVIOUS
<1> DEFINE P == {i \in Nat : \A j \in 1 .. i : j <= NumOctets => a[j] = b[j]}
<1>1. 0 \in P
  OBVIOUS
<1>2. ASSUME NEW i \in P PROVE i + 1 \in P
  <2> SUFFICES ASSUME i + 1 <= NumOctets PROVE a[i + 1] = b[i + 1]
    BY <1>2
  <2>1. i \in Nat /\ \A j \in 1 .. i : a[j] = b[j]
    BY <1>2, BaseIsBig
  <2>2. a[i + 1] \in Nat /\ b[i + 1] \in Nat /\ i + 1 \in 1 .. NumOctets /\ (i + 1) - 1 = i
    BY <2>1, BaseIsBig DEF Address
  <2>3. ~(a[i + 1] > b[i + 1]) /\ ~(b[i + 1] > a[i + 1])
    BY <2>1, <2>2 DEF Greater
  <2> QED BY <2>2, <2>3
<1> HIDE DEF P
<1>3. \A i \in Nat : i \in P
  BY <1>1, <1>2, SetInduction DEF P
<1>4. \A j \in 1 .. NumOctets : a[j] = b[j]
  BY <1>3, BaseIsBig DEF P
<1>5. a = [j \in 1 .. NumOctets |-> a[j]] /\ b = [j \in 1 .. NumOctets |-> b[j]]
  BY DEF Address
<1> QED BY <1>4, <1>5

LEMMA NumbersCompare ==
  ASSUME NEW a \in Address, NEW b \in Address
  PROVE  /\ Greater(a, b) <=> Number(a) > Number(b)
         /\ Number(a) = Number(b) <=> a = b
<1>1. Number(a) \in Nat /\ Number(b) \in Nat
  BY NumberFits
<1>2. CASE a = b
  BY <1>1, <1>2, GreaterIsGreater
<1>3. CASE a # b
  BY <1>1, <1>3, GreaterIsGreater, OneIsGreater
<1> QED BY <1>2, <1>3

\* incrementIP goes to the next number, and from the highest to 0.
LEMMA IncrementIsNext ==
  ASSUME NEW ip \in Address
  PROVE  /\ incrementIP(ip) \in Address
         /\ Number(incrementIP(ip)) = IF Number(ip) = Space - 1 THEN 0 ELSE Number(ip) + 1
<1> DEFINE up == incrementIP(ip)
           v == ValueOf(ip)
           w == ValueOf(up)
           TopFrom(i) == \A j \in i + 1 .. NumOctets : ip[j] = Top
<1>1. \A i \in 1 .. NumOctets : ip[i] \in 0 .. Base - 1
  BY BaseIsBig DEF Address
<1>2. \A i \in 1 .. NumOctets :
        up[i] = IF TopFrom(i) THEN (IF ip[i] = Top THEN 0 ELSE ip[i] + 1) ELSE ip[i]
  <2>1. \A d \in 0 .. Base - 1 : (d + 1) % Base = IF d = Top THEN 0 ELSE d + 1
    BY BaseIsBig
  <2> QED BY <1>1, <2>1 DEF incrementIP, Base
<1>3. up \in Address
  <2>1. up = [i \in 1 .. NumOctets |-> up[i]]
    BY DEF incrementIP
  <2>2. \A i \in 1 .. NumOctets : up[i] \in Octet
    BY <1>1, <1>2, BaseIsBig
  <2> HIDE DEF up
  <2> QED BY <2>1, <2>2 DEF Address
<1>4. /\ DigitsUpto(v, ip, NumOctets) /\ Number(ip) = v[NumOctets]
      /\ DigitsUpto(w, up, NumOctets) /\ Number(up) = w[NumOctets]
      /\ \A i \in 0 .. NumOctets : v[i] \in Nat /\ w[i] \in Nat
  BY <1>3, ValueSteps, ValueFits
<1>5. Number(up) \in 0 .. Space - 1 /\ Number(ip) \in 0 .. Space - 1 /\ Space \in Nat /\ Space = Span2(NumOctets)
  BY <1>3, NumberFits
<1> HIDE DEF up, v, w
<1>6. \A i \in Nat : i + 1 <= NumOctets =>
        /\ v[i + 1] = v[i] * Base + ip[i + 1] /\ w[i + 1] = w[i] * Base + up[i + 1]
        /\ v[i] \in Nat /\ w[i] \in Nat /\ ip[i + 1] \in 0 .. Base - 1
        /\ TopFrom(i) <=> TopFrom(i + 1) /\ ip[i + 1] = Top
        /\ i + 1 \in 1 .. NumOctets
  <2> SUFFICES ASSUME NEW i \in Nat, i + 1 <= NumOctets
               PROVE  /\ v[i + 1] = v[i] * Base + ip[i + 1] /\ w[i + 1] = w[i] * Base + up[i + 1]
                      /\ v[i] \in Nat /\ w[i] \in Nat /\ ip[i + 1] \in 0 .. Base - 1
                      /\ TopFrom(i) <=> TopFrom(i + 1) /\ ip[i + 1] = Top
                      /\ i + 1 \in 1 .. NumOctets
    OBVIOUS
  <2>1. i + 1 \in 1 .. NumOctets /\ i \in 0 .. NumOctets /\ (i + 1) - 1 = i
    BY BaseIsBig
  <2>2. TopFrom(i) <=> TopFrom(i + 1) /\ ip[i + 1] = Top
    <3>1. i + 1 .. NumOctets = (i + 1 + 1 .. NumOctets) \cup {i + 1}
      BY <2>1
    <3> QED BY <3>1
  <2> QED BY <2>1, <2>2, <1>1, <1>4 DEF DigitsUpto
<1>7. v[0] = 0 /\ w[0] = 0
  BY <1>4 DEF DigitsUpto
<1>8. CASE TopFrom(0)
  <2>1. \A i \in 1 .. NumOctets : ip[i] = Top /\ TopFrom(i)
    BY <1>8, BaseIsBig
  <2>2. \A i \in 1 .. NumOctets : ip[i] = Top /\ up[i] = 0
    BY <2>1, <1>2
  <2> HIDE DEF TopFrom
  <2> DEFINE P == {i \in Nat : i <= NumOctets => v[i] = Span2(i) - 1 /\ w[i] = 0}
  <2>3. 0 \in P
    BY <1>7, SpanSteps
  <2>4. ASSUME NEW i \in P PROVE i + 1 \in P
    <3> SUFFICES ASSUME i + 1 <= NumOctets PROVE v[i + 1] = Span2(i + 1) - 1 /\ w[i + 1] = 0
      BY <2>4
    <3>1. i \in Nat /\ v[i] = Span2(i) - 1 /\ w[i] = 0 /\ Span2(i) \in Nat
      BY <2>4, BaseIsBig, SpanSteps
    <3>2. v[i + 1] = (Span2(i) - 1) * Base + (Base - 1) /\ w[i + 1] = 0 * Base + 0
      BY <1>6, <2>2, <3>1, BaseIsBig
    <3>3. (Span2(i) - 1) * Base = Span2(i) * Base - Base /\ Span2(i) * Base \in Nat
      BY <3>1, BaseIsBig
    <3> QED BY <3>1, <3>2, <3>3, SpanSteps, BaseIsBig
  <2> HIDE DEF P
  <2>5. \A i \in Nat : i \in P
    BY <2>3, <2>4, SetInduction DEF P
  <2>6. v[NumOctets] = Span2(NumOctets) - 1 /\ w[NumOctets] = 0
    BY <2>5, BaseIsBig DEF P
  <2> QED BY <1>3, <1>4, <1>5, <2>6 DEF up
<1>9. CASE ~TopFrom(0)
  <2> DEFINE P == {i \in Nat : i <= NumOctets => w[i] = v[i] + (IF TopFrom(i) THEN 1 ELSE 0)}
  <2>1. 0 \in P
    BY <1>7, <1>9
  <2>2. ASSUME NEW i \in P PROVE i + 1 \in P
    <3> SUFFICES ASSUME i + 1 <= NumOctets
                 PROVE  w[i + 1] = v[i + 1] + (IF TopFrom(i + 1) THEN 1 ELSE 0)
      BY <2>2
    <3>1. i \in Nat /\ w[i] = v[i] + (IF TopFrom(i) THEN 1 ELSE 0)
      BY <2>2, BaseIsBig
    <3>2. /\ v[i + 1] = v[i] * Base + ip[i + 1] /\ w[i + 1] = w[i] * Base + up[i + 1]
          /\ v[i] \in Nat /\ w[i] \in Nat /\ ip[i + 1] \in 0 .. Base - 1
          /\ TopFrom(i) <=> TopFrom(i + 1) /\ ip[i + 1] = Top
      BY <1>6, <3>1
    <3>3. up[i + 1] = IF TopFrom(i + 1) THEN (IF ip[i + 1] = Top THEN 0 ELSE ip[i + 1] + 1)
                                        ELSE ip[i + 1]
      BY <1>2, <1>6, <3>1
    <3> HIDE DEF TopFrom
    <3>4. (v[i] + 1) * Base = v[i] * Base + Base /\ v[i] * Base \in Nat
      BY <3>2, BaseIsBig
    <3>5. CASE TopFrom(i)
      <4>1. w[i] = v[i] + 1
        BY <3>1, <3>2, <3>5
      <4>2. w[i] * Base = v[i] * Base + Base
        BY <3>4, <4>1
      <4>3. TopFrom(i + 1) /\ ip[i + 1] = Base - 1 /\ up[i + 1] = 0
        BY <3>2, <3>3, <3>5, BaseIsBig
      <4>4. w[i + 1] = v[i] * Base + Base /\ v[i + 1] = v[i] * Base + (Base - 1)
        BY <3>2, <4>2, <4>3, <3>4, BaseIsBig
      <4>5. w[i + 1] = v[i + 1] + 1
        BY <4>4, <3>4, BaseIsBig
      <4> QED BY <4>3, <4>5
    <3>6. CASE ~TopFrom(i)
      <4>1. w[i] = v[i]
        BY <3>1, <3>2, <3>6
      <4> QED BY <4>1, <3>2, <3>3, <3>4, <3>6, BaseIsBig
    <3> QED BY <3>5, <3>6
  <2> HIDE DEF P
  <2>3. \A i \in Nat : i \in P
    BY <2>1, <2>2, SetInduction DEF P
  <2>4. w[NumOctets] = v[NumOctets] + 1
    BY <2>3, BaseIsBig DEF P
  <2> QED BY <1>3, <1>4, <1>5, <2>4 DEF up
<1> QED BY <1>8, <1>9

-----------------------------------------------------------------------------
(* Networks.                                                                *)

LEMMA Division ==
  ASSUME NEW n \in Nat, NEW s \in Nat \ {0}
  PROVE  n % s \in 0 .. s - 1 /\ n \div s \in Nat /\ n = (n \div s) * s + (n % s)
<1>1. n % s \in 0 .. s - 1
  OBVIOUS
<1>2. n \div s \in Nat
  OBVIOUS
<1>3. n = (n \div s) * s + (n % s)
  OBVIOUS
<1> QED BY <1>1, <1>2, <1>3

\* What is left of a number when its last digits are cut off.
LEMMA RestIsKnown ==
  ASSUME NEW q \in Nat, NEW s \in Nat \ {0}, NEW r \in 0 .. s - 1
  PROVE  (q * s + r) % s = r /\ (q * s + r) - ((q * s + r) % s) = q * s /\ q * s \in Nat
<1>1. q * s \in Nat
  OBVIOUS
<1> DEFINE n == q * s + r
<1>2. n \in Nat /\ n = q * s + r
  BY <1>1
<1> HIDE DEF n
<1>3. n % s = r
  BY <1>2
<1> QED BY <1>1, <1>2, <1>3 DEF n

\* The bits behind the prefix in the first i octets.
Cut(i, ones) == IF i * OctetBits <= ones THEN 0 ELSE i * OctetBits - ones

LEMMA CutSteps ==
  ASSUME NEW ones \in 0 .. Bits, NEW i \in 0 .. NumOctets - 1
  PROVE  /\ Kept(i + 1, ones) \in 0 .. OctetBits /\ Cut(i, ones) \in Nat
         /\ Cut(i + 1, ones) = Cut(i, ones) + (OctetBits - Kept(i + 1, ones))
         /\ Cut(i, ones) = 0 \/ Kept(i + 1, ones) = 0
<1>1. /\ i \in Nat /\ i * OctetBits \in Nat /\ (i + 1) * OctetBits = i * OctetBits + OctetBits
      /\ ((i + 1) - 1) * OctetBits = i * OctetBits
      /\ OctetBits \in Nat \ {0} /\ ones \in Nat
  BY AddressAssumption DEF Bits
<1> DEFINE b == i * OctetBits
<1>2. Kept(i + 1, ones) = IF ones <= b THEN 0 ELSE IF ones >= b + OctetBits THEN OctetBits ELSE ones - b
  BY <1>1 DEF Kept
<1>3. /\ Cut(i, ones) = IF b <= ones THEN 0 ELSE b - ones
      /\ Cut(i + 1, ones) = IF b + OctetBits <= ones THEN 0 ELSE b + OctetBits - ones
  BY <1>1 DEF Cut
<1>4. b \in Nat
  BY <1>1
<1> HIDE DEF b
<1> QED BY <1>1, <1>2, <1>3, <1>4

\* An octet is the part of it that is kept and a rest; with all its bits it is
\* kept, without any it is the rest.
LEMMA OctetIsCut ==
  ASSUME NEW k \in 0 .. OctetBits, NEW d \in 0 .. Base - 1
  PROVE  LET w == Pow2[OctetBits - k] IN
         /\ w \in Nat \ {0} /\ Base = Pow2[k] * w /\ Pow2[k] \in Nat
         /\ d - (d % w) \in 0 .. Base - 1
         /\ \E e \in Nat, r \in 0 .. w - 1 : d = e * w + r /\ d - (d % w) = e * w
         /\ k = 0 => w = Base /\ d - (d % w) = 0
<1> DEFINE w == Pow2[OctetBits - k]
<1>1. /\ k \in Nat /\ OctetBits - k \in Nat /\ k + (OctetBits - k) = OctetBits
      /\ k = 0 => OctetBits - k = OctetBits
  BY BaseIsBig
<1>2. /\ w \in Nat \ {0} /\ Base = Pow2[k] * w /\ Pow2[k] \in Nat
      /\ k = 0 => w = Base
  BY <1>1, Pow2Values, Pow2Adds DEF Base
<1> HIDE DEF w
<1>3. PICK e \in Nat, r \in 0 .. w - 1 : d = e * w + r /\ d % w = r
  <2>1. d \in Nat
    BY BaseIsBig
  <2> QED BY <1>2, <2>1, Division
<1>4. w \in Nat /\ r \in Nat /\ d \in Nat /\ e * w \in Nat /\ d = e * w + r /\ d - (d % w) = e * w
  <2>1. e * w \in Nat /\ w \in Nat /\ r \in Nat
    BY <1>2, <1>3
  <2> DEFINE x == e * w
  <2>2. x \in Nat /\ d = x + r /\ d % w = r
    BY <1>3, <2>1
  <2> HIDE DEF x
  <2>3. d \in Nat /\ d - (d % w) = x
    BY <2>1, <2>2
  <2> QED BY <2>1, <2>2, <2>3 DEF x
<1>5. d - (d % w) \in 0 .. Base - 1
  <2> DEFINE x == e * w
  <2>1. x \in Nat /\ d = x + r /\ d - (d % w) = x
    BY <1>4
  <2> HIDE DEF x
  <2> QED BY <1>4, <2>1, BaseIsBig
<1>6. ASSUME k = 0 PROVE d - (d % w) = 0
  <2>1. w = Base /\ d < w
    BY <1>2, <1>6, BaseIsBig
  <2>2. e = 0
    <3>1. CASE e >= 1
      <4>1. e * w >= w
        BY <1>2, <3>1
      <4>2. d >= e * w
        BY <1>4
      <4> QED BY <1>4, <2>1, <4>1, <4>2
    <3> QED BY <3>1, <1>3
  <2> QED BY <1>2, <1>4, <2>2
<1> QED BY <1>2, <1>3, <1>4, <1>5, <1>6 DEF w

\* A number n = q * s + r and an octet d = e * w + f behind it, one of which is
\* cut off as a whole or not at all.
Halves(q, s, r, g, w, e, f, d) ==
  /\ q \in Nat /\ s \in Nat \ {0} /\ r \in 0 .. s - 1
  /\ g \in Nat /\ w \in Nat \ {0} /\ Base = g * w
  /\ e \in Nat /\ f \in 0 .. w - 1 /\ d \in 0 .. Base - 1 /\ d = e * w + f
  /\ \/ s = 1
     \/ g = 1 /\ e = 0

\* With the octet behind it the number is one of blocks of s * w.
LEMMA OctetIsAdded ==
  ASSUME NEW q, NEW s, NEW r, NEW g, NEW w, NEW e, NEW f, NEW d,
         Halves(q, s, r, g, w, e, f, d)
  PROVE  \E q2 \in Nat, r2 \in 0 .. (s * w) - 1 :
           /\ (q * s + r) * Base + d = q2 * (s * w) + r2
           /\ (q * s) * Base + e * w = q2 * (s * w)
<1> q \in Nat /\ s \in Nat \ {0} /\ r \in 0 .. s - 1 /\ g \in Nat /\ w \in Nat \ {0}
  BY DEF Halves
<1> Base = g * w /\ e \in Nat /\ f \in 0 .. w - 1 /\ d \in 0 .. Base - 1 /\ d = e * w + f
  BY DEF Halves
<1> s = 1 \/ (g = 1 /\ e = 0)
  BY DEF Halves
<1>0. w \in Nat /\ s \in Nat /\ r \in Nat /\ f \in Nat /\ Base \in Nat /\ d \in Nat /\ s * w \in Nat
  BY BaseIsBig
<1>1. CASE s = 1
  <2>1. r = 0
    BY <1>1
  <2>2. q * g + e \in Nat
    <3>1. q * g \in Nat
      OBVIOUS
    <3> QED BY <3>1
  <2>3. (q * g + e) * w = q * (g * w) + e * w
    BY <1>0
  <2>4. (q * s + r) * Base + d = (q * g + e) * w + f
    <3>1. q * s + r = q
      BY <1>1, <2>1
    <3>2. q * (g * w) \in Nat /\ e * w \in Nat
      <4>1. g * w \in Nat
        BY <1>0
      <4> QED BY <1>0, <4>1
    <3>3. (q * g + e) * w + f = q * (g * w) + d
      <4> DEFINE x == q * (g * w)
                 y == e * w
                 z == (q * g + e) * w
      <4>1. x \in Nat /\ y \in Nat /\ z = x + y /\ d = y + f
        BY <3>2, <2>3
      <4> HIDE DEF x, y, z
      <4>2. z + f = x + d
        BY <1>0, <4>1
      <4> QED BY <4>2 DEF x, z
    <3> QED BY <3>1, <3>3
  <2>5. (q * s) * Base + e * w = (q * g + e) * w
    BY <1>1, <2>3
  <2>6. s * w = w
    BY <1>0, <1>1
  <2> QED BY <2>2, <2>4, <2>5, <2>6
<1>2. CASE g = 1 /\ e = 0
  <2>1. w = Base /\ d = f /\ e * w = 0
    BY <1>0, <1>2
  <2>2. r * Base + d \in 0 .. (s * Base) - 1
    <3>1. r < s /\ d \in 0 .. Base - 1
      BY <1>0
    <3>2. r * Base + d \in Nat /\ r * Base + d < s * Base
      BY <1>0, <3>1, DigitFits
    <3>3. s * Base \in Nat
      BY <1>0
    <3> QED BY <3>2, <3>3
  <2>3. (q * s + r) * Base = q * (s * Base) + r * Base
    BY <1>0
  <2>4. q * (s * Base) \in Nat /\ r * Base \in Nat /\ (q * s) * Base = q * (s * Base)
    <3>1. s * Base \in Nat
      BY <1>0
    <3>2. q * (s * Base) \in Nat /\ r * Base \in Nat
      BY <1>0, <3>1
    <3>3. (q * s) * Base = q * (s * Base)
      BY <1>0
    <3> QED BY <3>2, <3>3
  <2>5. (q * s + r) * Base + d = q * (s * Base) + (r * Base + d)
    <3> DEFINE x == (q * s + r) * Base
               y == q * (s * Base)
               z == r * Base
    <3>1. x = y + z /\ y \in Nat /\ z \in Nat
      BY <2>3, <2>4
    <3> HIDE DEF x, y, z
    <3>2. x + d = y + (z + d)
      BY <1>0, <3>1
    <3> QED BY <3>2 DEF x, y, z
  <2>6. (q * s) * Base + e * w = q * (s * Base)
    BY <2>1, <2>4
  <2> QED BY <2>1, <2>2, <2>5, <2>6
<1> QED BY <1>1, <1>2

\* ip.Mask gives the first address of the block.
LEMMA MaskIsBlock ==
  ASSUME NEW ip \in Address, NEW ones \in 0 .. Bits
  PROVE  LET size == Pow2[Bits - ones] IN
         /\ Masked(ip, ones) \in Address
         /\ size \in Nat \ {0} /\ Space = Pow2[ones] * size
         /\ Pow2[ones] \in Nat
         /\ Number(Masked(ip, ones)) = Number(ip) - (Number(ip) % size)
<1> DEFINE m == Masked(ip, ones)
           v == ValueOf(ip)
           w == ValueOf(m)
           S(i) == Pow2[Cut(i, ones)]
           size == Pow2[Bits - ones]
           K(i) == Kept(i + 1, ones)
           W(i) == Pow2[OctetBits - K(i)]
<1>1. ASSUME NEW i \in 0 .. NumOctets - 1
      PROVE  /\ i + 1 \in 1 .. NumOctets /\ ip[i + 1] \in 0 .. Base - 1
             /\ K(i) \in 0 .. OctetBits
             /\ m[i + 1] = ip[i + 1] - (ip[i + 1] % W(i))
  <2>1. i + 1 \in 1 .. NumOctets
    BY BaseIsBig
  <2>2. ip[i + 1] \in 0 .. Base - 1
    BY <2>1, BaseIsBig DEF Address
  <2>3. K(i) \in 0 .. OctetBits
    BY CutSteps
  <2> QED BY <2>1, <2>2, <2>3 DEF Masked
<1>2. m \in Address
  <2>1. m = [i \in 1 .. NumOctets |-> m[i]]
    BY DEF Masked
  <2>2. ASSUME NEW j \in 1 .. NumOctets PROVE m[j] \in Octet
    <3>1. j - 1 \in 0 .. NumOctets - 1 /\ (j - 1) + 1 = j
      BY BaseIsBig
    <3>2. /\ ip[(j - 1) + 1] \in 0 .. Base - 1 /\ K(j - 1) \in 0 .. OctetBits
          /\ m[(j - 1) + 1] = ip[(j - 1) + 1] - (ip[(j - 1) + 1] % W(j - 1))
      BY <1>1, <3>1
    <3>3. m[(j - 1) + 1] \in 0 .. Base - 1
      BY <3>2, OctetIsCut
    <3> QED BY <3>1, <3>3, BaseIsBig
  <2> HIDE DEF m
  <2> QED BY <2>1, <2>2 DEF Address
<1>3. /\ DigitsUpto(v, ip, NumOctets) /\ Number(ip) = v[NumOctets]
      /\ DigitsUpto(w, m, NumOctets) /\ Number(m) = w[NumOctets]
  BY ValueSteps
<1> HIDE DEF m, v, w
<1> DEFINE P == {i \in Nat : i <= NumOctets =>
                   \E q \in Nat, r \in 0 .. S(i) - 1 : v[i] = q * S(i) + r /\ w[i] = q * S(i)}
<1>4. 0 \in P
  <2>1. Cut(0, ones) = 0
    BY AddressAssumption DEF Cut, Bits
  <2>2. S(0) = 1
    BY <2>1, Pow2Values
  <2>3. v[0] = 0 * S(0) + 0 /\ w[0] = 0 * S(0)
    BY <1>3, <2>2 DEF DigitsUpto
  <2> QED BY <2>2, <2>3
<1>5. ASSUME NEW i \in P PROVE i + 1 \in P
  <2> SUFFICES ASSUME i + 1 <= NumOctets
               PROVE  \E q \in Nat, r \in 0 .. S(i + 1) - 1 : v[i + 1] = q * S(i + 1) + r /\ w[i + 1] = q * S(i + 1)
    BY <1>5
  <2>1. i \in 0 .. NumOctets - 1 /\ i <= NumOctets
    BY <1>5, BaseIsBig
  <2> DEFINE d == ip[i + 1]
             u == W(i)
             s == S(i)
             g == Pow2[K(i)]
  <2>2. PICK q \in Nat, r \in 0 .. s - 1 : v[i] = q * s + r /\ w[i] = q * s
    BY <1>5, <2>1
  <2>3. /\ v[i + 1] = v[i] * Base + d /\ w[i + 1] = w[i] * Base + m[i + 1]
    <3>1. i + 1 \in 1 .. NumOctets /\ (i + 1) - 1 = i
      BY <2>1, BaseIsBig
    <3> QED BY <1>3, <3>1 DEF DigitsUpto
  <2>4. d \in 0 .. Base - 1 /\ K(i) \in 0 .. OctetBits /\ m[i + 1] = d - (d % u)
    BY <1>1, <2>1
  <2>5. /\ Cut(i, ones) \in Nat /\ Cut(i + 1, ones) = Cut(i, ones) + (OctetBits - K(i))
        /\ Cut(i, ones) = 0 \/ K(i) = 0
        /\ OctetBits - K(i) \in Nat
    BY <2>1, <2>4, CutSteps, BaseIsBig
  <2>6. /\ u \in Nat \ {0} /\ Base = g * u /\ g \in Nat
        /\ \E e \in Nat, f \in 0 .. u - 1 : d = e * u + f /\ d - (d % u) = e * u
        /\ K(i) = 0 => u = Base /\ d - (d % u) = 0
    BY <2>4, OctetIsCut
  <2>7. S(i + 1) = s * u /\ s \in Nat \ {0}
    <3> DEFINE x == Cut(i, ones)
               y == OctetBits - K(i)
    <3>1. x \in Nat /\ y \in Nat /\ Cut(i + 1, ones) = x + y
      BY <2>5
    <3> HIDE DEF x, y
    <3>2. Pow2[x + y] = Pow2[x] * Pow2[y] /\ Pow2[x] \in Nat \ {0}
      BY <3>1, Pow2Adds, Pow2Values
    <3>3. S(i + 1) = Pow2[x + y]
      BY <3>1
    <3> QED BY <3>2, <3>3 DEF x, y
  <2>8. PICK e \in Nat, f \in 0 .. u - 1 : d = e * u + f /\ d - (d % u) = e * u
    BY <2>6
  <2>9. s = 1 \/ (g = 1 /\ e = 0)
    <3>1. CASE Cut(i, ones) = 0
      BY <3>1, Pow2Values
    <3>2. CASE K(i) = 0
      <4>1. g = 1 /\ e * u = 0
        BY <3>2, <2>6, <2>8, Pow2Values
      <4>2. u \in Nat \ {0}
        BY <2>6
      <4> HIDE DEF u
      <4>3. e = 0
        BY <4>1, <4>2
      <4> QED BY <4>1, <4>3
    <3> QED BY <2>5, <3>1, <3>2
  <2> HIDE DEF d, u, s, g
  <2>12. /\ d = e * u + f /\ d \in 0 .. Base - 1
         /\ s \in Nat \ {0} /\ u \in Nat \ {0} /\ g \in Nat /\ Base = g * u
         /\ q \in Nat /\ r \in 0 .. s - 1 /\ e \in Nat /\ f \in 0 .. u - 1
    BY <2>2, <2>4, <2>6, <2>7, <2>8
  <2>13. Halves(q, s, r, g, u, e, f, d)
    BY <2>9, <2>12 DEF Halves
  <2>10. \E q2 \in Nat, r2 \in 0 .. (s * u) - 1 :
           /\ (q * s + r) * Base + d = q2 * (s * u) + r2
           /\ (q * s) * Base + e * u = q2 * (s * u)
    BY <2>13, OctetIsAdded
  <2>11. v[i + 1] = (q * s + r) * Base + d /\ w[i + 1] = (q * s) * Base + e * u
    BY <2>2, <2>3, <2>4, <2>8
  <2> QED BY <2>7, <2>10, <2>11
<1> HIDE DEF P
<1>6. \A i \in Nat : i \in P
  BY <1>4, <1>5, SetInduction DEF P
<1>7. S(NumOctets) = size
  <2>1. Cut(NumOctets, ones) = Bits - ones
    BY AddressAssumption DEF Cut, Bits
  <2> QED BY <2>1
<1>8. size \in Nat \ {0} /\ Space = Pow2[ones] * size /\ Pow2[ones] \in Nat
  <2>1. Bits \in Nat /\ ones \in Nat /\ Bits - ones \in Nat /\ ones + (Bits - ones) = Bits
    BY AddressAssumption DEF Bits
  <2> QED BY <2>1, Pow2Values, Pow2Adds DEF Space
<1> HIDE DEF size, S
<1>9. PICK q \in Nat, r \in 0 .. size - 1 : Number(ip) = q * size + r /\ Number(m) = q * size
  BY <1>3, <1>6, <1>7, BaseIsBig DEF P
<1>10. Number(m) = Number(ip) - (Number(ip) % size)
  BY <1>8, <1>9, RestIsKnown
<1> QED BY <1>2, <1>8, <1>10 DEF m, size

\* The network of the field: how many addresses it has, and the first of them.
NetSize == Pow2[Bits - input.ones]
NetLow  == Number(input.ip) - (Number(input.ip) % NetSize)

\* Two numbers have the same first number of their block just if one is in the
\* block of the other.
LEMMA BlocksAreDisjoint ==
  ASSUME NEW s \in Nat \ {0}, NEW n \in Nat, NEW k \in Nat
  PROVE  /\ n - (n % s) \in Nat
         /\ k - (k % s) = n - (n % s) <=> k \in (n - (n % s)) .. (n - (n % s)) + s - 1
<1>1. PICK q \in Nat, r \in 0 .. s - 1 : n = q * s + r /\ n % s = r
  BY Division
<1>2. n - (n % s) = q * s /\ q * s \in Nat
  BY <1>1, RestIsKnown
<1>3. PICK p \in Nat, t \in 0 .. s - 1 : k = p * s + t /\ k % s = t
  BY Division
<1>4. k - (k % s) = p * s /\ p * s \in Nat
  BY <1>3, RestIsKnown
<1> DEFINE x == q * s
           y == p * s
<1>5. /\ n - (n % s) = x /\ x \in Nat
      /\ k - (k % s) = y /\ y \in Nat
      /\ k = y + t
  BY <1>2, <1>3, <1>4
<1>6. ASSUME k \in x .. x + s - 1 PROVE k - (k % s) = x
  <2>1. k - x \in 0 .. s - 1 /\ k = q * s + (k - x)
    <3> x \in Nat /\ x = q * s
      BY <1>2
    <3> HIDE DEF x
    <3>1. k - x \in 0 .. s - 1 /\ k = x + (k - x)
      BY <1>6
    <3> QED BY <3>1
  <2> DEFINE d == k - x
  <2>2. d \in 0 .. s - 1 /\ k = q * s + d
    BY <2>1
  <2> HIDE DEF d
  <2>3. k - (k % s) = q * s
    BY <2>2, RestIsKnown
  <2> QED BY <2>3
<1> HIDE DEF x, y
<1> QED BY <1>5, <1>6

LEMMA NetworkIsBlock ==
  ASSUME input \in TargetField, input.form = "cidr"
  PROVE  /\ NetSize \in Nat \ {0} /\ NetLow \in Nat /\ NetLow + NetSize <= Space
         /\ Masked(input.ip, input.ones) \in Address
         /\ Number(Masked(input.ip, input.ones)) = NetLow
         /\ \A ip \in Address : InNetwork(ip) <=> Number(ip) \in NetLow .. NetLow + NetSize - 1
         /\ input.ones = 0 => \A ip \in Address : InNetwork(ip)
         /\ input.ones # 0 => NetSize < Space
         /\ NetSize > 2 <=> Bits - input.ones > 1
<1>1. input.ip \in Address /\ input.ones \in 0 .. Bits /\ input.ones \in Nat /\ Bits \in Nat
  BY AddressAssumption DEF TargetField, NoNetwork, Bits
<1> DEFINE ones == input.ones
           p == Pow2[ones]
<1>2. /\ Masked(input.ip, ones) \in Address /\ NetSize \in Nat \ {0}
      /\ Space = p * NetSize /\ p \in Nat
      /\ \A ip \in Address : /\ Masked(ip, ones) \in Address
                             /\ Number(Masked(ip, ones)) = Number(ip) - (Number(ip) % NetSize)
  BY <1>1, MaskIsBlock DEF NetSize
<1>3. Space \in Nat /\ Space >= 1 /\ \A ip \in Address : Number(ip) \in 0 .. Space - 1 /\ Number(ip) \in Nat
  BY NumberFits
<1>4. NetLow \in Nat /\ Number(Masked(input.ip, ones)) = NetLow
  BY <1>1, <1>2, <1>3, BlocksAreDisjoint DEF NetLow
<1>5. ASSUME NEW ip \in Address
      PROVE  InNetwork(ip) <=> Number(ip) \in NetLow .. NetLow + NetSize - 1
  <2>1. InNetwork(ip) <=> Number(Masked(ip, ones)) = NetLow
    BY <1>1, <1>2, <1>4, NumbersCompare DEF InNetwork
  <2>2. Number(ip) \in Nat /\ Number(input.ip) \in Nat
    BY <1>1, <1>3
  <2>3. Number(ip) - (Number(ip) % NetSize) = NetLow <=> Number(ip) \in NetLow .. NetLow + NetSize - 1
    BY <1>2, <2>2, BlocksAreDisjoint DEF NetLow
  <2> QED BY <1>2, <2>1, <2>3
<1>6. NetLow + NetSize <= Space
  <2>1. PICK q \in Nat, r \in 0 .. NetSize - 1 : Number(input.ip) = q * NetSize + r /\ Number(input.ip) % NetSize = r
    BY <1>1, <1>2, <1>3, Division
  <2>2. NetLow = q * NetSize
    <3>1. (q * NetSize + r) - ((q * NetSize + r) % NetSize) = q * NetSize
      BY <1>2, RestIsKnown
    <3> QED BY <2>1, <3>1 DEF NetLow
  <2>3. q < p
    <3> SUFFICES ASSUME q >= p PROVE FALSE
      BY <1>2
    <3>1. PICK k \in Nat : q = p + k
      <4>1. q - p \in Nat /\ q = p + (q - p)
        BY <1>2
      <4> QED BY <4>1
    <3>2. q * NetSize = p * NetSize + k * NetSize /\ k * NetSize \in Nat
      BY <1>2, <3>1
    <3>3. NetLow >= Space
      <4> DEFINE x == q * NetSize
                 y == p * NetSize
                 z == k * NetSize
      <4>1. x = y + z /\ z \in Nat /\ NetLow = x /\ Space = y /\ Space \in Nat
        BY <1>2, <1>3, <2>2, <3>2
      <4> HIDE DEF x, y, z
      <4> QED BY <4>1
    <3>4. NetLow <= Number(input.ip)
      BY <1>1, <1>2, <1>3, <2>1 DEF NetLow
    <3> QED BY <1>1, <1>3, <1>4, <3>3, <3>4
  <2>4. NetSize - 1 \in 0 .. NetSize - 1 /\ NetSize \in Nat
    BY <1>2
  <2> HIDE DEF p
  <2>5. q * NetSize + (NetSize - 1) < p * NetSize
    BY <1>2, <2>3, <2>4, DigitFits
  <2> QED
    <3> DEFINE x == q * NetSize
               y == p * NetSize
    <3>1. x + (NetSize - 1) < y /\ NetLow = x /\ Space = y
      BY <1>2, <2>2, <2>5
    <3> HIDE DEF x, y
    <3> QED BY <1>3, <1>4, <2>4, <3>1
<1>7. ASSUME ones = 0 PROVE \A ip \in Address : InNetwork(ip)
  <2>1. NetSize = Space
    BY <1>1, <1>2, <1>7, Pow2Values
  <2>2. NetLow = 0
    BY <1>3, <1>4, <1>6, <2>1
  <2> QED BY <1>3, <1>5, <2>1, <2>2
<1>8. ASSUME ones # 0 PROVE NetSize < Space
  <2>1. ones - 1 \in Nat /\ ones = (ones - 1) + 1
    BY <1>1, <1>8
  <2>2. p = 2 * Pow2[ones - 1] /\ Pow2[ones - 1] \in Nat \ {0}
    <3> DEFINE k == ones - 1
    <3>1. k \in Nat /\ ones = k + 1
      BY <2>1
    <3> HIDE DEF k
    <3>2. Pow2[ones] = 2 * Pow2[k] /\ Pow2[k] \in Nat \ {0}
      BY <3>1, Pow2Values
    <3> QED BY <3>2 DEF k
  <2>3. p >= 2
    BY <2>2
  <2>4. NetSize \in Nat /\ 1 * NetSize = NetSize /\ NetSize >= 1
    BY <1>2
  <2> HIDE DEF p
  <2>5. 1 * NetSize + 0 < p * NetSize
    BY <1>2, <2>3, <2>4, DigitFits
  <2> QED BY <1>2, <2>4, <2>5
<1>9. NetSize > 2 <=> Bits - ones > 1
  <2> DEFINE b == Bits - ones
  <2>1. b \in Nat /\ NetSize = Pow2[b]
    BY <1>1 DEF NetSize
  <2> HIDE DEF b
  <2>2. Pow2[0] = 1 /\ Pow2[0 + 1] = 2 * Pow2[0]
    BY Pow2Values
  <2>3. ASSUME b > 1 PROVE Pow2[b] > 2
    <3> DEFINE k == b - 2
    <3>1. k \in Nat /\ b = (k + 1) + 1 /\ k + 1 \in Nat
      BY <2>1, <2>3
    <3> HIDE DEF k
    <3>2. Pow2[b] = 2 * Pow2[k + 1] /\ Pow2[k + 1] = 2 * Pow2[k] /\ Pow2[k] \in Nat \ {0}
      BY <3>1, Pow2Values
    <3> QED BY <3>2
  <2>4. b = 0 \/ b = 1 \/ b > 1
    BY <2>1
  <2>5. b > 1 <=> Pow2[b] > 2
    BY <2>2, <2>3, <2>4
  <2> QED BY <2>1, <2>5 DEF b
<1> QED BY <1>2, <1>4, <1>5, <1>6, <1>7, <1>8, <1>9

-----------------------------------------------------------------------------
(* The lists of addresses.                                                  *)

\* Counting on from an address ends at the top of the space and starts again.
Wrap(n) == IF n < Space THEN n ELSE n - Space

\* The list counts on from the number lo, and holds no address twice.
CountsFrom(lo) ==
  /\ lo \in 0 .. Space - 1
  /\ Len(ips) <= Space
  /\ \A i \in 1 .. Len(ips) : Number(ips[i]) = Wrap(lo + i - 1)

\* Where the list of a network and of a range is, while it is built.
NetworkSoFar ==
  /\ CountsFrom(NetLow)
  /\ Len(ips) <= NetSize
  /\ Number(curr) = Wrap(NetLow + Len(ips))
RangeSoFar ==
  LET lo == Number(input.ip) IN
  /\ CountsFrom(lo)
  /\ Len(ips) < Space
  /\ Number(curr) = Wrap(lo + Len(ips))
  /\ Len(ips) > 0 => /\ Number(curr) <= Number(RangeEnd)
                     /\ lo # Space - 1 => lo + Len(ips) < Space
                     /\ lo = Space - 1 => Number(RangeEnd) < lo

TargetsInv ==
  /\ input \in TargetField
  /\ targetPc \in {"parse", "cidr", "range", "lookup", "done", "error"}
  /\ curr \in Address /\ ips \in Seq(Address) /\ Len(ips) <= MaxIps
  /\ targetPc \in {"parse", "lookup"} => ips = <<>>
  /\ targetPc = "lookup" => input.form = "host"
  /\ targetPc = "cidr" => input.form = "cidr" /\ (input.ones # 0 => NetworkSoFar)
  /\ targetPc = "range" => input.form \in {"range", "suffix"} /\ RangeSoFar
  /\ targetPc = "done" => TargetsAreExact
  /\ targetPc = "done" /\ input.form # "host" => \E lo \in 0 .. Space - 1 : CountsFrom(lo)

LEMMA WrapSteps ==
  ASSUME NEW lo \in 0 .. Space - 1, NEW k \in Nat, k < Space
  PROVE  /\ (IF Wrap(lo + k) = Space - 1 THEN 0 ELSE Wrap(lo + k) + 1) = Wrap(lo + (k + 1))
         /\ Wrap(lo) = lo
         /\ lo + k < Space => Wrap(lo + k) = lo + k
         /\ Wrap(lo + k) \in 0 .. Space - 1
BY NumberFits DEF Wrap

LEMMA FieldHasAddresses ==
  ASSUME input \in TargetField
  PROVE  /\ input.form \in {"cidr", "range", "suffix", "single", "host", "nonetwork"}
         /\ input.form \in {"cidr", "range", "suffix", "single"} => input.ip \in Address
         /\ input.form = "cidr" => input.ones \in 0 .. Bits /\ Bits \in Nat
         /\ input.form \in {"range", "suffix"} => RangeEnd \in Address
<1>1. Bits \in Nat
  BY AddressAssumption DEF Bits
<1>2. ASSUME input.form \in {"range", "suffix"} PROVE RangeEnd \in Address
  BY <1>2, AddressAssumption DEF RangeEnd, TargetField, NoNetwork, Address
<1> QED BY <1>1, <1>2 DEF TargetField, NoNetwork

\* A list that counts is an interval, written as the properties write it.
LEMMA CountedIsInterval ==
  ASSUME NEW s \in Seq(Address), NEW lo \in Nat, NEW hi \in Nat, Len(s) = hi + 1 - lo,
         \A i \in 1 .. Len(s) : Number(s[i]) = lo + i - 1
  PROVE  [i \in 1 .. Len(s) |-> Number(s[i])] = From(lo, hi)
<1>1. [i \in 1 .. Len(s) |-> Number(s[i])] = [i \in 1 .. Len(s) |-> lo + i - 1]
  OBVIOUS
<1> QED BY <1>1 DEF From

LEMMA AppendCounts ==
  ASSUME NEW lo, CountsFrom(lo), ips \in Seq(Address), curr \in Address,
         Number(curr) = Wrap(lo + Len(ips)), Len(ips) < Space, ips' = Append(ips, curr)
  PROVE  /\ CountsFrom(lo)' /\ ips' \in Seq(Address) /\ Len(ips') = Len(ips) + 1
         /\ incrementIP(curr) \in Address
         /\ Number(incrementIP(curr)) = Wrap(lo + (Len(ips) + 1))
<1>1. Len(ips) \in Nat /\ Space \in Nat /\ lo \in 0 .. Space - 1 /\ lo \in Nat
  BY NumberFits DEF CountsFrom
<1>2. ips' \in Seq(Address) /\ Len(ips') = Len(ips) + 1
  OBVIOUS
<1>3. ASSUME NEW i \in 1 .. Len(ips') PROVE Number(ips'[i]) = Wrap(lo + i - 1)
  <2>1. CASE i \in 1 .. Len(ips)
    <3>1. ips'[i] = ips[i]
      BY <2>1
    <3> QED BY <2>1, <3>1 DEF CountsFrom
  <2>2. CASE i = Len(ips) + 1
    <3>1. ips'[i] = curr /\ lo + i - 1 = lo + Len(ips)
      BY <1>1, <2>2
    <3> QED BY <3>1
  <2> QED BY <1>1, <1>2, <2>1, <2>2
<1>4. CountsFrom(lo)'
  BY <1>1, <1>2, <1>3 DEF CountsFrom
<1>5. /\ incrementIP(curr) \in Address
      /\ Number(incrementIP(curr)) = IF Number(curr) = Space - 1 THEN 0 ELSE Number(curr) + 1
  BY IncrementIsNext
<1> QED BY <1>1, <1>2, <1>4, <1>5, WrapSteps

LEMMA ParseTargetsKeeps == TargetsInv /\ ParseTargets => TargetsInv'
<1> SUFFICES ASSUME TargetsInv, ParseTargets PROVE TargetsInv'
  OBVIOUS
<1>1. /\ input \in TargetField /\ targetPc = "parse" /\ curr \in Address
      /\ ips = <<>> /\ input' = input /\ MaxIps \in Nat \ {0}
  BY MaxIpsAssumption DEF TargetsInv, ParseTargets
<1>2. Space \in Nat /\ Space >= 1 /\ \A ip \in Address : Number(ip) \in 0 .. Space - 1
  BY NumberFits
<1>3. CASE input.form = "cidr"
  <2>1. targetPc' = "cidr" /\ curr' = Masked(input.ip, input.ones) /\ ips' = <<>>
    BY <1>1, <1>3 DEF ParseTargets
  <2>2. /\ NetSize \in Nat \ {0} /\ NetLow \in Nat /\ NetLow + NetSize <= Space
        /\ curr' \in Address /\ Number(curr') = NetLow
    BY <1>1, <1>3, <2>1, NetworkIsBlock
  <2>3. NetSize' = NetSize /\ NetLow' = NetLow
    BY <1>1 DEF NetSize, NetLow
  <2>4. NetworkSoFar'
    BY <1>2, <2>1, <2>2, <2>3 DEF NetworkSoFar, CountsFrom, Wrap
  <2> QED BY <1>1, <1>3, <2>1, <2>2, <2>4 DEF TargetsInv
<1>4. CASE input.form \in {"range", "suffix"}
  <2>1. targetPc' = "range" /\ curr' = input.ip /\ ips' = <<>>
    BY <1>1, <1>4 DEF ParseTargets
  <2>2. input.ip \in Address
    BY <1>1, <1>4, FieldHasAddresses
  <2>3. RangeSoFar'
    BY <1>1, <1>2, <2>1, <2>2 DEF RangeSoFar, CountsFrom, Wrap
  <2> QED BY <1>1, <1>4, <2>1, <2>2, <2>3 DEF TargetsInv
<1>5. CASE input.form = "single"
  <2>1. targetPc' = "done" /\ ips' = <<input.ip>> /\ curr' = curr
    BY <1>1, <1>5 DEF ParseTargets
  <2>2. input.ip \in Address /\ Len(ips') = 1 /\ ips' \in Seq(Address) /\ ips'[1] = input.ip
    BY <1>1, <1>5, <2>1, FieldHasAddresses
  <2>3. CountsFrom(Number(input.ip))'
    BY <1>1, <1>2, <2>2 DEF CountsFrom, Wrap
  <2>4. TargetsAreExact'
    BY <1>1, <1>5 DEF TargetsAreExact, CidrIsBlock, RangeIsInterval
  <2>5. \E lo \in 0 .. Space - 1 : CountsFrom(lo)'
    BY <1>1, <1>2, <2>2, <2>3
  <2> QED BY <1>1, <2>1, <2>2, <2>4, <2>5 DEF TargetsInv
<1>6. CASE input.form \in {"host", "nonetwork"}
  <2>1. /\ targetPc' \in {"error", "lookup"} /\ curr' = curr /\ ips' = ips
        /\ targetPc' = "lookup" => input.form = "host"
    BY <1>1, <1>6 DEF ParseTargets
  <2> QED BY <1>1, <2>1 DEF TargetsInv
<1> QED BY <1>1, <1>3, <1>4, <1>5, <1>6, FieldHasAddresses

LEMMA CidrNextKeeps == TargetsInv /\ CidrNext => TargetsInv'
<1> SUFFICES ASSUME TargetsInv, CidrNext PROVE TargetsInv'
  OBVIOUS
<1>1. /\ input \in TargetField /\ curr \in Address /\ ips \in Seq(Address)
      /\ targetPc = "cidr" /\ input.form = "cidr" /\ InNetwork(curr)
      /\ input' = input /\ targetPc' = targetPc
      /\ ips' = Append(ips, curr) /\ curr' = incrementIP(curr)
      /\ Len(ips) < MaxIps /\ MaxIps \in Nat
  BY MaxIpsAssumption DEF TargetsInv, CidrNext
<1>2. ips' \in Seq(Address) /\ Len(ips') = Len(ips) + 1 /\ Len(ips) \in Nat /\ curr' \in Address
  BY <1>1, IncrementIsNext
<1>3. ASSUME input.ones # 0 PROVE NetworkSoFar'
  <2>1. NetworkSoFar
    BY <1>1, <1>3 DEF TargetsInv
  <2>2. /\ NetSize \in Nat \ {0} /\ NetLow \in Nat /\ NetLow + NetSize <= Space
        /\ NetSize < Space /\ Number(curr) \in NetLow .. NetLow + NetSize - 1
    BY <1>1, <1>3, NetworkIsBlock
  <2>3. Number(curr) = Wrap(NetLow + Len(ips)) /\ Len(ips) <= NetSize /\ Space \in Nat
    BY <2>1, NumberFits DEF NetworkSoFar
  <2>4. Len(ips) < NetSize
    BY <1>2, <2>2, <2>3 DEF Wrap
  <2>5. CountsFrom(NetLow)' /\ Number(curr') = Wrap(NetLow + (Len(ips) + 1))
    <3> DEFINE lo == NetLow
    <3>1. CountsFrom(lo) /\ Number(curr) = Wrap(lo + Len(ips)) /\ Len(ips) < Space
      BY <1>2, <2>1, <2>2, <2>3, <2>4 DEF NetworkSoFar
    <3>2. NetLow' = NetLow
      BY <1>1 DEF NetLow, NetSize
    <3> QED BY <1>1, <1>2, <2>2, <2>3, <3>1, <3>2, AppendCounts
  <2>6. NetSize' = NetSize /\ NetLow' = NetLow
    BY <1>1 DEF NetSize, NetLow
  <2> QED BY <1>2, <2>2, <2>4, <2>5, <2>6 DEF NetworkSoFar
<1> QED BY <1>1, <1>2, <1>3 DEF TargetsInv

LEMMA CidrDoneKeeps == TargetsInv /\ CidrDone => TargetsInv'
<1> SUFFICES ASSUME TargetsInv, CidrDone PROVE TargetsInv'
  OBVIOUS
<1>1. /\ input \in TargetField /\ curr \in Address /\ ips \in Seq(Address)
      /\ targetPc = "cidr" /\ input.form = "cidr" /\ ~InNetwork(curr)
      /\ input' = input /\ targetPc' = "done" /\ curr' = curr
      /\ ips' = IF HostsOnly THEN SubSeq(ips, 2, Len(ips) - 1) ELSE ips
      /\ Len(ips) <= MaxIps /\ MaxIps \in Nat /\ Len(ips) \in Nat
  BY MaxIpsAssumption DEF TargetsInv, CidrDone
<1>2. input.ones # 0
  BY <1>1, NetworkIsBlock
<1>3. NetworkSoFar
  BY <1>1, <1>2 DEF TargetsInv
<1>4. /\ NetSize \in Nat \ {0} /\ NetLow \in Nat /\ NetLow + NetSize <= Space
      /\ NetSize < Space /\ Number(curr) \notin NetLow .. NetLow + NetSize - 1
      /\ NetSize > 2 <=> Bits - input.ones > 1
  BY <1>1, <1>2, NetworkIsBlock
<1>5. Number(curr) = Wrap(NetLow + Len(ips)) /\ Len(ips) <= NetSize /\ Space \in Nat
  BY <1>3, NumberFits DEF NetworkSoFar
<1>6. Len(ips) = NetSize
  BY <1>1, <1>4, <1>5 DEF Wrap
<1>7. \A i \in 1 .. Len(ips) : Number(ips[i]) = NetLow + i - 1
  <2>1. \A i \in 1 .. Len(ips) : Number(ips[i]) = Wrap(NetLow + i - 1)
    BY <1>3 DEF NetworkSoFar, CountsFrom
  <2>2. \A i \in 1 .. Len(ips) : NetLow + i - 1 < Space
    BY <1>4, <1>5, <1>6
  <2> QED BY <2>1, <2>2 DEF Wrap
\* The list and its interval.
<1> DEFINE lo == IF NetSize > 2 THEN NetLow + 1 ELSE NetLow
           hi == IF NetSize > 2 THEN NetLow + NetSize - 2 ELSE NetLow + NetSize - 1
<1>8. /\ ips' \in Seq(Address) /\ Len(ips') = hi + 1 - lo /\ Len(ips') <= Len(ips)
      /\ \A i \in 1 .. Len(ips') : Number(ips'[i]) = lo + i - 1
  <2>1. CASE NetSize > 2
    <3>1. ips' = SubSeq(ips, 2, Len(ips) - 1)
      BY <1>1, <1>4, <1>6, <2>1 DEF HostsOnly
    <3>2. /\ ips' \in Seq(Address) /\ Len(ips') = Len(ips) - 2
          /\ \A i \in 1 .. Len(ips') : ips'[i] = ips[i + 1] /\ i + 1 \in 1 .. Len(ips)
      <4>1. Len(ips) - 1 <= Len(ips) /\ 2 \in Nat /\ Len(ips) - 1 \in Nat /\ Len(ips) > 2
        BY <1>4, <1>6, <2>1
      <4> QED BY <1>1, <3>1, <4>1
    <3>3. ASSUME NEW i \in 1 .. Len(ips') PROVE Number(ips'[i]) = lo + i - 1
      <4>1. Number(ips'[i]) = NetLow + (i + 1) - 1
        BY <1>7, <3>2
      <4>2. i \in Nat /\ NetLow \in Nat /\ lo = NetLow + 1
        BY <1>4, <2>1
      <4> HIDE DEF lo
      <4> QED BY <4>1, <4>2
    <3>4. lo = NetLow + 1 /\ hi = NetLow + NetSize - 2
      BY <2>1
    <3> HIDE DEF lo, hi
    <3> QED BY <1>1, <1>4, <1>6, <2>1, <3>2, <3>3, <3>4
  <2>2. CASE ~(NetSize > 2)
    <3>1. ips' = ips
      BY <1>1, <1>4, <2>2 DEF HostsOnly
    <3> QED BY <1>1, <1>4, <1>6, <1>7, <2>2, <3>1
  <2> QED BY <2>1, <2>2
<1>9. lo \in Nat /\ hi \in Nat /\ lo + Len(ips') <= Space /\ lo < Space
  BY <1>4, <1>5, <1>6, <1>8
<1>10. TargetsAreExact'
  <2>1. Numbers' = From(lo, hi)
    <3> HIDE DEF lo, hi
    <3>1. [i \in 1 .. Len(ips') |-> Number(ips'[i])] = From(lo, hi)
      BY <1>8, <1>9, CountedIsInterval
    <3> QED BY <3>1 DEF Numbers
  <2>2. CidrIsBlock'
    <3> DEFINE size == Pow2[Bits - input'.ones]
               low  == Number(input'.ip) - (Number(input'.ip) % size)
    <3>1. size = NetSize /\ low = NetLow
      BY <1>1 DEF NetSize, NetLow
    <3> HIDE DEF size, low
    <3>2. Numbers' = IF size > 2 THEN From(low + 1, low + size - 2) ELSE From(low, low + size - 1)
      BY <2>1, <3>1
    <3> QED BY <3>2 DEF CidrIsBlock, size, low
  <2>3. RangeIsInterval'
    BY <1>1 DEF RangeIsInterval
  <2> QED BY <2>2, <2>3 DEF TargetsAreExact
<1>11. CountsFrom(lo)'
  <2>1. lo' = lo
    BY <1>1 DEF NetSize, NetLow
  <2>2. Len(ips') \in Nat
    BY <1>8
  <2> HIDE DEF lo, hi
  <2>3. \A i \in 1 .. Len(ips') : lo + i - 1 < Space
    BY <1>5, <1>9, <2>2
  <2>4. \A i \in 1 .. Len(ips') : Number(ips'[i]) = Wrap(lo + i - 1)
    BY <1>8, <2>3 DEF Wrap
  <2>5. lo \in 0 .. Space - 1 /\ Len(ips') <= Space
    BY <1>5, <1>9, <2>2
  <2> QED BY <2>1, <2>4, <2>5 DEF CountsFrom
<1>12. \E n \in 0 .. Space - 1 : CountsFrom(n)'
  <2>1. lo \in 0 .. Space - 1 /\ lo' = lo
    BY <1>1, <1>4, <1>5, <1>9 DEF NetSize, NetLow
  <2> HIDE DEF lo, hi
  <2>2. \A n : n = lo => CountsFrom(n)'
    BY <1>11, <2>1 DEF CountsFrom
  <2> QED BY <2>1, <2>2
<1>13. Len(ips') <= MaxIps
  <2>1. Len(ips') \in Nat
    BY <1>8
  <2> HIDE DEF lo, hi
  <2> QED BY <1>1, <1>8, <2>1
<1> QED BY <1>1, <1>8, <1>10, <1>12, <1>13 DEF TargetsInv

LEMMA RangeNextKeeps == TargetsInv /\ RangeNext => TargetsInv'
<1> SUFFICES ASSUME TargetsInv, RangeNext PROVE TargetsInv'
  OBVIOUS
<1>1. /\ input \in TargetField /\ curr \in Address /\ ips \in Seq(Address)
      /\ targetPc = "range" /\ input.form \in {"range", "suffix"}
      /\ input' = input /\ ips' = Append(ips, curr) /\ Len(ips) < MaxIps /\ MaxIps \in Nat
      /\ IF curr = RangeEnd \/ PastEnd(incrementIP(curr))
           THEN targetPc' = "done" /\ curr' = curr
           ELSE targetPc' = targetPc /\ curr' = incrementIP(curr)
  BY MaxIpsAssumption DEF TargetsInv, RangeNext
<1> DEFINE lo == Number(input.ip)
           hi == Number(RangeEnd)
           next1 == incrementIP(curr)
<1>2. /\ CountsFrom(lo) /\ Len(ips) < Space /\ Number(curr) = Wrap(lo + Len(ips))
      /\ Len(ips) > 0 => /\ Number(curr) <= hi
                         /\ lo # Space - 1 => lo + Len(ips) < Space
                         /\ lo = Space - 1 => hi < lo
  BY <1>1 DEF TargetsInv, RangeSoFar
<1>3. /\ RangeEnd \in Address /\ input.ip \in Address /\ Space \in Nat
      /\ lo \in 0 .. Space - 1 /\ hi \in 0 .. Space - 1 /\ Number(curr) \in 0 .. Space - 1
      /\ RangeEnd' = RangeEnd /\ lo' = lo /\ hi' = hi
  <2>1. RangeEnd \in Address /\ input.ip \in Address
    BY <1>1, FieldHasAddresses
  <2>2. RangeEnd' = RangeEnd
    BY <1>1 DEF RangeEnd
  <2> QED BY <1>1, <2>1, <2>2, NumberFits
<1>4. /\ next1 \in Address /\ Number(next1) = Wrap(lo + (Len(ips) + 1))
      /\ Number(next1) = IF Number(curr) = Space - 1 THEN 0 ELSE Number(curr) + 1
      /\ ips' \in Seq(Address) /\ Len(ips') = Len(ips) + 1 /\ Len(ips) \in Nat
  <2>1. Number(next1) = Wrap(lo + (Len(ips) + 1))
    <3> HIDE DEF lo
    <3> QED BY <1>1, <1>2, AppendCounts
  <2> QED BY <1>1, <2>1, IncrementIsNext
<1>5. CountsFrom(lo)'
  <2> DEFINE n == lo
  <2>1. n' = n /\ CountsFrom(n) /\ Number(curr) = Wrap(n + Len(ips))
    BY <1>2, <1>3
  <2> HIDE DEF n
  <2>2. CountsFrom(n)'
    BY <1>1, <1>2, <2>1, AppendCounts
  <2> QED BY <2>2 DEF n
<1>6. /\ curr = RangeEnd <=> Number(curr) = hi
      /\ PastEnd(next1) <=> Number(next1) > hi
  <2>1. curr = RangeEnd <=> Number(curr) = hi
    BY <1>1, <1>3, NumbersCompare
  <2>2. PastEnd(next1) <=> Number(next1) > hi
    BY <1>3, <1>4, NumbersCompare DEF PastEnd
  <2> QED BY <2>1, <2>2
<1> HIDE DEF next1
<1>7. CASE curr = RangeEnd \/ PastEnd(next1)
  <2>1. targetPc' = "done" /\ curr' = curr
    BY <1>1, <1>7 DEF next1
  <2>2. ASSUME lo # Space - 1
        PROVE  /\ lo + Len(ips) < Space
               /\ IF lo <= hi THEN Len(ips') = hi + 1 - lo ELSE Len(ips') = 1
    <3>1. Number(curr) = lo + Len(ips) /\ lo + Len(ips) < Space
      BY <1>2, <1>3, <1>4, <2>2 DEF Wrap
    <3>2. Number(curr) = hi \/ Number(next1) > hi
      BY <1>6, <1>7
    <3> HIDE DEF lo, hi
    <3>3. CASE Len(ips) = 0
      BY <1>3, <1>4, <2>2, <3>1, <3>2, <3>3
    <3>4. CASE Len(ips) > 0
      BY <1>2, <1>3, <1>4, <2>2, <3>1, <3>2, <3>4
    <3> QED BY <1>4, <3>1, <3>3, <3>4
  <2>3. ASSUME lo # Space - 1 PROVE Numbers' = IF lo <= hi THEN From(lo, hi) ELSE <<lo>>
    <3>1. \A i \in 1 .. Len(ips') : Number(ips'[i]) = lo + i - 1
      <4>1. \A i \in 1 .. Len(ips') : Number(ips'[i]) = Wrap(lo + i - 1)
        BY <1>3, <1>5 DEF CountsFrom
      <4>2. \A i \in 1 .. Len(ips') : lo + i - 1 < Space
        BY <1>3, <1>4, <2>2, <2>3
      <4> QED BY <4>1, <4>2 DEF Wrap
    <3>2. CASE lo <= hi
      <4>1. [i \in 1 .. Len(ips') |-> Number(ips'[i])] = From(lo, hi)
        <5>1. Len(ips') = hi + 1 - lo /\ lo \in Nat /\ hi \in Nat
          BY <1>3, <2>2, <2>3, <3>2
        <5> HIDE DEF lo, hi
        <5> QED BY <1>4, <3>1, <5>1, CountedIsInterval
      <4> QED BY <3>2, <4>1 DEF Numbers
    <3>3. CASE ~(lo <= hi)
      <4>1. Len(ips') = 1 /\ lo \in Nat
        BY <1>3, <2>2, <2>3, <3>3
      <4>2. Number(ips'[1]) = lo
        BY <3>1, <4>1
      <4>3. Numbers' = <<lo>>
        BY <4>1, <4>2 DEF Numbers
      <4> QED BY <3>3, <4>3
    <3> QED BY <3>2, <3>3
  <2>4. TargetsAreExact'
    <3>1. CidrIsBlock'
      BY <1>1 DEF CidrIsBlock
    <3>2. lo = Space - 1 \/ Numbers' = IF lo <= hi THEN From(lo, hi) ELSE <<lo>>
      BY <2>3
    <3>3. Number(input'.ip) = lo /\ Number(RangeEnd') = hi
      BY <1>1, <1>3
    <3> HIDE DEF lo, hi
    <3>4. RangeIsInterval'
      BY <3>2, <3>3 DEF RangeIsInterval, Space
    <3> QED BY <3>1, <3>4 DEF TargetsAreExact
  <2>5. \E n \in 0 .. Space - 1 : CountsFrom(n)'
    <3> HIDE DEF lo, hi
    <3>1. \A n : n = lo => CountsFrom(n)'
      BY <1>3, <1>5 DEF CountsFrom
    <3> QED BY <1>3, <3>1
  <2> QED BY <1>1, <1>4, <2>1, <2>4, <2>5 DEF TargetsInv
<1>8. CASE ~(curr = RangeEnd \/ PastEnd(next1))
  <2>1. targetPc' = "range" /\ curr' = next1
    BY <1>1, <1>8 DEF next1
  <2>2. Number(curr) # hi /\ Number(next1) <= hi
    BY <1>3, <1>4, <1>6, <1>8
  <2>3. /\ lo # Space - 1 => lo + Len(ips') < Space
        /\ lo = Space - 1 => hi < lo
        /\ Len(ips') < Space
    <3> HIDE DEF lo, hi
    <3>1. CASE lo = Space - 1
      <4>1. Wrap(lo + (Len(ips) + 1)) = Len(ips)
        BY <1>2, <1>3, <1>4, <3>1 DEF Wrap
      <4>2. Len(ips) > 0 => hi < lo
        BY <1>2, <3>1
      <4>3. Len(ips) = 0 => Number(curr) = lo
        BY <1>2, <1>3, <1>4, <3>1 DEF Wrap
      <4>4. hi < lo
        BY <1>3, <1>4, <2>2, <3>1, <4>2, <4>3
      <4> QED BY <1>3, <1>4, <2>2, <3>1, <4>1, <4>4
    <3>2. CASE lo # Space - 1
      <4>1. lo + Len(ips) < Space
        <5>1. lo \in 0 .. Space - 1 /\ Space \in Nat /\ Len(ips) \in Nat
          BY <1>3, <1>4
        <5>2. Len(ips) > 0 => lo + Len(ips) < Space
          BY <1>2, <3>2
        <5> QED BY <3>2, <5>1, <5>2
      <4>2. Number(curr) = lo + Len(ips)
        BY <1>2, <4>1 DEF Wrap
      <4>3. Number(curr) # Space - 1
        <5>1. CASE Len(ips) = 0
          BY <1>3, <3>2, <4>2, <5>1
        <5>2. CASE Len(ips) > 0
          BY <1>2, <1>3, <2>2, <5>2
        <5> QED BY <1>4, <5>1, <5>2
      <4> QED BY <1>3, <1>4, <3>2, <4>1, <4>2, <4>3
    <3> QED BY <3>1, <3>2
  <2>4. RangeSoFar'
    <3>1. Number(curr') = Wrap(lo + Len(ips')) /\ Number(curr') <= hi
      BY <1>4, <2>1, <2>2
    <3>2. lo' = lo /\ hi' = hi
      BY <1>3
    <3> QED BY <1>5, <2>3, <3>1, <3>2 DEF RangeSoFar
  <2> QED BY <1>1, <1>4, <2>1, <2>4 DEF TargetsInv
<1> QED BY <1>7, <1>8

LEMMA LookupHostKeeps == TargetsInv /\ LookupHost => TargetsInv'
<1> SUFFICES ASSUME TargetsInv, LookupHost PROVE TargetsInv'
  OBVIOUS
<1>1. /\ input \in TargetField /\ input.form = "host" /\ curr \in Address /\ ips = <<>>
      /\ input' = input /\ curr' = curr /\ MaxIps \in Nat \ {0}
  BY MaxIpsAssumption DEF TargetsInv, LookupHost
<1>2. CASE targetPc' = "error" /\ ips' = ips
  BY <1>1, <1>2 DEF TargetsInv
<1>3. CASE targetPc' = "done" /\ ips' \in Found
  <2>1. PICK n \in 1 .. MaxFound : ips' \in [1 .. n -> Address]
    BY <1>3 DEF Found
  <2>2. ips' \in Seq(Address) /\ Len(ips') = n /\ n <= MaxIps
    BY <2>1, MaxIpsAssumption
  <2>3. TargetsAreExact'
    BY <1>1 DEF TargetsAreExact, CidrIsBlock, RangeIsInterval
  <2> QED BY <1>1, <1>3, <2>2, <2>3 DEF TargetsInv
<1> QED BY <1>2, <1>3 DEF LookupHost

-----------------------------------------------------------------------------
(* The list of ports.                                                       *)

\* A token is accepted just if what it says is in the range, and then its ports
\* are the ones it means.
LEMMA TokenIsRead ==
  ASSUME NEW t \in Token
  PROVE  /\ Accepted(t) <=> Valid(t)
         /\ Accepted(t) => PortsOf(t) = {p \in 1 .. MaxPort : Means(t, p)}
         /\ Accepted(t) => \A p : Means(t, p) /\ p \in Int => p \in 1 .. MaxPort
<1>0. MaxPort \in Nat
  BY PortAssumption
<1>1. CASE t.form = "blank" \/ t.form = "garbage"
  BY <1>1 DEF Accepted, Valid, Written, PortsOf, Means
<1>2. CASE t \in [form : {"one"}, port : Nat]
  <2>1. t.form = "one" /\ t.port \in Nat
    BY <1>2
  <2>2. /\ Accepted(t) <=> t.port \in 1 .. MaxPort
        /\ Valid(t) <=> t.port \in 1 .. MaxPort
        /\ PortsOf(t) = {t.port}
        /\ \A p : Means(t, p) <=> p = t.port
    BY <1>0, <2>1 DEF Accepted, Valid, Written, PortsOf, Means, InRange
  <2> QED BY <2>1, <2>2
<1>3. CASE t \in [form : {"span"}, from : Nat, to : Nat]
  <2>1. t.form = "span" /\ t.from \in Nat /\ t.to \in Nat
    BY <1>3
  <2>2. /\ Accepted(t) <=> t.from \in 1 .. MaxPort /\ t.to \in 1 .. MaxPort
        /\ Valid(t) <=> t.from \in 1 .. MaxPort /\ t.to \in 1 .. MaxPort
    BY <1>0, <2>1 DEF Accepted, Valid, Written, InRange, Low, High
  <2>3. \A p : Means(t, p) <=> (t.from <= p /\ p <= t.to) \/ (t.to <= p /\ p <= t.from)
    BY <2>1 DEF Means
  <2>4. PortsOf(t) = Low(t) .. High(t)
    BY <2>1 DEF PortsOf
  <2>5. ASSUME Accepted(t) PROVE PortsOf(t) = {p \in 1 .. MaxPort : Means(t, p)}
    BY <1>0, <2>1, <2>2, <2>3, <2>4, <2>5 DEF Low, High
  <2>6. ASSUME Accepted(t), NEW p \in Int, Means(t, p) PROVE p \in 1 .. MaxPort
    BY <1>0, <2>1, <2>2, <2>3, <2>6
  <2> QED BY <2>2, <2>5, <2>6
<1> QED BY <1>1, <1>2, <1>3 DEF Token, Blank, Garbage

PortsInv ==
  /\ field \in Seq(Token)
  /\ portPc \in {"tokens", "done", "error"}
  /\ next \in 1 .. Len(field) + 1
  /\ portMap = {p \in 1 .. MaxPort : \E i \in 1 .. next - 1 : Means(field[i], p)}
  /\ \A i \in 1 .. next - 1 : Valid(field[i])
  /\ portPc = "error" => field = <<>> \/ (next <= Len(field) /\ ~Valid(field[next]))
  /\ portPc = "done" => next = Len(field) + 1 /\ ports \in SetToSeqs(portMap)
  /\ portPc # "done" => ports = <<>>

LEMMA PortListStep == PortsInv /\ PortsNext => PortsInv'
<1> SUFFICES ASSUME PortsInv, PortsNext PROVE PortsInv'
  OBVIOUS
<1>0. Len(field) \in Nat /\ next \in Nat
  BY DEF PortsInv
<1>1. CASE ReadToken
  <2>1. /\ next <= Len(field) /\ field' = field /\ ports' = ports /\ portPc = "tokens"
        /\ field[next] \in Token /\ next \in 1 .. Len(field)
    BY <1>0, <1>1 DEF PortsInv, ReadToken
  <2>2. CASE Accepted(field[next])
    <3>1. portMap' = portMap \cup PortsOf(field[next]) /\ next' = next + 1 /\ portPc' = "tokens"
      BY <1>1, <2>1, <2>2 DEF ReadToken
    <3>2. /\ Valid(field[next])
          /\ PortsOf(field[next]) = {p \in 1 .. MaxPort : Means(field[next], p)}
      BY <2>1, <2>2, TokenIsRead
    <3>3. 1 .. next' - 1 = (1 .. next - 1) \cup {next} /\ next' \in 1 .. Len(field) + 1
      BY <1>0, <2>1, <3>1
    <3>4. portMap' = {p \in 1 .. MaxPort : \E i \in 1 .. next' - 1 : Means(field[i], p)}
      <4>1. portMap = {p \in 1 .. MaxPort : \E i \in 1 .. next - 1 : Means(field[i], p)}
        BY DEF PortsInv
      <4> QED BY <3>1, <3>2, <3>3, <4>1, Zenon
    <3>5. \A i \in 1 .. next' - 1 : Valid(field[i])
      BY <3>2, <3>3 DEF PortsInv
    <3>6. ports' = <<>>
      BY <2>1 DEF PortsInv
    <3>7. PortsInv => field \in Seq(Token)
      BY DEF PortsInv
    <3> QED BY <2>1, <3>1, <3>3, <3>4, <3>5, <3>6, <3>7 DEF PortsInv
  <2>3. CASE ~Accepted(field[next])
    <3>1. portPc' = "error" /\ next' = next /\ portMap' = portMap
      BY <1>1, <2>3 DEF ReadToken
    <3>2. ~Valid(field[next])
      BY <2>1, <2>3, TokenIsRead
    <3> QED BY <2>1, <3>1, <3>2 DEF PortsInv
  <2> QED BY <2>2, <2>3
<1>2. CASE Finish
  <2>1. /\ portPc' = "done" /\ field' = field /\ next' = next /\ portMap' = portMap
        /\ next > Len(field) /\ ports' \in SetToSeqs(portMap)
    BY <1>2 DEF Finish
  <2>2. next = Len(field) + 1
    BY <1>0, <2>1 DEF PortsInv
  <2> QED BY <2>1, <2>2 DEF PortsInv
<1> QED BY <1>1, <1>2 DEF PortsNext

\* A slice of a set has every element of it once.
LEMMA SliceHasEachOnce ==
  ASSUME NEW S, IsFiniteSet(S), NEW s \in SetToSeqs(S)
  PROVE  /\ s \in Seq(S) /\ Len(s) = Cardinality(S)
         /\ \A i, j \in 1 .. Len(s) : s[i] = s[j] => i = j
         /\ \A p \in S : \E i \in 1 .. Len(s) : s[i] = p
<1> DEFINE n == Cardinality(S)
<1>1. n \in Nat
  BY FS_CardinalityType
<1>2. s \in [1 .. n -> S] /\ \A i, j \in 1 .. n : i # j => s[i] # s[j]
  BY Zenon DEF SetToSeqs
<1>3. IsFiniteSet(1 .. n) /\ Cardinality(1 .. n) = n
  <2>1. n \in Int /\ 1 \in Int
    BY <1>1
  <2>2. IsFiniteSet(1 .. n) /\ Cardinality(1 .. n) = IF 1 > n THEN 0 ELSE n - 1 + 1
    BY <2>1, FS_Interval
  <2> HIDE DEF n
  <2> QED BY <1>1, <2>2
<1>4. s \in Injection(1 .. n, S)
  BY <1>2 DEF Injection, IsInjective
<1>5. s \in Surjection(1 .. n, S)
  BY <1>3, <1>4, FS_Injection
<1> HIDE DEF n
<1>6. s \in Seq(S) /\ Len(s) = n
  BY <1>1, <1>2
<1> QED BY <1>2, <1>5, <1>6 DEF n, Surjection

LEMMA PortsAreExact ==
  PortsInv => /\ PortsTypeOK /\ SliceIsExact
              /\ \A i, j \in 1 .. Len(ports) : ports[i] = ports[j] => i = j
              /\ ports \in Seq(portMap)
<1> SUFFICES ASSUME PortsInv
             PROVE  /\ PortsTypeOK /\ SliceIsExact
                    /\ \A i, j \in 1 .. Len(ports) : ports[i] = ports[j] => i = j
                    /\ ports \in Seq(portMap)
  OBVIOUS
<1>0. Len(field) \in Nat /\ next \in Nat /\ MaxPort \in Nat
  BY PortAssumption DEF PortsInv
<1>1. portMap \subseteq 1 .. MaxPort /\ IsFiniteSet(portMap)
  <2>1. portMap \subseteq 1 .. MaxPort
    BY DEF PortsInv
  <2>2. IsFiniteSet(1 .. MaxPort)
    BY <1>0, FS_Interval
  <2> QED BY <2>1, <2>2, FS_Subset
<1>2. CASE portPc # "done"
  <2>1. ports = <<>>
    BY <1>2 DEF PortsInv
  <2>2. ASSUME portPc = "error" PROVE field = <<>> \/ \E i \in 1 .. Len(field) : ~Valid(field[i])
    BY <1>0, <2>2 DEF PortsInv
  <2>3. SliceIsExact
    BY <1>2, <2>2 DEF SliceIsExact
  <2>4. PortsTypeOK
    BY <1>1, <2>1 DEF PortsTypeOK, PortsInv
  <2> QED BY <2>1, <2>3, <2>4
<1>3. CASE portPc = "done"
  <2>1. next = Len(field) + 1 /\ ports \in SetToSeqs(portMap)
    BY <1>3 DEF PortsInv
  <2>2. /\ ports \in Seq(portMap) /\ Len(ports) \in Nat
        /\ \A i, j \in 1 .. Len(ports) : ports[i] = ports[j] => i = j
        /\ \A p \in portMap : \E i \in 1 .. Len(ports) : ports[i] = p
        /\ \A i \in 1 .. Len(ports) : ports[i] \in portMap
    BY <1>1, <2>1, SliceHasEachOnce
  <2>3. next - 1 = Len(field)
    BY <1>0, <2>1
  <2>4. portMap = {p \in 1 .. MaxPort : \E i \in 1 .. Len(field) : Means(field[i], p)}
    BY <2>3 DEF PortsInv
  <2>5. \A i \in 1 .. Len(field) : Valid(field[i])
    BY <2>3 DEF PortsInv
  <2>6. ASSUME NEW p \in 0 .. MaxPort + 1
        PROVE  p \in portMap <=> \E i \in 1 .. Len(field) : Means(field[i], p)
    <3>1. ASSUME NEW i \in 1 .. Len(field), Means(field[i], p) PROVE p \in 1 .. MaxPort
      <4>1. field[i] \in Token /\ p \in Int
        BY <1>0 DEF PortsInv
      <4> QED BY <2>5, <3>1, <4>1, TokenIsRead
    <3> QED BY <2>4, <3>1
  <2>7. ASSUME NEW p \in 0 .. MaxPort + 1
        PROVE  Cardinality({i \in 1 .. Len(ports) : ports[i] = p}) = IF p \in portMap THEN 1 ELSE 0
    <3>1. CASE p \in portMap
      <4>1. PICK k \in 1 .. Len(ports) : ports[k] = p
        BY <2>2, <3>1
      <4>2. {i \in 1 .. Len(ports) : ports[i] = p} = {k}
        BY <2>2, <4>1
      <4> QED BY <3>1, <4>2, FS_Singleton
    <3>2. CASE p \notin portMap
      <4>1. {i \in 1 .. Len(ports) : ports[i] = p} = {}
        BY <2>2, <3>2
      <4> QED BY <3>2, <4>1, FS_EmptySet
    <3> QED BY <3>1, <3>2
  <2>8. SliceIsExact
    <3>1. \A p \in 0 .. MaxPort + 1 :
            Cardinality({i \in 1 .. Len(ports) : ports[i] = p}) =
              IF \E i \in 1 .. Len(field) : Means(field[i], p) THEN 1 ELSE 0
      BY <2>6, <2>7
    <3> QED BY <1>3, <2>5, <3>1 DEF SliceIsExact
  <2>9. PortsTypeOK
    BY <1>1, <2>2 DEF PortsTypeOK, PortsInv
  <2> QED BY <2>2, <2>8, <2>9
<1> QED BY <1>2, <1>3

-----------------------------------------------------------------------------
(* The request.                                                             *)

RequestInv ==
  /\ TargetsInv
  /\ PortsInv
  /\ verdict \in {"pending", "refused", "accepted"} /\ total \in Nat
  /\ portPc = "done" => targetPc = "done" /\ ips # <<>>
  /\ verdict = "accepted" => portPc = "done" /\ ports # <<>> /\ total = Len(ips) * Len(ports)

LEMMA TargetsStep == TargetsInv /\ TargetsNext => TargetsInv'
BY ParseTargetsKeeps, CidrNextKeeps, CidrDoneKeeps, RangeNextKeeps, LookupHostKeeps DEF TargetsNext

LEMMA TargetsStay == TargetsInv /\ UNCHANGED targetVars => TargetsInv'
<1> SUFFICES ASSUME TargetsInv, UNCHANGED targetVars PROVE TargetsInv'
  OBVIOUS
<1>1. input' = input /\ targetPc' = targetPc /\ curr' = curr /\ ips' = ips
  BY DEF targetVars
<1>2. NetSize' = NetSize /\ NetLow' = NetLow /\ RangeEnd' = RangeEnd /\ Numbers' = Numbers
  BY <1>1 DEF NetSize, NetLow, RangeEnd, Numbers
<1>3. TargetsAreExact' = TargetsAreExact
  BY <1>1, <1>2 DEF TargetsAreExact, CidrIsBlock, RangeIsInterval
<1>4. /\ NetworkSoFar' = NetworkSoFar /\ RangeSoFar' = RangeSoFar
      /\ \A lo : CountsFrom(lo)' = CountsFrom(lo)
  BY <1>1, <1>2 DEF NetworkSoFar, RangeSoFar, CountsFrom
<1> QED BY <1>1, <1>3, <1>4 DEF TargetsInv

LEMMA PortsStay == PortsInv /\ UNCHANGED portVars => PortsInv'
BY DEF PortsInv, portVars

LEMMA RequestStart == RequestInit => RequestInv
<1> SUFFICES ASSUME RequestInit PROVE RequestInv
  OBVIOUS
<1>1. PICK t \in Typed : input = t[1] /\ field = t[2]
  BY DEF RequestInit
<1>2. input \in TargetField /\ field \in Seq(Token)
  BY <1>1, TypedAssumption
<1>3. TargetsInv
  <2>1. curr \in Address
    <3>1. 0 \in Octet
      BY BaseIsBig
    <3> QED BY <3>1 DEF RequestInit, TargetsInit, Address
  <2> QED BY <1>2, <2>1, MaxIpsAssumption DEF RequestInit, TargetsInit, TargetsInv
<1>4. PortsInv
  <2>1. /\ portPc = IF field = <<>> THEN "error" ELSE "tokens"
        /\ next = 1 /\ portMap = {} /\ ports = <<>>
    BY DEF RequestInit, PortsInit
  <2>2. 1 .. next - 1 = {} /\ next \in 1 .. Len(field) + 1
    BY <1>2, <2>1
  <2> QED BY <1>2, <2>1, <2>2 DEF PortsInv
<1>5. verdict = "pending" /\ total = 0 /\ portPc # "done"
  BY DEF RequestInit, PortsInit
<1> QED BY <1>3, <1>4, <1>5 DEF RequestInv

LEMMA RequestStep == RequestInv /\ [RequestNext]_requestVars => RequestInv'
<1> SUFFICES ASSUME RequestInv, [RequestNext]_requestVars PROVE RequestInv'
  OBVIOUS
<1> USE DEF RequestInv
<1>1. CASE ParseTargetField
  <2>1. verdict = "pending" /\ TargetsNext /\ UNCHANGED <<portVars, verdict, total>>
    BY <1>1 DEF ParseTargetField
  <2>2. targetPc # "done"
    BY <2>1 DEF TargetsNext, ParseTargets, CidrNext, CidrDone, RangeNext, LookupHost
  <2>3. TargetsInv' /\ PortsInv'
    BY <2>1, TargetsStep, PortsStay
  <2>4. portPc' = portPc /\ verdict' = verdict /\ total' = total
    BY <2>1 DEF portVars
  <2> QED BY <2>1, <2>2, <2>3, <2>4
<1>2. CASE ParsePortField
  <2>1. /\ verdict = "pending" /\ targetPc = "done" /\ ips # <<>> /\ PortsNext
        /\ UNCHANGED <<targetVars, verdict, total>>
    BY <1>2 DEF ParsePortField
  <2>2. TargetsInv' /\ PortsInv'
    BY <2>1, TargetsStay, PortListStep
  <2>3. targetPc' = targetPc /\ ips' = ips /\ verdict' = verdict /\ total' = total
    BY <2>1 DEF targetVars
  <2> QED BY <2>1, <2>2, <2>3
<1>3. CASE Refuse
  <2>1. verdict' = "refused" /\ UNCHANGED <<targetVars, portVars, total>>
    BY <1>3 DEF Refuse
  <2>2. TargetsInv' /\ PortsInv'
    BY <2>1, TargetsStay, PortsStay
  <2> QED BY <2>1, <2>2 DEF targetVars, portVars
<1>4. CASE Accept
  <2>1. /\ verdict' = "accepted" /\ portPc = "done" /\ ports # <<>>
        /\ total' = Len(ips) * Len(ports) /\ UNCHANGED <<targetVars, portVars>>
    BY <1>4 DEF Accept, HasPorts
  <2>2. TargetsInv' /\ PortsInv'
    BY <2>1, TargetsStay, PortsStay
  <2>3. portPc' = portPc /\ ports' = ports /\ ips' = ips /\ targetPc' = targetPc
    BY <2>1 DEF targetVars, portVars
  <2>4. total' \in Nat
    <3>1. Len(ips) \in Nat /\ Len(ports) \in Nat
      BY PortsAreExact DEF TargetsInv
    <3> QED BY <2>1, <3>1
  <2> QED BY <2>1, <2>2, <2>3, <2>4
<1>5. CASE UNCHANGED requestVars
  <2>1. UNCHANGED <<targetVars, portVars, verdict, total>>
    BY <1>5 DEF requestVars
  <2>2. TargetsInv' /\ PortsInv'
    BY <2>1, TargetsStay, PortsStay
  <2> QED BY <2>1, <2>2 DEF targetVars, portVars
<1> QED BY <1>1, <1>2, <1>3, <1>4, <1>5 DEF RequestNext

\* The pairs of two lists without repetition.
PairsOf(s, m, t, n) == {<<s[i], t[j]>> : i \in 1 .. m, j \in 1 .. n}
LEMMA PairsOfLists ==
  ASSUME NEW s, NEW m \in Nat, \A i, j \in 1 .. m : s[i] = s[j] => i = j,
         NEW t, NEW n \in Nat, \A i, j \in 1 .. n : t[i] = t[j] => i = j
  PROVE  Cardinality(PairsOf(s, m, t, n)) = m * n
<1> DEFINE D == (1 .. m) \X (1 .. n)
           T == {<<s[i], t[j]>> : i \in 1 .. m, j \in 1 .. n}
           f == [x \in D |-> <<s[x[1]], t[x[2]]>>]
<1>1. IsFiniteSet(D) /\ Cardinality(D) = m * n
  <2>1. /\ IsFiniteSet(1 .. m) /\ Cardinality(1 .. m) = IF 1 > m THEN 0 ELSE m - 1 + 1
        /\ IsFiniteSet(1 .. n) /\ Cardinality(1 .. n) = IF 1 > n THEN 0 ELSE n - 1 + 1
    BY FS_Interval
  <2>2. Cardinality(1 .. m) = m /\ Cardinality(1 .. n) = n
    BY <2>1
  <2>3. IsFiniteSet(D) /\ Cardinality(D) = Cardinality(1 .. m) * Cardinality(1 .. n)
    BY <2>1, FS_Product
  <2> HIDE DEF D
  <2> QED BY <2>2, <2>3, Zenon
<1>2. f \in Bijection(D, T)
  <2>1. f \in [D -> T]
    <3>1. ASSUME NEW x \in D PROVE <<s[x[1]], t[x[2]]>> \in T
      BY x[1] \in 1 .. m, x[2] \in 1 .. n
    <3> QED BY <3>1
  <2>2. ASSUME NEW x \in D, NEW y \in D, f[x] = f[y] PROVE x = y
    <3>1. s[x[1]] = s[y[1]] /\ t[x[2]] = t[y[2]]
      BY <2>2
    <3> QED BY <3>1
  <2>3. ASSUME NEW z \in T PROVE \E x \in D : f[x] = z
    <3>1. PICK i \in 1 .. m, j \in 1 .. n : z = <<s[i], t[j]>>
      OBVIOUS
    <3>2. <<i, j>> \in D /\ f[<<i, j>>] = z
      BY <3>1
    <3> QED BY <3>2
  <2>4. DOMAIN f = D
    OBVIOUS
  <2> HIDE DEF f, T, D
  <2> QED BY <2>1, <2>2, <2>3, <2>4 DEF Bijection, Injection, Surjection, IsInjective
<1> HIDE DEF f, T, D
<1>3. Cardinality(T) = Cardinality(D)
  BY <1>1, <1>2, FS_Bijection DEF ExistsBijection
<1> QED BY <1>1, <1>3 DEF T, PairsOf

LEMMA RequestIsRight == RequestInv => TargetsAreExact /\ TotalIsExact
<1> SUFFICES ASSUME RequestInv PROVE TargetsAreExact /\ TotalIsExact
  OBVIOUS
<1>1. TargetsInv /\ PortsInv
  BY DEF RequestInv
<1>2. TargetsAreExact
  <2>1. CASE targetPc = "done"
    BY <1>1, <2>1, Zenon DEF TargetsInv
  <2>2. CASE targetPc # "done"
    BY <2>2, Zenon DEF TargetsAreExact, CidrIsBlock, RangeIsInterval
  <2> QED BY <2>1, <2>2
<1>3. /\ PortsTypeOK /\ SliceIsExact /\ ports \in Seq(portMap) /\ Len(ports) \in Nat
      /\ \A i, j \in 1 .. Len(ports) : ports[i] = ports[j] => i = j
  BY <1>1, PortsAreExact
<1>4. RequestTypeOK
  BY <1>1, <1>3 DEF RequestInv, RequestTypeOK, TargetsTypeOK, TargetsInv
<1>5. ASSUME verdict = "accepted"
      PROVE  /\ total > 0
             /\ total = Cardinality(ProbesAsked)
             /\ input.form # "host" => total = Cardinality(PairsAsked)
  <2>1. targetPc = "done" /\ ips # <<>> /\ ports # <<>> /\ total = Len(ips) * Len(ports)
    BY <1>5 DEF RequestInv
  <2>3. Len(ips) \in Nat
    BY <1>1 DEF TargetsInv
  <2>4. ASSUME input.form # "host", NEW i \in 1 .. Len(ips), NEW j \in 1 .. Len(ips), ips[i] = ips[j]
        PROVE  i = j
    <3>2. PICK lo \in 0 .. Space - 1 : CountsFrom(lo)
      BY <1>1, <2>1, <2>4, Zenon DEF TargetsInv
    <3>1. Wrap(lo + i - 1) = Wrap(lo + j - 1) /\ Len(ips) <= Space /\ Space \in Nat
      BY <2>4, <3>2, NumberFits DEF CountsFrom
    <3> QED BY <2>3, <3>1 DEF Wrap
  <2>5. ASSUME input.form # "host"
        PROVE  Cardinality(PairsAsked) = Len(ips) * Len(ports)
    <3> DEFINE m == Len(ips)
               n == Len(ports)
    <3>1. m \in Nat /\ n \in Nat
      BY <1>3, <2>3
    <3>2. /\ \A i, j \in 1 .. m : ips[i] = ips[j] => i = j
          /\ \A i, j \in 1 .. n : ports[i] = ports[j] => i = j
      BY <1>3, <2>4, <2>5
    <3> HIDE DEF m, n
    <3>3. Cardinality(PairsOf(ips, m, ports, n)) = m * n
      BY <3>1, <3>2, PairsOfLists
    <3> QED BY <3>3 DEF m, n, PairsOf, PairsAsked
  <2>7. Cardinality(ProbesAsked) = Len(ips) * Len(ports)
    <3> DEFINE m == Len(ips)
               n == Len(ports)
    <3>5. PICK place : place = [i \in 1 .. m |-> i]
      OBVIOUS
    <3>1. m \in Nat /\ n \in Nat
      BY <1>3, <2>3
    <3>2. /\ \A i, j \in 1 .. m : place[i] = place[j] => i = j
          /\ \A i, j \in 1 .. n : ports[i] = ports[j] => i = j
      BY <1>3, <3>5
    <3>3. PairsOf(place, m, ports, n) = ProbesAsked
      BY <3>5 DEF PairsOf, ProbesAsked
    <3> HIDE DEF m, n
    <3>4. Cardinality(PairsOf(place, m, ports, n)) = m * n
      <4>1. \A s : (\A i, j \in 1 .. m : s[i] = s[j] => i = j)
                      => Cardinality(PairsOf(s, m, ports, n)) = m * n
        BY <3>1, <3>2, PairsOfLists
      <4> QED BY <3>2, <4>1
    <3> QED BY <3>3, <3>4 DEF m, n
  <2>6. total > 0
    <3> DEFINE m == Len(ips)
               n == Len(ports)
    <3>1. m # 0 /\ ips \in Seq(Address)
      BY <1>1, <2>1 DEF TargetsInv
    <3>2. n # 0
      BY <1>3, <2>1
    <3>3. m \in Nat \ {0} /\ n \in Nat \ {0} /\ total = m * n
      BY <1>3, <2>1, <2>3, <3>1, <3>2
    <3> HIDE DEF m, n
    <3> QED BY <3>3
  <2> QED BY <2>1, <2>5, <2>6, <2>7
<1> QED BY <1>2, <1>3, <1>4, <1>5 DEF TotalIsExact

\* A list of targets is the block of its network or the interval of its range,
\* for any number of octets of any width (expandCIDR 469-481, expandIPRange
\* 519-534).
THEOREM ListsAreExact == RequestSpec => []TargetsAreExact
<1>1. RequestInv => TargetsAreExact
  BY RequestIsRight
<1> QED BY <1>1, RequestStart, RequestStep, PTL DEF RequestSpec

\* The port list is what the field means and has no port twice, and an accepted scan
\* has one probe for every listed address and every listed port; these are of
\* different pairs unless a host name has an address twice (Start 127-159).
THEOREM TotalIsCounted == RequestSpec => []TotalIsExact
<1>1. RequestInv => TotalIsExact
  BY RequestIsRight
<1> QED BY <1>1, RequestStart, RequestStep, PTL DEF RequestSpec
=============================================================================
