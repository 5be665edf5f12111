---------------------------- MODULE PortScanner ----------------------------
(***************************************************************************)
(* The concurrent port scanner of practical3/scanner/scanner.go: one        *)
(* PortScanner object, guarded by ps.mu, and for every accepted Start the   *)
(* goroutines that runScan creates -- the orchestrator, which is also the   *)
(* collector of results, the feeder of portsChan, the closer of             *)
(* resultsChan and the workers.                                             *)
(*                                                                          *)
(* A critical section of ps.mu is one step.  Everything the goroutines read *)
(* outside the mutex (ps.ctx, ps.workers, ps.totalPorts) is read in a step  *)
(* of its own, so a Stop followed by a Start can come in between.           *)
(*                                                                          *)
(* Ports and addresses of a scan are 1 .. n, in the order of the slices     *)
(* that ParsePorts and ParseTargets return.  portsChan has room for every   *)
(* port and is fed in slice order, so its content is the ports              *)
(* taken+1 .. fed and two counters stand for it.                            *)
(***************************************************************************)
EXTENDS Naturals, Sequences, FiniteSets

CONSTANTS
  MaxScans,        \* bound on the number of accepted Start calls
  Requests,        \* parsed requests: number of ips and ports, worker count
  MaxWorkers,      \* bound on the number of workers of a scan
  DefaultWorkers,  \* 100 in the code: used when the request asks for <= 0
  LiveCap,         \* 1000 in the code: capacity of the live buffer
  Outcomes         \* how a dial can end

\* A request with workers = 0 stands for every workerCount <= 0.
WorkersOf(r) == IF r.workers = 0 THEN DefaultWorkers ELSE r.workers

ASSUME ScansAssumption == MaxScans \in Nat \ {0}
ASSUME RequestsAssumption ==
  /\ Requests \subseteq [ips : Nat \ {0}, ports : Nat \ {0}, workers : Nat]
  /\ DefaultWorkers \in Nat \ {0}
  /\ MaxWorkers \in Nat
  /\ \A r \in Requests : WorkersOf(r) <= MaxWorkers
\* The unlocked clamp of numWorkers can pick up the size of a later request.
ASSUME ClampAssumption ==
  (\E r, s \in Requests : WorkersOf(r) > s.ips * s.ports) =>
     \A r \in Requests : r.ips * r.ports <= MaxWorkers
ASSUME LiveAssumption == LiveCap \in Nat
ASSUME OutcomesAssumption ==
  /\ Outcomes \subseteq {"connected", "refused", "timeout", "cancelled"}
  /\ Outcomes \ {"cancelled"} # {}

Scan     == 1 .. MaxScans
WorkerId == 1 .. MaxWorkers

VARIABLES
  \* fields of the PortScanner object
  isRunning, workers, totalPorts, scannedPorts, openPorts, liveScanned,
  ctx,            \* ps.ctx, named by the scan that created it; 0 for nil
  cancelled,      \* the contexts whose cancelFunc was called
  \* one runScan per scan
  request,        \* the ips and ports the goroutines of a scan close over
  runPc,          \* where the orchestrator is
  numWorkers,     \* its local numWorkers
  inHand,         \* the result it has received and not yet recorded
  fed, portsClosed, taken,          \* portsChan
  resultsChan, resultsClosed,       \* resultsChan
  \* the workers of a scan
  wpc,
  wtarget,        \* the port received and the position in the slice of ips
  wctx,           \* the context a select or a dial uses
  wres,           \* how the last dial ended
  \* history
  probed,         \* the targets scanIPPort was called for, per scan
  recorded,       \* how many results the collector recorded, per scan
  overlapped      \* some Start found goroutines of a stopped scan alive

objVars  == <<isRunning, workers, totalPorts, scannedPorts, openPorts,
              liveScanned, ctx, cancelled>>
runVars  == <<request, runPc, numWorkers, inHand>>
chanVars == <<fed, portsClosed, taken, resultsChan, resultsClosed>>
wVars    == <<wpc, wtarget, wctx, wres>>
histVars == <<probed, recorded, overlapped>>
vars     == <<objVars, runVars, chanVars, wVars, histVars>>

Targets(r) == (1 .. r.ports) \X (1 .. r.ips)
NoRequest  == [ips |-> 0, ports |-> 0, workers |-> 0]
NoTarget   == <<0, 0>>
Live(g)    == runPc[g] \notin {"none", "done"}
Cancelled(c) == c \in cancelled

\* The state scanIPPort reports for the way the dial ended: any error that is
\* not a timeout is "closed".
StateOf(outcome) ==
  CASE outcome = "connected" -> "open"
    [] outcome = "timeout"   -> "filtered"
    [] OTHER                 -> "closed"

Init ==
  /\ isRunning = FALSE /\ workers = 0 /\ totalPorts = 0 /\ scannedPorts = 0
  /\ openPorts = {} /\ liveScanned = <<>>
  /\ ctx = 0 /\ cancelled = {}
  /\ request       = [g \in Scan |-> NoRequest]
  /\ runPc         = [g \in Scan |-> "none"]
  /\ numWorkers    = [g \in Scan |-> 0]
  /\ inHand        = [g \in Scan |-> <<>>]
  /\ fed           = [g \in Scan |-> 0]
  /\ portsClosed   = [g \in Scan |-> FALSE]
  /\ taken         = [g \in Scan |-> 0]
  /\ resultsChan   = [g \in Scan |-> <<>>]
  /\ resultsClosed = [g \in Scan |-> FALSE]
  /\ wpc     = [g \in Scan |-> [w \in WorkerId |-> "none"]]
  /\ wtarget = [g \in Scan |-> [w \in WorkerId |-> NoTarget]]
  /\ wctx    = [g \in Scan |-> [w \in WorkerId |-> 0]]
  /\ wres    = [g \in Scan |-> [w \in WorkerId |-> "none"]]
  /\ probed   = [g \in Scan |-> {}]
  /\ recorded = [g \in Scan |-> 0]
  /\ overlapped = FALSE

-----------------------------------------------------------------------------
(* The methods of the object, called by the HTTP handlers in any order.    *)

\* What a new scan forgets of the last one.  The mutants keep a part of it.
KeepCount == UNCHANGED scannedPorts /\ openPorts' = {} /\ liveScanned' = <<>>
KeepOpenPorts == UNCHANGED openPorts /\ scannedPorts' = 0 /\ liveScanned' = <<>>
ResetProgress == scannedPorts' = 0 /\ openPorts' = {} /\ liveScanned' = <<>>

\* Start: rejected while isRunning; otherwise the object is reset, a new
\* context replaces ps.ctx and a goroutine is launched.  A request that does
\* not parse changes nothing.
MayStart == ~isRunning
Start(r) ==
  /\ MayStart
  /\ ctx < MaxScans
  /\ ctx' = ctx + 1
  /\ request' = [request EXCEPT ![ctx + 1] = r]
  /\ runPc' = [runPc EXCEPT ![ctx + 1] = "launched"]
  /\ workers' = WorkersOf(r)
  /\ totalPorts' = r.ips * r.ports
  /\ ResetProgress
  /\ isRunning' = TRUE
  /\ overlapped' = (overlapped \/ \E h \in cancelled : Live(h))
  /\ UNCHANGED <<cancelled, numWorkers, inHand, chanVars, wVars, probed, recorded>>

\* Stop: cancels the current context only if a scan is marked running.
Stop ==
  /\ isRunning
  /\ ctx # 0
  /\ cancelled' = cancelled \cup {ctx}
  /\ isRunning' = FALSE
  /\ UNCHANGED <<workers, totalPorts, scannedPorts, openPorts, liveScanned,
                 ctx, runVars, chanVars, wVars, histVars>>

\* GetStatus: hands out the live buffer and empties it.
GetStatus ==
  /\ liveScanned' = <<>>
  /\ UNCHANGED <<isRunning, workers, totalPorts, scannedPorts, openPorts,
                 ctx, cancelled, runVars, chanVars, wVars, histVars>>

\* The label GetStatus puts in the ETA field.
Eta ==
  CASE isRunning -> "Running"
    [] ~isRunning /\ scannedPorts < totalPorts /\ totalPorts > 0 -> "Stopped"
    [] OTHER -> "Finished"

-----------------------------------------------------------------------------
(* runScan: sizing, spawning, collecting.                                   *)

\* numWorkers := ps.workers, read without the mutex.
ReadWorkers(g) ==
  /\ runPc[g] = "launched"
  /\ numWorkers' = [numWorkers EXCEPT ![g] = workers]
  /\ runPc' = [runPc EXCEPT ![g] = "sized"]
  /\ UNCHANGED <<objVars, request, inHand, chanVars, wVars, histVars>>

\* numWorkers is compared with ps.totalPorts ...
Clamp(g) ==
  /\ runPc[g] = "sized"
  /\ numWorkers[g] > totalPorts
  /\ runPc' = [runPc EXCEPT ![g] = "clamping"]
  /\ UNCHANGED <<objVars, request, numWorkers, inHand, chanVars, wVars, histVars>>

\* ... and, when it is larger, replaced by a second read of it, none of them
\* under the mutex; the channels are made, the workers, the feeder and the
\* closer are spawned.
SpawnWorkers(g) ==
  \E n \in 1 .. MaxWorkers :
    /\ \/ runPc[g] = "sized" /\ numWorkers[g] <= totalPorts /\ n = numWorkers[g]
       \/ runPc[g] = "clamping" /\ n = totalPorts
    /\ numWorkers' = [numWorkers EXCEPT ![g] = n]
    /\ wpc' = [wpc EXCEPT ![g] =
                 [w \in WorkerId |-> IF w <= n THEN "enter" ELSE "none"]]
    /\ runPc' = [runPc EXCEPT ![g] = "collecting"]
    /\ UNCHANGED <<objVars, request, inHand, chanVars, wtarget, wctx, wres,
                   histVars>>

\* The range loop receives the next result ...
CollectorReceive(g) ==
  /\ runPc[g] = "collecting"
  /\ resultsChan[g] # <<>>
  /\ inHand' = [inHand EXCEPT ![g] = <<Head(resultsChan[g])>>]
  /\ resultsChan' = [resultsChan EXCEPT ![g] = Tail(@)]
  /\ runPc' = [runPc EXCEPT ![g] = "recording"]
  /\ UNCHANGED <<objVars, request, numWorkers, fed, portsClosed, taken,
                 resultsClosed, wVars, histVars>>

\* ... and its body records it under the mutex, in whatever scan the object
\* describes by now.
LiveRoom == Len(liveScanned) < LiveCap
CollectorRecord(g) ==
  LET res == Head(inHand[g]) IN
  /\ runPc[g] = "recording"
  /\ scannedPorts' = scannedPorts + 1
  /\ openPorts' = IF StateOf(res.outcome) = "open" THEN openPorts \cup {res}
                                                   ELSE openPorts
  /\ liveScanned' = IF LiveRoom THEN Append(liveScanned, res) ELSE liveScanned
  /\ inHand' = [inHand EXCEPT ![g] = <<>>]
  /\ runPc' = [runPc EXCEPT ![g] = "collecting"]
  /\ recorded' = [recorded EXCEPT ![g] = @ + 1]
  /\ UNCHANGED <<isRunning, workers, totalPorts, ctx, cancelled, request,
                 numWorkers, chanVars, wVars, probed, overlapped>>

\* The range loop ends when the channel is closed and empty; the object is
\* then marked not running.
Drained(g) == resultsClosed[g] /\ resultsChan[g] = <<>>
MarkEnded  == isRunning' = FALSE
CollectorFinish(g) ==
  /\ runPc[g] = "collecting"
  /\ Drained(g)
  /\ MarkEnded
  /\ runPc' = [runPc EXCEPT ![g] = "done"]
  /\ UNCHANGED <<workers, totalPorts, scannedPorts, openPorts, liveScanned,
                 ctx, cancelled, request, numWorkers, inHand, chanVars, wVars,
                 histVars>>

Orchestrator(g) ==
  \/ ReadWorkers(g) \/ Clamp(g) \/ SpawnWorkers(g)
  \/ CollectorReceive(g) \/ CollectorRecord(g) \/ CollectorFinish(g)

-----------------------------------------------------------------------------
(* The feeder and the closer.                                               *)

Spawned(g) == runPc[g] \in {"collecting", "recording", "done"}

\* portsChan has room for every port, so the send case is always ready; when
\* the context is cancelled too, select picks either.
FeedPort(g) ==
  /\ Spawned(g) /\ ~portsClosed[g]
  /\ fed[g] < request[g].ports
  /\ fed' = [fed EXCEPT ![g] = @ + 1]
  /\ UNCHANGED <<objVars, runVars, portsClosed, taken, resultsChan,
                 resultsClosed, wVars, histVars>>

\* The feeder closes portsChan after the last port, or early when the
\* context ps.ctx refers to at that moment is cancelled.
FedAllButOne(g) == fed[g] + 1 = request[g].ports   \* mutant
NeverFed(g) == FALSE                               \* mutant
FedAll(g) == fed[g] = request[g].ports
ClosePorts(g) ==
  /\ Spawned(g) /\ ~portsClosed[g]
  /\ FedAll(g) \/ Cancelled(ctx)
  /\ portsClosed' = [portsClosed EXCEPT ![g] = TRUE]
  /\ UNCHANGED <<objVars, runVars, fed, taken, resultsChan, resultsClosed,
                 wVars, histVars>>

Feeder(g) == FeedPort(g) \/ ClosePorts(g)

\* wg.Wait returns once every spawned worker has called wg.Done.
SomeReturned(g) == \E w \in WorkerId : wpc[g][w] = "done"   \* mutant
AllReturned(g) == \A w \in WorkerId : wpc[g][w] \in {"none", "done"}
CloseResults(g) ==
  /\ Spawned(g) /\ ~resultsClosed[g]
  /\ AllReturned(g)
  /\ resultsClosed' = [resultsClosed EXCEPT ![g] = TRUE]
  /\ UNCHANGED <<objVars, runVars, fed, portsClosed, taken, resultsChan,
                 wVars, histVars>>

-----------------------------------------------------------------------------
(* A worker.  A local that is dead is reset.                                *)

SetW(var, g, w, val) == [var EXCEPT ![g][w] = val]

\* Entering the outer select evaluates ps.ctx.Done() once: the worker then
\* waits on the context of that moment.
WorkerEnter(g, w) ==
  /\ wpc[g][w] = "enter"
  /\ wpc' = SetW(wpc, g, w, "select")
  /\ wctx' = SetW(wctx, g, w, ctx)
  /\ UNCHANGED <<objVars, runVars, chanVars, wtarget, wres, histVars>>

PeekPort(g) == UNCHANGED taken                     \* mutant
TakePort(g) == taken' = [taken EXCEPT ![g] = @ + 1]
WorkerReceive(g, w) ==
  /\ wpc[g][w] = "select"
  /\ taken[g] < fed[g]
  /\ TakePort(g)
  /\ wpc' = SetW(wpc, g, w, "probe")
  /\ wtarget' = SetW(wtarget, g, w, <<taken[g] + 1, 1>>)
  /\ wctx' = SetW(wctx, g, w, 0)
  /\ UNCHANGED <<objVars, runVars, fed, portsClosed, resultsChan,
                 resultsClosed, wres, histVars>>

\* The worker returns when portsChan is closed and empty, or when the context
\* it waits on is cancelled.
WorkerReturn(g, w) ==
  /\ wpc[g][w] = "select"
  /\ (portsClosed[g] /\ taken[g] = fed[g]) \/ Cancelled(wctx[g][w])
  /\ wpc' = SetW(wpc, g, w, "done")
  /\ wctx' = SetW(wctx, g, w, 0)
  /\ UNCHANGED <<objVars, runVars, chanVars, wtarget, wres, histVars>>

\* The inner select before each address: its default case calls scanIPPort,
\* whose DialContext takes ps.ctx.  The check and the dial are one step: a
\* Stop in between is a Stop during the dial.
AlwaysDial == TRUE                                 \* mutant
MayDial == ~Cancelled(ctx)
WorkerProbe(g, w) ==
  /\ wpc[g][w] = "probe"
  /\ MayDial
  /\ wpc' = SetW(wpc, g, w, "dialing")
  /\ wctx' = SetW(wctx, g, w, ctx)
  /\ probed' = [probed EXCEPT ![g] = @ \cup {wtarget[g][w]}]
  /\ UNCHANGED <<objVars, runVars, chanVars, wtarget, wres, recorded, overlapped>>

\* The Done case of the inner select: the rest of the addresses is dropped.
BeforeDialOrSend(g, w) == wpc[g][w] \in {"probe", "send"}   \* mutant
BeforeDial(g, w) == wpc[g][w] = "probe"
WorkerAbandon(g, w) ==
  /\ BeforeDial(g, w)
  /\ Cancelled(ctx)
  /\ wpc' = SetW(wpc, g, w, "done")
  /\ wtarget' = SetW(wtarget, g, w, NoTarget)
  /\ UNCHANGED <<objVars, runVars, chanVars, wctx, wres, histVars>>

\* The dial ends; it can end by cancellation only if its context is cancelled.
WorkerDialed(g, w) ==
  /\ wpc[g][w] = "dialing"
  /\ wpc' = SetW(wpc, g, w, "send")
  /\ \E o \in Outcomes :
       /\ o = "cancelled" => Cancelled(wctx[g][w])
       /\ wres' = SetW(wres, g, w, o)
  /\ wctx' = SetW(wctx, g, w, 0)
  /\ UNCHANGED <<objVars, runVars, chanVars, wtarget, histVars>>

\* results <- res blocks while the channel holds numWorkers results; then the
\* next address of the port, or the outer select again.
MoreIps(g, ip) == ip < request[g].ips
WorkerSend(g, w) ==
  LET port == wtarget[g][w][1]
      ip   == wtarget[g][w][2]
  IN
  /\ wpc[g][w] = "send"
  /\ Len(resultsChan[g]) < numWorkers[g]
  /\ resultsChan' = [resultsChan EXCEPT ![g] =
        Append(@, [scan |-> g, target |-> <<port, ip>>, outcome |-> wres[g][w]])]
  /\ \/ /\ MoreIps(g, ip)
        /\ wpc' = SetW(wpc, g, w, "probe")
        /\ wtarget' = SetW(wtarget, g, w, <<port, ip + 1>>)
     \/ /\ ~MoreIps(g, ip)
        /\ wpc' = SetW(wpc, g, w, "enter")
        /\ wtarget' = SetW(wtarget, g, w, NoTarget)
  /\ wres' = SetW(wres, g, w, "none")
  /\ UNCHANGED <<objVars, runVars, fed, portsClosed, taken, resultsClosed,
                 wctx, histVars>>

WorkerStep(g, w) ==
  \/ WorkerEnter(g, w) \/ WorkerReceive(g, w) \/ WorkerReturn(g, w)
  \/ WorkerProbe(g, w) \/ WorkerAbandon(g, w) \/ WorkerDialed(g, w)
  \/ WorkerSend(g, w)

-----------------------------------------------------------------------------
Next ==
  \/ \E r \in Requests : Start(r)
  \/ Stop
  \/ GetStatus
  \/ \E g \in Scan :
       \/ Orchestrator(g) \/ Feeder(g) \/ CloseResults(g)
       \/ \E w \in WorkerId : WorkerStep(g, w)

Spec == Init /\ [][Next]_vars

\* Every goroutine that can run is eventually run; a dial ends because the
\* Dialer has a timeout and the banner read a deadline.
Fairness ==
  \A g \in Scan :
    /\ WF_vars(Orchestrator(g)) /\ WF_vars(Feeder(g)) /\ WF_vars(CloseResults(g))
    /\ \A w \in WorkerId : WF_vars(WorkerStep(g, w))

FairSpec == Spec /\ Fairness
=============================================================================
