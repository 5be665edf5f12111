-------------------------- MODULE PortScannerProps --------------------------
(***************************************************************************)
(* What the scanner of PortScanner must never do, and what it must          *)
(* eventually do.  Most properties speak of every scan separately and hold  *)
(* however the calls of Start and Stop come; those that relate the shared   *)
(* object to its current scan hold as long as no Start found goroutines of  *)
(* a stopped scan still alive (~overlapped).                                *)
(***************************************************************************)
EXTENDS PortScanner

Result == [scan : Scan, target : Nat \X Nat, outcome : Outcomes]

TypeObj ==
  /\ isRunning \in BOOLEAN /\ workers \in 0 .. MaxWorkers
  /\ totalPorts \in Nat /\ scannedPorts \in Nat
  /\ openPorts \subseteq Result
  /\ liveScanned \in Seq(Result) /\ Len(liveScanned) <= LiveCap
  /\ ctx \in 0 .. MaxScans /\ cancelled \subseteq 1 .. ctx
TypeRun ==
  /\ request \in [Scan -> Requests \cup {NoRequest}]
  /\ runPc \in [Scan -> {"none", "launched", "sized", "clamping", "collecting",
                         "recording", "done"}]
  /\ numWorkers \in [Scan -> 0 .. MaxWorkers]
  /\ inHand \in [Scan -> Seq(Result)]
  /\ \A g \in Scan : runPc[g] = "recording" => Len(inHand[g]) = 1
TypeChan ==
  /\ fed \in [Scan -> Nat] /\ taken \in [Scan -> Nat]
  /\ portsClosed \in [Scan -> BOOLEAN] /\ resultsClosed \in [Scan -> BOOLEAN]
  /\ resultsChan \in [Scan -> Seq(Result)]
TypeWorkers ==
  /\ wpc \in [Scan -> [WorkerId -> {"none", "enter", "select", "probe",
                                    "dialing", "send", "done"}]]
  /\ wtarget \in [Scan -> [WorkerId -> Nat \X Nat]]
  /\ wctx \in [Scan -> [WorkerId -> 0 .. MaxScans]]
  /\ wres \in [Scan -> [WorkerId -> Outcomes \cup {"none"}]]
  /\ \A g \in Scan, w \in WorkerId : wpc[g][w] = "send" => wres[g][w] \in Outcomes
TypeHist ==
  /\ probed \in [Scan -> SUBSET (Nat \X Nat)]
  /\ recorded \in [Scan -> Nat]
  /\ overlapped \in BOOLEAN

\* Every variable has its type, the live buffer stays within its capacity, the
\* collector holds a result when it records one, and a worker sends
\* only what a dial returned (runScan, worker).
TypeOK == TypeObj /\ TypeRun /\ TypeChan /\ TypeWorkers /\ TypeHist

-----------------------------------------------------------------------------
(* One scan, whatever the others do.                                        *)

\* resultsChan is closed by the goroutine that waits for the WaitGroup, and
\* no worker can send on it afterwards: a send on a closed channel panics
\* and takes the server down (runScan 276-280, worker 306-329).
NoSendOnClosed ==
  \A g \in Scan : resultsClosed[g] =>
     \A w \in WorkerId : wpc[g][w] \in {"none", "done"}

\* The workers that have called scanIPPort and not yet delivered its result.
Busy(g) == {w \in WorkerId : wpc[g][w] \in {"dialing", "send"}}

\* No result is lost and none is counted twice: every target ever probed is
\* being dialed, waiting to be sent, in resultsChan, in the collector's hand,
\* or recorded -- also when the scan is stopped half way and when resultsChan
\* is closed with results still in it (runScan, worker).
NoResultLost ==
  \A g \in Scan :
    Cardinality(probed[g]) = Cardinality(Busy(g)) + Len(resultsChan[g])
                               + Len(inHand[g]) + recorded[g]

\* A target is dialed by one worker and once: the workers share portsChan and
\* ips without a lock.
ProbeAtMostOnce ==
  [][\A g \in Scan, w \in WorkerId :
       wpc[g][w] = "probe" /\ wpc'[g][w] = "dialing" => wtarget[g][w] \notin probed[g]]_vars

\* A scan ends only after every port of every address was probed and its result
\* recorded, unless it or a later one was stopped, whose context its goroutines
\* may ask instead of their own: the feeder, the closer and the workers each
\* decide for themselves when to give up.
NotStopped(g) == \A h \in cancelled : h < g
CompleteUnlessStopped ==
  \A g \in Scan :
    runPc[g] = "done" /\ NotStopped(g) =>
       /\ probed[g] = Targets(request[g])
       /\ recorded[g] = request[g].ips * request[g].ports

\* runScan is over only when none of its workers can still dial.
DoneMeansQuiet ==
  \A g \in Scan : runPc[g] = "done" =>
     /\ \A w \in WorkerId : wpc[g][w] \in {"none", "done"}
     /\ resultsChan[g] = <<>> /\ inHand[g] = <<>>

-----------------------------------------------------------------------------
(* The shared object and its current scan.                                  *)

\* What the snapshots count is what the collector of the current scan has
\* recorded, so progress is never above 100% and never counts a result of an
\* older scan (GetStatus 201-204, runScan 283-284).
ProgressIsOwn ==
  ~overlapped /\ ctx # 0 =>
    /\ scannedPorts = recorded[ctx]
    /\ scannedPorts <= totalPorts

\* Every open port shown was found by the current scan, on a target it was
\* asked to probe (Start 162, runScan 285-287).
OpenPortsAreOwn ==
  ~overlapped => \A res \in openPorts : res.scan = ctx /\ res.target \in probed[ctx]

\* isRunning is true exactly while the current scan is alive and not stopped;
\* no other scan is alive (Start 122, Stop 184, runScan 301).
RunningMeansLive ==
  ~overlapped /\ ctx # 0 =>
    /\ isRunning <=> Live(ctx) /\ ctx \notin cancelled
    /\ \A g \in Scan : Live(g) => g = ctx

\* The ETA field says "Stopped" only after a Stop of this scan, and
\* "Finished" without one only when every result was counted (GetStatus
\* 213-224 derives both from two counters).
EtaIsTrue ==
  ~overlapped /\ ctx # 0 =>
    /\ Eta = "Stopped" => ctx \in cancelled
    /\ Eta = "Finished" /\ ctx \notin cancelled => scannedPorts = Cardinality(probed[ctx])

\* All that a snapshot says of the current scan -- the flag, the two counters,
\* the open ports and the ETA field -- is true of it, and the live results stay
\* within their buffer (GetStatus 191-244, runScan 289-290).
StatusIsTrue ==
  TypeOK /\ RunningMeansLive /\ ProgressIsOwn /\ OpenPortsAreOwn /\ EtaIsTrue

\* Once its scan is stopped, no worker begins another dial, as long as no Start
\* came before the goroutines of the scan were gone.  Each worker asks, before
\* every address, a context it reads without the mutex (worker 319-325, Stop
\* 179: "Stop cancels the running scan task").
StopIsFinal ==
  [][~overlapped' => \A g \in cancelled : probed'[g] = probed[g]]_vars

\* A Start is refused while a scan that nobody stopped is alive (Start
\* 122-125: "a scan is already running").
OneScanAtATime ==
  [][ctx' # ctx => \A g \in Scan : Live(g) => g \in cancelled]_vars

-----------------------------------------------------------------------------
(* The invariant of one scan, inductive together with TypeOK.               *)

\* Between receiving a port and leaving it for the next one.
OnPort(g, w) == wpc[g][w] \in {"probe", "dialing", "send"}

\* A scan that was not started, or is still sizing itself, has touched nothing.
Untouched(g) ==
  /\ fed[g] = 0 /\ taken[g] = 0 /\ ~portsClosed[g]
  /\ resultsChan[g] = <<>> /\ ~resultsClosed[g]
  /\ wpc[g] = [w \in WorkerId |-> "none"]
  /\ probed[g] = {} /\ recorded[g] = 0

\* Targets of the port of w before its position are probed, later ones not.
ProbedInOrder(g, w) ==
  \A j \in 1 .. request[g].ips :
    <<wtarget[g][w][1], j>> \in probed[g] <=>
       j < wtarget[g][w][2] \/ (j = wtarget[g][w][2] /\ wpc[g][w] # "probe")

\* The life of a scan: untouched until its workers are spawned; resultsChan
\* closed only behind the last worker, and drained when runScan is over.
LifeOK(g) ==
  /\ g > ctx <=> runPc[g] = "none"
  /\ runPc[g] # "none" => request[g] \in Requests
  /\ ~Spawned(g) => Untouched(g)
  /\ resultsClosed[g] => AllReturned(g)
  /\ runPc[g] # "recording" => inHand[g] = <<>>
  /\ runPc[g] = "done" => Drained(g)

\* The ports already taken are divided among the workers, who probe the
\* addresses of a port in order.
PortsOK(g) ==
  /\ taken[g] <= fed[g] /\ fed[g] <= request[g].ports
  /\ probed[g] \subseteq (1 .. taken[g]) \X (1 .. request[g].ips)
  /\ \A w \in WorkerId : OnPort(g, w) =>
       /\ wtarget[g][w] \in (1 .. taken[g]) \X (1 .. request[g].ips)
       /\ ProbedInOrder(g, w)
       /\ \A v \in WorkerId : v # w /\ OnPort(g, v) =>
            wtarget[g][v][1] # wtarget[g][w][1]

ScanInv == \A g \in Scan : LifeOK(g) /\ PortsOK(g)

-----------------------------------------------------------------------------
(* Liveness.                                                                *)

\* Every scan comes to its end: the collector, the workers, the feeder and
\* the closer never wait for each other in a circle, with or without a Stop,
\* and no feeder is left behind with portsChan open.
EveryScanEnds ==
  \A g \in Scan : runPc[g] = "launched" ~> runPc[g] = "done" /\ portsClosed[g]
=============================================================================
