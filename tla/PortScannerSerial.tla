------------------------- MODULE PortScannerSerial -------------------------
(***************************************************************************)
(* PortScanner under a caller that, after a Stop, waits for the goroutines  *)
(* of the stopped scan before it calls Start again.  Nothing in the object  *)
(* tells the caller when that is; under this assumption the object          *)
(* implements ScanJob.                                                      *)
(***************************************************************************)
EXTENDS PortScannerProps

SerialNext == Next /\ ~overlapped'
SerialSpec == Init /\ [][SerialNext]_vars

\* The published flag says whether a job is running; whether a job that is
\* not running has ended is known to its goroutines only.
Phase ==
  CASE isRunning                       -> "running"
    [] ~isRunning /\ ctx = 0           -> "idle"
    [] ~isRunning /\ ctx # 0 /\ Live(ctx)  -> "stopping"
    [] ~isRunning /\ ctx # 0 /\ ~Live(ctx) -> "ended"

Job == INSTANCE ScanJob WITH
  Sizes   <- {r.ips * r.ports : r \in Requests},
  phase   <- Phase,
  total   <- totalPorts,
  counted <- scannedPorts

\* The scanner implements the job: what the snapshots show moves only as a
\* job may (PortScanner.Start, Stop, GetStatus and runScan).
ImplementsJob == Job!Spec
=============================================================================
