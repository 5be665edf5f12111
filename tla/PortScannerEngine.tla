------------------------- MODULE PortScannerEngine -------------------------
(***************************************************************************)
(* PortScanner implements ScanEngine, the scanner as its callers see it.    *)
(***************************************************************************)
EXTENDS PortScannerProps

\* The targets of g whose result is still on its way to the object.
OnTheWay(g) ==
  {wtarget[g][w] : w \in Busy(g)}
    \cup {resultsChan[g][i].target : i \in 1 .. Len(resultsChan[g])}
    \cup {inHand[g][i].target : i \in 1 .. Len(inHand[g])}

Engine == INSTANCE ScanEngine WITH
  Jobs     <- {Targets(r) : r \in Requests},
  work     <- [g \in Scan |-> Targets(request[g])],
  reported <- [g \in Scan |-> probed[g] \ OnTheWay(g)],
  alive    <- {g \in Scan : Live(g)}

\* However Start and Stop come, what a caller sees of the scanner moves only as
\* ScanEngine allows: each target is reported once, and a scan that reported
\* less than all of its targets ends only behind a Stop (Start, Stop,
\* GetStatus, runScan).
ImplementsEngine == Engine!EngineSpec
=============================================================================
