----------------------------- MODULE ScanEngine -----------------------------
(***************************************************************************)
(* The port scanner as its callers see it: the fields that GetStatus shows, *)
(* and for every scan which targets it has reported and whether it is still *)
(* alive.  How workers, channels and contexts bring the reports about is    *)
(* left to PortScanner, which implements this module for every order of     *)
(* Start and Stop.                                                          *)
(***************************************************************************)
EXTENDS Naturals, Sequences, FiniteSets

CONSTANTS
  MaxScans,   \* bound on the number of accepted Start calls
  Jobs,       \* the sets of targets a request can mean
  LiveCap,    \* 1000 in the code: capacity of the live buffer
  Outcomes    \* how a dial can end

ASSUME EngineAssumption ==
  MaxScans \in Nat /\ LiveCap \in Nat /\ \A job \in Jobs : IsFiniteSet(job)

VARIABLES
  isRunning, totalPorts, scannedPorts, openPorts, liveScanned,
  ctx,          \* the scan the object describes, 0 before the first
  cancelled,    \* the scans that were stopped
  work,         \* the targets of every scan
  reported,     \* those whose result was recorded
  alive,        \* the scans whose runScan has not ended
  overlapped    \* some Start found a stopped scan alive

engineVars == <<isRunning, totalPorts, scannedPorts, openPorts, liveScanned,
                ctx, cancelled, work, reported, alive, overlapped>>

EngineInit ==
  /\ isRunning = FALSE /\ totalPorts = 0 /\ scannedPorts = 0
  /\ openPorts = {} /\ liveScanned = <<>>
  /\ ctx = 0 /\ cancelled = {}
  /\ work = [g \in 1 .. MaxScans |-> {}]
  /\ reported = [g \in 1 .. MaxScans |-> {}]
  /\ alive = {} /\ overlapped = FALSE

\* A scan starts when none is marked running; the object forgets the last one.
Start(job) ==
  /\ ~isRunning /\ ctx < MaxScans
  /\ ctx' = ctx + 1
  /\ work' = [work EXCEPT ![ctx + 1] = job]
  /\ totalPorts' = Cardinality(job)
  /\ isRunning' = TRUE /\ scannedPorts' = 0 /\ openPorts' = {} /\ liveScanned' = <<>>
  /\ alive' = alive \cup {ctx + 1}
  /\ overlapped' = (overlapped \/ alive \cap cancelled # {})
  /\ UNCHANGED <<cancelled, reported>>

Stop ==
  /\ isRunning
  /\ isRunning' = FALSE /\ cancelled' = cancelled \cup {ctx}
  /\ UNCHANGED <<totalPorts, scannedPorts, openPorts, liveScanned, ctx, work,
                 reported, alive, overlapped>>

\* A snapshot takes the live results with it.
GetStatus ==
  /\ liveScanned' = <<>>
  /\ UNCHANGED <<isRunning, totalPorts, scannedPorts, openPorts, ctx, cancelled,
                 work, reported, alive, overlapped>>

\* A scan reports each of its targets at most once, to whatever scan the
\* object describes by then.
Report(g, t, o) ==
  LET res == [scan |-> g, target |-> t, outcome |-> o] IN
  /\ g \in alive /\ t \in work[g] \ reported[g]
  /\ reported' = [reported EXCEPT ![g] = @ \cup {t}]
  /\ scannedPorts' = scannedPorts + 1
  /\ openPorts' = IF o = "connected" THEN openPorts \cup {res} ELSE openPorts
  /\ liveScanned' = IF Len(liveScanned) < LiveCap THEN Append(liveScanned, res)
                                                  ELSE liveScanned
  /\ UNCHANGED <<isRunning, totalPorts, ctx, cancelled, work, alive, overlapped>>

\* A scan ends by itself when everything is reported; its goroutines look at
\* the context of the newest scan, so a Stop of a later one ends it, too.
End(g) ==
  /\ g \in alive
  /\ reported[g] = work[g] \/ \E h \in cancelled : h >= g
  /\ alive' = alive \ {g} /\ isRunning' = FALSE
  /\ UNCHANGED <<totalPorts, scannedPorts, openPorts, liveScanned, ctx, cancelled,
                 work, reported, overlapped>>

Goroutines(g) == End(g) \/ \E t \in work[g], o \in Outcomes : Report(g, t, o)

EngineNext ==
  \/ \E job \in Jobs : Start(job)
  \/ Stop \/ GetStatus
  \/ \E g \in 1 .. MaxScans : Goroutines(g)

EngineSpec == EngineInit /\ [][EngineNext]_engineVars
=============================================================================
