---------------------------- MODULE ScanConsole ----------------------------
(***************************************************************************)
(* The console of the scanner: the page of practical3/frontend/app.js in a  *)
(* browser and the HTTP handlers of practical3/main.go, over ScanEngine.    *)
(*                                                                          *)
(* A handler of the page runs without interruption up to its next await, so *)
(* the code between two awaits is one step.  A request travels to the       *)
(* server and its answer travels back, each in its own time: polls overtake *)
(* each other, and any of them can be lost.                                 *)
(***************************************************************************)
EXTENDS ScanEngine

CONSTANTS
  MaxSubmits,   \* bound on how often the form is submitted
  PollSlots,    \* the status requests that can be under way at once
  GridLimit,    \* 800 in the code: largest scan with a cell per port
  RollCap,      \* 200 in the code: nodes of the rolling view
  MaxMishaps    \* for every way to fill in the form a bound on how often, in all,
                \* the form is submitted before the last answer, a start request or
                \* its answer is lost, or a poll is sent before the last one was
                \* answered

Submit == 1 .. MaxSubmits

ASSUME ConsoleAssumption ==
  /\ MaxSubmits \in Nat \ {0} /\ GridLimit \in Nat /\ RollCap \in Nat \ {0}
  /\ MaxMishaps \in [[Submit -> Jobs] -> Nat]

VARIABLES
  \* requests
  subPc,       \* where the start request of a submit is
  subAns,      \* the total_ports of its answer
  poll,        \* the status request of a slot: <<>>, <<"sent">> or its answer
  stopping,    \* a stop request is on its way to the server
  \* the page
  timers,      \* the intervals that are set, named by their submit
  pollInterval,         \* 0 for null
  locked,      \* the form is disabled, Start hidden, Stop shown
  shown,       \* the numbers and the label in the statistics
  scanResultsList, exportsOn,
  totalPortsCount,
  gridNo,      \* which grid this is: every scan builds a new one
  cells,       \* its child nodes: what each of them shows
  rolling,     \* the contents of its rolling containers
  gridPortMap, \* the cell of a target: number of its grid, index
  \* the user and history
  form,        \* the job that the fields ask for, at every submit
  mishaps,     \* how often something of what MaxMishaps bounds has happened
  disturbed    \* what happened that the page is not prepared for

reqVars  == <<subPc, subAns, poll, stopping>>
gridVars == <<gridNo, cells, rolling, gridPortMap>>
pageVars == <<timers, pollInterval, locked, shown, scanResultsList, exportsOn,
              totalPortsCount, gridVars>>
histVars == <<form, mishaps, disturbed>>
vars     == <<engineVars, reqVars, pageVars, histVars>>

NoAnswer == [scan |-> 0, total |-> 0]
NoCells  == [t \in {} |-> <<0, 0>>]
Blank    == [scanned |-> 0, total |-> 0, label |-> "Ready"]

Init ==
  /\ EngineInit /\ form \in [Submit -> Jobs]
  /\ subPc = [i \in Submit |-> "none"] /\ subAns = [i \in Submit |-> NoAnswer]
  /\ poll = [p \in PollSlots |-> <<>>] /\ stopping = FALSE
  /\ timers = {} /\ pollInterval = 0 /\ locked = FALSE
  /\ shown = Blank /\ scanResultsList = {} /\ exportsOn = FALSE
  /\ totalPortsCount = 0
  /\ gridNo = 0 /\ cells = <<"placeholder">> /\ rolling = <<>> /\ gridPortMap = NoCells
  /\ mishaps = 0 /\ disturbed = {}

Waiting  == {i \in Submit : subPc[i] \in {"sent", "starting", "ok", "refused"}}
Disturb(what, cond) == disturbed' = IF cond THEN disturbed \cup {what} ELSE disturbed
Mishap(cond) ==
  /\ cond => mishaps < MaxMishaps[form]
  /\ UNCHANGED form
  /\ mishaps' = IF cond THEN mishaps + 1 ELSE mishaps

-----------------------------------------------------------------------------
(* Starting a scan.                                                         *)

\* The form is submitted: the page reads its fields, forgets the last scan, then
\* sends the request.  Nothing keeps the user from submitting again before the answer.
KeepMap == UNCHANGED gridPortMap                               \* mutant
ClearMap == gridPortMap' = NoCells
SubmitForm(i) ==
  /\ ~locked /\ subPc[i] = "none" /\ \A k \in 1 .. i - 1 : subPc[k] # "none"
  /\ subPc' = [subPc EXCEPT ![i] = "sent"]
  /\ shown' = [shown EXCEPT !.scanned = 0, !.total = 0]
  /\ scanResultsList' = {} /\ exportsOn' = FALSE /\ totalPortsCount' = 0
  /\ ClearMap
  /\ Mishap(Waiting # {}) /\ Disturb("doubleSubmit", Waiting # {})
  /\ UNCHANGED <<engineVars, subAns, poll, stopping, timers, pollInterval, locked,
                 gridNo, cells, rolling>>

\* handleScanStart calls Start, which refuses the request while a scan is
\* running, and at any time if its targets or ports do not parse ...
ServerStart(i) ==
  /\ subPc[i] = "sent"
  /\ \/ /\ Start(form[i])
        /\ subPc' = [subPc EXCEPT ![i] = "starting"]
     \/ /\ subPc' = [subPc EXCEPT ![i] = "refused"]
        /\ UNCHANGED engineVars
  /\ UNCHANGED <<subAns, poll, stopping, pageVars, histVars>>

\* ... and then GetStatus for the total, which also takes the live results
\* that were recorded in between.
ServerTotal(i) ==
  /\ subPc[i] = "starting"
  /\ GetStatus
  /\ subAns' = [subAns EXCEPT ![i] = [scan |-> ctx, total |-> totalPorts]]
  /\ subPc' = [subPc EXCEPT ![i] = "ok"]
  /\ UNCHANGED <<poll, stopping, pageVars, histVars>>

\* A scan of at most GridLimit ports gets a cell for every port, a larger one
\* a placeholder to which rolling containers are added.
NewGrid(total) ==
  /\ gridNo' = gridNo + 1
  /\ cells' = IF total > GridLimit THEN <<"placeholder">>
                                   ELSE [n \in 1 .. total |-> "pending"]
  /\ rolling' = <<>>

StartAnswered(i) ==
  /\ subPc[i] = "ok"
  /\ subPc' = [subPc EXCEPT ![i] = "done"] /\ subAns' = [subAns EXCEPT ![i] = NoAnswer]
  /\ locked' = TRUE
  /\ NewGrid(subAns[i].total) /\ totalPortsCount' = subAns[i].total
  /\ shown' = [shown EXCEPT !.label = "Scanning"]
  /\ timers' = timers \cup {i} /\ pollInterval' = i
  /\ UNCHANGED <<engineVars, poll, stopping, scanResultsList, exportsOn,
                 gridPortMap, histVars>>

\* An error answer only raises an alert; so does a request or an answer that
\* is lost.
StartFails(i) ==
  /\ subPc[i] \in {"refused", "sent", "ok"}
  /\ subPc' = [subPc EXCEPT ![i] = "done"] /\ subAns' = [subAns EXCEPT ![i] = NoAnswer]
  /\ Mishap(subPc[i] # "refused") /\ Disturb("lostStart", subPc[i] = "ok")
  /\ UNCHANGED <<engineVars, poll, stopping, pageVars>>

-----------------------------------------------------------------------------
(* Polling.                                                                 *)

\* A timer fires and a status request is sent, whether or not the last one was
\* answered.  The slots are numbers and alike: the first free one is taken.
Tick(p) ==
  /\ timers # {} /\ poll[p] = <<>> /\ \A q \in PollSlots : q < p => poll[q] # <<>>
  /\ poll' = [poll EXCEPT ![p] = <<"sent">>]
  /\ Mishap(\E q \in PollSlots : poll[q] # <<>>)
  /\ UNCHANGED <<engineVars, subPc, subAns, stopping, pageVars, disturbed>>

Snapshot == [scan |-> ctx, running |-> isRunning, total |-> totalPorts,
             scanned |-> scannedPorts, open |-> openPorts, live |-> liveScanned]

\* handleScanStatus.
ServerStatus(p) ==
  /\ poll[p] = <<"sent">>
  /\ poll' = [poll EXCEPT ![p] = <<"answer", Snapshot>>]
  /\ GetStatus
  /\ UNCHANGED <<subPc, subAns, stopping, pageVars, histVars>>

\* One live result in the grid: its own cell, or the next one that is free.
\* A cell of an older grid can still be written to, but nobody sees it.
Place(g, res) ==
  LET next == Cardinality(DOMAIN g.map) + 1
      new  == res.target \notin DOMAIN g.map
      map  == IF new /\ next <= Len(g.cells)
                THEN [t \in DOMAIN g.map \cup {res.target} |->
                        IF t = res.target THEN <<gridNo, next>> ELSE g.map[t]]
                ELSE g.map
      here == res.target \in DOMAIN map /\ map[res.target][1] = gridNo
  IN [map |-> map,
      cells |-> IF here THEN [g.cells EXCEPT ![map[res.target][2]] = res] ELSE g.cells]

\* The live results of a poll, one after the other.
PlaceAll(g, live) ==
  LET placed[n \in 0 .. Len(live)] ==
        IF n = 0 THEN g ELSE Place(placed[n - 1], live[n])
  IN placed[Len(live)]

\* In a large scan the results go to a container of their own, which keeps the
\* last RollCap of them: the page looks for '.rolling-container', a class that
\* it gives to no element.
Kept(live) ==
  LET n == Len(live) IN
  IF n <= RollCap THEN live ELSE SubSeq(live, n - RollCap + 1, n)
updateGrid(live) ==
  IF totalPortsCount > GridLimit
    THEN /\ rolling' = Append(rolling, Kept(live))
         /\ cells' = Append(cells, "container")
         /\ UNCHANGED gridPortMap
    ELSE LET g == PlaceAll([map |-> gridPortMap, cells |-> cells], live) IN
         /\ gridPortMap' = g.map /\ cells' = g.cells
         /\ UNCHANGED rolling

\* What ends the polling.
AllScanned(snap) == snap.scanned = snap.total                  \* mutant
Over(snap) == ~snap.running
KeepTimer  == UNCHANGED timers /\ pollInterval' = 0            \* mutant
ClearTimer == timers' = timers \ {pollInterval} /\ pollInterval' = 0
AlwaysFinished(snap) == "Finished"                             \* mutant
OverLabel(snap) == IF snap.scanned = snap.total THEN "Finished" ELSE "Stopped"

PollAnswered(p) ==
  LET snap == poll[p][2] IN
  /\ Len(poll[p]) = 2
  /\ poll' = [poll EXCEPT ![p] = <<>>]
  /\ IF snap.live = <<>> THEN UNCHANGED <<cells, rolling, gridPortMap>>
                         ELSE updateGrid(snap.live)
  /\ scanResultsList' = snap.open
  /\ shown' = [scanned |-> snap.scanned, total |-> snap.total,
               label |-> IF Over(snap) THEN OverLabel(snap) ELSE shown.label]
  /\ IF Over(snap)
       THEN /\ ClearTimer /\ locked' = FALSE
            /\ exportsOn' = (exportsOn \/ snap.open # {})
       ELSE UNCHANGED <<timers, pollInterval, locked, exportsOn>>
  /\ Disturb("lateAnswer", snap.scan # ctx \/ ~locked)
  /\ UNCHANGED <<engineVars, subPc, subAns, stopping, totalPortsCount, gridNo,
                 form, mishaps>>

\* A poll that fails, on its way there or back, leaves the timer running.
PollFails(p) ==
  /\ poll[p] # <<>>
  /\ poll' = [poll EXCEPT ![p] = <<>>]
  /\ UNCHANGED <<engineVars, subPc, subAns, stopping, pageVars, histVars>>

-----------------------------------------------------------------------------
(* The Stop button; its answer only enables it again.                       *)

ClickStop ==
  /\ locked /\ ~stopping
  /\ stopping' = TRUE
  /\ UNCHANGED <<engineVars, subPc, subAns, poll, pageVars, histVars>>

\* Stop does nothing when no scan is running.  A request that is lost is over, too.
ServerStop ==
  /\ stopping
  /\ stopping' = FALSE
  /\ Stop \/ UNCHANGED engineVars
  /\ UNCHANGED <<subPc, subAns, poll, pageVars, histVars>>

\* The two export buttons write the list they find, if they are enabled.
Exported == IF exportsOn THEN scanResultsList ELSE {}

-----------------------------------------------------------------------------
Scanning == \E g \in 1 .. MaxScans : Goroutines(g) /\ UNCHANGED <<reqVars, pageVars, histVars>>

Next ==
  \/ \E i \in Submit :
       SubmitForm(i) \/ ServerStart(i) \/ ServerTotal(i) \/ StartAnswered(i) \/ StartFails(i)
  \/ \E p \in PollSlots : Tick(p) \/ ServerStatus(p) \/ PollAnswered(p) \/ PollFails(p)
  \/ ClickStop \/ ServerStop
  \/ Scanning

Spec == Init /\ [][Next]_vars

\* Scans end (PortScanner, EveryScanEnds), timers fire, the server answers,
\* and of the answers that are sent again and again some arrive.
Fairness ==
  /\ WF_vars(Scanning)
  /\ WF_vars(\E i \in Submit : ServerStart(i) \/ ServerTotal(i))
  /\ WF_vars(\E p \in PollSlots : Tick(p))
  /\ SF_vars(\E p \in PollSlots : ServerStatus(p))
  /\ SF_vars(\E p \in PollSlots : PollAnswered(p))
FairSpec == Spec /\ Fairness
=============================================================================
