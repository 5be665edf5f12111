---------------------------- MODULE ConsoleProps ----------------------------
(***************************************************************************)
(* What the console of ScanConsole must never show, and what it must        *)
(* eventually do.  disturbed names what the page is not prepared for:       *)
(*   doubleSubmit  the form was submitted while a start was under way,      *)
(*   lateAnswer    a poll was answered when polling was over, or when the   *)
(*                 scan it tells of had been replaced,                      *)
(*   lostStart     the answer to an accepted start was lost.                *)
(* Each property says which of them it does not survive.                    *)
(***************************************************************************)
EXTENDS ScanConsole, SequencesExt

Never(what) == disturbed \cap what = {}
Target == UNION Jobs
Result == [scan : 1 .. MaxScans, target : Target, outcome : Outcomes]

\* Every variable has its type, a cell that is mapped has an index, and the live
\* results a poll brings are no more than the buffer holds.
TypeOK ==
  /\ isRunning \in BOOLEAN /\ ctx \in 0 .. MaxScans /\ alive \subseteq 1 .. ctx
  /\ subPc \in [Submit -> {"none", "sent", "starting", "ok", "refused", "done"}]
  /\ subAns \in [Submit -> [scan : 0 .. MaxScans, total : Nat]]
  /\ \A p \in PollSlots : poll[p] \in {<<>>, <<"sent">>} \/
       (Len(poll[p]) = 2 /\ Len(poll[p][2].live) <= LiveCap)
  /\ stopping \in BOOLEAN
  /\ timers \subseteq Submit /\ pollInterval \in timers \cup {0}
  /\ locked \in BOOLEAN /\ exportsOn \in BOOLEAN
  /\ shown \in [scanned : Nat, total : Nat,
                label : {"Ready", "Scanning", "Finished", "Stopped"}]
  /\ scanResultsList \subseteq Result
  /\ gridPortMap \in [DOMAIN gridPortMap -> (0 .. gridNo) \X (Nat \ {0})]
  /\ \A n \in 1 .. Len(rolling) : Len(rolling[n]) <= RollCap

\* No timer is left that nobody can clear, and one is set exactly while the
\* controls are locked; a second submit, answered too, overwrites the variable
\* that holds the first timer (app.js 179, 294-300).
NoTimerLeaks ==
  TypeOK /\ (Never({"doubleSubmit"}) =>
     timers = (IF locked THEN {pollInterval} ELSE {}) /\ (locked <=> pollInterval # 0))

\* While a scan runs that the user was told of, the Stop button is there
\* (app.js 165-169, 293-300; main.go 118-130).
StopIsReachable ==
  Never({"lateAnswer", "lostStart"}) /\ isRunning /\ Waiting = {} => locked

\* A scan shown as finished is: all its targets are reported, all its open ports
\* are listed, and what can be exported is the whole result (app.js 286-317).
FinishedIsFinal ==
  Never({"doubleSubmit", "lateAnswer"}) /\ ~overlapped
  /\ shown.label = "Finished" /\ shown.total # 0 =>
     /\ reported[ctx] = work[ctx] /\ shown.total = Cardinality(work[ctx])
     /\ scanResultsList = openPorts /\ Exported = openPorts

\* In a grid with a cell per port, every result that has come in is seen in a
\* cell of its own and there is a cell for every target still to come
\* (app.js 254-262, 358-388).
GridIsTrue ==
  Never({"doubleSubmit", "lateAnswer"}) /\ ~overlapped
  /\ 0 < totalPortsCount /\ totalPortsCount <= GridLimit =>
     /\ Len(cells) = Cardinality(work[ctx])
     /\ DOMAIN gridPortMap \subseteq reported[ctx]
     /\ \A t \in DOMAIN gridPortMap :
          /\ gridPortMap[t][1] = gridNo
          /\ cells[gridPortMap[t][2]].target = t

\* The rolling view of a large scan stays within its bound (app.js 353: "Cap
\* rolling view nodes to 200 elements to preserve performance").
RollingIsCapped == Len(FlattenSeq(rolling)) <= RollCap

-----------------------------------------------------------------------------
\* The controls come back: a scan that is over is noticed, however polls are
\* delayed, reordered or lost, and whatever disturbed the page.
ControlsComeBack == locked ~> ~locked
=============================================================================
