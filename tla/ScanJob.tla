------------------------------ MODULE ScanJob ------------------------------
(***************************************************************************)
(* What a PortScanner promises to a caller that starts a scan only when the *)
(* goroutines of the last one are gone: one job at a time, whose progress   *)
(* counts up to its total and that ends by itself only when all of it is    *)
(* done.                                                                    *)
(***************************************************************************)
EXTENDS Naturals

CONSTANTS Sizes    \* the number of probes a job can consist of

VARIABLES
  phase,    \* "idle", "running", "stopping" or "ended"
  total,    \* the probes the job consists of
  counted   \* the results counted so far

jobVars == <<phase, total, counted>>

Init == phase = "idle" /\ total = 0 /\ counted = 0

\* A new job is accepted when there is none, or the last one has ended.
Begin(n) ==
  /\ phase \in {"idle", "ended"}
  /\ phase' = "running" /\ total' = n /\ counted' = 0

\* A stopped job may still count results that were on their way.
Count ==
  /\ phase \in {"running", "stopping"}
  /\ counted < total
  /\ counted' = counted + 1
  /\ UNCHANGED <<phase, total>>

Stop ==
  /\ phase = "running"
  /\ phase' = "stopping"
  /\ UNCHANGED <<total, counted>>

\* A running job ends when everything is counted, a stopped one at any time.
End ==
  /\ phase = "stopping" \/ (phase = "running" /\ counted = total)
  /\ phase' = "ended"
  /\ UNCHANGED <<total, counted>>

Next == (\E n \in Sizes : Begin(n)) \/ Count \/ Stop \/ End

Spec == Init /\ [][Next]_jobVars
=============================================================================
