----------------------------- MODULE MCConsole -----------------------------
(* Small instances of ScanConsole for TLC.                                   *)
EXTENDS ConsoleProps

TwoPorts == {{1, 2}}

\* Every time the form is submitted it has one port or two.  With one port both
\* times one thing may go wrong, otherwise only polls are lost, delayed and
\* answered late.
OneOrTwo == {{1}, {1, 2}}
Mishaps  == [f \in [Submit -> OneOrTwo] |-> IF \A i \in Submit : f[i] = {1} THEN 1 ELSE 0]
NoMishap == [f \in [Submit -> TwoPorts] |-> 0]
=============================================================================
