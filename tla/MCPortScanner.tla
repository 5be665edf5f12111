--------------------------- MODULE MCPortScanner ---------------------------
(* Small instances of PortScanner for TLC.                                  *)
EXTENDS PortScannerEngine

\* Requests of different sizes, so that an old scan meets a smaller total; the
\* first leaves the number of workers to the default.
RestartRequests == {[ips |-> 2, ports |-> 1, workers |-> 0],
                    [ips |-> 1, ports |-> 1, workers |-> 2]}

TinyRequests == {[ips |-> 1, ports |-> 1, workers |-> 1]}
=============================================================================
