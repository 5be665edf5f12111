----------------------------- MODULE MCHoneypot -----------------------------
(* A small instance of Honeypot for TLC.                                     *)
EXTENDS HoneypotProps

CONSTANTS Outside, Localhost

TwoPeers   == {Outside, Localhost}
OpenPorts  == [p \in TwoPeers |-> IF p = Outside THEN {22} ELSE {}]
ScanPorts  == <<22, 8080>>
TwoLists   == {{Localhost}, {Outside}}
=============================================================================
