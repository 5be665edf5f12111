------------------------ MODULE MCPortScannerSerial ------------------------
(* A small instance of PortScannerSerial for TLC: two jobs one after the    *)
(* other, the second larger or smaller than the first.  The large one has   *)
(* two workers for two ports of two addresses; of the three workers of the  *)
(* small one two are clamped away.                                          *)
EXTENDS PortScannerSerial

SerialRequests == {[ips |-> 2, ports |-> 2, workers |-> 2],
                   [ips |-> 1, ports |-> 1, workers |-> 3]}
=============================================================================
