-------------------------------- MODULE MCWs --------------------------------
(* A small instance of WsChat for TLC: A and the operator speak; A comes     *)
(* twice with the same address and the second time does not read, B reads.   *)
EXTENDS WsProps

CONSTANTS A, B

Conns     == {<<A, 1>>, <<A, 2>>, <<B, 1>>}
FirstOnes == {<<A, 1>>, <<B, 1>>}
Addresses == {A, B}
FirstOf   == [c \in Conn |-> c[1]]
OnlyA     == [c \in Conn |-> IF c = <<A, 1>> THEN 1 ELSE 0]
Messages  == (UNION {{c} \X (1 .. MaxSaid[c]) : c \in Conn})
               \cup ({Admin} \X (1 .. MaxAdmin))
=============================================================================
