------------------------------- MODULE MCChat -------------------------------
(* A small instance of TcpChat for TLC: connections are pairs of an address  *)
(* and an incarnation.  A comes twice and says nothing, B says a line.       *)
EXTENDS ChatProps

CONSTANTS A, B

Conns     == {<<A, 1>>, <<A, 2>>, <<B, 1>>}
Addresses == {A, B}
FirstOf   == [c \in Conn |-> c[1]]
OnlyB     == [c \in Conn |-> IF c[1] = B THEN 1 ELSE 0]
Messages  == (UNION {{c} \X (0 .. MaxLines[c] + 1) : c \in Conn})
               \cup ({Admin} \X (1 .. MaxAdmin))
=============================================================================
