------------------------------ MODULE MCRoutes ------------------------------
(* A small instance of RoutesView for TLC: one program has two sockets, the  *)
(* others one of the same addresses, and all get the same pid.  The name of  *)
(* one begins with the name of another.                                      *)
EXTENDS RoutesProps

Sockets    == [n \in Name |-> IF n = "web" THEN Local ELSE {2}]
FirstWords == [n \in Name |-> IF n = "web admin" THEN "web" ELSE n]
=============================================================================
