------------------------------ MODULE MCLounge ------------------------------
(* A small instance of Lounge for TLC.                                       *)
EXTENDS LoungeProps

CONSTANTS Picture, Text

Files    == {Picture, Text}
Pictures == {Picture}
=============================================================================
