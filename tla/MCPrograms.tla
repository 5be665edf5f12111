----------------------------- MODULE MCPrograms -----------------------------
(* A small instance of ChatPrograms for TLC.                                *)
EXTENDS ProgramsProps
=============================================================================
