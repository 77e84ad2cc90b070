------------------------------ MODULE MCConsole ------------------------------
(***************************************************************************)
(* The console with a ring of two short commands.                          *)
(***************************************************************************)
EXTENDS Console

MCChar == {"CR", "LF", "x"}
=============================================================================
