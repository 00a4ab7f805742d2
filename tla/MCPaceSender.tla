---------------------------- MODULE MCPaceSender ----------------------------
(***************************************************************************)
(* Small values for PaceSender: time in steps of which a queue may last    *)
(* three, a budget window of two, and packets of two sizes.                *)
(***************************************************************************)
EXTENDS PaceSender

SizeOf(s) == IF s = 2 THEN 3 ELSE 2

=============================================================================
