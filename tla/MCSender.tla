------------------------------- MODULE MCSender -------------------------------
(***************************************************************************)
(* Three packets, of which at most two make a frame, on a pacer whose      *)
(* rates let it send one packet or all of them in one heartbeat.           *)
(***************************************************************************)
EXTENDS Sender

SizeOf(s) == IF s = 2 THEN 3 ELSE 2

=============================================================================
