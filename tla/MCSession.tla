------------------------------ MODULE MCSession ------------------------------
(***************************************************************************)
(* Model values for Session: two connect ids, two listeners, timers that   *)
(* expire after three tries (CONNECT, DISCONNECT) and twelve pings, an     *)
(* interruption after four pings.                                          *)
(***************************************************************************)
EXTENDS Session

=============================================================================
