------------------------------ MODULE MCReceiver ------------------------------
(***************************************************************************)
(* Four frames of two, one, two and one packets; the last is so much later *)
(* than the first that the map of lost packets is cleared, and three       *)
(* entries are more than the map may hold.  Waiting times of seven bits:   *)
(* a quiet network, a slow one, and one whose variation makes the update   *)
(* wrap.                                                                   *)
(***************************************************************************)
EXTENDS BoeReceiver

IndexOf(s) == IF s \in {2, 5} THEN 1 ELSE 0

IntervalOf(s) == CASE s <= 2 -> 0 [] s = 3 -> 1 [] s \in 4 .. 5 -> 2 [] OTHER -> 4

Networks == { [rtt |-> 6, rttVar |-> 0],
              [rtt |-> 15, rttVar |-> 5],
              [rtt |-> 3, rttVar |-> 40] }

=============================================================================
