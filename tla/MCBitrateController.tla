------------------------- MODULE MCBitrateController -------------------------
(***************************************************************************)
(* Rates from 2 to 4 that grow by one, a 32-bit clock whose sign changes   *)
(* in the last of three ticks, an interval of one tick, reports of no loss *)
(* and of heavy loss that make some loss on average, and memory that was   *)
(* cleared or holds large numbers.                                         *)
(***************************************************************************)
EXTENDS BitrateController

MCGarbage ==
    { [rate |-> 0, delayed |-> 0, incoming |-> 0, flag |-> FALSE, lost |-> 0,
       expected |-> 0, time |-> 0, rtt |-> 0, reserved |-> 0,
       told |-> [bitrate |-> MinConf, loss |-> 0, rtt |-> 0, reserved |-> 0]],
      [rate |-> 9, delayed |-> 7, incoming |-> 3, flag |-> TRUE, lost |-> 2000,
       expected |-> 1, time |-> 0, rtt |-> 1, reserved |-> 1,
       told |-> [bitrate |-> 3, loss |-> 2, rtt |-> 1, reserved |-> 0]] }

=============================================================================
