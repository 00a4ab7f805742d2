----------------------------- MODULE MCDelaySignal -----------------------------
(***************************************************************************)
(* Packets sent before, with and after the group's first packet, and a lap *)
(* of the 32-bit time after it or a little more; arriving before, with and *)
(* after the last one; those that arrive after it are processed with it,   *)
(* which is a jump of the clocks, or later.                                *)
(***************************************************************************)
EXTENDS DelaySignal

PacketsOf ==
    [ahead : {-1, 2}, arrival : {-1}, sys : {0}]
      \union [ahead : {-1, 0, 1, 2}, arrival : {0}, sys : {0}]
      \union [ahead : {2}, arrival : {2}, sys : {0, 1}]
      \union [ahead : {Word, Word + 1}, arrival : {2}, sys : {1}]
FlatAndSteep == {-5, 0, 3, 5}

=============================================================================
