--------------------------- MODULE MCRttEstimator ---------------------------
(***************************************************************************)
(* Small words for RttEstimator: samples below 128, rtt and rttVar modulo  *)
(* 1024 (the same factor of more than eight that 2^32 leaves in 2^64).     *)
(* A PONG's difference may be negative, tiny, or too large for a sample.   *)
(***************************************************************************)
EXTENDS RttEstimator

SmallElapsed == {-1, 0, 5, 6, 60, 127, 128, 131, 200}

=============================================================================
