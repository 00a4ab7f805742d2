------------------------ MODULE MCDelayBasedEstimator ------------------------
(***************************************************************************)
(* Rates below, between and above the limits; clocks of the receiver that  *)
(* are behind and ahead of the sender's.                                   *)
(***************************************************************************)
EXTENDS DelayBasedEstimator

AheadAndBehind == {-1, 0, 1}
LowAndHigh == {-1, 3}

=============================================================================
