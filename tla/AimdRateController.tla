-------------------------- MODULE AimdRateController --------------------------
(***************************************************************************)
(* The AIMD controller of the delay-based estimate: the object is a        *)
(* record, its methods are operators on it.  It is only ever told of       *)
(* overuse (__maybeUpdate), so that of the state machine of                *)
(* __changeBitrate only the decrease is reachable, and the region and the  *)
(* average of the maximum, which decide how to increase, are read by       *)
(* nothing that runs.  Rates are in a small unit; times are kept as what   *)
(* has passed since, as far as the limits they are compared with.          *)
(***************************************************************************)
EXTENDS Integers

CONSTANTS
    MinBitrate, MaxBitrate,     \* AIMD_MIN_BITRATE, AIMD_MAX_BITRATE
    DefaultRtt,                 \* DEFAULT_RTT
    ShortestInterval,           \* 10, and
    LongestInterval,            \* 200: limits of the time between two changes
    InitializationTs            \* INITIALIZATION_TS

ASSUME AimdAssumption ==
    /\ MinBitrate \in Nat /\ MaxBitrate \in Nat
    /\ 2 <= MinBitrate /\ MinBitrate <= MaxBitrate
    /\ DefaultRtt \in Nat
    /\ ShortestInterval \in Nat /\ LongestInterval \in Nat
    /\ ShortestInterval <= LongestInterval
    /\ InitializationTs \in Nat

LeastRate(a, b) == IF a > b THEN b ELSE a
GreatestRate(a, b) == IF a > b THEN a ELSE b

-----------------------------------------------------------------------------
(* current: currentBitrate; inited: inited = 0; sinceChange: now minus     *)
(* timeLastBitrateChange; sinceFirst: now minus timeFirstEstimate, -1      *)
(* while there is none.                                                    *)
NewController ==
    [current |-> 0, inited |-> FALSE, sinceChange |-> LongestInterval,
     sinceFirst |-> -1, rtt |-> DefaultRtt]

(* Time passes, as far as any limit: bound.                                *)
Elapsed(c) ==
    [c EXCEPT !.sinceChange = LeastRate(@ + 1, LongestInterval),
              !.sinceFirst = IF @ < 0 THEN @
                             ELSE LeastRate(@ + 1, InitializationTs + 1)]

(* __clampBitrate.  The rate it is given is the current one under another  *)
(* name, or not above it, so that it never bounds a rise.                  *)

(* Mutant of Clamped: the lower limit is forgotten.                        *)
ClampedAbove(rate) == LeastRate(rate, MaxBitrate)

Clamped(rate) == LeastRate(GreatestRate(rate, MinBitrate), MaxBitrate)

(* beta * ackedBitrate + 0.5, for a beta of 0.85.                          *)

(* Mutant of Decreased: divided by beta.                                   *)
Divided(acked) == (20 * acked + 8) \div 17

Decreased(acked) == (17 * acked + 10) \div 20

ReduceInterval(c) ==
    GreatestRate(LeastRate(LongestInterval, c.rtt), ShortestInterval)

(* rateControlPermit.                                                      *)
RateControlPermit(c, incoming) ==
    \/ c.sinceChange >= ReduceInterval(c)
    \/ c.inited /\ c.current \div 2 > incoming

(* setEstimateBitrate, with a time that lies since before now.             *)
SetEstimateBitrate(c, rate, since) ==
    [c EXCEPT !.inited = TRUE, !.current = Clamped(rate), !.sinceChange = since]

-----------------------------------------------------------------------------
(* updateCurrentBitrate, in its two parts.                                 *)

(* The first acknowledged rate starts the time after which one is taken    *)
(* over.                                                                   *)

(* Mutant of FirstEstimate: the time starts over with every one.           *)
FirstEstimateRestarted(c, acked) ==
    IF acked > 0 /\ ~c.inited THEN [c EXCEPT !.sinceFirst = 0] ELSE c

FirstEstimate(c, acked) ==
    CASE c.inited \/ acked = 0 -> c
      [] c.sinceFirst < 0 -> [c EXCEPT !.sinceFirst = 0]
      [] c.sinceFirst > InitializationTs ->
            [c EXCEPT !.current = acked, !.inited = TRUE]
      [] OTHER -> c

(* __changeBitrate when overused: it counts what was acknowledged, not     *)
(* what the rate was.                                                      *)
ChangeBitrate(c, acked) ==
    IF c.inited
    THEN [c EXCEPT !.current = Clamped(Decreased(acked)), !.sinceChange = 0]
    ELSE c

UpdateCurrentBitrate(c, acked) == ChangeBitrate(FirstEstimate(c, acked), acked)

=============================================================================
