---------------------------- MODULE OveruseDetector ----------------------------
(***************************************************************************)
(* The overuse detector: the object is a record, overuseDetect an operator *)
(* on it.  The slope of the delay, times the number of samples behind it,  *)
(* is compared with a threshold that follows it.  Times and slopes are     *)
(* integers of a small unit; what is divided is rounded towards zero.      *)
(***************************************************************************)
EXTENDS Integers

CONSTANTS
    Slopes,                     \* slopes of the delay
    PrevSlopes,                 \* values the uninitialised prevOffset may have
    Overuses,                   \* values the uninitialised overuseCounter may have
    MinNumDeltas,               \* MIN_NUM_DELTAS
    Threshold0,                 \* initial threshold
    ThresholdMin, ThresholdMax, \* its range
    MaxAdaptOffset,             \* MAX_ADAPT_OFFSET_MS
    MaxTimeDelta,               \* MAX_TIME_DELTAS_MS
    OverusingTime,              \* overusingTimeThreshold
    Up, Down, Per               \* the threshold moves by Up / Per or Down / Per

ASSUME DetectorAssumption ==
    /\ Slopes \subseteq Int /\ PrevSlopes \subseteq Int /\ Overuses \subseteq Int
    /\ {MinNumDeltas, ThresholdMin, ThresholdMax, MaxAdaptOffset, MaxTimeDelta,
        OverusingTime, Up, Down} \subseteq Nat
    /\ Per \in Nat \ {0}
    /\ Threshold0 \in ThresholdMin .. ThresholdMax

-----------------------------------------------------------------------------
BW_NORMAL == "NORMAL"
BW_UNDERUSING == "UNDERUSING"
BW_OVERUSING == "OVERUSING"

Signals == {BW_NORMAL, BW_UNDERUSING, BW_OVERUSING}

LeastOf(a, b) == IF a > b THEN b ELSE a
GreatestOf(a, b) == IF a > b THEN a ELSE b
Magnitude(x) == GreatestOf(x, -x)
DividedBy(x, d) == IF x >= 0 THEN x \div d ELSE -((-x) \div d)

(* timing is timeOverUsing # -1: no other test reads its last value.       *)
(* adapting is updateTs # -1.                                              *)
NewDetectors ==
    [state : {BW_NORMAL}, threshold : {Threshold0}, timing : {FALSE},
     overuseCounter : Overuses, prevOffset : PrevSlopes, adapting : {FALSE}]

(* T, for a slope with n samples behind it.                                *)
Modified(offset, n) == LeastOf(n, MinNumDeltas) * offset

-----------------------------------------------------------------------------
(* __updateThreshold, dt after its last call.                              *)
Moved(d, T, dt) ==
    LET off == Magnitude(T) - d.threshold
        elapsed == IF d.adapting THEN LeastOf(dt, MaxTimeDelta) ELSE 0
        k == IF off < 0 THEN Down ELSE Up
    IN  IF off > MaxAdaptOffset THEN 0 ELSE DividedBy(k * off * elapsed, Per)

(* Mutant of Adapted: without the lower limit.                             *)
AdaptedBelow(d, T, dt) == LeastOf(ThresholdMax, d.threshold + Moved(d, T, dt))

Adapted(d, T, dt) ==
    GreatestOf(ThresholdMin, LeastOf(ThresholdMax, d.threshold + Moved(d, T, dt)))

(* The delay has grown for long enough: the first sample counts with half  *)
(* its time, compared here with twice the limit.                           *)
TimeOver(d, tsDelta) == IF d.timing THEN 2 * tsDelta ELSE tsDelta

(* Mutant of Alarm: the first sample above the threshold is enough.        *)
AlarmAtOnce(d, offset, tsDelta) ==
    /\ TimeOver(d, tsDelta) > 2 * OverusingTime
    /\ offset > d.prevOffset

Alarm(d, offset, tsDelta) ==
    /\ TimeOver(d, tsDelta) > 2 * OverusingTime
    /\ d.overuseCounter + 1 > 1
    /\ offset > d.prevOffset

Over(d, offset, n) == n >= 2 /\ Modified(offset, n) > d.threshold

(* overuseDetect.  A counter above 1 is as good as any larger one: bound.  *)
OveruseDetect(d, offset, tsDelta, n, dt) ==
    LET T == Modified(offset, n)
        after == [d EXCEPT !.prevOffset = offset,
                           !.threshold = Adapted(d, T, dt),
                           !.adapting = TRUE]
    IN  IF n < 2 THEN d
        ELSE IF T > d.threshold
        THEN IF Alarm(d, offset, tsDelta)
             THEN [after EXCEPT !.state = BW_OVERUSING, !.timing = TRUE,
                                !.overuseCounter = 0]
             ELSE [after EXCEPT !.timing = TRUE,
                       !.overuseCounter = LeastOf(d.overuseCounter + 1, 2)]
        ELSE [after EXCEPT
                !.state = IF T < -d.threshold THEN BW_UNDERUSING ELSE BW_NORMAL,
                !.timing = FALSE, !.overuseCounter = 0]

=============================================================================
