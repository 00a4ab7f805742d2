------------------------------ MODULE DelaySignal ------------------------------
(***************************************************************************)
(* From packets to the state of the path (__processEstimate): the arrival  *)
(* filter, the slope of the delay, the overuse detector.                   *)
(*                                                                         *)
(* No member of the trendline estimator is initialised: the slope may have *)
(* any value, the number of samples starts anywhere, and a window of size  *)
(* 0 ends the process, which here simply takes no further step.            *)
(* The packets of one feedback are processed in one loop that touches      *)
(* nothing else; a step is one packet.                                     *)
(***************************************************************************)
EXTENDS InterArrival, OveruseDetector

CONSTANTS
    Packets,    \* records [ahead, arrival, sys]: what may come
    Samples,    \* values the uninitialised numOfDeltas may have
    MaxGap,     \* bound: distance of two groups
    MaxTime     \* bound: send time of a group's first packet

ASSUME SignalAssumption ==
    /\ Packets \subseteq [ahead : Int, arrival : Int, sys : Nat]
    /\ Samples \subseteq 0 .. MinNumDeltas
    /\ MaxGap \in Nat /\ MaxTime \in Nat

VARIABLES
    numOfDeltas,    \* samples behind the slope
    detector,       \* the overuse detector
    growing,        \* samples above the threshold since the last other one
    calm            \* there has been another one

signalVars == <<arrivalVars, numOfDeltas, detector, growing, calm>>

Init ==
    /\ ArrivalInit
    /\ numOfDeltas \in Samples          \* uninitialised
    /\ detector \in NewDetectors
    /\ growing = 0 /\ calm = FALSE

-----------------------------------------------------------------------------
InBounds ==
    /\ first' <= MaxTime
    /\ \A k \in {"ts", "arrival", "sys"} : Magnitude(gap'[k]) <= MaxGap

(* updateTrendline counts a sample; more than MinNumDeltas are as good as  *)
(* that many: bound.                                                       *)
Sampled == LeastOf(numOfDeltas + 1, MinNumDeltas)

(* The record of the past: growing as far as 2, bound.                     *)
RememberGrowth(offset, alarmed) ==
    LET over == Over(detector, offset, Sampled)
    IN  /\ growing' = IF over /\ ~alarmed THEN LeastOf(growing + 1, 2) ELSE 0
        /\ calm' = (calm \/ (Sampled >= 2 /\ ~over))

Detect(offset, tsDelta, dt) ==
    /\ numOfDeltas' = Sampled
    /\ detector' = OveruseDetect(detector, offset, tsDelta, Sampled, dt)
    /\ RememberGrowth(offset, Over(detector, offset, Sampled)
                                /\ Alarm(detector, offset, tsDelta))

(* __processEstimate.                                                      *)
ProcessEstimate(p, offset) ==
    /\ Accept(p)
    /\ InBounds                         \* bound
    /\ Detect(offset, SendDelta(p), p.arrival)

SkipPacket(p) ==
    /\ Refuse(p)
    /\ UNCHANGED <<numOfDeltas, detector, growing, calm>>

(* Packets that start a group, which is what time brings.                  *)
NewerPacket ==
    \E p \in Packets, offset \in Slopes :
        /\ StartsGroup(p)
        /\ ProcessEstimate(p, offset) \/ SkipPacket(p)

Next ==
    \E p \in Packets :
        \/ \E offset \in Slopes : ProcessEstimate(p, offset)
        \/ SkipPacket(p)

Spec == Init /\ [][Next]_signalVars

(* The stream goes on: packets keep coming that were sent after the        *)
(* current group.                                                          *)
FairSpec == Spec /\ WF_signalVars(NewerPacket)

-----------------------------------------------------------------------------
(* The types, and the range the threshold must keep while it adapts.       *)
TypeOK ==
    /\ cur \in BOOLEAN /\ prev \in BOOLEAN
    /\ reordered \in BOOLEAN /\ newest \in Int /\ apart \in Int
    /\ prev => cur
    /\ first \in Nat /\ stamp \in 0 .. Word - 1
    /\ gap \in [ts : Int, arrival : Int, sys : Int]
    /\ numConsecutive \in Int
    /\ numOfDeltas \in 0 .. MinNumDeltas
    /\ detector \in [state : Signals, threshold : ThresholdMin .. ThresholdMax,
                     timing : BOOLEAN, overuseCounter : Int,
                     prevOffset : Int, adapting : BOOLEAN]
    /\ growing \in 0 .. 2 /\ calm \in BOOLEAN

(* Overuse is signalled only at the end of a run of at least two samples   *)
(* above the threshold, and only while the slope still rises; an old alarm *)
(* does not count for the next one.  It takes one sample below the         *)
(* threshold for the uninitialised counter to be set (overuseDetect).      *)
AlarmTakesTwo ==
    [][ calm /\ detector.state # BW_OVERUSING /\ detector'.state = BW_OVERUSING
          => growing >= 1 /\ detector'.prevOffset > detector.prevOffset ]_signalVars

(* Groups that arrived the wrong way round do not refuse packets for ever: *)
(* after a few of them the filter starts over (numConsecutive).  That it   *)
(* counts any of them takes a packet that may start a group; with a group  *)
(* just before the wrap of the 32-bit times none of those to come may.     *)
WrapAhead == cur /\ \A p \in Packets : ~StartsGroup(p)

BlockedRecovers == Blocked ~> ~Blocked \/ WrapAhead

=============================================================================
