-------------------------- MODULE DelayBasedEstimator --------------------------
(***************************************************************************)
(* The delay-based estimate of the rate (incomingEstimate): a feedback     *)
(* moves the detector (module DelaySignal), whose state may then be any,   *)
(* and the AIMD controller follows it.  What is published goes to the      *)
(* loss-based estimate as a cap (module BitrateController).                *)
(* recoveredFromOveruse is read by nobody and left out.                    *)
(***************************************************************************)
EXTENDS AimdRateController

CONSTANTS
    Signals,            \* states of the detector
    BW_NORMAL,          \* its first one
    BW_OVERUSING,       \* the one that counts
    AckedRates,         \* acknowledged rates
    Rtts,               \* round-trip times
    MaxFailedCount,     \* MAX_FAILED_COUNT
    Counts,             \* values the uninitialised consecutiveDelayedFeedbacks
                        \* may have
    Skews               \* the sender's clock minus the receiver's time of arrival

ASSUME EstimatorAssumption ==
    /\ {BW_NORMAL, BW_OVERUSING} \subseteq Signals
    /\ AckedRates \subseteq Nat /\ Rtts \subseteq Nat
    /\ MaxFailedCount \in Nat
    /\ Counts \subseteq Int
    /\ Skews \subseteq Int /\ \A since \in Skews : since <= LongestInterval

VARIABLES
    signal,         \* overuseDetector->state
    controller,     \* aimdRateController
    delayed,        \* consecutiveDelayedFeedbacks
    told,           \* the last rate published, 0 before
    peak,           \* the highest rate ever acknowledged
    course          \* the path stays overused, with this rate acknowledged

estimatorVars == <<signal, controller, delayed, told, peak, course>>

(* No such course.                                                         *)
Open == -1

Init ==
    /\ signal = BW_NORMAL
    /\ controller = NewController
    /\ delayed \in Counts               \* uninitialised
    /\ told = 0
    /\ peak = 0
    /\ course = Open

-----------------------------------------------------------------------------
(* The result of a feedback; updated = 0.                                  *)
Publish(after) == told' = after.current

(* consecutiveDelayedFeedbacks counts every feedback, late or not, and is  *)
(* never reset.  All counts above the limit are alike: bound.              *)
CountFeedback == delayed' = IF delayed > MaxFailedCount THEN delayed ELSE delayed + 1

(* __longFeedbackDelay: the time comes from the receiver's clock.          *)
LongFeedbackDelay(since) ==
    LET after == SetEstimateBitrate(controller, controller.current \div 2, since)
    IN  /\ controller' = after
        /\ Publish(after)

(* __estimateUpdate says "updated" when the rate stayed what it was.       *)
SaysUpdated(after) == after.inited /\ after.current = controller.current

EstimateUpdate(acked) ==
    LET after == UpdateCurrentBitrate(controller, acked)
    IN  /\ controller' = after
        /\ IF SaysUpdated(after) THEN Publish(after) ELSE UNCHANGED told

(* Nothing acknowledged, and the last change is recent.                    *)
Unacked(acked) ==
    /\ acked = 0
    /\ controller.inited
    /\ ~RateControlPermit(controller, (controller.current * 3) \div 4 - 1)

(* Mutant of Eased: it is not lowered.                                     *)
EasedNot(rate) == rate

Eased(rate) == (rate * 3) \div 4

Ease ==
    LET after == SetEstimateBitrate(controller, Eased(controller.current), 0)
    IN  /\ controller' = after
        /\ Publish(after)

(* __maybeUpdate: whether the controller permits it or not, an             *)
(* acknowledged rate ends in __estimateUpdate.                             *)
MaybeUpdate(state, acked) ==
    \/ /\ state # BW_OVERUSING
       /\ UNCHANGED <<controller, told>>
    \/ /\ state = BW_OVERUSING
       /\ IF Unacked(acked) THEN Ease ELSE EstimateUpdate(acked)

-----------------------------------------------------------------------------
(* incomingEstimate: a feedback with a packet sent since the start.        *)
Feedback(state, acked) ==
    /\ course # Open => state = BW_OVERUSING /\ acked = course
    /\ signal' = state
    /\ CountFeedback
    /\ MaybeUpdate(state, acked)
    /\ peak' = GreatestRate(peak, acked)
    /\ UNCHANGED course

(* incomingEstimate: all packets were sent before the start.               *)
LateFeedback(since) ==
    /\ course = Open
    /\ CountFeedback
    /\ IF delayed + 1 > MaxFailedCount
       THEN LongFeedbackDelay(since)
       ELSE UNCHANGED <<controller, told>>
    /\ UNCHANGED <<signal, peak, course>>

UpdateRtt(rtt) ==
    /\ controller' = [controller EXCEPT !.rtt = rtt]
    /\ UNCHANGED <<signal, delayed, told, peak, course>>

(* resetEstimator; it leaves the count alone.                              *)
ResetEstimator ==
    /\ course = Open
    /\ signal' = BW_NORMAL
    /\ controller' = NewController
    /\ UNCHANGED <<delayed, told, peak, course>>

Tick ==
    /\ controller' = Elapsed(controller)
    /\ UNCHANGED <<signal, delayed, told, peak, course>>

(* The network takes its course.                                           *)
Settle(acked) ==
    /\ course = Open
    /\ course' = acked
    /\ UNCHANGED <<signal, controller, delayed, told, peak>>

FeedbackComes == \E state \in Signals, acked \in AckedRates : Feedback(state, acked)

Next ==
    \/ FeedbackComes
    \/ \E since \in Skews : LateFeedback(since)
    \/ \E rtt \in Rtts : UpdateRtt(rtt)
    \/ ResetEstimator
    \/ Tick
    \/ \E acked \in AckedRates : Settle(acked)

Spec == Init /\ [][Next]_estimatorVars

(* Feedbacks keep coming and time passes.                                  *)
FairSpec ==
    Spec /\ WF_estimatorVars(FeedbackComes) /\ WF_estimatorVars(Tick)

-----------------------------------------------------------------------------
(* The types, and the range of the rate: 0 before there is an estimate,    *)
(* within its limits after that.                                           *)
TypeOK ==
    /\ signal \in Signals
    /\ controller \in [current : Nat, inited : BOOLEAN,
                       sinceChange : Int, sinceFirst : Nat \union {-1},
                       rtt : Nat]
    /\ IF controller.inited
       THEN controller.current \in MinBitrate .. MaxBitrate
       ELSE controller.current = 0
    /\ delayed \in Int
    /\ told \in {0} \union MinBitrate .. MaxBitrate
    /\ peak \in Nat
    /\ course \in AckedRates \union {Open}

(* The estimate, and what was published of it, is never above the highest  *)
(* rate the receiver ever acknowledged, or above the lower limit: nothing  *)
(* raises it of its own (updateCurrentBitrate, setEstimateBitrate).        *)
NeverAboveAcked ==
    /\ controller.current <= Clamped(peak)
    /\ told <= Clamped(peak)

(* An overused path of which nothing is acknowledged any more comes down   *)
(* to the lower limit, and that is published, however often feedbacks come *)
(* (__maybeUpdate).                                                        *)
StarvedComesDown ==
    course = 0 /\ controller.inited
        ~> controller.current = MinBitrate /\ told = MinBitrate

(* An overused path that keeps acknowledging one rate gets an estimate,    *)
(* and what was published stays the estimate, although a feedback that     *)
(* changes it is not published (__estimateUpdate).                         *)
SteadyIsTold ==
    course > 0 ~> [](controller.inited /\ told = controller.current)

=============================================================================
