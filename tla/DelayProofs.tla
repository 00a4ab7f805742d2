------------------------------ MODULE DelayProofs ------------------------------
(***************************************************************************)
(* Proofs about the delay-based estimate, for all rates, limits, clocks    *)
(* and initial counts.                                                     *)
(***************************************************************************)
EXTENDS DelayBasedEstimator, TLAPS

(* Clamping keeps a rate in its limits, and keeps the order of two rates.  *)
LEMMA ClampedInRange ==
    ASSUME NEW rate \in Nat
    PROVE  Clamped(rate) \in MinBitrate .. MaxBitrate
BY AimdAssumption DEF Clamped, LeastRate, GreatestRate

LEMMA ClampedMonotone ==
    ASSUME NEW low \in Nat, NEW high \in Nat, low <= high
    PROVE  Clamped(low) <= Clamped(high)
BY AimdAssumption DEF Clamped, LeastRate, GreatestRate

(* A rate that is in its limits already is below what it is clamped to,    *)
(* if it was below the rate.                                               *)
LEMMA RangeBelowClamped ==
    ASSUME NEW rate \in Nat, NEW x \in MinBitrate .. MaxBitrate,
           NEW y \in Nat, y <= x, x <= Clamped(rate)
    PROVE  Clamped(y) <= Clamped(rate)
BY AimdAssumption DEF Clamped, LeastRate, GreatestRate

(* What is decreased is a rate not above the one acknowledged.             *)
LEMMA DecreasedIsLower ==
    ASSUME NEW acked \in Nat
    PROVE  Decreased(acked) \in Nat /\ Decreased(acked) <= acked
BY DEF Decreased

LEMMA PeakGrows ==
    ASSUME NEW a \in Nat, NEW b \in Nat
    PROVE  /\ GreatestRate(a, b) \in Nat
           /\ a <= GreatestRate(a, b)
           /\ b <= GreatestRate(a, b)
BY DEF GreatestRate

(* A controller with an estimate in its limits, or none.                   *)
Sound(c) ==
    /\ c \in [current : Nat, inited : BOOLEAN, sinceChange : Int,
              sinceFirst : Nat \union {-1}, rtt : Nat]
    /\ IF c.inited THEN c.current \in MinBitrate .. MaxBitrate
                   ELSE c.current = 0

(* A change of rate and time leaves a controller one.                       *)
LEMMA ControllerChanged ==
    ASSUME NEW c \in [current : Nat, inited : BOOLEAN, sinceChange : Int,
                      sinceFirst : Nat \union {-1}, rtt : Nat],
           NEW rate \in Nat, NEW since \in Int
    PROVE  [c EXCEPT !.current = rate, !.sinceChange = since]
             \in [current : Nat, inited : BOOLEAN, sinceChange : Int,
                  sinceFirst : Nat \union {-1}, rtt : Nat]
OBVIOUS

(* An estimate set from one not above the peak is not above it.            *)
LEMMA EstimateSet ==
    ASSUME NEW c, Sound(c), NEW rate \in Nat, rate <= c.current,
           NEW since \in Int, NEW top \in Nat, c.current <= Clamped(top)
    PROVE  LET after == SetEstimateBitrate(c, rate, since)
           IN  /\ Sound(after)
               /\ after.current \in MinBitrate .. MaxBitrate
               /\ after.current <= Clamped(top)
<1> DEFINE after == SetEstimateBitrate(c, rate, since)
<1>1. after = [c EXCEPT !.inited = TRUE, !.current = Clamped(rate),
                        !.sinceChange = since]
  BY DEF SetEstimateBitrate
<1>2. Clamped(rate) \in MinBitrate .. MaxBitrate
  BY ClampedInRange
<1>3. MinBitrate .. MaxBitrate \subseteq Nat
  BY AimdAssumption
<1>4. Sound(after) /\ after.current = Clamped(rate)
  BY <1>1, <1>2, <1>3 DEF Sound
<1>5. Clamped(rate) <= Clamped(top)
  <2>1. CASE c.inited
    BY <2>1, RangeBelowClamped DEF Sound
  <2>2. CASE ~c.inited
    <3>1. rate = 0
      BY <2>2 DEF Sound
    <3> QED
      BY <3>1, ClampedMonotone
  <2> QED
    BY <2>1, <2>2
<1> QED
  BY <1>2, <1>4, <1>5

(* So is what __estimateUpdate makes of an acknowledged rate.              *)
LEMMA EstimateUpdated ==
    ASSUME NEW c, Sound(c), NEW acked \in Nat, NEW top \in Nat,
           acked <= top, c.current <= Clamped(top)
    PROVE  LET after == UpdateCurrentBitrate(c, acked)
           IN  /\ Sound(after)
               /\ after.current <= Clamped(top)
<1> DEFINE first == FirstEstimate(c, acked)
           after == UpdateCurrentBitrate(c, acked)
<1> SUFFICES Sound(after) /\ after.current <= Clamped(top)
  OBVIOUS
<1>1. /\ first \in [current : Nat, inited : BOOLEAN, sinceChange : Int,
                    sinceFirst : Nat \union {-1}, rtt : Nat]
      /\ ~first.inited => first.current = 0
  <2>1. CASE c.inited \/ acked = 0
    BY <2>1 DEF FirstEstimate, Sound
  <2>2. CASE ~(c.inited \/ acked = 0) /\ c.sinceFirst < 0
    <3>1. first = [c EXCEPT !.sinceFirst = 0]
      BY <2>2, AimdAssumption DEF FirstEstimate, Sound
    <3> QED
      BY <2>2, <3>1 DEF Sound
  <2>3. CASE ~(c.inited \/ acked = 0) /\ ~(c.sinceFirst < 0)
             /\ c.sinceFirst > InitializationTs
    BY <2>3, AimdAssumption DEF FirstEstimate, Sound
  <2>4. CASE ~(c.inited \/ acked = 0) /\ ~(c.sinceFirst < 0)
             /\ ~(c.sinceFirst > InitializationTs)
    BY <2>4, AimdAssumption DEF FirstEstimate, Sound
  <2> QED
    BY <2>1, <2>2, <2>3, <2>4
<1>2. after = ChangeBitrate(first, acked)
  BY DEF UpdateCurrentBitrate
<1> HIDE DEF first, after
<1>3. CASE first.inited
  <2>1. after = [first EXCEPT !.current = Clamped(Decreased(acked)),
                              !.sinceChange = 0]
    BY <1>2, <1>3 DEF ChangeBitrate
  <2>2. Clamped(Decreased(acked)) \in MinBitrate .. MaxBitrate
    BY DecreasedIsLower, ClampedInRange
  <2>3. Clamped(Decreased(acked)) \in Nat
    BY <2>2, AimdAssumption
  <2>4. Clamped(Decreased(acked)) <= Clamped(top)
    <3>1. Decreased(acked) \in Nat /\ Decreased(acked) <= top
      BY DecreasedIsLower
    <3> QED
      BY <3>1, ClampedMonotone
  <2>5. after.inited /\ after.current = Clamped(Decreased(acked))
    BY <1>1, <1>3, <2>1
  <2>6. after \in [current : Nat, inited : BOOLEAN, sinceChange : Int,
                   sinceFirst : Nat \union {-1}, rtt : Nat]
    <3>1. first \in [current : Nat, inited : BOOLEAN, sinceChange : Int,
                     sinceFirst : Nat \union {-1}, rtt : Nat]
      BY <1>1
    <3>2. 0 \in Int
      OBVIOUS
    <3> QED
      BY <2>1, <2>3, <3>1, <3>2, ControllerChanged, Zenon
  <2>7. Sound(after)
    BY <2>2, <2>5, <2>6 DEF Sound
  <2> QED
    BY <2>4, <2>5, <2>7
<1>4. CASE ~first.inited
  <2>1. after = first
    BY <1>2, <1>4 DEF ChangeBitrate
  <2>2. Clamped(top) \in Nat
    BY ClampedInRange, AimdAssumption
  <2> QED
    BY <1>1, <1>4, <2>1, <2>2 DEF Sound
<1> QED
  BY <1>3, <1>4

-----------------------------------------------------------------------------
(* The inductive invariant.                                                *)
IInv == TypeOK /\ NeverAboveAcked

LEMMA ControllerIsSound ==
    ASSUME TypeOK PROVE Sound(controller)
BY DEF TypeOK, Sound

LEMMA InitSound == Init => IInv
<1> SUFFICES ASSUME Init PROVE IInv
  OBVIOUS
<1>1. LongestInterval \in Int /\ DefaultRtt \in Nat
  BY AimdAssumption
<1>2. controller = NewController
  BY DEF Init
<1>3. controller \in [current : Nat, inited : BOOLEAN, sinceChange : Int,
                      sinceFirst : Nat \union {-1}, rtt : Nat]
      /\ ~controller.inited /\ controller.current = 0
  BY <1>1, <1>2 DEF NewController
<1>4. TypeOK
  BY <1>3, EstimatorAssumption DEF Init, TypeOK
<1>5. Clamped(0) \in Nat
  BY ClampedInRange, AimdAssumption
<1>6. NeverAboveAcked
  BY <1>3, <1>5 DEF Init, NeverAboveAcked
<1> QED
  BY <1>4, <1>6 DEF IInv

(* What a feedback can do to the controller and to what was published.     *)
LEMMA CountKept ==
    ASSUME delayed \in Int, CountFeedback PROVE delayed' \in Int
BY EstimatorAssumption DEF CountFeedback

LEMMA FeedbackSound ==
    ASSUME IInv, NEW state \in Signals, NEW acked \in AckedRates,
           Feedback(state, acked)
    PROVE  IInv'
<1>1. acked \in Nat /\ peak \in Nat
  BY EstimatorAssumption DEF IInv, TypeOK
<1>2. /\ peak' \in Nat /\ peak <= peak' /\ acked <= peak'
  BY <1>1, PeakGrows DEF Feedback
<1>3. Clamped(peak) <= Clamped(peak') /\ Clamped(peak) \in MinBitrate .. MaxBitrate
      /\ Clamped(peak') \in MinBitrate .. MaxBitrate
  BY <1>1, <1>2, ClampedMonotone, ClampedInRange
<1>4. MinBitrate .. MaxBitrate \subseteq Nat
  BY AimdAssumption
<1>5. Sound(controller) /\ controller.current \in Nat
  BY ControllerIsSound DEF IInv, Sound
<1>6. told \in {0} \union MinBitrate .. MaxBitrate
  BY DEF IInv, TypeOK
<1>7. controller.current <= Clamped(peak') /\ told <= Clamped(peak')
  BY <1>3, <1>4, <1>5, <1>6 DEF IInv, NeverAboveAcked
<1>8. /\ Sound(controller') /\ controller'.current <= Clamped(peak')
      /\ told' \in {0} \union MinBitrate .. MaxBitrate
      /\ told' <= Clamped(peak')
  <2>1. CASE state # BW_OVERUSING
    BY <2>1, <1>5, <1>6, <1>7 DEF Feedback, MaybeUpdate
  <2>2. CASE state = BW_OVERUSING /\ Unacked(acked)
    <3>1. Ease
      BY <2>2 DEF Feedback, MaybeUpdate
    <3>2. Eased(controller.current) \in Nat
          /\ Eased(controller.current) <= controller.current
      BY <1>5 DEF Eased
    <3> QED
      BY <3>1, <3>2, <1>2, <1>5, <1>7, EstimateSet DEF Ease, Publish
  <2>3. CASE state = BW_OVERUSING /\ ~Unacked(acked)
    <3> DEFINE after == UpdateCurrentBitrate(controller, acked)
    <3>1. EstimateUpdate(acked)
      BY <2>3 DEF Feedback, MaybeUpdate
    <3>2. Sound(after) /\ after.current <= Clamped(peak')
      BY <1>1, <1>2, <1>5, <1>7, EstimateUpdated
    <3>3. controller' = after
      BY <3>1 DEF EstimateUpdate
    <3>4. CASE SaysUpdated(after)
      <4>1. told' = after.current
        BY <3>1, <3>4 DEF EstimateUpdate, Publish
      <4>2. after.current \in MinBitrate .. MaxBitrate
        BY <3>2, <3>4 DEF SaysUpdated, Sound
      <4> QED
        BY <3>2, <3>3, <4>1, <4>2
    <3>5. CASE ~SaysUpdated(after)
      BY <3>1, <3>2, <3>3, <3>5, <1>6, <1>7 DEF EstimateUpdate
    <3> QED
      BY <3>4, <3>5
  <2> QED
    BY <2>1, <2>2, <2>3
<1>9. delayed' \in Int
  BY CountKept DEF IInv, TypeOK, Feedback
<1>10. TypeOK'
  BY <1>2, <1>8, <1>9 DEF IInv, TypeOK, Feedback, Sound
<1> QED
  BY <1>8, <1>10 DEF IInv, NeverAboveAcked

LEMMA LateFeedbackSound ==
    ASSUME IInv, NEW since \in Skews, LateFeedback(since)
    PROVE  IInv'
<1>1. Sound(controller) /\ controller.current \in Nat /\ since \in Int
      /\ peak \in Nat /\ controller.current <= Clamped(peak)
  BY ControllerIsSound, EstimatorAssumption
     DEF IInv, TypeOK, Sound, NeverAboveAcked
<1>2. delayed' \in Int
  BY CountKept DEF IInv, TypeOK, LateFeedback
<1>3. CASE delayed + 1 > MaxFailedCount
  <2> DEFINE after == SetEstimateBitrate(controller, controller.current \div 2, since)
  <2>1. controller' = after /\ told' = after.current
    BY <1>3 DEF LateFeedback, LongFeedbackDelay, Publish
  <2>2. controller.current \div 2 \in Nat
        /\ controller.current \div 2 <= controller.current
    BY <1>1
  <2>3. /\ Sound(after) /\ after.current \in MinBitrate .. MaxBitrate
        /\ after.current <= Clamped(peak)
    BY <1>1, <2>2, EstimateSet
  <2> HIDE DEF after
  <2>4. TypeOK'
    BY <1>2, <2>1, <2>3 DEF IInv, TypeOK, LateFeedback, Sound
  <2>5. NeverAboveAcked'
    BY <2>1, <2>3 DEF NeverAboveAcked, LateFeedback
  <2> QED
    BY <2>4, <2>5 DEF IInv
<1>4. CASE ~(delayed + 1 > MaxFailedCount)
  BY <1>2, <1>4 DEF IInv, TypeOK, NeverAboveAcked, LateFeedback
<1> QED
  BY <1>3, <1>4

(* The steps that leave the estimate alone, or drop it.                    *)
LEMMA OtherStepsSound ==
    ASSUME IInv,
           \/ \E rtt \in Rtts : UpdateRtt(rtt)
           \/ ResetEstimator
           \/ Tick
           \/ \E acked \in AckedRates : Settle(acked)
           \/ UNCHANGED estimatorVars
    PROVE  IInv'
<1>1. CASE \E rtt \in Rtts : UpdateRtt(rtt)
  <2>1. PICK rtt \in Rtts : UpdateRtt(rtt)
    BY <1>1
  <2>2. rtt \in Nat
    BY EstimatorAssumption
  <2> QED
    BY <2>1, <2>2 DEF IInv, TypeOK, NeverAboveAcked, UpdateRtt
<1>2. CASE ResetEstimator
  <2>1. LongestInterval \in Int /\ DefaultRtt \in Nat
    BY AimdAssumption
  <2>2. controller' \in [current : Nat, inited : BOOLEAN, sinceChange : Int,
                         sinceFirst : Nat \union {-1}, rtt : Nat]
        /\ ~controller'.inited /\ controller'.current = 0
    BY <1>2, <2>1 DEF ResetEstimator, NewController
  <2>3. Clamped(peak) \in Nat
    BY ClampedInRange, AimdAssumption DEF IInv, TypeOK
  <2>4. TypeOK'
    BY <1>2, <2>2, EstimatorAssumption DEF IInv, TypeOK, ResetEstimator
  <2>5. NeverAboveAcked'
    BY <1>2, <2>2, <2>3 DEF IInv, NeverAboveAcked, ResetEstimator
  <2> QED
    BY <2>4, <2>5 DEF IInv
<1>3. CASE Tick
  <2>1. controller' = [controller EXCEPT
           !.sinceChange = LeastRate(controller.sinceChange + 1, LongestInterval),
           !.sinceFirst = IF controller.sinceFirst < 0 THEN controller.sinceFirst
                          ELSE LeastRate(controller.sinceFirst + 1,
                                         InitializationTs + 1)]
    BY <1>3 DEF Tick, Elapsed
  <2>2. /\ LeastRate(controller.sinceChange + 1, LongestInterval) \in Int
        /\ (IF controller.sinceFirst < 0 THEN controller.sinceFirst
            ELSE LeastRate(controller.sinceFirst + 1, InitializationTs + 1))
              \in Nat \union {-1}
    BY AimdAssumption DEF IInv, TypeOK, LeastRate
  <2> QED
    BY <1>3, <2>1, <2>2 DEF IInv, TypeOK, NeverAboveAcked, Tick
<1>4. CASE \E acked \in AckedRates : Settle(acked)
  BY <1>4 DEF IInv, TypeOK, NeverAboveAcked, Settle
<1>5. CASE UNCHANGED estimatorVars
  BY <1>5 DEF IInv, TypeOK, NeverAboveAcked, estimatorVars
<1> QED
  BY <1>1, <1>2, <1>3, <1>4, <1>5

LEMMA EstimateInvariance == Spec => [](TypeOK /\ NeverAboveAcked)
<1>1. Init => IInv
  BY InitSound
<1>2. IInv /\ [Next]_estimatorVars => IInv'
  BY FeedbackSound, LateFeedbackSound, OtherStepsSound
     DEF Next, FeedbackComes
<1> QED
  BY <1>1, <1>2, PTL DEF Spec, IInv

(* An estimate, and what was published of it, keeps to the limits          *)
(* (AimdRateController's clamp), whatever the two clocks say.              *)
THEOREM TypeCorrect == Spec => []TypeOK
  BY EstimateInvariance, PTL

(* Neither the estimate nor what was published of it is ever above what    *)
(* was acknowledged (__maybeUpdate, __longFeedbackDelay).                  *)
THEOREM EstimateIsBounded == Spec => []NeverAboveAcked
  BY EstimateInvariance, PTL

=============================================================================
