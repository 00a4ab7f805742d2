----------------------------- MODULE RttEstimator -----------------------------
(***************************************************************************)
(* The smoothed round-trip time of a session and its variation             *)
(* (Session::sessCalculateRtt), fed by PONG messages and by acknowledged   *)
(* segments.  rtt and rttVar are uint64_t, a sample is a uint32_t.         *)
(***************************************************************************)
EXTENDS Integers

CONSTANTS
    MaxSample,      \* the largest sample: 2^32 - 1
    Word,           \* the values of a uint64_t: 2^64
    Elapsed         \* differences between the clock and a PONG's timestamp

ASSUME RttAssumption ==
    /\ MaxSample \in Nat /\ MaxSample >= 100
    /\ Word \in Nat /\ 8 * MaxSample < Word
    /\ Elapsed \subseteq Int

VARIABLES rtt, rttVar

rttVars == <<rtt, rttVar>>

Samples == 0 .. MaxSample

AtLeast(floor, x) == IF x < floor THEN floor ELSE x

(* MSG_PONG: the timestamp is the peer's to choose, the difference is cut  *)
(* to 32 bits.                                                             *)
PongSample(e) == IF e > 5 THEN e % (MaxSample + 1) ELSE 5

(* The code's difference of rtt and sample: its macro takes the whole of   *)
(* rttVar * 3 + rtt as the number to compare, and subtracts without sign.  *)
Deviation(k) ==
    (IF rttVar * 3 + rtt > k THEN rtt - k ELSE k - rtt) % Word

(* Mutant of Smoothed: the division rounds up.                             *)
SmoothedUp(k) == (7 * rtt + k + 8) \div 8

Smoothed(k) == (7 * rtt + k) \div 8

Varied(k) == Deviation(k) \div 4

Calculate(sample) ==
    LET k == AtLeast(5, sample)
    IN  /\ rttVar' = AtLeast(10, Varied(k))
        /\ rtt' = AtLeast(10, Smoothed(k))

RttInit == rtt = 100 /\ rttVar = 0

Pong(e) == Calculate(PongSample(e))

SegmentAcked(sample) == Calculate(sample)

RttReset == rtt' = 100 /\ rttVar' = 0

RttNext ==
    \/ \E e \in Elapsed : Pong(e)
    \/ \E sample \in Samples : SegmentAcked(sample)
    \/ RttReset

RttSpec == RttInit /\ [][RttNext]_rttVars

-----------------------------------------------------------------------------
(* Both values are unsigned words.                                         *)
RttTypeOK == rtt \in 0 .. Word - 1 /\ rttVar \in 0 .. Word - 1

(* The round-trip time stays between its floor and the largest sample, so  *)
(* neither the garbage a PONG may carry nor a wrapped difference reaches   *)
(* it (sessCalculateRtt).                                                  *)
RttInRange == rtt \in 10 .. MaxSample

(* The sum of the next variation update does not overflow its word, even   *)
(* after the unsigned difference has wrapped (sessCalculateRtt).           *)
VariationFits == rttVar * 3 + rtt < Word

(* A sample never drives the round-trip time past itself: an update ends   *)
(* between the old value and the sample, or at the floor.                  *)
RttMovesToSample ==
    [][ \A s \in Samples :
          SegmentAcked(s) =>
            LET k == AtLeast(10, s)
            IN  \/ rtt <= rtt' /\ rtt' <= k
                \/ k <= rtt' /\ rtt' <= rtt ]_rttVars

=============================================================================
