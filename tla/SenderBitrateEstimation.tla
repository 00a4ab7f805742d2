------------------------ MODULE SenderBitrateEstimation ------------------------
(***************************************************************************)
(* The sending rate as losses suggest it (SenderBitrateEstimation.cc):     *)
(* little loss lets it grow over the least rate of the last interval,      *)
(* heavy loss cuts it once per report, and the estimate from the delays    *)
(* caps it.  The state is a record, an operation is a function of it.      *)
(*                                                                         *)
(* The clock counts microseconds since 1970 in 64 bits; updateEstimation   *)
(* takes it in 32 unsigned bits and __updateMinHistory in 32 signed ones.  *)
(***************************************************************************)
EXTENDS Integers, Sequences, FiniteSetsExt

CONSTANTS
    MinConf, MaxConf,   \* DEFAULT_BITRATECTRL_MINBITRATE, _MAXBITRATE
    Step,               \* the 1000 bits per second by which a rate grows
    LimitPackets,       \* LIMIT_NUM_PACKETS
    StartPhase,         \* START_PHASE_MS
    FeedbackInterval,   \* FEEDBACK_INTERVAL_MS
    TimeoutInterval,    \* TIMEOUT_INTERVAL_MS
    IncreaseInterval,   \* BWE_INCREASE_INTERVAL_MS
    DecreaseInterval,   \* BWE_DECREASE_INTERVAL_MS
    Slots,              \* MIN_HISTORY_ARR_SIZE
    Word                \* the values of a uint32_t: 2^32

ASSUME EstimationAssumption ==
    /\ MinConf \in Nat \ {0} /\ MaxConf \in Nat /\ MinConf <= MaxConf
    /\ {Step, StartPhase, FeedbackInterval, TimeoutInterval,
        IncreaseInterval, DecreaseInterval} \subseteq Nat
    /\ LimitPackets \in Nat \ {0} /\ Slots \in Nat \ {0}
    /\ Word \in Nat \ {0}

VARIABLES
    est,        \* the SenderBitrateEstimation
    now         \* BaseTimer::getCurrentTime()

None == -1

(* now as a uint32_t, and as an int32_t                                    *)
Now32 == now % Word
NowSigned == IF Now32 < Word \div 2 THEN Now32 ELSE Now32 - Word

-----------------------------------------------------------------------------
(* __capBitrateToThreshold: another estimate that is 0 is not known.       *)
Caps(e) == {MaxConf} \union ({e.delayBaseBitrate, e.bweIncoming} \ {0})

Capped(e, b) == [e EXCEPT !.currBitrate = Max({MinConf, Min({b} \union Caps(e))})]

(* Mutant of UpdateDelayBase: the new cap waits for the next estimate.     *)
UpdateDelayBaseLater(e, bitrate, over) ==
    [e EXCEPT !.delayBaseBitrate = bitrate, !.overusing = over]

UpdateDelayBase(e, bitrate, over) ==
    LET f == [e EXCEPT !.delayBaseBitrate = bitrate, !.overusing = over]
    IN  Capped(f, e.currBitrate)

-----------------------------------------------------------------------------
(* minBitrates: the rates of the last interval, each below the ones after  *)
(* it, so that the first is the least.  (beginIndex and endIndex are its   *)
(* ends modulo Slots.)                                                     *)

(* Mutant of Recent: an entry goes one tick early, <= for <.               *)
RecentEarly(h) ==
    LET kept == { i \in DOMAIN h : h[i].ts + IncreaseInterval > NowSigned }
    IN  IF kept = {} THEN <<>> ELSE SubSeq(h, Min(kept), Len(h))

Recent(h) ==
    LET kept == { i \in DOMAIN h : h[i].ts + IncreaseInterval >= NowSigned }
    IN  IF kept = {} THEN <<>> ELSE SubSeq(h, Min(kept), Len(h))

Lower(h, b) ==
    SubSeq(h, 1, Max({0} \union { i \in DOMAIN h : h[i].bitrate < b }))

UpdateMinHistory(h, b) ==
    LET l == Lower(Recent(h), b)
    IN  Append(IF Len(l) = Slots THEN Tail(l) ELSE l,
               [ts |-> NowSigned, bitrate |-> b])

-----------------------------------------------------------------------------
(* updateEstimation                                                        *)

InStartPhase(e) ==
    e.firstReportTs = None \/ Now32 < e.firstReportTs + StartPhase

(* The test of the start phase is negated.                                 *)
Probes(e) == e.lastFractionLoss = 0 /\ ~InStartPhase(e)

ProbedBitrate(e) ==
    Max({e.delayBaseBitrate, e.bweIncoming, e.currBitrate})

(* Loss is counted in 256ths: above and below 2%, below 10%.               *)
SomeLoss(e) == 100 * e.lastFractionLoss > 2 * 256
LittleLoss(e) == 100 * e.lastFractionLoss < 2 * 256
HeavyLoss(e) == 10 * e.lastFractionLoss >= 256

(* Loss without growing delay is taken for noise.                          *)
Noise(e) == e.steady /\ SomeLoss(e) /\ ~e.overusing

Grows(e) == Noise(e) \/ LittleLoss(e)

(* A 32-bit clock is compared with a 64-bit one.                           *)
ReportIsFresh(e) == 12 * (Now32 - e.lastPacketReportTs) < 10 * FeedbackInterval

FeedbackLost(e) ==
    /\ Now32 - e.lastFeedbackTs > 3 * FeedbackInterval
    /\ e.lastTimeoutTs = None \/ Now32 > e.lastTimeoutTs + TimeoutInterval

(* lastDecreaseTs is never assigned.                                       *)
MayDecrease(e) == Now32 >= e.lastDecreaseTs + DecreaseInterval + e.lastRtt

(* Mutant of Cuts: the flag of an earlier cut is not looked at.            *)
CutsAgain(e) ==
    /\ ~Grows(e) /\ e.currBitrate > 0 /\ HeavyLoss(e)
    /\ MayDecrease(e)

Cuts(e) ==
    /\ ~Grows(e) /\ e.currBitrate > 0 /\ HeavyLoss(e)
    /\ ~e.hasDecreased /\ MayDecrease(e)

Grown(b) == (108 * b + 50 + 100 * Step) \div 100

(* What is acknowledged is not cut, even if it is more than was sent.      *)
Reduced(e, acked) ==
    Max({acked, (e.currBitrate * (512 - e.lastFractionLoss)) \div 512})

LossControl(e, acked) ==
    IF Grows(e) THEN Capped(e, Grown(Head(e.minBitrates).bitrate))
    ELSE IF Cuts(e)
         THEN Capped([e EXCEPT !.hasDecreased = TRUE], Reduced(e, acked))
         ELSE Capped(e, e.currBitrate)

FeedbackTimeout(e) ==
    Capped([e EXCEPT !.lostQ8 = 0, !.expected = 0, !.lastTimeoutTs = Now32],
           (e.currBitrate * 4) \div 5)

UpdateEstimation(e, acked) ==
    IF Probes(e) /\ ProbedBitrate(e) # e.currBitrate
    THEN LET h == <<[ts |-> Now32, bitrate |-> e.currBitrate]>>
         IN  Capped([e EXCEPT !.minBitrates = h], ProbedBitrate(e))
    ELSE LET f == [e EXCEPT !.minBitrates = UpdateMinHistory(@, e.currBitrate)]
         IN  CASE f.lastPacketReportTs = None -> Capped(f, f.currBitrate)
               [] f.lastPacketReportTs # None /\ ReportIsFresh(f) ->
                      LossControl(f, acked)
               [] f.lastPacketReportTs # None /\ ~ReportIsFresh(f)
                      /\ FeedbackLost(f) -> FeedbackTimeout(f)
               [] OTHER -> Capped(f, f.currBitrate)

-----------------------------------------------------------------------------
(* updateReceiverBlock: a report counts once it covers LimitPackets.  The  *)
(* slope of the loss is read from a window that is never initialised, so   *)
(* it may be anything (steady) from the second such report on.             *)
Heard(e, fraction, packets, rtt) ==
    [e EXCEPT !.lastFeedbackTs = now,
              !.firstReportTs = IF @ = None THEN now ELSE @,
              !.lastRtt = IF rtt > 0 THEN rtt ELSE @,
              !.lostQ8 = @ + fraction * packets,
              !.expected = @ + packets]

Completes(e, packets) == e.expected + packets >= LimitPackets

Fraction(lost, expected) == (lost \div expected) % 256

Reported(e, steady) ==
    [e EXCEPT !.hasDecreased = FALSE,
              !.lastFractionLoss = Fraction(e.lostQ8, e.expected),
              !.lostQ8 = 0, !.expected = 0,
              !.steady = IF e.lastPacketReportTs = None THEN @ ELSE steady,
              !.lastPacketReportTs = now]

(* The estimate that updateEstimation sees, if it is called at all.        *)
UpdateReceiverBlock(e, fraction, packets, rtt, steady) ==
    LET h == Heard(e, fraction, packets, rtt)
    IN  IF Completes(e, packets) THEN Reported(h, steady) ELSE h

=============================================================================
