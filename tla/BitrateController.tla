--------------------------- MODULE BitrateController ---------------------------
(***************************************************************************)
(* What drives the estimate of the sending rate and what follows from it   *)
(* (BitrateController.cc, BoeSendCongestionCtrl::processFeedback): each    *)
(* heartbeat and each feedback message updates it, and the pacer hears of  *)
(* every change.  Nobody calls setBitrates, resetBitrates and              *)
(* setStartBitrate, so the limits stay as they were constructed.           *)
(***************************************************************************)
EXTENDS SenderBitrateEstimation

Parameters == [bitrate : Nat, loss : 0 .. 255, rtt : Nat, reserved : Nat]

CONSTANTS
    Epoch,          \* when the controller is constructed
    Horizon,        \* bound: the largest time
    Wait,           \* the 100 of procBitrateHeartbeat
    NotifyTimer,    \* NORMAL_NOTIFY_TIMER
    DelayRates,     \* estimates that the delays may lead to
    AckedRates,     \* acknowledged rates; 0 if none is known
    Fractions,      \* losses that a receiver may report, in 255ths
    PacketCounts,   \* numbers of packets its report may cover
    Rtts,           \* round-trip times the controller passes on
    Garbage         \* what the fields that nobody initialises may hold

ASSUME ControllerAssumption ==
    /\ Epoch \in Nat /\ Horizon \in Nat /\ Wait \in Nat /\ NotifyTimer \in Nat
    /\ DelayRates \subseteq Nat \ {0} /\ AckedRates \subseteq Nat
    /\ Fractions \subseteq 0 .. 255 /\ PacketCounts \subseteq Nat \ {0}
    /\ Rtts \subseteq Nat
    /\ Epoch >= Word            \* microseconds since 1970 against 32 bits
    /\ Garbage \subseteq
          [rate : Nat, delayed : Nat, incoming : Nat, flag : BOOLEAN,
           lost : Nat, expected : Nat, time : Int, rtt : Nat,
           reserved : Nat, told : Parameters]

VARIABLES
    told,       \* the parameters of the last notification, lastBitrateBps...
    pacer,      \* the rate the pacer was last given, or None
    notifyTs,
    reserved,   \* reservedBitrateBps: never assigned
    settled,    \* has the estimate been capped yet?
    cuts,       \* cuts since the last report that counted
    cutTo,      \* the acknowledged rate if the last step made a cut, or None
    lows        \* the least rate recorded in each tick of the last interval

ctlVars == <<told, pacer, notifyTs, reserved>>
historyVars == <<settled, cuts, cutTo, lows>>
vars == <<est, now, ctlVars, historyVars>>

(* The estimate and its controller are allocated with most of their fields *)
(* not initialised: g is what is found in them.                            *)
Init ==
    /\ now = Epoch
    /\ \E g \in Garbage :
         /\ est = [currBitrate |-> g.rate, delayBaseBitrate |-> g.delayed,
                   bweIncoming |-> g.incoming,
                   overusing |-> FALSE, steady |-> g.flag,
                   lastFractionLoss |-> g.lost % 256,
                   lostQ8 |-> g.lost, expected |-> g.expected,
                   hasDecreased |-> FALSE, lastDecreaseTs |-> g.time,
                   lastRtt |-> g.rtt,
                   firstReportTs |-> None, lastPacketReportTs |-> None,
                   lastFeedbackTs |-> None, lastTimeoutTs |-> None,
                   minBitrates |-> <<>>]
         /\ reserved = g.reserved
         /\ told = g.told
    /\ pacer = None
    /\ notifyTs = now
    /\ settled = FALSE
    /\ cuts = 0
    /\ cutTo = None
    /\ lows = [a \in 0 .. IncreaseInterval |-> None]

-----------------------------------------------------------------------------
(* getParameter                                                            *)
Parameter(e) ==
    [bitrate |-> Max({MinConf, e.currBitrate - Min({e.currBitrate, reserved})}),
     loss |-> e.lastFractionLoss, rtt |-> e.lastRtt, reserved |-> reserved]

(* Mutant of Changed: only the loss is compared.                           *)
ChangedLoss(e, t) == Parameter(e).loss # t.loss

Changed(e, t) == Parameter(e) # t

(* __maybeTriggerNetworkChanged after each of the estimates in es.         *)
Trigger(es) ==
    LET changed == { i \in DOMAIN es :
                        Changed(es[i], IF i = 1 THEN told ELSE Parameter(es[i - 1])) }
    IN  /\ told' = IF changed = {} THEN told ELSE Parameter(es[Max(changed)])
        /\ pacer' = IF changed = {} THEN pacer
                    ELSE Parameter(es[Max(changed)]).bitrate
        /\ notifyTs' = now
        /\ UNCHANGED reserved

(* What the properties remember of a call of updateEstimation for e.       *)
CutsNow(e) == e.lastPacketReportTs # None /\ ReportIsFresh(e) /\ Cuts(e)

LeastOf(low, b) == IF low = None THEN b ELSE Min({low, b})

Remember(e, acked, fresh) ==
    /\ lows' = [lows EXCEPT ![0] = LeastOf(@, e.currBitrate)]
    /\ cuts' = (IF fresh THEN 0 ELSE cuts) + (IF CutsNow(e) THEN 1 ELSE 0)
    /\ cutTo' = IF CutsNow(e) THEN acked ELSE None

-----------------------------------------------------------------------------
(* procBitrateHeartbeat                                                    *)
ProcBitrateHeartbeat(acked) ==
    /\ now >= Epoch + Wait
    /\ est' = UpdateEstimation(est, acked)
    /\ IF Changed(est', told)
       THEN Trigger(<<est'>>)
       ELSE LET due == notifyTs + NotifyTimer <= now
            IN  /\ pacer' = IF due THEN Parameter(est').bitrate ELSE pacer
                /\ notifyTs' = IF due THEN now ELSE notifyTs
                /\ UNCHANGED <<told, reserved>>
    /\ Remember(est, acked, FALSE)
    /\ settled' = TRUE
    /\ UNCHANGED now

(* processFeedback with an estimate from the delays, onDelayBasedResult,   *)
(* with a report of losses, onLossInfoResult, or with one after the other. *)
OnDelayBasedResult(bitrate, over) ==
    /\ est' = UpdateDelayBase(est, bitrate, over)
    /\ Trigger(<<est'>>)
    /\ settled' = TRUE
    /\ cutTo' = None
    /\ UNCHANGED <<now, cuts, lows>>

LossInfo(delayed, fraction, packets, rtt, steady, acked) ==
    \E heard \in {UpdateReceiverBlock(delayed, fraction, packets, rtt, steady)} :
        IF Completes(delayed, packets)
        THEN est' = UpdateEstimation(heard, acked) /\ Remember(heard, acked, TRUE)
        ELSE est' = heard /\ cutTo' = None /\ UNCHANGED <<cuts, lows>>

OnLossInfoResult(fraction, packets, rtt, steady, acked) ==
    /\ LossInfo(est, fraction, packets, rtt, steady, acked)
    /\ Trigger(<<est'>>)
    /\ settled' = (settled \/ Completes(est, packets))
    /\ UNCHANGED now

OnBothResults(bitrate, over, fraction, packets, rtt, steady, acked) ==
    /\ \E delayed \in {UpdateDelayBase(est, bitrate, over)} :
          /\ LossInfo(delayed, fraction, packets, rtt, steady, acked)
          /\ Trigger(<<delayed, est'>>)
    /\ settled' = TRUE
    /\ UNCHANGED now

ProcessFeedback ==
    \/ \E bitrate \in DelayRates, over \in BOOLEAN :
          OnDelayBasedResult(bitrate, over)
    \/ \E fraction \in Fractions, packets \in PacketCounts, rtt \in Rtts,
          steady \in BOOLEAN, acked \in AckedRates :
          \/ OnLossInfoResult(fraction, packets, rtt, steady, acked)
          \/ \E bitrate \in DelayRates, over \in BOOLEAN :
                OnBothResults(bitrate, over, fraction, packets, rtt, steady, acked)

(* External: time passes.                                                  *)
Clock ==
    /\ now < Horizon
    /\ now' = now + 1
    /\ lows' = [a \in DOMAIN lows |-> IF a = 0 THEN None ELSE lows[a - 1]]
    /\ cutTo' = None
    /\ UNCHANGED <<est, ctlVars, settled, cuts>>

Next ==
    \/ \E acked \in AckedRates : ProcBitrateHeartbeat(acked)
    \/ ProcessFeedback
    \/ Clock

Spec == Init /\ [][Next]_vars

-----------------------------------------------------------------------------
(* Once it has been capped, the rate stays within its limits and below     *)
(* both other estimates, whichever of heartbeats, loss reports and delay   *)
(* estimates comes next (__capBitrateToThreshold, updateDelayBase).        *)
CapsHold ==
    settled =>
        /\ MinConf <= est.currBitrate /\ est.currBitrate <= MaxConf
        /\ \A cap \in {est.delayBaseBitrate, est.bweIncoming} \ {0} :
              est.currBitrate <= Max({MinConf, cap})

(* However many reports and heartbeats fall into one interval, and also    *)
(* where the 32-bit clock changes sign, the rate grows from the least rate *)
(* of the interval: it does not compound (updateEstimation,                *)
(* __updateMinHistory).  Only the step that cuts may raise it otherwise,   *)
(* and no further than to the rate acknowledged at that moment: the code   *)
(* calls that a decrease, but takes the larger of the two rates            *)
(* (SenderBitrateEstimation.cc:172-176).                                   *)
GrowthBounded ==
    [][ settled /\ est'.currBitrate > est.currBitrate =>
          \/ cutTo' # None /\ est'.currBitrate <= Max({MinConf, cutTo'})
          \/ \A a \in DOMAIN lows' :
                lows'[a] = None
                    \/ est'.currBitrate <= Max({MinConf, Grown(lows'[a])}) ]_vars

(* However many heartbeats pass between two loss reports, the loss of the  *)
(* first is answered with at most one cut (hasDecreasedSinceLastFraction-  *)
(* Loss, updateReceiverBlock, updateEstimation).                           *)
CutOncePerReport == cuts <= 1

(* The pacer works with the rate of the estimate, less what is reserved,   *)
(* from the first time it hears of one: no order of feedback and           *)
(* heartbeats leaves it with an older one (getParameter).                  *)
PacerFollows == pacer # None => pacer = Parameter(est).bitrate

=============================================================================
