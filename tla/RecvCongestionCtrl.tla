-------------------------- MODULE RecvCongestionCtrl --------------------------
(***************************************************************************)
(* Congestion control of the receiving side (RecvCongestionCtrl.cc): every *)
(* packet is handed to the delay feedback and then to the loss statistics, *)
(* and every heartbeat asks both for their part of one feedback message.   *)
(* The peer numbers its transmissions with 16 bits; the network loses,     *)
(* repeats and reorders them.                                              *)
(***************************************************************************)
EXTENDS EstimateProxy

CONSTANTS
    MinDistance,    \* the 20 of LossStatistics::calculate
    Window,         \* LOSS_STATISTICS_WINDOW_MS
    Delay           \* bound: how many packets may overtake one

ASSUME RecvAssumption ==
    MinDistance \in Nat \ {0} /\ Window \in Nat /\ Delay \in 0 .. MaxSeq

VARIABLES
    count,      \* these six are the variables of LossStatistics
    maxId,
    prevMaxId,
    statAge,
    fraction,
    arrived,
    newest      \* transmissions before the last, modulo a full cycle

LossStat == INSTANCE LossStatistics

lossVars == <<count, maxId, prevMaxId, statAge, fraction, arrived>>
vars == <<proxyVars, lossVars, newest>>

Init == ProxyInit /\ LossStat!LossInit /\ newest = 0

-----------------------------------------------------------------------------
(* onReceived: what the delay feedback refuses, the loss statistics do not *)
(* see; if its release never ends, the receiver does nothing more.         *)

(* Mutant of OnReceived: the statistics are asked first.                   *)
OnReceivedCounted(seq) ==
    /\ ~looping
    /\ LossStat!Incoming(seq)
    /\ \/ Incoming(seq)
       \/ Ahead(seq) /\ UNCHANGED proxyVars
    /\ UNCHANGED newest

OnReceived(seq) ==
    /\ \/ Incoming(seq) /\ LossStat!Incoming(seq)
       \/ ~looping /\ Ahead(seq) /\ UNCHANGED <<proxyVars, lossVars>>
       \/ IncomingLoops(seq) /\ UNCHANGED lossVars
    /\ UNCHANGED newest

(* procRccHeartbeat: the losses first, then the delays, whether or not the *)
(* first has something to say.                                             *)
ProcRccHeartbeat ==
    /\ ~looping
    /\ \/ LossStat!Calculate
       \/ ~LossStat!Reports /\ UNCHANGED lossVars
    /\ \/ Feedback
       \/ Nothing /\ UNCHANGED proxyVars
    /\ UNCHANGED newest

(* External: the peer numbers its transmissions from 0 and starts again    *)
(* after MaxSeq; the network delivers what it likes of the last ones, as   *)
(* often as it likes; and time passes.                                     *)
Transmit ==
    /\ ~looping
    /\ newest' = IF newest = 2 * MaxSeq + 1 THEN MaxSeq + 1 ELSE newest + 1
    /\ UNCHANGED <<proxyVars, lossVars>>

Deliver(late) ==
    /\ late <= newest
    /\ OnReceived((newest - late) % (MaxSeq + 1))

Clock == ~looping /\ ProxyClock /\ LossStat!LossClock /\ UNCHANGED newest

Next ==
    \/ \E late \in 0 .. Delay : Deliver(late)
    \/ ProcRccHeartbeat
    \/ Transmit
    \/ Clock

Spec == Init /\ [][Next]_vars

-----------------------------------------------------------------------------
(* Both parts have seen the same packets: the highest number that counts   *)
(* for the losses is the highest whose delay can be fed back, although the *)
(* delay feedback refuses some and may never return (onReceived).          *)
HighestAgree == maxId # LossStat!None => maxId = maxArrivalSeq

(* No false alarm: however the packets were repeated, reordered, refused   *)
(* or renumbered from 0, loss is reported only if one of the numbers since *)
(* the last report has not come (incoming, calculate).                     *)
NoFalseLoss ==
    [][ prevMaxId' # prevMaxId /\ fraction' > 0 =>
          \E s \in prevMaxId + 1 .. maxId : s \notin arrived ]_vars

=============================================================================
