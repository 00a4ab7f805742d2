------------------------------ MODULE BoeReceiver ------------------------------
(***************************************************************************)
(* The whole BoeReceiver object between its creation and its end: segments *)
(* reach putMessage, heartbeats and a repeated MSG_CONNECT reach the frame *)
(* cache.  A repeated MSG_CONNECT finds the receiver there and makes only  *)
(* the cache (and the congestion control, RecvCongestionCtrl) anew: base   *)
(* and loss map stay those of the old stream.                              *)
(***************************************************************************)
EXTENDS Receiver, FrameCache

boeVars == <<vars, cacheVars>>

BoeInit == Init /\ CacheInit

ProcSegment(s) == (PutMessage(s) \/ Refuse(s)) /\ UNCHANGED cacheVars

ProcRecvHeartbeat == Heartbeat /\ UNCHANGED vars

RepeatedConnect == CreateReceiver /\ UNCHANGED vars

CalculateRtt == RttChanges /\ UNCHANGED vars

TimePasses == Clock /\ UNCHANGED vars

BoeNext ==
    \/ \E s \in Packets : ProcSegment(s)
    \/ ProcRecvHeartbeat
    \/ RepeatedConnect
    \/ CalculateRtt
    \/ TimePasses

BoeSpec == BoeInit /\ [][BoeNext]_boeVars

=============================================================================
