-------------------------------- MODULE Sender --------------------------------
(***************************************************************************)
(* The sending side (BoeSender, BoeSendCongestionCtrl) on top of its       *)
(* pacer: packets are numbered, kept in sendingCache until they are        *)
(* acknowledged, and handed to the pacer when they are new and again when  *)
(* the peer asks for them.                                                 *)
(*                                                                         *)
(* The pacer and the feedback adapter are pointers that nothing in the     *)
(* repository assigns; this module is about an application that supplies   *)
(* them.  The rate limiter of retransmissions is a module of its own: here *)
(* it may refuse any of them.  What onNetworkChange tells the sender goes  *)
(* to a callback and changes nothing here.                                 *)
(***************************************************************************)
EXTENDS PaceSender

CONSTANT MaxFrame       \* bound: packets of one frame

ASSUME SenderAssumption ==
    /\ MaxFrame \in Nat \ {0}
    /\ 0 \notin Seqs /\ \A s \in Seqs : 1 .. s \subseteq Seqs

VARIABLES
    sendingCache,   \* packets kept for transmission and retransmission
    packetIdSeed,   \* the last packet number given
    acked,          \* packets acknowledged so far
    everSent        \* packets that have been on the wire

senderVars == <<sendingCache, packetIdSeed>>
historyVars == <<acked, everSent>>
allVars == <<paceVars, senderVars, historyVars>>

SenderInit ==
    /\ Init
    /\ sendingCache = {}
    /\ packetIdSeed = 0
    /\ acked = {} /\ everSent = {}

-----------------------------------------------------------------------------
(* addPackets: a frame is split into consecutive packets.                  *)

NewIds(total) == packetIdSeed + 1 .. packetIdSeed + total

AddPackets(total) ==
    LET ids == NewIds(total)
    IN  /\ packetIdSeed + total \in Seqs     \* bound: packet numbers
        /\ packetIdSeed' = packetIdSeed + total
        /\ sendingCache' = sendingCache \union ids
        /\ InsertPackets(ids)
        /\ UNCHANGED historyVars

-----------------------------------------------------------------------------
(* procSegmentAck.                                                         *)

KnownId(id) == id <= packetIdSeed

(* What __upCacheAccodingBase erases: it starts at the packet numbered by  *)
(* the member basePacketId, which stays 0 while packets count from 1.      *)

(* Mutant of BelowBase: it erases what the peer has not received.          *)
AboveBase(base) == { s \in sendingCache : s > base }

BelowBase(base) == {}

(* granted: the packets that were asked for, are cached, and pass the      *)
(* limiter.                                                                *)
SegmentAck(ackedId, base, granted) ==
    /\ alive
    /\ KnownId(ackedId) /\ KnownId(base)
    /\ granted \subseteq sendingCache \ BelowBase(base)
    /\ IF granted = {} THEN UNCHANGED paceVars ELSE InsertPackets(granted)
    /\ sendingCache' = (sendingCache \ BelowBase(base)) \ {ackedId}
    /\ acked' = acked \union ({ackedId} \cap Seqs)
    /\ UNCHANGED <<packetIdSeed, everSent>>

-----------------------------------------------------------------------------
(* procSccHeartbeat and sendCallback: the pacer's batch reaches the wire   *)
(* if the packets are still cached, and uses the budget if they are not.   *)

Sendable(batch) == batch \cap sendingCache

Heartbeat ==
    /\ Transmit
    /\ everSent' = everSent \union Sendable(Batch)
    /\ UNCHANGED <<senderVars, acked>>

(* onNetworkChange: a new estimate for the pacer.                          *)
NetworkChange ==
    /\ \E kbps \in Rates : SetEstimate(kbps)
    /\ UNCHANGED <<senderVars, historyVars>>

TimePasses == Clock /\ UNCHANGED <<senderVars, historyVars>>

SenderNext ==
    \/ \E total \in 1 .. MaxFrame : AddPackets(total)
    \/ \E ackedId, base \in {0} \union Seqs, granted \in SUBSET sendingCache :
          SegmentAck(ackedId, base, granted)
    \/ Heartbeat
    \/ NetworkChange
    \/ TimePasses

SenderSpec == SenderInit /\ [][SenderNext]_allVars

-----------------------------------------------------------------------------
(* No packet is lost before its first transmission: whatever was numbered  *)
(* has been on the wire, was acknowledged, or still waits in the pacer,    *)
(* although requests, acknowledgements and any claim of a base may come    *)
(* while it waits (addPackets, procSegmentAck, sendCallback).              *)
NothingForgotten == 1 .. packetIdSeed \subseteq everSent \union acked \union Unsent

(* A heartbeat never puts a packet on the wire that was acknowledged,      *)
(* although the pacer may still hold it (procSegmentAck, sendCallback).    *)
AckedIsNotSent == Sendable(Batch) \cap acked = {}

(* Retransmissions and acknowledgements do not reorder a frame: the first  *)
(* transmission of a packet comes after those of all lower numbers, unless *)
(* these were acknowledged before (getQueueFront, procSegmentAck).         *)
FirstSentInOrder ==
    \A s \in everSent : 1 .. s \subseteq everSent \union acked

=============================================================================
