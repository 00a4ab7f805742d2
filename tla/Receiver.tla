------------------------------- MODULE Receiver -------------------------------
(***************************************************************************)
(* What the receiving side knows of the packets of a stream                *)
(* (BoeReceiver::putMessage): the base of the numbers received, and the    *)
(* map of the numbers it believes lost.                                    *)
(*                                                                         *)
(* __updateLossMap always reports failure.  So putMessage ends there, its  *)
(* frame cache and its base are not updated, and procSegmentMsg never      *)
(* reaches the acknowledgement with its requests; none of these appear.    *)
(***************************************************************************)
EXTENDS Integers, FiniteSetsExt

CONSTANTS
    MaxSeq,         \* bound: packet numbers
    Index(_),       \* a packet's index in its frame
    Interval(_),    \* time of a packet's frame since the sender's first frame
    JumpTs,         \* the 3000 of __updateLossMap
    LossLimit,      \* the 300 of __updateLossMap
    Garbage         \* values an uninitialised maxSeq may have

ASSUME ReceiverAssumption ==
    /\ MaxSeq \in Nat \ {0} /\ JumpTs \in Nat /\ LossLimit \in Nat
    /\ \A s \in 1 .. MaxSeq :
          /\ Interval(s) \in Nat
          /\ Index(s) \in 0 .. s - 1 /\ Index(s - Index(s)) = 0
    /\ Garbage \subseteq Nat

VARIABLES
    baseSeq,        \* the end of the contiguous numbers
    maxSeq,         \* the highest number
    maxTs,          \* the highest interval
    lossMap,        \* the keys of lossMap
    received,       \* the packets putMessage accepted
    cleared         \* has lossMap ever been cleared?

vars == <<baseSeq, maxSeq, maxTs, lossMap, received, cleared>>

Packets == 1 .. MaxSeq

(* createReceiver has made the receiver and set it active.                 *)
Init ==
    /\ baseSeq = 0
    /\ maxSeq \in Garbage       \* uninitialised
    /\ maxTs \in Garbage        \* uninitialised
    /\ lossMap = {} /\ received = {} /\ cleared = FALSE

-----------------------------------------------------------------------------
(* Mutant of JoinAt: the index is taken to count from one.                 *)
JoinInside(s) == s - Index(s)

(* The base of a receiver that joins with packet s.                        *)
JoinAt(s) == s - Index(s) - 1

(* Mutant of Gap: the gap begins after the number that follows the base.   *)
GapLate(from, s) == from + 2 .. s - 1

(* The numbers packet s shows to be missing.                               *)
Gap(from, s) == from .. s - 1

(* __updateLossMap, with the highest number and interval before s.         *)
UpdateLossMap(s, from, ts) ==
    IF ts + JumpTs < Interval(s) \/ Cardinality(lossMap) > LossLimit
    THEN lossMap' = {} /\ cleared' = TRUE
    ELSE lossMap' = (lossMap \ {s}) \union Gap(from, s) /\ UNCHANGED cleared

PutMessage(s) ==
    /\ s > baseSeq
    /\ IF maxSeq = 0
       THEN /\ baseSeq' = JoinAt(s)
            /\ maxSeq' = JoinAt(s)
            /\ maxTs' = Interval(s)
       ELSE UNCHANGED <<baseSeq, maxSeq, maxTs>>
    /\ UpdateLossMap(s, maxSeq', maxTs')
    /\ received' = received \union {s}

(* A packet of an earlier frame than the base is refused.                  *)
Refuse(s) == s <= baseSeq /\ UNCHANGED vars

(* The network delivers any packet of the stream at any time.              *)
Next == \E s \in Packets : PutMessage(s) \/ Refuse(s)

Spec == Init /\ [][Next]_vars

-----------------------------------------------------------------------------
TypeOK ==
    /\ baseSeq \in 0 .. MaxSeq - 1 /\ maxSeq \in Nat /\ maxTs \in Nat
    /\ lossMap \subseteq 0 .. MaxSeq
    /\ received \subseteq Packets
    /\ cleared \in BOOLEAN

(* Wherever the receiver joins, and although it may join again while its   *)
(* highest number is still 0, its base never parts a frame: putMessage     *)
(* refuses all the packets of a frame or none of them.                     *)
BaseCutsNoFrame == baseSeq = 0 \/ Index(baseSeq + 1) = 0

(* A number is listed as lost only if a later packet has come              *)
(* (putMessage, __updateLossMap).                                          *)
ListedIsOvertaken == \A n \in lossMap : \E s \in received : n < s

(* Until the map is cleared, no missing packet escapes it: whatever lies   *)
(* between the highest number the receiver keeps and the newest packet was *)
(* received or is listed, in any order of arrival (__updateLossMap).       *)
MissingIsListed ==
    ~cleared =>
      \A s \in received : \A n \in maxSeq + 1 .. s - 1 : n \in received \union lossMap

=============================================================================
