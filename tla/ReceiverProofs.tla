---------------------------- MODULE ReceiverProofs ----------------------------
(***************************************************************************)
(* The safety of Receiver for every stream: any number of packets, any     *)
(* division into frames, any limits, and any value of what the receiver    *)
(* leaves uninitialised; in the second part, the safety of its waiting     *)
(* time (FrameCache, with variables of its own); and of both in the        *)
(* receiver that they make (BoeReceiver).                                  *)
(***************************************************************************)
EXTENDS BoeReceiver, TLAPS

(* What a receiver has joined with or keeps.                               *)
LEMMA JoinIsBoundary ==
    ASSUME NEW s \in Packets
    PROVE  /\ JoinAt(s) \in 0 .. MaxSeq - 1
           /\ JoinAt(s) < s
           /\ Index(JoinAt(s) + 1) = 0
<1>1. Index(s) \in 0 .. s - 1 /\ Index(s - Index(s)) = 0
  BY ReceiverAssumption DEF Packets
<1>2. s - Index(s) - 1 + 1 = s - Index(s)
  BY <1>1 DEF Packets
<1> QED
  BY <1>1, <1>2, ReceiverAssumption DEF JoinAt, Packets

(* The invariant: the parts need one another only through the types.       *)
Inv == TypeOK /\ BaseCutsNoFrame /\ ListedIsOvertaken /\ MissingIsListed

(* A gap that begins later lies within one that begins earlier.            *)
LEMMA GapWithin ==
    ASSUME NEW from \in Nat, NEW later \in Nat, from <= later,
           NEW t \in Int, NEW n \in (later + 1) .. (t - 1)
    PROVE  n \in from + 1 .. t - 1 /\ n \in later .. t - 1
OBVIOUS

(* What MissingIsListed says of a map that was never cleared.              *)
AllKnown ==
    \A s \in received : \A n \in maxSeq + 1 .. s - 1 : n \in received \union lossMap

LEMMA InitInv == Init => Inv
<1> SUFFICES ASSUME Init
             PROVE  Inv
  OBVIOUS
<1>1. TypeOK
  <2>1. 0 \in 0 .. MaxSeq - 1
    BY ReceiverAssumption
  <2>2. maxSeq \in Nat /\ maxTs \in Nat
    BY ReceiverAssumption DEF Init
  <2>3. {} \subseteq 0 .. MaxSeq /\ {} \subseteq Packets /\ FALSE \in BOOLEAN
    OBVIOUS
  <2> QED
    BY <2>1, <2>2, <2>3 DEF Init, TypeOK
<1>2. BaseCutsNoFrame /\ ListedIsOvertaken /\ MissingIsListed
  BY DEF Init, BaseCutsNoFrame, ListedIsOvertaken, MissingIsListed
<1> QED
  BY <1>1, <1>2 DEF Inv

(* A packet that is accepted keeps every part of the invariant.            *)
LEMMA PutInv ==
    ASSUME Inv, NEW s \in Packets, PutMessage(s)
    PROVE  Inv'
<1> USE DEF Inv
<1>1. s \in Nat /\ s >= 1 /\ s <= MaxSeq /\ MaxSeq \in Nat
  BY ReceiverAssumption DEF Packets
<1>2. /\ JoinAt(s) \in 0 .. MaxSeq - 1
      /\ JoinAt(s) < s
      /\ Index(JoinAt(s) + 1) = 0
  BY JoinIsBoundary
<1>3. received' = received \union {s}
  BY DEF PutMessage
<1>4. /\ lossMap' = {} /\ cleared' = TRUE
      \/ /\ lossMap' = (lossMap \ {s}) \union Gap(maxSeq', s)
         /\ cleared' = cleared
  BY DEF PutMessage, UpdateLossMap
<1>5. maxSeq' \in Nat /\ maxSeq' >= maxSeq
  BY <1>1, <1>2 DEF PutMessage, TypeOK
<1>6. TypeOK'
  <2>1. baseSeq' \in 0 .. MaxSeq - 1
    BY <1>2 DEF PutMessage, TypeOK
  <2>2. maxTs' \in Nat
    BY ReceiverAssumption DEF PutMessage, TypeOK, Packets
  <2>3. Gap(maxSeq', s) \subseteq 0 .. MaxSeq
    BY <1>1, <1>5 DEF Gap
  <2>4. lossMap' \subseteq 0 .. MaxSeq /\ cleared' \in BOOLEAN
    BY <1>4, <2>3 DEF TypeOK
  <2> QED
    BY <1>3, <1>5, <2>1, <2>2, <2>4 DEF TypeOK
<1>7. BaseCutsNoFrame'
  BY <1>2 DEF PutMessage, BaseCutsNoFrame
<1>8. ListedIsOvertaken'
  <2> SUFFICES ASSUME NEW n \in lossMap'
               PROVE  \E t \in received' : n < t
    BY DEF ListedIsOvertaken
  <2>1. CASE n \in lossMap
    BY <1>3, <2>1 DEF ListedIsOvertaken
  <2>2. CASE n \in Gap(maxSeq', s)
    BY <1>1, <1>3, <1>5, <2>2 DEF Gap
  <2> QED
    BY <1>4, <2>1, <2>2 DEF Gap
<1>9. ASSUME AllKnown, lossMap' = (lossMap \ {s}) \union Gap(maxSeq', s)
      PROVE  AllKnown'
  <2> SUFFICES ASSUME NEW t \in received', NEW n \in maxSeq' + 1 .. t - 1
               PROVE  n \in received' \union lossMap'
    BY DEF AllKnown
  <2>1. t \in Int /\ maxSeq \in Nat
    BY <1>1, <1>3, <1>5 DEF TypeOK, Packets
  <2>2. CASE t = s
    <3>1. n \in Gap(maxSeq', s)
      BY <1>5, <2>1, <2>2, GapWithin DEF Gap
    <3> QED
      BY <1>9, <3>1
  <2>3. CASE t \in received
    <3>1. n \in maxSeq + 1 .. t - 1
      BY <1>5, <2>1, GapWithin
    <3> QED
      BY <1>3, <1>9, <2>3, <3>1 DEF AllKnown
  <2> QED
    BY <1>3, <2>2, <2>3
<1>10. MissingIsListed'
  BY <1>4, <1>9 DEF MissingIsListed, AllKnown
<1> QED
  BY <1>6, <1>7, <1>8, <1>10

LEMMA NextInv == Inv /\ [Next]_vars => Inv'
<1> SUFFICES ASSUME Inv, [Next]_vars
             PROVE  Inv'
  OBVIOUS
<1>1. CASE UNCHANGED vars
  BY <1>1 DEF vars, Inv, TypeOK, BaseCutsNoFrame, ListedIsOvertaken, MissingIsListed
<1>2. ASSUME NEW s \in Packets, PutMessage(s)
      PROVE  Inv'
  BY <1>2, PutInv
<1>3. ASSUME NEW s \in Packets, Refuse(s)
      PROVE  Inv'
  BY <1>1, <1>3 DEF Refuse
<1> QED
  BY <1>1, <1>2, <1>3 DEF Next

LEMMA Invariance == Spec => []Inv
BY InitInv, NextInv, PTL DEF Spec

-----------------------------------------------------------------------------
(* The waiting time: CacheSpec.                                            *)

(* The wait's arithmetic stays within a word, whatever the products lose.  *)
LEMMA WaitIsWord ==
    ASSUME NEW x \in Int, NEW den \in Nat \ {0}
    PROVE  (x % Word) \div den \in 0 .. Word - 1
<1>1. Word \in Nat /\ Word > 0
  BY CacheAssumption
<1> DEFINE r == x % Word
<1>2. r \in 0 .. Word - 1
  BY <1>1
<1> HIDE DEF r
<1>3. r \div den \in 0 .. Word - 1
  BY <1>1, <1>2
<1> QED
  BY <1>3 DEF r

(* The larger of a word and the interval of frames is a word and covers    *)
(* the interval.                                                           *)
LEMMA FlooredCovers ==
    ASSUME CacheTypeOK, NEW x \in 0 .. Word - 1
    PROVE  Floored(x) \in 0 .. Word - 1 /\ Floored(x) >= frameTimer
BY CacheAssumption DEF CacheTypeOK, Floored, AtLeast

(* The code's sums of an estimate are numbers.                             *)
LEMMA RoundTripIsNat ==
    ASSUME CacheTypeOK
    PROVE  estimate.rtt \in Nat /\ estimate.rttVar \in Nat /\ RoundTrip \in Nat
BY CacheAssumption DEF CacheTypeOK, RoundTrip

(* A new cache waits for a word's worth of time, for every estimate.       *)
LEMMA NewCacheIsWord ==
    ASSUME NEW e \in Estimates
    PROVE  NewCache(e) \in 0 .. Word - 1
BY CacheAssumption DEF NewCache

(* The invariant: until the first heartbeat nothing relates the wait to    *)
(* the interval of frames.                                                 *)
CacheInv == CacheTypeOK /\ WaitCoversFrame

LEMMA CacheInitInv == CacheInit => CacheInv
<1> SUFFICES ASSUME CacheInit
             PROVE  CacheInv
  OBVIOUS
<1>1. waitTimer \in 0 .. Word - 1 /\ estimate \in Estimates
  BY NewCacheIsWord DEF CacheInit
<1>2. Period + 1 \in Nat /\ cacheAge \in {0, Period + 1}
  BY CacheAssumption DEF CacheInit, Long
<1>3. cacheAge \in Nat
  BY <1>2
<1>4. beaten \in BOOLEAN /\ ~beaten
  BY DEF CacheInit
<1> QED
  BY <1>1, <1>3, <1>4 DEF CacheInit, CacheInv, CacheTypeOK, WaitCoversFrame

LEMMA HeartbeatKeeps == CacheInv /\ Heartbeat => CacheInv'
<1> SUFFICES ASSUME CacheInv, Heartbeat
             PROVE  CacheInv'
  OBVIOUS
<1>1. CacheTypeOK /\ waitTimer \in 0 .. Word - 1 /\ Word \in Nat /\ Word > 0
  BY CacheAssumption DEF CacheInv, CacheTypeOK
<1> DEFINE wait == Floored(Smoothed)
<1>2. wait \in 0 .. Word - 1 /\ wait >= frameTimer
  <2>1. RoundTrip % Word \in Int
    BY <1>1, RoundTripIsNat
  <2>2. Smoothed \in 0 .. Word - 1
    BY <1>1, <2>1, WaitIsWord, waitTimer * 7 + (RoundTrip % Word) \in Int DEF Smoothed
  <2> QED
    BY <1>1, <2>2, FlooredCovers
<1> HIDE DEF wait
<1>3. ASSUME NEW num \in Nat, NEW den \in Nat \ {0}
      PROVE  Shortened(wait, num, den) \in 0 .. Word - 1 /\ Shortened(wait, num, den) >= frameTimer
  <2>1. wait * num \in Int
    BY <1>1, <1>2, <1>3
  <2>2. ((wait * num) % Word) \div den \in 0 .. Word - 1
    BY <2>1, <1>3, WaitIsWord
  <2> QED
    BY <1>1, <2>2, FlooredCovers DEF Shortened
<1>4. waitTimer' \in {wait, Shortened(wait, 7, 8), Shortened(wait, 15, 16)}
  BY DEF Heartbeat, wait
<1>5. waitTimer' \in 0 .. Word - 1 /\ waitTimer' >= frameTimer
  BY <1>2, <1>4, <1>3
<1>6. /\ cacheAge' \in {cacheAge, 0} /\ lossCount' \in {lossCount, 0}
      /\ UNCHANGED <<estimate, frameTimer>> /\ beaten' = TRUE
  BY DEF Heartbeat
<1> QED
  BY <1>1, <1>5, <1>6 DEF CacheInv, CacheTypeOK, WaitCoversFrame

LEMMA CacheNextInv == CacheInv /\ [CacheNext]_cacheVars => CacheInv'
<1> SUFFICES ASSUME CacheInv, [CacheNext]_cacheVars
             PROVE  CacheInv'
  OBVIOUS
<1>1. CASE CreateReceiver
  BY <1>1, NewCacheIsWord DEF CreateReceiver, CacheInv, CacheTypeOK, WaitCoversFrame
<1>2. CASE Heartbeat
  BY <1>2, HeartbeatKeeps
<1>3. CASE RttChanges
  BY <1>3 DEF RttChanges, CacheInv, CacheTypeOK, WaitCoversFrame
<1>4. CASE Clock
  <2>1. cacheAge' \in Nat
    BY <1>4 DEF Clock, Older, CacheInv, CacheTypeOK
  <2> QED
    BY <1>4, <2>1 DEF Clock, CacheInv, CacheTypeOK, WaitCoversFrame
<1>5. CASE UNCHANGED cacheVars
  BY <1>5 DEF cacheVars, CacheInv, CacheTypeOK, WaitCoversFrame
<1> QED
  BY <1>1, <1>2, <1>3, <1>4, <1>5 DEF CacheNext

LEMMA CacheInvariance == CacheSpec => []CacheInv
BY CacheInitInv, CacheNextInv, PTL DEF CacheSpec

-----------------------------------------------------------------------------
(* The receiver.                                                           *)

(* Segments leave the cache alone, and what concerns the cache leaves the  *)
(* base and the loss map alone.                                            *)
LEMMA PartsAreParts == BoeSpec => Spec /\ CacheSpec
<1>1. BoeInit => Init /\ CacheInit
  BY DEF BoeInit
<1>2. [BoeNext]_boeVars => [Next]_vars /\ [CacheNext]_cacheVars
  <2> SUFFICES ASSUME [BoeNext]_boeVars
               PROVE  [Next]_vars /\ [CacheNext]_cacheVars
    OBVIOUS
  <2>1. ASSUME NEW s \in Packets, ProcSegment(s)
        PROVE  Next /\ UNCHANGED cacheVars
    BY <2>1 DEF ProcSegment, Next
  <2>2. CASE ProcRecvHeartbeat \/ RepeatedConnect \/ CalculateRtt \/ TimePasses
    BY <2>2 DEF ProcRecvHeartbeat, RepeatedConnect, CalculateRtt, TimePasses,
                CacheNext
  <2>3. CASE UNCHANGED boeVars
    BY <2>3 DEF boeVars
  <2> QED BY <2>1, <2>2, <2>3 DEF BoeNext
<1> QED BY <1>1, <1>2, PTL DEF BoeSpec, Spec, CacheSpec

(* The variables of putMessage keep their types.                           *)
THEOREM TypeCorrect == BoeSpec => []TypeOK
BY Invariance, PartsAreParts, PTL DEF Inv

(* putMessage refuses whole frames only, wherever the receiver joins.      *)
THEOREM WholeFrames == BoeSpec => []BaseCutsNoFrame
BY Invariance, PartsAreParts, PTL DEF Inv

(* Every listed number has been overtaken by a packet that came.           *)
THEOREM ListedWasOvertaken == BoeSpec => []ListedIsOvertaken
BY Invariance, PartsAreParts, PTL DEF Inv

(* No missing packet escapes the map of lost packets before it is cleared. *)
THEOREM NothingEscapes == BoeSpec => []MissingIsListed
BY Invariance, PartsAreParts, PTL DEF Inv

(* The waiting time stays a word: no product escapes its 32 bits.          *)
THEOREM CacheTypeCorrect == BoeSpec => []CacheTypeOK
BY CacheInvariance, PartsAreParts, PTL DEF CacheInv

(* From the first heartbeat on the wait covers the interval of frames,     *)
(* although its products overflow and both periodic updates shorten it.    *)
THEOREM WaitCovers == BoeSpec => []WaitCoversFrame
BY CacheInvariance, PartsAreParts, PTL DEF CacheInv

=============================================================================
