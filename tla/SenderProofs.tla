----------------------------- MODULE SenderProofs -----------------------------
(***************************************************************************)
(* The pacer's queue and the sender's cache over it, for every set of      *)
(* packets, sizes and rates and every limiter.                             *)
(***************************************************************************)
EXTENDS Sender, FiniteSetTheorems, WellFoundedInduction, TLAPS

-----------------------------------------------------------------------------
(* The queue: what does not depend on how much a budget allows.            *)

(* The part of the state that the order and the identity of packets need.  *)
QueueInv ==
    /\ cache \subseteq Seqs
    /\ sent \subseteq cache
    /\ HasUnsent

(* What lingers was sent.                                                  *)
LEMMA KeptWasSent ==
    ASSUME NEW done, NEW kept \in Kept(done)
    PROVE  kept \subseteq done
  BY DEF Kept

(* When nothing is left to send, nothing lingers.                          *)
LEMMA NothingKept ==
    ASSUME NEW done, cache \subseteq done, NEW kept \in Kept(done)
    PROVE  kept = {}
  BY DEF Kept

(* A batch that is sent leaves the rest of the unsent packets behind.      *)
LEMMA BatchLeaves ==
    ASSUME QueueInv, SendBatch(Batch)
    PROVE  QueueInv' /\ Unsent' = Unsent \ Batch
  <1> DEFINE done == sent \union Batch
             left == cache \ done
  <1>1. PICK kept \in Kept(done) : sent' = kept /\ cache' = left \union kept
    BY DEF SendBatch
  <1>2. done \subseteq cache
    BY DEF QueueInv, Batch, Unsent
  <1>3. kept \subseteq done
    BY KeptWasSent
  <1>4. Unsent' = left
    BY <1>1, <1>3 DEF Unsent
  <1>5. left = Unsent \ Batch
    BY DEF Unsent
  <1>6. cache' # {} => left # {}
    <2>1. CASE left = {}
      <3>1. cache \subseteq done
        BY <2>1
      <3>2. kept = {}
        BY <3>1, NothingKept
      <3> QED BY <1>1, <2>1, <3>2
    <2>2. CASE left # {}
      BY <2>2
    <2> QED BY <2>1, <2>2
  <1>7. cache' \subseteq Seqs /\ sent' \subseteq cache'
    BY <1>1, <1>2, <1>3 DEF QueueInv
  <1>8. HasUnsent'
    BY <1>4, <1>6 DEF HasUnsent
  <1> QED BY <1>4, <1>5, <1>7, <1>8 DEF QueueInv

(* Packets that are queued join the unsent ones, unless the queue has them. *)
LEMMA InsertJoins ==
    ASSUME QueueInv, NEW S \in SUBSET Seqs, InsertPackets(S)
    PROVE  /\ QueueInv'
           /\ cache' = cache \union S
           /\ Unsent' = Unsent \union (S \ cache)
  <1> DEFINE new == { s \in S : ~Refuses(s) }
  <1>1. cache' = cache \union new /\ sent' = sent
    BY DEF InsertPackets
  <1>2. new = S \ cache
    BY DEF Refuses
  <1>3. Unsent' = Unsent \union new
    BY <1>1, <1>2 DEF Unsent, QueueInv
  <1>4. HasUnsent'
    BY <1>1, <1>3 DEF HasUnsent, QueueInv
  <1> QED BY <1>1, <1>2, <1>3, <1>4 DEF QueueInv

(* The numbers that go leave no lower one behind.                          *)
LEMMA LowestGo ==
    ASSUME QueueInv, NEW s \in Batch, NEW q \in Unsent, q < s
    PROVE  q \in Batch
  <1>1. s \in Nat /\ q \in Nat
    BY PaceAssumption DEF Batch, Unsent, QueueInv
  <1>2. \A p \in Unsent : p <= q => p <= s
    BY <1>1, PaceAssumption DEF Unsent, QueueInv
  <1> QED BY <1>2 DEF Batch, Goes

LEMMA TransmitLeaves ==
    ASSUME QueueInv, Transmit
    PROVE  QueueInv' /\ Unsent' = Unsent \ Batch /\ cache' \subseteq cache
  <1>1. CASE Batch = {}
    BY <1>1 DEF Transmit, queueVars, QueueInv, HasUnsent, Unsent
  <1>2. CASE Batch # {}
    <2>1. SendBatch(Batch)
      BY <1>2 DEF Transmit
    <2>2. cache' \subseteq cache
      <3>1. PICK kept \in Kept(sent \union Batch) :
               cache' = (cache \ (sent \union Batch)) \union kept
        BY <2>1 DEF SendBatch
      <3>2. kept \subseteq sent \union Batch
        BY KeptWasSent
      <3> QED BY <3>1, <3>2 DEF QueueInv, Batch, Unsent
    <2> QED BY <2>1, <2>2, BatchLeaves
  <1> QED BY <1>1, <1>2

(* What a step of the pacer's own is to the abstract one.                  *)
LEMMA TransmitLetsGo ==
    ASSUME QueueInv, Transmit
    PROVE  PacerOf!LetGo(Batch) /\ Batch \in SUBSET Unsent
  <1>1. Batch \in SUBSET Unsent
    BY DEF Batch
  <1> QED BY <1>1, LowestGo, TransmitLeaves DEF PacerOf!LetGo

LEMMA StepQueue ==
    ASSUME QueueInv, [Next]_paceVars
    PROVE  QueueInv' /\ [PacerOf!PacerNext]_Unsent
  <1>1. CASE \E kbps \in Rates : SetEstimate(kbps)
    BY <1>1 DEF SetEstimate, queueVars, QueueInv, HasUnsent, Unsent
  <1>2. CASE \E s \in Seqs : InsertPackets({s})
    <2>1. PICK s \in Seqs : InsertPackets({s})
      BY <1>2
    <2>2. {s} \in SUBSET Seqs /\ {s} \ cache \in SUBSET Seqs
      OBVIOUS
    <2> QED BY <2>1, <2>2, InsertJoins DEF PacerOf!PacerNext, PacerOf!Accept
  <1>3. CASE Transmit
    BY <1>3, TransmitLeaves, TransmitLetsGo DEF PacerOf!PacerNext
  <1>4. CASE Clock
    BY <1>4 DEF Clock, QueueInv, HasUnsent, Unsent
  <1>5. CASE UNCHANGED paceVars
    BY <1>5 DEF paceVars, queueVars, QueueInv, HasUnsent, Unsent
  <1> QED BY <1>1, <1>2, <1>3, <1>4, <1>5 DEF Next

LEMMA InitQueue == Init => QueueInv /\ Unsent = {}
  BY DEF Init, QueueInv, HasUnsent, Unsent

LEMMA QueueInvariance == Spec => []QueueInv
  <1>1. QueueInv /\ [Next]_paceVars => QueueInv'
    BY StepQueue
  <1> QED BY <1>1, InitQueue, PTL DEF Spec

(* A queue that is not empty always has a packet left to send, so the      *)
(* transmission loop never repeats one (getQueueFront, queueFinalize).     *)
THEOREM AlwaysUnsent == Spec => []HasUnsent
  <1>1. QueueInv => HasUnsent
    BY DEF QueueInv
  <1> QED BY <1>1, QueueInvariance, PTL

(* The queue, its heap and its budget implement the abstract pacer.        *)
THEOREM PacerImplemented == Spec => ImplementsPacer
  <1>1. Init => PacerOf!PacerInit
    BY InitQueue DEF PacerOf!PacerInit
  <1>2. QueueInv /\ [Next]_paceVars => [PacerOf!PacerNext]_Unsent
    BY StepQueue
  <1> QED
    BY <1>1, <1>2, QueueInvariance, PTL DEF Spec, ImplementsPacer, PacerOf!PacerSpec

-----------------------------------------------------------------------------
(* Bytes.  What the queue counts is a cardinality, so that the packets of  *)
(* a batch and those it leaves add up.                                     *)

LEMMA ContentsFinite ==
    ASSUME NEW S \in SUBSET Seqs, IsFiniteSet(S)
    PROVE  IsFiniteSet(Contents(S))
  <1> DEFINE of(s) == {s} \X (1 .. Size(s))
             parts == { of(s) : s \in S }
             f == [s \in S |-> of(s)]
  <1>1. f \in Surjection(S, parts)
    BY DEF Surjection
  <1>2. ASSUME NEW s \in S
        PROVE  IsFiniteSet(of(s))
    <2>1. Size(s) \in Int
      BY PaceAssumption
    <2>2. IsFiniteSet(1 .. Size(s))
      BY <2>1, FS_Interval
    <2>3. IsFiniteSet({s})
      BY FS_Singleton
    <2> QED BY <2>2, <2>3, FS_Product
  <1>3. \A T \in parts : IsFiniteSet(T)
    BY <1>2
  <1> HIDE DEF f, parts
  <1>4. IsFiniteSet(parts)
    BY <1>1, FS_Surjection
  <1>5. IsFiniteSet(UNION parts)
    BY <1>3, <1>4, FS_UNION
  <1> QED BY <1>5 DEF Contents, parts

LEMMA BytesNat ==
    ASSUME NEW S \in SUBSET Seqs, IsFiniteSet(S)
    PROVE  Bytes(S) \in Nat
  BY ContentsFinite, FS_CardinalityType DEF Bytes

LEMMA NoBytes == Bytes({}) = 0
  <1>1. Contents({}) = {}
    BY DEF Contents
  <1> QED BY <1>1, FS_EmptySet DEF Bytes

(* Packets of two sets that have none in common add up.                    *)
LEMMA BytesAdd ==
    ASSUME NEW S \in SUBSET Seqs, NEW T \in SUBSET Seqs,
           IsFiniteSet(S), IsFiniteSet(T), S \cap T = {}
    PROVE  Bytes(S \union T) = Bytes(S) + Bytes(T)
  <1>1. Contents(S \union T) = Contents(S) \union Contents(T)
    BY DEF Contents
  <1>2. Contents(S) \cap Contents(T) = {}
    BY DEF Contents
  <1>3. IsFiniteSet(Contents(S)) /\ IsFiniteSet(Contents(T))
    BY ContentsFinite
  <1>4. Cardinality(Contents(S) \union Contents(T))
          = Cardinality(Contents(S)) + Cardinality(Contents(T)) - Cardinality({})
    BY <1>2, <1>3, FS_Union
  <1>5. Cardinality(Contents(S)) \in Nat /\ Cardinality(Contents(T)) \in Nat
    BY <1>3, FS_CardinalityType
  <1>6. Cardinality({}) = 0
    BY FS_EmptySet
  <1>7. Cardinality(Contents(S) \union Contents(T))
          = Cardinality(Contents(S)) + Cardinality(Contents(T))
    BY <1>4, <1>5, <1>6
  <1> QED BY <1>1, <1>7 DEF Bytes

(* What a batch takes is part of the whole.                                *)
LEMMA BytesSplit ==
    ASSUME NEW S \in SUBSET Seqs, NEW T \in SUBSET S, IsFiniteSet(S)
    PROVE  /\ Bytes(T) \in Nat /\ Bytes(S \ T) \in Nat
           /\ Bytes(S) = Bytes(S \ T) + Bytes(T)
  <1>1. IsFiniteSet(T) /\ IsFiniteSet(S \ T)
    BY FS_Subset, FS_Difference
  <1>2. S = (S \ T) \union T /\ (S \ T) \cap T = {}
    OBVIOUS
  <1>3. T \in SUBSET Seqs /\ S \ T \in SUBSET Seqs
    OBVIOUS
  <1> QED BY <1>1, <1>2, <1>3, BytesAdd, BytesNat

(* A set of natural numbers has the least element that Min chooses.        *)
LEMMA MinIn ==
    ASSUME NEW S, S \subseteq Nat, S # {}
    PROVE  Min(S) \in S
  <1> DEFINE less == OpToRel(<, Nat)
  <1>1. \A x, y \in Nat : <<x, y>> \in less <=> x < y
    BY DEF OpToRel
  <1>2. IsWellFoundedOn(less, Nat)
    BY NatLessThanWellFounded
  <1> HIDE DEF less
  <1>3. PICK low \in S : \A y \in S : ~(<<y, low>> \in less)
    BY <1>2, WFMin
  <1>4. \A x \in S : x \in Nat
    OBVIOUS
  <1>5. \A x \in S : ~(x < low)
    BY <1>1, <1>3, <1>4
  <1>6. \A x \in S : low <= x
    BY <1>4, <1>5
  <1> QED BY <1>6 DEF Min

-----------------------------------------------------------------------------
(* The types of the pacer and its count of bytes.  The numbers are those   *)
(* of any set, so that the queue is finite is part of the invariant.       *)

PaceInv ==
    /\ QueueInv
    /\ TypeOK
    /\ IsFiniteSet(cache)
    /\ SizeAccounted

LEMMA PaceConstants ==
    /\ MaxSpaceQueueMs \in Nat \ {0} /\ MinPacketLimitMs \in Nat \ {0}
    /\ MaxIntervalMs \in Nat \ {0} /\ IntervalWindowMs \in Nat \ {0}
    /\ IntMax \in Nat \ {0}
    /\ MinPacketLimitMs <= MaxIntervalMs /\ MaxIntervalMs <= IntervalWindowMs
  BY PaceAssumption

LEMMA UnsentFinite ==
    ASSUME QueueInv, IsFiniteSet(cache)
    PROVE  Unsent \in SUBSET Seqs /\ IsFiniteSet(Unsent)
  BY FS_Difference DEF Unsent, QueueInv

LEMMA InitPace == Init => PaceInv
  <1> SUFFICES ASSUME Init
               PROVE  PaceInv
    OBVIOUS
  <1>1. Bytes(Unsent) = 0
    BY InitQueue, NoBytes
  <1>2. totalSize \in Nat /\ excess = totalSize
    BY PaceAssumption DEF Init
  <1>3. SizeAccounted
    BY <1>1, <1>2 DEF SizeAccounted
  <1>4. TypeOK
    BY PaceConstants, PaceAssumption DEF Init, TypeOK
  <1>5. IsFiniteSet(cache)
    BY FS_EmptySet DEF Init
  <1> QED BY <1>3, <1>4, <1>5, InitQueue DEF PaceInv

(* Packets that are refused are not counted twice.                         *)
LEMMA InsertPace ==
    ASSUME PaceInv, NEW S \in SUBSET Seqs, IsFiniteSet(S), InsertPackets(S)
    PROVE  PaceInv'
  <1> DEFINE new == S \ cache
  <1>1. /\ cache' = cache \union S
        /\ Unsent' = Unsent \union new
        /\ QueueInv'
    BY InsertJoins DEF PaceInv
  <1>2. { s \in S : ~Refuses(s) } = new
    BY DEF Refuses
  <1>3. /\ totalSize' = totalSize + Bytes(new)
        /\ age' = [s \in Seqs |-> IF s \in new THEN 0 ELSE age[s]]
        /\ oldestAge' = IF oldestAge = None THEN 0 ELSE oldestAge
        /\ UNCHANGED <<sent, excess, idle, rateVars, budgetVars, alive>>
    BY <1>2 DEF InsertPackets
  <1>4. IsFiniteSet(new) /\ new \in SUBSET Seqs /\ Unsent \cap new = {}
    BY FS_Difference DEF Unsent
  <1>5. Bytes(Unsent \union new) = Bytes(Unsent) + Bytes(new)
    BY <1>4, BytesAdd, UnsentFinite DEF PaceInv
  <1>6. Bytes(Unsent)' = Bytes(Unsent') /\ Bytes(Unsent) \in Nat /\ Bytes(new) \in Nat
    BY <1>4, BytesNat, UnsentFinite DEF PaceInv, Bytes, Contents
  <1>7. SizeAccounted'
    <2>1. totalSize = Bytes(Unsent) + excess /\ excess \in Nat /\ excess' = excess
      BY <1>3 DEF PaceInv, SizeAccounted, TypeOK
    <2>2. Bytes(Unsent)' = Bytes(Unsent) + Bytes(new)
      BY <1>1, <1>5, <1>6
    <2> QED BY <1>3, <1>6, <2>1, <2>2 DEF SizeAccounted
  <1>8. IsFiniteSet(cache')
    BY <1>1, FS_Union DEF PaceInv
  <1> HIDE DEF new
  <1>9. TypeOK'
    <2>1. totalSize' \in Nat
      BY <1>3, <1>6 DEF PaceInv, TypeOK
    <2>2. age' \in [Seqs -> 0 .. MaxSpaceQueueMs]
      BY <1>3, PaceConstants DEF PaceInv, TypeOK
    <2>3. \A s \in Seqs \ cache' : age'[s] = 0
      BY <1>1, <1>3 DEF PaceInv, TypeOK
    <2>4. oldestAge' \in {None} \union (0 .. MaxSpaceQueueMs)
      BY <1>3, PaceConstants DEF PaceInv, TypeOK
    <2>5. UNCHANGED <<excess, idle, pacing, minRate, alrRate, maxBytes, remaining>>
      BY <1>3 DEF rateVars, budgetVars
    <2>6. alive' \in BOOLEAN
      BY <1>3 DEF PaceInv, TypeOK
    <2>7. cache' \subseteq Seqs /\ sent' \subseteq cache'
      BY <1>1 DEF QueueInv
    <2> QED BY <2>1, <2>2, <2>3, <2>4, <2>5, <2>6, <2>7 DEF PaceInv, TypeOK
  <1> QED BY <1>1, <1>7, <1>8, <1>9 DEF PaceInv

(* Ages that are left have a least one, for the queue's oldest packet.     *)
LEMMA SendPace ==
    ASSUME PaceInv, SendBatch(Batch)
    PROVE  /\ SizeAccounted'
           /\ totalSize' \in Nat /\ excess' \in Nat
           /\ age' \in [Seqs -> 0 .. MaxSpaceQueueMs]
           /\ \A s \in Seqs \ cache' : age'[s] = 0
           /\ oldestAge' \in {None} \union (0 .. MaxSpaceQueueMs)
  <1> DEFINE left == cache \ (sent \union Batch)
  <1>1. Unsent' = Unsent \ Batch /\ left = Unsent \ Batch
    BY BatchLeaves DEF PaceInv, Unsent
  <1>2. Batch \in SUBSET Unsent
    BY DEF Batch
  <1>3. /\ Bytes(Batch) \in Nat /\ Bytes(Unsent \ Batch) \in Nat
        /\ Bytes(Unsent) = Bytes(Unsent \ Batch) + Bytes(Batch)
    BY <1>2, BytesSplit, UnsentFinite DEF PaceInv
  <1>4. Bytes(Unsent)' = Bytes(Unsent \ Batch)
    BY <1>1 DEF Bytes, Contents
  <1>5. totalSize = Bytes(Unsent) + excess /\ excess \in Nat /\ totalSize \in Nat
    BY DEF PaceInv, SizeAccounted, TypeOK
  <1>6. CASE left = {}
    <2>1. totalSize' = 0 /\ excess' = 0 /\ oldestAge' = None
      BY <1>6 DEF SendBatch
    <2>2. Bytes(Unsent)' = 0
      BY <1>1, <1>4, <1>6, NoBytes
    <2>3. SizeAccounted'
      BY <2>1, <2>2 DEF SizeAccounted
    <2>4. \A s \in Seqs \ cache' : age'[s] = 0
      BY DEF SendBatch
    <2>5. age' \in [Seqs -> 0 .. MaxSpaceQueueMs]
      BY PaceConstants DEF SendBatch, PaceInv, TypeOK
    <2> QED BY <2>1, <2>3, <2>4, <2>5
  <1>7. CASE left # {}
    <2>1. totalSize' = SizeAfter(Batch) /\ excess' = excess
      BY <1>7 DEF SendBatch
    <2>2. totalSize' = totalSize - Bytes(Batch)
      BY <1>3, <1>5, <2>1 DEF SizeAfter, AtLeast
    <2>3. totalSize' = Bytes(Unsent)' + excess'
      BY <1>3, <1>4, <1>5, <2>1, <2>2
    <2>4. totalSize' \in Nat
      BY <1>3, <1>4, <1>5, <2>1, <2>3
    <2>5. \A s \in Seqs \ cache' : age'[s] = 0
      BY DEF SendBatch
    <2>6. age' \in [Seqs -> 0 .. MaxSpaceQueueMs]
      BY PaceConstants DEF SendBatch, PaceInv, TypeOK
    <2>7. oldestAge' \in 0 .. MaxSpaceQueueMs
      <3> DEFINE ages == { age[s] : s \in left }
      <3>1. left \subseteq Seqs
        BY DEF PaceInv, QueueInv
      <3>2. ages \subseteq 0 .. MaxSpaceQueueMs /\ ages # {}
        BY <1>7, <3>1 DEF PaceInv, TypeOK
      <3>3. oldestAge' = Min(ages)
        BY <1>7 DEF SendBatch
      <3> HIDE DEF ages
      <3>4. ages \subseteq Nat
        BY <3>2, PaceConstants
      <3>5. Min(ages) \in ages
        BY <3>2, <3>4, MinIn
      <3> QED BY <3>2, <3>3, <3>5
    <2> QED BY <1>5, <2>1, <2>3, <2>4, <2>5, <2>6, <2>7 DEF SizeAccounted
  <1> QED BY <1>6, <1>7

(* Whatever overflows, an int stays an integer.                            *)
LEMMA Int32Type ==
    ASSUME NEW x \in Int
    PROVE  Int32(x) \in Int
  BY PaceConstants DEF Int32

(* The rate that empties the queue in time divides by what is left of it.  *)
LEMMA QuotientType ==
    ASSUME NEW x \in Int, NEW d \in Nat \ {0}
    PROVE  Quotient(x, d) \in Int /\ (x >= 0 => Quotient(x, d) >= 0)
  BY DEF Quotient

LEMMA RateTypes ==
    ASSUME TypeOK
    PROVE  /\ TargetRate \in Int /\ WindowBytes \in Int
           /\ Earned \in Int /\ Budget \in Int
           /\ Elapsed \in 0 .. MaxIntervalMs
  <1>1. SpaceLeft \in Nat \ {0}
    BY PaceConstants, PaceAssumption DEF SpaceLeft, TypeOK, None
  <1>2. totalSize \in Nat /\ pacing \in Nat /\ idle \in 0 .. MaxIntervalMs
    BY DEF TypeOK
  <1>3. QueueRate \in Int
    BY <1>1, <1>2 DEF QueueRate
  <1>4. TargetRate \in Int
    BY <1>2, <1>3, Int32Type DEF TargetRate, AtLeast
  <1>5. Elapsed \in 0 .. MaxIntervalMs
    BY <1>2, PaceConstants DEF Elapsed, AtMost
  <1>6. IntervalWindowMs * TargetRate \in Int /\ TargetRate * Elapsed \in Int
    BY <1>4, <1>5, PaceConstants
  <1>7. WindowBytes \in Int
    BY <1>6, Int32Type DEF WindowBytes
  <1>8. Earned \in Int
    BY <1>6, Int32Type, QuotientType DEF Earned
  <1>9. Carried \in Int
    BY <1>7 DEF Carried, AtMost, AtLeast, TypeOK
  <1>10. Budget \in Int
    BY <1>7, <1>8, <1>9 DEF Budget, AtMost
  <1> QED BY <1>4, <1>5, <1>7, <1>8, <1>10

LEMMA TransmitPace ==
    ASSUME PaceInv, Transmit
    PROVE  PaceInv'
  <1>1. QueueInv' /\ cache' \subseteq cache
    BY TransmitLeaves DEF PaceInv
  <1>2. IsFiniteSet(cache')
    BY <1>1, FS_Subset DEF PaceInv
  <1>3. /\ maxBytes' = WindowBytes /\ idle' = 0
        /\ UNCHANGED <<pacing, minRate, alrRate>>
        /\ alive' = ~DividesByZero(Batch)
    BY DEF Transmit, rateVars
  <1>4. WindowBytes \in Int /\ Budget \in Int
    BY RateTypes DEF PaceInv
  <1>5. remaining' \in Int
    <2>1. CASE Batch = {}
      BY <1>4, <2>1 DEF Transmit
    <2>2. CASE Batch # {}
      <3>1. Bytes(Batch) \in Nat
        BY BytesSplit, UnsentFinite DEF PaceInv, Batch
      <3>2. remaining' = AtLeast(-WindowBytes, Budget - Bytes(Batch))
        BY <2>2 DEF Transmit
      <3> QED BY <1>4, <3>1, <3>2 DEF AtLeast
    <2> QED BY <2>1, <2>2
  <1>6. /\ SizeAccounted'
        /\ totalSize' \in Nat /\ excess' \in Nat
        /\ age' \in [Seqs -> 0 .. MaxSpaceQueueMs]
        /\ \A s \in Seqs \ cache' : age'[s] = 0
        /\ oldestAge' \in {None} \union (0 .. MaxSpaceQueueMs)
    <2>1. CASE Batch = {}
      <3>1. UNCHANGED queueVars
        BY <2>1 DEF Transmit
      <3> QED BY <3>1 DEF queueVars, PaceInv, TypeOK, SizeAccounted, Unsent, Bytes, Contents
    <2>2. CASE Batch # {}
      <3>1. SendBatch(Batch)
        BY <2>2 DEF Transmit
      <3> QED BY <3>1, SendPace
    <2> QED BY <2>1, <2>2
  <1>7. alive' \in BOOLEAN
    BY <1>3 DEF DividesByZero
  <1>8. idle' \in 0 .. MaxIntervalMs
    BY <1>3, PaceConstants
  <1>9. TypeOK'
    <2>1. cache' \subseteq Seqs /\ sent' \subseteq cache'
      BY <1>1 DEF QueueInv
    <2>2. pacing' \in Nat /\ minRate' \in Nat /\ alrRate' \in Nat
      BY <1>3 DEF PaceInv, TypeOK
    <2>3. maxBytes' \in Int
      BY <1>3, <1>4
    <2> QED BY <1>5, <1>6, <1>7, <1>8, <2>1, <2>2, <2>3 DEF TypeOK
  <1> QED BY <1>1, <1>2, <1>6, <1>9 DEF PaceInv

(* An estimate changes rates, the clock changes ages.                      *)
LEMMA EstimatePace ==
    ASSUME PaceInv, NEW kbps \in Rates, SetEstimate(kbps)
    PROVE  PaceInv'
  <1>1. UNCHANGED <<cache, sent, age, oldestAge, totalSize, excess>>
    BY DEF SetEstimate, queueVars
  <1>2. UNCHANGED <<idle, minRate, maxBytes, remaining, alive>>
    BY DEF SetEstimate, budgetVars
  <1>3. pacing' \in Nat /\ alrRate' \in Nat
    <2>1. kbps \in Nat /\ minRate \in Nat
      BY PaceAssumption DEF PaceInv, TypeOK
    <2> QED BY <2>1 DEF SetEstimate, AtLeast
  <1>4. TypeOK'
    BY <1>1, <1>2, <1>3 DEF PaceInv, TypeOK
  <1>5. SizeAccounted'
    BY <1>1 DEF PaceInv, SizeAccounted, Bytes, Contents, Unsent
  <1>6. QueueInv'
    BY <1>1 DEF PaceInv, QueueInv, HasUnsent, Unsent
  <1> QED BY <1>1, <1>4, <1>5, <1>6 DEF PaceInv

LEMMA ClockPace ==
    ASSUME PaceInv, Clock
    PROVE  PaceInv'
  <1>1. /\ UNCHANGED <<cache, sent, totalSize, excess>>
        /\ UNCHANGED <<pacing, minRate, alrRate, maxBytes, remaining, alive>>
    BY DEF Clock, rateVars, budgetVars
  <1>2. idle' \in 0 .. MaxIntervalMs
    BY PaceConstants DEF Clock, AtMost, PaceInv, TypeOK
  <1>3. ASSUME NEW a \in 0 .. MaxSpaceQueueMs
        PROVE  Older(a) \in 0 .. MaxSpaceQueueMs
    BY PaceConstants DEF Older, AtMost
  <1>4. age' = [s \in Seqs |-> IF s \in cache THEN Older(age[s]) ELSE age[s]]
    BY DEF Clock
  <1>5. age' \in [Seqs -> 0 .. MaxSpaceQueueMs] /\ \A s \in Seqs \ cache : age'[s] = 0
    BY <1>3, <1>4 DEF PaceInv, TypeOK
  <1>6. oldestAge' \in {None} \union (0 .. MaxSpaceQueueMs)
    BY <1>3 DEF Clock, PaceInv, TypeOK
  <1>7. TypeOK'
    BY <1>1, <1>2, <1>5, <1>6 DEF PaceInv, TypeOK
  <1>8. SizeAccounted'
    BY <1>1 DEF PaceInv, SizeAccounted, Bytes, Contents, Unsent
  <1>9. QueueInv'
    BY <1>1 DEF PaceInv, QueueInv, HasUnsent, Unsent
  <1> QED BY <1>1, <1>7, <1>8, <1>9 DEF PaceInv

LEMMA StutterPace ==
    ASSUME PaceInv, UNCHANGED paceVars
    PROVE  PaceInv'
  <1>1. /\ UNCHANGED <<cache, sent, age, oldestAge, totalSize, excess, idle>>
        /\ UNCHANGED <<pacing, minRate, alrRate, maxBytes, remaining, alive>>
    BY DEF paceVars, queueVars, rateVars, budgetVars
  <1>2. TypeOK'
    BY <1>1 DEF PaceInv, TypeOK
  <1>3. SizeAccounted'
    BY <1>1 DEF PaceInv, SizeAccounted, Bytes, Contents, Unsent
  <1>4. QueueInv'
    BY <1>1 DEF PaceInv, QueueInv, HasUnsent, Unsent
  <1> QED BY <1>1, <1>2, <1>3, <1>4 DEF PaceInv

LEMMA PaceNext == PaceInv /\ [Next]_paceVars => PaceInv'
  <1> SUFFICES ASSUME PaceInv, [Next]_paceVars
               PROVE  PaceInv'
    OBVIOUS
  <1>1. ASSUME NEW kbps \in Rates, SetEstimate(kbps)
        PROVE  PaceInv'
    BY <1>1, EstimatePace
  <1>2. ASSUME NEW s \in Seqs, InsertPackets({s})
        PROVE  PaceInv'
    <2>1. {s} \in SUBSET Seqs /\ IsFiniteSet({s})
      BY FS_Singleton
    <2> QED BY <1>2, <2>1, InsertPace
  <1> QED
    BY <1>1, <1>2, TransmitPace, ClockPace, StutterPace DEF Next

LEMMA PaceInvariance == Spec => []PaceInv
  <1> QED BY InitPace, PaceNext, PTL DEF Spec

(* Types of the pacer: its ages stay within what the code tells apart, its *)
(* counters are never negative.                                            *)
THEOREM PaceTypeCorrect == Spec => []TypeOK
  <1>1. PaceInv => TypeOK
    BY DEF PaceInv
  <1> QED BY <1>1, PaceInvariance, PTL

(* Whatever lingers, is refused or goes, the queue's size is that of its   *)
(* unsent packets and what the counter started with (pushPacket,           *)
(* queueSent, queueFinalize).                                              *)
THEOREM SizeIsUnsent == Spec => []SizeAccounted
  <1>1. PaceInv => SizeAccounted
    BY DEF PaceInv
  <1> QED BY <1>1, PaceInvariance, PTL

-----------------------------------------------------------------------------
(* The budget.                                                             *)

(* A window of the target rate is a number an int holds; it is one below   *)
(* four gigabits per second.                                               *)
WindowFits == TargetRate >= 0 /\ IntervalWindowMs * TargetRate <= IntMax

LEMMA Int32Small ==
    ASSUME NEW x \in 0 .. IntMax
    PROVE  Int32(x) = x
  BY PaceConstants DEF Int32

(* What is earned in one go is less than the window.                       *)
LEMMA ProductGrows ==
    ASSUME NEW r \in Nat, NEW m \in Nat, NEW n \in Nat, m <= n
    PROVE  r * m \in Nat /\ n * r \in Nat /\ r * m <= n * r
  <1>1. PICK d \in Nat : n = m + d
    <2>1. n - m \in Nat /\ n = m + (n - m)
      OBVIOUS
    <2> QED BY <2>1
  <1>2. r * m \in Nat /\ d * r \in Nat /\ n * r \in Nat
    OBVIOUS
  <1>3. n * r = r * m + d * r
    BY <1>1
  <1> QED BY <1>2, <1>3

LEMMA BudgetIsWithin ==
    ASSUME TypeOK, WindowFits
    PROVE  WindowBytes \in Nat /\ Budget \in -WindowBytes .. WindowBytes
  <1>1. TargetRate \in Nat /\ Elapsed \in Nat /\ Elapsed <= IntervalWindowMs
    BY RateTypes, PaceConstants DEF WindowFits
  <1>2. /\ TargetRate * Elapsed \in Nat /\ IntervalWindowMs * TargetRate \in Nat
        /\ TargetRate * Elapsed <= IntervalWindowMs * TargetRate
    BY <1>1, PaceConstants, ProductGrows
  <1>3. WindowBytes \in Nat
    BY <1>2, Int32Small, PaceConstants DEF WindowBytes, WindowFits
  <1>4. Earned \in Nat
    <2>1. TargetRate * Elapsed \in 0 .. IntMax
      BY <1>2, PaceConstants DEF WindowFits
    <2>2. Int32(TargetRate * Elapsed) \in Nat
      BY <1>2, <2>1, Int32Small
    <2> QED BY <2>2, QuotientType DEF Earned
  <1>5. Carried \in -WindowBytes .. WindowBytes
    BY <1>3 DEF Carried, AtMost, AtLeast, TypeOK
  <1> QED BY <1>3, <1>4, <1>5 DEF Budget, AtMost

LEMMA TransmitBudget ==
    ASSUME PaceInv, WindowFits, Transmit
    PROVE  BudgetInWindow'
  <1>1. WindowBytes \in Nat /\ Budget \in -WindowBytes .. WindowBytes
    BY BudgetIsWithin DEF PaceInv
  <1>2. maxBytes' = WindowBytes
    BY DEF Transmit
  <1>3. CASE Batch = {}
    BY <1>1, <1>2, <1>3 DEF Transmit, BudgetInWindow
  <1>4. CASE Batch # {}
    <2>1. Bytes(Batch) \in Nat
      BY BytesSplit, UnsentFinite DEF PaceInv, Batch
    <2>2. remaining' = AtLeast(-WindowBytes, Budget - Bytes(Batch))
      BY <1>4 DEF Transmit
    <2> QED BY <1>1, <1>2, <2>1, <2>2 DEF AtLeast, BudgetInWindow
  <1> QED BY <1>3, <1>4

LEMMA BudgetNext ==
    PaceInv /\ WindowFits /\ BudgetInWindow /\ [Next]_paceVars => BudgetInWindow'
  <1> SUFFICES ASSUME PaceInv, WindowFits, BudgetInWindow, [Next]_paceVars
               PROVE  BudgetInWindow'
    OBVIOUS
  <1>1. CASE UNCHANGED budgetVars
    BY <1>1 DEF budgetVars, BudgetInWindow
  <1> QED
    BY <1>1, TransmitBudget
       DEF Next, SetEstimate, InsertPackets, Clock, paceVars

(* The budget stays within its window as long as the window is a number an *)
(* int holds (IntervalBudget); when it is not, the window itself may be    *)
(* less than nothing.                                                      *)
THEOREM BudgetStays == Spec /\ []WindowFits => []BudgetInWindow
  <1>1. Init => BudgetInWindow
    BY DEF Init, BudgetInWindow
  <1> QED BY <1>1, BudgetNext, PaceInvariance, PTL DEF Spec

-----------------------------------------------------------------------------
(* The cache.                                                              *)

(* What the code makes of the cache: base numbers delete nothing, so that  *)
(* only an acknowledgement takes a packet out of it.  (Sender.cc:141 says  *)
(* otherwise; and a cached packet may still be refused a retransmission,   *)
(* PaceQueue.cc:43 and Sender.cc:156.)                                     *)
CachedUntilAcked == sendingCache = (1 .. packetIdSeed) \ acked

(* Only numbers that were given are acknowledged; without this a packet    *)
(* could be numbered after its acknowledgement and never enter the cache.  *)
CacheInv ==
    /\ packetIdSeed \in Nat
    /\ acked \subseteq 0 .. packetIdSeed
    /\ CachedUntilAcked

(* What is cached was numbered and is not acknowledged.                    *)
LEMMA CachedIsOpen ==
    ASSUME CacheInv
    PROVE  sendingCache \cap acked = {}
BY DEF CacheInv, CachedUntilAcked

(* addPackets caches what it numbers.                                      *)
LEMMA AddInv ==
    ASSUME CacheInv, NEW total \in 1 .. MaxFrame, AddPackets(total)
    PROVE  CacheInv'
<1>1. MaxFrame \in Nat /\ total \in Nat
  BY SenderAssumption
<1>2. /\ packetIdSeed' = packetIdSeed + total
      /\ sendingCache' = sendingCache \union (packetIdSeed + 1 .. packetIdSeed + total)
      /\ acked' = acked
  BY DEF AddPackets, NewIds, historyVars
<1>3. packetIdSeed \in Nat /\ packetIdSeed' \in Nat /\ packetIdSeed <= packetIdSeed'
  BY <1>1, <1>2 DEF CacheInv
<1>4. acked' \subseteq 0 .. packetIdSeed'
  BY <1>2, <1>3 DEF CacheInv
<1>5. (packetIdSeed + 1 .. packetIdSeed + total) \cap acked = {}
  BY <1>1, <1>3 DEF CacheInv
<1>6. 1 .. packetIdSeed' = (1 .. packetIdSeed) \union (packetIdSeed + 1 .. packetIdSeed + total)
  BY <1>1, <1>2, <1>3
<1>7. sendingCache' = (1 .. packetIdSeed') \ acked'
  BY <1>2, <1>5, <1>6 DEF CacheInv, CachedUntilAcked
<1> QED
  BY <1>3, <1>4, <1>7 DEF CacheInv, CachedUntilAcked

(* procSegmentAck drops what it acknowledges, and nothing else.            *)
LEMMA AckInv ==
    ASSUME CacheInv, NEW ackedId \in {0} \union Seqs, NEW base, NEW granted,
           SegmentAck(ackedId, base, granted)
    PROVE  CacheInv'
<1>1. /\ packetIdSeed' = packetIdSeed
      /\ sendingCache' = sendingCache \ {ackedId}
      /\ acked' = acked \union ({ackedId} \cap Seqs)
      /\ ackedId <= packetIdSeed
  BY DEF SegmentAck, BelowBase, KnownId
<1>2. ackedId \in Nat /\ packetIdSeed \in Nat
  <2>1. CASE ackedId = 0
    BY <2>1 DEF CacheInv
  <2>2. CASE ackedId \in Seqs
    BY <2>2, PaceAssumption DEF CacheInv
  <2> QED
    BY <2>1, <2>2
<1>3. ackedId \in 0 .. packetIdSeed
  BY <1>1, <1>2
<1>4. acked' \subseteq 0 .. packetIdSeed
  BY <1>1, <1>3 DEF CacheInv
<1>5. ackedId \notin Seqs => ackedId \notin 1 .. packetIdSeed
  BY <1>2
<1>6. sendingCache' = (1 .. packetIdSeed) \ acked'
  BY <1>1, <1>5 DEF CacheInv, CachedUntilAcked
<1> QED
  BY <1>1, <1>2, <1>4, <1>6 DEF CacheInv, CachedUntilAcked

LEMMA CacheNext == CacheInv /\ [SenderNext]_allVars => CacheInv'
<1> SUFFICES ASSUME CacheInv, [SenderNext]_allVars
             PROVE  CacheInv'
  OBVIOUS
<1>1. ASSUME NEW total \in 1 .. MaxFrame, AddPackets(total)
      PROVE  CacheInv'
  BY <1>1, AddInv
<1>2. ASSUME NEW ackedId \in {0} \union Seqs, NEW base \in {0} \union Seqs,
             NEW granted \in SUBSET sendingCache, SegmentAck(ackedId, base, granted)
      PROVE  CacheInv'
  BY <1>2, AckInv
<1>3. CASE UNCHANGED <<senderVars, acked>>
  BY <1>3 DEF senderVars, CacheInv, CachedUntilAcked
<1>4. CASE Heartbeat
  BY <1>3, <1>4 DEF Heartbeat
<1>5. CASE NetworkChange
  BY <1>3, <1>5 DEF NetworkChange, historyVars
<1>6. CASE TimePasses
  BY <1>3, <1>6 DEF TimePasses, historyVars
<1>7. CASE UNCHANGED allVars
  BY <1>3, <1>7 DEF allVars, historyVars
<1> QED
  BY <1>1, <1>2, <1>4, <1>5, <1>6, <1>7 DEF SenderNext

LEMMA CacheInvariance == SenderSpec => []CacheInv
<1>1. SenderInit => CacheInv
  BY DEF SenderInit, CacheInv, CachedUntilAcked
<1> QED
  BY <1>1, CacheNext, PTL DEF SenderSpec

(* Whatever the pacer holds, an acknowledged packet is not transmitted.    *)
THEOREM NeverSendsAcked == SenderSpec => []AckedIsNotSent
<1>1. CacheInv => AckedIsNotSent
  BY CachedIsOpen DEF AckedIsNotSent, Sendable
<1> QED
  BY <1>1, CacheInvariance, PTL

-----------------------------------------------------------------------------
(* The order of first transmissions.  A number below one that goes is      *)
(* either sent or acknowledged, or the pacer has it and lets it go first:  *)
(* whatever was numbered is in one of these three places.                  *)
OrderInv ==
    /\ QueueInv
    /\ packetIdSeed \in {0} \union Seqs
    /\ cache \subseteq 1 .. packetIdSeed
    /\ everSent \subseteq 1 .. packetIdSeed
    /\ NothingForgotten
    /\ FirstSentInOrder

LEMMA NumberedAreSeqs ==
    ASSUME OrderInv, CacheInv
    PROVE  1 .. packetIdSeed \subseteq Seqs /\ sendingCache \subseteq Seqs
<1>1. 1 .. packetIdSeed \subseteq Seqs
  <2>1. CASE packetIdSeed = 0
    BY <2>1
  <2>2. CASE packetIdSeed \in Seqs
    BY <2>2, SenderAssumption
  <2> QED BY <2>1, <2>2 DEF OrderInv
<1> QED BY <1>1 DEF CacheInv, CachedUntilAcked

(* A frame's packets are new to the pacer, so it refuses none of them.     *)
LEMMA AddOrder ==
    ASSUME OrderInv, CacheInv, NEW total \in 1 .. MaxFrame, AddPackets(total)
    PROVE  OrderInv'
<1> DEFINE ids == NewIds(total)
<1>1. /\ packetIdSeed' = packetIdSeed + total /\ packetIdSeed' \in Seqs
      /\ InsertPackets(ids) /\ acked' = acked /\ everSent' = everSent
  BY DEF AddPackets, historyVars
<1>2. /\ packetIdSeed \in Nat /\ total \in Nat \ {0}
  BY SenderAssumption DEF CacheInv
<1>3. 1 .. packetIdSeed' = 1 .. packetIdSeed \union ids
  BY <1>1, <1>2 DEF NewIds
<1>4. 1 .. packetIdSeed' \subseteq Seqs
  BY <1>1, SenderAssumption
<1>5. ids \in SUBSET Seqs
  BY <1>3, <1>4
<1>6. ids \cap cache = {}
  <2>1. ids \cap 1 .. packetIdSeed = {}
    BY <1>2 DEF NewIds
  <2> QED BY <2>1 DEF OrderInv, NothingForgotten
<1> HIDE DEF ids
<1>7. QueueInv' /\ cache' = cache \union ids /\ Unsent' = Unsent \union ids
  BY <1>1, <1>5, <1>6, InsertJoins DEF OrderInv, NothingForgotten
<1>8. FirstSentInOrder'
  BY <1>1 DEF OrderInv, NothingForgotten, FirstSentInOrder
<1> QED
  BY <1>1, <1>3, <1>7, <1>8 DEF OrderInv, NothingForgotten

LEMMA AckOrder ==
    ASSUME OrderInv, CacheInv, NEW ackedId, NEW base,
           NEW granted \in SUBSET sendingCache, SegmentAck(ackedId, base, granted)
    PROVE  OrderInv'
<1>1. /\ packetIdSeed' = packetIdSeed /\ everSent' = everSent
      /\ acked \subseteq acked'
      /\ granted \in SUBSET Seqs
  BY NumberedAreSeqs DEF SegmentAck
<1>2. QueueInv' /\ cache' \subseteq cache \union granted /\ Unsent \subseteq Unsent'
  <2>1. CASE granted = {}
    BY <2>1 DEF SegmentAck, paceVars, queueVars, OrderInv, QueueInv, HasUnsent,
                Unsent
  <2>2. CASE granted # {}
    BY <1>1, <2>2, InsertJoins DEF SegmentAck, OrderInv
  <2> QED BY <2>1, <2>2
<1>3. granted \subseteq 1 .. packetIdSeed
  BY DEF CacheInv, CachedUntilAcked
<1>4. FirstSentInOrder'
  BY <1>1 DEF OrderInv, NothingForgotten, FirstSentInOrder
<1> QED
  BY <1>1, <1>2, <1>3, <1>4 DEF OrderInv, NothingForgotten

LEMMA HeartbeatOrder ==
    ASSUME OrderInv, CacheInv, Heartbeat
    PROVE  OrderInv'
<1>1. /\ packetIdSeed' = packetIdSeed /\ acked' = acked
      /\ everSent' = everSent \union Sendable(Batch)
      /\ Transmit
  BY DEF Heartbeat, senderVars
<1>2. QueueInv' /\ Unsent' = Unsent \ Batch /\ cache' \subseteq cache
  BY <1>1, TransmitLeaves DEF OrderInv, NothingForgotten
<1>3. Batch \subseteq Unsent /\ Unsent \subseteq 1 .. packetIdSeed
  BY DEF Batch, Unsent, OrderInv
<1>4. Batch \subseteq acked \union Sendable(Batch)
  BY <1>3 DEF CacheInv, CachedUntilAcked, Sendable
<1>5. Sendable(Batch) \subseteq Batch
  BY DEF Sendable
<1>6. FirstSentInOrder'
  <2> SUFFICES ASSUME NEW s \in everSent', NEW n \in 1 .. s
               PROVE  n \in everSent' \union acked'
    BY DEF FirstSentInOrder
  <2>1. CASE s \in everSent
    BY <1>1, <2>1 DEF OrderInv, NothingForgotten, FirstSentInOrder
  <2>2. CASE s \in Batch
    <3>1. s \in Nat /\ n \in Nat /\ n <= s /\ n \in 1 .. packetIdSeed
      BY <1>3, <2>2 DEF CacheInv
    <3>2. CASE n \in everSent \union acked
      BY <1>1, <3>2
    <3>3. CASE n \in Unsent
      <4>1. n \in Batch
        BY <2>2, <3>1, <3>3, LowestGo DEF OrderInv, NothingForgotten
      <4> QED BY <1>1, <1>4, <4>1
    <3> QED BY <3>1, <3>2, <3>3 DEF OrderInv, NothingForgotten
  <2> QED BY <1>1, <1>5, <2>1, <2>2
<1>7. everSent' \subseteq 1 .. packetIdSeed
  BY <1>1, <1>3, <1>5 DEF OrderInv, NothingForgotten
<1>8. 1 .. packetIdSeed' \subseteq everSent' \union acked' \union Unsent'
  BY <1>1, <1>2, <1>4 DEF OrderInv, NothingForgotten
<1> QED
  BY <1>1, <1>2, <1>6, <1>7, <1>8 DEF OrderInv, NothingForgotten

(* Estimates and the clock leave queue and history alone.                  *)
LEMMA OrderStays ==
    ASSUME OrderInv, UNCHANGED <<cache, sent, packetIdSeed, acked, everSent>>
    PROVE  OrderInv' /\ Unsent' = Unsent
  BY DEF OrderInv, NothingForgotten, QueueInv, HasUnsent, Unsent, FirstSentInOrder

LEMMA EstimateStays ==
    ASSUME NetworkChange \/ TimePasses \/ UNCHANGED allVars
    PROVE  UNCHANGED <<cache, sent, packetIdSeed, acked, everSent>>
  BY DEF NetworkChange, SetEstimate, TimePasses, Clock, allVars, paceVars,
         queueVars, senderVars, historyVars

LEMMA OrderNext == OrderInv /\ CacheInv /\ [SenderNext]_allVars => OrderInv'
<1> SUFFICES ASSUME OrderInv, CacheInv, [SenderNext]_allVars
             PROVE  OrderInv'
  OBVIOUS
<1>1. ASSUME NEW total \in 1 .. MaxFrame, AddPackets(total)
      PROVE  OrderInv'
  BY <1>1, AddOrder
<1>2. ASSUME NEW ackedId \in {0} \union Seqs, NEW base \in {0} \union Seqs,
             NEW granted \in SUBSET sendingCache, SegmentAck(ackedId, base, granted)
      PROVE  OrderInv'
  BY <1>2, AckOrder
<1>3. CASE Heartbeat
  BY <1>3, HeartbeatOrder
<1>4. CASE NetworkChange \/ TimePasses \/ UNCHANGED allVars
  BY <1>4, EstimateStays, OrderStays
<1> QED
  BY <1>1, <1>2, <1>3, <1>4 DEF SenderNext

LEMMA OrderInvariance == SenderSpec => [](OrderInv /\ CacheInv)
<1>1. SenderInit => OrderInv
  BY InitQueue DEF SenderInit, Init, OrderInv, NothingForgotten, FirstSentInOrder
<1> QED
  BY <1>1, OrderNext, CacheInvariance, PTL DEF SenderSpec

(* Neither requests nor acknowledgements reorder a frame: when a packet is *)
(* on the wire, all lower numbers have been there or were acknowledged     *)
(* (getQueueFront, procSegmentAck).                                        *)
THEOREM FirstInOrder == SenderSpec => []FirstSentInOrder
<1>1. OrderInv => FirstSentInOrder
  BY DEF OrderInv
<1> QED
  BY <1>1, OrderInvariance, PTL

(* No numbered packet disappears before its first transmission             *)
(* (addPackets, procSegmentAck, sendCallback).                             *)
THEOREM NothingIsForgotten == SenderSpec => []NothingForgotten
<1>1. OrderInv => NothingForgotten
  BY DEF OrderInv
<1> QED
  BY <1>1, OrderInvariance, PTL

(* The sender never leaves its pacer with nothing but packets that went.   *)
THEOREM SenderHasUnsent == SenderSpec => []HasUnsent
<1>1. OrderInv => HasUnsent
  BY DEF OrderInv, QueueInv
<1> QED
  BY <1>1, OrderInvariance, PTL

(* Under the sender, too, the queue is the abstract pacer: a frame and a   *)
(* request are accepted, a heartbeat lets the lowest numbers go.           *)
THEOREM SenderPaces == SenderSpec => ImplementsPacer
<1>1. SenderInit => PacerOf!PacerInit
  BY InitQueue DEF SenderInit, PacerOf!PacerInit
<1>2. OrderInv /\ CacheInv /\ [SenderNext]_allVars => [PacerOf!PacerNext]_Unsent
  <2> SUFFICES ASSUME OrderInv, CacheInv, [SenderNext]_allVars
               PROVE  [PacerOf!PacerNext]_Unsent
    OBVIOUS
  <2>1. ASSUME NEW total \in 1 .. MaxFrame, AddPackets(total)
        PROVE  PacerOf!PacerNext
    <3> DEFINE ids == NewIds(total)
    <3>1. InsertPackets(ids) /\ packetIdSeed + total \in Seqs
      BY <2>1 DEF AddPackets
    <3>2. packetIdSeed \in Nat
      BY DEF CacheInv
    <3>3. ids \in SUBSET Seqs
      BY <3>1, <3>2, SenderAssumption DEF NewIds
    <3> HIDE DEF ids
    <3>4. Unsent' = Unsent \union (ids \ cache) /\ ids \ cache \in SUBSET Seqs
      BY <3>1, <3>3, InsertJoins DEF OrderInv
    <3> QED BY <3>4 DEF PacerOf!PacerNext, PacerOf!Accept
  <2>2. ASSUME NEW ackedId, NEW base,
               NEW granted \in SUBSET sendingCache, SegmentAck(ackedId, base, granted)
        PROVE  [PacerOf!PacerNext]_Unsent
    <3>1. CASE granted = {}
      BY <2>2, <3>1 DEF SegmentAck, paceVars, queueVars, Unsent
    <3>2. CASE granted # {}
      <4>1. InsertPackets(granted) /\ granted \in SUBSET Seqs
        BY <2>2, <3>2, NumberedAreSeqs DEF SegmentAck
      <4>2. Unsent' = Unsent \union (granted \ cache)
              /\ granted \ cache \in SUBSET Seqs
        BY <4>1, InsertJoins DEF OrderInv
      <4> QED BY <4>2 DEF PacerOf!PacerNext, PacerOf!Accept
    <3> QED BY <3>1, <3>2
  <2>3. CASE Heartbeat
    BY <2>3, TransmitLetsGo DEF Heartbeat, OrderInv, PacerOf!PacerNext
  <2>4. CASE NetworkChange \/ TimePasses \/ UNCHANGED allVars
    BY <2>4, EstimateStays, OrderStays
  <2> QED
    BY <2>1, <2>2, <2>3, <2>4 DEF SenderNext
<1> QED
  BY <1>1, <1>2, OrderInvariance, PTL
     DEF SenderSpec, ImplementsPacer, PacerOf!PacerSpec

-----------------------------------------------------------------------------
(* The pacer as the sender uses it.  A frame's packets and a request's are *)
(* finitely many, for the cache holds none above the last number given.    *)

LEMMA SenderPaceNext ==
    OrderInv /\ CacheInv /\ PaceInv /\ [SenderNext]_allVars => PaceInv'
<1> SUFFICES ASSUME OrderInv, CacheInv, PaceInv, [SenderNext]_allVars
             PROVE  PaceInv'
  OBVIOUS
<1>1. ASSUME NEW total \in 1 .. MaxFrame, AddPackets(total)
      PROVE  PaceInv'
  <2>1. InsertPackets(NewIds(total)) /\ packetIdSeed + total \in Seqs
    BY <1>1 DEF AddPackets
  <2>2. packetIdSeed \in Nat /\ total \in Nat
    BY SenderAssumption DEF CacheInv
  <2>3. NewIds(total) \in SUBSET Seqs
    BY <2>1, <2>2, SenderAssumption DEF NewIds
  <2>4. IsFiniteSet(NewIds(total))
    BY <2>2, FS_Interval DEF NewIds
  <2> QED BY <2>1, <2>3, <2>4, InsertPace
<1>2. ASSUME NEW ackedId, NEW base, NEW granted \in SUBSET sendingCache,
             SegmentAck(ackedId, base, granted)
      PROVE  PaceInv'
  <2>1. CASE granted = {}
    BY <1>2, <2>1, StutterPace DEF SegmentAck
  <2>2. CASE granted # {}
    <3>1. InsertPackets(granted) /\ granted \in SUBSET Seqs
      BY <1>2, <2>2, NumberedAreSeqs DEF SegmentAck
    <3>2. IsFiniteSet(1 .. packetIdSeed) /\ granted \in SUBSET (1 .. packetIdSeed)
      BY FS_Interval DEF CacheInv, CachedUntilAcked
    <3>3. IsFiniteSet(granted)
      BY <3>2, FS_Subset
    <3> QED BY <3>1, <3>3, InsertPace
  <2> QED BY <2>1, <2>2
<1>3. CASE Heartbeat
  BY <1>3, TransmitPace DEF Heartbeat
<1>4. CASE NetworkChange
  BY <1>4, EstimatePace DEF NetworkChange
<1>5. CASE TimePasses
  BY <1>5, ClockPace DEF TimePasses
<1>6. CASE UNCHANGED allVars
  BY <1>6, StutterPace DEF allVars
<1> QED
  BY <1>1, <1>2, <1>3, <1>4, <1>5, <1>6 DEF SenderNext

LEMMA SenderPaceInvariance == SenderSpec => []PaceInv
<1>1. SenderInit => PaceInv
  BY InitPace DEF SenderInit
<1> QED
  BY <1>1, SenderPaceNext, OrderInvariance, PTL DEF SenderSpec

(* Types, when frames and requests of any size reach the pacer.            *)
THEOREM SenderTypes == SenderSpec => []TypeOK
<1>1. PaceInv => TypeOK
  BY DEF PaceInv
<1> QED
  BY <1>1, SenderPaceInvariance, PTL

(* A packet that is asked for while the queue holds it, sent or not, is    *)
(* not counted again: under the sender, too, the size of the queue is that *)
(* of its unsent packets (addPackets, procSegmentAck, queueFinalize).      *)
THEOREM SenderSize == SenderSpec => []SizeAccounted
<1>1. PaceInv => SizeAccounted
  BY DEF PaceInv
<1> QED
  BY <1>1, SenderPaceInvariance, PTL

LEMMA SenderBudgetNext ==
    PaceInv /\ WindowFits /\ BudgetInWindow /\ [SenderNext]_allVars => BudgetInWindow'
<1> SUFFICES ASSUME PaceInv, WindowFits, BudgetInWindow, [SenderNext]_allVars
             PROVE  BudgetInWindow'
  OBVIOUS
<1>1. CASE UNCHANGED budgetVars
  BY <1>1 DEF budgetVars, BudgetInWindow
<1>2. CASE Heartbeat
  BY <1>2, TransmitBudget DEF Heartbeat
<1>3. CASE \E total \in 1 .. MaxFrame : AddPackets(total)
  BY <1>1, <1>3 DEF AddPackets, InsertPackets
<1>4. CASE \E ackedId, base \in {0} \union Seqs, granted \in SUBSET sendingCache :
               SegmentAck(ackedId, base, granted)
  BY <1>1, <1>4 DEF SegmentAck, InsertPackets, paceVars
<1>5. CASE NetworkChange \/ TimePasses \/ UNCHANGED allVars
  BY <1>1, <1>5 DEF NetworkChange, SetEstimate, TimePasses, Clock, allVars, paceVars
<1> QED
  BY <1>2, <1>3, <1>4, <1>5 DEF SenderNext

(* The sender's budget, with the same premise: neither large frames nor    *)
(* requests take more than a window's debt.                                *)
THEOREM SenderBudgetStays == SenderSpec /\ []WindowFits => []BudgetInWindow
<1>1. SenderInit => BudgetInWindow
  BY DEF SenderInit, Init, BudgetInWindow
<1> QED
  BY <1>1, SenderBudgetNext, SenderPaceInvariance, PTL DEF SenderSpec

=============================================================================
