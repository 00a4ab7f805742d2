---------------------------- MODULE FeedbackProofs ----------------------------
(***************************************************************************)
(* The receiver's feedback for every range of numbers, size of a message,  *)
(* window and delay: what RecvCongestionCtrl promises of both halves.      *)
(***************************************************************************)
EXTENDS RecvCongestionCtrl, FiniteSetTheorems, WellFoundedInduction, TLAPS

USE DEF Seqs, LossStat!Seqs, LossStat!None

(* A set of numbers has a largest one.                                     *)
LEMMA LargestIs ==
    ASSUME NEW S, S \subseteq Seqs, S # {}
    PROVE  Max(S) \in S /\ \A x \in S : Max(S) >= x
<1> DEFINE less == OpToRel(<, Nat)
           T == { i \in Seqs : MaxSeq - i \in S }
<1>1. MaxSeq \in Nat
  BY ProxyAssumption
<1>2. \A x, y \in Nat : <<x, y>> \in less <=> x < y
  BY DEF OpToRel
<1>3. T \subseteq Nat /\ T # {}
  <2>1. PICK s \in S : TRUE
    OBVIOUS
  <2>2. MaxSeq - s \in Seqs /\ MaxSeq - (MaxSeq - s) = s
    BY <1>1
  <2>3. MaxSeq - s \in T
    BY <2>2
  <2> QED BY <1>1, <2>3
<1>4. IsWellFoundedOn(less, Nat)
  BY NatLessThanWellFounded
<1> HIDE DEF less, T
<1>5. PICK i \in T : \A j \in T : ~(<<j, i>> \in less)
  BY <1>3, <1>4, WFMin
<1>6. \A j \in T : ~(j < i)
  BY <1>2, <1>3, <1>5
<1>7. MaxSeq - i \in S /\ \A x \in S : MaxSeq - i >= x
  <2> USE DEF T
  <2>1. i \in Seqs /\ MaxSeq - i \in S
    BY <1>5
  <2>2. ASSUME NEW x \in S
        PROVE  MaxSeq - i >= x
    <3>1. x \in Seqs /\ MaxSeq - x \in Seqs /\ MaxSeq - (MaxSeq - x) = x
      BY <1>1
    <3>2. ~(MaxSeq - x < i)
      BY <1>6, <3>1
    <3> QED BY <1>1, <2>1, <3>1, <3>2
  <2> QED BY <2>1, <2>2
<1>8. \E x \in S : \A y \in S : x >= y
  BY <1>7
<1> QED BY <1>8 DEF Max

-----------------------------------------------------------------------------
(* The release of arrivals.                                                *)

(* Past the end, the last elements go, and perhaps one more.               *)
LEMMA PastEndIs ==
    ASSUME NEW R, NEW F, NEW n, NEW K \in PastEnd(R, F, n)
    PROVE  \E T \in Tails(R, F) :
              K = R \ T \/ \E u \in (R \ T) \cap F : K = (R \ T) \ {u}
BY DEF PastEnd

(* However the broken loop runs, what it erases is expired.                *)
LEMMA LeftLosesExpired ==
    ASSUME NEW S, NEW E, E \subseteq S, NEW K \in Left(S, E)
    PROVE  K \subseteq S /\ S \ K \subseteq E
<1> DEFINE erased == FirstPass(S, E)
<1>1. erased \subseteq E
  BY DEF FirstPass, EveryOther
<1> HIDE DEF erased
<1>2. CASE K = S \ erased
  BY <1>1, <1>2
<1>3. CASE K \in PastEnd(S \ erased, E \ erased, Cardinality(erased))
  <2> DEFINE R == S \ erased
             F == E \ erased
  <2>1. PICK T \in Tails(R, F) :
           \/ K = R \ T
           \/ \E u \in (R \ T) \cap F : K = (R \ T) \ {u}
    BY <1>3, PastEndIs
  <2>2. T \subseteq F
    BY DEF Tails
  <2> QED BY <1>1, <2>1, <2>2
<1> QED BY <1>2, <1>3 DEF Left, erased

LEMMA KeptLosesExpired ==
    ASSUME NEW seq, NEW K \in Kept(seq)
    PROVE  K \subseteq held /\ held \ K \subseteq Expired(seq)
<1>1. CASE Releases
  <2>1. Expired(seq) \subseteq held /\ K \in Left(held, Expired(seq))
    BY <1>1 DEF Expired, Kept
  <2> QED BY <2>1, LeftLosesExpired
<1>2. CASE ~Releases
  BY <1>2 DEF Kept
<1> QED BY <1>1, <1>2

-----------------------------------------------------------------------------
(* Batches.                                                                *)

(* Of a set of numbers, those that have fewer than half the samples of a   *)
(* message below them fit into it.                                         *)
LEMMA BatchFits ==
    ASSUME held \subseteq Seqs
    PROVE  IsFiniteSet(Batch) /\ SamplesFit
<1> DEFINE below(s) == { t \in Pending : t < s }
<1>1. /\ MaxSeq \in Nat /\ MaxFeedback \in Nat \ {0} /\ MaxFeedback % 2 = 0
      /\ IsFiniteSet(Seqs)
  BY ProxyAssumption, FS_Interval
<1>2. Pending \subseteq Seqs /\ Batch \subseteq Pending
  BY DEF Pending, Batch
<1>3. IsFiniteSet(Batch) /\ Cardinality(Batch) \in Nat
  BY <1>1, <1>2, FS_Subset, FS_CardinalityType
<1>4. CASE Batch = {}
  BY <1>1, <1>4, FS_EmptySet DEF SamplesFit
<1>5. CASE Batch # {}
  <2> DEFINE m == Max(Batch)
  <2>1. m \in Batch /\ \A s \in Batch : m >= s
    BY <1>2, <1>5, LargestIs
  <2> HIDE DEF m
  <2>2. below(m) \subseteq Seqs /\ IsFiniteSet(below(m)) /\ Cardinality(below(m)) \in Nat
    BY <1>1, <1>2, FS_Subset, FS_CardinalityType
  <2>3. ~(2 * Cardinality(below(m)) >= MaxFeedback)
    BY <2>1 DEF Batch, Full
  <2>4. Batch \subseteq below(m) \union {m}
    BY <1>2, <2>1
  <2>5. /\ IsFiniteSet(below(m) \union {m})
        /\ Cardinality(below(m) \union {m}) = Cardinality(below(m)) + 1
    <3>1. m \notin below(m)
      BY <1>2, <2>1
    <3> QED BY <2>2, <3>1, FS_AddElement
  <2> HIDE DEF below
  <2>6. Cardinality(Batch) <= Cardinality(below(m)) + 1
    BY <2>4, <2>5, FS_Subset
  <2> QED BY <1>1, <1>3, <2>2, <2>3, <2>6 DEF SamplesFit
<1> QED BY <1>3, <1>4, <1>5

(* A batch is the lowest part of what is pending.                          *)
LEMMA BatchIsLowest ==
    ASSUME held \subseteq Seqs, NEW b \in Batch, NEW s \in Pending, s <= b
    PROVE  s \in Batch
<1> DEFINE below(n) == { t \in Pending : t < n }
<1>1. Pending \subseteq Seqs /\ b \in Pending
  BY DEF Pending, Batch
<1>2. IsFiniteSet(Seqs) /\ MaxFeedback \in Nat /\ MaxSeq \in Nat
  BY ProxyAssumption, FS_Interval
<1>3. below(s) \subseteq below(b) /\ below(b) \subseteq Seqs
  <2>1. \A t \in Pending : t < s => t < b
    BY <1>1, <1>2
  <2> QED BY <1>1, <2>1
<1> HIDE DEF below
<1>4. /\ Cardinality(below(s)) \in Nat /\ Cardinality(below(b)) \in Nat
      /\ Cardinality(below(s)) <= Cardinality(below(b))
  BY <1>2, <1>3, FS_Subset, FS_CardinalityType
<1>5. ~(2 * Cardinality(below(b)) >= MaxFeedback)
  BY DEF Batch, Full, below
<1>6. ~(2 * Cardinality(below(s)) >= MaxFeedback)
  BY <1>2, <1>4, <1>5
<1> QED BY <1>6 DEF Batch, Full, below

-----------------------------------------------------------------------------
(* The invariant.                                                          *)

ProxyTypes ==
    /\ held \subseteq Seqs /\ age \in [Seqs -> Nat]
    /\ wndStartSeq \in Nat /\ maxArrivalSeq \in Seqs

(* The highest arrival is known, so that a window beyond it is beyond all  *)
(* that is held: this is what the release relies on.                       *)
ProxyInv == ProxyTypes /\ \A s \in held : s <= maxArrivalSeq

(* What a step may do to the arrivals that are not fed back yet.           *)
ProxyPromise ==
    /\ \/ PassedOver' \subseteq PassedOver
       \/ wndStartSeq = 0 /\ \E seq \in Seqs : Incoming(seq)
    /\ Pending \ held' \subseteq {wndStartSeq}

(* What came is counted, repeated or not.                                  *)
LossInv ==
    /\ count \in Nat /\ maxId \in {LossStat!None} \union Seqs /\ prevMaxId \in Nat
    /\ arrived \subseteq Seqs
    /\ count > MaxSeq \/ Cardinality(arrived) <= count

(* The statistics know no number as long as the feedback knows none.       *)
HighestInv == HighestAgree /\ (maxId = LossStat!None => maxArrivalSeq = 0)

Inv == newest \in Nat /\ ProxyInv /\ LossInv /\ HighestInv

(* A release takes nothing that is pending but the window's first: it runs *)
(* only if the highest arrival is not beyond the window.                   *)
LEMMA ReleaseKeepsPending ==
    ASSUME ProxyInv, NEW seq, NEW K \in Kept(seq)
    PROVE  Pending \ K \subseteq {wndStartSeq}
<1>1. CASE Releases
  <2>1. MaxSeq \in Nat
    BY ProxyAssumption
  <2>2. \A s \in Pending : s = wndStartSeq
    BY <1>1, <2>1 DEF Releases, Pending, ProxyInv, ProxyTypes
  <2> QED BY <2>2
<1>2. CASE ~Releases
  BY <1>2 DEF Kept, Pending
<1> QED BY <1>1, <1>2

LEMMA IncomingInv ==
    ASSUME ProxyInv, NEW seq \in Seqs, Incoming(seq)
    PROVE  ProxyInv' /\ ProxyPromise
<1>1. MaxSeq \in Nat /\ BackWindow \in Nat
  BY ProxyAssumption
<1>2. PICK kept \in Kept(seq) : ~(held # {} /\ kept = {}) /\ held' = kept \union {seq}
  BY DEF Incoming
<1>3. kept \subseteq held /\ Pending \ kept \subseteq {wndStartSeq}
  BY KeptLosesExpired, ReleaseKeepsPending
<1>4. ProxyInv'
  BY <1>1, <1>2, <1>3 DEF Incoming, ProxyInv, ProxyTypes, WindowStart, Least, Greatest
<1>5. wndStartSeq # 0 => PassedOver' \subseteq PassedOver
  <2> SUFFICES ASSUME wndStartSeq # 0, NEW s \in held', s < wndStartSeq', s \notin reported'
               PROVE  s \in held /\ s < wndStartSeq /\ s \notin reported
    BY DEF PassedOver
  <2>1. wndStartSeq' <= seq /\ wndStartSeq' <= wndStartSeq
    BY <1>1 DEF Incoming, ProxyInv, ProxyTypes, WindowStart, Least
  <2>2. s # seq /\ s \in kept
    BY <1>1, <1>2, <1>4, <2>1 DEF ProxyInv, ProxyTypes
  <2>3. s < wndStartSeq
    BY <1>1, <1>3, <1>4, <2>1, <2>2 DEF ProxyInv, ProxyTypes
  <2> QED BY <1>3, <2>2, <2>3 DEF Incoming
<1> QED BY <1>2, <1>3, <1>4, <1>5 DEF ProxyPromise

LEMMA LoopsInv ==
    ASSUME ProxyInv, NEW seq, IncomingLoops(seq)
    PROVE  ProxyInv' /\ ProxyPromise
<1>1. Pending \ {} \subseteq {wndStartSeq}
  BY ReleaseKeepsPending DEF IncomingLoops
<1>2. held' = {} /\ PassedOver' = {}
  BY DEF IncomingLoops, PassedOver
<1> QED
  BY <1>1, <1>2 DEF IncomingLoops, ProxyInv, ProxyTypes, ProxyPromise

LEMMA FeedbackInv ==
    ASSUME ProxyInv, Feedback
    PROVE  ProxyInv' /\ ProxyPromise
<1>1. /\ MaxSeq \in Nat /\ held \subseteq Seqs /\ wndStartSeq \in Nat
      /\ held' = held /\ reported' = reported \union Batch
  BY ProxyAssumption DEF Feedback, ProxyInv, ProxyTypes
<1>2. Pending \ held' \subseteq {wndStartSeq}
  BY <1>1 DEF Pending
<1>3. CASE Cardinality(Batch) > 1
  <2> DEFINE m == Max(Batch)
  <2>1. Batch # {}
    BY <1>3, FS_EmptySet
  <2>2. Batch \subseteq Pending /\ Pending \subseteq Seqs
    BY <1>1 DEF Batch, Pending
  <2>3. m \in Batch /\ wndStartSeq' = m + 1
    BY <1>3, <2>1, <2>2, LargestIs DEF Feedback, NextStart
  <2> HIDE DEF m
  <2>4. m \in Seqs
    BY <2>2, <2>3
  <2>5. PassedOver' \subseteq PassedOver
    <3> SUFFICES ASSUME NEW s \in held, s < m + 1, s \notin reported, s \notin Batch
                 PROVE  s < wndStartSeq
      BY <1>1, <2>3 DEF PassedOver
    <3>1. s \in Nat /\ s <= m
      BY <1>1, <2>4
    <3>2. s \notin Pending
      BY <1>1, <2>3, <3>1, BatchIsLowest
    <3> QED BY <1>1, <3>1, <3>2 DEF Pending
  <2>6. ProxyInv'
    BY <1>1, <2>3, <2>4 DEF Feedback, ProxyInv, ProxyTypes
  <2> QED BY <1>2, <2>5, <2>6 DEF ProxyPromise
<1>4. CASE ~(Cardinality(Batch) > 1)
  BY <1>1, <1>2, <1>4
     DEF Feedback, NextStart, ProxyInv, ProxyTypes, ProxyPromise, PassedOver
<1> QED BY <1>3, <1>4

LEMMA ProxyStays ==
    ASSUME ProxyInv, UNCHANGED <<held, wndStartSeq, maxArrivalSeq, reported>>,
           age' \in [Seqs -> Nat]
    PROVE  ProxyInv' /\ ProxyPromise
  BY DEF ProxyInv, ProxyTypes, ProxyPromise, PassedOver, Pending

LEMMA ProxyClockInv ==
    ASSUME ProxyInv, ProxyClock
    PROVE  ProxyInv' /\ ProxyPromise
<1>1. BackWindow \in Nat
  BY ProxyAssumption
<1>2. \A s \in Seqs : Least(age[s] + 1, BackWindow) \in Nat
  BY <1>1 DEF ProxyInv, ProxyTypes, Least
<1>3. age' \in [Seqs -> Nat]
  BY <1>2 DEF ProxyClock
<1> QED BY <1>3, ProxyStays DEF ProxyClock

-----------------------------------------------------------------------------
(* The statistics.                                                         *)

LEMMA LossIncomingInv ==
    ASSUME LossInv, NEW seq \in Seqs, LossStat!Incoming(seq)
    PROVE  LossInv'
<1>1. MaxSeq \in Nat /\ IsFiniteSet(Seqs)
  BY ProxyAssumption, FS_Interval
<1>2. count' \in Nat /\ (count > MaxSeq => count' > MaxSeq)
        /\ (count <= MaxSeq => count' = count + 1)
  BY <1>1 DEF LossStat!Incoming, LossStat!Counted, LossInv
<1>3. maxId' \in {LossStat!None} \union Seqs /\ prevMaxId' \in Nat
  BY <1>1 DEF LossStat!Incoming, LossStat!Greatest, LossInv
<1>4. arrived' = arrived \union {seq}
  BY DEF LossStat!Incoming
<1>5. arrived' \subseteq Seqs
  BY <1>4 DEF LossInv
<1>6. /\ IsFiniteSet(arrived) /\ Cardinality(arrived) \in Nat
      /\ Cardinality(arrived') <= Cardinality(arrived) + 1
      /\ Cardinality(arrived') \in Nat
  <2>1. IsFiniteSet(arrived) /\ Cardinality(arrived) \in Nat
    BY <1>1, FS_Subset, FS_CardinalityType DEF LossInv
  <2>2. Cardinality(arrived') = IF seq \in arrived THEN Cardinality(arrived)
                                ELSE Cardinality(arrived) + 1
    BY <1>4, <2>1, FS_AddElement
  <2> QED BY <2>1, <2>2
<1>7. count' > MaxSeq \/ Cardinality(arrived') <= count'
  BY <1>1, <1>2, <1>6 DEF LossInv
<1> QED BY <1>2, <1>3, <1>5, <1>7 DEF LossInv

(* Loss is reported only of a window that misses a number: if none were    *)
(* missing, as many arrivals as the distance would have been counted.      *)
LEMMA CalculateInv ==
    ASSUME LossInv, LossStat!Calculate
    PROVE  /\ LossInv'
           /\ fraction' > 0 => \E s \in prevMaxId + 1 .. maxId : s \notin arrived
<1>1. MaxSeq \in Nat /\ MinDistance \in Nat \ {0} /\ IsFiniteSet(Seqs)
  BY ProxyAssumption, RecvAssumption, FS_Interval
<1>2. maxId \in Seqs /\ prevMaxId \in Nat /\ maxId - prevMaxId >= MinDistance
  BY DEF LossStat!Calculate, LossStat!Reports, LossStat!Distance, LossInv
<1>3. LossInv'
  <2>1. /\ count' = 0 /\ maxId' = maxId /\ prevMaxId' = maxId /\ arrived' = {}
    BY DEF LossStat!Calculate
  <2> QED BY <1>1, <1>2, <2>1, FS_EmptySet DEF LossInv
<1>4. ASSUME fraction' > 0, prevMaxId + 1 .. maxId \subseteq arrived
      PROVE  FALSE
  <2>1. /\ IsFiniteSet(arrived) /\ Cardinality(arrived) \in Nat
        /\ Cardinality(prevMaxId + 1 .. maxId) <= Cardinality(arrived)
    BY <1>1, <1>4, FS_Subset, FS_CardinalityType DEF LossInv
  <2>2. Cardinality(prevMaxId + 1 .. maxId) = maxId - prevMaxId
    BY <1>1, <1>2, FS_Interval
  <2>3. count >= maxId - prevMaxId
    BY <1>1, <1>2, <2>1, <2>2 DEF LossInv
  <2>4. fraction' = 0
    BY <2>3 DEF LossStat!Calculate, LossStat!Fraction, LossStat!Distance
  <2> QED BY <1>4, <2>4
<1> QED BY <1>3, <1>4

-----------------------------------------------------------------------------
(* The composition.                                                        *)

(* What a step of the whole may do to what is still to be reported, and    *)
(* when it may report losses.                                              *)
StepPromise ==
    /\ ProxyPromise
    /\ prevMaxId' # prevMaxId /\ fraction' > 0 =>
          \E s \in prevMaxId + 1 .. maxId : s \notin arrived

LEMMA HighestInvStep ==
    ASSUME HighestInv, ProxyInv, LossInv, NEW seq \in Seqs,
           Incoming(seq), LossStat!Incoming(seq)
    PROVE  HighestInv'
<1>1. MaxSeq \in Nat
  BY ProxyAssumption
<1>2. maxId' = LossStat!Greatest(maxId, seq) /\ maxArrivalSeq' = Greatest(maxArrivalSeq, seq)
  BY DEF Incoming, LossStat!Incoming
<1> QED
  BY <1>1, <1>2 DEF HighestInv, HighestAgree, LossInv, ProxyInv, ProxyTypes,
                    Greatest, LossStat!Greatest

LEMMA LossStays ==
    ASSUME LossInv, UNCHANGED <<count, maxId, prevMaxId, arrived>>
    PROVE  LossInv'
  BY DEF LossInv

LEMMA OnReceivedInv ==
    ASSUME Inv, NEW seq \in Seqs, OnReceived(seq)
    PROVE  Inv' /\ StepPromise
<1>1. newest' = newest
  BY DEF OnReceived
<1>2. CASE Incoming(seq) /\ LossStat!Incoming(seq)
  <2>1. ProxyInv' /\ ProxyPromise
    BY <1>2, IncomingInv DEF Inv
  <2>2. LossInv'
    BY <1>2, LossIncomingInv DEF Inv
  <2>3. HighestInv'
    BY <1>2, HighestInvStep DEF Inv
  <2>4. prevMaxId' = prevMaxId
    BY <1>2 DEF LossStat!Incoming, Inv, LossInv
  <2> QED BY <1>1, <2>1, <2>2, <2>3, <2>4 DEF Inv, StepPromise
<1>3. CASE UNCHANGED <<proxyVars, lossVars>>
  BY <1>1, <1>3, ProxyStays, LossStays
     DEF Inv, ProxyInv, ProxyTypes, HighestInv, HighestAgree, StepPromise,
         proxyVars, lossVars
<1>4. CASE IncomingLoops(seq) /\ UNCHANGED lossVars
  <2>1. ProxyInv' /\ ProxyPromise
    BY <1>4, LoopsInv DEF Inv
  <2>2. LossInv' /\ prevMaxId' = prevMaxId
    BY <1>4, LossStays DEF Inv, lossVars
  <2>3. HighestInv'
    BY <1>4 DEF IncomingLoops, Inv, HighestInv, HighestAgree, lossVars
  <2> QED BY <1>1, <2>1, <2>2, <2>3 DEF Inv, StepPromise
<1> QED BY <1>2, <1>3, <1>4 DEF OnReceived

LEMMA HeartbeatInv ==
    ASSUME Inv, ProcRccHeartbeat
    PROVE  Inv' /\ StepPromise
<1>1. newest' = newest
  BY DEF ProcRccHeartbeat
<1>2. ProxyInv' /\ ProxyPromise /\ maxArrivalSeq' = maxArrivalSeq
  <2>1. CASE Feedback
    BY <2>1, FeedbackInv DEF Feedback, Inv
  <2>2. CASE UNCHANGED proxyVars
    BY <2>2, ProxyStays DEF Inv, ProxyInv, ProxyTypes, proxyVars
  <2> QED BY <2>1, <2>2 DEF ProcRccHeartbeat
<1>3. /\ LossInv' /\ maxId' = maxId
      /\ prevMaxId' # prevMaxId /\ fraction' > 0 =>
            \E s \in prevMaxId + 1 .. maxId : s \notin arrived
  <2>1. CASE LossStat!Calculate
    BY <2>1, CalculateInv DEF LossStat!Calculate, Inv
  <2>2. CASE UNCHANGED lossVars
    BY <2>2, LossStays DEF Inv, lossVars
  <2> QED BY <2>1, <2>2 DEF ProcRccHeartbeat
<1>4. HighestInv'
  BY <1>2, <1>3 DEF Inv, HighestInv, HighestAgree
<1> QED BY <1>1, <1>2, <1>3, <1>4 DEF Inv, StepPromise

LEMMA Step == Inv /\ [Next]_vars => Inv' /\ StepPromise
<1> SUFFICES ASSUME Inv, [Next]_vars
             PROVE  Inv' /\ StepPromise
  OBVIOUS
<1>1. MaxSeq \in Nat /\ Delay \in 0 .. MaxSeq
  BY ProxyAssumption, RecvAssumption
<1>2. ASSUME NEW late \in 0 .. Delay, Deliver(late)
      PROVE  Inv' /\ StepPromise
  <2>1. newest - late \in Int /\ MaxSeq + 1 \in Nat \ {0}
    BY <1>1 DEF Inv
  <2>2. (newest - late) % (MaxSeq + 1) \in Seqs
    BY <1>1, <2>1
  <2> QED BY <1>2, <2>2, OnReceivedInv DEF Deliver
<1>3. CASE ProcRccHeartbeat
  BY <1>3, HeartbeatInv
<1>4. CASE Transmit
  <2>1. newest' \in Nat
    BY <1>1, <1>4 DEF Transmit, Inv
  <2> QED
    BY <1>4, <2>1, ProxyStays, LossStays
       DEF Transmit, Inv, ProxyInv, ProxyTypes, HighestInv, HighestAgree,
           StepPromise, proxyVars, lossVars
<1>5. CASE Clock
  <2>1. ProxyInv' /\ ProxyPromise
    BY <1>5, ProxyClockInv DEF Clock, Inv
  <2>2. LossInv'
    BY <1>5, LossStays DEF Clock, LossStat!LossClock, Inv
  <2> QED
    BY <1>5, <2>1, <2>2
       DEF Clock, ProxyClock, LossStat!LossClock, Inv, HighestInv, HighestAgree,
           StepPromise
<1>6. CASE UNCHANGED vars
  BY <1>6, ProxyStays, LossStays
     DEF Inv, ProxyInv, ProxyTypes, HighestInv, HighestAgree, StepPromise,
         vars, proxyVars, lossVars
<1> QED BY <1>2, <1>3, <1>4, <1>5, <1>6 DEF Next

LEMMA Start == Init => Inv
<1> SUFFICES ASSUME Init PROVE Inv
  OBVIOUS
<1>1. MaxSeq \in Nat
  BY ProxyAssumption
<1>2. ProxyInv
  <2>1. held = {} /\ wndStartSeq = 0 /\ maxArrivalSeq = 0
    BY DEF Init, ProxyInit
  <2>2. age \in [Seqs -> Nat]
    BY DEF Init, ProxyInit
  <2>3. ProxyTypes
    BY <1>1, <2>1, <2>2 DEF ProxyTypes
  <2> QED BY <2>1, <2>3 DEF ProxyInv
<1>3. LossInv
  BY FS_EmptySet DEF Init, LossStat!LossInit, LossInv
<1>4. HighestInv
  BY DEF Init, ProxyInit, LossStat!LossInit, HighestInv, HighestAgree
<1> QED BY <1>2, <1>3, <1>4 DEF Init, Inv

LEMMA Invariance == Spec => []Inv
  BY Start, Step, PTL DEF Spec

(* Both halves of the feedback have seen the same packets, although one of *)
(* them refuses some and may never return (onReceived).                    *)
THEOREM HalvesAgree == Spec => []HighestAgree
<1>1. Inv => HighestAgree
  BY DEF Inv, HighestInv
<1> QED BY <1>1, Invariance, PTL

(* A batch fits the samples of its message, whatever is held and wherever  *)
(* the window begins (__buildFeedbackMsg).                                 *)
THEOREM BatchesFit == Spec => []SamplesFit
<1>1. Inv => SamplesFit
  BY BatchFits DEF Inv, ProxyInv, ProxyTypes
<1> QED BY <1>1, Invariance, PTL

(* Of what is not fed back, a step passes over something only when an      *)
(* arrival finds the window at 0 (incoming, __buildFeedbackMsg).           *)
THEOREM NonePassedOver == Spec => PassedOverOnlyAtZero
<1> DEFINE Over == \/ PassedOver' \subseteq PassedOver
                   \/ wndStartSeq = 0 /\ \E seq \in Seqs : Incoming(seq)
<1>1. Inv /\ [Next]_vars => [Over]_proxyVars
  BY Step DEF StepPromise, ProxyPromise
<1> HIDE DEF Over
<1>2. Spec => [][Over]_proxyVars
  BY <1>1, Invariance, PTL DEF Spec
<1> QED BY <1>2 DEF Over, PassedOverOnlyAtZero

(* However the broken loop of incoming runs, and also when it never ends,  *)
(* of what is still to be fed back it erases only the window's first.      *)
THEOREM PendingStays == Spec => PendingIsKept
<1> DEFINE Still == Pending \ held' \subseteq {wndStartSeq}
<1>1. Inv /\ [Next]_vars => [Still]_proxyVars
  BY Step DEF StepPromise, ProxyPromise
<1> HIDE DEF Still
<1>2. Spec => [][Still]_proxyVars
  BY <1>1, Invariance, PTL DEF Spec
<1> QED BY <1>2 DEF Still, PendingIsKept

(* However packets are repeated, reordered, refused or numbered anew, loss *)
(* is reported only when a number since the last report has not come       *)
(* (calculate).                                                            *)
THEOREM LossIsReal == Spec => NoFalseLoss
<1> DEFINE Real == prevMaxId' # prevMaxId /\ fraction' > 0 =>
                     \E s \in prevMaxId + 1 .. maxId : s \notin arrived
<1>1. Inv /\ [Next]_vars => [Real]_vars
  BY Step DEF StepPromise
<1> HIDE DEF Real
<1>2. Spec => [][Real]_vars
  BY <1>1, Invariance, PTL DEF Spec
<1> QED BY <1>2 DEF Real, NoFalseLoss

=============================================================================
