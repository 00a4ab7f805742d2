----------------------------- MODULE LimiterProofs -----------------------------
(***************************************************************************)
(* Proofs about SenderLimiter: its type invariant, that no moment sees     *)
(* more bytes granted than the threshold, and that the limiter recovers    *)
(* once a window has passed since it last granted anything.                *)
(*                                                                         *)
(* Within a moment the clean-up passes no slot, so winBytes is what was    *)
(* granted in it and more; between moments the argument starts again from  *)
(* nothing, whatever total the clean-up has left.                          *)
(***************************************************************************)
EXTENDS SenderLimiter, TLAPS

Times == 0 .. MaxNow

(* The moments before the sum of __limiterRemove may leave the int.        *)
Early(t) == t - Base <= IntMax - WinSize

NothingLater == \A t \in Times : t > now => sentAt[t] = 0

NothingBefore == oldestTs = -1 => \A t \in Times : sentAt[t] = 0

(* What was granted at this moment is part of the total.                   *)
GrantedCounts ==
    sentAt[now] # 0 /\ Early(now) => index = now - Base /\ sentAt[now] <= winBytes

LimiterInv ==
    TypeOK /\ NothingLater /\ NothingBefore /\ GrantedCounts /\ BurstBounded

-----------------------------------------------------------------------------
LEMMA SmallRemainder ==
    ASSUME NEW x \in Nat, NEW w \in Nat, x < w
    PROVE  x % w = x
  OBVIOUS

LEMMA RemainderType ==
    ASSUME NEW x \in Int, NEW w \in Nat \ {0}
    PROVE  x % w \in 0 .. w - 1
  OBVIOUS

(* An int keeps what fits into it.                                         *)
LEMMA Int32Fits ==
    ASSUME NEW x \in Nat, x <= IntMax
    PROVE  Int32(x) = x
<1>1. IntMax \in Nat
  BY LimiterAssumption
<1>2. (x + IntMax + 1) % (2 * (IntMax + 1)) = x + IntMax + 1
  <2> DEFINE w == 2 * (IntMax + 1)
             y == x + IntMax + 1
  <2>1. w \in Nat /\ y \in Nat /\ y < w
    BY <1>1
  <2> HIDE DEF w, y
  <2>2. y % w = y
    BY <2>1, SmallRemainder
  <2> QED BY <2>2 DEF w, y
<1> QED BY <1>1, <1>2 DEF Int32

LEMMA BaseType ==
    ASSUME TypeOK
    PROVE  Base \in 0 .. now
  BY DEF TypeOK, Base

LEMMA OffsetType ==
    ASSUME TypeOK
    PROVE  Offset \in Int
<1>1. IntMax \in Nat /\ now - Base \in Int
  BY LimiterAssumption, BaseType DEF TypeOK
<1>2. (now - Base + IntMax + 1) % (2 * (IntMax + 1)) \in Int
  <2> DEFINE w == 2 * (IntMax + 1)
             y == now - Base + IntMax + 1
  <2>1. w \in Nat \ {0} /\ y \in Int
    BY <1>1
  <2> HIDE DEF w, y
  <2>2. y % w \in Int
    BY <2>1, RemainderType
  <2> QED BY <2>2 DEF w, y
<1> QED BY <1>1, <1>2 DEF Offset, Int32

LEMMA SlotType ==
    ASSUME NEW i \in Int
    PROVE  Slot(i) \in Slots
  BY LimiterAssumption, RemainderType DEF Slot, Slots

(* The clean-up leaves no more than there was, and never a negative total. *)
LEMMA RemainingType ==
    ASSUME TypeOK
    PROVE  Remaining \in 0 .. winBytes
<1>1. winBytes \in Nat /\ index \in Nat /\ Offset \in Int
  BY OffsetType, LimiterAssumption DEF TypeOK
<1>2. ASSUME Passed # {}, Falling
      PROVE  buckets[Slot(Offset)] \in 0 .. winBytes
  <2>1. Offset \in Passed
    BY <1>1, <1>2 DEF Passed
  <2>2. buckets[Slot(Offset)] <= winBytes
    BY <1>2, <2>1 DEF Falling
  <2>3. buckets[Slot(Offset)] \in Nat
    BY <1>1, SlotType DEF TypeOK
  <2> QED BY <1>1, <2>2, <2>3
<1> QED BY <1>1, <1>2 DEF Remaining

(* Within a moment the clean-up passes no slot.                            *)
LEMMA NothingPassed ==
    ASSUME TypeOK, Early(now), index = now - Base
    PROVE  Remaining = winBytes
<1>1. /\ IntMax \in Nat /\ WinSize \in Nat \ {0} /\ WinSize < IntMax
      /\ now \in Nat /\ Base \in 0 .. now
  BY LimiterAssumption, BaseType DEF TypeOK
<1>2. now - Base \in Nat /\ now - Base <= IntMax /\ WinSize + index \in Nat
      /\ WinSize + index <= IntMax
  BY <1>1 DEF Early
<1>3. Offset = index
  BY <1>2, Int32Fits DEF Offset
<1>4. Int32(WinSize + index) = WinSize + index
  BY <1>2, Int32Fits
<1>5. ~WholeLap
  BY <1>1, <1>2, <1>3, <1>4 DEF WholeLap
<1>6. Passed = {}
  BY <1>2, <1>3 DEF Passed
<1> QED BY <1>5, <1>6 DEF Remaining

LEMMA ClearedType ==
    ASSUME TypeOK
    PROVE  Cleared \in [Slots -> Nat]
  BY DEF TypeOK, Cleared

(* A clean-up does not move the time of the first call.                    *)
LEMMA BaseStays ==
    ASSUME TypeOK, oldestTs' = Base, now' = now
    PROVE  Base' = Base /\ oldestTs' \in 0 .. now'
  BY BaseType DEF Base, TypeOK

-----------------------------------------------------------------------------
LEMMA LimiterInvInit == Init => LimiterInv
<1> SUFFICES ASSUME Init PROVE LimiterInv
  OBVIOUS
<1>1. TypeOK
  <2>1. buckets \in [Slots -> Nat]
    <3>1. buckets \in [Slots -> Garbage] /\ Garbage \subseteq Nat
      BY LimiterAssumption DEF Init
    <3> QED BY <3>1
  <2>2. sentAt \in [0 .. MaxNow -> 0 .. Threshold + 1]
    <3>1. sentAt = [t \in 0 .. MaxNow |-> 0] /\ 0 \in 0 .. Threshold + 1
      BY LimiterAssumption DEF Init
    <3> QED BY <3>1
  <2>3. wild \in BOOLEAN
    BY Zenon DEF Init
  <2>4. winBytes = 0 /\ index = 0 /\ oldestTs = -1 /\ now = 0
    BY DEF Init
  <2> QED BY <2>1, <2>2, <2>3, <2>4, LimiterAssumption DEF TypeOK
<1>2. \A t \in Times : sentAt[t] = 0
  BY DEF Init, Times
<1>3. sentAt[now] = 0
  BY <1>2, LimiterAssumption DEF Init, Times
<1>4. BurstBounded
  BY <1>2, LimiterAssumption DEF BurstBounded, Times
<1> QED
  BY <1>1, <1>2, <1>3, <1>4
     DEF LimiterInv, NothingLater, NothingBefore, GrantedCounts

(* Opening an acknowledgement, and a refusal, grant nothing.               *)
LEMMA CleaningKeeps ==
    ASSUME LimiterInv, InRing, now' = now, wild' = wild, sentAt' = sentAt,
           CleanUp, buckets' = Cleared, winBytes' = Remaining
    PROVE  LimiterInv'
<1>1. TypeOK /\ oldestTs' = Base /\ index' = Offset /\ Offset \in Nat
  BY DEF LimiterInv, CleanUp, InRing
<1>2. Base' = Base /\ oldestTs' \in 0 .. now'
  BY <1>1, BaseStays
<1>3. /\ now \in Times /\ Threshold \in Nat /\ IntMax \in Nat /\ WinSize \in Nat
      /\ winBytes \in 0 .. Threshold /\ Base \in 0 .. now
  BY <1>1, BaseType, LimiterAssumption DEF TypeOK, Times
<1>4. Remaining \in 0 .. Threshold
  BY <1>1, <1>3, RemainingType
<1>5. TypeOK'
  BY <1>1, <1>2, <1>4, ClearedType DEF TypeOK
<1>6. NothingLater'
  BY DEF LimiterInv, NothingLater, Times
<1>7. NothingBefore'
  BY <1>2 DEF NothingBefore
<1>8. GrantedCounts'
  <2> SUFFICES ASSUME sentAt[now] # 0, Early(now)
               PROVE  Offset = now - Base /\ sentAt[now] <= Remaining
    BY <1>1, <1>2 DEF GrantedCounts, Early
  <2>1. index = now - Base /\ sentAt[now] <= winBytes
    BY DEF LimiterInv, GrantedCounts
  <2>2. Remaining = winBytes
    BY <1>1, <2>1, NothingPassed
  <2>3. now - Base \in Nat /\ now - Base <= IntMax
    BY <1>3, LimiterAssumption DEF Early, Times
  <2> QED BY <2>1, <2>2, <2>3, Int32Fits DEF Offset
<1>9. BurstBounded'
  BY <1>2 DEF LimiterInv, BurstBounded
<1> QED BY <1>5, <1>6, <1>7, <1>8, <1>9 DEF LimiterInv

(* A packet that is admitted is part of the total, with all that was       *)
(* granted before it at the same moment.                                   *)
LEMMA GrantKeeps ==
    ASSUME LimiterInv, NEW size \in Sizes, InRing, Admits(size),
           now' = now, wild' = wild, CleanUp,
           buckets' = [Cleared EXCEPT ![Slot(Offset)] = @ + size],
           winBytes' = Remaining + size,
           sentAt' = [sentAt EXCEPT ![now] = Counted(@ + size)]
    PROVE  LimiterInv'
<1>1. TypeOK /\ oldestTs' = Base /\ index' = Offset /\ Offset \in Nat
  BY DEF LimiterInv, CleanUp, InRing
<1>2. Base' = Base /\ oldestTs' \in 0 .. now'
  BY <1>1, BaseStays
<1>3. /\ now \in Times /\ Threshold \in Nat /\ IntMax \in Nat /\ WinSize \in Nat
      /\ winBytes \in 0 .. Threshold /\ Base \in 0 .. now /\ size \in Nat
      /\ sentAt \in [Times -> 0 .. Threshold + 1]
  BY <1>1, BaseType, LimiterAssumption DEF TypeOK, Times
<1>4. Remaining \in Nat /\ Remaining + size <= Threshold
  BY <1>1, <1>3, RemainingType DEF Admits
<1>5. Counted(sentAt[now] + size) \in 0 .. Threshold + 1
  BY <1>3 DEF Counted
<1>6. TypeOK'
  <2>1. buckets' \in [Slots -> Nat]
    <3>1. Cleared \in [Slots -> Nat] /\ Slot(Offset) \in Slots
      BY <1>1, ClearedType, SlotType
    <3> QED BY <1>3, <3>1
  <2>2. sentAt' \in [0 .. MaxNow -> 0 .. Threshold + 1]
    BY <1>3, <1>5 DEF Times
  <2> QED BY <1>1, <1>2, <1>3, <1>4, <2>1, <2>2 DEF TypeOK
<1>7. NothingLater'
  BY <1>3 DEF LimiterInv, NothingLater, Times
<1>8. NothingBefore'
  BY <1>2 DEF NothingBefore
<1>9. Early(now) => Counted(sentAt[now] + size) <= Remaining + size
                    /\ Offset = now - Base
  <2> SUFFICES ASSUME Early(now)
               PROVE  Counted(sentAt[now] + size) <= Remaining + size
                      /\ Offset = now - Base
    OBVIOUS
  <2>1. sentAt[now] <= Remaining
    <3>1. CASE sentAt[now] = 0
      BY <1>4, <3>1
    <3>2. CASE sentAt[now] # 0
      <4>1. index = now - Base /\ sentAt[now] <= winBytes
        BY <3>2 DEF LimiterInv, GrantedCounts
      <4> QED BY <1>1, <4>1, NothingPassed
    <3> QED BY <3>1, <3>2
  <2>2. now - Base \in Nat /\ now - Base <= IntMax
    BY <1>3, LimiterAssumption DEF Early, Times
  <2>3. sentAt[now] \in Nat
    BY <1>3
  <2> QED BY <1>3, <1>4, <2>1, <2>2, <2>3, Int32Fits DEF Offset, Counted
<1>10. sentAt'[now] = Counted(sentAt[now] + size)
  BY <1>3
<1>11. GrantedCounts'
  BY <1>1, <1>2, <1>9, <1>10 DEF GrantedCounts, Early
<1>12. BurstBounded'
  <2> SUFFICES ASSUME NEW t \in Times, Early(t)
               PROVE  sentAt'[t] <= Threshold
    BY <1>2 DEF BurstBounded, Early, Times
  <2>1. CASE t = now
    BY <1>3, <1>4, <1>5, <1>9, <1>10, <2>1
  <2>2. CASE t # now
    <3>1. sentAt'[t] = sentAt[t]
      BY <1>3, <2>2
    <3> QED BY <3>1 DEF LimiterInv, BurstBounded, Early, Times
  <2> QED BY <2>1, <2>2
<1> QED BY <1>6, <1>7, <1>8, <1>11, <1>12 DEF LimiterInv

-----------------------------------------------------------------------------
LEMMA TrySendKeeps ==
    ASSUME LimiterInv, NEW size \in Sizes, LimiterTrySend(size)
    PROVE  LimiterInv'
<1>1. CASE Admits(size)
  BY <1>1, GrantKeeps DEF LimiterTrySend
<1>2. CASE ~Admits(size)
  BY <1>2, CleaningKeeps DEF LimiterTrySend
<1> QED BY <1>1, <1>2

LEMMA OpenKeeps ==
    ASSUME LimiterInv, LimiterOpen
    PROVE  LimiterInv'
<1>1. CASE Offset > 0
  BY <1>1, CleaningKeeps DEF LimiterOpen
<1>2. CASE ~(Offset > 0)
  <2>1. /\ UNCHANGED <<buckets, winBytes, index, now, sentAt, wild>>
        /\ oldestTs' = Base
    BY <1>2 DEF LimiterOpen
  <2>2. TypeOK /\ Base' = Base /\ oldestTs' \in 0 .. now'
    BY <2>1, BaseStays DEF LimiterInv
  <2>3. TypeOK'
    BY <2>1, <2>2 DEF TypeOK
  <2>4. NothingLater' /\ NothingBefore'
    BY <2>1, <2>2 DEF LimiterInv, NothingLater, NothingBefore, Times
  <2>5. GrantedCounts' /\ BurstBounded'
    BY <2>1, <2>2 DEF LimiterInv, GrantedCounts, BurstBounded, Early
  <2> QED BY <2>3, <2>4, <2>5 DEF LimiterInv
<1> QED BY <1>1, <1>2

(* A new moment has seen no bytes granted.                                 *)
LEMMA ClockKeeps ==
    ASSUME LimiterInv, Clock
    PROVE  LimiterInv'
<1>1. /\ now' = now + 1 /\ now < MaxNow /\ now \in Nat /\ MaxNow \in Nat
      /\ UNCHANGED <<buckets, winBytes, index, oldestTs, sentAt, wild>>
  BY LimiterAssumption DEF LimiterInv, TypeOK, Clock, ring
<1>2. TypeOK'
  BY <1>1 DEF LimiterInv, TypeOK
<1>3. sentAt[now'] = 0
  BY <1>1 DEF LimiterInv, NothingLater, Times
<1>4. NothingLater' /\ NothingBefore' /\ GrantedCounts'
  BY <1>1, <1>3
     DEF LimiterInv, NothingLater, NothingBefore, GrantedCounts, Times
<1>5. BurstBounded'
  <2>1. CASE oldestTs = -1
    BY <1>1, <2>1, LimiterAssumption
       DEF LimiterInv, NothingBefore, BurstBounded, Times
  <2>2. CASE oldestTs # -1
    BY <1>1, <2>2 DEF LimiterInv, BurstBounded, Base
  <2> QED BY <2>1, <2>2
<1> QED BY <1>2, <1>4, <1>5 DEF LimiterInv

LEMMA EscapeKeeps ==
    ASSUME LimiterInv, Escape
    PROVE  LimiterInv'
  BY DEF LimiterInv, Escape, ring, TypeOK, NothingLater, NothingBefore,
         GrantedCounts, BurstBounded, Early, Base

LEMMA LimiterInvNext == LimiterInv /\ [Next]_vars => LimiterInv'
<1> SUFFICES ASSUME LimiterInv, [Next]_vars PROVE LimiterInv'
  OBVIOUS
<1>1. CASE LimiterOpen
  BY <1>1, OpenKeeps
<1>2. ASSUME NEW size \in Sizes, LimiterTrySend(size) PROVE LimiterInv'
  BY <1>2, TrySendKeeps
<1>3. CASE Clock
  BY <1>3, ClockKeeps
<1>4. CASE Escape
  BY <1>4, EscapeKeeps
<1>5. CASE UNCHANGED vars
  BY <1>5
     DEF vars, ring, LimiterInv, TypeOK, NothingLater, NothingBefore,
         GrantedCounts, BurstBounded, Early, Base
<1> QED BY <1>1, <1>2, <1>3, <1>4, <1>5 DEF Next

(* For a ring, a threshold, packets and an uninitialised memory of any     *)
(* size, the total of __limiterRemove is never negative or above the       *)
(* threshold, and no moment up to the last window before the offset leaves *)
(* the int sees more bytes granted than the threshold (limiterTrySend).    *)
THEOREM LimiterIsSound == Spec => [](TypeOK /\ BurstBounded)
<1>1. Init => LimiterInv
  BY LimiterInvInit
<1>2. LimiterInv /\ [Next]_vars => LimiterInv'
  BY LimiterInvNext
<1>3. LimiterInv => TypeOK /\ BurstBounded
  BY DEF LimiterInv
<1> QED BY <1>1, <1>2, <1>3, PTL DEF Spec

-----------------------------------------------------------------------------
(* The limiter recovers.  As long as the offset fits the int, a total or a *)
(* bucket that is not zero witnesses a grant of the last window, or what   *)
(* was in the buckets when they were allocated; and that, too, reaches the *)
(* total only after a grant.                                               *)

InInt == now - Base <= IntMax

Granted(o) == sentAt[Base + o] > 0

(* The offsets a clean-up at offset i leaves in the ring.                  *)
Window(i) == { o \in 1 .. i : o > i - WinSize }

IndexPassed == index <= now - Base

NotYet == oldestTs = -1 => index = 0 /\ winBytes = 0

BucketsWitness ==
    \A o \in Window(index) : buckets[Slot(o)] = 0 \/ Granted(o)

TotalWitness ==
    winBytes > 0 => \E o \in 0 .. index : o >= index - WinSize /\ Granted(o)

Witnessed == IndexPassed /\ NotYet /\ BucketsWitness /\ TotalWitness

RecoveryInv == LimiterInv /\ (InInt => Witnessed)

LEMMA RemainderUnique ==
    ASSUME NEW w \in Nat \ {0}, NEW q \in Int, NEW p \in Int,
           NEW r \in 0 .. w - 1, NEW s \in 0 .. w - 1, w * q + r = w * p + s
    PROVE  q = p /\ r = s
<1>1. ASSUME NEW a \in Int, NEW b \in Int, a > b
      PROVE  w * a >= w * b + w
  <2>1. a - b - 1 \in Nat
    BY <1>1
  <2>2. w * (a - b - 1) \in Nat
    <3> DEFINE k == a - b - 1
    <3>1. k \in Nat
      BY <2>1
    <3> HIDE DEF k
    <3>2. w * k \in Nat
      BY <3>1
    <3> QED BY <3>2 DEF k
  <2>3. w * (a - b - 1) = w * a - w * b - w
    BY <1>1
  <2> QED BY <2>2, <2>3
<1>2. ~(q > p)
  BY <1>1
<1>3. ~(p > q)
  BY <1>1
<1>4. q = p
  BY <1>2, <1>3
<1> QED BY <1>4

LEMMA Division ==
    ASSUME NEW x \in Int, NEW w \in Nat \ {0}
    PROVE  x \div w \in Int /\ x % w \in 0 .. w - 1 /\ x = w * (x \div w) + (x % w)
  OBVIOUS

(* A slot comes round after a whole ring, and not before.                  *)
LEMMA SlotComesRound ==
    ASSUME NEW x \in Int
    PROVE  Slot(x - WinSize) = Slot(x)
<1> DEFINE w == WinSize
           y == x - w
           q == x \div w
           p == y \div w
           r == x % w
           s == y % w
<1>1. w \in Nat \ {0}
  BY LimiterAssumption
<1>2. y \in Int
  BY <1>1
<1>3. q \in Int /\ r \in 0 .. w - 1 /\ x = w * q + r
  BY <1>1, Division
<1>4. p \in Int /\ s \in 0 .. w - 1 /\ y = w * p + s
  <2> HIDE DEF y, w
  <2> QED BY <1>1, <1>2, Division
<1>5. w * (p + 1) = w * p + w
  <2> HIDE DEF w, p
  <2> QED BY <1>1, <1>4
<1>6. w * q + r = w * (p + 1) + s
  <2>1. y = x - w /\ w * q \in Int /\ w * p \in Int
    <3> HIDE DEF q, p, w
    <3> QED BY <1>1, <1>3, <1>4
  <2> HIDE DEF q, p, r, s, w, y
  <2> QED BY <1>1, <1>3, <1>4, <1>5, <2>1
<1>7. r = s
  <2> HIDE DEF q, p, r, s, w
  <2> QED BY <1>1, <1>3, <1>4, <1>6, p + 1 \in Int, RemainderUnique
<1> QED BY <1>7 DEF Slot

LEMMA SlotsDiffer ==
    ASSUME NEW a \in Int, NEW b \in Int, a < b, b < a + WinSize
    PROVE  Slot(a) # Slot(b)
<1> DEFINE w == WinSize
           q == a \div w
           p == b \div w
           r == a % w
<1>1. w \in Nat \ {0}
  BY LimiterAssumption
<1>2. SUFFICES ASSUME r = b % w PROVE FALSE
  BY DEF Slot
<1>3. q \in Int /\ r \in 0 .. w - 1 /\ a = w * q + r
  BY <1>1, Division
<1>4. p \in Int /\ b = w * p + r
  BY <1>1, <1>2, Division
<1>5. w * p - w * q = w * (p - q) /\ p - q \in Int
  <2> HIDE DEF w, p, q
  <2> QED BY <1>1, <1>3, <1>4
<1>6. w * (p - q) > 0 /\ w * (p - q) < w
  <2> HIDE DEF p, q, r
  <2> QED BY <1>1, <1>3, <1>4, <1>5
<1>7. ASSUME NEW k \in Int, w * k > 0
      PROVE  w * k >= w
  <2>1. CASE k <= 0
    BY <1>1, <1>7, <2>1
  <2>2. CASE k >= 1
    <3>1. k - 1 \in Nat /\ w * (k - 1) = w * k - w
      BY <1>1, <2>2
    <3>2. ASSUME NEW j \in Nat PROVE w * j \in Nat
      BY <1>1
    <3> QED BY <3>1, <3>2, <1>1
  <2> QED BY <2>1, <2>2
<1>8. w * (p - q) \in Int
  <2> HIDE DEF p, q
  <2> QED BY <1>1, <1>5
<1> HIDE DEF p, q, w
<1> QED BY <1>1, <1>5, <1>6, <1>7, <1>8

LEMMA RecoveryTypes ==
    ASSUME TypeOK, InInt
    PROVE  /\ WinSize \in Nat \ {0} /\ Threshold \in Nat /\ IntMax \in Nat
           /\ now \in 0 .. MaxNow /\ MaxNow \in Nat /\ Base \in 0 .. now
           /\ winBytes \in Nat /\ index \in Nat
           /\ Offset = now - Base /\ Offset \in Nat /\ Offset <= IntMax
           /\ Base + Offset = now
<1>1. now \in 0 .. MaxNow /\ MaxNow \in Nat /\ Base \in 0 .. now
  BY LimiterAssumption, BaseType DEF TypeOK
<1>2. now - Base \in Nat /\ now - Base <= IntMax
  BY <1>1 DEF InInt
<1>3. Offset = now - Base
  BY <1>2, Int32Fits DEF Offset
<1> QED BY <1>1, <1>2, <1>3, LimiterAssumption DEF TypeOK

(* What wraps is never more than what was added.                           *)
LEMMA Int32Below ==
    ASSUME NEW x \in Nat
    PROVE  Int32(x) <= x
<1> DEFINE w == 2 * (IntMax + 1)
           y == x + IntMax + 1
<1>1. w \in Nat \ {0} /\ y \in Nat /\ IntMax \in Nat
  BY LimiterAssumption
<1>2. y % w <= y /\ y % w \in Nat
  <2> HIDE DEF w, y
  <2>1. CASE y < w
    BY <1>1, <2>1, SmallRemainder
  <2>2. CASE ~(y < w)
    <3>1. y % w \in 0 .. w - 1
      BY <1>1, RemainderType
    <3> QED BY <1>1, <2>2, <3>1
  <2> QED BY <2>1, <2>2
<1>3. Int32(x) = (y % w) - (IntMax + 1)
  BY DEF Int32
<1>4. y - (IntMax + 1) = x
  BY <1>1
<1> HIDE DEF w, y
<1> QED BY <1>1, <1>2, <1>3, <1>4

(* The clean-up leaves no bucket unwitnessed ...                           *)
LEMMA ClearedWitness ==
    ASSUME TypeOK, InInt, Witnessed, NEW o \in Window(Offset)
    PROVE  Cleared[Slot(o)] = 0 \/ Granted(o)
<1>1. /\ o \in 1 .. Offset /\ o > Offset - WinSize /\ Slot(o) \in Slots
      /\ index <= Offset /\ index \in Nat /\ Offset \in Nat /\ WinSize \in Nat
  BY RecoveryTypes, SlotType DEF Window, Witnessed, IndexPassed
<1>2. CASE WholeLap
  BY <1>1, <1>2 DEF Cleared
<1>3. CASE ~WholeLap /\ o \in Passed
  BY <1>1, <1>3 DEF Cleared
<1>4. CASE ~WholeLap /\ o \notin Passed
  <2>1. o \in Window(index)
    BY <1>1, <1>4 DEF Passed, Window
  <2>2. buckets[Slot(o)] = 0 \/ Granted(o)
    BY <2>1 DEF Witnessed, BucketsWitness
  <2> QED BY <1>1, <1>4, <2>2 DEF Cleared
<1> QED BY <1>2, <1>3, <1>4

(* ... and no total.                                                       *)
LEMMA RemainingWitness ==
    ASSUME TypeOK, InInt, Witnessed, Remaining > 0
    PROVE  \E o \in 0 .. Offset : o >= Offset - WinSize /\ Granted(o)
<1>1. /\ index <= Offset /\ index \in Nat /\ Offset \in Nat /\ WinSize \in Nat \ {0}
      /\ winBytes \in Nat
  BY RecoveryTypes DEF Witnessed, IndexPassed
<1>2. ~WholeLap
  BY DEF Remaining
<1>3. Offset < WinSize + index
  <2>1. Int32(WinSize + index) \in Int
    <3> DEFINE w == 2 * (IntMax + 1)
               y == WinSize + index + IntMax + 1
    <3>1. w \in Nat \ {0} /\ y \in Int
      BY <1>1, LimiterAssumption
    <3>2. y % w \in Int
      <4> HIDE DEF w, y
      <4> QED BY <3>1, RemainderType
    <3> QED BY <3>2, LimiterAssumption DEF Int32
  <2>2. Int32(WinSize + index) <= WinSize + index
    BY <1>1, Int32Below
  <2>3. Offset < Int32(WinSize + index)
    BY <1>1, <1>2, <2>1 DEF WholeLap
  <2> QED BY <1>1, <2>1, <2>2, <2>3
<1>4. CASE Passed = {}
  <2>1. index = Offset
    BY <1>1, <1>4 DEF Passed
  <2>2. winBytes > 0
    BY <1>2, <1>4 DEF Remaining
  <2> QED BY <2>1, <2>2 DEF Witnessed, TotalWitness
<1>5. CASE Passed # {}
  <2>1. Falling /\ buckets[Slot(Offset)] > 0
    BY <1>2, <1>5 DEF Remaining
  <2>2. Offset \in Passed /\ Offset > index
    BY <1>1, <1>5 DEF Passed
  <2>3. winBytes > 0
    <3>1. buckets[Slot(Offset)] <= winBytes
      BY <2>1, <2>2 DEF Falling
    <3>2. buckets[Slot(Offset)] \in Nat
      BY <1>1, SlotType DEF TypeOK
    <3> QED BY <1>1, <2>1, <3>1, <3>2
  <2>4. CASE Offset > WinSize
    <3> DEFINE o == Offset - WinSize
    <3>1. o \in Window(index) /\ o \in 0 .. Offset /\ o >= Offset - WinSize
      BY <1>1, <1>3, <2>2, <2>4 DEF Window
    <3>2. buckets[Slot(o)] > 0
      BY <1>1, <2>1, SlotComesRound
    <3>3. Granted(o)
      BY <3>1, <3>2 DEF Witnessed, BucketsWitness
    <3> QED BY <3>1, <3>3
  <2>5. CASE Offset <= WinSize
    <3>1. PICK o \in 0 .. index : Granted(o)
      BY <2>3 DEF Witnessed, TotalWitness
    <3>2. o \in 0 .. Offset /\ o >= Offset - WinSize
      BY <1>1, <2>5
    <3> QED BY <3>1, <3>2
  <2> QED BY <1>1, <2>4, <2>5
<1> QED BY <1>4, <1>5

(* An early call is one the limiter takes at the right offset.             *)
LEMMA CallIsEarly ==
    ASSUME TypeOK, CleanUp, now' = now
    PROVE  Base' = Base /\ InInt' = InInt
<1>1. Base' = Base
  BY BaseStays DEF CleanUp
<1> QED BY <1>1 DEF InInt

LEMMA CleaningRecovers ==
    ASSUME RecoveryInv, now' = now, sentAt' = sentAt,
           CleanUp, buckets' = Cleared, winBytes' = Remaining
    PROVE  InInt' => Witnessed'
<1> SUFFICES ASSUME InInt' PROVE Witnessed'
  OBVIOUS
<1>1. TypeOK /\ Base' = Base /\ InInt /\ index' = Offset /\ oldestTs' = Base
  BY CallIsEarly DEF RecoveryInv, LimiterInv, CleanUp
<1>2. Witnessed
  BY <1>1 DEF RecoveryInv
<1>3. \A o : Granted(o)' <=> Granted(o)
  BY <1>1 DEF Granted
<1>4. IndexPassed' /\ NotYet'
  BY <1>1, RecoveryTypes DEF IndexPassed, NotYet
<1>5. BucketsWitness'
  <2> SUFFICES ASSUME NEW o \in Window(Offset)
               PROVE  Cleared[Slot(o)] = 0 \/ Granted(o)
    BY <1>1, <1>3 DEF BucketsWitness
  <2> QED BY <1>1, <1>2, ClearedWitness
<1>6. TotalWitness'
  <2> SUFFICES ASSUME Remaining > 0
               PROVE  \E o \in 0 .. Offset : o >= Offset - WinSize /\ Granted(o)
    BY <1>1, <1>3 DEF TotalWitness
  <2> QED BY <1>1, <1>2, RemainingWitness
<1> QED BY <1>4, <1>5, <1>6 DEF Witnessed

LEMMA GrantRecovers ==
    ASSUME RecoveryInv, NEW size \in Sizes, Admits(size), now' = now, CleanUp,
           buckets' = [Cleared EXCEPT ![Slot(Offset)] = @ + size],
           winBytes' = Remaining + size,
           sentAt' = [sentAt EXCEPT ![now] = Counted(@ + size)]
    PROVE  InInt' => Witnessed'
<1> SUFFICES ASSUME InInt' PROVE Witnessed'
  OBVIOUS
<1>1. TypeOK /\ Base' = Base /\ InInt /\ index' = Offset /\ oldestTs' = Base
  BY CallIsEarly DEF RecoveryInv, LimiterInv, CleanUp
<1>2. Witnessed
  BY <1>1 DEF RecoveryInv
<1>3. /\ WinSize \in Nat \ {0} /\ Offset \in Nat /\ Base + Offset = now
      /\ Base \in Nat /\ now \in 0 .. MaxNow /\ Threshold \in Nat /\ size \in Nat
      /\ MaxNow \in Nat /\ sentAt \in [0 .. MaxNow -> 0 .. Threshold + 1]
      /\ Remaining \in Nat
      /\ Cleared \in [Slots -> Nat] /\ Slot(Offset) \in Slots
  <2>1. Remaining \in 0 .. winBytes /\ winBytes \in Nat
    BY <1>1, RemainingType, RecoveryTypes
  <2>2. /\ WinSize \in Nat \ {0} /\ Offset \in Nat /\ Base + Offset = now
        /\ Base \in Nat /\ now \in 0 .. MaxNow /\ Threshold \in Nat /\ MaxNow \in Nat
    BY <1>1, RecoveryTypes
  <2>3. size \in Nat /\ sentAt \in [0 .. MaxNow -> 0 .. Threshold + 1]
    BY <1>1, LimiterAssumption DEF TypeOK
  <2>4. Cleared \in [Slots -> Nat] /\ Slot(Offset) \in Slots
    BY <1>1, <2>2, ClearedType, SlotType
  <2> QED
    BY <2>1, <2>2, <2>3, <2>4
<1>4. ASSUME NEW o \in 0 .. Offset, Granted(o)
      PROVE  Granted(o)'
  <2>1. Base + o \in 0 .. MaxNow
    BY <1>3
  <2>2. sentAt[Base + o] > 0
    BY <1>4 DEF Granted
  <2>3. CASE Base + o = now
    <3>1. sentAt'[now] = Counted(sentAt[now] + size)
      BY <1>3
    <3>2. sentAt[now] \in 0 .. Threshold + 1 /\ sentAt[now] > 0
      <4>1. sentAt[now] \in 0 .. Threshold + 1
        BY <1>3
      <4> QED BY <2>2, <2>3, <4>1
    <3>3. Counted(sentAt[now] + size) > 0
      BY <1>3, <3>2 DEF Counted
    <3> QED BY <1>1, <2>3, <3>1, <3>3 DEF Granted
  <2>4. CASE Base + o # now
    BY <1>1, <1>3, <2>1, <2>2, <2>4 DEF Granted
  <2> QED BY <2>3, <2>4
<1>5. size > 0 => \A o : o = Offset => Granted(o)'
  <2> SUFFICES ASSUME size > 0
               PROVE  sentAt'[now] > 0
    BY <1>1, <1>3 DEF Granted
  <2>1. sentAt'[now] = Counted(sentAt[now] + size) /\ sentAt[now] \in Nat
    BY <1>3
  <2> QED BY <1>3, <2>1 DEF Counted
<1>6. IndexPassed' /\ NotYet'
  BY <1>1, RecoveryTypes DEF IndexPassed, NotYet
<1>7. BucketsWitness'
  <2> SUFFICES ASSUME NEW o \in Window(Offset), ~Granted(o)'
               PROVE  buckets'[Slot(o)] = 0
    BY <1>1 DEF BucketsWitness
  <2>1. o \in 1 .. Offset /\ o > Offset - WinSize /\ Slot(o) \in Slots
    BY <1>3, SlotType DEF Window
  <2>2. Cleared[Slot(o)] = 0
    BY <1>1, <1>2, <1>4, <2>1, ClearedWitness
  <2>3. CASE o = Offset
    <3>1. size = 0
      BY <1>3, <1>5, <2>3
    <3> QED BY <1>3, <2>2, <2>3, <3>1
  <2>4. CASE o # Offset
    <3>1. Slot(o) # Slot(Offset)
      BY <1>3, <2>1, <2>4, SlotsDiffer
    <3> QED BY <1>3, <2>1, <2>2, <3>1
  <2> QED BY <2>3, <2>4
<1>8. TotalWitness'
  <2> SUFFICES ASSUME Remaining + size > 0
               PROVE  \E o \in 0 .. Offset : o >= Offset - WinSize /\ Granted(o)'
    BY <1>1 DEF TotalWitness
  <2>1. CASE size > 0
    <3>1. Offset \in 0 .. Offset /\ Offset >= Offset - WinSize
      BY <1>3
    <3> QED BY <1>5, <2>1, <3>1
  <2>2. CASE Remaining > 0
    <3>1. PICK o \in 0 .. Offset : o >= Offset - WinSize /\ Granted(o)
      BY <1>1, <1>2, <2>2, RemainingWitness
    <3> QED BY <1>4, <3>1
  <2> QED BY <1>3, <2>1, <2>2
<1> QED BY <1>6, <1>7, <1>8 DEF Witnessed

LEMMA RecoveryInvInit == Init => RecoveryInv
<1> SUFFICES ASSUME Init PROVE RecoveryInv
  OBVIOUS
<1>1. winBytes = 0 /\ index = 0 /\ now = 0 /\ Base = now
  BY DEF Init, Base
<1>2. Window(index) = {}
  BY <1>1 DEF Window
<1> QED
  BY <1>1, <1>2, LimiterInvInit
     DEF RecoveryInv, Witnessed, IndexPassed, NotYet, BucketsWitness, TotalWitness

LEMMA ClockRecovers ==
    ASSUME RecoveryInv, Clock
    PROVE  InInt' => Witnessed'
<1> SUFFICES ASSUME InInt' PROVE Witnessed'
  OBVIOUS
<1>1. /\ now' = now + 1 /\ now \in Nat /\ Base \in 0 .. now
      /\ UNCHANGED <<buckets, winBytes, index, oldestTs, sentAt>>
  BY BaseType DEF RecoveryInv, LimiterInv, TypeOK, Clock, ring
<1>2. CASE oldestTs = -1
  <2>1. Base = now /\ Base' = now'
    BY <1>1, <1>2 DEF Base
  <2>2. InInt
    BY <1>1, <2>1, LimiterAssumption DEF InInt
  <2>3. index = 0 /\ winBytes = 0
    BY <1>2, <2>2 DEF RecoveryInv, Witnessed, NotYet
  <2>4. Window(0) = {}
    BY DEF Window
  <2> QED BY <1>1, <2>1, <2>3, <2>4
          DEF Witnessed, IndexPassed, NotYet, BucketsWitness, TotalWitness
<1>3. CASE oldestTs # -1
  <2>1. Base' = Base
    BY <1>1, <1>3 DEF Base
  <2>2. InInt
    BY <1>1, <2>1, LimiterAssumption DEF InInt
  <2>3. IndexPassed'
    BY <1>1, <2>1, <2>2 DEF RecoveryInv, LimiterInv, TypeOK, Witnessed, IndexPassed
  <2> QED BY <1>1, <2>1, <2>2, <2>3
          DEF RecoveryInv, Witnessed, NotYet, BucketsWitness, TotalWitness, Granted
<1> QED BY <1>2, <1>3

LEMMA RecoveryInvNext == RecoveryInv /\ [Next]_vars => RecoveryInv'
<1> SUFFICES ASSUME RecoveryInv, [Next]_vars PROVE InInt' => Witnessed'
  BY LimiterInvNext DEF RecoveryInv
<1>1. ASSUME UNCHANGED <<ring, now, sentAt>> PROVE InInt' => Witnessed'
  BY <1>1 DEF RecoveryInv, InInt, Base, ring, Witnessed, IndexPassed, NotYet,
              BucketsWitness, TotalWitness, Granted
<1>2. CASE LimiterOpen
  <2>1. CASE Offset > 0
    BY <1>2, <2>1, CleaningRecovers DEF LimiterOpen
  <2>2. CASE ~(Offset > 0)
    <3>1. /\ UNCHANGED <<buckets, winBytes, index, now, sentAt>> /\ oldestTs' = Base
      BY <1>2, <2>2 DEF LimiterOpen
    <3>2. TypeOK /\ Base' = Base /\ oldestTs' \in 0 .. now'
      BY <3>1, BaseStays DEF RecoveryInv, LimiterInv
    <3> QED BY <3>1, <3>2
            DEF RecoveryInv, InInt, Witnessed, IndexPassed, NotYet,
                BucketsWitness, TotalWitness, Granted
  <2> QED BY <2>1, <2>2
<1>3. ASSUME NEW size \in Sizes, LimiterTrySend(size) PROVE InInt' => Witnessed'
  <2>1. CASE Admits(size)
    BY <1>3, <2>1, GrantRecovers DEF LimiterTrySend
  <2>2. CASE ~Admits(size)
    BY <1>3, <2>2, CleaningRecovers DEF LimiterTrySend
  <2> QED BY <2>1, <2>2
<1>4. CASE Clock
  BY <1>4, ClockRecovers
<1>5. CASE Escape \/ UNCHANGED vars
  BY <1>1, <1>5 DEF Escape, vars
<1> QED BY <1>2, <1>3, <1>4, <1>5 DEF Next

(* For a ring, a threshold and packets of any size, and as long as the     *)
(* offset of the clock fits its int: once a window has passed since the    *)
(* last grant, no packet that fits the threshold is refused, whatever      *)
(* stale totals __limiterRemove has carried on and whatever the buckets    *)
(* held when they were allocated.                                          *)
THEOREM LimiterRecovers == Spec => []RecoversAfterWindow
<1>1. Init => RecoveryInv
  BY RecoveryInvInit
<1>2. RecoveryInv /\ [Next]_vars => RecoveryInv'
  BY RecoveryInvNext
<1>3. RecoveryInv => RecoversAfterWindow
  <2> SUFFICES ASSUME RecoveryInv, NEW size \in Sizes, InInt, size <= Threshold,
                      now > WinSize, \A t \in now - WinSize .. now : sentAt[t] = 0
               PROVE  Admits(size)
    BY DEF RecoversAfterWindow, InInt
  <2>1. TypeOK /\ Witnessed
    BY DEF RecoveryInv, LimiterInv
  <2>2. /\ Base \in Nat /\ Base + Offset = now /\ Offset \in Nat /\ WinSize \in Nat
        /\ now \in Nat
    BY <2>1, RecoveryTypes
  <2>3. ~(Remaining > 0)
    <3> SUFFICES ASSUME Remaining > 0 PROVE FALSE
      OBVIOUS
    <3>1. PICK o \in 0 .. Offset : o >= Offset - WinSize /\ Granted(o)
      BY <2>1, RemainingWitness
    <3>2. Base + o \in now - WinSize .. now
      BY <2>2, <3>1
    <3> QED BY <3>1, <3>2 DEF Granted
  <2>4. Remaining \in Nat /\ size \in Nat /\ Threshold \in Nat
    BY <2>1, RemainingType, RecoveryTypes, LimiterAssumption
  <2> QED BY <2>3, <2>4 DEF Admits
<1> QED BY <1>1, <1>2, <1>3, PTL DEF Spec

=============================================================================
