---------------------------- MODULE SenderLimiter ----------------------------
(***************************************************************************)
(* The limiter of retransmissions (SenderLimiter.cc): a ring of WinSize    *)
(* buckets, one for each unit of the clock, and a running total winBytes.  *)
(* Its only caller is BoeSender::procSegmentAck, which opens every         *)
(* acknowledgement with an update of no bytes and asks before it sends.    *)
(***************************************************************************)
EXTENDS Integers

CONSTANTS
    WinSize,        \* LIMITER_BUFFER_SIZE
    Threshold,      \* bytes the window may hold
    Sizes,          \* sizes of packets
    Garbage,        \* values an uninitialised bucket may have
    IntMax,         \* the largest int
    MaxNow          \* bound: the clock

ASSUME LimiterAssumption ==
    /\ WinSize \in Nat \ {0} /\ Threshold \in Nat /\ MaxNow \in Nat
    /\ Sizes \subseteq Nat /\ Garbage \subseteq Nat
    /\ IntMax \in Nat /\ WinSize < IntMax

VARIABLES
    buckets,        \* bytes in each slot of the ring
    winBytes,       \* bytes the window is thought to hold
    index,          \* the offset of the last clean-up
    oldestTs,       \* the time of the first call, or -1
    now,            \* the clock
    sentAt,         \* bytes granted in each unit of time
    wild            \* has the limiter written outside its buckets?

ring == <<buckets, winBytes, index, oldestTs>>
vars == <<ring, now, sentAt, wild>>

Slots == 0 .. WinSize - 1

(* offset is an int: it wraps.                                             *)
Int32(x) == ((x + IntMax + 1) % (2 * (IntMax + 1))) - (IntMax + 1)

Base == IF oldestTs = -1 THEN now ELSE oldestTs

Offset == Int32(now - Base)

Slot(i) == i % WinSize

Init ==
    /\ buckets \in [Slots -> Garbage]       \* uninitialised
    /\ winBytes = 0 /\ index = 0 /\ oldestTs = -1
    /\ now = 0
    /\ sentAt = [t \in 0 .. MaxNow |-> 0]
    /\ wild = FALSE

-----------------------------------------------------------------------------
(* __limiterRemove: the slots the clock has passed are emptied.            *)

Passed == index + 1 .. Offset

(* The sum may overflow, too; the machine's addition wraps.                *)
WholeLap == Offset >= Int32(WinSize + index)

(* Mutant of Cleared: the slots keep their bytes.                          *)
KeptBytes == IF WholeLap THEN [s \in Slots |-> 0] ELSE buckets

Cleared ==
    IF WholeLap THEN [s \in Slots |-> 0]
    ELSE [s \in Slots |-> IF \E i \in Passed : s = Slot(i) THEN 0 ELSE buckets[s]]

(* The loop sets winBytes to the bytes of each slot it passes, or to 0     *)
(* once a slot holds more than winBytes: what is left is the last slot's   *)
(* bytes if no slot on the way held more than the one before it.           *)
Falling ==
    /\ \A i \in Passed : buckets[Slot(i)] <= winBytes
    /\ \A i, j \in Passed : i <= j => buckets[Slot(j)] <= buckets[Slot(i)]

Remaining ==
    IF WholeLap THEN 0
    ELSE IF Passed = {} THEN winBytes
    ELSE IF Falling THEN buckets[Slot(Offset)] ELSE 0

-----------------------------------------------------------------------------
(* The remainder of a negative offset is negative: once the offset has     *)
(* wrapped, the next update writes before the buckets.                     *)
InRing == Offset \in Nat

Escape ==
    /\ ~wild /\ ~InRing
    /\ wild' = TRUE
    /\ UNCHANGED <<ring, now, sentAt>>

CleanUp ==
    /\ index' = Offset
    /\ oldestTs' = Base

(* The empty update that opens an acknowledgement.  At the first moment it *)
(* cleans nothing.                                                         *)
LimiterOpen ==
    /\ ~wild /\ InRing
    /\ IF Offset > 0
       THEN CleanUp /\ buckets' = Cleared /\ winBytes' = Remaining
       ELSE UNCHANGED <<buckets, winBytes, index>> /\ oldestTs' = Base
    /\ UNCHANGED <<now, sentAt, wild>>

(* limiterTrySend.                                                         *)

(* Mutant of Admits: the packet itself is not counted.                     *)
AdmitsFull(size) == Remaining <= Threshold

Admits(size) == size + Remaining <= Threshold

(* The history stops counting where the properties stop looking.           *)
Counted(n) == IF n > Threshold THEN Threshold + 1 ELSE n

(* A packet is asked for: limiterTrySend, and if it admits the packet,     *)
(* limiterUpdate at the same moment.                                       *)
LimiterTrySend(size) ==
    /\ ~wild /\ InRing
    /\ CleanUp
    /\ IF Admits(size)
       THEN /\ buckets' = [Cleared EXCEPT ![Slot(Offset)] = @ + size]
            /\ winBytes' = Remaining + size
            /\ sentAt' = [sentAt EXCEPT ![now] = Counted(@ + size)]
       ELSE buckets' = Cleared /\ winBytes' = Remaining /\ UNCHANGED sentAt
    /\ UNCHANGED <<now, wild>>

Clock ==
    /\ ~wild
    /\ now < MaxNow
    /\ now' = now + 1
    /\ UNCHANGED <<ring, sentAt, wild>>

Next ==
    \/ LimiterOpen
    \/ \E size \in Sizes : LimiterTrySend(size)
    \/ Clock
    \/ Escape

Spec == Init /\ [][Next]_vars

-----------------------------------------------------------------------------
TypeOK ==
    /\ buckets \in [Slots -> Nat]
    /\ winBytes \in 0 .. Threshold
    /\ index \in Nat /\ oldestTs \in {-1} \union (0 .. now)
    /\ now \in 0 .. MaxNow
    /\ sentAt \in [0 .. MaxNow -> 0 .. Threshold + 1]
    /\ wild \in BOOLEAN

(* However the total is taken down, and whatever the buckets held when     *)
(* they were allocated, no single moment sees more bytes granted than the  *)
(* threshold, up to the last window before the offset leaves the int       *)
(* (limiterTrySend, __limiterRemove).                                      *)
BurstBounded ==
    \A t \in 0 .. MaxNow :
        t - Base <= IntMax - WinSize => sentAt[t] <= Threshold

(* The limiter recovers: once a window has passed since the last packet it *)
(* granted, it refuses no packet that fits the threshold, although         *)
(* refusals and clean-ups in between may have carried stale totals on.     *)
(* It says so while the offset fits the int: an offset that has wrapped    *)
(* all the way round counts up again below the old index.                  *)
RecoversAfterWindow ==
    \A size \in Sizes :
        /\ now - Base <= IntMax /\ size <= Threshold
        /\ now > WinSize /\ \A t \in now - WinSize .. now : sentAt[t] = 0
        => Admits(size)

=============================================================================
