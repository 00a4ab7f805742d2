---------------------------- MODULE LossStatistics ----------------------------
(***************************************************************************)
(* Loss reports of the receiving side (LossStatistics.cc): packets are     *)
(* counted as they come, and from time to time the count is compared with  *)
(* the distance their 16-bit transport numbers have moved.                 *)
(***************************************************************************)
EXTENDS Integers

CONSTANTS
    MaxSeq,         \* the largest transport number: 2^16 - 1
    MinDistance,    \* the 20 of calculate
    Window          \* LOSS_STATISTICS_WINDOW_MS

VARIABLES
    count,          \* packets that came since the last report
    maxId,          \* the largest number that came
    prevMaxId,      \* the largest number at the last report
    statAge,        \* now - statTs
    fraction,       \* the last reported loss, in 255ths
    arrived         \* the numbers that came since the last report

Seqs == 0 .. MaxSeq

None == -1

LossInit ==
    /\ count = 0 /\ maxId = None /\ prevMaxId = 1
    /\ statAge = Window     \* statTs == -1, long before any clock
    /\ fraction = 0
    /\ arrived = {}

-----------------------------------------------------------------------------
Greatest(a, b) == IF a < b THEN b ELSE a

(* Mutant of Counted: only a packet that is ahead of all others counts.    *)
CountedAhead(seq) == IF maxId < seq THEN count + 1 ELSE count

(* Counting stops where a larger count makes no difference.                *)
Counted(seq) == IF count > MaxSeq THEN count ELSE count + 1

Incoming(seq) ==
    /\ prevMaxId' = IF prevMaxId = None /\ seq > 0 THEN seq - 1 ELSE prevMaxId
    /\ maxId' = Greatest(maxId, seq)
    /\ count' = Counted(seq)
    /\ arrived' = arrived \union {seq}
    /\ UNCHANGED <<statAge, fraction>>

Distance == maxId - prevMaxId

Reports ==
    /\ maxId # None /\ prevMaxId # None
    /\ Distance >= MinDistance
    /\ statAge >= Window

(* Mutant of Fraction: the count is taken to be below the distance.        *)
FractionBlind == ((Distance - count) * 255) \div Distance

Fraction == IF count >= Distance THEN 0 ELSE ((Distance - count) * 255) \div Distance

(* calculate at a heartbeat that reports; at others it changes nothing.    *)
Calculate ==
    /\ Reports
    /\ fraction' = Fraction
    /\ prevMaxId' = maxId
    /\ count' = 0
    /\ statAge' = 0
    /\ arrived' = {}
    /\ UNCHANGED maxId

LossClock ==
    /\ statAge' = IF statAge < Window THEN statAge + 1 ELSE statAge
    /\ UNCHANGED <<count, maxId, prevMaxId, fraction, arrived>>

=============================================================================
