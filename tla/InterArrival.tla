----------------------------- MODULE InterArrival -----------------------------
(***************************************************************************)
(* The arrival filter (InterArrival): packets of a feedback are gathered   *)
(* in groups, and each completed pair of groups gives the difference of    *)
(* their send times and of their arrival times.                            *)
(*                                                                         *)
(* A send time counts from the start of the estimator, in 64 bits; the     *)
(* groups keep it in 32, and whether a packet may follow is decided by     *)
(* comparing what was cut off: once the 32 bits have wrapped, packets are  *)
(* refused until their time passes that of the group again.                *)
(*                                                                         *)
(* Of the other times the code only takes differences, so a packet says    *)
(* how far it was sent after the first packet of the current group, and    *)
(* how long after the last packet it arrived and was processed.  The       *)
(* adapter that passes the packets on does not sort them.                  *)
(***************************************************************************)
EXTENDS Integers

CONSTANTS
    BurstThreshold,     \* BURST_THRESHOLD_MS
    OffsetThreshold,    \* OFFSET_THRESHOLD_MS
    GroupLen,           \* timeGroupLenTicks
    Word,               \* number of values of a uint32_t
    Counts              \* values the uninitialised numConsecutive may have

ASSUME ArrivalAssumption ==
    /\ {BurstThreshold, OffsetThreshold, GroupLen} \subseteq Nat
    /\ Word \in Nat \ {0}
    /\ Counts \subseteq Int

VARIABLES
    cur, prev,      \* whether the groups hold packets (completeTs # -1)
    first,          \* when the first packet of the current group was sent; of
                    \* the last group if there is none
    stamp,          \* of the current group: timestamp
    gap,            \* current group minus previous one: timestamp, completeTs,
                    \* lastSysTs
    numConsecutive,
    newest,         \* the newest send time of the packets taken since the last
                    \* reset, minus first; 0 once reordered
    apart,          \* how far apart the newest packets of both groups were
                    \* sent; 0 once reordered
    reordered       \* since the last reset a packet came out of order

groupVars == <<cur, prev, first, stamp, gap>>
orderVars == <<newest, apart, reordered>>
arrivalVars == <<groupVars, numConsecutive, orderVars>>

NoGap == [ts |-> 0, arrival |-> 0, sys |-> 0]

ArrivalInit ==
    /\ cur = FALSE /\ prev = FALSE
    /\ first = 0 /\ stamp = 0 /\ gap = NoGap
    /\ numConsecutive \in Counts        \* uninitialised
    /\ newest = 0 /\ apart = 0 /\ reordered = FALSE

-----------------------------------------------------------------------------
(* A packet p: ahead is its send time minus that of the group's first      *)
(* packet, arrival and sys its arrival and its processing minus those of   *)
(* the last packet.                                                        *)
Time(p) == first + p.ahead

(* What 32 bits keep of a time, without and with a sign.                   *)
Cut(t) == t % Word

Signed(x) == IF Cut(x) < Word \div 2 THEN Cut(x) ELSE Cut(x) - Word

(* A packet sent before the estimator was made is left out by its callers. *)
TooOld(p) == Time(p) < 0

InOrder(p) == cur => Cut(first) <= Cut(Time(p))

(* How much later than the group's timestamp p was sent, as 32 bits know.  *)
Later(p) == Cut(Time(p)) - stamp

BelongsToBurst(p) ==
    \/ Later(p) = 0
    \/ Signed(p.arrival - Cut(Later(p))) < 0 /\ p.arrival <= BurstThreshold

(* The timestamp of the group once p has joined it.  The larger one is     *)
(* taken, of 32 bits and of 64: after a wrap that is always the one of p.  *)

(* Mutant of Stamped: a group keeps the time of its first packet.          *)
StampedOnce(p) == stamp

Stamped(p) == IF Time(p) > stamp THEN Cut(Time(p)) ELSE stamp

(* __newGroup returns true for what stays in the group, and computeDeltas  *)
(* takes it for that.                                                      *)
Joins(p) == BelongsToBurst(p) /\ Cut(Time(p)) - Cut(first) # GroupLen

StartsGroup(p) == cur /\ ~TooOld(p) /\ InOrder(p) /\ ~Joins(p)

(* Two clocks that drift apart.                                            *)
Jumps == gap.arrival > gap.sys + OffsetThreshold

Backwards == gap.arrival < 0

(* What becomes of p in computeDeltas.                                     *)
Refused(p) == TooOld(p) \/ ~InOrder(p)
LosesOffset(p) == StartsGroup(p) /\ prev /\ Jumps
GoesBack(p) == StartsGroup(p) /\ prev /\ ~Jumps /\ Backwards
Accepted(p) == ~Refused(p) /\ ~LosesOffset(p) /\ ~GoesBack(p)

(* *timestampDelta, which is 0 where no deltas are computed.               *)
SendDelta(p) == IF StartsGroup(p) /\ prev THEN Cut(gap.ts) ELSE 0

ResetGroupTs ==
    /\ cur' = FALSE /\ prev' = FALSE
    /\ stamp' = 0 /\ gap' = NoGap
    /\ newest' = 0 /\ apart' = 0 /\ reordered' = FALSE
    /\ UNCHANGED first

-----------------------------------------------------------------------------
(* The record of the past, when the times of two groups, or of more of one *)
(* group, go up by sent and first moves by moved.                          *)
Disordered(p) == reordered \/ p.ahead < newest \/ p.arrival < 0

Remember(p, moved, before) ==
    /\ reordered' = Disordered(p)
    /\ newest' = IF Disordered(p) THEN 0 ELSE p.ahead - moved
    /\ apart' = IF Disordered(p) THEN 0 ELSE before + p.ahead - newest

(* computeDeltas, by its results.                                          *)

(* Mutant of TooMany: it is never given up.                                *)
NeverTooMany(count) == FALSE

TooMany(count) == count > 3

(* All counts above 3 are alike: bound.                                    *)
Counted(count) == IF count > 3 THEN count ELSE count + 1

(* It returns false.                                                       *)
Refuse(p) ==
    \/ /\ Refused(p)
       /\ UNCHANGED arrivalVars
    \/ /\ LosesOffset(p)
       /\ ResetGroupTs
       /\ UNCHANGED numConsecutive
    \/ /\ GoesBack(p)
       /\ numConsecutive' = Counted(numConsecutive)
       /\ IF TooMany(numConsecutive + 1)
          THEN ResetGroupTs
          ELSE UNCHANGED <<groupVars, orderVars>>

(* It returns true, and p is in the current group.                         *)
FirstPacket(p) ==
    /\ ~cur /\ ~TooOld(p)
    /\ cur' = TRUE
    /\ first' = Time(p) /\ stamp' = Cut(Time(p))
    /\ UNCHANGED <<prev, gap, numConsecutive, orderVars>>

StartGroup(p) ==
    /\ StartsGroup(p) /\ Accepted(p)
    /\ prev' = TRUE
    /\ gap' = [ts |-> Later(p), arrival |-> p.arrival, sys |-> p.sys]
    /\ first' = Time(p) /\ stamp' = Cut(Time(p))
    /\ numConsecutive' = IF prev THEN 0 ELSE numConsecutive
    /\ Remember(p, p.ahead, 0)
    /\ UNCHANGED cur

JoinGroup(p) ==
    /\ cur /\ ~Refused(p) /\ Joins(p)
    /\ stamp' = Stamped(p)
    /\ gap' = IF prev THEN [ts |-> gap.ts + Stamped(p) - stamp,
                            arrival |-> gap.arrival + p.arrival,
                            sys |-> gap.sys + p.sys]
                      ELSE gap
    /\ Remember(p, 0, apart)
    /\ UNCHANGED <<cur, prev, first, numConsecutive>>

Accept(p) == FirstPacket(p) \/ StartGroup(p) \/ JoinGroup(p)

-----------------------------------------------------------------------------
(* For packets that come in the order in which they were sent, the        *)
(* difference of the send times is that of the newest packets of the       *)
(* groups, as far as 32 bits can tell and also where they wrap, and the    *)
(* one of the arrival times is not below zero, so that nothing is taken    *)
(* for clocks that run backwards (computeDeltas, __newGroup).              *)
OrderedIsExact ==
    prev /\ ~reordered => Cut(gap.ts) = Cut(apart) /\ gap.arrival >= 0

(* Two groups that arrived the wrong way round refuse what starts a group. *)
Blocked == prev /\ Backwards

=============================================================================
