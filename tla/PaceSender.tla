------------------------------ MODULE PaceSender ------------------------------
(***************************************************************************)
(* The pacer of the sending side: the queue of packets (PaceQueue), the    *)
(* byte budget of an interval (IntervalBudget) and the transmission driven *)
(* by the session's heartbeat (PaceSender::tryTransmit).                   *)
(*                                                                         *)
(* The queue keeps each packet in a map by number and in a heap by queue   *)
(* time; both hold the same packets.  Times appear as ages, which grow     *)
(* with the clock up to the last value the code tells apart; packets whose *)
(* ages have met are packets the heap may hold in either order.            *)
(***************************************************************************)
EXTENDS Integers, FiniteSetsExt

CONSTANTS
    Seqs,               \* packet numbers
    Size(_),            \* size of a packet in bytes
    Rates,              \* estimated bitrates, in kbit/s
    MinRates,           \* values the uninitialised minSenderBitrateKbps may have
    Garbage,            \* values the uninitialised totalSize may have
    MaxSpaceQueueMs,    \* MAX_SPACE_QUEUE_MS
    MinPacketLimitMs,   \* MIN_PACKET_LIMIT_MS
    MaxIntervalMs,      \* MAX_INTERVAL_MS
    IntervalWindowMs,   \* INTERVAL_WINDOW_MS
    IntMax              \* the largest int

ASSUME PaceAssumption ==
    /\ Seqs \subseteq Nat
    /\ \A s \in Seqs : Size(s) \in Nat \ {0}
    /\ Rates \subseteq Nat /\ MinRates \subseteq Nat /\ Garbage \subseteq Nat
    /\ {MaxSpaceQueueMs, MinPacketLimitMs, MaxIntervalMs, IntervalWindowMs, IntMax}
         \subseteq Nat \ {0}
    /\ MaxSpaceQueueMs > 1
    /\ MinPacketLimitMs <= MaxIntervalMs /\ MaxIntervalMs <= IntervalWindowMs

VARIABLES
    cache,      \* numbers of the packets in the queue
    sent,       \* those that were sent and linger in it
    age,        \* how long ago each packet was queued
    oldestAge,  \* now - oldestTs, or None
    totalSize,  \* bytes the queue counts
    excess,     \* bytes of totalSize that never were in the queue
    idle,       \* now - lastUpdateTs
    pacing,     \* pacingBitrateKbps
    minRate,    \* minSenderBitrateKbps: never assigned
    alrRate,    \* target rate of the application-limited detector
    maxBytes,   \* mediaBudget.maxBytesInBudget
    remaining,  \* mediaBudget.bytesRemaining
    alive       \* FALSE after a division by zero

queueVars == <<cache, sent, age, oldestAge, totalSize, excess>>
rateVars == <<pacing, minRate, alrRate>>
budgetVars == <<maxBytes, remaining>>
paceVars == <<queueVars, idle, rateVars, budgetVars, alive>>

-----------------------------------------------------------------------------
None == -1      \* oldestTs == -1

AtMost(a, b) == IF a > b THEN b ELSE a
AtLeast(a, b) == IF a > b THEN a ELSE b

(* A value stored in an int.                                               *)
Int32(x) == ((x + IntMax + 1) % (2 * (IntMax + 1))) - (IntMax + 1)

(* Division of ints, towards zero.                                         *)
Quotient(x, d) == IF x >= 0 THEN x \div d ELSE -((-x) \div d)

(* The bytes of some packets, each a packet and a place in it.             *)
Contents(S) == UNION { {s} \X (1 .. Size(s)) : s \in S }

Bytes(S) == Cardinality(Contents(S))

Unsent == cache \ sent

Init ==
    /\ cache = {} /\ sent = {}
    /\ age = [s \in Seqs |-> 0]
    /\ oldestAge \in {None, MaxSpaceQueueMs}    \* uninitialised
    /\ totalSize \in Garbage                    \* uninitialised
    /\ excess = totalSize
    /\ idle = 0
    /\ pacing \in Rates                         \* uninitialised
    /\ minRate \in MinRates                     \* uninitialised
    /\ alrRate = 0
    /\ maxBytes = 0 /\ remaining = 0
    /\ alive = TRUE

-----------------------------------------------------------------------------
(* setEstimateBitrate: the pacing rate is one and a half times the         *)
(* estimate, the application-limited rate 60 per cent of it.               *)
SetEstimate(kbps) ==
    /\ alive
    /\ pacing' = (AtLeast(kbps, minRate) * 3) \div 2
    /\ alrRate' = (kbps * 6) \div 10
    /\ UNCHANGED <<queueVars, idle, minRate, budgetVars, alive>>

-----------------------------------------------------------------------------
(* insertPacket, pushPacket: a number the queue still holds is refused,    *)
(* whether it was sent or not.                                             *)

(* Mutant of Refuses: a packet that was sent makes room for its successor. *)
RefusesUnsent(s) == s \in Unsent

Refuses(s) == s \in cache

(* Several packets of one frame are queued in one go.                      *)
InsertPackets(S) ==
    LET new == { s \in S : ~Refuses(s) }
    IN  /\ alive
        /\ oldestAge' = IF oldestAge = None THEN 0 ELSE oldestAge
        /\ cache' = cache \union new
        /\ age' = [s \in Seqs |-> IF s \in new THEN 0 ELSE age[s]]
        /\ totalSize' = totalSize + Bytes(new)
        /\ UNCHANGED <<sent, excess, idle, rateVars, budgetVars, alive>>

-----------------------------------------------------------------------------
(* tryTransmit.                                                            *)

(* targetBitrateKbps: what it takes to send the queue in the time left.    *)
SpaceLeft ==
    IF oldestAge = None \/ oldestAge = 0 THEN MaxSpaceQueueMs - 1
    ELSE IF oldestAge >= MaxSpaceQueueMs THEN 1
    ELSE MaxSpaceQueueMs - oldestAge

QueueRate == IF cache = {} THEN 0 ELSE (totalSize * 8) \div SpaceLeft

TargetRate == Int32(IF totalSize > 0 THEN AtLeast(pacing, QueueRate) ELSE pacing)

Elapsed == AtMost(idle, MaxIntervalMs)

(* setTargetRateKbps and increaseBudget: unused bytes are dropped, debts   *)
(* are kept within a window.                                               *)
WindowBytes == Int32(IntervalWindowMs * TargetRate)

(* Mutant of Earned: the rate is taken per second.                         *)
EarnedPerSecond == Quotient(Int32(TargetRate * Elapsed), 8000)

Earned == Quotient(Int32(TargetRate * Elapsed), 8)

(* Mutant of Carried: a debt is not kept within the window.                *)
CarriedWhole == AtMost(remaining, WindowBytes)

Carried == AtMost(AtLeast(-WindowBytes, remaining), WindowBytes)

Budget == AtMost(IF Carried < 0 THEN Carried + Earned ELSE Earned, WindowBytes)

(* The loop takes the lowest unsent number, and stops at the first packet  *)
(* for which the ones before have used up the budget.                      *)
Before(s) == { q \in Unsent : q < s }

(* Mutant of Goes: the highest number goes first.                          *)
GoesLatest(s, budget) ==
    \A q \in Unsent : q >= s => Bytes({ p \in Unsent : p > q }) < budget

Goes(s, budget) == \A q \in Unsent : q <= s => Bytes(Before(q)) < budget

Batch ==
    LET budget == Budget
    IN  { s \in Unsent : Goes(s, budget) }

(* queueFinalize takes the newest packets off the heap while they are      *)
(* sent; among packets of one age the heap's order decides.                *)

(* Mutant of Kept: only packets of the newest age are taken off.           *)
KeptButNewest(done) ==
    { { s \in done : \E q \in cache : age[q] < age[s] } }

Kept(done) ==
    LET left == cache \ done
        buried == { s \in done : \E q \in left : age[q] < age[s] }
        tied == { s \in done \ buried : \E q \in left : age[q] = age[s] }
    IN  { buried \union T : T \in SUBSET tied }

(* Mutant of SizeAfter: every packet is taken off twice.                   *)
SizeAfterTwice(batch) == totalSize - 2 * Bytes(batch)

(* Mutant of SizeAfter: the size is taken off once per transmission.       *)
SizeAfterOne(batch) == AtLeast(0, totalSize - Size(Min(batch)))

SizeAfter(batch) == AtLeast(0, totalSize - Bytes(batch))

(* queueSent for every packet of the batch; an emptied queue starts over.  *)
SendBatch(batch) ==
    LET done == sent \union batch
        left == cache \ done
    IN  /\ \E kept \in Kept(done) : sent' = kept /\ cache' = left \union kept
        /\ totalSize' = IF left = {} THEN 0 ELSE SizeAfter(batch)
        /\ excess' = IF left = {} THEN 0 ELSE excess
        /\ oldestAge' = IF left = {} THEN None ELSE Min({ age[s] : s \in left })
        /\ age' = [s \in Seqs |-> IF s \in cache' THEN age[s] ELSE 0]

(* The application-limited detector divides by its own window, which is    *)
(* empty until an estimate arrives.                                        *)
DividesByZero(batch) == batch # {} /\ alrRate = 0

Transmit ==
    LET batch == Batch
    IN  /\ alive
        /\ idle >= MinPacketLimitMs
        /\ maxBytes' = WindowBytes
        /\ IF batch = {}
           THEN /\ remaining' = Budget
                /\ UNCHANGED queueVars
           ELSE /\ remaining' = AtLeast(-WindowBytes, Budget - Bytes(batch))
                /\ SendBatch(batch)
        /\ alive' = ~DividesByZero(batch)
        /\ idle' = 0
        /\ UNCHANGED rateVars

-----------------------------------------------------------------------------
(* The clock.                                                              *)

Older(a) == AtMost(a + 1, MaxSpaceQueueMs)

Clock ==
    /\ idle' = AtMost(idle + 1, MaxIntervalMs)
    /\ age' = [s \in Seqs |-> IF s \in cache THEN Older(age[s]) ELSE age[s]]
    /\ oldestAge' = IF oldestAge = None THEN None ELSE Older(oldestAge)
    /\ UNCHANGED <<cache, sent, totalSize, excess, rateVars, budgetVars, alive>>

Next ==
    \/ \E kbps \in Rates : SetEstimate(kbps)
    \/ \E s \in Seqs : InsertPackets({s})
    \/ Transmit
    \/ Clock

Spec == Init /\ [][Next]_paceVars

(* Time passes, and the session's heartbeat keeps calling tryTransmit; a   *)
(* call before MinPacketLimitMs have passed does nothing.                  *)
FairSpec == Spec /\ WF_paceVars(Clock) /\ WF_paceVars(Transmit)

-----------------------------------------------------------------------------
(* The types; a packet that is not in the queue has no age.                *)
TypeOK ==
    /\ cache \subseteq Seqs
    /\ sent \subseteq cache
    /\ age \in [Seqs -> 0 .. MaxSpaceQueueMs]
    /\ \A s \in Seqs \ cache : age[s] = 0
    /\ oldestAge \in {None} \union (0 .. MaxSpaceQueueMs)
    /\ totalSize \in Nat /\ excess \in Nat
    /\ idle \in 0 .. MaxIntervalMs
    /\ pacing \in Nat /\ minRate \in Nat /\ alrRate \in Nat
    /\ maxBytes \in Int /\ remaining \in Int
    /\ alive \in BOOLEAN

(* A queue that is not empty has a packet left to send: otherwise          *)
(* getQueueFront would return a packet that was sent, and tryTransmit send *)
(* it again for as long as it has a budget (queueFinalize, getQueueFront). *)
HasUnsent == cache # {} => Unsent # {}

(* The size of the queue is that of its unsent packets, and what the       *)
(* uninitialised counter started with is gone once the queue was empty     *)
(* (pushPacket, queueSent, queueFinalize).                                 *)
SizeAccounted == totalSize = Bytes(Unsent) + excess

(* The budget never leaves its window, whatever rates it is given          *)
(* (IntervalBudget).                                                       *)
BudgetInWindow == remaining \in -maxBytes .. maxBytes

(* The packet to be sent first does not stay so for ever: it is sent, or a *)
(* packet with a lower number is put before it (tryTransmit).              *)
FrontIsSent ==
    \A s \in Seqs :
        Unsent # {} /\ s = Min(Unsent) ~> ~alive \/ s \notin Unsent \/ s # Min(Unsent)

(* The queue is a pacer: the map's numbers it has not marked sent are what *)
(* is pending.                                                             *)
PacerOf == INSTANCE Pacer WITH pending <- Unsent

ImplementsPacer == PacerOf!PacerSpec

=============================================================================
