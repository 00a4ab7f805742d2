------------------------------ MODULE FrameCache ------------------------------
(***************************************************************************)
(* How long the receiving side buffers frames (FrameCache.waitTimer): set  *)
(* when the receiver is created, smoothed towards the round-trip time at   *)
(* every heartbeat, and shortened from time to time                        *)
(* (BoeReceiver::procRecvHeartbeat, __updateCacheWaitTimer).               *)
(***************************************************************************)
EXTENDS Integers

CONSTANTS
    Estimates,      \* what the session may hold: records [rtt, rttVar]
    DefaultFrame,   \* frameTimer of a new cache: 100
    ActiveFrame,    \* frameTimer that setActive sets: 50
    Period,         \* the 1000 of procRecvHeartbeat
    Word            \* the values of a uint32_t: 2^32

ASSUME CacheAssumption ==
    /\ DefaultFrame \in Nat /\ ActiveFrame \in Nat \ {0} /\ Word \in Nat
    /\ ActiveFrame <= DefaultFrame /\ DefaultFrame < Word
    /\ Period \in Nat
    /\ Estimates \subseteq [rtt : Nat, rttVar : Nat] /\ Estimates # {}

VARIABLES
    estimate,       \* the session's rtt and rttVar
    waitTimer,
    frameTimer,
    lossCount,      \* 0, or what it was allocated with
    cacheAge,       \* now - cacheTs
    beaten          \* has there been a heartbeat since the cache was made?

cacheVars == <<estimate, waitTimer, frameTimer, lossCount, cacheAge, beaten>>

AtLeast(floor, x) == IF x > floor THEN x ELSE floor

RoundTrip == estimate.rtt + estimate.rttVar

(* The largest age the code tells apart.                                   *)
Long == Period + 1

(* The periodic update waits a round trip if that is longer than Period.   *)
Due == cacheAge > AtLeast(Period, RoundTrip)

NewCache(e) == (e.rtt + 2 * e.rttVar) % Word

CacheInit ==
    /\ estimate \in Estimates
    /\ waitTimer = NewCache(estimate)
    /\ frameTimer \in {DefaultFrame, ActiveFrame}   \* actived is uninitialised
    /\ lossCount \in {0, 1}                         \* uninitialised
    /\ cacheAge \in {0, Long}                       \* uninitialised
    /\ beaten = FALSE

-----------------------------------------------------------------------------
(* A second MSG_CONNECT makes the cache anew; the receiver is active       *)
(* already, so setActive leaves the default frame interval.                *)
CreateReceiver ==
    /\ waitTimer' = NewCache(estimate)
    /\ frameTimer' = DefaultFrame
    /\ beaten' = FALSE
    /\ UNCHANGED <<estimate, lossCount, cacheAge>>

(* __updateCacheWaitTimer, in 32-bit arithmetic.                           *)

Smoothed == ((waitTimer * 7 + (RoundTrip % Word)) % Word) \div 8

(* Mutant of Floored: the frame interval is no floor.                      *)
Unfloored(x) == x

Floored(x) == AtLeast(frameTimer, x)

Shortened(wait, num, den) == Floored(((wait * num) % Word) \div den)

Heartbeat ==
    LET wait == Floored(Smoothed)
        excessive == wait > 2 * RoundTrip
    IN  /\ waitTimer' = IF Due /\ lossCount = 0 THEN Shortened(wait, 7, 8)
                        ELSE IF Due /\ excessive THEN Shortened(wait, 15, 16)
                        ELSE wait
        /\ IF Due /\ lossCount # 0 /\ excessive
           THEN cacheAge' = 0 /\ lossCount' = 0
           ELSE UNCHANGED <<cacheAge, lossCount>>
        /\ beaten' = TRUE
        /\ UNCHANGED <<estimate, frameTimer>>

(* sessCalculateRtt of the session.                                        *)
RttChanges ==
    /\ estimate' \in Estimates
    /\ UNCHANGED <<waitTimer, frameTimer, lossCount, cacheAge, beaten>>

Older(a, oldest) == IF a < oldest THEN a + 1 ELSE a

Clock ==
    /\ cacheAge' = Older(cacheAge, AtLeast(Period, RoundTrip) + 1)
    /\ cacheAge' # cacheAge
    /\ UNCHANGED <<estimate, waitTimer, frameTimer, lossCount, beaten>>

CacheNext == CreateReceiver \/ Heartbeat \/ RttChanges \/ Clock

CacheSpec == CacheInit /\ [][CacheNext]_cacheVars

-----------------------------------------------------------------------------
CacheTypeOK ==
    /\ estimate \in Estimates
    /\ waitTimer \in 0 .. Word - 1
    /\ frameTimer \in {DefaultFrame, ActiveFrame}
    /\ lossCount \in {0, 1}
    /\ cacheAge \in Nat
    /\ beaten \in BOOLEAN

(* Receiver.cc:276: the wait covers the interval of frames from the first  *)
(* heartbeat on, although the products may overflow and both periodic      *)
(* updates shorten it.                                                     *)
WaitCoversFrame == beaten => waitTimer >= frameTimer

=============================================================================
