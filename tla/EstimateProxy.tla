---------------------------- MODULE EstimateProxy ----------------------------
(***************************************************************************)
(* Delay feedback of the receiving side (RecvEstimateProxy.cc): arrival    *)
(* times are kept by transport number and sent back in batches.  The       *)
(* window start wndStartSeq is where the next batch begins.                *)
(***************************************************************************)
EXTENDS Integers, FiniteSetsExt

CONSTANTS
    MaxSeq,         \* the largest transport number: 2^16 - 1
    Half,           \* the 32767 of incoming
    BackWindow,     \* BACK_WINDOWS_MS
    MaxIds,         \* MAX_IDS_NUM
    MaxFeedback     \* MAX_FEEDBACK_COUNT

ASSUME ProxyAssumption ==
    /\ {MaxSeq, Half, BackWindow, MaxIds} \subseteq Nat
    /\ MaxFeedback \in Nat \ {0} /\ MaxFeedback % 2 = 0     \* samples come in twos

VARIABLES
    held,           \* the keys of arrivalTimes
    age,            \* now - arrivalTimes[s]
    wndStartSeq,
    maxArrivalSeq,
    looping,        \* has the release of arrivals not come to an end?
    reported        \* arrivals that were in some feedback

proxyVars == <<held, age, wndStartSeq, maxArrivalSeq, looping, reported>>

Seqs == 0 .. MaxSeq

Least(a, b) == IF a < b THEN a ELSE b
Greatest(a, b) == IF a < b THEN b ELSE a

ProxyInit ==
    /\ held = {} /\ age = [s \in Seqs |-> 0]
    /\ wndStartSeq = 0 /\ maxArrivalSeq = 0
    /\ looping = FALSE
    /\ reported = {}

-----------------------------------------------------------------------------
(* incoming: arrivals that are old and behind the new one are released, in *)
(* a loop that advances its iterator once to erase an element and once     *)
(* more to go on: it skips the next element, and after the last it goes    *)
(* past the end.  From there the build goes on at the last or the last but *)
(* one element, and never ends if the map is empty.                        *)

Expired(seq) == { s \in held : s < seq /\ age[s] >= BackWindow }

(* Of expired elements in a row the first pass erases every other one.  It *)
(* stops erasing after MaxIds of them.                                     *)
RowBefore(s, S, E) == { t \in E : t < s /\ \A q \in S : t < q /\ q < s => q \in E }

EveryOther(S, E) == { s \in E : Cardinality(RowBefore(s, S, E)) % 2 = 0 }

FirstPass(S, E) ==
    LET others == EveryOther(S, E)
    IN  { s \in others : Cardinality({ t \in others : t < s }) < MaxIds }

(* Past the end the build erases expired elements from the end on, until   *)
(* nothing is left, or it meets one that is not expired, or it erases the  *)
(* last but one and skips the last.                                        *)
Tails(R, E) == { T \in SUBSET (R \cap E) : \A t \in T, q \in R : t < q => q \in T }

PastEnd(R, E, n) ==
    UNION { LET rest == R \ T
                more == n + Cardinality(T) < MaxIds
            IN  { K \in {rest} : rest = {} \/ ~more \/ Max(rest) \notin E }
                \union { rest \ {u} : u \in
                    { u \in rest \cap E :
                        more /\ Cardinality({ q \in rest : q > u }) = 1 } }
          : T \in { T \in Tails(R, E) : n + Cardinality(T) <= MaxIds } }

(* What may be left of the elements S, of which E are expired; {} if the   *)
(* loop never ends.                                                        *)
Left(S, E) ==
    LET erased == FirstPass(S, E)
    IN  IF erased # {} /\ Max(S) \in erased
        THEN PastEnd(S \ erased, E \ erased, Cardinality(erased))
        ELSE {S \ erased}

(* Mutant of Releases: arrivals are released whatever is to be fed back.   *)
ReleasesAlways == held # {}

Releases == maxArrivalSeq <= wndStartSeq /\ held # {}

Kept(seq) == IF Releases THEN Left(held, Expired(seq)) ELSE {held}

(* Mutant of WindowStart: a late arrival does not move the window back.    *)
WindowStays(seq) == IF wndStartSeq = 0 THEN seq ELSE wndStartSeq

WindowStart(seq) == IF wndStartSeq = 0 THEN seq ELSE Least(wndStartSeq, seq)

(* A number too far ahead of the window is refused.                        *)
Ahead(seq) == seq > wndStartSeq + Half

Incoming(seq) ==
    /\ ~looping /\ ~Ahead(seq)
    /\ \E kept \in Kept(seq) :
          /\ ~(held # {} /\ kept = {})
          /\ held' = kept \union {seq}
    /\ age' = [age EXCEPT ![seq] = 0]
    /\ wndStartSeq' = WindowStart(seq)
    /\ maxArrivalSeq' = Greatest(maxArrivalSeq, seq)
    /\ reported' = reported \ {seq}
    /\ UNCHANGED looping

(* The loop erases all there is and does not return.                       *)
IncomingLoops(seq) ==
    /\ ~looping /\ ~Ahead(seq)
    /\ held # {} /\ {} \in Kept(seq)
    /\ held' = {}
    /\ looping' = TRUE
    /\ UNCHANGED <<age, wndStartSeq, maxArrivalSeq, reported>>

-----------------------------------------------------------------------------
(* procProxyHeartbeat.  heartBeatTs stays -1, so every heartbeat is due,   *)
(* whatever interval onBitrateChange computes; it does not appear.         *)

(* __buildFeedbackMsg: an arrival takes two of the message's samples, one  *)
(* for its number and one for its time.                                    *)
Pending == { s \in held : s >= wndStartSeq }

(* Mutant of Full: the samples are counted before the last was added.      *)
FullAfter(n) == 2 * n > MaxFeedback

Full(n) == 2 * n >= MaxFeedback

Batch ==
    { s \in Pending : ~Full(Cardinality({ t \in Pending : t < s })) }

NextStart == IF Cardinality(Batch) > 1 THEN Max(Batch) + 1 ELSE wndStartSeq

Nothing == maxArrivalSeq <= wndStartSeq /\ Cardinality(held) > 2

Feedback ==
    /\ ~Nothing
    /\ reported' = reported \union Batch
    /\ wndStartSeq' = NextStart
    /\ UNCHANGED <<held, age, maxArrivalSeq, looping>>

ProxyClock ==
    /\ age' = [s \in Seqs |-> IF s \in held THEN Least(age[s] + 1, BackWindow) ELSE 0]
    /\ UNCHANGED <<held, wndStartSeq, maxArrivalSeq, looping, reported>>

-----------------------------------------------------------------------------
(* A batch never writes past the samples of its message, whose number is   *)
(* compared only after an arrival took its two (__buildFeedbackMsg).       *)
SamplesFit == 2 * Cardinality(Batch) <= MaxFeedback

(* Although late arrivals move the window back and full batches cut it     *)
(* short, no step passes over an arrival that was not fed back, save one:  *)
(* a window that stands at 0 is taken for unset, and the next arrival      *)
(* moves it past all that is held (incoming, __buildFeedbackMsg).          *)
PassedOver == { s \in held : s < wndStartSeq /\ s \notin reported }

PassedOverOnlyAtZero ==
    [][ \/ PassedOver' \subseteq PassedOver
        \/ wndStartSeq = 0 /\ \E seq \in Seqs : Incoming(seq) ]_proxyVars

(* Wherever the broken iteration ends up, nothing that is still to be fed  *)
(* back is released, save the arrival the window begins with (incoming).   *)
PendingIsKept ==
    [][ Pending \ held' \subseteq {wndStartSeq} ]_proxyVars

=============================================================================
