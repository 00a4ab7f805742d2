----------------------------- MODULE BitrateProofs -----------------------------
(***************************************************************************)
(* The rate and its pacer for every limit, clock and loss: the pacer       *)
(* follows the estimate, the estimate keeps its caps, one report is        *)
(* answered with one cut at most, and the rate does not compound.          *)
(***************************************************************************)
EXTENDS BitrateController, SequenceTheorems, WellFoundedInduction, TLAPS

-----------------------------------------------------------------------------
(* The greatest and the least number of a set that has one.                *)
LEMMA MaxIs ==
    ASSUME NEW S, S \subseteq Int, NEW m \in S, \A x \in S : m >= x
    PROVE  Max(S) = m
<1>1. \E y \in S : \A x \in S : y >= x
  OBVIOUS
<1>2. Max(S) \in S /\ \A x \in S : Max(S) >= x
  BY <1>1, Zenon DEF Max
<1>3. Max(S) \in Int /\ m \in Int /\ Max(S) >= m /\ m >= Max(S)
  BY <1>2
<1> QED BY <1>3

LEMMA MinIs ==
    ASSUME NEW S, S \subseteq Int, NEW m \in S, \A x \in S : m <= x
    PROVE  Min(S) = m
<1>1. \E y \in S : \A x \in S : y <= x
  OBVIOUS
<1>2. Min(S) \in S /\ \A x \in S : Min(S) <= x
  BY <1>1, Zenon DEF Min
<1>3. Min(S) \in Int /\ m \in Int /\ Min(S) <= m /\ m <= Min(S)
  BY <1>2
<1> QED BY <1>3

-----------------------------------------------------------------------------
(* The pacer.  What it was last given is what the controller last told,    *)
(* and once it was given anything, that is the estimate.                   *)
PacerInv == pacer # None => pacer = told.bitrate /\ told = Parameter(est)

(* A notification of the last estimate, or none because nothing changed.   *)
LEMMA OneIsTold ==
    ASSUME PacerInv, NEW e, est' = e, Trigger(<<e>>)
    PROVE  PacerInv'
<1> DEFINE es == <<e>>
           changed == { i \in DOMAIN es :
                Changed(es[i], IF i = 1 THEN told ELSE Parameter(es[i - 1])) }
<1>1. DOMAIN es = {1} /\ es[1] = e
  OBVIOUS
<1>2. reserved' = reserved
  BY DEF Trigger
<1>3. CASE Parameter(e) # told
  <2>1. changed = {1}
    BY <1>1, <1>3 DEF Changed
  <2>2. Max(changed) = 1
    BY <2>1 DEF Max
  <2>3. told' = Parameter(e) /\ pacer' = Parameter(e).bitrate
    BY <1>1, <2>1, <2>2 DEF Trigger
  <2> QED BY <1>2, <2>3 DEF PacerInv, Parameter
<1>4. CASE Parameter(e) = told
  <2>1. changed = {}
    BY <1>1, <1>4 DEF Changed
  <2>2. told' = told /\ pacer' = pacer
    BY <2>1 DEF Trigger
  <2> QED BY <1>2, <1>4, <2>2 DEF PacerInv, Parameter
<1> QED BY <1>3, <1>4

(* Two notifications in a row: the last change is what counts.             *)
LEMMA TwoAreTold ==
    ASSUME PacerInv, NEW d, NEW e, est' = e, Trigger(<<d, e>>)
    PROVE  PacerInv'
<1> DEFINE es == <<d, e>>
           changed == { i \in DOMAIN es :
                Changed(es[i], IF i = 1 THEN told ELSE Parameter(es[i - 1])) }
<1>1. DOMAIN es = {1, 2} /\ es[1] = d /\ es[2] = e
  OBVIOUS
<1>2. reserved' = reserved
  BY DEF Trigger
<1>3. /\ 1 \in changed <=> Parameter(d) # told
      /\ 2 \in changed <=> Parameter(e) # Parameter(d)
      /\ changed \subseteq {1, 2}
  BY <1>1 DEF Changed
<1> HIDE DEF changed
<1>4. Trigger(es) <=>
          /\ told' = IF changed = {} THEN told ELSE Parameter(es[Max(changed)])
          /\ pacer' = IF changed = {} THEN pacer
                      ELSE Parameter(es[Max(changed)]).bitrate
          /\ notifyTs' = now
          /\ UNCHANGED reserved
  BY DEF Trigger, changed
<1> HIDE DEF es
<1>5. Trigger(es)
  BY DEF es
<1>6. CASE 2 \in changed
  <2>1. changed \subseteq Int /\ \A x \in changed : 2 >= x
    BY <1>3
  <2>2. Max(changed) = 2
    BY <1>6, <2>1, MaxIs
  <2>3. told' = Parameter(e) /\ pacer' = Parameter(e).bitrate
    BY <1>1, <1>4, <1>5, <1>6, <2>2
  <2> QED BY <1>2, <2>3 DEF PacerInv, Parameter
<1>7. CASE 2 \notin changed /\ 1 \in changed
  <2>1. changed = {1}
    BY <1>3, <1>7
  <2>2. Max(changed) = 1
    BY <2>1 DEF Max
  <2>3. told' = Parameter(d) /\ pacer' = Parameter(d).bitrate
    BY <1>1, <1>4, <1>5, <1>7, <2>2
  <2>4. Parameter(e) = Parameter(d)
    BY <1>3, <1>7
  <2> QED BY <1>2, <2>3, <2>4 DEF PacerInv, Parameter
<1>8. CASE 2 \notin changed /\ 1 \notin changed
  <2>1. changed = {}
    BY <1>3, <1>8
  <2>2. told' = told /\ pacer' = pacer
    BY <1>4, <1>5, <2>1
  <2>3. Parameter(e) = told
    BY <1>3, <1>8
  <2> QED BY <1>2, <2>2, <2>3 DEF PacerInv, Parameter
<1> QED BY <1>6, <1>7, <1>8

LEMMA PacerStep == PacerInv /\ [Next]_vars => PacerInv'
<1> SUFFICES ASSUME PacerInv, [Next]_vars
             PROVE  PacerInv'
  OBVIOUS
<1>1. ASSUME NEW acked \in AckedRates, ProcBitrateHeartbeat(acked)
      PROVE  PacerInv'
  <2>1. CASE Changed(est', told)
    BY <1>1, <2>1, OneIsTold DEF ProcBitrateHeartbeat
  <2>2. CASE ~Changed(est', told)
    <3>1. told' = told /\ reserved' = reserved
      BY <1>1, <2>2 DEF ProcBitrateHeartbeat
    <3>2. Parameter(est') = told
      BY <2>2 DEF Changed
    <3>3. (Parameter(est))' = Parameter(est')
      BY <3>1 DEF Parameter
    <3>4. pacer' = Parameter(est').bitrate \/ pacer' = pacer
      BY <1>1, <2>2 DEF ProcBitrateHeartbeat
    <3> QED BY <3>1, <3>2, <3>3, <3>4 DEF PacerInv
  <2> QED BY <2>1, <2>2
<1>2. ASSUME NEW bitrate, NEW over, OnDelayBasedResult(bitrate, over)
      PROVE  PacerInv'
  BY <1>2, OneIsTold DEF OnDelayBasedResult
<1>3. ASSUME NEW fraction, NEW packets, NEW rtt, NEW steady, NEW acked,
             OnLossInfoResult(fraction, packets, rtt, steady, acked)
      PROVE  PacerInv'
  BY <1>3, OneIsTold DEF OnLossInfoResult
<1>4. ASSUME NEW bitrate, NEW over, NEW fraction, NEW packets, NEW rtt,
             NEW steady, NEW acked,
             OnBothResults(bitrate, over, fraction, packets, rtt, steady, acked)
      PROVE  PacerInv'
  BY <1>4, TwoAreTold DEF OnBothResults
<1>5. CASE Clock \/ UNCHANGED vars
  BY <1>5 DEF PacerInv, Parameter, Clock, vars, ctlVars
<1> QED BY <1>1, <1>2, <1>3, <1>4, <1>5 DEF Next, ProcessFeedback

(* The pacer works with the rate of the estimate, less what is reserved,   *)
(* from the first time it hears of one, for every order of feedback and    *)
(* heartbeats (PacerFollows).                                              *)
THEOREM PacerIsTold == Spec => []PacerFollows
<1>1. Init => PacerInv
  BY DEF Init, PacerInv, None
<1>2. PacerInv => PacerFollows
  BY DEF PacerInv, PacerFollows
<1> QED BY <1>1, <1>2, PacerStep, PTL DEF Spec

-----------------------------------------------------------------------------
(* Numbers that have a greatest and a least one.                           *)
LEMMA MaxOfThree ==
    ASSUME NEW a \in Nat, NEW b \in Nat, NEW c \in Nat
    PROVE  /\ Max({a, b, c}) \in {a, b, c}
           /\ Max({a, b, c}) >= a /\ Max({a, b, c}) >= b /\ Max({a, b, c}) >= c
<1>1. PICK m \in {a, b, c} : \A x \in {a, b, c} : m >= x
  <2>1. (a >= b /\ a >= c) \/ (b >= a /\ b >= c) \/ (c >= a /\ c >= b)
    OBVIOUS
  <2> QED BY <2>1
<1>2. Max({a, b, c}) = m
  BY <1>1, MaxIs
<1> QED BY <1>1, <1>2

LEMMA MinOfFour ==
    ASSUME NEW a \in Nat, NEW b \in Nat, NEW c \in Nat, NEW d \in Nat
    PROVE  /\ Min({a, b, c, d}) \in {a, b, c, d}
           /\ \A x \in {a, b, c, d} : Min({a, b, c, d}) <= x
<1>1. PICK m \in {a, b, c, d} : \A x \in {a, b, c, d} : m <= x
  <2>1. PICK l \in {a, b} : l <= a /\ l <= b
    OBVIOUS
  <2>2. PICK r \in {c, d} : r <= c /\ r <= d
    OBVIOUS
  <2>3. l <= r \/ r <= l
    BY <2>1, <2>2
  <2> QED BY <2>1, <2>2, <2>3
<1>2. Min({a, b, c, d}) = m
  BY <1>1, MinIs
<1> QED BY <1>1, <1>2

(* Positions of a sequence, and 0, have both.                              *)
LEMMA LeastIs ==
    ASSUME NEW n \in Nat, NEW S, S \subseteq 0 .. n, S # {}
    PROVE  \E low \in S : \A x \in S : low <= x
<1> DEFINE less == OpToRel(<, Nat)
<1>1. \A x, y \in Nat : <<x, y>> \in less <=> x < y
  BY DEF OpToRel
<1>2. IsWellFoundedOn(less, Nat)
  BY NatLessThanWellFounded
<1> HIDE DEF less
<1>3. PICK low \in S : \A y \in S : ~(<<y, low>> \in less)
  <2>1. S \subseteq Nat
    OBVIOUS
  <2> QED BY <1>2, <2>1, WFMin
<1>4. \A x \in S : x \in Nat
  OBVIOUS
<1>5. \A x \in S : ~(x < low)
  BY <1>1, <1>3, <1>4
<1>6. \A x \in S : low <= x
  BY <1>4, <1>5
<1> QED BY <1>6

LEMMA GreatestIs ==
    ASSUME NEW n \in Nat, NEW S, S \subseteq 0 .. n, S # {}
    PROVE  \E high \in S : \A x \in S : high >= x
<1> DEFINE T == { i \in 0 .. n : n - i \in S }
<1>1. \A s \in S : n - s \in 0 .. n /\ n - (n - s) = s
  OBVIOUS
<1>2. T \subseteq 0 .. n /\ T # {}
  <2>1. PICK s \in S : TRUE
    OBVIOUS
  <2>2. n - s \in T
    BY <1>1
  <2> QED BY <2>2
<1>3. PICK t \in T : \A y \in T : t <= y
  <2> HIDE DEF T
  <2> QED BY <1>2, LeastIs
<1>4. t \in 0 .. n /\ n - t \in S
  OBVIOUS
<1>5. ASSUME NEW x \in S
      PROVE  n - t >= x
  <2>1. n - x \in T /\ x \in 0 .. n
    BY <1>1
  <2>2. t <= n - x
    BY <1>3, <2>1
  <2> HIDE DEF T
  <2> QED BY <1>4, <2>1, <2>2
<1> QED BY <1>4, <1>5

LEMMA Extremes ==
    ASSUME NEW n \in Nat, NEW S, S \subseteq 0 .. n, S # {}
    PROVE  Max(S) \in S /\ Min(S) \in S
<1>1. S \subseteq Int
  OBVIOUS
<1>2. Max(S) \in S
  BY <1>1, GreatestIs, MaxIs
<1>3. Min(S) \in S
  BY <1>1, LeastIs, MinIs
<1> QED BY <1>2, <1>3

-----------------------------------------------------------------------------
(* The estimate: what its fields hold, and when its rate is within limits. *)
Entries == [ts : Int, bitrate : Nat]

Estimates ==
    [currBitrate : Nat, delayBaseBitrate : Nat, bweIncoming : Nat,
     overusing : BOOLEAN, steady : BOOLEAN, lastFractionLoss : 0 .. 255,
     lostQ8 : Nat, expected : Nat, hasDecreased : BOOLEAN,
     lastDecreaseTs : Int, lastRtt : Nat, firstReportTs : Int,
     lastPacketReportTs : Int, lastFeedbackTs : Int, lastTimeoutTs : Int,
     minBitrates : Seq(Entries)]

Within(e) ==
    /\ MinConf <= e.currBitrate /\ e.currBitrate <= MaxConf
    /\ \A cap \in {e.delayBaseBitrate, e.bweIncoming} \ {0} :
          e.currBitrate <= Max({MinConf, cap})

(* Assignments of the right types leave an estimate one.                   *)
LEMMA HeardIsEstimate ==
    ASSUME NEW e \in Estimates, NEW last \in Int, NEW first \in Int,
           NEW trip \in Nat, NEW lost \in Nat, NEW all \in Nat
    PROVE  [e EXCEPT !.lastFeedbackTs = last, !.firstReportTs = first,
                     !.lastRtt = trip, !.lostQ8 = lost, !.expected = all]
             \in Estimates
  BY DEF Estimates

LEMMA ReportedIsEstimate ==
    ASSUME NEW e \in Estimates, NEW loss \in 0 .. 255, NEW noise \in BOOLEAN,
           NEW last \in Int
    PROVE  [e EXCEPT !.hasDecreased = FALSE, !.lastFractionLoss = loss,
                     !.lostQ8 = 0, !.expected = 0, !.steady = noise,
                     !.lastPacketReportTs = last]
             \in Estimates
  BY DEF Estimates

(* The clock as updateEstimation and __updateMinHistory take it.           *)
LEMMA Clocks ==
    ASSUME now \in Nat
    PROVE  Now32 \in Nat /\ NowSigned \in Int
<1>1. now % Word \in Nat
  BY EstimationAssumption
<1>2. Word \div 2 \in Int
  BY EstimationAssumption
<1> QED BY <1>1, <1>2, EstimationAssumption DEF Now32, NowSigned

LEMMA ClocksNext ==
    ASSUME now' \in Nat
    PROVE  NowSigned' \in Int
<1>1. \A n \in Nat : n % Word \in Nat
  BY EstimationAssumption
<1>2. now' % Word \in Nat
  BY <1>1
<1>3. Word \div 2 \in Int
  BY EstimationAssumption
<1> QED BY <1>2, <1>3, EstimationAssumption DEF Now32, NowSigned

(* Capping an estimate brings its rate within limits and changes no more.  *)
LEMMA CappedIsWithin ==
    ASSUME NEW e \in Estimates, NEW b \in Nat
    PROVE  /\ Capped(e, b) \in Estimates
           /\ Within(Capped(e, b))
           /\ Capped(e, b).hasDecreased = e.hasDecreased
           /\ Capped(e, b).lastFractionLoss = e.lastFractionLoss
           /\ Capped(e, b).minBitrates = e.minBitrates
           /\ Capped(e, b).firstReportTs = e.firstReportTs
           /\ Capped(e, b).currBitrate <= b \/ Capped(e, b).currBitrate = MinConf
<1> DEFINE delay == IF e.delayBaseBitrate = 0 THEN MaxConf ELSE e.delayBaseBitrate
           remb == IF e.bweIncoming = 0 THEN MaxConf ELSE e.bweIncoming
           least == Min({b, MaxConf, delay, remb})
           rate == Max({MinConf, least, least})
           capped == [e EXCEPT !.currBitrate = rate]
<1>1. MinConf \in Nat /\ MaxConf \in Nat /\ MinConf <= MaxConf
  BY EstimationAssumption
<1>2. delay \in Nat /\ remb \in Nat
  BY <1>1 DEF Estimates
<1>3. least \in Nat /\ least <= MaxConf /\ least <= delay /\ least <= remb /\ least <= b
  BY <1>1, <1>2, MinOfFour
<1>4. rate \in {MinConf, least} /\ rate \in Nat /\ MinConf <= rate
  <2> HIDE DEF least
  <2>1. rate \in {MinConf, least} /\ rate >= MinConf
    BY <1>1, <1>3, MaxOfThree
  <2> HIDE DEF rate
  <2> QED BY <1>1, <1>3, <2>1
<1>5. Capped(e, b) = capped
  <2>1. {b} \union Caps(e) = {b, MaxConf, delay, remb}
    BY DEF Caps
  <2>2. {MinConf, least, least} = {MinConf, least}
    OBVIOUS
  <2> QED BY <2>1, <2>2 DEF Capped
<1> HIDE DEF rate, least
<1>6. capped \in Estimates /\ capped.currBitrate = rate
      /\ capped.hasDecreased = e.hasDecreased
      /\ capped.delayBaseBitrate = e.delayBaseBitrate
      /\ capped.bweIncoming = e.bweIncoming
      /\ capped.lastFractionLoss = e.lastFractionLoss
      /\ capped.minBitrates = e.minBitrates
      /\ capped.firstReportTs = e.firstReportTs
  BY <1>4 DEF Estimates
<1>7. Within(capped)
  <2>1. MinConf <= rate /\ rate <= MaxConf
    BY <1>1, <1>3, <1>4
  <2>2. ASSUME NEW cap \in {e.delayBaseBitrate, e.bweIncoming} \ {0}
        PROVE  rate <= Max({MinConf, cap})
    <3>1. cap \in Nat /\ least <= cap
      BY <1>3 DEF Estimates
    <3>2. Max({MinConf, cap, cap}) >= MinConf /\ Max({MinConf, cap, cap}) >= cap
          /\ Max({MinConf, cap, cap}) \in {MinConf, cap}
      BY <1>1, <3>1, MaxOfThree
    <3>3. {MinConf, cap, cap} = {MinConf, cap}
      OBVIOUS
    <3> QED BY <1>1, <1>3, <1>4, <3>1, <3>2, <3>3
  <2> QED BY <1>6, <2>1, <2>2 DEF Within
<1>8. rate <= b \/ rate = MinConf
  BY <1>3, <1>4
<1> HIDE DEF capped
<1> QED BY <1>5, <1>6, <1>7, <1>8

(* The history stays one of entries, and after an update it is not empty.  *)
LEMMA HistoryIsKept ==
    ASSUME NEW h \in Seq(Entries), NEW b \in Nat, now \in Nat
    PROVE  /\ UpdateMinHistory(h, b) \in Seq(Entries)
           /\ Head(UpdateMinHistory(h, b)).bitrate \in Nat
<1>1. Recent(h) \in Seq(Entries)
  <2> DEFINE kept == { i \in DOMAIN h : h[i].ts + IncreaseInterval >= NowSigned }
  <2>1. CASE kept = {}
    BY <2>1 DEF Recent
  <2>2. CASE kept # {}
    <3>1. kept \subseteq 0 .. Len(h) /\ Len(h) \in Nat /\ kept \subseteq 1 .. Len(h)
      OBVIOUS
    <3>2. Min(kept) \in 1 .. Len(h)
      BY <2>2, <3>1, Extremes
    <3>3. \A i \in Min(kept) .. Len(h) : h[i] \in Entries
      BY <3>2
    <3> HIDE DEF kept
    <3>4. SubSeq(h, Min(kept), Len(h)) \in Seq(Entries)
      BY <3>1, <3>2, <3>3, SubSeqProperties
    <3> QED BY <2>2, <3>4 DEF Recent, kept
  <2> QED BY <2>1, <2>2
<1>2. ASSUME NEW r \in Seq(Entries)
      PROVE  Lower(r, b) \in Seq(Entries)
  <2> DEFINE below == {0} \union { i \in DOMAIN r : r[i].bitrate < b }
  <2>1. below \subseteq 0 .. Len(r) /\ below # {} /\ Len(r) \in Nat
    OBVIOUS
  <2>2. Max(below) \in 0 .. Len(r)
    BY <2>1, Extremes
  <2>3. \A i \in 1 .. Max(below) : r[i] \in Entries
    BY <2>2
  <2> HIDE DEF below
  <2>4. SubSeq(r, 1, Max(below)) \in Seq(Entries)
    BY <2>2, <2>3, SubSeqProperties
  <2> QED BY <2>4 DEF Lower, below
<1> DEFINE l == Lower(Recent(h), b)
           room == IF Len(l) = Slots THEN Tail(l) ELSE l
           entry == [ts |-> NowSigned, bitrate |-> b]
<1>3. l \in Seq(Entries)
  BY <1>1, <1>2
<1> HIDE DEF l
<1>4. room \in Seq(Entries)
  <2>1. CASE Len(l) = Slots
    BY <1>3, <2>1, EstimationAssumption, HeadTailProperties
  <2> QED BY <1>3, <2>1
<1>5. entry \in Entries
  BY Clocks DEF Entries
<1> HIDE DEF room, entry
<1>6. /\ Append(room, entry) \in Seq(Entries)
      /\ Append(room, entry) # <<>>
  BY <1>4, <1>5, AppendProperties
<1>7. Head(Append(room, entry)) \in Entries
  BY <1>6, HeadTailProperties
<1>8. UpdateMinHistory(h, b) = Append(room, entry)
  BY DEF UpdateMinHistory, l, room, entry
<1> QED BY <1>6, <1>7, <1>8 DEF Entries

-----------------------------------------------------------------------------
(* What the operations on the estimate do.                                 *)
LEMMA DelayIsHeard ==
    ASSUME NEW e \in Estimates, NEW b \in Nat, NEW over \in BOOLEAN
    PROVE  /\ UpdateDelayBase(e, b, over) \in Estimates
           /\ Within(UpdateDelayBase(e, b, over))
           /\ UpdateDelayBase(e, b, over).hasDecreased = e.hasDecreased
           /\ UpdateDelayBase(e, b, over).minBitrates = e.minBitrates
           /\ UpdateDelayBase(e, b, over).firstReportTs = e.firstReportTs
           /\ UpdateDelayBase(e, b, over).currBitrate <= e.currBitrate
                \/ UpdateDelayBase(e, b, over).currBitrate = MinConf
<1> DEFINE f == [e EXCEPT !.delayBaseBitrate = b, !.overusing = over]
<1>1. /\ f \in Estimates /\ f.hasDecreased = e.hasDecreased /\ e.currBitrate \in Nat
      /\ f.minBitrates = e.minBitrates /\ f.firstReportTs = e.firstReportTs
  BY DEF Estimates
<1>2. UpdateDelayBase(e, b, over) = Capped(f, e.currBitrate)
  BY DEF UpdateDelayBase
<1> DEFINE g == Capped(f, e.currBitrate)
<1> HIDE DEF f
<1>3. /\ g \in Estimates /\ Within(g) /\ g.hasDecreased = f.hasDecreased
      /\ g.minBitrates = f.minBitrates /\ g.firstReportTs = f.firstReportTs
      /\ g.currBitrate <= e.currBitrate \/ g.currBitrate = MinConf
  BY <1>1, CappedIsWithin
<1> HIDE DEF g
<1>4. UpdateDelayBase(e, b, over) = g
  BY <1>2 DEF g
<1> QED BY ONLY <1>1, <1>3, <1>4

LEMMA ReportIsHeard ==
    ASSUME NEW e \in Estimates, NEW fraction \in Nat, NEW packets \in Nat,
           NEW rtt \in Nat, NEW steady \in BOOLEAN, now \in Nat
    PROVE  LET u == UpdateReceiverBlock(e, fraction, packets, rtt, steady)
           IN  /\ u \in Estimates
               /\ u.currBitrate = e.currBitrate
               /\ u.delayBaseBitrate = e.delayBaseBitrate
               /\ u.bweIncoming = e.bweIncoming
               /\ ~Completes(e, packets) => u.hasDecreased = e.hasDecreased
               /\ u.minBitrates = e.minBitrates
               /\ u.firstReportTs = IF e.firstReportTs = None THEN now
                                    ELSE e.firstReportTs
<1> DEFINE h == Heard(e, fraction, packets, rtt)
           r == Reported(h, steady)
<1>1. e.lostQ8 + fraction * packets \in Nat /\ e.expected + packets \in Nat
  <2> DEFINE lost == fraction * packets
  <2>1. lost \in Nat
    OBVIOUS
  <2>2. e.lostQ8 \in Nat /\ e.expected \in Nat
    BY DEF Estimates
  <2> HIDE DEF lost
  <2>3. e.lostQ8 + lost \in Nat
    BY <2>1, <2>2
  <2> QED BY <2>2, <2>3 DEF lost
<1>2. /\ h \in Estimates /\ h.hasDecreased = e.hasDecreased
      /\ h.currBitrate = e.currBitrate
      /\ h.delayBaseBitrate = e.delayBaseBitrate
      /\ h.bweIncoming = e.bweIncoming
      /\ h.expected = e.expected + packets
      /\ h.minBitrates = e.minBitrates
      /\ h.firstReportTs = IF e.firstReportTs = None THEN now ELSE e.firstReportTs
  <2> DEFINE first == IF e.firstReportTs = None THEN now ELSE e.firstReportTs
             trip == IF rtt > 0 THEN rtt ELSE e.lastRtt
             lost == e.lostQ8 + fraction * packets
             all == e.expected + packets
  <2>1. first \in Int /\ trip \in Nat /\ now \in Int
    BY DEF Estimates
  <2>2. h = [e EXCEPT !.lastFeedbackTs = now, !.firstReportTs = first,
                      !.lastRtt = trip, !.lostQ8 = lost, !.expected = all]
    BY DEF Heard, Estimates
  <2> HIDE DEF h, first, trip, lost, all
  <2>3. lost \in Nat /\ all \in Nat
    BY <1>1 DEF lost, all
  <2>4. h.expected = all
    BY <2>2 DEF Estimates
  <2>5. h \in Estimates
    <3>1. [e EXCEPT !.lastFeedbackTs = now, !.firstReportTs = first,
                    !.lastRtt = trip, !.lostQ8 = lost, !.expected = all]
             \in Estimates
      BY <2>1, <2>3, HeardIsEstimate
    <3> QED BY <2>2, <3>1
  <2>6. /\ h.hasDecreased = e.hasDecreased /\ h.currBitrate = e.currBitrate
        /\ h.delayBaseBitrate = e.delayBaseBitrate
        /\ h.bweIncoming = e.bweIncoming
        /\ h.minBitrates = e.minBitrates /\ h.firstReportTs = first
    BY <2>2 DEF Estimates
  <2> QED BY <2>4, <2>5, <2>6 DEF all, first
<1> HIDE DEF h
<1>3. ASSUME Completes(e, packets)
      PROVE  /\ r \in Estimates
             /\ r.currBitrate = e.currBitrate
             /\ r.delayBaseBitrate = e.delayBaseBitrate
             /\ r.bweIncoming = e.bweIncoming
             /\ r.minBitrates = e.minBitrates
             /\ r.firstReportTs = h.firstReportTs
  <2>1. h.expected \in Nat \ {0} /\ h.lostQ8 \in Nat
    BY <1>1, <1>2, <1>3, EstimationAssumption DEF Completes, Estimates
  <2>2. h.lostQ8 \div h.expected \in Int
    BY <2>1
  <2>3. (h.lostQ8 \div h.expected) % 256 \in 0 .. 255
    BY <2>2
  <2>4. Fraction(h.lostQ8, h.expected) \in 0 .. 255
    BY <2>3 DEF Fraction
  <2> DEFINE loss == Fraction(h.lostQ8, h.expected)
             noise == IF h.lastPacketReportTs = None THEN h.steady ELSE steady
  <2>5. loss \in 0 .. 255 /\ noise \in BOOLEAN /\ now \in Int
    <3>1. h.steady \in BOOLEAN
      BY <1>2 DEF Estimates
    <3>2. noise \in BOOLEAN
      BY <3>1, Zenon
    <3> HIDE DEF noise, loss
    <3>3. now \in Int
      OBVIOUS
    <3> QED BY <2>4, <3>2, <3>3 DEF loss
  <2>6. r = [h EXCEPT !.hasDecreased = FALSE, !.lastFractionLoss = loss,
                      !.lostQ8 = 0, !.expected = 0, !.steady = noise,
                      !.lastPacketReportTs = now]
    BY <1>2 DEF Reported, Estimates
  <2> HIDE DEF loss, noise, r
  <2>7. h \in Estimates
    BY <1>2
  <2>8. r \in Estimates
    <3>1. [h EXCEPT !.hasDecreased = FALSE, !.lastFractionLoss = loss,
                    !.lostQ8 = 0, !.expected = 0, !.steady = noise,
                    !.lastPacketReportTs = now]
             \in Estimates
      BY <2>5, <2>7, ReportedIsEstimate
    <3> QED BY <2>6, <3>1
  <2>9. /\ r.currBitrate = h.currBitrate
        /\ r.delayBaseBitrate = h.delayBaseBitrate
        /\ r.bweIncoming = h.bweIncoming
        /\ r.minBitrates = h.minBitrates
        /\ r.firstReportTs = h.firstReportTs
    BY <2>6, <2>7 DEF Estimates
  <2> QED BY <1>2, <2>8, <2>9
<1> HIDE DEF r
<1>4. UpdateReceiverBlock(e, fraction, packets, rtt, steady)
          = IF Completes(e, packets) THEN r ELSE h
  BY DEF UpdateReceiverBlock, h, r
<1> QED BY <1>2, <1>3, <1>4

(* A cut ends at a number, which is above the rate only if it is the       *)
(* acknowledged one.                                                       *)
LEMMA ReducedIsNat ==
    ASSUME NEW e \in Estimates, NEW acked \in Nat
    PROVE  /\ Reduced(e, acked) \in Nat
           /\ Reduced(e, acked) = acked \/ Reduced(e, acked) <= e.currBitrate
<1> DEFINE less == (e.currBitrate * (512 - e.lastFractionLoss)) \div 512
<1>1. less \in Nat /\ less <= e.currBitrate
  <2> DEFINE c == e.currBitrate
             l == e.lastFractionLoss
  <2>1. c \in Nat /\ l \in 0 .. 255
    BY DEF Estimates
  <2> HIDE DEF c, l
  <2>2. c * l \in Nat /\ c * (512 - l) = 512 * c - c * l
    BY <2>1
  <2>3. c * (512 - l) \in Nat
    <3>1. 512 - l \in Nat
      BY <2>1
    <3> QED BY <2>1, <3>1
  <2>4. c * (512 - l) <= 512 * c
    BY <2>1, <2>2
  <2> DEFINE p == c * (512 - l)
  <2> HIDE DEF p
  <2>5. p \div 512 \in Nat /\ p \div 512 <= c
    BY <2>1, <2>3, <2>4 DEF p
  <2> QED BY <2>5 DEF c, l, p
<1> HIDE DEF less
<1>2. Max({acked, less, less}) \in {acked, less}
  BY <1>1, MaxOfThree
<1>3. {acked, less, less} = {acked, less}
  OBVIOUS
<1> QED BY <1>1, <1>2, <1>3 DEF Reduced, less

(* A new estimate is within its limits, and a cut is remembered until the  *)
(* next report.                                                            *)
LEMMA LossIsControlled ==
    ASSUME NEW e \in Estimates, NEW acked \in Nat,
           Head(e.minBitrates).bitrate \in Nat
    PROVE  /\ LossControl(e, acked) \in Estimates
           /\ Within(LossControl(e, acked))
           /\ LossControl(e, acked).hasDecreased = (e.hasDecreased \/ Cuts(e))
<1>1. CASE Grows(e)
  <2> DEFINE b == Head(e.minBitrates).bitrate
  <2>1. (108 * b + 50 + 100 * Step) \in Nat
    BY EstimationAssumption
  <2>2. Grown(b) \in Nat
    BY <2>1 DEF Grown
  <2>3. LossControl(e, acked) = Capped(e, Grown(b)) /\ ~Cuts(e)
    BY <1>1 DEF LossControl, Cuts
  <2>4. e.hasDecreased \in BOOLEAN
    BY DEF Estimates
  <2> DEFINE c == Capped(e, Grown(b))
  <2>5. c \in Estimates /\ Within(c) /\ c.hasDecreased = e.hasDecreased
    BY <2>2, CappedIsWithin
  <2> HIDE DEF b, c
  <2>6. (e.hasDecreased \/ Cuts(e)) = e.hasDecreased
    BY ONLY <2>3, <2>4
  <2> QED BY ONLY <2>3, <2>5, <2>6 DEF c
<1>2. CASE ~Grows(e) /\ Cuts(e)
  <2> DEFINE f == [e EXCEPT !.hasDecreased = TRUE]
  <2>1. f \in Estimates /\ f.hasDecreased = TRUE
    BY DEF Estimates
  <2> HIDE DEF f
  <2>2. Reduced(e, acked) \in Nat
    BY ReducedIsNat
  <2>3. LossControl(e, acked) = Capped(f, Reduced(e, acked))
    BY <1>2 DEF LossControl, f
  <2> DEFINE c == Capped(f, Reduced(e, acked))
  <2>4. c \in Estimates /\ Within(c) /\ c.hasDecreased = f.hasDecreased
    BY <2>1, <2>2, CappedIsWithin
  <2> HIDE DEF c
  <2>5. (e.hasDecreased \/ Cuts(e)) = f.hasDecreased
    BY ONLY <1>2, <2>1
  <2> QED BY ONLY <2>3, <2>4, <2>5 DEF c
<1>3. CASE ~Grows(e) /\ ~Cuts(e)
  <2>1. LossControl(e, acked) = Capped(e, e.currBitrate)
    BY <1>3 DEF LossControl
  <2>2. e.currBitrate \in Nat /\ e.hasDecreased \in BOOLEAN
    BY DEF Estimates
  <2> DEFINE c == Capped(e, e.currBitrate)
  <2>3. c \in Estimates /\ Within(c) /\ c.hasDecreased = e.hasDecreased
    BY <2>2, CappedIsWithin
  <2> HIDE DEF c
  <2>4. (e.hasDecreased \/ Cuts(e)) = e.hasDecreased
    BY ONLY <1>3, <2>2
  <2> QED BY ONLY <2>1, <2>3, <2>4 DEF c
<1> QED BY <1>1, <1>2, <1>3

LEMMA EstimateIsUpdated ==
    ASSUME NEW e \in Estimates, NEW acked \in Nat, now \in Nat
    PROVE  LET u == UpdateEstimation(e, acked)
           IN  /\ u \in Estimates
               /\ Within(u)
               /\ e.hasDecreased => u.hasDecreased
               /\ e.lastPacketReportTs # None /\ ReportIsFresh(e) /\ Cuts(e)
                      => u.hasDecreased
<1> DEFINE u == UpdateEstimation(e, acked)
           f == [e EXCEPT !.minBitrates = UpdateMinHistory(@, e.currBitrate)]
<1>1. e.currBitrate \in Nat /\ e.minBitrates \in Seq(Entries)
  BY DEF Estimates
<1>2. /\ UpdateMinHistory(e.minBitrates, e.currBitrate) \in Seq(Entries)
      /\ Head(UpdateMinHistory(e.minBitrates, e.currBitrate)).bitrate \in Nat
  BY <1>1, HistoryIsKept
<1>3. /\ f \in Estimates /\ Head(f.minBitrates).bitrate \in Nat
      /\ f.hasDecreased = e.hasDecreased /\ f.currBitrate = e.currBitrate
      /\ f.lastPacketReportTs = e.lastPacketReportTs
      /\ f.lastFractionLoss = e.lastFractionLoss /\ f.steady = e.steady
      /\ f.overusing = e.overusing /\ f.lastDecreaseTs = e.lastDecreaseTs
      /\ f.lastRtt = e.lastRtt
  BY <1>2 DEF Estimates
<1> HIDE DEF f
<1>4. (ReportIsFresh(f) <=> ReportIsFresh(e)) /\ (Cuts(f) <=> Cuts(e))
  BY <1>3 DEF ReportIsFresh, Cuts, Grows, Noise, SomeLoss, LittleLoss,
              HeavyLoss, MayDecrease
<1>5. CASE Probes(e) /\ ProbedBitrate(e) # e.currBitrate
  <2> DEFINE entry == [ts |-> Now32, bitrate |-> e.currBitrate]
             p == [e EXCEPT !.minBitrates = <<entry>>]
  <2>1. entry \in Entries
    BY <1>1, Clocks DEF Entries
  <2>2. p \in Estimates /\ p.hasDecreased = e.hasDecreased
    <3>1. <<entry>> \in Seq(Entries)
      BY <2>1
    <3> HIDE DEF entry
    <3> QED BY <3>1 DEF Estimates
  <2>3. ProbedBitrate(e) \in Nat
    BY MaxOfThree DEF ProbedBitrate, Estimates
  <2>4. u = Capped(p, ProbedBitrate(e))
    BY <1>5 DEF UpdateEstimation
  <2>5. ~Cuts(e)
    BY <1>5 DEF Probes, Cuts, HeavyLoss
  <2> HIDE DEF p, u
  <2>6. u \in Estimates /\ Within(u) /\ u.hasDecreased = e.hasDecreased
    BY <2>2, <2>3, <2>4, CappedIsWithin
  <2> QED BY <2>5, <2>6 DEF u
<1>6. CASE /\ ~(Probes(e) /\ ProbedBitrate(e) # e.currBitrate)
           /\ f.lastPacketReportTs # None /\ ReportIsFresh(f)
  <2>1. u = LossControl(f, acked)
    BY <1>6 DEF UpdateEstimation, f
  <2> HIDE DEF u
  <2>2. /\ u \in Estimates /\ Within(u)
        /\ u.hasDecreased = (f.hasDecreased \/ Cuts(f))
    BY <1>3, <2>1, LossIsControlled
  <2> QED BY <1>3, <1>4, <2>2 DEF u
<1>7. CASE /\ ~(Probes(e) /\ ProbedBitrate(e) # e.currBitrate)
           /\ ~(f.lastPacketReportTs # None /\ ReportIsFresh(f))
  <2> DEFINE lost == [f EXCEPT !.lostQ8 = 0, !.expected = 0,
                               !.lastTimeoutTs = Now32]
             less == (f.currBitrate * 4) \div 5
  <2>1. u = Capped(f, f.currBitrate) \/ u = Capped(lost, less)
    BY <1>7 DEF UpdateEstimation, f, FeedbackTimeout
  <2>2. lost \in Estimates /\ lost.hasDecreased = f.hasDecreased
    <3>1. Now32 \in Int
      BY Clocks
    <3> QED BY <1>3, <3>1 DEF Estimates
  <2>3. f.currBitrate \in Nat /\ less \in Nat
    <3>1. f.currBitrate * 4 \in Nat
      BY <1>1, <1>3
    <3> QED BY <1>1, <1>3, <3>1
  <2> HIDE DEF u, lost, less
  <2>4. u \in Estimates /\ Within(u) /\ u.hasDecreased = f.hasDecreased
    <3>1. CASE u = Capped(f, f.currBitrate)
      BY <1>3, <2>3, <3>1, CappedIsWithin
    <3>2. CASE u = Capped(lost, less)
      BY <2>2, <2>3, <3>2, CappedIsWithin
    <3> QED BY <2>1, <3>1, <3>2
  <2> QED BY <1>3, <1>4, <1>7, <2>4 DEF u
<1> QED BY <1>5, <1>6, <1>7

-----------------------------------------------------------------------------
(* The estimate is of its type, within its limits once it was capped, and  *)
(* a cut that was counted is remembered by the estimate.                   *)
EstimateInv ==
    /\ now \in Nat
    /\ est \in Estimates
    /\ settled \in BOOLEAN /\ (settled => Within(est))
    /\ cuts \in 0 .. 1 /\ (cuts = 1 => est.hasDecreased)

LEMMA LossInfoKeeps ==
    ASSUME EstimateInv, NEW d \in Estimates,
           d.hasDecreased = est.hasDecreased,
           NEW fraction \in Fractions, NEW packets \in PacketCounts,
           NEW rtt \in Rtts, NEW steady \in BOOLEAN, NEW acked \in AckedRates,
           LossInfo(d, fraction, packets, rtt, steady, acked)
    PROVE  /\ est' \in Estimates
           /\ Within(d) \/ Completes(d, packets) => Within(est')
           /\ cuts' \in 0 .. 1 /\ (cuts' = 1 => est'.hasDecreased)
<1> DEFINE heard == UpdateReceiverBlock(d, fraction, packets, rtt, steady)
<1>1. /\ fraction \in Nat /\ packets \in Nat /\ rtt \in Nat /\ acked \in Nat
      /\ now \in Nat
  BY ControllerAssumption DEF EstimateInv
<1>2. /\ heard \in Estimates
      /\ heard.currBitrate = d.currBitrate
      /\ heard.delayBaseBitrate = d.delayBaseBitrate
      /\ heard.bweIncoming = d.bweIncoming
      /\ ~Completes(d, packets) => heard.hasDecreased = d.hasDecreased
  BY <1>1, ReportIsHeard
<1>3. IF Completes(d, packets)
      THEN est' = UpdateEstimation(heard, acked) /\ Remember(heard, acked, TRUE)
      ELSE est' = heard /\ cutTo' = None /\ UNCHANGED <<cuts, lows>>
  BY DEF LossInfo
<1> HIDE DEF heard
<1>4. CASE Completes(d, packets)
  <2>1. /\ est' \in Estimates /\ Within(est')
        /\ heard.lastPacketReportTs # None /\ ReportIsFresh(heard)
              /\ Cuts(heard) => est'.hasDecreased
    BY <1>1, <1>2, <1>3, <1>4, EstimateIsUpdated
  <2>2. cuts' = IF heard.lastPacketReportTs # None /\ ReportIsFresh(heard)
                      /\ Cuts(heard) THEN 1 ELSE 0
    BY <1>3, <1>4 DEF Remember, CutsNow
  <2> QED BY <2>1, <2>2
<1>5. CASE ~Completes(d, packets)
  <2>1. est' = heard /\ cuts' = cuts
    BY <1>3, <1>5
  <2>2. Within(d) => Within(heard)
    BY <1>2 DEF Within
  <2> QED BY <1>2, <1>5, <2>1, <2>2 DEF EstimateInv
<1> QED BY <1>4, <1>5

LEMMA EstimateStep == EstimateInv /\ [Next]_vars => EstimateInv'
<1> SUFFICES ASSUME EstimateInv, [Next]_vars
             PROVE  EstimateInv'
  OBVIOUS
<1>1. ASSUME NEW acked \in AckedRates, ProcBitrateHeartbeat(acked)
      PROVE  EstimateInv'
  <2>1. acked \in Nat /\ now \in Nat /\ est \in Estimates /\ now' = now
    BY <1>1, ControllerAssumption DEF EstimateInv, ProcBitrateHeartbeat
  <2>2. est' = UpdateEstimation(est, acked) /\ settled' = TRUE
    BY <1>1 DEF ProcBitrateHeartbeat
  <2>3. /\ est' \in Estimates /\ Within(est')
        /\ est.hasDecreased => est'.hasDecreased
        /\ est.lastPacketReportTs # None /\ ReportIsFresh(est) /\ Cuts(est)
              => est'.hasDecreased
    BY <2>1, <2>2, EstimateIsUpdated
  <2>4. cuts' = cuts + (IF est.lastPacketReportTs # None /\ ReportIsFresh(est)
                              /\ Cuts(est) THEN 1 ELSE 0)
    BY <1>1 DEF ProcBitrateHeartbeat, Remember, CutsNow
  <2>5. Cuts(est) => ~est.hasDecreased
    BY DEF Cuts
  <2>6. cuts \in 0 .. 1 /\ (cuts = 1 => est.hasDecreased)
    BY DEF EstimateInv
  <2>7. cuts' \in 0 .. 1 /\ (cuts' = 1 => est'.hasDecreased)
    <3>1. CASE est.lastPacketReportTs # None /\ ReportIsFresh(est) /\ Cuts(est)
      BY <2>3, <2>4, <2>5, <2>6, <3>1
    <3>2. CASE ~(est.lastPacketReportTs # None /\ ReportIsFresh(est) /\ Cuts(est))
      BY <2>3, <2>4, <2>6, <3>2
    <3> QED BY <3>1, <3>2
  <2> QED BY <2>1, <2>2, <2>3, <2>7 DEF EstimateInv
<1>2. ASSUME NEW bitrate \in DelayRates, NEW over \in BOOLEAN,
             OnDelayBasedResult(bitrate, over)
      PROVE  EstimateInv'
  <2>1. bitrate \in Nat /\ est \in Estimates
    BY ControllerAssumption DEF EstimateInv
  <2>2. /\ est' = UpdateDelayBase(est, bitrate, over)
        /\ settled' = TRUE /\ UNCHANGED <<now, cuts>>
    BY <1>2 DEF OnDelayBasedResult
  <2>3. est' \in Estimates /\ Within(est') /\ est'.hasDecreased = est.hasDecreased
    BY <2>1, <2>2, DelayIsHeard
  <2> QED BY <2>2, <2>3 DEF EstimateInv
<1>3. ASSUME NEW fraction \in Fractions, NEW packets \in PacketCounts,
             NEW rtt \in Rtts, NEW steady \in BOOLEAN, NEW acked \in AckedRates,
             OnLossInfoResult(fraction, packets, rtt, steady, acked)
      PROVE  EstimateInv'
  <2>1. /\ LossInfo(est, fraction, packets, rtt, steady, acked)
        /\ settled' = (settled \/ Completes(est, packets))
        /\ UNCHANGED now
    BY <1>3 DEF OnLossInfoResult
  <2>2. est \in Estimates
    BY DEF EstimateInv
  <2>3. /\ est' \in Estimates
        /\ Within(est) \/ Completes(est, packets) => Within(est')
        /\ cuts' \in 0 .. 1 /\ (cuts' = 1 => est'.hasDecreased)
    BY <2>1, <2>2, LossInfoKeeps
  <2> QED BY <2>1, <2>3 DEF EstimateInv
<1>4. ASSUME NEW bitrate \in DelayRates, NEW over \in BOOLEAN,
             NEW fraction \in Fractions, NEW packets \in PacketCounts,
             NEW rtt \in Rtts, NEW steady \in BOOLEAN, NEW acked \in AckedRates,
             OnBothResults(bitrate, over, fraction, packets, rtt, steady, acked)
      PROVE  EstimateInv'
  <2> DEFINE d == UpdateDelayBase(est, bitrate, over)
  <2>1. bitrate \in Nat /\ est \in Estimates
    BY ControllerAssumption DEF EstimateInv
  <2>2. /\ LossInfo(d, fraction, packets, rtt, steady, acked)
        /\ settled' = TRUE /\ UNCHANGED now
    BY <1>4 DEF OnBothResults
  <2>3. d \in Estimates /\ Within(d) /\ d.hasDecreased = est.hasDecreased
    BY <2>1, DelayIsHeard
  <2> HIDE DEF d
  <2>4. /\ est' \in Estimates /\ Within(est')
        /\ cuts' \in 0 .. 1 /\ (cuts' = 1 => est'.hasDecreased)
    BY <2>2, <2>3, LossInfoKeeps
  <2> QED BY <2>2, <2>4 DEF EstimateInv
<1>5. CASE Clock \/ UNCHANGED vars
  <2>1. UNCHANGED <<est, settled, cuts>>
    BY <1>5 DEF Clock, vars, historyVars
  <2>2. now' = now + 1 \/ now' = now
    BY <1>5 DEF Clock, vars
  <2>3. now' \in Nat
    BY <2>2 DEF EstimateInv
  <2>4. Within(est)' <=> Within(est)
    BY <2>1 DEF Within
  <2> QED BY <2>1, <2>3, <2>4 DEF EstimateInv
<1> QED BY <1>1, <1>2, <1>3, <1>4, <1>5 DEF Next, ProcessFeedback

LEMMA EstimateInit == Init => EstimateInv
<1> SUFFICES ASSUME Init
             PROVE  EstimateInv
  OBVIOUS
<1>1. PICK g \in Garbage :
          est = [currBitrate |-> g.rate, delayBaseBitrate |-> g.delayed,
                 bweIncoming |-> g.incoming,
                 overusing |-> FALSE, steady |-> g.flag,
                 lastFractionLoss |-> g.lost % 256,
                 lostQ8 |-> g.lost, expected |-> g.expected,
                 hasDecreased |-> FALSE, lastDecreaseTs |-> g.time,
                 lastRtt |-> g.rtt,
                 firstReportTs |-> None, lastPacketReportTs |-> None,
                 lastFeedbackTs |-> None, lastTimeoutTs |-> None,
                 minBitrates |-> <<>>]
  BY DEF Init
<1>2. /\ g.rate \in Nat /\ g.delayed \in Nat /\ g.incoming \in Nat
      /\ g.flag \in BOOLEAN
      /\ g.lost \in Nat /\ g.expected \in Nat /\ g.time \in Int /\ g.rtt \in Nat
  BY ControllerAssumption
<1>3. g.lost % 256 \in 0 .. 255
  BY <1>2
<1>4. est \in Estimates
  BY <1>1, <1>2, <1>3 DEF Estimates, None
<1>5. now \in Nat /\ settled = FALSE /\ cuts = 0
  BY ControllerAssumption DEF Init
<1>6. settled \in BOOLEAN /\ ~settled
  BY <1>5, Zenon
<1>7. cuts \in 0 .. 1 /\ cuts # 1
  BY <1>5
<1> QED BY <1>4, <1>5, <1>6, <1>7, Zenon DEF EstimateInv

LEMMA EstimateInvariance == Spec => []EstimateInv
  BY EstimateInit, EstimateStep, PTL DEF Spec

(* Once it was capped, the rate stays within its limits and below both     *)
(* other estimates, for every limit and clock and whatever fields that     *)
(* nobody initialises held (__capBitrateToThreshold).                      *)
THEOREM RateIsCapped == Spec => []CapsHold
<1>1. EstimateInv => CapsHold
  BY DEF EstimateInv, CapsHold, Within
<1> QED BY <1>1, EstimateInvariance, PTL

(* However many heartbeats pass between two reports of losses, one report  *)
(* is answered with one cut at most (hasDecreasedSinceLastFractionLoss).   *)
THEOREM OneCutPerReport == Spec => []CutOncePerReport
<1>1. EstimateInv => CutOncePerReport
  BY DEF EstimateInv, CutOncePerReport
<1> QED BY <1>1, EstimateInvariance, PTL

-----------------------------------------------------------------------------
(* Growth.  The history of the last interval is sorted, and for each rate  *)
(* that was recorded in it, it holds an entry that is no higher and not    *)
(* due to be dropped earlier.  So its head is the least rate of the        *)
(* interval, as long as it never drops its head for want of a slot.        *)
HistoryHasRoom == Len(est.minBitrates) < Slots

Ascending(h) == \A i, j \in DOMAIN h : i < j => h[i].bitrate < h[j].bitrate

Holds(h, b, a) ==
    \E i \in DOMAIN h : h[i].bitrate <= b /\ h[i].ts + a >= NowSigned

LEMMA EntryTypes ==
    ASSUME NEW h \in Seq(Entries), NEW i \in DOMAIN h
    PROVE  h[i] \in Entries /\ h[i].ts \in Int /\ h[i].bitrate \in Nat
<1>1. h[i] \in Entries
  OBVIOUS
<1> QED BY <1>1 DEF Entries

LEMMA RecentHistory ==
    ASSUME NEW h \in Seq(Entries), Ascending(h), now \in Nat
    PROVE  /\ Recent(h) \in Seq(Entries) /\ Ascending(Recent(h))
           /\ Len(Recent(h)) <= Len(h)
           /\ \A b \in Nat, a \in 0 .. IncreaseInterval :
                 Holds(h, b, a) => Holds(Recent(h), b, a)
<1> DEFINE kept == { i \in DOMAIN h : h[i].ts + IncreaseInterval >= NowSigned }
           m == Min(kept)
           r == SubSeq(h, m, Len(h))
<1>1. ASSUME NEW b \in Nat, NEW a \in 0 .. IncreaseInterval, NEW i \in DOMAIN h,
             h[i].ts + a >= NowSigned
      PROVE  i \in kept
  <2>1. h[i].ts \in Int /\ NowSigned \in Int /\ IncreaseInterval \in Nat
    BY Clocks, EntryTypes, EstimationAssumption
  <2> QED BY <1>1, <2>1
<1>2. CASE kept = {}
  <2>1. Recent(h) = <<>>
    BY <1>2 DEF Recent
  <2>2. Ascending(<<>>) /\ Len(<<>>) <= Len(h)
    BY DEF Ascending
  <2>3. \A b \in Nat, a \in 0 .. IncreaseInterval : ~Holds(h, b, a)
    BY <1>1, <1>2 DEF Holds
  <2> QED BY <2>1, <2>2, <2>3
<1>3. CASE kept # {}
  <2>1. kept \subseteq 0 .. Len(h) /\ Len(h) \in Nat /\ kept \subseteq 1 .. Len(h)
    OBVIOUS
  <2>2. m \in 1 .. Len(h)
    BY <1>3, <2>1, Extremes
  <2>3. \A i \in kept : m <= i
    <3>1. PICK n \in Nat : n = Len(h)
      BY <2>1
    <3>2. PICK l \in kept : \A i \in kept : l <= i
      BY <1>3, <2>1, LeastIs
    <3>3. kept \subseteq Int
      BY <2>1
    <3> HIDE DEF kept
    <3>4. m = l
      BY <3>2, <3>3, MinIs
    <3> HIDE DEF m
    <3> QED BY ONLY <3>2, <3>4
  <2>4. \A i \in m .. Len(h) : h[i] \in Entries
    BY <2>2
  <2> HIDE DEF kept, m
  <2>5. /\ r \in Seq(Entries) /\ Len(r) = Len(h) - m + 1
        /\ \A i \in 1 .. Len(h) - m + 1 : r[i] = h[m + i - 1]
    BY <2>1, <2>2, <2>4, SubSeqProperties
  <2>6. Recent(h) = r
    BY <1>3 DEF Recent, kept, m
  <2> HIDE DEF r
  <2>7. DOMAIN r = 1 .. Len(h) - m + 1 /\ DOMAIN h = 1 .. Len(h)
    BY <2>5
  <2>8. Ascending(r)
    <3> SUFFICES ASSUME NEW i \in DOMAIN r, NEW j \in DOMAIN r, i < j
                 PROVE  r[i].bitrate < r[j].bitrate
      BY DEF Ascending
    <3>1. /\ m + i - 1 \in DOMAIN h /\ m + j - 1 \in DOMAIN h
          /\ m + i - 1 < m + j - 1
      BY <2>1, <2>2, <2>7
    <3> QED BY <2>5, <2>7, <3>1 DEF Ascending
  <2>9. ASSUME NEW b \in Nat, NEW a \in 0 .. IncreaseInterval, Holds(h, b, a)
        PROVE  Holds(r, b, a)
    <3>1. PICK i \in DOMAIN h : h[i].bitrate <= b /\ h[i].ts + a >= NowSigned
      BY <2>9 DEF Holds
    <3>2. m <= i
      BY <1>1, <2>3, <3>1
    <3> DEFINE j == i - m + 1
    <3>3. j \in DOMAIN r /\ m + j - 1 = i
      BY <2>1, <2>2, <2>7, <3>2
    <3> HIDE DEF j
    <3>4. r[j] = h[i]
      BY <2>5, <2>7, <3>3
    <3> QED BY <3>1, <3>3, <3>4 DEF Holds
  <2> QED BY <2>1, <2>2, <2>5, <2>6, <2>8, <2>9
<1> QED BY <1>2, <1>3

(* What Lower drops is no lower than the rate that is recorded instead.    *)
LEMMA LowerHistory ==
    ASSUME NEW r \in Seq(Entries), Ascending(r), NEW c \in Nat
    PROVE  /\ Lower(r, c) \in Seq(Entries) /\ Ascending(Lower(r, c))
           /\ Len(Lower(r, c)) <= Len(r)
           /\ \A i \in DOMAIN Lower(r, c) : Lower(r, c)[i].bitrate < c
           /\ \A i \in DOMAIN r :
                 \/ i \in DOMAIN Lower(r, c) /\ Lower(r, c)[i] = r[i]
                 \/ r[i].bitrate >= c
<1> DEFINE below == { i \in DOMAIN r : r[i].bitrate < c }
           S == {0} \union below
           m == Max(S)
           l == SubSeq(r, 1, m)
<1>1. S \subseteq 0 .. Len(r) /\ S # {} /\ Len(r) \in Nat
  OBVIOUS
<1>2. m \in S /\ \A i \in S : i <= m
  <2>1. PICK g \in S : \A i \in S : g >= i
    <3> HIDE DEF S
    <3> QED BY <1>1, GreatestIs
  <2>2. S \subseteq Int
    BY <1>1
  <2> HIDE DEF S
  <2>3. m = g
    BY <2>1, <2>2, MaxIs
  <2> HIDE DEF m
  <2>4. \A i \in S : g >= i => i <= g
    BY <2>2
  <2> QED BY <2>1, <2>3, <2>4
<1>3. m \in 0 .. Len(r)
  BY <1>1, <1>2
<1>4. \A i \in 1 .. m : r[i] \in Entries
  BY <1>3
<1>5. Lower(r, c) = l
  BY DEF Lower
<1> HIDE DEF m
<1>6. /\ l \in Seq(Entries) /\ Len(l) = m /\ DOMAIN l = 1 .. m
      /\ \A i \in 1 .. m : l[i] = r[i]
  <2>1. l \in Seq(Entries) /\ Len(l) = IF 1 <= m THEN m - 1 + 1 ELSE 0
    BY <1>3, <1>4, SubSeqProperties
  <2>2. \A i \in 1 .. m - 1 + 1 : l[i] = r[1 + i - 1]
    BY <1>3, <1>4, SubSeqProperties
  <2> HIDE DEF l
  <2>3. Len(l) = m /\ m - 1 + 1 = m
    BY <1>3, <2>1
  <2>4. \A i \in 1 .. m : 1 + i - 1 = i
    BY <1>3
  <2> QED BY <2>1, <2>2, <2>3, <2>4
<1> HIDE DEF l
<1>7. \A i \in 1 .. m : r[i].bitrate < c
  <2> SUFFICES ASSUME NEW i \in 1 .. m PROVE r[i].bitrate < c
    OBVIOUS
  <2>1. m \in below
    BY <1>2, <1>3
  <2>2. r[m].bitrate < c /\ m \in DOMAIN r /\ i \in DOMAIN r
    BY <1>3, <2>1
  <2>3. CASE i = m
    BY <2>2, <2>3
  <2>4. CASE i # m
    <3>1. i < m
      BY <1>3, <2>4
    <3>2. r[i].bitrate < r[m].bitrate
      BY <2>2, <3>1 DEF Ascending
    <3>3. r[i] \in Entries /\ r[m] \in Entries
      BY <2>2
    <3> QED BY <2>2, <3>2, <3>3 DEF Entries
  <2> QED BY <2>3, <2>4
<1>8. ASSUME NEW i \in DOMAIN r, ~(r[i].bitrate >= c)
      PROVE  i \in 1 .. m
  <2>1. r[i].bitrate \in Nat
    BY EntryTypes
  <2>2. i \in S
    BY <1>8, <2>1
  <2>3. i \in 1 .. Len(r)
    OBVIOUS
  <2> HIDE DEF S
  <2> QED BY <1>2, <1>3, <2>2, <2>3
<1>9. Ascending(l)
  <2>1. \A i \in 1 .. m : i \in DOMAIN r
    BY <1>3
  <2> QED BY <1>6, <2>1 DEF Ascending
<1> QED BY <1>1, <1>3, <1>5, <1>6, <1>7, <1>8, <1>9

(* An update with room to spare keeps the history, and records the rate.   *)
LEMMA UpdatedHistory ==
    ASSUME NEW h \in Seq(Entries), NEW c \in Nat, Ascending(h), Len(h) < Slots,
           now \in Nat
    PROVE  LET u == UpdateMinHistory(h, c) IN
           /\ u \in Seq(Entries) /\ u # <<>> /\ Ascending(u)
           /\ \A b \in Nat, a \in 0 .. IncreaseInterval :
                 Holds(h, b, a) \/ c <= b => Holds(u, b, a)
<1> DEFINE r == Recent(h)
           l == Lower(r, c)
           entry == [ts |-> NowSigned, bitrate |-> c]
           u == Append(l, entry)
<1>1. /\ r \in Seq(Entries) /\ Ascending(r) /\ Len(r) <= Len(h)
      /\ \A b \in Nat, a \in 0 .. IncreaseInterval : Holds(h, b, a) => Holds(r, b, a)
  BY RecentHistory
<1> HIDE DEF r
<1>2. /\ l \in Seq(Entries) /\ Ascending(l) /\ Len(l) <= Len(r)
      /\ \A i \in DOMAIN l : l[i].bitrate < c
      /\ \A i \in DOMAIN r : (i \in DOMAIN l /\ l[i] = r[i]) \/ r[i].bitrate >= c
  BY <1>1, LowerHistory
<1>3. UpdateMinHistory(h, c) = u
  <2> HIDE DEF l
  <2>1. Len(l) # Slots
    BY <1>1, <1>2, EstimationAssumption
  <2> QED BY <2>1 DEF UpdateMinHistory, r, l
<1> HIDE DEF l
<1>4. entry \in Entries /\ entry.ts = NowSigned /\ entry.bitrate = c /\ NowSigned \in Int
  BY Clocks DEF Entries
<1> HIDE DEF entry
<1>5. /\ u \in Seq(Entries) /\ u # <<>> /\ Len(u) = Len(l) + 1
      /\ \A i \in 1 .. Len(l) : u[i] = l[i]
      /\ u[Len(l) + 1] = entry
  BY <1>2, <1>4, AppendProperties
<1> HIDE DEF u
<1>6. DOMAIN u = 1 .. Len(l) + 1 /\ DOMAIN l = 1 .. Len(l) /\ Len(l) \in Nat
  BY <1>2, <1>5
<1>7. Ascending(u)
  <2> SUFFICES ASSUME NEW i \in DOMAIN u, NEW j \in DOMAIN u, i < j
               PROVE  u[i].bitrate < u[j].bitrate
    BY DEF Ascending
  <2>1. i \in DOMAIN l /\ u[i] = l[i]
    BY <1>5, <1>6
  <2>2. CASE j = Len(l) + 1
    BY <1>2, <1>4, <1>5, <2>1, <2>2
  <2>3. CASE j # Len(l) + 1
    <3>1. j \in DOMAIN l /\ u[j] = l[j]
      BY <1>5, <1>6, <2>3
    <3> QED BY <1>2, <2>1, <3>1 DEF Ascending
  <2> QED BY <2>2, <2>3
<1>8. ASSUME NEW b \in Nat, NEW a \in 0 .. IncreaseInterval, c <= b
      PROVE  Holds(u, b, a)
  <2>1. Len(l) + 1 \in DOMAIN u
    BY <1>6
  <2>2. entry.ts + a >= NowSigned
    BY <1>4
  <2> QED BY <1>4, <1>5, <1>8, <2>1, <2>2 DEF Holds
<1>9. ASSUME NEW b \in Nat, NEW a \in 0 .. IncreaseInterval, Holds(h, b, a)
      PROVE  Holds(u, b, a)
  <2>1. PICK i \in DOMAIN r : r[i].bitrate <= b /\ r[i].ts + a >= NowSigned
    BY <1>1, <1>9 DEF Holds
  <2>2. CASE i \in DOMAIN l /\ l[i] = r[i]
    <3>1. i \in DOMAIN u /\ u[i] = r[i]
      BY <1>5, <1>6, <2>2
    <3> QED BY <2>1, <3>1 DEF Holds
  <2>3. CASE r[i].bitrate >= c
    <3>1. r[i].bitrate \in Nat
      BY <1>1, EntryTypes
    <3>2. c <= b
      BY <2>1, <2>3, <3>1
    <3> QED BY <1>8, <3>2
  <2> QED BY <1>2, <2>2, <2>3
<1> QED BY <1>3, <1>5, <1>7, <1>8, <1>9

-----------------------------------------------------------------------------
(* The clock and its remainders.                                           *)
LEMMA RemainderIs ==
    ASSUME NEW w \in Nat \ {0}, NEW q \in Int, NEW r \in 0 .. w - 1
    PROVE  (w * q + r) % w = r
<1> DEFINE x == w * q + r
           p == x \div w
           s == x % w
<1>1. w * q \in Int
  OBVIOUS
<1>2. x \in Int
  BY <1>1
<1>3. x = w * q + r
  OBVIOUS
<1> HIDE DEF x
<1>4. p \in Int /\ s \in 0 .. w - 1 /\ x = w * p + s
  BY <1>2
<1> HIDE DEF p, s
<1>5. ASSUME NEW a \in Int, NEW b \in Int, a > b
      PROVE  w * a >= w * b + w
  <2> DEFINE k == a - b - 1
  <2>1. k \in Nat
    BY <1>5
  <2>2. w * k = w * a - w * b - w
    BY <1>5
  <2> HIDE DEF k
  <2>3. w * k \in Nat
    BY <2>1
  <2> QED BY <2>2, <2>3
<1>6. ~(q > p) /\ ~(p > q)
  BY <1>3, <1>4, <1>5
<1>7. q = p
  BY <1>4, <1>6
<1>8. r = s
  BY <1>3, <1>4, <1>7
<1> QED BY <1>8 DEF s, x

(* The clock of __updateMinHistory never runs ahead of time: it may jump   *)
(* back where its sign changes.                                            *)
LEMMA SignedClock ==
    ASSUME now \in Nat, now' = now + 1
    PROVE  NowSigned' <= NowSigned + 1
<1> DEFINE w == Word
           r == now % w
           q == now \div w
           t == (now + 1) % w
<1>1. w \in Nat \ {0} /\ w \div 2 \in Nat /\ w > w \div 2
  BY EstimationAssumption
<1>2. r \in 0 .. w - 1 /\ q \in Int /\ now = w * q + r
  BY <1>1
<1>3. t = r + 1 \/ (t = 0 /\ r = w - 1)
  <2>1. CASE r = w - 1
    <3> HIDE DEF w, r, q
    <3>1. w * (q + 1) + 0 = w * q + w
      BY <1>1, <1>2
    <3>2. now + 1 = w * (q + 1) + 0
      BY <1>1, <1>2, <2>1, <3>1
    <3>3. (w * (q + 1) + 0) % w = 0
      BY <1>1, <1>2, q + 1 \in Int, RemainderIs
    <3> QED BY <2>1, <3>2, <3>3
  <2>2. CASE r # w - 1
    <3> HIDE DEF w, r, q
    <3>1. r + 1 \in 0 .. w - 1
      BY <1>1, <1>2, <2>2
    <3>2. w * q \in Int
      BY <1>1, <1>2
    <3>3. now + 1 = w * q + (r + 1)
      BY <1>1, <1>2, <3>2
    <3>4. (w * q + (r + 1)) % w = r + 1
      BY <1>1, <1>2, <3>1, RemainderIs
    <3> QED BY <3>3, <3>4
  <2> QED BY <2>1, <2>2
<1>4. /\ NowSigned = IF r < w \div 2 THEN r ELSE r - w
      /\ NowSigned' = IF t < w \div 2 THEN t ELSE t - w
  BY DEF NowSigned, Now32
<1> HIDE DEF w, r, t, q
<1> QED BY <1>1, <1>2, <1>3, <1>4

LEMMA GrownGrows ==
    ASSUME NEW a \in Nat, NEW b \in Nat, a <= b
    PROVE  Grown(a) \in Nat /\ Grown(b) \in Nat /\ Grown(a) <= Grown(b)
<1>1. Step \in Nat
  BY EstimationAssumption
<1>2. /\ 108 * a + 50 + 100 * Step \in Nat
      /\ 108 * b + 50 + 100 * Step \in Nat
      /\ 108 * a + 50 + 100 * Step <= 108 * b + 50 + 100 * Step
  BY <1>1
<1> QED BY <1>2 DEF Grown

-----------------------------------------------------------------------------
(* By how much one update raises the rate.                                 *)
LEMMA UpdateRaises ==
    ASSUME NEW e \in Estimates, NEW acked \in Nat, now \in Nat, InStartPhase(e)
    PROVE  LET u == UpdateEstimation(e, acked)
               h == UpdateMinHistory(e.minBitrates, e.currBitrate)
           IN  /\ u.minBitrates = h /\ u.firstReportTs = e.firstReportTs
               /\ \/ u.currBitrate <= e.currBitrate \/ u.currBitrate = MinConf
                  \/ CutsNow(e) /\ u.currBitrate <= acked
                  \/ u.currBitrate <= Grown(Head(h).bitrate)
<1> DEFINE u == UpdateEstimation(e, acked)
           h == UpdateMinHistory(e.minBitrates, e.currBitrate)
           f == [e EXCEPT !.minBitrates = h]
<1> SUFFICES /\ u.minBitrates = h /\ u.firstReportTs = e.firstReportTs
             /\ \/ u.currBitrate <= e.currBitrate \/ u.currBitrate = MinConf
                \/ CutsNow(e) /\ u.currBitrate <= acked
                \/ u.currBitrate <= Grown(Head(h).bitrate)
  OBVIOUS
<1>1. e.currBitrate \in Nat /\ e.minBitrates \in Seq(Entries)
  BY DEF Estimates
<1>2. h \in Seq(Entries) /\ Head(h).bitrate \in Nat
  BY <1>1, HistoryIsKept
<1> HIDE DEF h
<1>3. /\ f \in Estimates /\ f.minBitrates = h /\ f.currBitrate = e.currBitrate
      /\ f.firstReportTs = e.firstReportTs
      /\ f.lastPacketReportTs = e.lastPacketReportTs
      /\ f.lastFractionLoss = e.lastFractionLoss /\ f.steady = e.steady
      /\ f.overusing = e.overusing /\ f.lastDecreaseTs = e.lastDecreaseTs
      /\ f.lastRtt = e.lastRtt /\ f.hasDecreased = e.hasDecreased
  BY <1>2 DEF Estimates
<1>4. \/ u = Capped(f, f.currBitrate) \/ u = FeedbackTimeout(f)
      \/ /\ u = LossControl(f, acked)
         /\ f.lastPacketReportTs # None /\ ReportIsFresh(f)
  <2>1. ~Probes(e)
    BY DEF Probes
  <2>2. f = [e EXCEPT !.minBitrates = UpdateMinHistory(@, e.currBitrate)]
    BY DEF h
  <2> HIDE DEF f
  <2>3. u = CASE f.lastPacketReportTs = None -> Capped(f, f.currBitrate)
              [] f.lastPacketReportTs # None /\ ReportIsFresh(f) ->
                     LossControl(f, acked)
              [] f.lastPacketReportTs # None /\ ~ReportIsFresh(f)
                     /\ FeedbackLost(f) -> FeedbackTimeout(f)
              [] OTHER -> Capped(f, f.currBitrate)
    BY <2>1, <2>2 DEF UpdateEstimation
  <2> HIDE DEF u
  <2> QED BY <2>3
<1> HIDE DEF f, u
<1>5. CASE u = Capped(f, f.currBitrate)
  BY <1>1, <1>3, <1>5, CappedIsWithin
<1>6. CASE u = FeedbackTimeout(f)
  <2> DEFINE lost == [f EXCEPT !.lostQ8 = 0, !.expected = 0,
                               !.lastTimeoutTs = Now32]
             less == (f.currBitrate * 4) \div 5
  <2>1. /\ lost \in Estimates /\ lost.minBitrates = h
        /\ lost.firstReportTs = e.firstReportTs
    <3>1. Now32 \in Int
      BY Clocks
    <3> QED BY <1>3, <3>1 DEF Estimates
  <2>2. less \in Nat /\ less <= e.currBitrate
    BY <1>1, <1>3
  <2>3. u = Capped(lost, less)
    BY <1>6 DEF FeedbackTimeout
  <2> HIDE DEF lost, less
  <2>4. /\ u.minBitrates = h /\ u.firstReportTs = e.firstReportTs
        /\ u.currBitrate <= less \/ u.currBitrate = MinConf
        /\ u.currBitrate \in Nat
    <3>1. u \in Estimates
      BY <2>1, <2>2, <2>3, CappedIsWithin
    <3>2. u.currBitrate \in Nat
      BY <3>1 DEF Estimates
    <3> QED BY <2>1, <2>2, <2>3, <3>2, CappedIsWithin
  <2>5. u.currBitrate <= e.currBitrate \/ u.currBitrate = MinConf
    BY <1>1, <2>2, <2>4
  <2> QED BY <2>4, <2>5
<1>7. CASE u = LossControl(f, acked) /\ Grows(f)
  <2> DEFINE b == Grown(Head(h).bitrate)
  <2>1. b \in Nat
    BY <1>2, GrownGrows
  <2>2. u = Capped(f, b)
    BY <1>3, <1>7 DEF LossControl
  <2> HIDE DEF b
  <2>3. /\ u.minBitrates = h /\ u.firstReportTs = e.firstReportTs
        /\ u.currBitrate <= b \/ u.currBitrate = MinConf
    BY <1>3, <2>1, <2>2, CappedIsWithin
  <2> QED BY <2>3 DEF b
<1>8. CASE /\ u = LossControl(f, acked) /\ ~Grows(f) /\ Cuts(f)
           /\ f.lastPacketReportTs # None /\ ReportIsFresh(f)
  <2> DEFINE g == [f EXCEPT !.hasDecreased = TRUE]
             b == Reduced(f, acked)
  <2>1. /\ g \in Estimates /\ g.minBitrates = h
        /\ g.firstReportTs = e.firstReportTs
    BY <1>3 DEF Estimates
  <2>2. b \in Nat /\ (b = acked \/ b <= e.currBitrate)
    BY <1>3, ReducedIsNat
  <2>3. u = Capped(g, b)
    BY <1>8 DEF LossControl
  <2> HIDE DEF g, b
  <2>4. /\ u.minBitrates = h /\ u.firstReportTs = e.firstReportTs
        /\ u.currBitrate <= b \/ u.currBitrate = MinConf
        /\ u.currBitrate \in Nat
    <3>1. u \in Estimates
      BY <2>1, <2>2, <2>3, CappedIsWithin
    <3>2. u.currBitrate \in Nat
      BY <3>1 DEF Estimates
    <3> QED BY <2>1, <2>2, <2>3, <3>2, CappedIsWithin
  <2>5. CutsNow(e)
    BY <1>3, <1>8 DEF CutsNow, ReportIsFresh, Cuts, Grows, Noise, SomeLoss,
                      LittleLoss, HeavyLoss, MayDecrease
  <2>6. \/ u.currBitrate <= e.currBitrate \/ u.currBitrate = MinConf
        \/ u.currBitrate <= acked
    BY <1>1, <2>2, <2>4
  <2> QED BY <2>4, <2>5, <2>6
<1>9. CASE u = LossControl(f, acked) /\ ~Grows(f) /\ ~Cuts(f)
  <2>1. u = Capped(f, f.currBitrate)
    BY <1>9 DEF LossControl
  <2> QED BY <1>1, <1>3, <2>1, CappedIsWithin
<1> QED BY <1>4, <1>5, <1>6, <1>7, <1>8, <1>9

-----------------------------------------------------------------------------
(* What the controller remembers of an interval is held by the history.    *)
Recorded(h, l) ==
    /\ Ascending(h)
    /\ \A a \in 0 .. IncreaseInterval : l[a] # None => Holds(h, l[a], a)

Rates == Nat \union {None}

(* The start phase never ends: a 32-bit clock never reaches a report's     *)
(* 64-bit time.                                                            *)
Starting(e) == e.firstReportTs = None \/ e.firstReportTs >= Word

GrowthInv ==
    /\ EstimateInv /\ now >= Word
    /\ lows \in [0 .. IncreaseInterval -> Rates]
    /\ Recorded(est.minBitrates, lows)
    /\ Starting(est)

(* A step from the rate b on that grows from the least rate only.          *)
RaisedFrom(b) ==
    \/ est'.currBitrate <= b \/ est'.currBitrate = MinConf
    \/ cutTo' # None /\ est'.currBitrate <= cutTo'
    \/ \A a \in DOMAIN lows' :
          lows'[a] = None \/ est'.currBitrate <= Grown(lows'[a])

LEMMA NeverProbes ==
    ASSUME NEW e \in Estimates, now \in Nat, Starting(e)
    PROVE  InStartPhase(e)
<1>1. Now32 \in 0 .. Word - 1
  BY EstimationAssumption DEF Now32
<1>2. StartPhase \in Nat /\ Word \in Nat /\ e.firstReportTs \in Int
  BY EstimationAssumption DEF Estimates
<1> QED BY <1>1, <1>2 DEF Starting, InStartPhase

(* A rate that was recorded at an update is either the one of the update   *)
(* or one that was recorded before.                                        *)
LEMMA LeastRecorded ==
    ASSUME NEW low \in Rates, NEW b \in Nat
    PROVE  /\ LeastOf(low, b) \in Nat
           /\ LeastOf(low, b) = b \/ (low # None /\ LeastOf(low, b) = low)
<1>1. CASE low = None
  BY <1>1 DEF LeastOf
<1>2. CASE low # None
  <2>1. low \in Nat
    BY <1>2 DEF Rates
  <2>2. {b, low} \subseteq Int /\ (b <= low \/ low <= b)
    BY <2>1
  <2>3. Min({b, low}) \in {b, low}
    <3>1. CASE b <= low
      BY <2>1, <3>1, MinIs
    <3>2. CASE low <= b
      BY <2>1, <3>2, MinIs
    <3> QED BY <2>2, <3>1, <3>2
  <2> QED BY <1>2, <2>1, <2>3 DEF LeastOf
<1> QED BY <1>1, <1>2

(* An update of the estimate e: what it was given is recorded, and the     *)
(* rate has grown from the least rate of the interval, if at all.          *)
LEMMA UpdateIsRecorded ==
    ASSUME NEW e \in Estimates, NEW acked \in Nat, now >= Word, now \in Nat,
           lows \in [0 .. IncreaseInterval -> Rates],
           Recorded(e.minBitrates, lows), Starting(e), Len(e.minBitrates) < Slots,
           est' = UpdateEstimation(e, acked), now' = now,
           cutTo' = IF CutsNow(e) THEN acked ELSE None,
           lows' = [lows EXCEPT ![0] = LeastOf(@, e.currBitrate)]
    PROVE  /\ lows' \in [0 .. IncreaseInterval -> Rates]
           /\ Recorded(est.minBitrates, lows)'
           /\ Starting(est)'
           /\ RaisedFrom(e.currBitrate)
<1> DEFINE b == e.currBitrate
           h == UpdateMinHistory(e.minBitrates, b)
           c == est'.currBitrate
<1>1. b \in Nat /\ e.minBitrates \in Seq(Entries)
  BY DEF Estimates
<1>2. /\ h \in Seq(Entries) /\ h # <<>> /\ Ascending(h)
      /\ \A x \in Nat, a \in 0 .. IncreaseInterval :
            Holds(e.minBitrates, x, a) \/ b <= x => Holds(h, x, a)
  BY <1>1, UpdatedHistory DEF Recorded
<1>3. /\ est'.minBitrates = h /\ est'.firstReportTs = e.firstReportTs
      /\ \/ c <= b \/ c = MinConf
         \/ cutTo' # None /\ c <= cutTo'
         \/ c <= Grown(Head(h).bitrate)
  <2>1. InStartPhase(e)
    BY NeverProbes
  <2>2. CutsNow(e) => cutTo' = acked /\ cutTo' # None
    BY DEF None
  <2> QED BY <2>1, <2>2, UpdateRaises
<1>4. c \in Nat
  <2>1. est' \in Estimates
    BY EstimateIsUpdated
  <2> QED BY <2>1 DEF Estimates
<1> HIDE DEF h, c
<1>5. /\ 0 \in 0 .. IncreaseInterval /\ LeastOf(lows[0], b) \in Nat
      /\ LeastOf(lows[0], b) = b
           \/ (lows[0] # None /\ LeastOf(lows[0], b) = lows[0])
  <2>1. 0 \in 0 .. IncreaseInterval
    BY EstimationAssumption
  <2>2. lows[0] \in Rates
    BY <2>1
  <2> QED BY <1>1, <2>1, <2>2, LeastRecorded
<1>6. lows' \in [0 .. IncreaseInterval -> Rates]
  BY <1>5 DEF Rates
<1>7. ASSUME NEW a \in 0 .. IncreaseInterval, lows'[a] # None
      PROVE  lows'[a] \in Nat /\ Holds(h, lows'[a], a)
  <2>1. lows'[a] \in Nat
    <3>1. lows'[a] \in Rates
      BY <1>6
    <3> QED BY <1>7, <3>1 DEF Rates
  <2>2. CASE lows'[a] = b
    <3>1. b <= b
      BY <1>1
    <3>2. Holds(h, b, a)
      BY <1>1, <1>2, <3>1
    <3> QED BY <2>1, <2>2, <3>2
  <2>3. CASE lows'[a] = lows[a]
    <3>1. Holds(e.minBitrates, lows[a], a)
      BY <1>7, <2>3 DEF Recorded
    <3> QED BY <1>2, <2>1, <2>3, <3>1
  <2>4. CASE a = 0
    <3>1. lows'[a] = LeastOf(lows[0], b)
      BY <1>5, <2>4
    <3> QED BY <1>5, <2>2, <2>3, <2>4, <3>1
  <2>5. CASE a # 0
    <3>1. lows'[a] = lows[a]
      BY <1>5, <2>5
    <3> QED BY <2>3, <3>1
  <2> QED BY <2>4, <2>5
<1>8. Recorded(est.minBitrates, lows)'
  <2>1. \A x, a : Holds(h, x, a) <=> \E i \in DOMAIN h :
                        h[i].bitrate <= x /\ h[i].ts + a >= NowSigned'
    BY DEF Holds, NowSigned, Now32
  <2>2. \A a \in 0 .. IncreaseInterval : lows'[a] # None =>
            \E i \in DOMAIN h : h[i].bitrate <= lows'[a] /\ h[i].ts + a >= NowSigned'
    BY <1>7, <2>1
  <2> QED BY <1>2, <1>3, <2>2 DEF Recorded, Ascending, Holds
<1>9. Starting(est)'
  BY <1>3 DEF Starting
<1>10. ASSUME c <= Grown(Head(h).bitrate), NEW a \in 0 .. IncreaseInterval,
              lows'[a] # None
       PROVE  c <= Grown(lows'[a])
  <2>1. PICK i \in DOMAIN h : h[i].bitrate <= lows'[a]
    BY <1>7, <1>10 DEF Holds
  <2>2. 1 \in DOMAIN h /\ Head(h) = h[1]
    BY <1>2
  <2>3. h[1].bitrate \in Nat /\ h[i].bitrate \in Nat
    BY <1>2, <2>2, EntryTypes
  <2>4. i \in 1 .. Len(h)
    BY <1>2
  <2>5. h[1].bitrate <= h[i].bitrate
    <3>1. CASE i = 1
      BY <2>3, <3>1
    <3>2. CASE i # 1
      <4>1. 1 < i
        BY <2>4, <3>2
      <4> QED BY <1>2, <2>2, <2>3, <4>1 DEF Ascending
    <3> QED BY <3>1, <3>2
  <2>6. lows'[a] \in Nat
    BY <1>7, <1>10
  <2>7. h[1].bitrate <= lows'[a]
    BY <2>1, <2>3, <2>5, <2>6
  <2>8. /\ Grown(h[1].bitrate) \in Nat /\ Grown(lows'[a]) \in Nat
        /\ Grown(h[1].bitrate) <= Grown(lows'[a])
    BY <2>3, <2>6, <2>7, GrownGrows
  <2> QED BY <1>4, <1>10, <2>2, <2>8
<1>11. DOMAIN lows' = 0 .. IncreaseInterval
  BY <1>6
<1> QED BY <1>3, <1>6, <1>8, <1>9, <1>10, <1>11 DEF c, RaisedFrom

(* A report, heard by the estimate as it is or after an estimate from the  *)
(* delays.                                                                 *)
LEMMA ReportIsRecorded ==
    ASSUME GrowthInv, HistoryHasRoom, NEW d \in Estimates,
           d.minBitrates = est.minBitrates, d.firstReportTs = est.firstReportTs,
           NEW fraction \in Fractions, NEW packets \in PacketCounts,
           NEW rtt \in Rtts, NEW steady \in BOOLEAN, NEW acked \in AckedRates,
           LossInfo(d, fraction, packets, rtt, steady, acked), now' = now
    PROVE  /\ lows' \in [0 .. IncreaseInterval -> Rates]
           /\ Recorded(est.minBitrates, lows)' /\ Starting(est)'
           /\ cutTo' \in Rates /\ RaisedFrom(d.currBitrate)
<1> DEFINE heard == UpdateReceiverBlock(d, fraction, packets, rtt, steady)
<1>1. /\ fraction \in Nat /\ packets \in Nat /\ rtt \in Nat /\ acked \in Nat
      /\ now \in Nat
  BY ControllerAssumption DEF GrowthInv, EstimateInv
<1>2. /\ heard \in Estimates /\ heard.currBitrate = d.currBitrate
      /\ heard.minBitrates = est.minBitrates
      /\ heard.firstReportTs = IF est.firstReportTs = None THEN now
                               ELSE est.firstReportTs
  <2>1. /\ heard \in Estimates /\ heard.currBitrate = d.currBitrate
        /\ heard.minBitrates = d.minBitrates
    BY <1>1, ReportIsHeard
  <2>2. heard.firstReportTs = IF d.firstReportTs = None THEN now
                              ELSE d.firstReportTs
    BY ONLY <1>1, ReportIsHeard
  <2> HIDE DEF heard
  <2> QED BY <2>1, <2>2
<1>3. IF Completes(d, packets)
      THEN est' = UpdateEstimation(heard, acked) /\ Remember(heard, acked, TRUE)
      ELSE est' = heard /\ cutTo' = None /\ UNCHANGED <<cuts, lows>>
  BY DEF LossInfo
<1> HIDE DEF heard
<1>4. /\ now >= Word /\ lows \in [0 .. IncreaseInterval -> Rates]
      /\ Recorded(heard.minBitrates, lows) /\ Starting(heard)
      /\ Len(heard.minBitrates) < Slots
  BY <1>2 DEF GrowthInv, HistoryHasRoom, Starting
<1>5. CASE Completes(d, packets)
  <2>1. /\ est' = UpdateEstimation(heard, acked)
        /\ lows' = [lows EXCEPT ![0] = LeastOf(@, heard.currBitrate)]
        /\ cutTo' = IF CutsNow(heard) THEN acked ELSE None
    BY <1>3, <1>5 DEF Remember
  <2>2. cutTo' \in Rates
    BY <1>1, <2>1 DEF Rates
  <2> QED BY <1>1, <1>2, <1>4, <2>1, <2>2, UpdateIsRecorded
<1>6. CASE ~Completes(d, packets)
  <2>1. est' = heard /\ lows' = lows /\ cutTo' = None
    BY <1>3, <1>6
  <2>2. Recorded(est.minBitrates, lows)'
    BY <1>4, <2>1 DEF Recorded, Ascending, Holds, NowSigned, Now32
  <2>3. d.currBitrate \in Nat
    BY DEF Estimates
  <2>4. est'.currBitrate <= d.currBitrate
    BY <1>2, <2>1, <2>3
  <2> QED BY <1>4, <2>1, <2>2, <2>4 DEF Starting, RaisedFrom, Rates
<1> QED BY <1>5, <1>6

(* What GrowthBounded says of a step.                                      *)
Bounded ==
    settled /\ est'.currBitrate > est.currBitrate =>
        \/ cutTo' # None /\ est'.currBitrate <= Max({MinConf, cutTo'})
        \/ \A a \in DOMAIN lows' :
              lows'[a] = None
                  \/ est'.currBitrate <= Max({MinConf, Grown(lows'[a])})

LEMMA RaisedIsBounded ==
    ASSUME EstimateInv, EstimateInv', NEW b \in Nat, RaisedFrom(b),
           cutTo' \in Rates,
           lows' \in [0 .. IncreaseInterval -> Rates],
           b <= est.currBitrate \/ b = MinConf
    PROVE  Bounded
<1> SUFFICES ASSUME settled, est'.currBitrate > est.currBitrate
             PROVE  \/ /\ cutTo' # None
                       /\ est'.currBitrate <= Max({MinConf, cutTo'})
                    \/ \A a \in DOMAIN lows' :
                          lows'[a] = None
                            \/ est'.currBitrate <= Max({MinConf, Grown(lows'[a])})
  BY DEF Bounded
<1>1. est.currBitrate \in Nat /\ est'.currBitrate \in Nat
  BY DEF EstimateInv, Estimates
<1>2. MinConf \in Nat /\ MinConf <= est.currBitrate
  BY EstimationAssumption DEF EstimateInv, Within
<1>3. ~(est'.currBitrate <= b) /\ est'.currBitrate # MinConf
  BY <1>1, <1>2
<1>4. ASSUME NEW g \in Nat, est'.currBitrate <= g
      PROVE  est'.currBitrate <= Max({MinConf, g})
  <2>1. /\ Max({MinConf, g, g}) >= g /\ Max({MinConf, g, g}) \in {MinConf, g, g}
        /\ {MinConf, g, g} = {MinConf, g}
    BY <1>2, MaxOfThree
  <2>2. Max({MinConf, g}) \in Nat /\ Max({MinConf, g}) >= g
    BY <1>2, <2>1
  <2> QED BY <1>1, <1>4, <2>2
<1>5. CASE cutTo' # None /\ est'.currBitrate <= cutTo'
  <2>1. cutTo' \in Nat
    BY <1>5 DEF Rates
  <2>2. est'.currBitrate <= Max({MinConf, cutTo'})
    BY <1>4, <1>5, <2>1
  <2> QED BY <1>5, <2>2
<1>6. CASE \A a \in DOMAIN lows' :
              lows'[a] = None \/ est'.currBitrate <= Grown(lows'[a])
  <2>1. ASSUME NEW a \in DOMAIN lows', lows'[a] # None
        PROVE  est'.currBitrate <= Max({MinConf, Grown(lows'[a])})
    <3>1. lows'[a] \in Rates
      OBVIOUS
    <3>2. lows'[a] \in Nat /\ lows'[a] <= lows'[a]
      BY <2>1, <3>1 DEF Rates
    <3>3. Grown(lows'[a]) \in Nat
      BY <3>2, GrownGrows
    <3>4. est'.currBitrate <= Grown(lows'[a])
      BY <1>6, <2>1
    <3> QED BY <1>4, <3>3, <3>4
  <2> QED BY <2>1
<1> QED BY <1>3, <1>5, <1>6 DEF RaisedFrom

LEMMA GrowthStep ==
    GrowthInv /\ HistoryHasRoom /\ [Next]_vars => GrowthInv' /\ Bounded
<1> SUFFICES ASSUME GrowthInv, HistoryHasRoom, [Next]_vars
             PROVE  GrowthInv' /\ Bounded
  OBVIOUS
<1>1. EstimateInv /\ EstimateInv' /\ est \in Estimates /\ now \in Nat /\ Word \in Nat
      /\ est.currBitrate \in Nat
  <2>1. EstimateInv /\ EstimateInv'
    BY EstimateStep DEF GrowthInv
  <2> QED BY <2>1, EstimationAssumption DEF EstimateInv, Estimates
<1>2. ASSUME now' = now, lows' \in [0 .. IncreaseInterval -> Rates],
             cutTo' \in Rates, Recorded(est.minBitrates, lows)', Starting(est)',
             NEW b \in Nat, RaisedFrom(b), b <= est.currBitrate \/ b = MinConf
      PROVE  GrowthInv' /\ Bounded
  <2>1. Bounded
    BY <1>1, <1>2, RaisedIsBounded
  <2> QED BY <1>1, <1>2, <2>1 DEF GrowthInv
<1>3. ASSUME NEW acked \in AckedRates, ProcBitrateHeartbeat(acked)
      PROVE  GrowthInv' /\ Bounded
  <2>1. /\ acked \in Nat /\ now' = now /\ est' = UpdateEstimation(est, acked)
        /\ lows' = [lows EXCEPT ![0] = LeastOf(@, est.currBitrate)]
        /\ cutTo' = IF CutsNow(est) THEN acked ELSE None
    BY <1>3, ControllerAssumption DEF ProcBitrateHeartbeat, Remember
  <2>2. /\ lows' \in [0 .. IncreaseInterval -> Rates]
        /\ Recorded(est.minBitrates, lows)' /\ Starting(est)'
        /\ RaisedFrom(est.currBitrate)
    BY <1>1, <2>1, UpdateIsRecorded DEF GrowthInv, HistoryHasRoom
  <2>3. est.currBitrate <= est.currBitrate /\ cutTo' \in Rates
    BY <1>1, <2>1 DEF Rates
  <2> QED BY <1>1, <1>2, <2>1, <2>2, <2>3
<1>4. ASSUME NEW bitrate \in DelayRates, NEW over \in BOOLEAN,
             OnDelayBasedResult(bitrate, over)
      PROVE  GrowthInv' /\ Bounded
  <2>1. /\ bitrate \in Nat /\ est' = UpdateDelayBase(est, bitrate, over)
        /\ lows' = lows /\ now' = now /\ cutTo' \in Rates
    BY <1>4, ControllerAssumption DEF OnDelayBasedResult, Rates
  <2>2. /\ est'.minBitrates = est.minBitrates
        /\ est'.firstReportTs = est.firstReportTs
        /\ est'.currBitrate <= est.currBitrate \/ est'.currBitrate = MinConf
    BY <1>1, <2>1, DelayIsHeard
  <2>3. Recorded(est.minBitrates, lows)' /\ Starting(est)'
    BY <2>1, <2>2 DEF GrowthInv, Recorded, Ascending, Holds, NowSigned, Now32, Starting
  <2>4. RaisedFrom(est.currBitrate) /\ est.currBitrate <= est.currBitrate
    BY <1>1, <2>2 DEF RaisedFrom
  <2>5. lows' \in [0 .. IncreaseInterval -> Rates]
    BY <2>1 DEF GrowthInv
  <2> QED BY <1>1, <1>2, <2>1, <2>3, <2>4, <2>5
<1>5. ASSUME NEW fraction \in Fractions, NEW packets \in PacketCounts,
             NEW rtt \in Rtts, NEW steady \in BOOLEAN, NEW acked \in AckedRates,
             OnLossInfoResult(fraction, packets, rtt, steady, acked)
      PROVE  GrowthInv' /\ Bounded
  <2>1. LossInfo(est, fraction, packets, rtt, steady, acked) /\ now' = now
    BY <1>5 DEF OnLossInfoResult
  <2>2. /\ lows' \in [0 .. IncreaseInterval -> Rates]
        /\ Recorded(est.minBitrates, lows)' /\ Starting(est)'
        /\ cutTo' \in Rates /\ RaisedFrom(est.currBitrate)
    BY <1>1, <2>1, ReportIsRecorded
  <2>3. est.currBitrate <= est.currBitrate /\ cutTo' \in Rates
    BY <1>1, <2>2
  <2> QED BY <1>1, <1>2, <2>1, <2>2, <2>3
<1>6. ASSUME NEW bitrate \in DelayRates, NEW over \in BOOLEAN,
             NEW fraction \in Fractions, NEW packets \in PacketCounts,
             NEW rtt \in Rtts, NEW steady \in BOOLEAN, NEW acked \in AckedRates,
             OnBothResults(bitrate, over, fraction, packets, rtt, steady, acked)
      PROVE  GrowthInv' /\ Bounded
  <2> DEFINE d == UpdateDelayBase(est, bitrate, over)
  <2>1. bitrate \in Nat
    BY ControllerAssumption
  <2>2. LossInfo(d, fraction, packets, rtt, steady, acked) /\ now' = now
    BY <1>6 DEF OnBothResults
  <2>3. /\ d \in Estimates /\ d.minBitrates = est.minBitrates
        /\ d.firstReportTs = est.firstReportTs
        /\ d.currBitrate <= est.currBitrate \/ d.currBitrate = MinConf
    BY <1>1, <2>1, DelayIsHeard
  <2> HIDE DEF d
  <2>4. /\ lows' \in [0 .. IncreaseInterval -> Rates]
        /\ Recorded(est.minBitrates, lows)' /\ Starting(est)'
        /\ cutTo' \in Rates /\ RaisedFrom(d.currBitrate)
    BY <2>2, <2>3, ReportIsRecorded
  <2>5. d.currBitrate \in Nat
    BY <2>3 DEF Estimates
  <2> QED BY <1>2, <2>2, <2>3, <2>4, <2>5
<1>7. CASE Clock
  <2>1. /\ est' = est /\ now' = now + 1
        /\ lows' = [a \in DOMAIN lows |-> IF a = 0 THEN None ELSE lows[a - 1]]
    BY <1>7 DEF Clock
  <2>2. lows \in [0 .. IncreaseInterval -> Rates] /\ IncreaseInterval \in Nat
    BY EstimationAssumption DEF GrowthInv
  <2>3. lows' \in [0 .. IncreaseInterval -> Rates]
    <3>1. \A a \in 0 .. IncreaseInterval : a # 0 => a - 1 \in 0 .. IncreaseInterval
      BY <2>2
    <3>2. None \in Rates
      BY DEF Rates
    <3> QED BY <2>1, <2>2, <3>1, <3>2
  <2>4. NowSigned' <= NowSigned + 1 /\ NowSigned \in Int /\ NowSigned' \in Int
    <3>1. now' \in Nat
      BY <1>1, <2>1
    <3> QED BY <1>1, <2>1, <3>1, SignedClock, Clocks, ClocksNext
  <2>5. Recorded(est.minBitrates, lows)'
    <3> DEFINE h == est.minBitrates
    <3>1. h' = h /\ h \in Seq(Entries)
      BY <1>1, <2>1 DEF Estimates
    <3>2. Ascending(h)' = Ascending(h) /\ Ascending(h)
      BY <3>1 DEF GrowthInv, Recorded, Ascending
    <3>3. ASSUME NEW a \in 0 .. IncreaseInterval, lows'[a] # None
          PROVE  Holds(h, lows[a], a)'
      <4>1. a # 0 /\ lows'[a] = lows[a - 1] /\ a - 1 \in 0 .. IncreaseInterval
        BY <2>1, <2>2, <3>3
      <4>2. PICK i \in DOMAIN h : /\ h[i].bitrate <= lows[a - 1]
                                  /\ h[i].ts + (a - 1) >= NowSigned
        BY <3>3, <4>1 DEF GrowthInv, Recorded, Holds
      <4>3. h[i].ts \in Int
        BY <3>1, EntryTypes
      <4>4. h[i].ts + a >= NowSigned'
        BY <2>4, <4>1, <4>2, <4>3
      <4> HIDE DEF h
      <4> QED BY <3>1, <4>1, <4>2, <4>4 DEF Holds
    <3> HIDE DEF h
    <3>4. \A a \in 0 .. IncreaseInterval : lows'[a] # None => Holds(h, lows[a], a)'
      BY <3>3
    <3> QED BY <3>2, <3>4 DEF Recorded, h
  <2>6. Starting(est)' /\ now' >= Word
    BY <1>1, <2>1 DEF GrowthInv, Starting
  <2>7. Bounded
    BY <1>1, <2>1 DEF Bounded
  <2> QED BY <1>1, <2>3, <2>5, <2>6, <2>7 DEF GrowthInv
<1>8. CASE UNCHANGED vars
  <2>1. UNCHANGED <<est, now, lows>>
    BY <1>8 DEF vars, historyVars
  <2>2. Recorded(est.minBitrates, lows)' /\ Starting(est)'
    BY <2>1 DEF GrowthInv, Recorded, Ascending, Holds, NowSigned, Now32, Starting
  <2>3. Bounded
    BY <1>1, <2>1 DEF Bounded
  <2> QED BY <1>1, <2>1, <2>2, <2>3 DEF GrowthInv
<1> QED BY <1>3, <1>4, <1>5, <1>6, <1>7, <1>8 DEF Next, ProcessFeedback

LEMMA GrowthInit == Init => GrowthInv
<1> SUFFICES ASSUME Init PROVE GrowthInv
  OBVIOUS
<1>1. est.minBitrates = <<>> /\ est.firstReportTs = None
  BY DEF Init
<1>2. lows = [a \in 0 .. IncreaseInterval |-> None] /\ None \in Rates
  BY DEF Init, Rates
<1>3. Ascending(<<>>)
  BY DEF Ascending
<1>4. Recorded(est.minBitrates, lows)
  BY <1>1, <1>2, <1>3 DEF Recorded
<1>5. now >= Word
  BY ControllerAssumption DEF Init
<1> QED BY <1>1, <1>2, <1>4, <1>5, EstimateInit DEF GrowthInv, Starting

(* As long as the history of the last interval has a slot to spare, the    *)
(* rate never compounds: for every clock, and also where its 32 bits wrap  *)
(* or change sign, it grows from the least rate of the interval, or by the *)
(* step that cuts it to what was acknowledged.  Without the slot it may:   *)
(* a full history drops its least entry, which its head is                 *)
(* (updateEstimation, __updateMinHistory).                                 *)
THEOREM GrowthDoesNotCompound == Spec /\ []HistoryHasRoom => GrowthBounded
<1>1. Spec /\ []HistoryHasRoom => [][Bounded]_vars
  BY GrowthInit, GrowthStep, PTL DEF Spec
<1> QED BY <1>1 DEF GrowthBounded, Bounded

=============================================================================
