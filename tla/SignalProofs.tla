----------------------------- MODULE SignalProofs -----------------------------
(***************************************************************************)
(* Proofs about the arrival filter and the overuse detector, for all       *)
(* packets, slopes, thresholds and initial values.                         *)
(***************************************************************************)
EXTENDS DelaySignal, TLAPS

-----------------------------------------------------------------------------
(* What 32 bits keep of a time: the remainder of a division by Word.       *)
LEMMA CutIs ==
    ASSUME NEW q \in Int, NEW r \in 0 .. Word - 1
    PROVE  Cut(Word * q + r) = r
<1> DEFINE w == Word
           x == w * q + r
           p == x \div w
           s == x % w
<1>1. w \in Nat \ {0} /\ w * q \in Int
  BY ArrivalAssumption
<1>2. x \in Int /\ r \in 0 .. w - 1 /\ x = w * q + r
  BY <1>1
<1> HIDE DEF w, x
<1>3. p \in Int /\ s \in 0 .. w - 1 /\ x = w * p + s
  BY <1>1, <1>2
<1> HIDE DEF p, s
<1>4. ASSUME NEW a \in Int, NEW b \in Int, a > b
      PROVE  w * a >= w * b + w
  <2> DEFINE k == a - b - 1
  <2>1. k \in Nat
    BY <1>4
  <2>2. w * k = w * a - w * b - w
    BY <1>1, <1>4
  <2> HIDE DEF k
  <2>3. w * k \in Nat
    BY <1>1, <2>1
  <2> QED BY <1>1, <1>4, <2>2, <2>3
<1>5. w * q \in Int /\ w * p \in Int
  BY <1>1, <1>3
<1>6. ~(q > p) /\ ~(p > q)
  BY <1>1, <1>2, <1>3, <1>4, <1>5
<1>7. q = p
  BY <1>3, <1>6
<1>8. s = r
  BY <1>1, <1>2, <1>3, <1>5, <1>7
<1> QED BY <1>8 DEF s, x, w, Cut

LEMMA CutOf ==
    ASSUME NEW t \in Int
    PROVE  /\ Cut(t) \in 0 .. Word - 1
           /\ \E q \in Int : t = Word * q + Cut(t)
<1> DEFINE w == Word
           q == t \div w
           r == t % w
<1>1. w \in Nat \ {0}
  BY ArrivalAssumption
<1> HIDE DEF w
<1>2. q \in Int /\ r \in 0 .. w - 1 /\ t = w * q + r
  BY <1>1
<1> HIDE DEF q
<1>3. r = Cut(t) /\ w = Word
  BY DEF r, w, Cut
<1> HIDE DEF r
<1>4. r \in 0 .. w - 1 /\ \E k \in Int : t = w * k + r
  BY <1>2
<1> QED BY <1>3, <1>4

LEMMA CutOfSmall ==
    ASSUME NEW t \in 0 .. Word - 1
    PROVE  Cut(t) = t
<1>1. Word * 0 + t = t
  BY ArrivalAssumption
<1> QED BY <1>1, CutIs

(* Whole laps do not count.                                                *)
LEMMA SameCut ==
    ASSUME NEW a \in Int, NEW b \in Int, NEW k \in Int, a = b + Word * k
    PROVE  Cut(a) = Cut(b)
<1>1. PICK q \in Int : b = Word * q + Cut(b)
  BY CutOf
<1> DEFINE r == Cut(b)
<1>2. r \in 0 .. Word - 1 /\ b = Word * q + r /\ Word \in Int
  BY <1>1, CutOf, ArrivalAssumption
<1> HIDE DEF r
<1>3. q + k \in Int /\ Word * (q + k) = Word * q + Word * k
  BY <1>2
<1>4. a = Word * (q + k) + r
  BY <1>2, <1>3
<1>5. Cut(Word * (q + k) + r) = r
  BY <1>2, <1>3, CutIs
<1> QED BY <1>4, <1>5 DEF r

(* The difference of what is kept of two times is, but for whole laps,     *)
(* that of the times.                                                      *)
LEMMA CutOfDifference ==
    ASSUME NEW g \in Int, NEW d \in Int, Cut(g) = Cut(d),
           NEW a \in Int, NEW b \in Int
    PROVE  Cut(g + Cut(a) - Cut(b)) = Cut(d + a - b)
<1>1. PICK i \in Int : g = Word * i + Cut(g)
  BY CutOf
<1>2. PICK j \in Int : d = Word * j + Cut(d)
  BY CutOf
<1>3. PICK k \in Int : a = Word * k + Cut(a)
  BY CutOf
<1>4. PICK l \in Int : b = Word * l + Cut(b)
  BY CutOf
<1> DEFINE u == Cut(a)
           v == Cut(b)
           c == Cut(d)
           w == Word
           n == i - j - k + l
<1>5. u \in Int /\ v \in Int /\ c \in Int /\ w \in Int /\ n \in Int
  <2>1. /\ Cut(a) \in 0 .. Word - 1 /\ Cut(b) \in 0 .. Word - 1
        /\ Cut(d) \in 0 .. Word - 1
    BY CutOf
  <2> QED BY <2>1, ArrivalAssumption
<1>6. g = w * i + c /\ d = w * j + c /\ a = w * k + u /\ b = w * l + v
  BY <1>1, <1>2, <1>3, <1>4
<1> HIDE DEF u, v, c, w
<1>7. w * n = w * i - w * j - w * k + w * l
  BY <1>5
<1> HIDE DEF n
<1>8. /\ w * i \in Int /\ w * j \in Int /\ w * k \in Int /\ w * l \in Int
      /\ w * n \in Int
  BY <1>5
<1>9. g + u - v = (d + a - b) + w * n
  BY <1>5, <1>6, <1>7, <1>8
<1>10. g + u - v \in Int /\ d + a - b \in Int
  BY <1>5
<1> DEFINE x == g + u - v
           y == d + a - b
<1>11. x \in Int /\ y \in Int /\ x = y + w * n
  BY <1>9, <1>10
<1> HIDE DEF x, y
<1>12. x = y + Word * n
  BY <1>11 DEF w
<1>13. Cut(x) = Cut(y)
  BY <1>5, <1>11, <1>12, SameCut
<1> QED BY <1>13 DEF x, y, u, v

LEMMA CutOfTwo ==
    ASSUME NEW a \in Int, NEW b \in Int
    PROVE  Cut(Cut(a) - Cut(b)) = Cut(a - b)
<1> DEFINE z == 0
<1>1. z \in Int /\ Cut(z) = Cut(z)
  OBVIOUS
<1> HIDE DEF z
<1>2. Cut(z + Cut(a) - Cut(b)) = Cut(z + a - b)
  BY <1>1, CutOfDifference, Zenon
<1>3. Cut(a) \in Int /\ Cut(b) \in Int
  <2>1. Cut(a) \in 0 .. Word - 1 /\ Cut(b) \in 0 .. Word - 1
    BY CutOf
  <2> QED BY <2>1
<1>4. z + Cut(a) - Cut(b) = Cut(a) - Cut(b) /\ z + a - b = a - b
  BY <1>3 DEF z
<1> QED BY <1>2, <1>4

-----------------------------------------------------------------------------
(* The filter.                                                             *)

ArrivalTypeOK ==
    /\ cur \in BOOLEAN /\ prev \in BOOLEAN
    /\ reordered \in BOOLEAN /\ newest \in Int /\ apart \in Int
    /\ prev => cur
    /\ first \in Nat /\ stamp \in 0 .. Word - 1
    /\ gap \in [ts : Int, arrival : Int, sys : Int]
    /\ numConsecutive \in Int

(* While the packets come in order, the timestamp of the current group is  *)
(* what 32 bits keep of the newest of them.                                *)
ReachesNewest ==
    /\ ~cur => newest = 0 /\ ~reordered
    /\ cur /\ ~reordered => newest >= 0 /\ stamp = Cut(first + newest)

ArrivalInv == ArrivalTypeOK /\ ReachesNewest /\ OrderedIsExact

LEMMA NoGapFits == /\ NoGap \in [ts : Int, arrival : Int, sys : Int]
                   /\ NoGap.ts = 0 /\ NoGap.arrival = 0
BY DEF NoGap

LEMMA ZeroFits == 0 \in 0 .. Word - 1
BY ArrivalAssumption

LEMMA ArrivalStart == ArrivalInit => ArrivalInv
<1> SUFFICES ASSUME ArrivalInit PROVE ArrivalInv
  OBVIOUS
<1>1. ArrivalTypeOK
  BY NoGapFits, ZeroFits, ArrivalAssumption DEF ArrivalInit, ArrivalTypeOK
<1>2. ReachesNewest
  BY DEF ArrivalInit, ReachesNewest
<1>3. OrderedIsExact
  BY DEF ArrivalInit, OrderedIsExact
<1> QED
  BY <1>1, <1>2, <1>3 DEF ArrivalInv

LEMMA ResetKeeps ==
    ASSUME ArrivalInv, ResetGroupTs, numConsecutive' \in Int
    PROVE  ArrivalInv'
<1>1. ArrivalTypeOK'
  BY NoGapFits, ZeroFits DEF ResetGroupTs, ArrivalTypeOK, ArrivalInv
<1>2. ReachesNewest'
  BY DEF ResetGroupTs, ReachesNewest
<1>3. OrderedIsExact'
  BY DEF ResetGroupTs, OrderedIsExact
<1> QED
  BY <1>1, <1>2, <1>3 DEF ArrivalInv

LEMMA CountedInt == ASSUME NEW n \in Int PROVE Counted(n) \in Int
BY DEF Counted

LEMMA SameArrivals ==
    ASSUME ArrivalInv, UNCHANGED <<groupVars, orderVars>>, numConsecutive' \in Int
    PROVE  ArrivalInv'
<1>1. UNCHANGED <<cur, prev, first, stamp, gap, newest, apart, reordered>>
  BY DEF groupVars, orderVars
<1> QED
  BY <1>1 DEF ArrivalInv, ArrivalTypeOK, ReachesNewest, OrderedIsExact, Cut

LEMMA RefuseKeeps ==
    ASSUME ArrivalInv, NEW p \in Packets, Refuse(p)
    PROVE  ArrivalInv'
<1>1. numConsecutive \in Int /\ Counted(numConsecutive) \in Int
  BY CountedInt DEF ArrivalInv, ArrivalTypeOK
<1>2. CASE UNCHANGED arrivalVars
  BY <1>1, <1>2, SameArrivals DEF arrivalVars
<1>3. CASE ResetGroupTs /\ UNCHANGED numConsecutive
  BY <1>1, <1>3, ResetKeeps
<1>4. CASE numConsecutive' = Counted(numConsecutive) /\ ResetGroupTs
  BY <1>1, <1>4, ResetKeeps
<1>5. CASE numConsecutive' = Counted(numConsecutive)
           /\ UNCHANGED <<groupVars, orderVars>>
  BY <1>1, <1>5, SameArrivals
<1> QED
  BY <1>2, <1>3, <1>4, <1>5 DEF Refuse

LEMMA AcceptKeeps ==
    ASSUME ArrivalInv, NEW p \in Packets, Accept(p)
    PROVE  ArrivalInv'
<1> DEFINE t == Time(p)
<1>1. p.ahead \in Int /\ p.arrival \in Int /\ p.sys \in Int
  BY SignalAssumption
<1>2. /\ t = first + p.ahead /\ t \in Int /\ Cut(t) \in 0 .. Word - 1
      /\ first \in Nat /\ stamp \in 0 .. Word - 1 /\ newest \in Int
      /\ apart \in Int /\ gap.ts \in Int /\ Word \in Nat
  <2>1. /\ first \in Nat /\ stamp \in 0 .. Word - 1 /\ newest \in Int
        /\ apart \in Int /\ gap.ts \in Int /\ Word \in Nat
    BY ArrivalAssumption DEF ArrivalInv, ArrivalTypeOK
  <2>2. t = first + p.ahead
    BY DEF Time
  <2> HIDE DEF t
  <2>3. t \in Int
    BY <1>1, <2>1, <2>2
  <2>4. Cut(t) \in 0 .. Word - 1
    BY <2>3, CutOf
  <2> QED BY <2>1, <2>2, <2>3, <2>4
<1>3. ASSUME ~TooOld(p)
      PROVE  t \in Nat
  BY <1>2, <1>3 DEF TooOld
<1>4. CASE FirstPacket(p)
  <2>1. /\ cur' = TRUE /\ first' = t /\ stamp' = Cut(t) /\ ~cur
        /\ UNCHANGED <<prev, gap, numConsecutive, newest, apart, reordered>>
        /\ t \in Nat
    BY <1>3, <1>4 DEF FirstPacket, orderVars
  <2>2. ~prev /\ newest = 0
    BY <2>1 DEF ArrivalInv, ArrivalTypeOK, ReachesNewest
  <2> HIDE DEF t
  <2>3. ArrivalTypeOK'
    BY <1>2, <2>1 DEF ArrivalInv, ArrivalTypeOK
  <2>4. Cut(first + newest)' = Cut(t)
    BY <2>1, <2>2 DEF Cut
  <2>5. ReachesNewest'
    BY <2>1, <2>2, <2>4 DEF ReachesNewest
  <2>6. OrderedIsExact'
    BY <2>1, <2>2 DEF OrderedIsExact
  <2> QED
    BY <2>3, <2>5, <2>6 DEF ArrivalInv
<1>5. CASE StartGroup(p)
  <2>1. Later(p) \in Int /\ Later(p) = Cut(t) - stamp
    BY <1>2 DEF Later
  <2>2. /\ cur /\ cur' = cur /\ prev' = TRUE /\ first' = t /\ stamp' = Cut(t)
        /\ gap' = [ts |-> Later(p), arrival |-> p.arrival, sys |-> p.sys]
        /\ numConsecutive' \in Int /\ t \in Nat
    BY <1>3, <1>5 DEF StartGroup, StartsGroup, ArrivalInv, ArrivalTypeOK
  <2>3. /\ reordered' = (reordered \/ p.ahead < newest \/ p.arrival < 0)
        /\ newest' = IF reordered' THEN 0 ELSE p.ahead - p.ahead
        /\ apart' = IF reordered' THEN 0 ELSE 0 + p.ahead - newest
    BY <1>5 DEF StartGroup, Remember, Disordered
  <2> HIDE DEF t
  <2>4. ArrivalTypeOK'
    BY <1>1, <1>2, <2>1, <2>2, <2>3 DEF ArrivalInv, ArrivalTypeOK
  <2>5. ReachesNewest'
    <3> SUFFICES ASSUME ~reordered'
                 PROVE  newest' >= 0 /\ stamp' = Cut(first + newest)'
      BY <2>2 DEF ReachesNewest
    <3>1. newest' = 0 /\ first' + newest' = t
      BY <1>1, <1>2, <2>2, <2>3
    <3>2. Cut(first + newest)' = Cut(t)
      BY <3>1 DEF Cut
    <3> QED
      BY <2>2, <3>1, <3>2
  <2>6. OrderedIsExact'
    <3> SUFFICES ASSUME ~reordered'
                 PROVE  Cut(gap.ts)' = Cut(apart)' /\ gap'.arrival >= 0
      BY DEF OrderedIsExact
    <3>1. ~reordered /\ ~(p.arrival < 0) /\ apart' = 0 + p.ahead - newest
      BY <2>3
    <3> DEFINE n == first + newest
    <3>2. stamp = Cut(n) /\ n \in Int
      BY <1>2, <2>2, <3>1 DEF ArrivalInv, ReachesNewest
    <3>3. t - n = p.ahead - newest
      BY <1>1, <1>2
    <3> HIDE DEF n
    <3>4. Cut(Cut(t) - Cut(n)) = Cut(t - n)
      BY <1>2, <3>2, CutOfTwo
    <3>5. gap'.ts = Cut(t) - Cut(n)
      BY <1>2, <2>1, <2>2, <3>2
    <3>6. apart' = t - n
      BY <1>1, <1>2, <3>1, <3>2, <3>3
    <3>7. Cut(gap.ts)' = Cut(apart)'
      BY <3>4, <3>5, <3>6 DEF Cut
    <3> QED
      BY <1>1, <2>2, <3>1, <3>7
  <2> QED
    BY <2>4, <2>5, <2>6 DEF ArrivalInv
<1>6. CASE JoinGroup(p)
  <2> DEFINE s == Stamped(p)
  <2>1. s = IF t > stamp THEN Cut(t) ELSE stamp
    BY DEF Stamped
  <2>2. s \in 0 .. Word - 1
    BY <1>2, <2>1
  <2>3. /\ cur /\ cur' = cur /\ prev' = prev /\ first' = first /\ stamp' = s
        /\ gap' = IF prev THEN [ts |-> gap.ts + s - stamp,
                                arrival |-> gap.arrival + p.arrival,
                                sys |-> gap.sys + p.sys]
                          ELSE gap
        /\ numConsecutive' = numConsecutive
    BY <1>6 DEF JoinGroup
  <2>4. /\ reordered' = (reordered \/ p.ahead < newest \/ p.arrival < 0)
        /\ newest' = IF reordered' THEN 0 ELSE p.ahead - 0
        /\ apart' = IF reordered' THEN 0 ELSE apart + p.ahead - newest
    BY <1>6 DEF JoinGroup, Remember, Disordered
  <2> HIDE DEF t, s
  <2>5. gap' \in [ts : Int, arrival : Int, sys : Int]
    BY <1>1, <1>2, <2>2, <2>3 DEF ArrivalInv, ArrivalTypeOK
  <2>6. ArrivalTypeOK'
    BY <1>1, <1>2, <2>2, <2>3, <2>4, <2>5 DEF ArrivalInv, ArrivalTypeOK
  <2>7. ASSUME ~reordered'
        PROVE  /\ ~reordered /\ ~(p.arrival < 0) /\ newest' = p.ahead
               /\ stamp = Cut(first + newest) /\ s = Cut(t) /\ newest' >= 0
    <3>1. ~reordered /\ ~(p.ahead < newest) /\ ~(p.arrival < 0)
      BY <2>4, <2>7
    <3>2. newest >= 0 /\ stamp = Cut(first + newest)
      BY <2>3, <3>1 DEF ArrivalInv, ReachesNewest
    <3>3. newest' = p.ahead /\ p.ahead >= 0
      BY <1>1, <1>2, <2>4, <2>7, <3>1, <3>2
    <3>4. CASE t > stamp
      BY <2>1, <3>1, <3>2, <3>3, <3>4
    <3>5. CASE ~(t > stamp)
      <4>1. t \in 0 .. Word - 1 /\ first + newest \in 0 .. t
        BY <1>1, <1>2, <3>1, <3>2, <3>3, <3>5
      <4>2. first + newest \in 0 .. Word - 1
        BY <1>2, <4>1
      <4>3. Cut(t) = t /\ stamp = first + newest
        BY <3>2, <4>1, <4>2, CutOfSmall
      <4>4. stamp = t
        BY <1>2, <3>5, <4>1, <4>3
      <4> QED
        BY <2>1, <3>1, <3>2, <3>3, <3>5, <4>3, <4>4
    <3> QED
      BY <3>4, <3>5
  <2>8. ReachesNewest'
    <3> SUFFICES ASSUME ~reordered'
                 PROVE  newest' >= 0 /\ stamp' = Cut(first + newest)'
      BY <2>3 DEF ReachesNewest
    <3>1. first' + newest' = t
      BY <1>2, <2>3, <2>7
    <3>2. Cut(first + newest)' = Cut(t)
      BY <3>1 DEF Cut
    <3> QED
      BY <2>3, <2>7, <3>2
  <2>9. OrderedIsExact'
    <3> SUFFICES ASSUME prev, ~reordered'
                 PROVE  Cut(gap.ts)' = Cut(apart)' /\ gap'.arrival >= 0
      BY <2>3 DEF OrderedIsExact
    <3>1. /\ Cut(gap.ts) = Cut(apart) /\ gap.arrival >= 0
          /\ gap.arrival \in Int
      BY <2>7 DEF ArrivalInv, ArrivalTypeOK, OrderedIsExact
    <3>2. gap'.ts = gap.ts + s - stamp /\ gap'.arrival = gap.arrival + p.arrival
      BY <2>3
    <3> DEFINE n == first + newest
    <3>3. stamp = Cut(n) /\ n \in Int /\ s = Cut(t) /\ t - n = p.ahead - newest
      BY <1>1, <1>2, <2>7
    <3> HIDE DEF n
    <3>4. Cut(gap.ts + Cut(t) - Cut(n)) = Cut(apart + t - n)
      <4> DEFINE g == gap.ts
      <4>1. /\ g \in Int /\ apart \in Int /\ Cut(g) = Cut(apart)
            /\ t \in Int /\ n \in Int
        BY <1>2, <3>1, <3>3
      <4> HIDE DEF g
      <4>2. Cut(g + Cut(t) - Cut(n)) = Cut(apart + t - n)
        BY ONLY <4>1, CutOfDifference
      <4> QED BY <4>2 DEF g
    <3>5. gap'.ts = gap.ts + Cut(t) - Cut(n)
      BY <3>2, <3>3
    <3>6. apart' = apart + t - n
      BY <1>1, <1>2, <2>4, <3>3
    <3>7. Cut(gap.ts)' = Cut(apart)'
      BY <3>4, <3>5, <3>6 DEF Cut
    <3>8. gap'.arrival >= 0
      BY <1>1, <2>7, <3>1, <3>2
    <3> QED
      BY <3>7, <3>8
  <2> QED
    BY <2>6, <2>8, <2>9 DEF ArrivalInv
<1> QED
  BY <1>4, <1>5, <1>6 DEF Accept

-----------------------------------------------------------------------------
(* The detector.                                                           *)

Detectors ==
    [state : Signals, threshold : ThresholdMin .. ThresholdMax,
     timing : BOOLEAN, overuseCounter : Int, prevOffset : Int,
     adapting : BOOLEAN]

LEMMA SampledGrows ==
    ASSUME numOfDeltas \in 0 .. MinNumDeltas
    PROVE  /\ Sampled \in 0 .. MinNumDeltas
           /\ numOfDeltas >= 2 => Sampled >= 2
BY DetectorAssumption DEF Sampled, LeastOf

(* The threshold never leaves its range.                                   *)
LEMMA AdaptedInRange ==
    ASSUME NEW d \in Detectors, NEW T \in Int, NEW dt \in Int
    PROVE  Adapted(d, T, dt) \in ThresholdMin .. ThresholdMax
<1> DEFINE off == Magnitude(T) - d.threshold
           elapsed == IF d.adapting THEN LeastOf(dt, MaxTimeDelta) ELSE 0
           k == IF off < 0 THEN Down ELSE Up
<1>1. d.threshold \in Int /\ ThresholdMin \in Nat /\ ThresholdMax \in Nat
      /\ ThresholdMin <= ThresholdMax
  BY DetectorAssumption DEF Detectors
<1>2. off \in Int /\ elapsed \in Int /\ k \in Int
  BY <1>1, DetectorAssumption DEF Magnitude, GreatestOf, LeastOf
<1>3. Moved(d, T, dt) \in Int
  <2>1. Moved(d, T, dt) = IF off > MaxAdaptOffset THEN 0
                          ELSE DividedBy(k * off * elapsed, Per)
    BY DEF Moved
  <2> HIDE DEF off, elapsed, k
  <2>2. k * off * elapsed \in Int
    BY <1>2
  <2>3. ASSUME NEW x \in Int PROVE DividedBy(x, Per) \in Int
    BY DetectorAssumption DEF DividedBy
  <2> QED
    BY <2>1, <2>2, <2>3
<1> QED
  BY <1>1, <1>3 DEF Adapted, GreatestOf, LeastOf

(* A change of the detector's members leaves a detector.                   *)
LEMMA DetectorChanged ==
    ASSUME NEW d \in Detectors, NEW offset \in Int,
           NEW threshold \in ThresholdMin .. ThresholdMax,
           NEW state \in Signals, NEW timing \in BOOLEAN, NEW count \in Int
    PROVE  [d EXCEPT !.prevOffset = offset, !.threshold = threshold,
                     !.adapting = TRUE, !.state = state,
                     !.timing = timing, !.overuseCounter = count] \in Detectors
BY DEF Detectors

(* The slope of a sample that counts is remembered.                        *)
LEMMA PreviousOffset ==
    ASSUME NEW d \in Detectors, NEW offset \in Int, NEW tsDelta \in Int,
           NEW n \in Int, n >= 2, NEW dt \in Int
    PROVE  OveruseDetect(d, offset, tsDelta, n, dt).prevOffset = offset
BY DEF OveruseDetect, Detectors

(* A sample that is not above the threshold ends an alarm.                 *)
LEMMA CalmedDown ==
    ASSUME NEW d \in Detectors, NEW offset \in Int, NEW tsDelta \in Int,
           NEW n \in Int, n >= 2, ~Over(d, offset, n), NEW dt \in Int
    PROVE  /\ OveruseDetect(d, offset, tsDelta, n, dt).state # BW_OVERUSING
           /\ OveruseDetect(d, offset, tsDelta, n, dt).overuseCounter = 0
<1>1. ~(Modified(offset, n) > d.threshold)
  BY DEF Over
<1>2. {BW_NORMAL, BW_UNDERUSING} \subseteq Signals \ {BW_OVERUSING}
  BY DEF Signals, BW_OVERUSING, BW_UNDERUSING, BW_NORMAL
<1> QED
  BY <1>1, <1>2 DEF OveruseDetect, Detectors

(* A sample above the threshold is counted, and an alarm ends the count.   *)
LEMMA Detected ==
    ASSUME NEW d \in Detectors, NEW offset \in Int, NEW tsDelta \in Int,
           NEW n \in 0 .. MinNumDeltas, NEW dt \in Int,
           NEW after, after = OveruseDetect(d, offset, tsDelta, n, dt)
    PROVE  /\ after \in Detectors
           /\ Over(d, offset, n) /\ Alarm(d, offset, tsDelta) =>
                after.overuseCounter = 0
           /\ Over(d, offset, n) /\ ~Alarm(d, offset, tsDelta) =>
                /\ after.state = d.state
                /\ after.overuseCounter = LeastOf(d.overuseCounter + 1, 2)
<1> DEFINE T == Modified(offset, n)
           new == Adapted(d, T, dt)
           counted == LeastOf(d.overuseCounter + 1, 2)
           calmed == IF T < -d.threshold THEN BW_UNDERUSING ELSE BW_NORMAL
<1>1. T \in Int
  BY DetectorAssumption DEF Modified, LeastOf
<1>2. new \in ThresholdMin .. ThresholdMax
  BY <1>1, AdaptedInRange
<1>3. counted \in Int
  BY DEF counted, LeastOf, Detectors
<1>4. calmed \in Signals /\ BW_OVERUSING \in Signals
  BY DEF Signals, BW_OVERUSING, BW_UNDERUSING, BW_NORMAL
<1>5. Over(d, offset, n) <=> n >= 2 /\ T > d.threshold
  BY DEF Over
<1>6. after = IF n < 2 THEN d
              ELSE IF T > d.threshold
              THEN IF Alarm(d, offset, tsDelta)
                   THEN [d EXCEPT !.prevOffset = offset, !.threshold = new,
                                  !.adapting = TRUE, !.state = BW_OVERUSING,
                                  !.timing = TRUE, !.overuseCounter = 0]
                   ELSE [d EXCEPT !.prevOffset = offset, !.threshold = new,
                                  !.adapting = TRUE, !.timing = TRUE,
                                  !.overuseCounter = counted]
              ELSE [d EXCEPT !.prevOffset = offset, !.threshold = new,
                             !.adapting = TRUE, !.state = calmed,
                             !.timing = FALSE, !.overuseCounter = 0]
  BY DEF OveruseDetect
<1> SUFFICES
      /\ after \in Detectors
      /\ n >= 2 /\ T > d.threshold /\ Alarm(d, offset, tsDelta) =>
           after.overuseCounter = 0
      /\ n >= 2 /\ T > d.threshold /\ ~Alarm(d, offset, tsDelta) =>
           after.state = d.state /\ after.overuseCounter = counted
  BY <1>5
<1> HIDE DEF T, new, counted, calmed
<1>7. CASE n < 2
  BY <1>6, <1>7
<1>8. CASE n >= 2 /\ T > d.threshold /\ Alarm(d, offset, tsDelta)
  <2>1. after = [d EXCEPT !.prevOffset = offset, !.threshold = new,
                          !.adapting = TRUE, !.state = BW_OVERUSING,
                          !.timing = TRUE, !.overuseCounter = 0]
    BY <1>6, <1>8
  <2>2. after \in Detectors
    <3>1. 0 \in Int /\ TRUE \in BOOLEAN
      OBVIOUS
    <3>2. [d EXCEPT !.prevOffset = offset, !.threshold = new,
                    !.adapting = TRUE, !.state = BW_OVERUSING,
                    !.timing = TRUE, !.overuseCounter = 0] \in Detectors
      BY <1>2, <1>4, <3>1, DetectorChanged, Zenon
    <3> QED
      BY <2>1, <3>2, Zenon
  <2>3. after.overuseCounter = 0
    BY <2>1 DEF Detectors
  <2> QED
    BY <1>8, <2>2, <2>3
<1>9. CASE n >= 2 /\ T > d.threshold /\ ~Alarm(d, offset, tsDelta)
  <2>1. after = [d EXCEPT !.prevOffset = offset, !.threshold = new,
                          !.adapting = TRUE, !.timing = TRUE,
                          !.overuseCounter = counted]
    BY <1>6, <1>9
  <2>2. after \in Detectors
    BY <1>2, <1>3, <2>1 DEF Detectors
  <2>3. after.state = d.state /\ after.overuseCounter = counted
    BY <2>1 DEF Detectors
  <2> QED
    BY <1>9, <2>2, <2>3
<1>10. CASE n >= 2 /\ ~(T > d.threshold)
  <2>1. after = [d EXCEPT !.prevOffset = offset, !.threshold = new,
                          !.adapting = TRUE, !.state = calmed,
                          !.timing = FALSE, !.overuseCounter = 0]
    BY <1>6, <1>10
  <2>2. after \in Detectors
    <3>1. 0 \in Int /\ FALSE \in BOOLEAN
      OBVIOUS
    <3>2. [d EXCEPT !.prevOffset = offset, !.threshold = new,
                    !.adapting = TRUE, !.state = calmed,
                    !.timing = FALSE, !.overuseCounter = 0] \in Detectors
      BY <1>2, <1>4, <3>1, DetectorChanged, Zenon
    <3> QED
      BY <2>1, <3>2, Zenon
  <2> QED
    BY <1>10, <2>2
<1> QED
  BY <1>7, <1>8, <1>9, <1>10

-----------------------------------------------------------------------------
(* The two together.                                                       *)

(* Once a sample has not been above the threshold, the counter of the      *)
(* detector is the length of the run that ends now.                        *)
GrowthAgrees ==
    calm => numOfDeltas >= 2 /\ detector.overuseCounter = growing

IInv == ArrivalInv /\ TypeOK /\ GrowthAgrees

LEMMA InitSound == Init => IInv
<1> SUFFICES ASSUME Init PROVE IInv
  OBVIOUS
<1>1. ArrivalInv
  BY ArrivalStart DEF Init
<1>2. detector \in Detectors
  <2>1. /\ BW_NORMAL \in Signals
        /\ Threshold0 \in ThresholdMin .. ThresholdMax
    BY DetectorAssumption DEF Signals
  <2> QED
    BY <2>1, DetectorAssumption DEF Init, NewDetectors, Detectors
<1>3. numOfDeltas \in 0 .. MinNumDeltas /\ growing \in 0 .. 2
      /\ calm = FALSE /\ calm \in BOOLEAN
  <2>1. numOfDeltas \in 0 .. MinNumDeltas
    BY SignalAssumption DEF Init
  <2>2. growing \in 0 .. 2
    BY DEF Init
  <2>3. calm = FALSE /\ calm \in BOOLEAN
    BY DEF Init
  <2> QED
    BY <2>1, <2>2, <2>3
<1>4. TypeOK
  BY <1>1, <1>2, <1>3, Zenon DEF TypeOK, ArrivalInv, ArrivalTypeOK, Detectors
<1>5. GrowthAgrees
  BY <1>3 DEF GrowthAgrees
<1> QED
  BY <1>1, <1>4, <1>5 DEF IInv

(* A sample: the detector's counter follows the run, and an alarm needs    *)
(* one.                                                                    *)
LEMMA SampleSound ==
    ASSUME IInv, NEW p \in Packets, NEW offset \in Slopes,
           ProcessEstimate(p, offset)
    PROVE  /\ IInv'
           /\ calm /\ detector.state # BW_OVERUSING
                  /\ detector'.state = BW_OVERUSING
                => growing >= 1 /\ detector'.prevOffset > detector.prevOffset
<1> DEFINE ts == SendDelta(p)
           n == Sampled
           over == Over(detector, offset, n)
           alarm == Alarm(detector, offset, ts)
<1>1. ArrivalInv'
  BY AcceptKeeps DEF IInv, ProcessEstimate
<1>2. offset \in Int /\ p.arrival \in Int
  BY DetectorAssumption, SignalAssumption
<1>3. ts \in Int
  BY CutOf DEF SendDelta, IInv, ArrivalInv, ArrivalTypeOK
<1>4. n \in 0 .. MinNumDeltas /\ (numOfDeltas >= 2 => n >= 2) /\ n \in Int
  BY SampledGrows DEF IInv, TypeOK
<1>5. detector \in Detectors /\ growing \in 0 .. 2 /\ numOfDeltas \in Int
  BY DEF IInv, TypeOK, Detectors
<1>6. /\ numOfDeltas' = n
      /\ detector' = OveruseDetect(detector, offset, ts, n, p.arrival)
      /\ growing' = IF over /\ ~alarm THEN LeastOf(growing + 1, 2) ELSE 0
      /\ calm' = (calm \/ (n >= 2 /\ ~over))
  BY DEF ProcessEstimate, Detect, RememberGrowth
<1>7. /\ detector' \in Detectors
      /\ n >= 2 => detector'.prevOffset = offset
      /\ n >= 2 /\ over /\ alarm => detector'.overuseCounter = 0
      /\ over /\ ~alarm =>
           /\ detector'.state = detector.state
           /\ detector'.overuseCounter = LeastOf(detector.overuseCounter + 1, 2)
      /\ n >= 2 /\ ~over =>
           detector'.state # BW_OVERUSING /\ detector'.overuseCounter = 0
  <2> HIDE DEF ts, n
  <2>1. detector' = OveruseDetect(detector, offset, ts, n, p.arrival)
    BY <1>6
  <2>2. n \in 0 .. MinNumDeltas /\ detector \in Detectors
    BY <1>4, <1>5
  <2> HIDE DEF over, alarm
  <2>3. detector' \in Detectors
    BY <1>2, <1>3, <2>1, <2>2, Detected
  <2>4. n >= 2 => detector'.prevOffset = offset
    BY <1>2, <1>3, <2>1, <2>2, PreviousOffset
  <2>5. n >= 2 /\ over /\ alarm => detector'.overuseCounter = 0
    BY <1>2, <1>3, <2>1, <2>2, Detected DEF over, alarm
  <2>6. over /\ ~alarm =>
          /\ detector'.state = detector.state
          /\ detector'.overuseCounter = LeastOf(detector.overuseCounter + 1, 2)
    BY <1>2, <1>3, <2>1, <2>2, Detected DEF over, alarm
  <2>7. n >= 2 /\ ~over =>
          detector'.state # BW_OVERUSING /\ detector'.overuseCounter = 0
    BY <1>2, <1>3, <2>1, <2>2, CalmedDown DEF over
  <2> QED
    BY <2>3, <2>4, <2>5, <2>6, <2>7, Zenon
<1>8. over => n >= 2
  BY DEF Over
<1>9. alarm => offset > detector.prevOffset /\ detector.overuseCounter + 1 > 1
  BY DEF Alarm
<1> HIDE DEF ts, n, over, alarm
<1>10. calm => n >= 2 /\ detector.overuseCounter = growing
  BY <1>4 DEF IInv, GrowthAgrees
<1>11. growing' \in 0 .. 2
  BY <1>5, <1>6 DEF LeastOf
<1>12. calm' \in BOOLEAN
  BY <1>6 DEF IInv, TypeOK
<1>13. TypeOK'
  BY <1>1, <1>4, <1>6, <1>7, <1>11, <1>12
     DEF TypeOK, ArrivalInv, ArrivalTypeOK, Detectors
<1>14. GrowthAgrees'
  <2> SUFFICES ASSUME calm'
               PROVE  n >= 2 /\ detector'.overuseCounter = growing'
    BY <1>6 DEF GrowthAgrees
  <2>1. n >= 2
    BY <1>6, <1>10
  <2>2. CASE over /\ ~alarm
    <3>1. calm
      BY <1>6, <2>2
    <3> QED
      BY <1>6, <1>7, <1>10, <2>1, <2>2, <3>1
  <2>3. CASE over /\ alarm
    BY <1>6, <1>7, <2>1, <2>3
  <2>4. CASE ~over
    BY <1>6, <1>7, <2>1, <2>4
  <2> QED
    BY <2>1, <2>2, <2>3, <2>4
<1>15. ASSUME calm, detector.state # BW_OVERUSING,
              detector'.state = BW_OVERUSING
       PROVE  growing >= 1 /\ detector'.prevOffset > detector.prevOffset
  <2>1. n >= 2 /\ over /\ alarm
    BY <1>7, <1>10, <1>15
  <2>2. detector'.prevOffset = offset
    BY <1>7, <2>1
  <2>3. detector.overuseCounter = growing
    BY <1>10, <1>15
  <2> QED
    BY <1>5, <1>9, <2>1, <2>2, <2>3
<1> QED
  BY <1>1, <1>13, <1>14, <1>15 DEF IInv

LEMMA SkipSound ==
    ASSUME IInv, NEW p \in Packets, SkipPacket(p)
    PROVE  IInv' /\ UNCHANGED detector
<1>1. ArrivalInv'
  BY RefuseKeeps DEF IInv, SkipPacket
<1>2. UNCHANGED <<numOfDeltas, detector, growing, calm>>
  BY DEF SkipPacket
<1>3. TypeOK'
  BY <1>1, <1>2 DEF IInv, TypeOK, ArrivalInv, ArrivalTypeOK
<1>4. GrowthAgrees'
  BY <1>2 DEF IInv, GrowthAgrees
<1> QED
  BY <1>1, <1>2, <1>3, <1>4 DEF IInv

LEMMA StutterSound ==
    ASSUME IInv, UNCHANGED signalVars PROVE IInv'
BY DEF IInv, ArrivalInv, ArrivalTypeOK, ReachesNewest, OrderedIsExact, TypeOK, Cut,
       GrowthAgrees, signalVars, arrivalVars, groupVars, orderVars

LEMMA StepSound == IInv /\ [Next]_signalVars => IInv'
<1> SUFFICES ASSUME IInv, [Next]_signalVars PROVE IInv'
  OBVIOUS
<1>1. CASE Next
  BY <1>1, SampleSound, SkipSound DEF Next
<1>2. CASE UNCHANGED signalVars
  BY <1>2, StutterSound
<1> QED
  BY <1>1, <1>2

LEMMA SignalInvariance == Spec => []IInv
BY InitSound, StepSound, PTL DEF Spec

(* The detector's threshold keeps its range however the slope it follows   *)
(* and the time since the last sample jump (overuseDetect).                *)
THEOREM TypeCorrect == Spec => []TypeOK
<1>1. IInv => TypeOK
  BY DEF IInv
<1> QED
  BY <1>1, SignalInvariance, PTL

(* For packets that come in order, the difference of the send times is, as *)
(* far as 32 bits can tell and across their wraps, that of the newest      *)
(* packets of the groups (computeDeltas).                                  *)
THEOREM InOrderIsExact == Spec => []OrderedIsExact
<1>1. IInv => OrderedIsExact
  BY DEF IInv, ArrivalInv
<1> QED
  BY <1>1, SignalInvariance, PTL

(* Overuse is signalled only at the end of a run of at least two samples   *)
(* above the threshold, whose slope rises (overuseDetect).                 *)
THEOREM AlarmsTakeTwo == Spec => AlarmTakesTwo
<1> DEFINE Takes == calm /\ detector.state # BW_OVERUSING
                         /\ detector'.state = BW_OVERUSING
                    => growing >= 1
                         /\ detector'.prevOffset > detector.prevOffset
<1>1. IInv /\ [Next]_signalVars => [Takes]_signalVars
  <2> SUFFICES ASSUME IInv, Next PROVE Takes
    BY DEF Takes
  <2>1. CASE \E p \in Packets, offset \in Slopes : ProcessEstimate(p, offset)
    BY <2>1, SampleSound
  <2>2. CASE \E p \in Packets : SkipPacket(p)
    BY <2>2, SkipSound
  <2> QED
    BY <2>1, <2>2 DEF Next
<1> QED
  BY <1>1, InitSound, StepSound, PTL DEF Spec, AlarmTakesTwo

=============================================================================
