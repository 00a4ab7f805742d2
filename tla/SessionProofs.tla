---------------------------- MODULE SessionProofs ----------------------------
(***************************************************************************)
(* What holds of the session for all connect ids, listeners and timer      *)
(* constants, and, in the second part, of the round-trip estimate that a   *)
(* session keeps (RttEstimator, a specification with variables of its      *)
(* own), for every word size and largest sample.                           *)
(***************************************************************************)
EXTENDS Session, RttEstimator, TLAPS

(* The inductive invariant: the three invariants need one another only     *)
(* through the types.                                                      *)
SessionInv ==
    /\ TypeOK
    /\ InterruptMeansPings
    /\ RetriesBounded

(* Each timer's delay is a positive number.                                *)
LEMMA TickPositive == \A t \in Timers : Tick(t) \in Nat /\ Tick(t) > 0
  BY SessionAssumption DEF Tick, Timers

(* Counting one more try of a timer that is not exhausted stays within its *)
(* bound.                                                                  *)
LEMMA OneMoreTry ==
    ASSUME NEW r \in Nat, NEW d \in Nat, r * d < TimeoutMs
    PROVE  (r + 1) * d < TimeoutMs + d
  <1>1. (r + 1) * d = r * d + d
    OBVIOUS
  <1>2. r * d \in Nat /\ TimeoutMs \in Nat
    BY SessionAssumption
  <1> QED BY <1>1, <1>2

(* __processMessage leaves a session state behind.                         *)
LEMMA ReceivedType ==
    ASSUME NEW st \in SESSION_STATE_IDLE .. SESSION_STATE_DISCONNECT
    PROVE  /\ Received(st) \in SESSION_STATE_IDLE .. SESSION_STATE_DISCONNECT
           /\ Received(st) # SESSION_STATE_CONNECTED
  BY DEF Received, SESSION_STATE_IDLE, SESSION_STATE_DISCONNECT,
         SESSION_STATE_CONNECTED, NET_STATE_INTERRUPT, NET_STATE_RECOVER

(* A message is processed by a process that lived, and may end it.         *)
LEMMA ReceiveRuns ==
    ASSUME NEW f \in BOOLEAN, Receive(f)
    PROVE  running' \in BOOLEAN /\ freed' \in BOOLEAN
  BY DEF Receive, Survives

(* Whatever is delivered is delivered to a listener.                       *)
LEMMA NotifyType ==
    ASSUME NEW l \in Listeners \union {NoListener}, NEW n \in Notifications
    PROVE  Notify(l, n) \subseteq Listeners \X Notifications
  BY DEF Notify

(* Reset establishes everything the invariant says of what it assigns.     *)
LEMMA ResetType ==
    ASSUME Reset
    PROVE  /\ sender' \in BOOLEAN /\ recv' \in BOOLEAN
           /\ listener' \in Listeners \union {NoListener}
           /\ interrupt' = NET_STATE_NORMAL
           /\ interrupt' \in NET_STATE_NORMAL .. NET_STATE_RECOVER
           /\ interrupt' # NET_STATE_INTERRUPT
           /\ resend' \in [Timers -> Nat]
           /\ installed' = FALSE
           /\ RetriesBounded'
  <1>1. \A t \in Timers : 0 * Tick(t) < TimeoutMs + Tick(t)
    BY TickPositive, SessionAssumption
  <1>2. resend' = [t \in Timers |-> 0]
    BY DEF Reset, Fresh
  <1>3. \A t \in Timers : Tick(t)' = Tick(t)
    BY DEF Tick
  <1>4. RetriesBounded'
    BY <1>1, <1>2, <1>3 DEF RetriesBounded
  <1> QED
    <2>1. NET_STATE_NORMAL \in NET_STATE_NORMAL .. NET_STATE_RECOVER
      BY DEF NET_STATE_NORMAL, NET_STATE_RECOVER
    <2>2. NET_STATE_NORMAL # NET_STATE_INTERRUPT
      BY DEF NET_STATE_NORMAL, NET_STATE_INTERRUPT
    <2>3. resend' \in [Timers -> Nat]
      BY <1>2
    <2> QED
      BY <1>4, <2>1, <2>2, <2>3 DEF Reset, PortFreedByDelete

LEMMA InitEstablishes == Init => SessionInv
  <1> SUFFICES ASSUME Init PROVE SessionInv
    OBVIOUS
  <1>1. TypeOK
    <2>1. state \in SESSION_STATE_IDLE .. SESSION_STATE_DISCONNECT
      BY DEF Init, SESSION_STATE_IDLE, SESSION_STATE_DISCONNECT
    <2>2. interrupt \in NET_STATE_NORMAL .. NET_STATE_RECOVER
      BY DEF Init, NET_STATE_NORMAL, NET_STATE_RECOVER
    <2>3. resend \in [Timers -> Nat]
      BY DEF Init, Fresh
    <2> QED BY <2>1, <2>2, <2>3 DEF Init, TypeOK
  <1>2. InterruptMeansPings
    BY DEF Init, InterruptMeansPings, NET_STATE_NORMAL, NET_STATE_INTERRUPT
  <1>3. RetriesBounded
    <2>1. \A t \in Timers : 0 * Tick(t) < TimeoutMs + Tick(t)
      BY TickPositive, SessionAssumption
    <2> QED BY <2>1 DEF Init, Fresh, RetriesBounded
  <1> QED BY <1>1, <1>2, <1>3 DEF SessionInv

(* A step that leaves the timers alone keeps their bound.                  *)
LEMMA RetriesKept ==
    ASSUME RetriesBounded, UNCHANGED resend
    PROVE  RetriesBounded'
  BY DEF RetriesBounded, Tick

LEMMA MessagePreserves == SessionInv /\ ProcessMessage => SessionInv'
  <1> SUFFICES ASSUME SessionInv, ProcessMessage PROVE SessionInv'
    OBVIOUS
  <1> USE DEF SessionInv
  <1>a. Received(state) \in SESSION_STATE_IDLE .. SESSION_STATE_DISCONNECT
    BY ReceivedType DEF TypeOK
  <1>1. CASE HandleUnknown
    <2>1. TypeOK'
      BY <1>1, ReceiveRuns DEF HandleUnknown, Quiet, TypeOK
    <2>2. RetriesBounded'
      BY <1>1, RetriesKept DEF HandleUnknown
    <2> QED
      BY <1>1, <2>1, <2>2 DEF HandleUnknown, InterruptMeansPings
  <1>2. CASE HandleConnect
    <2>1. TypeOK'
      BY <1>2, <1>a, ReceiveRuns DEF HandleConnect, Quiet, TypeOK
    <2>2. RetriesBounded'
      BY <1>2, RetriesKept DEF HandleConnect
    <2> QED
      BY <1>2, <2>1, <2>2 DEF HandleConnect, InterruptMeansPings
  <1>3. CASE \E result \in {0, 1} : HandleConnectAck(result)
    <2> PICK result \in {0, 1} : HandleConnectAck(result)
      BY <1>3
    <2>0. running' \in BOOLEAN /\ freed' \in BOOLEAN
      BY ReceiveRuns DEF HandleConnectAck
    <2>1. RetriesBounded'
      BY RetriesKept DEF HandleConnectAck
    <2>2. CASE AcceptsAck(result)
      <3>1. TypeOK'
        BY <2>0, <2>2 DEF HandleConnectAck, Quiet, TypeOK, SESSION_STATE_IDLE,
           SESSION_STATE_CONNECTED, SESSION_STATE_DISCONNECT, NET_STATE_NORMAL,
           NET_STATE_RECOVER
      <3> QED
        BY <2>1, <2>2, <3>1 DEF HandleConnectAck,
           InterruptMeansPings, NET_STATE_RECOVER, NET_STATE_INTERRUPT
    <2>3. CASE ~AcceptsAck(result)
      <3>1. TypeOK'
        BY <2>0, <2>3, <1>a DEF HandleConnectAck, Quiet, TypeOK
      <3> QED
        BY <2>1, <2>3, <3>1 DEF HandleConnectAck,
           InterruptMeansPings
    <2> QED BY <2>2, <2>3
  <1>4. CASE \E cid \in Cid : HandleDisconnect(cid)
    <2> PICK cid \in Cid : HandleDisconnect(cid)
      BY <1>4
    <2>0. running' \in BOOLEAN /\ freed' \in BOOLEAN
      BY DEF HandleDisconnect, Receive, Survives
    <2>1. RetriesBounded'
      BY RetriesKept DEF HandleDisconnect
    <2>2. told' \subseteq Listeners \X Notifications
      BY NotifyType DEF HandleDisconnect, StopPlayTo, Quiet, TypeOK, Notifications
    <2>3. recv' \in BOOLEAN
      BY DEF HandleDisconnect, TypeOK
    <2>4. TypeOK'
      BY <2>0, <2>2, <2>3, <1>a DEF HandleDisconnect, TypeOK
    <2> QED
      BY <2>1, <2>4 DEF HandleDisconnect, InterruptMeansPings
  <1>5. CASE HandleDisconnectAck
    <2>0. running' \in BOOLEAN /\ freed' \in BOOLEAN
      BY <1>5 DEF HandleDisconnectAck, Receive, Survives
    <2>1. CASE EndsSession
      <3>1. Reset
        BY <1>5, <2>1 DEF HandleDisconnectAck
      <3>2. told' = {}
        BY <1>5, <2>1, <3>1 DEF HandleDisconnectAck, Reset, Notify
      <3>3. TypeOK'
        BY <1>5, <1>a, <2>0, <3>1, <3>2, ResetType DEF HandleDisconnectAck, TypeOK
      <3> QED
        BY <3>1, <3>3, ResetType DEF InterruptMeansPings
    <2>2. CASE ~EndsSession
      <3>1. TypeOK'
        BY <1>5, <1>a, <2>0, <2>2 DEF HandleDisconnectAck, Quiet, TypeOK
      <3>2. RetriesBounded'
        BY <1>5, <2>2, RetriesKept DEF HandleDisconnectAck
      <3> QED
        BY <1>5, <2>2, <3>1, <3>2 DEF HandleDisconnectAck,
           InterruptMeansPings
    <2> QED BY <2>1, <2>2
  <1>6. CASE HandleData
    <2>1. TypeOK'
      BY <1>6, <1>a, ReceiveRuns DEF HandleData, Quiet, TypeOK
    <2>2. RetriesBounded'
      BY <1>6, RetriesKept DEF HandleData
    <2> QED
      BY <1>6, <2>1, <2>2 DEF HandleData, InterruptMeansPings
  <1>7. CASE HandleReport
    <2>1. TypeOK'
      BY <1>7, <1>a DEF HandleReport, Receive, Survives, Quiet, TypeOK
    <2>2. RetriesBounded'
      BY <1>7, RetriesKept DEF HandleReport
    <2> QED
      BY <1>7, <2>1, <2>2 DEF HandleReport, InterruptMeansPings
  <1> QED
    BY <1>1, <1>2, <1>3, <1>4, <1>5, <1>6, <1>7 DEF ProcessMessage

LEMMA HeartbeatPreserves == SessionInv /\ Heartbeat => SessionInv'
  <1> SUFFICES ASSUME SessionInv, Heartbeat PROVE SessionInv'
    OBVIOUS
  <1> USE DEF SessionInv
  <1>1. CASE HeartbeatSend
    <2>0. running' \in BOOLEAN
      BY <1>1 DEF HeartbeatSend, Survives
    <2>1. resend' \in [Timers -> Nat]
      BY <1>1 DEF HeartbeatSend, Bump, TypeOK
    <2>2. told' \subseteq Listeners \X Notifications
      BY <1>1, NotifyType DEF HeartbeatSend, Quiet, TypeOK, Notifications
    <2>3. TypeOK'
      BY <1>1, <2>0, <2>1, <2>2 DEF HeartbeatSend, TypeOK, NET_STATE_NORMAL,
         NET_STATE_INTERRUPT, NET_STATE_RECOVER
    <2>4. InterruptMeansPings'
      <3>1. installed' /\ "PING" \in Timers
        BY <1>1 DEF HeartbeatSend, Ticks, Timers
      <3>2. resend["PING"] \in Nat /\ resend'["PING"] = resend["PING"] + 1
        BY <1>1, <3>1 DEF HeartbeatSend, Bump, TypeOK, TimersOf
      <3>3. CASE PingsUnanswered(resend')
        BY <3>1, <3>3 DEF InterruptMeansPings, PingsUnanswered
      <3>4. CASE ~PingsUnanswered(resend')
        BY <1>1, <3>1, <3>2, <3>4, SessionAssumption
        DEF HeartbeatSend, InterruptMeansPings
      <3> QED BY <3>3, <3>4
    <2>5. RetriesBounded'
      <3> SUFFICES ASSUME NEW t \in Timers
                   PROVE  resend'[t] * Tick(t) < TimeoutMs + Tick(t)
        BY DEF RetriesBounded, Tick
      <3>1. CASE t \in TimersOf(state)
        <4>1. resend[t] \in Nat /\ Tick(t) \in Nat /\ resend'[t] = resend[t] + 1
          BY <1>1, <3>1, TickPositive DEF HeartbeatSend, Bump, TypeOK
        <4>2. resend[t] * Tick(t) < TimeoutMs
          <5>1. ~ (resend[t] * Tick(t) >= TimeoutMs)
            BY <1>1, <3>1 DEF HeartbeatSend, Exhausted
          <5>2. resend[t] * Tick(t) \in Nat /\ TimeoutMs \in Nat
            BY <4>1, SessionAssumption
          <5> QED BY <5>1, <5>2
        <4> QED BY <4>1, <4>2, OneMoreTry
      <3>2. CASE t \notin TimersOf(state)
        BY <1>1, <3>2 DEF HeartbeatSend, Bump, RetriesBounded
      <3> QED BY <3>1, <3>2
    <2> QED BY <2>3, <2>4, <2>5
  <1>2. CASE HeartbeatTimeout
    <2>1. CASE listener = NoListener
      <3>1. TypeOK'
        BY <1>2, <2>1 DEF HeartbeatTimeout, Quiet, TypeOK
      <3>2. RetriesBounded'
        BY <1>2, <2>1, RetriesKept DEF HeartbeatTimeout
      <3> QED
        BY <1>2, <2>1, <3>1, <3>2 DEF HeartbeatTimeout,
           InterruptMeansPings
    <2>2. CASE listener # NoListener
      <3>1. Reset
        BY <1>2, <2>2 DEF HeartbeatTimeout
      <3>2. told' \subseteq Listeners \X Notifications
        BY <1>2, <2>2, NotifyType DEF HeartbeatTimeout, StopPlayTo, TypeOK, Notifications
      <3>3. running' \in BOOLEAN
        BY <1>2, <2>2 DEF HeartbeatTimeout, Survives
      <3>4. TypeOK'
        BY <1>2, <3>1, <3>2, <3>3, ResetType DEF HeartbeatTimeout, TypeOK
      <3> QED
        BY <3>1, <3>4, ResetType DEF InterruptMeansPings
    <2> QED BY <2>1, <2>2
  <1> QED BY <1>1, <1>2 DEF Heartbeat

LEMMA RestPreserves == SessionInv /\ (PollDeletedConnection \/ App) => SessionInv'
  <1> SUFFICES ASSUME SessionInv, PollDeletedConnection \/ App PROVE SessionInv'
    OBVIOUS
  <1> USE DEF SessionInv
  <1>0. UNCHANGED <<installed, resend, interrupt>>
    BY DEF PollDeletedConnection, App, RegisteListener, AppAttach, AppConnect,
       AppDisconnect, AppCreateReceiver, AppCreateSender, AppDestroySender,
       AppDestroyReceiver
  <1>1. RetriesBounded'
    BY <1>0, RetriesKept
  <1>2. InterruptMeansPings'
    BY <1>0 DEF InterruptMeansPings
  <1>3. CASE PollDeletedConnection
    BY <1>1, <1>2, <1>3 DEF PollDeletedConnection, Quiet, TypeOK
  <1>4. CASE \E l \in Listeners : RegisteListener(l) \/ AppAttach(l)
    BY <1>1, <1>2, <1>4 DEF RegisteListener, AppAttach, Quiet, TypeOK
  <1>5. CASE AppConnect
    BY <1>1, <1>2, <1>5 DEF AppConnect, Quiet, TypeOK,
       SESSION_STATE_IDLE, SESSION_STATE_CONNECTING, SESSION_STATE_CONNECTED,
       SESSION_STATE_DISCONNECT
  <1>6. CASE AppDisconnect
    BY <1>1, <1>2, <1>6 DEF AppDisconnect, Quiet, TypeOK,
       SESSION_STATE_IDLE, SESSION_STATE_CONNECTED, SESSION_STATE_DISCONNECT
  <1>7. CASE AppCreateReceiver
    BY <1>1, <1>2, <1>7 DEF AppCreateReceiver, Quiet, TypeOK
  <1>8. CASE AppCreateSender
    BY <1>1, <1>2, <1>8 DEF AppCreateSender, Quiet, TypeOK
  <1>9. CASE AppDestroySender \/ AppDestroyReceiver
    BY <1>1, <1>2, <1>9 DEF AppDestroySender, AppDestroyReceiver, Survives, Quiet,
       TypeOK
  <1> QED BY <1>3, <1>4, <1>5, <1>6, <1>7, <1>8, <1>9 DEF App

LEMMA NextPreserves == SessionInv /\ [Next]_vars => SessionInv'
  <1> SUFFICES ASSUME SessionInv, [Next]_vars PROVE SessionInv'
    OBVIOUS
  <1>1. CASE UNCHANGED vars
    BY <1>1, RetriesKept DEF vars, SessionInv, TypeOK,
       InterruptMeansPings
  <1> QED
    BY <1>1, MessagePreserves, HeartbeatPreserves, RestPreserves DEF Next

(* The invariant holds in every reachable state of every session.          *)
THEOREM Invariance == Spec => []SessionInv
  BY InitEstablishes, NextPreserves, PTL DEF Spec

(* Every variable keeps its type (all handlers of Loop.cc and Session.cc). *)
THEOREM TypeCorrect == Spec => []TypeOK
  BY Invariance, PTL DEF SessionInv

(* An interrupted network means more than PingLimit pings of this session  *)
(* (sendPingState, resetSession).                                          *)
THEOREM PingsWhenInterrupted == Spec => []InterruptMeansPings
  BY Invariance, PTL DEF SessionInv

(* No timer is resent past its timeout (__sessOnTimer).                    *)
THEOREM BoundedRetries == Spec => []RetriesBounded
  BY Invariance, PTL DEF SessionInv

(* Only destroySender takes the sender from a connected session that was   *)
(* not reset (getSender, procSenderHeartbeat).                             *)
THEOREM SenderWhenConnected == Spec => ConnectedHasSender
  <1> DEFINE Bare == installed /\ state = SESSION_STATE_CONNECTED /\ ~sender
             Kept == Bare' => Bare \/ AppDestroySender
  <1>1. ASSUME TypeOK, Next PROVE Kept
    <2>1. CASE ProcessMessage
      <3>a. Received(state) # SESSION_STATE_CONNECTED
        BY <1>1, ReceivedType DEF TypeOK
      <3>1. CASE \E result \in {0, 1} : HandleConnectAck(result)
        BY <3>a, <3>1 DEF HandleConnectAck
      <3>2. CASE HandleDisconnectAck
        BY <3>a, <3>2 DEF HandleDisconnectAck
      <3> QED
        BY <2>1, <3>a, <3>1, <3>2 DEF ProcessMessage, HandleUnknown, HandleConnect,
           HandleDisconnect, HandleData, HandleReport
    <2>2. CASE Heartbeat
      BY <2>2 DEF Heartbeat, HeartbeatSend, HeartbeatTimeout, Reset,
         PortFreedByDelete
    <2>3. CASE AppConnect \/ AppDisconnect
      BY <2>3 DEF AppConnect, AppDisconnect, SESSION_STATE_CONNECTING,
         SESSION_STATE_CONNECTED, SESSION_STATE_DISCONNECT
    <2>4. CASE PollDeletedConnection \/ AppCreateReceiver \/ AppDestroyReceiver
      BY <2>4 DEF PollDeletedConnection, AppCreateReceiver, AppDestroyReceiver
    <2>5. CASE \E l \in Listeners : RegisteListener(l) \/ AppAttach(l)
      BY <2>5 DEF RegisteListener, AppAttach
    <2>6. CASE AppCreateSender
      BY <2>6 DEF AppCreateSender
    <2>7. CASE AppDestroySender
      BY <2>7
    <2> QED
      BY <1>1, <2>1, <2>2, <2>3, <2>4, <2>5, <2>6, <2>7 DEF Next, App
  <1>2. ASSUME UNCHANGED vars PROVE Kept
    BY <1>2 DEF vars
  <1> QED BY <1>1, <1>2, TypeCorrect, PTL DEF Spec, ConnectedHasSender

(* STOP_PLAY is told in the step in which a timeout or a DISCONNECT takes  *)
(* the receiver away, and in no other (__sessOnTimer, MSG_DISCONNECT).     *)
THEOREM AnnouncedStop == Spec => StopIsAnnounced
  <1> DEFINE Gone == recv /\ ~recv'
             Told == <<listener, "STOP_PLAY">> \in told'
             Heard == Gone /\ listener # NoListener
                        => Told \/ AppDestroyReceiver \/ HandleDisconnectAck
             Apt == (\E l \in Listeners : <<l, "STOP_PLAY">> \in told')
                        => Gone /\ Told
  <1>1. ASSUME Next PROVE Heard /\ Apt
    <2>1. CASE ProcessMessage
      <3>1. CASE \E cid \in Cid : HandleDisconnect(cid)
        <4> PICK cid \in Cid : HandleDisconnect(cid)
          BY <3>1
        <4>1. CASE ClosesReceiver(cid)
          BY <4>1 DEF HandleDisconnect, ClosesReceiver, StopPlayTo, Notify
        <4>2. CASE ~ClosesReceiver(cid)
          BY <4>2 DEF HandleDisconnect, Quiet
        <4> QED BY <4>1, <4>2
      <3>2. CASE HandleDisconnectAck
        <4>1. told' = {}
          BY <3>2 DEF HandleDisconnectAck, Reset, Notify, Quiet
        <4> QED BY <3>2, <4>1
      <3>3. CASE \/ HandleUnknown \/ HandleConnect \/ HandleData \/ HandleReport
                 \/ \E result \in {0, 1} : HandleConnectAck(result)
        <4>1. told' = {}
          BY <3>3 DEF HandleUnknown, HandleConnect, HandleConnectAck, HandleData,
             HandleReport, Quiet
        <4>2. recv' \/ recv' = recv
          BY <3>3 DEF HandleUnknown, HandleConnect, HandleConnectAck, HandleData,
             HandleReport
        <4> QED BY <4>1, <4>2
      <3> QED BY <2>1, <3>1, <3>2, <3>3 DEF ProcessMessage
    <2>2. CASE HeartbeatSend
      <3>1. \A x \in told' : x[2] # "STOP_PLAY"
        BY <2>2 DEF HeartbeatSend, Quiet, Notify
      <3>2. recv' = recv
        BY <2>2 DEF HeartbeatSend
      <3> QED BY <3>1, <3>2
    <2>3. CASE HeartbeatTimeout
      BY <2>3 DEF HeartbeatTimeout, Ticks, Reset, StopPlayTo, Notify, Quiet
    <2>4. CASE PollDeletedConnection \/ App
      <3>1. told' = {}
        BY <2>4 DEF PollDeletedConnection, App, RegisteListener, AppAttach,
           AppConnect, AppDisconnect, AppCreateReceiver, AppCreateSender,
           AppDestroySender, AppDestroyReceiver, Quiet
      <3>2. CASE AppDestroyReceiver
        BY <3>1, <3>2
      <3>3. CASE ~AppDestroyReceiver
        <4>1. recv => recv'
          BY <2>4, <3>3 DEF PollDeletedConnection, App, RegisteListener,
             AppAttach, AppConnect, AppDisconnect, AppCreateReceiver,
             AppCreateSender, AppDestroySender
        <4> QED BY <3>1, <4>1
      <3> QED BY <3>2, <3>3
    <2> QED BY <1>1, <2>1, <2>2, <2>3, <2>4 DEF Next, Heartbeat
  <1> QED BY <1>1, PTL DEF Spec, StopIsAnnounced

-----------------------------------------------------------------------------
(* The round-trip estimate of a session: RttSpec.                          *)

(* The variation is at most a quarter of a word: this, and not the type,   *)
(* is what the next update's sum needs.                                    *)
RttInv == RttInRange /\ rttVar \in Nat /\ 4 * rttVar < Word

(* A PONG yields a sample whatever its timestamp.                          *)
LEMMA PongSampleType == \A e \in Elapsed : PongSample(e) \in Samples
  <1> TAKE e \in Elapsed
  <1>1. e \in Int /\ MaxSample \in Nat /\ MaxSample >= 100
    BY RttAssumption
  <1>2. CASE e > 5
    BY <1>1, <1>2 DEF PongSample, Samples
  <1>3. CASE ~(e > 5)
    BY <1>1, <1>3 DEF PongSample, Samples
  <1> QED BY <1>2, <1>3

(* The weighted mean of two numbers lies between them, rounded down.       *)
LEMMA MeanBetween ==
    ASSUME NEW r \in Nat, NEW k \in Nat
    PROVE  /\ r <= k => r <= (7 * r + k) \div 8 /\ (7 * r + k) \div 8 <= k
           /\ k <= r => k <= (7 * r + k) \div 8 /\ (7 * r + k) \div 8 <= r
  OBVIOUS

(* What one update of the estimate yields.                                 *)
LEMMA Update ==
    ASSUME RttInv, NEW sample \in Samples, Calculate(sample)
    PROVE  RttInv'
  <1> DEFINE k == AtLeast(5, sample)
  <1>1. /\ rtt \in Nat /\ rtt >= 10 /\ rtt <= MaxSample
        /\ MaxSample \in Nat /\ MaxSample >= 100
        /\ Word \in Nat /\ 8 * MaxSample < Word
    BY RttAssumption DEF RttInv, RttInRange
  <1>2. k \in Nat /\ k <= MaxSample
    BY <1>1 DEF AtLeast, Samples
  <1>3. rttVar' = AtLeast(10, Varied(k)) /\ rtt' = AtLeast(10, Smoothed(k))
    BY DEF Calculate
  <1>4. RttInRange'
    <2>1. Smoothed(k) \in Nat /\ Smoothed(k) <= MaxSample
      BY <1>1, <1>2, MeanBetween DEF Smoothed
    <2> HIDE DEF k
    <2> QED BY <1>1, <1>3, <2>1 DEF RttInRange, AtLeast
  <1>5. rttVar' \in Nat /\ 4 * rttVar' < Word
    <2>1. Deviation(k) \in 0 .. Word - 1
      <3> DEFINE d == IF rttVar * 3 + rtt > k THEN rtt - k ELSE k - rtt
      <3>1. d \in Int
        BY <1>1, <1>2
      <3>2. Deviation(k) = d % Word
        BY DEF Deviation
      <3> HIDE DEF d
      <3> QED BY <1>1, <3>1, <3>2
    <2>2. Varied(k) \in Nat /\ 4 * Varied(k) < Word
      <3> HIDE DEF k
      <3> QED BY <1>1, <2>1 DEF Varied
    <2> HIDE DEF k
    <2> QED BY <1>1, <1>3, <2>2 DEF AtLeast
  <1> QED BY <1>4, <1>5 DEF RttInv

LEMMA RttInitInv == RttInit => RttInv
  BY RttAssumption DEF RttInit, RttInv, RttInRange

LEMMA RttNextInv == RttInv /\ [RttNext]_rttVars => RttInv'
  <1> SUFFICES ASSUME RttInv, [RttNext]_rttVars PROVE RttInv'
    OBVIOUS
  <1>1. CASE \E e \in Elapsed : Pong(e)
    BY <1>1, PongSampleType, Update DEF Pong
  <1>2. CASE \E sample \in Samples : SegmentAcked(sample)
    BY <1>2, Update DEF SegmentAcked
  <1>3. CASE RttReset
    BY <1>3, RttAssumption DEF RttReset, RttInv, RttInRange
  <1>4. CASE UNCHANGED rttVars
    BY <1>4 DEF rttVars, RttInv, RttInRange
  <1> QED BY <1>1, <1>2, <1>3, <1>4 DEF RttNext

LEMMA RttInvariance == RttSpec => []RttInv
  BY RttInitInv, RttNextInv, PTL DEF RttSpec

(* The smoothed time is never below 10 nor above the largest sample.       *)
THEOREM RttBounded == RttSpec => []RttInRange
  BY RttInvariance, PTL DEF RttInv

(* The variation's update never overflows its word.                        *)
THEOREM NoOverflow == RttSpec => []VariationFits
  <1>1. RttInv => VariationFits
    BY RttAssumption DEF RttInv, RttInRange, VariationFits
  <1> QED BY <1>1, RttInvariance, PTL

(* Both values are words.                                                  *)
THEOREM RttTypeCorrect == RttSpec => []RttTypeOK
  <1>1. RttInv => RttTypeOK
    BY RttAssumption DEF RttInv, RttInRange, RttTypeOK
  <1> QED BY <1>1, RttInvariance, PTL

(* An acknowledged sample never drives the smoothed time past itself.      *)
THEOREM MovesToSample == RttSpec => RttMovesToSample
  <1> DEFINE Moves ==
        \A s \in Samples :
          SegmentAcked(s) =>
            LET k == AtLeast(10, s)
            IN  \/ rtt <= rtt' /\ rtt' <= k
                \/ k <= rtt' /\ rtt' <= rtt
  <1>1. RttInv => Moves
    <2> SUFFICES ASSUME RttInv, NEW s \in Samples, SegmentAcked(s)
                 PROVE  \/ rtt <= rtt' /\ rtt' <= AtLeast(10, s)
                        \/ AtLeast(10, s) <= rtt' /\ rtt' <= rtt
      OBVIOUS
    <2>1. rtt \in Nat /\ rtt >= 10 /\ s \in Nat
      BY RttAssumption DEF RttInv, RttInRange, Samples
    <2>2. rtt' = AtLeast(10, (7 * rtt + AtLeast(5, s)) \div 8)
      BY DEF SegmentAcked, Calculate, Smoothed
    <2> QED BY <2>1, <2>2 DEF AtLeast
  <1> HIDE DEF Moves
  <1>2. RttSpec => [][Moves]_rttVars
    BY <1>1, RttInvariance, PTL DEF RttSpec
  <1> QED BY <1>2 DEF Moves, RttMovesToSample

=============================================================================
