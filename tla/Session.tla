------------------------------- MODULE Session -------------------------------
(***************************************************************************)
(* The session of the transport (Session.cc, Session.h) together with the  *)
(* single-threaded loop that drives it (Loop.cc): connection state,        *)
(* network state, the three retransmission timers, and the lifetime of the *)
(* sender, the receiver and the application's listener.                    *)
(*                                                                         *)
(* A step is one iteration of the loop: one processed datagram or one      *)
(* heartbeat.  The embedding application acts between iterations.  Timers  *)
(* compare microseconds with millisecond delays, so a timer is due at      *)
(* every heartbeat, and time itself does not appear.                       *)
(***************************************************************************)
EXTENDS Integers

CONSTANTS
    Cid,            \* connect ids that peers put in their messages
    Listeners,      \* the application's listener objects
    NoListener,     \* listener == NULL
    TickDelayMs,    \* TICK_DELAY_MS
    TimeoutMs,      \* the 10000 of __sessOnTimer
    PingLimit       \* the 12 of sendPingState

ASSUME SessionAssumption ==
    /\ NoListener \notin Listeners
    /\ TickDelayMs \in Nat /\ TickDelayMs \div 4 > 0
    /\ TimeoutMs \in Nat \ {0}
    /\ PingLimit \in Nat

VARIABLES
    state,      \* SESSION_STATE_*
    interrupt,  \* NET_STATE_*
    sender,     \* is there a BoeSender?
    recv,       \* is there a BoeReceiver?
    listener,   \* the registered listener
    installed,  \* is timeStateTable filled and the socket bound?
    resend,     \* resend counter of each timer
    rcid,       \* the receiving side's connect id: never assigned
    freed,      \* has the loop freed the connection's receive buffer?
    running,    \* FALSE once the process has died
    told        \* notifications delivered by the last step

vars == <<state, interrupt, sender, recv, listener, installed, resend, rcid,
          freed, running, told>>

-----------------------------------------------------------------------------
(* Enumerations.  They keep their numbers: the code mixes two of them.     *)

SESSION_STATE_IDLE       == 0
SESSION_STATE_CONNECTING == 1
SESSION_STATE_CONNECTED  == 2
SESSION_STATE_DISCONNECT == 3

NET_STATE_NORMAL    == 1
NET_STATE_INTERRUPT == 2
NET_STATE_RECOVER   == 3

Notifications == {"STOP_PLAY", "NET_INTERRUPT", "DISCONNECT"}

Timers == {"CONNECT", "DISCONNECT", "PING"}

Tick(t) == IF t = "PING" THEN TickDelayMs \div 4 ELSE TickDelayMs

(* Mutant of TimersOf: pings want a sender, && for ||.                     *)
TimersOfSender(st) ==
    { t \in {"PING"} : sender }
        \union { t \in {"CONNECT"} : st = SESSION_STATE_CONNECTING }
        \union { t \in {"DISCONNECT"} : st = SESSION_STATE_DISCONNECT }

(* The timers a heartbeat runs, besides "PING" in every state.             *)
TimersOf(st) ==
    {"PING"} \union { t \in {"CONNECT"} : st = SESSION_STATE_CONNECTING }
             \union { t \in {"DISCONNECT"} : st = SESSION_STATE_DISCONNECT }

(* Mutant of Notify: the NULL check is dropped.                            *)
NotifyUnchecked(l, n) == {<<l, n>>}

(* What listener l hears when n is sent to it.                             *)
Notify(l, n) == { <<x, n>> : x \in {l} \ {NoListener} }

(* Undefined behaviour may kill the process or go unnoticed.               *)
Survives(faulty) == running' \in (IF faulty THEN BOOLEAN ELSE {TRUE})

Fresh == [t \in Timers |-> 0]

Init ==
    /\ state = SESSION_STATE_IDLE
    /\ interrupt = NET_STATE_NORMAL
    /\ sender = FALSE
    /\ recv = FALSE
    /\ listener = NoListener
    /\ installed = TRUE     \* main() runs the loop only if init() succeeded
    /\ resend = Fresh
    /\ rcid \in Cid         \* uninitialised
    /\ freed = FALSE
    /\ running = TRUE
    /\ told = {}

-----------------------------------------------------------------------------
(* resetSession.  It deletes everything and builds a new Connection, but   *)
(* ~Socket forgets the descriptor before it closes it, so the port is      *)
(* still taken, bind fails and no timer is installed again.  The state is  *)
(* left as it was.                                                         *)

PortFreedByDelete == FALSE

Reset ==
    /\ sender' = FALSE
    /\ recv' = FALSE
    /\ listener' = NoListener
    /\ interrupt' = NET_STATE_NORMAL
    /\ resend' = Fresh
    /\ installed' = PortFreedByDelete

(* Deleting a sender deletes it again through its controller's trigger;    *)
(* deleting a receiver passes a new[] array to free.                       *)
DeletesObjects == sender \/ recv

-----------------------------------------------------------------------------
(* Messages.  Any datagram may arrive: the port is open to every host, and *)
(* most messages of this code overwrite their own header.                  *)

(* Mutant of Received: the two states of its assignment are swapped.       *)
ReceivedSwapped(st) == IF st = NET_STATE_RECOVER THEN NET_STATE_INTERRUPT ELSE st

(* What __processMessage makes of the state before it looks at the message *)
Received(st) == IF st = NET_STATE_INTERRUPT THEN NET_STATE_RECOVER ELSE st

(* A datagram is processed in a buffer that is freed after the first one.  *)
Receive(faulty) ==
    /\ running /\ installed
    /\ freed' = TRUE
    /\ Survives(faulty \/ freed)

Quiet == told' = {}

HandleUnknown ==
    /\ Receive(FALSE) /\ Quiet
    /\ UNCHANGED <<state, interrupt, sender, recv, listener, installed, resend,
                   rcid>>

HandleConnect ==
    /\ Receive(FALSE) /\ Quiet
    /\ state' = Received(state)
    /\ recv' = TRUE
    /\ UNCHANGED <<interrupt, sender, listener, installed, resend, rcid>>

AcceptsAck(result) ==
    /\ Received(state) = SESSION_STATE_CONNECTING
    /\ result = 0
    /\ ~sender

HandleConnectAck(result) ==
    /\ Receive(FALSE) /\ Quiet
    /\ IF AcceptsAck(result)
       THEN /\ sender' = TRUE
            /\ state' = SESSION_STATE_CONNECTED
            /\ interrupt' = NET_STATE_RECOVER
       ELSE /\ state' = Received(state)
            /\ UNCHANGED <<sender, interrupt>>
    /\ UNCHANGED <<recv, listener, installed, resend, rcid>>

ClosesReceiver(cid) == rcid = cid /\ recv

(* Mutant of StopPlayTo: the listener is told after the reset has deleted  *)
(* it.                                                                     *)
StopPlayAfter(l) == Notify(listener', "STOP_PLAY")

StopPlayTo(l) == Notify(l, "STOP_PLAY")

HandleDisconnect(cid) ==
    /\ Receive(ClosesReceiver(cid))
    /\ state' = Received(state)
    /\ UNCHANGED <<interrupt, sender, listener, installed, resend, rcid>>
    /\ IF ClosesReceiver(cid)
       THEN /\ told' = StopPlayTo(listener)
            /\ recv' = FALSE
       ELSE Quiet /\ UNCHANGED recv

EndsSession == Received(state) = SESSION_STATE_DISCONNECT

HandleDisconnectAck ==
    /\ Receive(EndsSession /\ DeletesObjects)
    /\ state' = Received(state)
    /\ IF EndsSession
       THEN /\ Reset
            /\ told' = Notify(listener', "DISCONNECT")
       ELSE /\ Quiet
            /\ UNCHANGED <<interrupt, sender, recv, listener, installed, resend>>
    /\ UNCHANGED rcid

(* SEGMENT, PING and PONG; the receiver's and the estimate's own state are *)
(* modules of their own.                                                   *)
HandleData ==
    /\ Receive(FALSE) /\ Quiet
    /\ state' = Received(state)
    /\ UNCHANGED <<interrupt, sender, recv, listener, installed, resend, rcid>>

(* SEGMENT_ACK and FEEDBACK reach components the sender never constructs.  *)
HandleReport ==
    /\ Receive(sender) /\ Quiet
    /\ state' = Received(state)
    /\ UNCHANGED <<interrupt, sender, recv, listener, installed, resend, rcid>>

ProcessMessage ==
    \/ HandleUnknown
    \/ HandleConnect
    \/ \E result \in {0, 1} : HandleConnectAck(result)
    \/ \E cid \in Cid : HandleDisconnect(cid)
    \/ HandleDisconnectAck
    \/ HandleData
    \/ HandleReport

-----------------------------------------------------------------------------
(* The heartbeat.                                                          *)

(* Mutant of Exhausted: one more try, > for >=.                            *)
ExhaustedLate(t) == resend[t] * Tick(t) > TimeoutMs

Exhausted(t) == resend[t] * Tick(t) >= TimeoutMs

(* Only a session with a receiver has a heartbeat, only one with timers    *)
(* does anything in it.                                                    *)
Ticks == running /\ recv /\ installed

DrivesSender == state = SESSION_STATE_CONNECTED /\ sender

(* Mutant of Bump: INC_TIMESTATE_RESEND is forgotten.                      *)
BumpForgotten == resend

Bump == [t \in Timers |-> IF t \in TimersOf(state) THEN resend[t] + 1
                                                   ELSE resend[t]]

(* Mutant of PingsUnanswered: off by one.                                  *)
PingsUnansweredEarly(r) == r["PING"] >= PingLimit

PingsUnanswered(r) == r["PING"] > PingLimit

HeartbeatSend ==
    /\ Ticks
    /\ \A t \in TimersOf(state) : ~Exhausted(t)
    /\ Survives(DrivesSender)
    /\ resend' = Bump
    /\ IF PingsUnanswered(resend')
       THEN /\ interrupt' = NET_STATE_INTERRUPT
            /\ told' = Notify(listener, "NET_INTERRUPT")
       ELSE Quiet /\ UNCHANGED interrupt
    /\ UNCHANGED <<state, sender, recv, listener, installed, rcid, freed>>

(* The listener is called before the reset, and called even if it is NULL. *)
HeartbeatTimeout ==
    /\ Ticks
    /\ \E t \in TimersOf(state) : Exhausted(t)
    /\ IF listener = NoListener
       THEN /\ running' = FALSE /\ Quiet
            /\ UNCHANGED <<interrupt, sender, recv, listener, installed, resend>>
       ELSE /\ Reset
            /\ told' = StopPlayTo(listener)
            /\ Survives(TRUE)
    /\ UNCHANGED <<state, rcid, freed>>

Heartbeat == HeartbeatSend \/ HeartbeatTimeout

(* After a reset the loop polls a Connection that has been deleted.        *)
PollDeletedConnection ==
    /\ running /\ ~installed
    /\ running' = FALSE /\ Quiet
    /\ UNCHANGED <<state, interrupt, sender, recv, listener, installed, resend,
                   rcid, freed>>

-----------------------------------------------------------------------------
(* The application, through the public members of Session.                 *)

RegisteListener(l) ==
    /\ running /\ Quiet
    /\ listener' = IF listener # NoListener THEN l ELSE listener
    /\ UNCHANGED <<state, interrupt, sender, recv, installed, resend, rcid,
                   freed, running>>

AppAttach(l) ==
    /\ running /\ Quiet
    /\ listener' = l
    /\ UNCHANGED <<state, interrupt, sender, recv, installed, resend, rcid,
                   freed, running>>

AppConnect ==
    /\ running /\ Quiet
    /\ state \in {SESSION_STATE_IDLE, SESSION_STATE_DISCONNECT}
    /\ state' = SESSION_STATE_CONNECTING
    /\ UNCHANGED <<interrupt, sender, recv, listener, installed, resend, rcid,
                   freed, running>>

AppDisconnect ==
    /\ running /\ Quiet
    /\ state \in {SESSION_STATE_CONNECTING, SESSION_STATE_CONNECTED}
    /\ state' = SESSION_STATE_DISCONNECT
    /\ UNCHANGED <<interrupt, sender, recv, listener, installed, resend, rcid,
                   freed, running>>

AppCreateReceiver ==
    /\ running /\ Quiet
    /\ recv' = TRUE
    /\ UNCHANGED <<state, interrupt, sender, listener, installed, resend, rcid,
                   freed, running>>

(* A sender that the application creates leaves the state as it is, and a  *)
(* later CONNECT_ACK is then refused.                                      *)
AppCreateSender ==
    /\ running /\ Quiet
    /\ sender' = TRUE
    /\ UNCHANGED <<state, interrupt, recv, listener, installed, resend, rcid,
                   freed, running>>

AppDestroySender ==
    /\ running /\ Quiet
    /\ Survives(sender)
    /\ sender' = FALSE
    /\ UNCHANGED <<state, interrupt, recv, listener, installed, resend, rcid,
                   freed>>

AppDestroyReceiver ==
    /\ running /\ Quiet
    /\ Survives(recv)
    /\ recv' = FALSE
    /\ UNCHANGED <<state, interrupt, sender, listener, installed, resend, rcid,
                   freed>>

App ==
    \/ \E l \in Listeners : RegisteListener(l) \/ AppAttach(l)
    \/ AppConnect
    \/ AppDisconnect
    \/ AppCreateReceiver
    \/ AppCreateSender
    \/ AppDestroySender
    \/ AppDestroyReceiver

-----------------------------------------------------------------------------

Next == ProcessMessage \/ Heartbeat \/ PollDeletedConnection \/ App

Spec == Init /\ [][Next]_vars

(* The loop polls with a bound on its wait and then looks at the clock, so *)
(* heartbeats go on for as long as the process does.                       *)
FairSpec == Spec /\ WF_vars(Heartbeat)

-----------------------------------------------------------------------------
(* Every variable stays in its type.                                       *)
TypeOK ==
    /\ state \in SESSION_STATE_IDLE .. SESSION_STATE_DISCONNECT
    /\ interrupt \in NET_STATE_NORMAL .. NET_STATE_RECOVER
    /\ sender \in BOOLEAN
    /\ recv \in BOOLEAN
    /\ listener \in Listeners \union {NoListener}
    /\ installed \in BOOLEAN
    /\ resend \in [Timers -> Nat]
    /\ rcid \in Cid
    /\ freed \in BOOLEAN
    /\ running \in BOOLEAN
    /\ told \subseteq Listeners \X Notifications

(* Only the application, with destroySender, leaves a connected session    *)
(* without a sender: no interleaving of acks, disconnects, timeouts,       *)
(* reconnects and createSender does, as long as the session has not been   *)
(* reset (getSender in the ack and report handlers, procSenderHeartbeat).  *)
ConnectedHasSender ==
    [][ LET Bare == installed /\ state = SESSION_STATE_CONNECTED /\ ~sender
        IN  Bare' => Bare \/ AppDestroySender ]_vars

(* The network counts as interrupted only while the session that sent more *)
(* than PingLimit pings is alive: neither a reset nor a new connection     *)
(* leaves a stale interruption behind (sendPingState, resetSession).       *)
InterruptMeansPings ==
    interrupt = NET_STATE_INTERRUPT => installed /\ resend["PING"] > PingLimit

(* No timer resends beyond its timeout, however attempts, acks and         *)
(* heartbeats interleave (__sessOnTimer).                                  *)
RetriesBounded ==
    \A t \in Timers : resend[t] * Tick(t) < TimeoutMs + Tick(t)

(* STOP_PLAY and the end of a receiver are one: an attached listener hears *)
(* it in the very step in which a timeout or a peer's DISCONNECT takes the *)
(* receiver away, and in no other.  Two ways to lose it are silent: the    *)
(* application's own destroyReceiver, and the reset by a DISCONNECT_ACK    *)
(* (Loop.cc:128), which EndIsTold is about (__sessOnTimer, MSG_DISCONNECT).*)
StopIsAnnounced ==
    [][ LET Gone == recv /\ ~recv'
            Told == <<listener, "STOP_PLAY">> \in told'
        IN  /\ Gone /\ listener # NoListener
                  => Told \/ AppDestroyReceiver \/ HandleDisconnectAck
            /\ (\E l \in Listeners : <<l, "STOP_PLAY">> \in told') => Gone /\ Told
      ]_vars

(* A connect or disconnect attempt of a session with a receiver comes to   *)
(* an end: another state, a lost receiver, a reset or the end of the       *)
(* process (the timers' resend limit).                                     *)
AttemptEnds ==
    \A st \in {SESSION_STATE_CONNECTING, SESSION_STATE_DISCONNECT} :
        state = st ~> state # st \/ ~recv \/ ~installed \/ ~running

(* A session whose peer has fallen silent for good does not keep its       *)
(* receiver: the pings alone bring it to a timeout, in whatever state the  *)
(* session is and whatever the application still calls (sendPingState).    *)
SilentPeerIsLeft ==
    <>[][~ProcessMessage]_vars => (recv ~> ~recv \/ ~installed \/ ~running)

-----------------------------------------------------------------------------
(* Loop.cc:54: whoever gets to process a message has a working network, so *)
(* data that arrives does not take a connected session out of CONNECTED    *)
(* (__processMessage).                                                     *)
DataKeepsConnection ==
    [][ HandleData /\ running' /\ state = SESSION_STATE_CONNECTED
          => state' = SESSION_STATE_CONNECTED ]_vars

(* NotifyType.h:11, Loop.cc:129: the end of a disconnection is notified to *)
(* the listener that is attached then (__processMessage, notify).          *)
EndIsTold ==
    [][ /\ HandleDisconnectAck /\ running'
        /\ state = SESSION_STATE_DISCONNECT /\ listener # NoListener
        => <<listener, "DISCONNECT">> \in told' ]_vars

=============================================================================
