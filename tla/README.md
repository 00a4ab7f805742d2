# Boeing transport: a verification development

This directory holds a TLA+ model of the UDP video transport in the repository:
a session with its event loop, a sender with pacer and rate control, and a
receiver with loss map, frame cache and congestion feedback. TLC checks each
module on a small instance; TLAPS proves their safety properties for every value
of the constants, three theorems on a condition (section 4). `PROJECT.json`
lists components, runs, mutants, hazards and theorems, and maps each definition
to its source lines.

The models follow the code, not its comments. Most properties hold of the code
as it is and say what one can rely on; where a comment promises something the
code does not do, a run of its own shows it (section 6), or section 7 says so.

## 1. Inventory

Everything runs in one process and one thread. `LoopEvent::run` alternates
between receiving a datagram and, when enough time has passed, a heartbeat; the
embedding application calls in between. A step of a model is therefore one
handler, and what interleaves is the order of messages, heartbeats and calls,
the loss, repetition and delay of datagrams, and memory never initialised.

| Component | State | Operations | What is hard, what must hold |
|---|---|---|---|
| Session (`Session.cc`), loop (`Loop.cc`) | session and network state, timers with resend counters, sender, receiver, listener | a handler per message, heartbeat, reset, application calls | resets in the middle of anything, two enumerations mixed up, objects the application creates and destroys. States agree with what exists, retries end, a silent peer is left, what a timeout or a peer ends is announced |
| Round-trip estimate (`sessCalculateRtt`) | `rtt`, `rttVar` | samples from PONGs and acknowledgements | unsigned arithmetic, samples a peer chooses. It stays in range and follows the samples |
| Pacer (`pacing/`) | packets by number and by time, byte budget, rates | insert, transmit, new estimate | what was sent stays in the queue; budgets may be in debt. Each packet goes once per request, lowest first, and goes |
| Sender (`transport/Sender.cc`) | `sendingCache`, numbers | frames, acknowledgements with requests, the pacer's callback | cache and pacer hold the same numbers for different times. Nothing numbered is lost before its first transmission, nothing acknowledged is sent |
| Limiter (`SenderLimiter.cc`) | ring of byte counts | update, try | stale slots, a clock offset that wraps. Bursts are bounded, pauses restore the budget |
| Receiver (`transport/Receiver.cc`) | base, highest number, loss map | segments | joining anywhere, any order. No frame is cut, no loss is missed |
| Frame cache (`FrameCache`) | waiting time | heartbeat, creation | 32-bit smoothing, two shortenings in one step. The wait covers a frame |
| Loss statistics (`LossStatistics.cc`) | highest numbers, count | arrival, report | numbers that wrap, repeated packets. No false alarm |
| Delay feedback (`RecvEstimateProxy.cc`) | arrivals, feedback window | arrival, heartbeat | erasing while iterating, late arrivals, number 0. Batches fit, what is to be fed back is kept |
| Loss-based bitrate (`SenderBitrateEstimation.cc`, `BitrateController.cc`) | rate, history of the last second, last report, last notification | loss report, delay estimate, heartbeat | three sources of change, clocks of three widths, a cut that may raise. The rate keeps its caps, grows once per second, is cut once per report, and the pacer has it |
| Arrival filter and detector (`InterArrival`, `OveruseDetector`) | current and previous group of packets, threshold, counter, state of the path | packet of a feedback | packets in any order, clocks that drift, send times cut to 32 bits, uninitialised members. Groups the wrong way round are given up, differences of packets in order are exact, no alarm rests on one sample |
| Delay-based bitrate (`DelayBasedEstimator`, `AimdRateController`) | rate, times of its first and last change, count of feedbacks | feedback in time or late, round-trip time, reset, clock | inverted tests, two clocks, an aliased rate. The rate keeps its limits and what was acknowledged, comes down when nothing is, settles and is published |
| Feedback adapter, send history (`FeedbackAdapter.cc`, `SenderHistory.cc`) | packets in flight | send, feedback | bounded arrays, wrapping numbers; undefined from the first feedback on (section 7) |
| Filters (`TrendlineEstimator`, `AckBitrateEstimator`) | numbers | sample | floating point without control of its own |
| Codecs (`message/`), socket (`connection/`), client, tests | none, a descriptor | encode, send, receive | - |

How they interact. The loop hands messages to the session's sender and receiver.
The sender numbers packets, caches them and queues them in the pacer; the pacer
calls the sender back, which looks the number up in its cache and sends. The
receiver tells its congestion control of each packet; the control's heartbeat
builds feedback. At the sender, its losses go to the loss-based estimate; its
packets go through arrival filter, slope and detector to the delay-based
estimate, whose rate caps the other one. What comes out goes to the pacer. PONGs
and acknowledgements change the session's round-trip estimate, which sets the
receiver's waiting time.

Not everything is connected in the repository: `paceSender`, `feedbackAdapter`,
the controller's `trigger` and the pacer's `sender` are used but never
constructed or set. Component models assume a caller that supplies them, as the
code is written to be used; `Session` models what happens where they are
missing.

Units. `BaseTimer::getCurrentTime` counts microseconds, every constant and
comment speaks of milliseconds. Each model takes the constants in the clock's
own unit, scaled down; no property depends on the unit's name.

Undefined behaviour is a choice. An uninitialised member starts with any value
of a small set (`Garbage`, or a set in `Init`). Where freed memory is used or an
object deleted twice the process dies or goes on (`Survives` in `Session`).
`SenderLimiter` stops at the first write outside its ring (`wild`). The walk
past the end of a map in `RecvEstimateProxy::incoming` either goes on or never
returns (`looping`).

## 2. Modules and how they correspond to the code

| Module | Code | Correspondence |
|---|---|---|
| `Session` | `Session.cc`, `Loop.cc` | an action per message type of `__processMessage`; `HeartbeatSend` and `HeartbeatTimeout` are the two ways `__sessOnTimer` ends; `PollDeletedConnection` is the loop after a reset; `App` is what the embedder may call: attach or replace a listener, connect, disconnect, create and destroy a sender or a receiver. Enumerations keep their numbers because the code mixes two of them |
| `RttEstimator` | `sessCalculateRtt` and its callers | `Pong`, `SegmentAcked`, `RttReset`; a word has `Word` values, a negative difference is `% Word` |
| `Pacer` | what the pacer promises | `Accept` what is asked for, `LetGo` the lowest pending numbers |
| `PaceSender` | `PaceQueue`, `PaceSender`, `IntervalBudget`, a part of `AlrDetector` | `InsertPackets`, `SetEstimate`, `Transmit`, `Clock`; the map is `cache`, the flag is `sent`, the heap by time is the age of each packet; bytes are counted as pairs of a packet and a place in it |
| `Sender` | `Sender.cc`, `SendCongestionCtrl.cc` | extends `PaceSender`: `AddPackets`, `SegmentAck`, `Heartbeat`, `NetworkChange`, each with all the calls it makes into the pacer |
| `SenderLimiter` | `SenderLimiter.cc` | `LimiterOpen` and `LimiterTrySend`, the two uses in `procSegmentAck`. `Remaining` is the closed form of the loop that empties slots; `MCSenderLimiter` compares it with the loop |
| `Receiver` | `putMessage`, `__updateLossMap` | `PutMessage`, `Refuse`; the network delivers any packet at any time |
| `FrameCache` | `procRecvHeartbeat`, `__updateCacheWaitTimer` | `Heartbeat`, `CreateReceiver`, `RttChanges`, `Clock` |
| `BoeReceiver` | the object of both, from its creation on | composes the two above: `ProcSegment`, `ProcRecvHeartbeat`, and `RepeatedConnect`, which makes the frame cache anew and leaves base and loss map of the old stream |
| `LossStatistics` | `LossStatistics.cc` | `Incoming`, `Calculate` |
| `EstimateProxy` | `RecvEstimateProxy.cc` | `Incoming` or `IncomingLoops`, `Feedback`. `Left` is the closed form of the release that skips elements and runs past the end; `MCRecvCongestionCtrl` compares it with the loop |
| `RecvCongestionCtrl` | `RecvCongestionCtrl.cc` | composes the two above: `OnReceived` runs both on one number and stops at the first that refuses it; `ProcRccHeartbeat` runs both reports |
| `SenderBitrateEstimation` | `SenderBitrateEstimation.cc` | the object is a record, each member function an operator on it |
| `BitrateController` | `BitrateController.cc`, `processFeedback` | `ProcBitrateHeartbeat`; `ProcessFeedback` with a delay estimate, a loss report, or both in their order |
| `InterArrival` | `InterArrival.cc` | the send time of the group's first packet is kept in full (`first`), what 32 bits know of the newest in `stamp`, and packets are compared by what is cut off (`Cut`, `InOrder`), as the code compares them; arrival times are only subtracted, so they are kept as differences. `computeDeltas` ends in `Accept` or `Refuse` |
| `OveruseDetector` | `OveruseDetector.cc` | the object is a record, `OveruseDetect` and `Adapted` are its methods over integers |
| `DelaySignal` | `__processEstimate`, a part of `TrendlineEstimator` | composes the two above, one packet per step: the loop over a feedback's packets touches nothing else. The number of samples is counted; the slope, read from a window that nobody initialises, is any of `Slopes` |
| `AimdRateController` | `AimdRateController.cc` | the object is a record; of `__changeBitrate` only the decrease, since nobody tells the controller of anything but overuse |
| `DelayBasedEstimator` | `DelayBasedEstimator.cc` | `Feedback` with the detector's new state, `LateFeedback`, `UpdateRtt`, `ResetEstimator`, `Tick`; a result is published as the code publishes it |

Compositions: `Sender` over `PaceSender`, which implements `Pacer`
(`ImplementsPacer`, with the packets held and not marked sent as pending);
`RecvCongestionCtrl` over `LossStatistics` and `EstimateProxy`; `BoeReceiver`
over `Receiver` and `FrameCache`; `BitrateController` over
`SenderBitrateEstimation`; `DelaySignal` over `InterArrival` and
`OveruseDetector`; `DelayBasedEstimator` over `AimdRateController`. The last two
meet in the detector's state, which `DelayBasedEstimator` lets be any at every
feedback; its result is an input of `BitrateController`, which takes any rate.
Cutting the chain there loses no behaviour: each part is checked against more
inputs than the others produce.

`MC*` modules hold values of constants for TLC, `*Proofs` modules hold theorems.
A definition called "Mutant of ..." is a plausible wrong version of the
definition after it. No specification uses it; each property of a passing run
fails when one of them takes its definition's place.

Some variables are records of the past that no guard reads: `told` of `Session`
(what listeners heard in the last step), `received` and `cleared` of `Receiver`,
`sentAt` of `SenderLimiter`, `arrived` of `LossStatistics`, `beaten` of
`FrameCache`, `settled`, `cuts`, `cutTo` and `lows` of `BitrateController`,
`newest`, `apart` and `reordered` of `InterArrival`, `growing` and `calm` of
`DelaySignal`, `peak` of `DelayBasedEstimator`. One is about the future:
`course` of `DelayBasedEstimator`, set when the network settles on overuse with
one acknowledged rate, says what feedback may come from then on.

## 3. Runs that pass

| Run | Shows | Bounds, and why they are enough |
|---|---|---|
| `session` | Only `destroySender` leaves a connected session, as long as it was not reset, without a sender; an interruption belongs to a living session that sent more pings than the limit; retries stop at the timeout; `STOP_PLAY` is heard in the very step in which a timeout or a peer's DISCONNECT takes the receiver away, and in no other; an attempt ends; a peer that is silent for good is left | 2 connect ids (equal or not) and 2 listeners (kept or replaced); a timeout after 3 CONNECTs or 12 PINGs and an interruption after 4, so that each timer can be the first to expire, before and after an interruption; every call of the application at every moment. 75 thousand states |
| `rtt` | The estimate stays between its floor and the largest sample and never passes the sample | words of 10 bits and every sample of 7, the factor of 8 the real widths leave at least; PONG differences below, in and above the range |
| `sender` | Sender and pacer together: queue, sizes and budget are consistent, no packet is lost before its first transmission, first transmissions keep their order, and the pacer's promise is kept | 3 packets of two sizes, frames of one or two, any acknowledgement with any requests, a rate for one packet and one for all, garbage in the uninitialised total: sent packets end up below newer ones and ask for retransmission there |
| `pacer_moves` | The packet in front of the queue leaves it | 2 packets, a rate below a packet's size per heartbeat (debts) and one above it |
| `limiter` | No moment sees more bytes granted than the threshold; a pause of a window gives it all back, while the offset fits its int | a ring of 3 slots with arbitrary contents and 8 moments: the ring goes round twice, the offset passes its int at the end |
| `receiver` | No frame is cut, what is missing is listed until the map is cleared, and after a heartbeat the wait covers a frame | 6 packets of 4 frames (two of two packets) in any order, with loss and repetition, between heartbeats and repeated connects; arbitrary initial `maxSeq`; both reasons for clearing occur. Waits of 7 bits, over a fast network, a slow one, and one whose variation overflows; a period of 2. 3.2 million states |
| `recv_ctrl` | Both halves of the feedback saw the same packets; batches fit; a step passes over arrivals that were not fed back only if it is an arrival that finds the window at 0, and releases of them at most the first of the window; no complete window is reported with losses | 5 numbers from 0 on that wrap once, packets up to one late or repeated, 2 arrivals per message, reports after a distance of 2, releases of up to 3. 2 million states |
| `bitrate` | The rate keeps its limits and caps; it grows from the least rate of an interval, or in a step that cuts, up to what was acknowledged; it is cut at most once per report; the pacer has the latest rate | rates of 2 to 4, two delay estimates (one a cap, one not), none or a high acknowledged rate, no and heavy loss which together make a medium one, an interval of one tick within 3 moments, so that the history spans ticks, with a 32-bit clock whose sign changes in the last; cleared or dirty memory, its two rates independent. The raise by a cut occurs, from 2 to 4. The history of 4 slots never fills up: the code has 128 |
| `delay_signal` | The detector's threshold keeps its range; for packets in order the difference of two groups is that of their newest packets, as far as 32 bits can tell; an alarm takes two samples above the threshold and a rising slope; groups the wrong way round do not block the filter for ever | words of 6 values and send times beyond one lap of them; packets sent before, with and after the group (also at the very distance the inverted test asks for) or a lap after it, arriving before, with and after the last one, with and without a jump of the clocks; slopes far below, at and above the threshold, which itself moves between both ends |
| `delay_rate` | The delay-based rate keeps its limits and stays below what was acknowledged; when nothing is acknowledged any more it comes down and that is published; when the path is steady there is an estimate and it is published | acknowledged rates of 0, below, between and above the limits; round trips below, between and above the limits of the interval between changes; late feedback from clocks behind, equal and ahead; a dirty count |

Deadlock is checked except where the program really stops: a process that died,
a division by zero, a release that never returns, a write outside a ring, or the
end of a bounded clock. Ages stop counting where no guard tells larger values
apart; bounds carry the comment "bound" where they are constants.

Fairness. The loop bounds its wait for a datagram and then looks at the clock,
so heartbeats go on while the process lives (`WF` on `Heartbeat` in `Session`,
on `Transmit`, which a heartbeat calls, in `PaceSender`), and time passes (`WF`
on `Clock`, on `Tick` in `DelayBasedEstimator`). Of the network two things are
assumed, each by one module: `DelaySignal` that packets sent after the current
group keep coming (`WF` on `NewerPacket`), and `DelayBasedEstimator` that
feedback keeps coming (`WF` on `FeedbackComes`), which the receiver's heartbeat
sends. Of the application nothing is assumed. `AttemptEnds`, `SilentPeerIsLeft`,
`FrontIsSent`, `BlockedRecovers`, `StarvedComesDown` and `SteadyIsTold` are the
liveness properties. `SilentPeerIsLeft` has a premise, that from some moment on
no message comes; the last two speak of a path that settles. `BlockedRecovers`
has an escape, `WrapAhead`: a group whose first packet was sent just before the
32-bit times wrap refuses every packet that would start another, so nothing
counts the groups the wrong way round. Without it TLC shows a filter that is
blocked for ever with its group in the last moment of a lap.

## 4. Proofs

| Module | Theorems | Inductive invariant and argument |
|---|---|---|
| `SessionProofs`, the session | `TypeCorrect`, `SenderWhenConnected`, `PingsWhenInterrupted`, `BoundedRetries`, `AnnouncedStop` | `SessionInv`: the type invariant with `InterruptMeansPings` and `RetriesBounded`, which together are inductive. Retries are bounded because a timer is compared with its timeout before it is resent and ticks are positive; a reset clears interruption and counters in one step. The two action properties follow from the types by cases of `Next`, one per handler and call |
| `SessionProofs`, the round trip | `RttTypeCorrect`, `RttBounded`, `NoOverflow`, `MovesToSample` | `RttInRange`, `rttVar` a natural number, and `4 * rttVar < Word`: the quotient by four cannot exceed a quarter of a word however the difference wraps. The bound on samples makes the sum of the smoothing fit |
| `SenderProofs`, the queue | `AlwaysUnsent`, `PacerImplemented` | `QueueInv`: `cache` within `Seqs`, `sent` within `cache`, and `HasUnsent`: a queue that still holds something holds an unsent packet, or `queueFinalize` would have emptied it. Every action then maps to `Accept`, `LetGo` or a stutter of `Pacer` |
| `SenderProofs`, sizes and types | `PaceTypeCorrect`, `SizeIsUnsent` | `PaceInv`: `QueueInv`, the types, the count, and that the queue is finite, since `Seqs` need not be. The bytes of disjoint sets add up (`BytesAdd`), so an insertion adds those of the packets it does not refuse and a batch takes its own; the age of the oldest packet left exists because ages are natural numbers (`MinIn`) |
| `SenderProofs`, the budget | `BudgetStays`, on `[]WindowFits` | `PaceInv` with `BudgetInWindow`. `WindowFits`: the window of the target rate is a number an int holds. Then what is earned is no more than a window, for an interval is shorter than one, and every bound of `increaseBudget` and `useBudget` is what it seems |
| `SenderProofs`, the cache | `NeverSendsAcked` | `CacheInv`: the seed is a natural number, what was acknowledged was numbered, and whatever was numbered and not acknowledged is cached; only numbers below the seed are accepted from an acknowledgement (`KnownId`) |
| `SenderProofs`, both | `NothingIsForgotten`, `FirstInOrder`, `SenderHasUnsent`, `SenderPaces`, `SenderTypes`, `SenderSize`, `SenderBudgetStays` | `OrderInv` contains `NothingForgotten`: whatever was numbered has been on the wire, was acknowledged, or waits in the pacer; with `CacheInv` the callback finds what it is asked for. A batch takes all lower numbers that wait, so a number below one that goes is in one of the first two places. A frame's numbers are new to the queue, which therefore refuses none; a request is a finite set, being cached. So each step of the sender preserves the invariants of the pacer |
| `ReceiverProofs`, the packets | `TypeCorrect`, `WholeFrames`, `ListedWasOvertaken`, `NothingEscapes` | the type invariant with the three properties. The receiver may join more than once while `maxSeq` is 0, so the base has to be a frame's boundary before and after; each new packet lists the whole gap below it |
| `ReceiverProofs`, the waiting time | `CacheTypeCorrect`, `WaitCovers` | the type invariant with `WaitCoversFrame`: all that a heartbeat stores passes through `Floored`, whatever a product has lost to its word; a new cache forgets the heartbeat. Each half of the receiver leaves the other's variables alone, so a behaviour of `BoeSpec` is one of both halves (`PartsAreParts`), and the six theorems speak of `BoeSpec` |
| `FeedbackProofs` | `HalvesAgree`, `BatchesFit`, `NonePassedOver`, `PendingStays`, `LossIsReal` | `ProxyInv`: the types of the feedback's state, and that the highest arrival is known. A release runs only if the highest arrival does not lie beyond the window, so all that is pending is then the window's first (`ReleaseKeepsPending`); a batch consists of the lowest pending numbers, so what it moves the window over is fed back by it (`BatchIsLowest`). `LossInv`: with less than a lap counted, the numbers that came are no more than were counted; a report without a missing number would need as many as its window. `HighestInv`: both halves take their maximum from the same number. Of the broken release one lemma is enough: however it ends, it erases only what is expired (`KeptLosesExpired`) |
| `LimiterProofs`, the burst | `LimiterIsSound` | `LimiterInv`: nothing was granted later than now, or before the first time was seen; and as long as the offset fits its int, what was granted at this moment is part of the total. Within a moment the clean-up passes no slot, so the total covers what was granted in it, whatever wrong total an earlier clean-up has left |
| `LimiterProofs`, the recovery | `LimiterRecovers` | `RecoveryInv` adds witnesses while the offset fits its int: a slot of the window that is not empty, and a total that is not 0, each go back to a grant within a window of the last clean-up (`BucketsWitness`, `TotalWitness`). The total is not the sum of the slots, so the sum would be no invariant. When no grant is left in the window, what is left of the total is 0 |
| `SignalProofs` | `TypeCorrect`, `InOrderIsExact`, `AlarmsTakeTwo` | `ArrivalInv`: while packets come in order, `stamp` is what 32 bits keep of the newest packet of the group. Six lemmas about remainders (`CutIs` to `CutOfTwo`) say that cutting off before or after a subtraction is the same. `GrowthAgrees`: once a sample was below the threshold the counter is the number of samples above it since |
| `DelayProofs` | `TypeCorrect`, `EstimateIsBounded` | a controller has no estimate or one within its limits; neither it nor what was published exceeds the clamped peak of what was acknowledged. The two invariants need each other: lowering a rate keeps it below the peak only because clamping is monotonic |
| `BitrateProofs`, rate and pacer | `PacerIsTold`, `RateIsCapped`, `OneCutPerReport` | `PacerInv`: what the pacer was given is what was told last, and that is the estimate. `EstimateInv`: the estimate's type (its history is a sequence of entries, not empty after an update), its caps once it was capped, and a cut that was counted is remembered in the estimate's flag until a report clears both |
| `BitrateProofs`, growth | `GrowthDoesNotCompound`, on `[]HistoryHasRoom` | `GrowthInv`: the history ascends in rate, and for every rate that `lows` remembers of an age it holds one as low that is no older (`Recorded`); and the start phase never ends (`Starting`), or a probe could raise the rate past any history. Dropping old entries and higher ones keeps both, so its first entry is a lower bound of the interval. A step that raises the rate without growing is a cut, and `Reduced` exceeds the rate only where it is what was acknowledged |

Three theorems have a temporal premise, and TLC shows why. `[]WindowFits`, of
`BudgetStays` and `SenderBudgetStays`, says that `IntervalWindowMs * TargetRate`
never exceeds an int; with an `IntMax` of 20 in the run `pacer_moves` the window
becomes negative and the budget lies outside it. The code's window is 500 and so
the premise is a rate below 4.3 million kbps. `[]HistoryHasRoom`, of
`GrowthDoesNotCompound`, says that fewer than `Slots` entries are in the
history; with one or two slots in the run `bitrate` a full history drops its
head, which is its least entry, and the rate compounds. The code has 128 slots
for the updates of one interval of 1000 ticks of the clock.

A theorem holds for every value of the constants that the module's assumption
allows: any listeners and ids, word size and sample range, packets, sizes and
rates, any stream of frames or packets, any contents of memory. The assumptions
say that constants are natural numbers of the right order (of the pacer, that
its limit of an interval is no longer than its window, 50 and 500, and that a
queue's time is more than 1), that a timer's tick is not 0
(`SessionAssumption`), that a word leaves a factor of eight over samples
(`RttEstimator`), that a stream's frames begin with index 0
(`ReceiverAssumption`), that packets are numbered from 1 (`SenderAssumption`),
that the samples of a message are an even number, as they are taken in twos
(`ProxyAssumption`), and that the clock, microseconds since 1970, does not fit
the word of its differences (`Epoch >= Word` of `ControllerAssumption`). Where a
module computes with integers instead of words or floating-point numbers (rates
and thresholds), so do the theorems.

Only model-checked: the six liveness properties, because fairness and ENABLED
are out of the prover's reach, and that the closed forms `Remaining` and `Left`
are what the code's loops compute, which needs induction over data
(`LoopIsClosed` of the two MC modules, over bounded inputs). Every invariant and
every action property of a run has a theorem. No module that is proved about
declares a recursive operator.

## 5. What the models assume of the environment

Any datagram may arrive at any time, in any order and any number of times. In
`RecvCongestionCtrl` the peer numbers its transmissions from 0, wraps, and
packets are late by at most `Delay`. The application connects and disconnects
through `Session`'s public members and passes acknowledgement and frames to a
sender that has its pacer. The acknowledged rate, the delay estimate and a slope
of loss read from uninitialised memory are arbitrary inputs of
`BitrateController`, the acknowledged rate and the state of the path of
`DelayBasedEstimator`. The packets of `DelaySignal` are not sorted by their
sending: they come from an adapter that does not sort them. The premise of
`SilentPeerIsLeft` is a peer that falls silent for good; before that, any
message may have come.

## 6. The runs that end in a violation

| Run | What happens |
|---|---|
| `session_data` | Any message in a connected session starts its disconnection: the session's state is compared with, and set to, values of the network's enumeration (`Loop.cc:53`) |
| `session_end` | The end of a disconnection reaches no listener: `resetSession` deletes it before `notify(DISCONNECT_NOTIFY)` looks for it (`Loop.cc:128`). With the first finding, one stray DISCONNECT_ACK takes the receiver of a connected session without a word |

`session_end` is why `StopIsAnnounced` leaves out the acknowledgement of a
disconnection: of the four ways to lose a receiver, a timeout and a peer's
DISCONNECT announce it, `destroyReceiver` is the application's own call, and
this one is silent.

## 7. Other observations, from reading and modelling

These are part of the models where their module has them; no run is spent on
each.

- Loop. The receive buffer is freed with the first datagram and used again
  (`Loop.cc:30`).
- Session. A PONG does not clear the count of unanswered pings, so interruptions
  follow answered pings too (`InterruptMeansPings` speaks of pings sent). A
  timeout calls the listener without asking whether there is one
  (`Session.cc:141`). A reset leaves the state as it was, and only because the
  port stays taken (`Socket.cc:13`) nothing more reaches a session that was
  reset while connected; an application may still give it a sender. `rcid` is
  compared, never assigned. CONNECTING without a receiver sends nothing and
  never ends. An old PING counter ends a young attempt. A sender the application
  creates makes the loop refuse the CONNECT_ACK. `registeCaller` and
  `registeListener` replace only what is not NULL.
- Round trip. `BOE_ABS` has no parentheses, so `rttVar` is not the average the
  comment describes.
- Construction. Deleting a sender deletes its congestion control, which deletes
  its trigger, the same sender, once more (`SendCongestionCtrl.cc:17`); the four
  pointers of section 1 are used without being set (`SendCongestionCtrl.cc:30`).
- Pacer. The first transmission before any estimate divides by the empty window
  of the application-limited detector (`alive`); the clock's microseconds make
  every limit in milliseconds a thousand times shorter (`BaseTimer.cc:3`).
  `oldestTs` follows the newest packet. A window of bytes in an int overflows at
  4.3 million kbps.
- Sender. A packet asked for again is not sent while the queue still holds it as
  sent below a newer one (`PaceQueue.cc:43`), although `Sender.cc:152` announces
  its retransmission. `Sender.cc:141` says that all numbers before the base are
  deleted; the loop looks for number 0, which is never cached, and deletes none
  (`BelowBase`). The cache therefore shrinks by the acknowledged packet only,
  and no claim of a base can take a packet that still waits for its first
  transmission. That is what `NothingForgotten` says; it does not say that a
  packet asked for is sent again.
- Limiter. The window's total is replaced by the emptied slot's bytes instead of
  decreased; an offset that wraps becomes negative and indexes before the ring.
- Receiver. `__updateLossMap` returns false on every path, so `putMessage` ends
  before it advances the base, and acknowledgements with requests are never
  built (`Receiver.cc:146`). Packets that came are listed as lost again.
- Frame cache. `Receiver.h:80` speaks of a wait above `rtt + 2 * rttVar`, which
  is what a new cache gets; every heartbeat then smooths it towards `rtt +
  rttVar` and shortens it, so of that comment nothing is left but the frame
  interval as a floor (`WaitCoversFrame`). The periodic update runs at every
  heartbeat because one branch does not set `cacheTs`.
- Feedback. Duplicates hide losses; after the numbers wrap no loss is reported
  any more; a window that starts at number 0 is taken for none, and the next
  arrival moves it past what is held: a sender numbers from 0, so this happens
  to the start of every stream (`PassedOverOnlyAtZero` says that it is the only
  way; an arrival can go unreported only so, or as the first of a window that
  the release erases, `PendingIsKept`). Every second expired arrival stays; the
  release that empties the map does not return (`RecvEstimateProxy.cc:36`);
  feedback is built at every heartbeat.
- Loss-based rate. The test of the start phase is negated. Reports are aged by
  subtracting a 64-bit stamp from a 32-bit clock, so they never age, and the
  fall of the rate without feedback is never reached. A full history drops its
  least entry. A cut may raise the rate to what was acknowledged
  (`SenderBitrateEstimation.cc:178`, where line 172 speaks of a decrease at more
  than a tenth lost); `GrowthBounded` admits this in the very step that cuts, up
  to the acknowledged rate, and in no other.
- Arrival filter. The test for a new group is inverted: `__newGroup` is true for
  what stays in the group, so a group ends with every packet except those of a
  burst, and a packet at exactly the group's length is what starts one even then
  (`InterArrival.cc:91`). Send times are microseconds since the start cut to 32
  bits, and packets are compared by what is left (`InterArrival.cc:14`;
  `InterArrival.h:9` speaks of milliseconds). After 71 minutes nearly every
  packet counts as sent before its group and is refused until the cut time has
  passed that of the group again: the estimate from delays pauses for most of a
  lap, for good if the group was sent just before the wrap. A packet that joins
  across a wrap takes the group's time from itself, as the larger of 32 and 64
  bits is always the latter (`Stamped`).
- Delay-based rate. A rate that changed is not published, only one that stayed
  (`DelayBasedEstimator.cc:177`). The count of late feedback counts every
  feedback and is never reset, so that after a few any late one halves the rate.
  Without an acknowledged rate, and with the controller's permission, the rate
  drops to its minimum at once instead of to three quarters. A reference aliases
  the rate, so the bound of a rise never holds (`AimdRateController.cc:146`).
- Trendline and acknowledged rate. No member of the trendline estimator is
  initialised, the size of its window included, by which it divides. The
  acknowledged rate becomes positive only from small first samples.
- Feedback adapter. Nothing constructs it. `historyGet` assigns its result to
  its own parameter, so the caller's packet never gets the time it was sent;
  expired packets are erased under the iterator that walks over them; and
  `__feedbackQsort` sorts the array of round-trip times with the size of a
  packet, far beyond its end.
- Codecs. `BoeConnectMessage::Process` does not advance through the token and
  skips every second byte, so that the type it reads is the token's first byte;
  `BoeSegmentMessage` copies the first byte of the data over and over, in both
  directions.

## 8. Not modelled, and why

- Feedback adapter and send history: from the first feedback on the program
  writes beyond an array, and everything after that is undefined. What the
  adapter would hand on is an arbitrary input of `DelaySignal`.
- Codecs: fields written to and read from fixed positions, without state or
  control. `Session` takes messages as values of its dispatch; what the two
  broken codecs lose is listed in section 7 and read by no handler that is
  reached.
- Floating point: the regression of the trendline, the smoothing of the
  acknowledged rate, the slope of loss. Where their results meet control they
  are arbitrary inputs.
- Code that no execution reaches: the contents of the frame cache and
  `ackSegmentMessage`, the increases of the AIMD controller, the start and end
  of the application-limited period, `setBitrateLimits` of the pacer, the
  setters of both bitrate controllers. `resetEstimator` has no caller either; it
  is modelled for the controller, whose counts it leaves in place, not for the
  filter.
- Of the application's calls on a session: `setSender` and `setReceiver` over a
  live object, `resetSession` and `notify`. The loop's own use of the last two
  is modelled.
- Socket calls, logging, the client, the build, the tests and the vendored test
  framework (`src/catch`, two thirds of the repository's lines).

The order of the work was `Session`; `Pacer`, `PaceSender`, `Sender`;
`Receiver`, `FrameCache`, `BoeReceiver`; `LossStatistics`, `EstimateProxy`,
`RecvCongestionCtrl`; `RttEstimator`, `SenderLimiter`, `BitrateController`;
`InterArrival`, `OveruseDetector`, `DelaySignal`; `AimdRateController`,
`DelayBasedEstimator`; and the proofs along with them. What would come next:

1. Composing `DelaySignal`, `DelayBasedEstimator` and `BitrateController` into
   one specification, for liveness across them.
2. An abstract lifecycle of a session that `Session` implements, as `PaceSender`
   implements `Pacer`.
