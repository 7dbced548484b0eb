# Verification of the WSG50 driver

TLA+ models of the ROS 2 driver for the Schunk WSG 50 gripper
(`src/wsg50_driver`), model-checked with TLC on small instances, with theorems
that TLAPS proves for every instance.

## 1. The system

The driver is one ROS node, `GripperDriver` (`main.cpp`), with one `Transport`
object (`transport.cpp`) that owns a TCP connection to the gripper.

| Component | State | Operations |
| --- | --- | --- |
| Transport | `running_`, `connected_`, `socket_`, `state_` (under `state_mutex_`), `queue_`, `priority_queue_`, `in_flight_` (under `queue_mutex_`), `receive_buffer_` | `start`, `stop`, `command`, `state`, `connected`; the worker thread `run` with `connect_socket`, `queue_state_streaming`, `dispatch_requests`, `send_all`, `receive_available`, `handle_frame`, `expire_requests`, `disconnect`, `fail_all` |
| Framing | the bytes of `receive_buffer_` | `parse_frames`, `encode_frame`, `crc16`, number encoding |
| Motion goals | `motion_generation_`, `motion_active_`, `motion_execution_mutex_`, `action_threads_`, the goal handles | goal, cancel and accepted callbacks of `~/gripper_action` and `~/command`; `execute_standard`, `execute_advanced` in a thread per goal; `finish_motion`, `join_action_threads` |
| Services | none of their own | `~/home` (takes the motion mutex), `~/stop`, `~/ack_fault`, `~/tare` |
| Connection initialisation | `initialized_generation_`, `initialization_running_`, `initialization_successful_`, `initialization_thread_` | a timer callback and the thread it starts |
| Telemetry | none of its own; reads `state_` | `publish_state`, `publish_diagnostics`, `wait_for_settled_state` |
| Node lifetime | `shutting_down_` | constructor, destructor |
| Parameters, validation | constants after start | `validate_parameters`, `goal_is_valid` |

**Threads.** (1) The executor: the component is registered with a
single-threaded executor (`CMakeLists.txt:47-50`), so one thread runs all
callbacks, one at a time, and the destructor after them. (2) The worker of the
transport. (3) One thread per accepted goal. (4) The initialisation thread.

**Interaction.** Threads 1, 3 and 4 call `Transport::command`, which pushes a
request on a queue under `queue_mutex_` and returns a future; they wait for it.
The worker sends requests and sets their promises. Everybody reads a copy of
`state_` under `state_mutex_`. Goals and `~/home` exclude each other by
`motion_execution_mutex_`; a newer goal tells an older one by
`motion_generation_`, which the older one polls. The gripper answers by command
id, may send "command pending" first, and streams telemetry.

**What is hard.** `connected_` is read under a mutex and written outside it.
Replies are matched by id only. A connection can be lost at any point, in the
middle of a send too, and then every open future must get exactly one value.
STOP passes the queue. A goal may be cancelled, preempted, disconnected or shut
down at any point of its thread. The destructor waits for threads that wait for
futures and for a mutex. The single executor thread may itself wait for that
mutex. The list of hazards, each with its line and with the properties that
look at it, is in `PROJECT.json`.

**What makes each component correct.**

- *Transport:* every call of `command` gets one value, by an answer to this very
  call or a failure; a call is sent at most once and never after it failed;
  calls reach the gripper in order, one at a time, except that priority calls
  pass; nothing survives a connection; `stop` returns and leaves no caller.
- *Framing:* every valid frame is found whatever the fragmentation and whatever
  is corrupted before it, nothing else is taken for a frame, the buffer stays
  bounded and the loop ends.
- *Motion goals:* one motion at a time; a newer goal never meets an older one at
  the gripper; an interrupted motion is followed by a STOP; every goal ends.
- *Services, node:* the executor gets free again; after the destructor nothing
  runs that uses the node.
- *Initialisation:* a connection is usable only if it was itself configured; each
  connection gets an attempt; nobody waits for it, the destructor excepted.
- *Telemetry:* the flags that decide whether a goal is accepted belong to this
  connection.

## 2. The modules

| Module | What it is |
| --- | --- |
| `Transport` | the transport in detail, with gripper, network and time as its environment |
| `CommandService` | abstract: what one caller of `command` is promised |
| `CommandQueue` | abstract: in which order the calls of several threads reach the gripper, and what a lost connection does to them |
| `TransportView` | abstract: how what becomes of a call relates to the connections that `state()` counts and to `stop()`, as one caller sees it |
| `MotionGoals` | goals, services and destructor, composed with `CommandQueue` as their transport |
| `ConnectionInit` | the timer callback that initialises a connection, its thread, the readers of what it stores, and the destructor, composed with `TransportView` |
| `FrameParser` | the receive buffer and the loop of `parse_frames()` |
| `Crc16` | `crc16()`, with the table value of each byte computed bit by bit |
| `MCTransport`, `MCMotionGoals`, `MCFrameParser` | instances for TLC |
| `Selection` | the elements of a sequence that lie in a set, as a recursive function that can be proved about |
| `SequenceFacts` | lemmas: sequences, their ranges and selections; induction over numbers and the existence of recursive functions |
| `TransportProofs`, `TransportOrderProofs`, `TransportQueueProofs` | theorems about `Transport`: its invariants and `CommandService`; answers and order; `CommandQueue` and `TransportView` |
| `MotionGoalsProofs`, `ConnectionInitProofs` | theorems about the node: invariants, what becomes of calls and goals, and that the initialisation asks no more of the transport than `TransportView` promises |
| `FrameParserProofs`, `Crc16Proofs` | theorems about the parser and the checksum |

`Transport` implements `CommandService` (properties `ServiceSpec`, `CallsReturn`),
`CommandQueue` (`QueueSpec`, `QueueProgresses`) and `TransportView` (`ViewSpec`), by
the refinement mappings at its end. `MotionGoals` uses an instance of `CommandQueue`
rather than `Transport`: that is what keeps several goals within reach.
`ConnectionInit` has one caller and one call at a time, but needs to see `state_`
and `connected_` change one after the other: it is built on the actions of
`TransportView`. That `Transport` implements both is proved. `MotionGoals` takes its
transport steps from `CommandQueue` as they are, so it asks no more by the way it is
written; of `ConnectionInit`, which fixes when a call may be made, it is proved.
Above `FrameParser` a frame is one value.

    bytes --FrameParser--> frames --Transport--> replies, state_
                                      |                |
                                 CommandQueue     TransportView
                                      |                |
                                 MotionGoals <--- ConnectionInit
                                             ready

### Transport and the code

State. The variables that have the name of a member are that member. `owner`
and `pc` are where the thread in `stop()` and each call of `command()` are;
`worker` is where `run()` is, `cur`, `frame` and `victims` its locals
(`request`, the frame being handled, `requests` of `fail_all`), `resume` where it
goes on after `disconnect()`. `backoff` says that `next_connect` lies ahead,
`overdue` which deadlines have passed. `link`, `rx`, `device` are the network and
the gripper. `sent` and `rested` are history.

Steps. A critical section is one step, because nobody else can see its inside,
and so is code that touches only the worker's locals. Where this is not so the
step is split: `command()` reads `connected_` in its critical section
(`CheckConnected`) and pushes later (`Push`), and in between the worker may clear
`connected_`, close the socket and wait for the mutex (`Disconnect`, `Drain`).
`connect_socket()` is called in one step and sets `state_` and `connected_` in two
more: it does not look at `running_` while it connects, so `stop()` may come in
between. `disconnect()` is four: flags and socket, drain, one
`fail_request` at a time, `state_`. `handle_frame()` is three: state, match under
the mutex, promise.

Abstractions. Frames are values (id, status, and whose answer it is — the code
does not know the last); one too short to carry a status is ignored by the code
and left out. Deadlines and intervals pass at any time after they are
set. A time stamp in `state_` is the number of the connection it lies in. Of
`state_` the model has the fields whose staleness matters: `connected`,
`referenced`, one measured value with its time stamp, `last_status`,
`connection_generation`; the others are written in the same places. A partly
written frame is a frame not written (`SendFails`), and one that is written to a
dead link is lost. Lost wakeups of `queue_cv_` only delay a thread and are not
modelled.

### MotionGoals and the code

State. Members have their names; `pc` is where a goal's thread is (`lock` is
waiting for the mutex, then the call it makes or waits for, `finish` with
`outcome` decided), `executor` where the executor thread is. `connection` and
`accepted_on` are history.

Steps. A callback that does not wait is one step, except that accepting a goal
is two (`GoalArrives`, `GoalAccepted`) because rclcpp calls two handlers, and
because readiness is checked in the first. A goal's thread has one step per call
of `command()`, per return of it and per look at the flags. The loop that waits
for the motion is `WaitsOn` (its condition: the future is not ready) and
`NoticeInterruption` (its body, in which the motion may have ended already and a STOP
is sent all the same), and `MotionReturns` is its end.

Abstractions. Standard and advanced goals run the same steps. Payloads, feedback
and results are left out. Of an answer the driver asks whether it is `success()` or
"axis blocked", so any other status is `failed`, as is a call without an answer; `reached` after `wait_for_settled_state()` may be true
or false. `connection_is_ready()` may be
true at any time after the first connection began, even when the connection has
just been lost (the initialisation ends between the drain and the reset of
`state_`): more than `ConnectionInit` can do. `command()` may reject a call at any time,
which is more than the transport does. `motion_active_` is written in three
places and read nowhere: it is left out. Between `is_canceling()` and the end of
the handle a cancellation may still arrive; the model ends the goal in two steps
for that reason.

### ConnectionInit and the code

The transport is `View`, an instance of `TransportView`; what each of its steps leaves
alone in the node is `TransportGoesOn`.

State. The three atomics have their names. `initialization_thread_` is where the
thread is (the setting it sends, then the atomic it stores next) and for which
generation. `executor` is where the executor is and the generation in its copy
of the state. `worker` is where the transport is between two connections.
`confirmed`, `trouble`, `accepted`, `report` are history: which settings the
gripper confirmed on which connection, how attempts went wrong, what the readers
concluded.

Steps. Each atomic is read and written in a step of its own, in the order of the
code: `connection_is_ready()` reads `state_`, then the success flag, then the
generation; `publish_diagnostics()` the generation, then running, then success;
the thread writes generation, success, running. Reading the conditions of
`initialize_connection()` is one step (`initialization_running_` is only set by
the same thread); the join, the two stores before the thread starts and its start
are the next, because the executor is the only one to write them then.

Abstractions. A call that fails because the connection is lost, times out or is
refused is `failed`, one the gripper answers with another status is `error`. A
timeout is `Disconnects`. While `stop()` waits for the worker, a frame that is not
out yet is given up and its call fails although there is still a connection
(`SendGivesUp`: `Unsent` of `Transport`); `StartupConfigures` therefore only speaks of
a driver that is not stopping. A callback that returns early leaves no trace and is
no step. Diagnostics about a lost connection or a stale stream, which do
not look at the atomics, are left out, as are the texts.

### FrameParser and the code

State. `receive_buffer_` is the buffer; `wire` the bytes of this connection,
`received` how many of them `recv()` has returned; `parsing` says that
`parse_frames()` is in its loop. `turn` and `handled` are history.

Steps. One turn of the loop is one step: it erases what precedes the first
preamble (`Candidate` is what is left) and takes one of its seven exits. A
`recv()` that returns bytes starts the loop; `recv()` may return any number of
them. `handle_frame()` drops a payload without status; the rest of it belongs to
`Transport`.

Abstractions. None of the bytes: numbers and checksum are those of the code.

## 3. The runs

| Run | Instance | Properties | What it shows |
| --- | --- | --- | --- |
| `transport_safety` | 2 MOVE calls with one id, 1 priority STOP, 1 stream, 2 connections | `TypeOK`, `StateIsOfThisConnection`, `NoStrandedRequest`, `NothingOutlivesConnection`, `ReplyAnswersRequest`, `OneNormalAtDevice`, `StopLeavesNoCaller`, `QueueSpec`, `ViewSpec` | no interleaving of calls, replies, failures, timeouts and `stop()` strands a caller or mixes up answers; `state()` is about this connection; `CommandQueue` is implemented, with two normal calls and a STOP whose order it fixes, and so is `TransportView` |
| `transport_liveness` | 1 MOVE, 2 STOPs with one id, any number of pending frames, no stream, 2 connections | `ServiceSpec`, `PriorityIsNotBlocked`, `StopReturns`, `CallsReturn`, `QueueProgresses` | `CommandService` is implemented: no call is sent twice or after it failed; `stop()` returns wherever the worker is; a STOP does not wait for the answer to a MOVE, though it does for another STOP; calls come back and what is queued goes out, if time passes and pending frames end |
| `transport_reconnect` | 1 call, 1 stream, 2 connections | `ReconnectIsDelayed` | violated, see section 5 |
| `transport_disconnect` | 1 call, 1 stream, 2 connections | `FailureClearsState` | violated, see section 5 |
| `goals_safety` | 2 goals (one grasps), `~/home`, `~/tare`, 2 connections | `OneMotionAtATime`, `NewerGoalSilencesOlder`, `NothingOutlivesNode` | one motion at a time; goals that preempt each other do not meet at the gripper; nothing is left after the destructor |
| `goals_liveness` | 2 goals, `~/home`, `~/stop`, 1 connection | `TypeOK`, `StopFollows`, `GoalsEnd`, `ExecutorComesFree`, `DestructorReturns` | an interrupted motion is followed by a STOP, although the gripper never answers the motion, if `~/stop` does not stay unanswered in front of it; the destructor returns whatever is not answered; if calls come back, goals end and the executor gets free after each service |
| `goals_stop` | 1 goal | `StopIsFinal` | violated, see section 5 |
| `goals_reconnect` | 2 goals, 2 connections | `MotionIsNotResumed` | violated, see section 5 |
| `goals_home` | 1 goal, `~/home` | `StopCanBeCalled` | violated, see section 5 |
| `init` | 2 connections, acknowledge but no homing | `TypeOK`, `ReadyIsConfigured`, `AcceptedIsConfigured`, `DiagnosticsAreTrue`, `ExecutorIsNotHeldUp`, `EveryConnectionGetsItsAttempt`, `DestructorReturns` | an attempt that is overtaken by a new connection deceives no reader, keeps no later attempt from starting and does not hold up the destructor |
| `init_startup` | 2 connections, no homing, no acknowledge | `StartupConfigures` | violated, see section 5 |
| `frames` | every sequence of up to 3 of 10 segments, cut in every way, payloads up to 3 bytes | `TypeOK`, `FragmentationIsInvisible`, `BufferIsBounded`, `FramesGetThrough`, `OnlySentFrames`, `EachTurnErases` | the frames handled are those a single pass over the stream finds, all that were sent intact and none that was not; the buffer stays small |

**Bounds.** *Calls:* matching goes by id, so what can go wrong needs two calls
with one id and one with another, and one that passes the queue. *Connections*
(`MaxGeneration`, `MaxConnection`): two, so that something can be left over from
the first; one in `goals_liveness`, where what counts is that a connection is lost
and not which. *Frames* that the gripper sends are not counted: pending and telemetry
frames may come without end. *Frames on the way* (`MaxRx`): one; the worker handles
them one by one and the sockets keep their order. *Streams:* one in the safety run,
none in the liveness run, where a request that waits in the queue is a MOVE, and an
endless stream of telemetry has the same effect as one of pending frames.
*Two STOPs* in the liveness run: the second is held back by the first
(`transport.cpp:504`), which is what `PriorityIsNotBlocked` and `QueueProgresses`
have to get past. *Oversize payloads:* none in the runs (those of the driver have a few bytes);
`SendGivesUp` is covered by the theorems. *Goals:* preemption relates two, and
what is said of any two goals is proved for any number. *Settings:* the run has
three; a fourth goes through the same steps, and the theorems hold for all four
values of the two parameters. *Segments* (`MaxSegments`): three, so that there is
something before, in and after a corrupted frame. The segments hold what the
parser may trip over: payloads and an id that look like a preamble, a frame
without status, a flipped bit, a length that is too short and one that is too
long, a stray byte, a stray preamble byte and half a header. The largest payload
is 3 bytes instead of 4096, which is all that `max_payload_size` does.
Without these bounds the state space is infinite; the theorems of section 4 do
not depend on them. Symmetry is used in `transport_safety` only, between the two
MOVE calls.

**Checksum.** Two ASSUMEs of `MCFrameParser`, which TLC evaluates in the run,
compare `Crc16` with the vectors of `test_transport.cpp:251-261` and say that
every change of one bit of the frames used is detected.

**Fairness.** Every thread that can take a step takes one eventually (`Worker`,
`Joined`, `Push`/`Reject`, `Thread(g)`, `Thread`, `ExecutorGoesOn`): the operating
system schedules threads. In `MotionGoals` the worker is that part of the transport
that writes what it can and fails what it dropped. The timer callback of `ConnectionInit` has strong
fairness: the executor takes what is due in turn, so other callbacks, although
they keep coming, do not starve it. So has the exit of `receive_available()` when
`running_` is cleared (`RecvStopped`): the loop looks at `running_` after every
`recv()`, so frames that keep coming do not keep the worker in it, while each time a
frame is handled the exit is disabled for a moment. Nothing is assumed of clients, of the
network and of the gripper, which may be silent for ever, nor of the clock.

What needs more says so itself, as a premise of the property. Without it TLC finds the
property violated in the run, except where this list says that another premise hides it.

- `TimePasses`: deadlines and intervals pass, as the clock is monotonic. Premise of
  `CallsReturn` and `QueueProgresses`.
- `PendingEnds`: the gripper does not send "command pending" for ever. Each such frame
  moves the deadline (`transport.cpp:440-443`), so a gripper that goes on sending them keeps
  the call, and everything queued behind it, waiting for ever. Premise of the same two.
- `SocketRunsEmpty`: `receive_available()` finds the socket empty now and then; as long as
  it does not, the worker neither sends nor looks at deadlines. Premise of the same
  two and of `PriorityIsNotBlocked`. In the run, which has no telemetry, only the last
  needs it, as `PendingEnds` excludes an endless flood there; with telemetry all three do.
- `OthersComeBack`: the other priority calls do not stay in flight for ever: a STOP is held
  back while its id is in flight (`transport.cpp:504`). Premise of `PriorityIsNotBlocked`.
- `OtherStopsComeBack`, the same in `MotionGoals`, is the premise of `StopFollows`: an
  unanswered `~/stop` keeps the STOP of a goal in the queue. There is no premise about the
  motion: the gripper need not answer it and no deadline need pass.
- `CallsComeBack` (the transport does not rest while it has a call) is the premise of
  `GoalsEnd`, `ExecutorComesFree` and `EveryConnectionGetsItsAttempt`. For `MotionGoals` it
  is `CommandQueue!Fairness`, which `QueueProgresses` shows the detailed transport to
  have if `TimePasses`, `SocketRunsEmpty` and `PendingEnds`: so these three properties rest
  on finitely many pending frames, too.

`StopReturns` and both `DestructorReturns` have no premise: they hold although no call
comes back, no deadline passes and frames keep coming.
`transport_->stop()` ending the connection (`StopDisconnects`) is what
`StopReturns` and `LoopEnds` are about. No fairness is asked of the mutex beyond
that of its waiters: with finitely many goals each takes it once.

`GoalsEnd`, `StopFollows`, `ExecutorComesFree` and `DestructorReturns` of `MotionGoals` are
written as `[]<>` of what must not stay away for ever, and so are `PriorityIsNotBlocked` and
`StopReturns` of `Transport`: it never happens that a call is left waiting, or `stop()`
inside, from some point on. A goal that has ended stays so, and so do the end of the node,
an interruption and a promise that was set: for these it says the same as that the one
leads to the other, and TLC can then check two goals, `~/home` and `~/stop` in one run.

The parser needs no fairness: `EachTurnErases` says that its loop has a variant,
and as `frames` checks deadlock the loop is never stuck before it is left.

**Deadlock.** The transport and the parser never stop, so deadlock is checked. The
node does stop (the destructor), and a client may never call it again, so the
runs of `MotionGoals` and `ConnectionInit` do not check it; `GoalsEnd`,
`ExecutorComesFree`, `EveryConnectionGetsItsAttempt` and `DestructorReturns` say
what must not stop.

**Premises of four properties.** `ReplyAnswersRequest` and `OneNormalAtDevice`
are stated for calls that all allow "command pending" (`Client \subseteq
AllowPending`). A call that does not is ended by the pending frame while the
gripper goes on with it: its real answer is left over and may end the next call
with its id, and the next call is written beside it. All calls the driver makes
pass `allow_pending = true`, and only the internal streaming requests do not, so
both are about the program as it is. `QueueSpec` holds if all priority calls have
one id: two with different ids would be in flight together, which `CommandQueue`
does not allow. The driver sends nothing but STOP with priority, and in the run its
calls are the only ones with priority; the theorem states the premise. `ViewSpec` is about calls whose payload
fits a frame: `encode_frame()` throws for a larger one, and the call then fails on
a connection that is up. The settings of the initialisation have a few bytes.

## 4. The theorems

Proved by TLAPS for all values of the constants that satisfy the named
assumptions `RequestAssumption`, `BoundAssumption`, `ActorAssumption`,
`ConnectionAssumption`, `InitAssumption`, `ParserAssumption` (which TLC evaluates
in every run): any number of calls, ids, streams, goals, service requests,
connections, any byte stream, any checksum, and any bounds.

Together they say what the runs cannot: `TransportImplementsQueue` and
`TransportImplementsView` say that the detailed transport is what the goals and the
initialisation are composed with, and `NodeKeepsToView` that the initialisation asks no
more of it; so what is proved of the two is about the detailed transport.

`TransportProofs`
- `TypeCorrect`, `NothingStranded`, `NothingOutlives`, `NeverThrows`,
  `StopAnswersCallers`, `StateIsCurrent`: the invariants `TypeOK`,
  `NoStrandedRequest`, `NothingOutlivesConnection`, `ReplyNeverThrows`,
  `StopLeavesNoCaller`, `StateIsOfThisConnection`.
- `TransportImplementsService`: `Spec => ServiceSpec`, every step of the
  transport is a step of `CommandService` or a stutter.

None of the invariants is inductive. That no request is stranded depends on who
may push behind a drain: `MutexInv` (the mutex is held by the call between its
two steps), `ConnectionInv` (at which place of `run()` the socket and
`connected_` say what) and `DownInv` (without a connection nothing is queued and
no call is about to push) settle that. That a promise is not set twice depends
on a request being in one place only: `PlaceInv` (queues without repetition,
disjoint from what is in flight, each in flight under its own id), `CurInv` (what
the worker has in its hands) and `UnsetInv` (what can still be reached is unset).
`IInv` is their conjunction with `TypeOK` and `NoStrandedRequest`; `Invariant`
proves it, and the others follow. `StateIsCurrent` and the refinement add
`StateInv` and `SentInv` (a call that still waits was not sent) on top.

`TransportOrderProofs`
- `RepliesAreAnswers`, `NormalCallsTakeTurns`: the invariants
  `ReplyAnswersRequest` and `OneNormalAtDevice`.

Replies are matched by id, so what has to be shown is that nobody else can have
the id of a call the gripper still owes an answer. `OrderInv` says where such a
call is: what the gripper works on is in `in_flight_` under its id (`DeviceInv`),
so is what has its answer in the socket, and there is one answer (`RxInv`), or in
the worker's hands (`MatchInv`); what is about to be written is not at the gripper
(`SendInv`). It rests on two facts about a connection: a closed one leaves nothing
behind (`GripperInv`), so no answer crosses to the next, and at most one request
in flight is not a priority request (`NormalInv`).

`TransportQueueProofs`
- `TransportImplementsQueue`: `OnePriorityId => (Spec => QueueSpec)`.
- `TransportImplementsView`: `Spec => ViewSpec`, for every call that fits a frame.

The streaming requests share the queue with the calls; the refinement mapping
leaves them out (`OwnCalls`), and the lemmas about `SelectIn` say how this agrees
with `Append`, `Tail` and concatenation. Beside `IInv` it needs `VictimInv`: what
`fail_all` has taken out of the queues and not failed yet has its promise unset.
Each action of the transport is then one of `CommandQueue`, or a stutter: `Push`
enqueues, `DispatchPriority` and `DispatchNormal` send, a reply or a failed send
returns, `Drain` drops.

`TransportView` says when a call may fail: when it was refused, by `disconnect()`, or
because `stop()` runs. In the code `disconnect()` may have been called by the send of
this very call, which then goes on to fail it a second time; the call fails on a live
connection only if `send_all()` gave up because `running_` was cleared. `UnsentInv`
follows this call through `disconnect()`: it is in flight, then among the victims or
failed already, and what is still unset when the send returns has a connection and a
`stop()`. `ResetInv` says that when `state_` is reset nothing is queued, in flight or
about to be pushed, so no call of the old connection is open when the new one is
announced. With `StateInv` and `VictimInv` they make `ShownInv`, inductive next to
`IInv`.

`MotionGoalsProofs`
- `TypeCorrect`, `OneMotion`, `NewerSilencesOlder`, `NothingOutlives`: the
  invariants `TypeOK`, `OneMotionAtATime`, `NewerGoalSilencesOlder`,
  `NothingOutlivesNode`.

`IInv` says who holds the mutex (`HolderInv`: exactly the thread at a place where
it is busy, or the home service between its call and its return), that somebody
waits for every pending call (`WaitedInv`), that the transport only ends calls
that were made (`TakenInv`), that accepted goals have different generations
(`GenerationInv`), and where goals and the executor stand (`StandingInv`,
`ExecutorInv`). `NewerGoalSilencesOlder` is part of it: it is preserved because a
newer goal begins under the mutex, when an older one is waiting or done, and an
older one that begins after it finds itself preempted.

- `CallsAreKept`, `CallsReturnOnce`: a call of `command()` is in one place of the
  transport exactly as long as its caller waits (`PlacedInv`: queues without repetition,
  apart from what is in flight and what is about to be failed), so none is forgotten
  and none gets a second result. As every step of the node is one of `CommandQueue` or
  leaves the transport alone (`QueueNext`), this is shown once for its actions.
- `ReportsAreTrue`: a goal is reported succeeded only if acceleration and force were
  confirmed for it and its motion was made, and its goal handle goes through no
  transition that rclcpp_action would answer with an exception, which in a goal's thread
  would end the process. `ReportInv` says what the thread has behind it at each place;
  it rests on `CallsReturnOnce`, as what was confirmed must stay so.

`ConnectionInitProofs`
- `TypeCorrect`, `ReadyConfigured`, `AcceptedConfigured`, `DiagnosticsTrue`,
  `ExecutorGoesOnAtOnce`: the invariants `TypeOK`, `ReadyIsConfigured`,
  `AcceptedIsConfigured`, `DiagnosticsAreTrue`, `ExecutorIsNotHeldUp`.

`connection_is_ready()` and `publish_diagnostics()` are not atomic, and the thread
stores the generation before the success flag. What saves them is that the
executor itself clears the flag before it starts a thread, and that only one
thread runs. `IInv` says this: the generations are ordered (`StoredInv`,
`OrderInv`: what is stored, what the thread works on, what a reader saw, what the
transport has), the flags tell where the thread is (`FlagInv`, `TroubleInv`), the
settings behind it were confirmed on its connection or a later one (`SettingInv`,
`BehindInv`), and what a reader found out still holds when it reads on
(`LookingInv`, `DiagnoseInv`).

- `NodeKeepsToView`: `Spec => View!Spec`. It needs `IInv`: the thread makes its next
  call when the last one is over, a new thread starts only after the old one has ended,
  and the executor calls `stop()` once and then nothing else.

`FrameParserProofs`
- `TypeCorrect`: the buffer is always the end of what was received on this
  connection; `BufferBounded`: `BufferIsBounded`; `TurnsErase`: `EachTurnErases`.

- `FragmentationInvisible`, `FramesGotThrough`: the invariants
  `FragmentationIsInvisible` and `FramesGetThrough`.
- `NothingElseHandled`: each reply handled was read out of a frame with the right
  checksum within the bytes received.
- `EncodedFramesGetThrough`: what `encode_frame()` makes, `parse_frames()` finds,
  wherever it stands in the stream, if the checksum is `SelfChecking` for it (fits
  in two bytes, and is 0 over a frame with its checksum behind it).
- `Crc16FramesGetThrough`: the same with the `crc16()` of the code as the checksum, of
  which nothing is assumed (`Crc16IsSelfChecking`).

For the first three the argument is that each exit of the loop keeps a suffix of
the buffer: a shorter one if the loop goes on (`GoingOn`), and one shorter than
the largest frame if it is left (`Leaving`).

For the others the parser, which sees the stream piece by piece and forgets what
it erases, is compared with `Scan()`, which reads all of it in one go. That what
was handled equals the scan is not inductive: a frame that is cut now will be found
later, and the scan of more bytes need not begin with what the scan of fewer
found unless one says why. `ScanInv` does: of *every* stretch of the stream from
the bytes received up to all of it, the scan finds what was handled and then what
it finds from the beginning of the buffer on. A turn keeps this because what it
looks at is settled by the bytes in the buffer (`SamePreamble`, `SameSize`,
`SameFrame`): a byte that begins no preamble, a size that is too large or a
checksum that is wrong stays so whatever comes behind it. `NothingLeft` says that a
loop that was left has found all there is. Both make up `HandledInv`, which is
inductive next to `IInv`.

`Crc16Proofs`
- `ChecksumChecksItself`: the checksum of any bytes is a number of 16 bits, and that of
  these bytes with their checksum behind them, low byte first, is 0;
  `test_transport.cpp:247` asks this of one frame.

The argument: after the bytes the checksum is `256 * high + low`. The byte `low` meets
the low byte of the checksum, so the table is read at 0, where it is 0, and what is left
is `high`; the byte `high` does the same. What it takes is that the exclusive or, built
from those of halves down to one bit, maps words to words, and is 0 of a word with
itself and neutral with 0 (`Xor16Facts`).

**Recursive functions.** `Scan`, `SelectedUpTo` and the rounds of `crc16` are
recursive functions, not RECURSIVE operators. The library's theorems about such functions take operators
as parameters, which no installed prover instantiates; `SequenceFacts` proves what is needed with sets and functions in place of operators: induction
upwards and downwards (`UpTo`, `DownFrom`), and that a function with given
equations exists (`RecursionExists`, `BackwardRecursionExists`). `ScanFacts`
derives from it that `Scan(s)` obeys its equations, `CrcIsLastRound` that `crc16` obeys
its own.

**Only model-checked.** All liveness and the fair refinements (`CallsReturn`,
`QueueProgresses`): reasoning about fairness and ENABLED is beyond the prover.
`OnlySentFrames`, which is about the frames that the instance sends and the real
checksum: `NothingElseHandled` is what holds of every stream and every checksum, and no
16 bit checksum tells every corruption. That `crc16()` agrees with the test vectors and
tells every change of one bit is evaluated for the frames of the run. `ReplyNeverThrows`
is the other way round: it is proved, and no run of its own checks it; what would
come of a promise set twice is a step that no abstract specification allows
(`QueueSpec`, `ServiceSpec`). The properties of section 5, which are violated.

## 5. Where the code differs from its documentation

- `transport_reconnect`: `reconnect_interval_ms` is the "Reconnect delay"
  (README of the driver, line 175), but `expire_requests()` and a failed send
  disconnect without setting `next_connect`: the worker connects again at once. The
  run ends a connection in either way; `start()`, of which nobody expects a delay,
  does not count.
- `transport_disconnect`: the test `FailsPendingCommandAndClearsStateOnDisconnect`
  (`test_transport.cpp:350-354`) expects that `connected()` and `state().referenced` are
  false as soon as the future of the pending command has failed. `disconnect()` fails the
  futures first (`transport.cpp:312`) and resets `state_` last (313-315), so the caller
  may read the old `referenced`. `ViewSpec` describes the order of the code, in which a
  call is over before `state_` is reset; it is what `ConnectionInit` relies on.
- `goals_stop`: "Cancellation sends a priority STOP" and "a newer goal stops and
  preempts the older goal" (lines 150-151). The STOP passes a motion command that
  is still queued, because the worker has not come to it or something else is in
  flight, is answered, and is not repeated; the motion starts after it and runs to its end.
- `goals_reconnect`: "the driver reconnects without resuming motion" (lines
  178-180). A goal's thread never asks on which connection its goal was accepted:
  if the connection is lost and established again while it waits for the mutex, or
  between two of its calls, it moves the gripper on the new one.
- `goals_home`: "Stop motion explicitly with" `~/stop` (line 153). A `~/home`
  request during a motion keeps the only executor thread waiting for the mutex:
  neither `~/stop` nor a cancellation is served before the motion has ended.
- `init_startup`: "The safe default startup only connects, configures
  acceleration/force, and starts state streaming" (lines 60-61).
  `connect_socket()` announces the connection in `state_` before it sets
  `connected_`. If the timer callback runs in between, `command()` refuses the
  first setting, the connection counts as initialised without success, and it is
  not tried again: the connection stays up, streams, and refuses every goal until
  it is lost. The window is small and open on every connection.

## 6. What is not modelled, and what is left

- *Telemetry.* `publish_state()` copies what `state()` returns. The measured
  values (`opening_mm` and the like) are not cleared when a connection is lost, so
  the first messages of a connection may show those of the one before; nothing
  in the code or its documents says otherwise, so there is no property to
  check. `wait_for_settled_state()` only waits: `MotionGoals` lets the goal be
  reached or not, whatever the telemetry was.
- *The automatic homing beside a goal.* With `auto_home` the initialisation
  thread sends HOME without `motion_execution_mutex_`. A new goal is rejected
  until the initialisation has ended, so this takes a goal that was accepted on
  the connection before: the situation `goals_reconnect` shows.
- *Number encoding and status texts.* `decode_float`, `append_float` copy bytes,
  `status_text` looks a text up.
- *Parameters and goal validation.* Comparisons of numbers with constants.
- *`action_threads_`* grows with every goal until the destructor joins them; seen
  by reading, and nothing depends on its length.
- Message definitions, robot description, launch files, build and CI: no
  behaviour. Logging.

Every safety property that a passing run checks is a theorem, `OnlySentFrames`
excepted. Compared by reading only: that `MotionGoals`, which accepts a goal at any time
once a first connection began, allows all that `connection_is_ready()` of `ConnectionInit`
lets through; and that a frame, one value in `Transport`, is what `FrameParser` hands over.
