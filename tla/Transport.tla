------------------------------ MODULE Transport ------------------------------
(***************************************************************************)
(* The transport of the WSG50 driver (wsg50_driver/src/transport.cpp).     *)
(*                                                                         *)
(* Threads that call command() put Request objects on one of two queues    *)
(* and keep the future; one worker thread (run) owns the socket, sends one *)
(* queued request per turn of its loop, matches the frames it receives to  *)
(* the requests in flight by command id, and fails every request it holds  *)
(* when the connection goes away.  A third thread starts and stops it.     *)
(*                                                                         *)
(* The model keeps every step at which another thread can observe or       *)
(* change something: a critical section under queue_mutex_ or state_mutex_ *)
(* is one step, except that command() reads connected_ inside its critical *)
(* section while the worker writes connected_ outside any, so that section *)
(* is two steps with the mutex held between them.                          *)
(*                                                                         *)
(* Abstractions: a frame is one value (framing and CRC are left to the     *)
(* byte level); a deadline is the fact that it has passed (overdue); a     *)
(* time point of state_ is the number of the connection it lies in.        *)
(***************************************************************************)
EXTENDS Naturals, Sequences, FiniteSets, Functions, Selection

CONSTANTS
  Client,        \* calls of command(), each made at most once
  CommandId,     \* command ids (one byte each)
  ClientId,      \* the id each call passes
  Priority,      \* the calls made with priority = true
  AllowPending,  \* the calls made with allow_pending = true
  Oversize,      \* the calls whose payload encode_frame refuses
  StreamSeq,     \* ids of the internal streaming requests, in order
  SystemStateId, \* 0x40, the telemetry id that carries system_state
  OpeningId,     \* 0x43, the telemetry id that carries opening_mm
  None,          \* no request
  MaxGeneration, \* bound: connections established in one behaviour
  MaxRx          \* bound: frames waiting in the socket

StreamId == Range(StreamSeq)
Request == Client \cup StreamId

ASSUME RequestAssumption ==
  /\ ClientId \in [Client -> CommandId]
  /\ Priority \subseteq Client
  /\ AllowPending \subseteq Client
  /\ Oversize \subseteq Client
  /\ StreamSeq \in Seq(CommandId)
  /\ \A i, j \in 1..Len(StreamSeq) : StreamSeq[i] = StreamSeq[j] => i = j
  /\ Client \cap StreamId = {}
  /\ \A c \in Client : ClientId[c] \notin StreamId
  /\ None \notin Request
  /\ SystemStateId \in CommandId /\ OpeningId \in CommandId
  /\ SystemStateId # OpeningId

ASSUME BoundAssumption ==
  MaxGeneration \in Nat /\ MaxRx \in Nat

VARIABLES
  running_,        \* run() should go on
  owner,           \* the thread in start()/stop()
  connected_,      \* commands are accepted
  socket_,         \* socket_ >= 0
  state_,          \* DeviceState
  queue_, priority_queue_, in_flight_,
  queue_mutex_,    \* its holder: a client between two steps, or None
  promise,         \* what each request's promise holds
  pc,              \* where each call of command() is
  worker,          \* where run() is
  resume,          \* where the worker goes after disconnect()
  cur,             \* the local "request" of the worker
  frame,           \* the frame being handled
  victims,         \* the local "requests" of fail_all
  overdue,         \* ids in flight whose deadline has passed
  backoff,         \* next_connect lies in the future
  rested,          \* a connection, start() or the passing of
                   \* reconnect_interval came after the last close (history)
  link,            \* the TCP connection is up
  rx,              \* frames the worker has not received yet
  device,          \* requests the gripper is working on
  sent             \* how often each call was written to a socket (history)

\* What the worker never writes, what fail_all empties, what goes with the
\* socket, and what only the worker reads.
callers    == <<running_, owner, pc, queue_mutex_>>
requests   == <<queue_, priority_queue_, in_flight_, promise, victims, overdue>>
connection == <<connected_, socket_, link, rx, device, rested>>
locals     == <<resume, cur, frame>>
vars == <<running_, owner, connected_, socket_, state_, queue_,
          priority_queue_, in_flight_, queue_mutex_, promise, pc, worker,
          resume, cur, frame, victims, overdue, backoff, rested, link, rx,
          device, sent>>

-----------------------------------------------------------------------------
Id(r) == IF r \in StreamId THEN r ELSE ClientId[r]

Status == {"success", "pending", "error"}

Frame == [id : CommandId, of : Request \cup {None}, status : Status]

InFlight == {in_flight_[i] : i \in CommandId} \ {None}

NoneInFlight == [i \in CommandId |-> None]

NoFrame == [id |-> SystemStateId, of |-> None, status |-> "success"]

\* The requests the transport has taken charge of and not answered.
Held == Range(queue_) \cup Range(priority_queue_) \cup InFlight \cup victims

\* fail_request: a promise that is already set stays as it is.
FailRequest(r) ==
  promise' = IF promise[r] = "unset" THEN [promise EXCEPT ![r] = "failed"]
                                     ELSE promise

\* A worker step that changes nothing but where the worker is.
GoTo(l) ==
  /\ worker' = l
  /\ UNCHANGED <<requests, connection, locals, state_, backoff, sent>>

-----------------------------------------------------------------------------
Init ==
  /\ running_ = FALSE /\ owner = "idle"
  /\ connected_ = FALSE /\ socket_ = FALSE
  /\ state_ = [connected |-> FALSE, referenced |-> 0, opening |-> 0,
               opening_updated_at |-> 0, last_status |-> "transport_error",
               generation |-> 0]
  /\ queue_ = <<>> /\ priority_queue_ = <<>> /\ in_flight_ = NoneInFlight
  /\ queue_mutex_ = None
  /\ promise = [r \in Request |-> "unset"]
  /\ pc = [c \in Client |-> "idle"]
  /\ worker = "off" /\ resume = "off" /\ cur = None /\ victims = {}
  /\ frame = NoFrame
  /\ overdue = {} /\ backoff = FALSE /\ rested = TRUE
  /\ link = FALSE /\ rx = <<>> /\ device = {}
  /\ sent = [c \in Client |-> 0]

-----------------------------------------------------------------------------
(* The owner: start(), stop() and the join in stop().                      *)

Start ==
  /\ owner = "idle" /\ ~running_
  /\ running_' = TRUE
  /\ worker' = "loop"
  /\ backoff' = FALSE /\ rested' = TRUE
  /\ UNCHANGED <<owner, pc, queue_mutex_, requests, connected_, socket_, link,
                 rx, device, locals, state_, sent>>

Stop ==
  /\ owner = "idle" /\ running_
  /\ running_' = FALSE
  /\ owner' = "joining"
  /\ UNCHANGED <<pc, queue_mutex_, requests, connection, locals, worker,
                 state_, backoff, sent>>

Joined ==
  /\ owner = "joining" /\ worker = "off"
  /\ owner' = "idle"
  /\ UNCHANGED <<running_, pc, queue_mutex_, requests, connection, locals,
                 worker, state_, backoff, sent>>

-----------------------------------------------------------------------------
(* A caller: command(id, payload, allow_pending, timeout, priority).       *)

\* Mutant: connected_ is read before the mutex is taken.
CheckConnectedUnlocked(c) ==
  /\ pc[c] = "idle" /\ queue_mutex_ = None
  /\ pc' = [pc EXCEPT ![c] = IF connected_ THEN "push" ELSE "reject"]
  /\ UNCHANGED <<running_, owner, queue_mutex_, requests, connection, locals,
                 worker, state_, backoff, sent>>

CheckConnected(c) ==
  /\ pc[c] = "idle" /\ queue_mutex_ = None
  /\ queue_mutex_' = c
  /\ pc' = [pc EXCEPT ![c] = IF connected_ THEN "push" ELSE "reject"]
  /\ UNCHANGED <<running_, owner, requests, connection, locals, worker,
                 state_, backoff, sent>>

Push(c) ==
  /\ pc[c] = "push"
  /\ IF c \in Priority
       THEN /\ priority_queue_' = Append(priority_queue_, c)
            /\ UNCHANGED queue_
       ELSE /\ queue_' = Append(queue_, c)
            /\ UNCHANGED priority_queue_
  /\ queue_mutex_' = None
  /\ pc' = [pc EXCEPT ![c] = "waiting"]
  /\ UNCHANGED <<running_, owner, in_flight_, promise, victims, overdue,
                 connection, locals, worker, state_, backoff, sent>>

Reject(c) ==
  /\ pc[c] = "reject"
  /\ FailRequest(c)
  /\ queue_mutex_' = None
  /\ pc' = [pc EXCEPT ![c] = "waiting"]
  /\ UNCHANGED <<running_, owner, queue_, priority_queue_, in_flight_,
                 victims, overdue, connection, locals, worker, state_,
                 backoff, sent>>

-----------------------------------------------------------------------------
(* disconnect(reason): connected_ is cleared and the socket closed at      *)
(* once; fail_all drains the queues under the mutex, then fails what it    *)
(* took; state_ is reset last.  `then' is where the caller goes on and     *)
(* `delayed' whether it puts next_connect off when it does.                *)

Disconnect(then, delayed) ==
  /\ connected_' = FALSE
  /\ socket_' = FALSE
  /\ link' = FALSE /\ rx' = <<>> /\ device' = {}
  /\ rested' = (rested /\ ~socket_)
  /\ backoff' = (backoff \/ delayed)
  /\ resume' = then
  /\ worker' = "drain"
  /\ UNCHANGED <<requests, cur, frame, state_, sent>>

\* Mutant: the requests in flight are dropped, not failed.
QueuedOnly == Range(queue_) \cup Range(priority_queue_)

Drained == InFlight \cup Range(queue_) \cup Range(priority_queue_)

Drain ==
  /\ worker = "drain" /\ queue_mutex_ = None
  /\ victims' = Drained
  /\ in_flight_' = NoneInFlight
  /\ queue_' = <<>> /\ priority_queue_' = <<>>
  /\ overdue' = {}
  /\ worker' = "fail"
  /\ UNCHANGED <<promise, connection, locals, state_, backoff, sent>>

FailVictim ==
  /\ worker = "fail"
  /\ \E r \in victims : FailRequest(r) /\ victims' = victims \ {r}
  /\ UNCHANGED <<queue_, priority_queue_, in_flight_, overdue, connection,
                 locals, worker, state_, backoff, sent>>

\* Mutant: the referenced flag survives the connection.
ClearConnectedOnly ==
  /\ worker = "fail" /\ victims = {}
  /\ state_' = [state_ EXCEPT !.connected = FALSE,
                              !.last_status = "transport_error"]
  /\ worker' = resume /\ resume' = "off"
  /\ UNCHANGED <<requests, connection, cur, frame, backoff, sent>>

ClearState ==
  /\ worker = "fail" /\ victims = {}
  /\ state_' = [state_ EXCEPT !.connected = FALSE, !.referenced = 0,
                              !.last_status = "transport_error"]
  /\ worker' = resume /\ resume' = "off"
  /\ UNCHANGED <<requests, connection, cur, frame, backoff, sent>>

-----------------------------------------------------------------------------
(* run(): the head of the loop and connect_socket().                       *)

\* Mutant: the thread ends without its last disconnect().
LoopJustEnds ==
  /\ worker \in {"loop", "stream"} /\ ~running_
  /\ GoTo("off")

LoopEnds ==
  /\ worker \in {"loop", "stream"} /\ ~running_
  /\ Disconnect("off", FALSE)

\* Mutant: running_ is only looked at while there is no connection.
LoopAlwaysTurns ==
  /\ worker = "loop" /\ socket_
  /\ GoTo("dispatch")

LoopTurn ==
  /\ worker = "loop" /\ running_ /\ socket_
  /\ GoTo("dispatch")

\* connect_socket() may take as long as connect_timeout and does not look at
\* running_ again: stop() may be called meanwhile.
LoopConnects ==
  /\ worker = "loop" /\ running_ /\ ~socket_ /\ ~backoff
  /\ GoTo("connect")

ConnectFails ==
  /\ worker = "connect"
  /\ backoff' = TRUE
  /\ worker' = "loop"
  /\ UNCHANGED <<requests, connection, locals, state_, sent>>

ConnectSucceeds ==
  /\ worker = "connect"
  /\ state_.generation < MaxGeneration
  /\ socket_' = TRUE
  /\ link' = TRUE
  /\ state_' = [state_ EXCEPT !.connected = TRUE, !.last_status = "success",
                              !.opening_updated_at = 0, !.generation = @ + 1]
  /\ rested' = TRUE
  /\ worker' = "connected"
  /\ UNCHANGED <<requests, connected_, rx, device, locals, backoff, sent>>

SetConnected ==
  /\ worker = "connected"
  /\ connected_' = TRUE
  /\ worker' = "stream"
  /\ UNCHANGED <<requests, socket_, link, rx, device, rested, locals, state_,
                 backoff, sent>>

\* Mutant: the streaming requests are queued with the priority requests.
QueueStreamingFirst ==
  /\ worker = "stream" /\ queue_mutex_ = None
  /\ priority_queue_' = priority_queue_ \o StreamSeq
  /\ promise' = [r \in Request |-> IF r \in StreamId THEN "unset"
                                                     ELSE promise[r]]
  /\ worker' = "dispatch"
  /\ UNCHANGED <<queue_, in_flight_, victims, overdue, connection, locals,
                 state_, backoff, sent>>

\* Fresh internal requests: their promises are unset again.
QueueStateStreaming ==
  /\ worker = "stream" /\ queue_mutex_ = None
  /\ queue_' = queue_ \o StreamSeq
  /\ promise' = [r \in Request |-> IF r \in StreamId THEN "unset"
                                                     ELSE promise[r]]
  /\ worker' = "dispatch"
  /\ UNCHANGED <<priority_queue_, in_flight_, victims, overdue, connection,
                 locals, state_, backoff, sent>>

-----------------------------------------------------------------------------
(* dispatch_requests(), encode_frame() and send_all().                     *)

PutInFlight(r) ==
  /\ in_flight_' = [in_flight_ EXCEPT ![Id(r)] = r]
  /\ overdue' = overdue \ {Id(r)}
  /\ cur' = r
  /\ worker' = "send"
  /\ UNCHANGED <<promise, victims, connection, resume, frame, state_,
                 backoff, sent>>

\* Mutant: a priority request also waits until nothing is in flight.
PriorityWaitsForAll == priority_queue_ # <<>> /\ InFlight = {}

PriorityCanGo ==
  priority_queue_ # <<>> /\ in_flight_[Id(Head(priority_queue_))] = None

\* Mutant: a normal request does not wait for what is in flight.
NormalNeverWaits == priority_queue_ = <<>> /\ queue_ # <<>>

NormalCanGo == priority_queue_ = <<>> /\ queue_ # <<>> /\ InFlight = {}

DispatchPriority ==
  /\ worker = "dispatch" /\ queue_mutex_ = None
  /\ PriorityCanGo
  /\ PutInFlight(Head(priority_queue_))
  /\ priority_queue_' = Tail(priority_queue_)
  /\ UNCHANGED queue_

DispatchNormal ==
  /\ worker = "dispatch" /\ queue_mutex_ = None
  /\ NormalCanGo
  /\ PutInFlight(Head(queue_))
  /\ queue_' = Tail(queue_)
  /\ UNCHANGED priority_queue_

DispatchNothing ==
  /\ worker = "dispatch" /\ queue_mutex_ = None
  /\ ~PriorityCanGo /\ ~NormalCanGo
  /\ GoTo("recv")

\* The whole frame is written.  If the link is down it is lost.
SendFrame ==
  /\ worker = "send" /\ cur \notin Oversize
  /\ sent' = IF cur \in Client THEN [sent EXCEPT ![cur] = @ + 1] ELSE sent
  /\ device' = IF link THEN device \cup {cur} ELSE device
  /\ worker' = "recv" /\ cur' = None
  /\ UNCHANGED <<requests, connected_, socket_, link, rx, rested, resume,
                 frame, state_, backoff>>

\* send() or the poll() for POLLOUT fails before the frame is out.
SendFails ==
  /\ worker = "send" /\ cur \notin Oversize
  /\ Disconnect("unsent", FALSE)

\* An empty frame, or running_ cleared before the frame is out.
SendGivesUp ==
  /\ worker = "send" /\ (cur \in Oversize \/ ~running_)
  /\ GoTo("unsent")

\* Mutant: the failed request stays in flight.
UnsentStaysInFlight ==
  /\ worker = "unsent" /\ queue_mutex_ = None
  /\ FailRequest(cur)
  /\ worker' = "recv" /\ cur' = None
  /\ UNCHANGED <<queue_, priority_queue_, in_flight_, overdue, victims,
                 connection, resume, frame, state_, backoff, sent>>

Unsent ==
  /\ worker = "unsent" /\ queue_mutex_ = None
  /\ in_flight_' = [in_flight_ EXCEPT ![Id(cur)] = None]
  /\ overdue' = overdue \ {Id(cur)}
  /\ FailRequest(cur)
  /\ worker' = "recv" /\ cur' = None
  /\ UNCHANGED <<queue_, priority_queue_, victims, connection, resume, frame,
                 state_, backoff, sent>>

-----------------------------------------------------------------------------
(* The rest of run(): poll(), receive_available(), handle_frame(),         *)
(* expire_requests().  A frame in rx may still be on its way, so poll()    *)
(* may find nothing to read, and between two frames it makes no difference *)
(* whether the worker is in poll() or in recv().                           *)

\* POLLHUP and the like, poll() itself fails, the peer closed the
\* connection, or recv() fails.
PollFails ==
  /\ worker = "recv" /\ socket_
  /\ Disconnect("loop", TRUE)

\* A timeout of poll(), EINTR, no socket to wait for, or nothing more to
\* read.
PollIdle ==
  /\ worker = "recv"
  /\ GoTo("expire")

\* update_state(): an error status is recorded, telemetry is stored.
UpdateState(f, referenced) ==
  state_' =
    CASE f.status # "success" -> [state_ EXCEPT !.last_status = f.status]
      [] f.status = "success" /\ f.id = SystemStateId ->
           [state_ EXCEPT
              !.referenced = IF referenced THEN state_.generation ELSE 0]
      [] f.status = "success" /\ f.id = OpeningId ->
           [state_ EXCEPT !.opening = state_.generation,
                          !.opening_updated_at = state_.generation]
      [] OTHER -> state_

RecvFrame ==
  /\ worker = "recv" /\ socket_ /\ rx # <<>>
  /\ frame' = Head(rx)
  /\ rx' = Tail(rx)
  /\ \E referenced \in BOOLEAN : UpdateState(Head(rx), referenced)
  /\ worker' = "match"
  /\ UNCHANGED <<requests, connected_, socket_, link, device, rested, resume,
                 cur, backoff, sent>>

RecvStopped ==
  /\ worker = "recv" /\ socket_ /\ ~running_
  /\ backoff' = TRUE
  /\ worker' = "loop"
  /\ UNCHANGED <<requests, connection, locals, state_, sent>>

MatchNothing ==
  /\ worker = "match" /\ queue_mutex_ = None
  /\ in_flight_[frame.id] = None
  /\ worker' = "recv" /\ frame' = NoFrame
  /\ UNCHANGED <<requests, connection, resume, cur, state_, backoff, sent>>

\* The frame only says that its request is still being worked on.
OnlyPending(r) == r \in AllowPending /\ frame.status = "pending"

MatchPending ==
  /\ worker = "match" /\ queue_mutex_ = None
  /\ OnlyPending(in_flight_[frame.id])
  /\ overdue' = overdue \ {frame.id}
  /\ worker' = "recv" /\ frame' = NoFrame
  /\ UNCHANGED <<queue_, priority_queue_, in_flight_, promise, victims,
                 connection, resume, cur, state_, backoff, sent>>

MatchReply ==
  /\ worker = "match" /\ queue_mutex_ = None
  /\ in_flight_[frame.id] # None
  /\ ~OnlyPending(in_flight_[frame.id])
  /\ cur' = in_flight_[frame.id]
  /\ in_flight_' = [in_flight_ EXCEPT ![frame.id] = None]
  /\ overdue' = overdue \ {frame.id}
  /\ worker' = "reply"
  /\ UNCHANGED <<queue_, priority_queue_, promise, victims, connection,
                 resume, frame, state_, backoff, sent>>

Reply ==
  /\ worker = "reply"
  /\ state_' = [state_ EXCEPT !.last_status = frame.status]
  /\ promise' = [promise EXCEPT ![cur] = "answered"]
  /\ worker' = "recv" /\ cur' = None /\ frame' = NoFrame
  /\ UNCHANGED <<queue_, priority_queue_, in_flight_, victims, overdue,
                 connection, resume, backoff, sent>>

\* Mutant: the requests that timed out fail, the connection stays open.
ExpireKeepsConnection ==
  /\ worker = "expire" /\ queue_mutex_ = None
  /\ overdue # {}
  /\ promise' = [r \in Request |->
       IF \E i \in overdue : in_flight_[i] = r THEN "failed" ELSE promise[r]]
  /\ in_flight_' = [i \in CommandId |-> IF i \in overdue THEN None
                                                         ELSE in_flight_[i]]
  /\ overdue' = {}
  /\ worker' = "loop"
  /\ UNCHANGED <<queue_, priority_queue_, victims, connection, locals, state_,
                 backoff, sent>>

\* Mutant: the requests that timed out are sent again.
ExpireRetries ==
  /\ worker = "expire" /\ queue_mutex_ = None
  /\ \E i \in overdue :
       /\ queue_' = Append(queue_, in_flight_[i])
       /\ in_flight_' = [in_flight_ EXCEPT ![i] = None]
       /\ overdue' = overdue \ {i}
  /\ UNCHANGED <<priority_queue_, promise, victims, connection, locals, worker,
                 state_, backoff, sent>>

\* Mutant: a request that timed out is given its timeout once more.
ExpireWaitsOn ==
  /\ worker = "expire" /\ queue_mutex_ = None
  /\ overdue # {}
  /\ overdue' = {}
  /\ worker' = "loop"
  /\ UNCHANGED <<queue_, priority_queue_, in_flight_, promise, victims,
                 connection, locals, state_, backoff, sent>>

ExpireRequests ==
  /\ worker = "expire" /\ queue_mutex_ = None
  /\ overdue # {}
  /\ Disconnect("loop", FALSE)

NothingExpired ==
  /\ worker = "expire" /\ queue_mutex_ = None
  /\ overdue = {}
  /\ GoTo("loop")

-----------------------------------------------------------------------------
(* The environment: time, the gripper and the network.                     *)

DeadlinePasses(i) ==
  /\ in_flight_[i] # None /\ i \notin overdue
  /\ overdue' = overdue \cup {i}
  /\ UNCHANGED <<callers, queue_, priority_queue_, in_flight_, promise,
                 victims, connection, locals, worker, state_, backoff, sent>>

IntervalPasses ==
  /\ backoff \/ ~rested
  /\ backoff' = FALSE /\ rested' = TRUE
  /\ UNCHANGED <<callers, requests, connected_, socket_, link, rx, device,
                 locals, worker, state_, sent>>

DeviceSends(f) ==
  /\ link /\ Len(rx) < MaxRx
  /\ rx' = Append(rx, f)
  /\ UNCHANGED <<callers, requests, connected_, socket_, link, rested,
                 locals, worker, state_, backoff, sent>>

DeviceAnswers(r, s) ==
  /\ r \in device
  /\ DeviceSends([id |-> Id(r), of |-> r, status |-> s])
  /\ device' = device \ {r}

DeviceKeepsWorking(r) ==
  /\ r \in device
  /\ DeviceSends([id |-> Id(r), of |-> r, status |-> "pending"])
  /\ UNCHANGED device

DeviceStreams(i) ==
  /\ DeviceSends([id |-> i, of |-> None, status |-> "success"])
  /\ UNCHANGED device

LinkBreaks ==
  /\ link
  /\ link' = FALSE
  /\ UNCHANGED <<callers, requests, connected_, socket_, rx, device, rested,
                 locals, worker, state_, backoff, sent>>

-----------------------------------------------------------------------------
Owner == Start \/ Stop \/ Joined

Command(c) == CheckConnected(c) \/ Push(c) \/ Reject(c)

\* No step of the worker writes what belongs to the other threads.
Worker ==
  /\ UNCHANGED callers
  /\ \/ Drain \/ FailVictim \/ ClearState
     \/ LoopEnds \/ LoopTurn \/ LoopConnects
     \/ ConnectFails \/ ConnectSucceeds \/ SetConnected \/ QueueStateStreaming
     \/ DispatchPriority \/ DispatchNormal \/ DispatchNothing
     \/ SendFrame \/ SendFails \/ SendGivesUp \/ Unsent
     \/ PollFails \/ PollIdle \/ RecvFrame \/ RecvStopped
     \/ MatchNothing \/ MatchPending \/ MatchReply \/ Reply
     \/ ExpireRequests \/ NothingExpired

Device ==
  \/ \E r \in Request, s \in {"success", "error"} : DeviceAnswers(r, s)
  \/ \E r \in Request : DeviceKeepsWorking(r)
  \/ \E i \in StreamId : DeviceStreams(i)

Time == (\E i \in CommandId : DeadlinePasses(i)) \/ IntervalPasses

Next ==
  \/ Owner
  \/ \E c \in Client : Command(c)
  \/ Worker \/ Device \/ Time \/ LinkBreaks

(***************************************************************************)
(* The scheduler runs every thread that can go on.  receive_available()    *)
(* looks at running_ after each recv(), so frames that keep coming do not  *)
(* keep the worker in it once running_ is cleared.  No fairness for the    *)
(* callers' first step, for start() and stop(), for the gripper or for the *)
(* network: they may never do anything.                                    *)
(***************************************************************************)
Fairness ==
  /\ WF_vars(Worker)
  /\ SF_vars(Worker /\ RecvStopped)
  /\ WF_vars(Joined)
  /\ \A c \in Client : WF_vars(Push(c) \/ Reject(c))

Spec == Init /\ [][Next]_vars

\* The threads run; a deadline or an interval need not ever pass.
FairSpec == Spec /\ Fairness

(* What some properties need beyond that, as premises of their own.        *)

\* Deadlines and intervals do pass.
TimePasses ==
  (\A i \in CommandId : WF_vars(DeadlinePasses(i))) /\ WF_vars(IntervalPasses)

\* The gripper does not send frames faster than they are handled for ever:
\* receive_available() finds the socket empty now and then.
SocketRunsEmpty == []<>(worker \notin {"recv", "match", "reply"})

\* The gripper does not answer "command pending" for ever.
PendingEnds == <>[][~ \E r \in Request : DeviceKeepsWorking(r)]_vars

\* The priority calls beside this one do not stay in flight for ever.
OthersComeBack(c) ==
  \A d \in Priority \ {c} : []<>(d \notin InFlight)

-----------------------------------------------------------------------------
WorkerPlace == {"off", "loop", "connect", "connected", "stream", "dispatch",
                "send", "unsent", "recv", "match", "reply", "expire",
                "drain", "fail"}

DeviceState == [connected : BOOLEAN, referenced : Nat, opening : Nat,
                opening_updated_at : Nat,
                last_status : Status \cup {"transport_error"},
                generation : Nat]

ThreadTypes ==
  /\ running_ \in BOOLEAN /\ owner \in {"idle", "joining"}
  /\ pc \in [Client -> {"idle", "push", "reject", "waiting"}]
  /\ queue_mutex_ \in Client \cup {None}
  /\ worker \in WorkerPlace /\ resume \in {"off", "loop", "unsent"}
  /\ cur \in Request \cup {None} /\ frame \in Frame
  /\ worker = "send" => cur \in Request
  /\ sent \in [Client -> Nat]

RequestTypes ==
  /\ queue_ \in Seq(Request \ Priority) /\ priority_queue_ \in Seq(Priority)
  /\ in_flight_ \in [CommandId -> Request \cup {None}]
  /\ promise \in [Request -> {"unset", "answered", "failed"}]
  /\ victims \subseteq Request /\ overdue \subseteq CommandId

ConnectionTypes ==
  /\ connected_ \in BOOLEAN /\ socket_ \in BOOLEAN
  /\ state_ \in DeviceState
  /\ backoff \in BOOLEAN /\ rested \in BOOLEAN /\ link \in BOOLEAN
  /\ rx \in Seq(Frame) /\ device \subseteq Request

\* The type invariant.
TypeOK == ThreadTypes /\ RequestTypes /\ ConnectionTypes

\* A call of command() that returned a future leaves its request with the
\* transport until the promise is set: no interleaving of command(),
\* dispatch, replies and disconnect() drops a request and hangs its caller.
NoStrandedRequest ==
  \A c \in Client :
    pc[c] = "waiting" /\ promise[c] = "unset" =>
      c \in Held \/ (worker = "reply" /\ c = cur)

\* Once fail_all has drained the queues, none of them holds a request until
\* the next connection: a caller that saw connected_ set just before it was
\* cleared does not queue behind the drain (command() vs. disconnect()).
NothingOutlivesConnection ==
  ~connected_ /\ worker # "drain" =>
    queue_ = <<>> /\ priority_queue_ = <<>> /\ InFlight = {}

\* handle_frame() sets a promise without the catch of fail_request(): the
\* promise it sets is never set already, which would end the process.
ReplyNeverThrows == worker = "reply" => promise[cur] = "unset"

\* A caller gets the gripper's answer to its own request, though replies are
\* matched by command id only and answers may come after a timeout.  Only if
\* every call allows "command pending" frames, as all calls of the driver do:
\* otherwise such a frame ends the call and the answer itself is left over.
ReplyAnswersRequest ==
  Client \subseteq AllowPending =>
    (worker = "reply" /\ cur \in Client => frame.of = cur)

\* The gripper never works on two calls that are not priority calls (under
\* the same condition: a call that ended without its answer leaves one for
\* the next call with its id, and that call is overtaken then).
OneNormalAtDevice ==
  Client \subseteq AllowPending =>
    \A c, d \in device \cap (Client \ Priority) : c = d

\* connected_ is set after and cleared before the flag in state_, and what
\* state_ reports as referenced or stamps as measured comes from the
\* connection it counts, never from one before it.
StateIsOfThisConnection ==
  /\ connected_ => state_.connected
  /\ state_.referenced # 0 =>
       state_.connected /\ state_.referenced = state_.generation
  /\ state_.connected =>
       state_.opening_updated_at \in {0, state_.generation}

\* When stop() has returned every call made before has its answer.
StopLeavesNoCaller ==
  owner = "idle" /\ ~running_ =>
    \A c \in Client : pc[c] = "waiting" => promise[c] # "unset"

\* Reconnect delay: the worker does not open a connection before
\* reconnect_interval has passed since it closed the last one.
ReconnectIsDelayed == [][socket_' /\ ~socket_ => rested]_vars

\* A test of the transport, FailsPendingCommandAndClearsStateOnDisconnect:
\* when the future of a command that was pending fails on a disconnect (and
\* not on stop()), connected() is false and state() does not say referenced.
FailureClearsState ==
  [][\A c \in Client :
       /\ running_ /\ sent[c] > 0
       /\ promise[c] = "unset" /\ promise'[c] = "failed"
       => ~connected_' /\ state_'.referenced = 0]_vars

\* stop() returns wherever the worker is, whether time passes or not and
\* although frames keep coming.
StopReturns == []<>(owner = "idle")

\* A priority request is written or failed even if the MOVE in flight is never
\* answered, never times out, or is "pending" for ever: STOP does not wait for
\* MOVE.  It does wait for another STOP: dispatch_requests() holds it back as
\* long as its id is in flight, so that has to come back, and the frames have
\* to leave the worker time to send.
PriorityIsNotBlocked ==
  \A c \in Priority :
    SocketRunsEmpty /\ OthersComeBack(c) =>
      []<>(pc[c] = "waiting" => sent[c] > 0 \/ promise[c] # "unset")

-----------------------------------------------------------------------------
\* What a caller sees of one call.
callStatus ==
  [c \in Client |-> IF pc[c] = "idle" THEN "idle"
                    ELSE IF promise[c] = "unset" THEN "pending"
                    ELSE promise[c]]

Service == INSTANCE CommandService WITH status <- callStatus

\* Each call is sent at most once, never after it failed, and is answered
\* only if it was sent: the transport never retries a command.
ServiceSpec == Service!Spec

\* Every call comes back once time passes, if the gripper does not put it off
\* for ever: an answer, a send that fails, a deadline or the end of the
\* connection sets each promise.  Each "command pending" frame moves the
\* deadline (handle_frame()), so that there must be an end of them, and
\* deadlines are only looked at when the socket is empty.
CallsReturn ==
  TimePasses /\ SocketRunsEmpty /\ PendingEnds => Service!Fairness

\* What the threads of the driver share: the order of the calls.  A call is
\* placed when its caller lets go of the mutex; the connection counts as up
\* until fail_all has drained the queues.
OwnCalls(q) == SelectIn(q, Client)

Queue == INSTANCE CommandQueue WITH
  Answer <- {"answered"},
  up <- connected_ \/ worker = "drain",
  queue <- OwnCalls(queue_),
  priorityQueue <- priority_queue_,
  flying <- Client \cap (InFlight \cup IF worker = "reply" THEN {cur} ELSE {}),
  dropped <- victims \cap Client,
  status <- [c \in Client |-> IF pc[c] # "waiting" THEN "idle"
                              ELSE IF promise[c] = "unset" THEN "pending"
                              ELSE promise[c]]

\* Calls reach the gripper in the order in which they were queued, one at a
\* time; only priority calls pass, and a lost connection leaves none queued.
\* Two priority calls with different ids would both be out: the driver has
\* one such id, STOP.
QueueSpec == Queue!Spec

\* Under the same premises the transport does not rest while it has a call:
\* what is in flight, a STOP that holds up the whole dispatch included, does
\* not keep what is queued from going out for ever.
QueueProgresses ==
  TimePasses /\ SocketRunsEmpty /\ PendingEnds => Queue!Fairness

\* What one call and the connections look like to the thread that makes it.
life ==
  IF running_ THEN "running" ELSE IF owner = "joining" THEN "stopping"
                                                       ELSE "stopped"

phase ==
  IF ~state_.connected THEN "down"
  ELSE IF worker = "connected" THEN "connecting"
  ELSE IF connected_ THEN "up"
  ELSE IF worker = "drain" THEN "closing" ELSE "dropping"

\* What the threads read of state().
shown == [connected |-> state_.connected,
          referenced |-> state_.referenced # 0,
          generation |-> state_.generation]

\* A call that is refused has failed as soon as connected_ was read.
Outcome(c) ==
  IF pc[c] \in {"idle", "push"} THEN "none"
  ELSE IF pc[c] = "reject" THEN "failed"
  ELSE IF promise[c] = "unset" THEN "pending" ELSE promise[c]

View(c) == INSTANCE TransportView WITH
  Answer <- {"answered"}, MaxConnection <- MaxGeneration,
  state_ <- shown, status <- Outcome(c)

\* The initialisation thread may rely on TransportView: a call is refused or
\* failed only while its connection is not up or stop() is running, it is
\* over before state_ is reset, and no call is answered by another connection
\* than that which state_ counts.  That a failed call may be seen before the
\* reset is what FailureClearsState, the claim of the test, denies.
ViewSpec ==
  /\ \A c \in Client \ Oversize : View(c)!Init
  /\ [][\A c \in Client \ Oversize :
         UNCHANGED View(c)!view \/ View(c)!Next]_vars
=============================================================================
