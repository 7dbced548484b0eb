--------------------------- MODULE TransportProofs ---------------------------
(***************************************************************************)
(* Proofs about Transport, for any calls, ids and streams.                 *)
(*                                                                         *)
(* The inductive invariant IInv says who holds the mutex, at which place   *)
(* of run() which of the two connection flags is set, when the queues are  *)
(* empty, and that a request is in one place at a time and unset there.    *)
(***************************************************************************)
EXTENDS Transport, SequenceFacts

\* The mutex is held exactly by the call between its two steps.
MutexInv ==
  \A c \in Client : pc[c] \in {"push", "reject"} <=> queue_mutex_ = c

\* What run() knows about the connection at each place.
ConnectionInv ==
  /\ connected_ => socket_
  /\ socket_ /\ ~connected_ <=> worker = "connected"
  /\ worker \in {"stream", "dispatch", "send", "match", "reply"} => connected_
  /\ worker \in {"drain", "fail", "off", "connect"} => ~socket_
  /\ worker # "fail" => victims = {}
  /\ owner = "idle" /\ ~running_ => worker = "off"
  /\ owner = "joining" => ~running_

\* Without a connection nothing is queued and nothing will be, except by the
\* calls that Drain still waits for.
DownInv ==
  ~connected_ /\ worker # "drain" =>
    /\ queue_ = <<>> /\ priority_queue_ = <<>> /\ in_flight_ = NoneInFlight
    /\ \A c \in Client : pc[c] # "push"

\* The requests command(), the queues and the worker can still reach.
Waiting == Range(queue_) \cup Range(priority_queue_) \cup InFlight

\* A request is in one place at a time.
PlaceInv ==
  /\ IsInjective(queue_) /\ IsInjective(priority_queue_)
  /\ InFlight \cap (Range(queue_) \cup Range(priority_queue_)) = {}
  /\ \A i \in CommandId : in_flight_[i] # None => Id(in_flight_[i]) = i
  /\ \A c \in Client :
       pc[c] # "waiting" => c \notin Waiting \cup victims /\ cur # c
  /\ worker \in {"connected", "stream"} =>
       InFlight = {} /\ Range(queue_) \cap StreamId = {}

\* The request the worker has in its hands.
CurInv ==
  /\ worker \notin {"drain", "fail"} => resume = "off"
  /\ (worker \notin {"send", "unsent", "reply"} /\ resume # "unsent") =>
       cur = None
  /\ (worker \in {"send", "unsent"} \/ resume = "unsent") =>
       cur \in Request /\ in_flight_[Id(cur)] \in {cur, None}
               /\ cur \notin Range(queue_) \cup Range(priority_queue_)
  /\ worker = "reply" => cur \in Request /\ cur \notin Waiting
  /\ worker = "send" => in_flight_[Id(cur)] = cur

\* No promise of a request that waits is set.
UnsetInv ==
  /\ \A r \in Waiting : promise[r] = "unset"
  /\ \A c \in Client : pc[c] # "waiting" => promise[c] = "unset"
  /\ worker = "reply" => promise[cur] = "unset"

IInv ==
  /\ TypeOK /\ MutexInv /\ ConnectionInv /\ DownInv
  /\ PlaceInv /\ CurInv /\ UnsetInv /\ NoStrandedRequest

-----------------------------------------------------------------------------
(* Ids and sequences.                                                      *)

USE DEF callers, requests, connection, locals

\* What the assumptions say about requests and their ids.
LEMMA RequestIds ==
  /\ StreamId \subseteq CommandId /\ StreamId \subseteq Request
  /\ Client \subseteq Request /\ Client \cap StreamId = {}
  /\ StreamId \cap Priority = {} /\ Priority \subseteq Client
  /\ None \notin Request
  /\ StreamSeq \in Seq(StreamId)
  /\ \A r \in Request : Id(r) \in CommandId
<1>1. StreamId \subseteq CommandId /\ StreamId \subseteq Request
  BY RequestAssumption DEF StreamId, Range, Request
<1>2. /\ Client \subseteq Request /\ Client \cap StreamId = {}
      /\ Priority \subseteq Client /\ None \notin Request
  BY RequestAssumption DEF Request
<1>3. StreamSeq \in Seq(StreamId)
  BY RequestAssumption DEF StreamId, Range
<1>4. ASSUME NEW r \in Request PROVE Id(r) \in CommandId
  BY <1>1, RequestAssumption DEF Id, Request
<1> QED
  BY <1>1, <1>2, <1>3, <1>4

\* The frame that stands for none is a frame.
LEMMA NoFrameType == NoFrame \in Frame
BY RequestAssumption DEF NoFrame, Frame, Status

\* state_ after connect_socket().
LEMMA ConnectedState ==
  ASSUME NEW s \in DeviceState, NEW n \in Nat
  PROVE  [s EXCEPT !.connected = TRUE, !.last_status = "success",
                   !.opening_updated_at = 0, !.generation = n] \in DeviceState
BY DEF DeviceState, Status

\* disconnect() touches no request and keeps the types of the connection.
LEMMA DisconnectTypes ==
  ASSUME ConnectionTypes, NEW then, NEW delayed \in BOOLEAN,
         Disconnect(then, delayed)
  PROVE  ConnectionTypes'
<1>1. connected_' \in BOOLEAN /\ socket_' \in BOOLEAN /\ link' \in BOOLEAN
  BY DEF Disconnect
<1>2. rested' \in BOOLEAN /\ backoff' \in BOOLEAN
  BY DEF Disconnect, ConnectionTypes
<1>3. rx' \in Seq(Frame) /\ device' \subseteq Request /\ state_' \in DeviceState
  BY DEF Disconnect, ConnectionTypes
<1> QED
  BY <1>1, <1>2, <1>3 DEF ConnectionTypes

-----------------------------------------------------------------------------
(* Type correctness.                                                       *)

\* The types hold at first.
LEMMA TypeInit == Init => TypeOK
<1> SUFFICES ASSUME Init PROVE TypeOK
  OBVIOUS
<1> USE RequestAssumption DEF Init, NoneInFlight
<1>1. ThreadTypes
  BY NoFrameType DEF ThreadTypes, WorkerPlace
<1>2. RequestTypes
  BY DEF RequestTypes
<1>3. state_ \in DeviceState
  BY DEF DeviceState, Status
<1>4. rx \in Seq(Frame) /\ device \subseteq Request /\ rested \in BOOLEAN
  OBVIOUS
<1>5. ConnectionTypes
  BY <1>3, <1>4 DEF ConnectionTypes
<1> QED
  BY <1>1, <1>2, <1>5 DEF TypeOK

\* Every step keeps the types.
LEMMA TypeNext == TypeOK /\ [Next]_vars => TypeOK'
<1> SUFFICES ASSUME TypeOK, [Next]_vars PROVE TypeOK'
  OBVIOUS
<1> USE RequestIds DEF TypeOK, ThreadTypes, RequestTypes, ConnectionTypes,
                       WorkerPlace
<1>1. CASE Owner
  <2>1. ThreadTypes'
    BY <1>1 DEF Owner, Start, Stop, Joined
  <2>2. RequestTypes'
    BY <1>1 DEF Owner, Start, Stop, Joined
  <2>3. ConnectionTypes'
    BY <1>1 DEF Owner, Start, Stop, Joined
  <2> QED
    BY <2>1, <2>2, <2>3 DEF TypeOK
<1>2. ASSUME NEW c \in Client, Command(c) PROVE TypeOK'
  <2>1. CASE CheckConnected(c)
    BY <2>1 DEF CheckConnected
  <2>2. CASE Push(c)
    <3>1. ThreadTypes' /\ ConnectionTypes'
      BY <2>2 DEF Push
    <3>2. c \in Priority => Append(priority_queue_, c) \in Seq(Priority)
      BY AppendProperties
    <3>3. c \notin Priority => Append(queue_, c) \in Seq(Request \ Priority)
      BY AppendProperties
    <3>4. RequestTypes'
      BY <2>2, <3>2, <3>3 DEF Push
    <3> QED
      BY <3>1, <3>4
  <2>3. CASE Reject(c)
    <3>1. ThreadTypes' /\ ConnectionTypes'
      BY <2>3 DEF Reject
    <3>2. RequestTypes'
      BY <2>3 DEF Reject, FailRequest
    <3> QED
      BY <3>1, <3>2
  <2> QED
    BY <1>2, <2>1, <2>2, <2>3 DEF Command
<1>3. CASE Worker
  <2>1. CASE Drain
    <3>1. ThreadTypes'
      BY <1>3, <2>1 DEF Worker, Drain
    <3>2. Drained \subseteq Request
      BY RequestIds DEF Drained, InFlight, Range
    <3>3. RequestTypes'
      BY <2>1, <3>2 DEF Drain, NoneInFlight
    <3>4. ConnectionTypes'
      BY <2>1 DEF Drain
    <3> QED
      BY <3>1, <3>3, <3>4 DEF TypeOK
  <2>2. CASE FailVictim
    <3>1. ThreadTypes'
      BY <1>3, <2>2 DEF Worker, FailVictim, FailRequest
    <3>2. RequestTypes'
      BY <1>3, <2>2 DEF Worker, FailVictim, FailRequest
    <3>3. ConnectionTypes'
      BY <1>3, <2>2 DEF Worker, FailVictim, FailRequest
    <3> QED
      BY <3>1, <3>2, <3>3 DEF TypeOK
  <2>3. CASE ClearState
    <3>1. ThreadTypes'
      BY <1>3, <2>3 DEF Worker, ClearState, DeviceState, Status
    <3>2. RequestTypes'
      BY <1>3, <2>3 DEF Worker, ClearState, DeviceState, Status
    <3>3. ConnectionTypes'
      BY <1>3, <2>3 DEF Worker, ClearState, DeviceState, Status
    <3> QED
      BY <3>1, <3>2, <3>3 DEF TypeOK
  <2>4. CASE LoopEnds
    <3>1. ThreadTypes'
      BY <1>3, <2>4 DEF Worker, LoopEnds, Disconnect
    <3>2. RequestTypes'
      BY <1>3, <2>4 DEF Worker, LoopEnds, Disconnect
    <3>3. ConnectionTypes'
      BY <2>4, DisconnectTypes DEF LoopEnds
    <3> QED
      BY <3>1, <3>2, <3>3 DEF TypeOK
  <2>5. CASE LoopTurn \/ LoopConnects
    <3>1. ThreadTypes'
      BY <1>3, <2>5 DEF Worker, LoopTurn, LoopConnects, GoTo
    <3>2. RequestTypes'
      BY <1>3, <2>5 DEF Worker, LoopTurn, LoopConnects, GoTo
    <3>3. ConnectionTypes'
      BY <1>3, <2>5 DEF Worker, LoopTurn, LoopConnects, GoTo
    <3> QED
      BY <3>1, <3>2, <3>3 DEF TypeOK
  <2>6. CASE ConnectFails
    <3>1. ThreadTypes'
      BY <1>3, <2>6 DEF Worker, ConnectFails
    <3>2. RequestTypes'
      BY <1>3, <2>6 DEF Worker, ConnectFails
    <3>3. ConnectionTypes'
      BY <1>3, <2>6 DEF Worker, ConnectFails
    <3> QED
      BY <3>1, <3>2, <3>3 DEF TypeOK
  <2>7. CASE ConnectSucceeds
    <3>1. ThreadTypes'
      BY <1>3, <2>7 DEF Worker, ConnectSucceeds, DeviceState, Status
    <3>2. RequestTypes'
      BY <1>3, <2>7 DEF Worker, ConnectSucceeds, DeviceState, Status
    <3>3. state_.generation + 1 \in Nat
      BY DEF DeviceState
    <3>4. state_' \in DeviceState
      BY <2>7, <3>3, ConnectedState DEF ConnectSucceeds
    <3>5. ConnectionTypes'
      BY <2>7, <3>4 DEF ConnectSucceeds
    <3> QED
      BY <3>1, <3>2, <3>5 DEF TypeOK
  <2>8. CASE SetConnected
    <3>1. ThreadTypes'
      BY <1>3, <2>8 DEF Worker, SetConnected
    <3>2. RequestTypes'
      BY <1>3, <2>8 DEF Worker, SetConnected
    <3>3. ConnectionTypes'
      BY <1>3, <2>8 DEF Worker, SetConnected
    <3> QED
      BY <3>1, <3>2, <3>3 DEF TypeOK
  <2>9. CASE QueueStateStreaming
    <3>1. ThreadTypes'
      BY <1>3, <2>9 DEF Worker, QueueStateStreaming
    <3>2. RequestTypes'
      BY <1>3, <2>9 DEF Worker, QueueStateStreaming
    <3>3. ConnectionTypes'
      BY <1>3, <2>9 DEF Worker, QueueStateStreaming
    <3> QED
      BY <3>1, <3>2, <3>3 DEF TypeOK
  <2>10. CASE DispatchPriority
    <3>1. ThreadTypes'
      BY <1>3, <2>10 DEF Worker, DispatchPriority, PriorityCanGo, PutInFlight
    <3>2. RequestTypes'
      BY <1>3, <2>10 DEF Worker, DispatchPriority, PriorityCanGo, PutInFlight
    <3>3. ConnectionTypes'
      BY <1>3, <2>10 DEF Worker, DispatchPriority, PriorityCanGo, PutInFlight
    <3> QED
      BY <3>1, <3>2, <3>3 DEF TypeOK
  <2>11. CASE DispatchNormal
    <3>1. ThreadTypes'
      BY <1>3, <2>11 DEF Worker, DispatchNormal, NormalCanGo, PutInFlight
    <3>2. RequestTypes'
      BY <1>3, <2>11 DEF Worker, DispatchNormal, NormalCanGo, PutInFlight
    <3>3. ConnectionTypes'
      BY <1>3, <2>11 DEF Worker, DispatchNormal, NormalCanGo, PutInFlight
    <3> QED
      BY <3>1, <3>2, <3>3 DEF TypeOK
  <2>12. CASE DispatchNothing
    <3>1. ThreadTypes'
      BY <1>3, <2>12 DEF Worker, DispatchNothing, GoTo
    <3>2. RequestTypes'
      BY <1>3, <2>12 DEF Worker, DispatchNothing, GoTo
    <3>3. ConnectionTypes'
      BY <1>3, <2>12 DEF Worker, DispatchNothing, GoTo
    <3> QED
      BY <3>1, <3>2, <3>3 DEF TypeOK
  <2>13. CASE SendFrame
    <3>1. ThreadTypes'
      BY <1>3, <2>13 DEF Worker, SendFrame
    <3>2. RequestTypes'
      BY <1>3, <2>13 DEF Worker, SendFrame
    <3>3. ConnectionTypes'
      BY <1>3, <2>13 DEF Worker, SendFrame
    <3> QED
      BY <3>1, <3>2, <3>3 DEF TypeOK
  <2>14. CASE SendFails
    <3>1. ThreadTypes'
      BY <1>3, <2>14 DEF Worker, SendFails, Disconnect
    <3>2. RequestTypes'
      BY <1>3, <2>14 DEF Worker, SendFails, Disconnect
    <3>3. ConnectionTypes'
      BY <2>14, DisconnectTypes DEF SendFails
    <3> QED
      BY <3>1, <3>2, <3>3 DEF TypeOK
  <2>15. CASE SendGivesUp
    <3>1. ThreadTypes'
      BY <1>3, <2>15 DEF Worker, SendGivesUp, GoTo
    <3>2. RequestTypes'
      BY <1>3, <2>15 DEF Worker, SendGivesUp, GoTo
    <3>3. ConnectionTypes'
      BY <1>3, <2>15 DEF Worker, SendGivesUp, GoTo
    <3> QED
      BY <3>1, <3>2, <3>3 DEF TypeOK
  <2>16. CASE Unsent
    <3>1. ThreadTypes'
      BY <1>3, <2>16 DEF Worker, Unsent, FailRequest
    <3>2. RequestTypes'
      BY <1>3, <2>16 DEF Worker, Unsent, FailRequest
    <3>3. ConnectionTypes'
      BY <1>3, <2>16 DEF Worker, Unsent, FailRequest
    <3> QED
      BY <3>1, <3>2, <3>3 DEF TypeOK
  <2>17. CASE PollFails
    <3>1. ThreadTypes'
      BY <1>3, <2>17 DEF Worker, PollFails, Disconnect
    <3>2. RequestTypes'
      BY <1>3, <2>17 DEF Worker, PollFails, Disconnect
    <3>3. ConnectionTypes'
      BY <2>17, DisconnectTypes DEF PollFails
    <3> QED
      BY <3>1, <3>2, <3>3 DEF TypeOK
  <2>18. CASE PollIdle
    <3>1. ThreadTypes'
      BY <1>3, <2>18 DEF Worker, PollIdle, GoTo
    <3>2. RequestTypes'
      BY <1>3, <2>18 DEF Worker, PollIdle, GoTo
    <3>3. ConnectionTypes'
      BY <1>3, <2>18 DEF Worker, PollIdle, GoTo
    <3> QED
      BY <3>1, <3>2, <3>3 DEF TypeOK
  <2>19. CASE RecvFrame
    <3>1. ThreadTypes'
      BY <1>3, <2>19 DEF Worker, RecvFrame
    <3>2. RequestTypes'
      BY <1>3, <2>19 DEF Worker, RecvFrame
    <3>3. Head(rx) \in Frame /\ Tail(rx) \in Seq(Frame)
      BY <2>19 DEF RecvFrame
    <3>4. state_' \in DeviceState
      <4>1. PICK referenced \in BOOLEAN : UpdateState(Head(rx), referenced)
        BY <2>19 DEF RecvFrame
      <4> QED
        BY <3>3, <4>1 DEF UpdateState, DeviceState, Frame
    <3>5. ConnectionTypes'
      BY <2>19, <3>3, <3>4 DEF RecvFrame
    <3> QED
      BY <3>1, <3>2, <3>5 DEF TypeOK
  <2>20. CASE RecvStopped
    <3>1. ThreadTypes'
      BY <1>3, <2>20 DEF Worker, RecvStopped
    <3>2. RequestTypes'
      BY <1>3, <2>20 DEF Worker, RecvStopped
    <3>3. ConnectionTypes'
      BY <1>3, <2>20 DEF Worker, RecvStopped
    <3> QED
      BY <3>1, <3>2, <3>3 DEF TypeOK
  <2>21. CASE MatchNothing
    <3>1. ThreadTypes'
      BY <1>3, <2>21, NoFrameType DEF Worker, MatchNothing
    <3>2. RequestTypes'
      BY <1>3, <2>21 DEF Worker, MatchNothing, Frame, Status, NoFrame
    <3>3. ConnectionTypes'
      BY <1>3, <2>21 DEF Worker, MatchNothing, Frame, Status, NoFrame
    <3> QED
      BY <3>1, <3>2, <3>3 DEF TypeOK
  <2>22. CASE MatchPending
    <3>1. ThreadTypes'
      BY <1>3, <2>22, NoFrameType DEF Worker, MatchPending
    <3>2. RequestTypes'
      BY <1>3, <2>22 DEF Worker, MatchPending, Frame, NoFrame, Status
    <3>3. ConnectionTypes'
      BY <1>3, <2>22 DEF Worker, MatchPending, Frame, NoFrame, Status
    <3> QED
      BY <3>1, <3>2, <3>3 DEF TypeOK
  <2>23. CASE MatchReply
    <3>1. ThreadTypes'
      BY <1>3, <2>23 DEF Worker, MatchReply, Frame
    <3>2. RequestTypes'
      BY <1>3, <2>23 DEF Worker, MatchReply, Frame
    <3>3. ConnectionTypes'
      BY <1>3, <2>23 DEF Worker, MatchReply, Frame
    <3> QED
      BY <3>1, <3>2, <3>3 DEF TypeOK
  <2>24. CASE Reply
    <3>1. ThreadTypes'
      BY <1>3, <2>24, NoFrameType DEF Worker, Reply
    <3>2. RequestTypes'
      BY <1>3, <2>24 DEF Worker, Reply
    <3>3. state_' \in DeviceState
      BY <2>24 DEF Reply, DeviceState, Frame
    <3>4. ConnectionTypes'
      BY <2>24, <3>3 DEF Reply
    <3> QED
      BY <3>1, <3>2, <3>4 DEF TypeOK
  <2>25. CASE ExpireRequests
    <3>1. ThreadTypes'
      BY <1>3, <2>25 DEF Worker, ExpireRequests, Disconnect
    <3>2. RequestTypes'
      BY <1>3, <2>25 DEF Worker, ExpireRequests, Disconnect
    <3>3. ConnectionTypes'
      BY <2>25, DisconnectTypes DEF ExpireRequests
    <3> QED
      BY <3>1, <3>2, <3>3 DEF TypeOK
  <2>26. CASE NothingExpired
    <3>1. ThreadTypes'
      BY <1>3, <2>26 DEF Worker, NothingExpired, GoTo
    <3>2. RequestTypes'
      BY <1>3, <2>26 DEF Worker, NothingExpired, GoTo
    <3>3. ConnectionTypes'
      BY <1>3, <2>26 DEF Worker, NothingExpired, GoTo
    <3> QED
      BY <3>1, <3>2, <3>3 DEF TypeOK
  <2> QED
    BY <1>3, <2>1, <2>2, <2>3, <2>4, <2>5, <2>6, <2>7, <2>8, <2>9, <2>10, <2>11, <2>12, <2>13, <2>14, <2>15, <2>16, <2>17, <2>18, <2>19, <2>20, <2>21, <2>22, <2>23, <2>24, <2>25, <2>26 DEF Worker
<1>4. CASE Device
  <2>1. PICK f \in Frame : DeviceSends(f)
    BY <1>4 DEF Device, DeviceAnswers, DeviceKeepsWorking, DeviceStreams,
                Frame, Status
  <2>2. device' \subseteq device 
    BY <1>4 DEF Device, DeviceAnswers, DeviceKeepsWorking, DeviceStreams
  <2>6. ThreadTypes'
    BY <2>1 DEF DeviceSends
  <2>4. RequestTypes'
    BY <2>1 DEF DeviceSends
  <2>5. ConnectionTypes'
    BY <2>1, <2>2 DEF DeviceSends
  <2> QED
    BY <2>6, <2>4, <2>5
<1>5. CASE Time
  <2>1. ThreadTypes'
    BY <1>5 DEF Time, DeadlinePasses, IntervalPasses
  <2>2. RequestTypes'
    BY <1>5 DEF Time, DeadlinePasses, IntervalPasses
  <2>3. ConnectionTypes'
    BY <1>5 DEF Time, DeadlinePasses, IntervalPasses
  <2> QED
    BY <2>1, <2>2, <2>3 DEF TypeOK
<1>6. CASE LinkBreaks
  <2>1. ThreadTypes'
    BY <1>6 DEF LinkBreaks
  <2>2. RequestTypes'
    BY <1>6 DEF LinkBreaks
  <2>3. ConnectionTypes'
    BY <1>6 DEF LinkBreaks
  <2> QED
    BY <2>1, <2>2, <2>3 DEF TypeOK
<1>7. CASE UNCHANGED vars
  <2>1. ThreadTypes'
    BY <1>7 DEF vars
  <2>2. RequestTypes'
    BY <1>7 DEF vars
  <2>3. ConnectionTypes'
    BY <1>7 DEF vars
  <2> QED
    BY <2>1, <2>2, <2>3 DEF TypeOK
<1> QED
  BY <1>1, <1>2, <1>3, <1>4, <1>5, <1>6, <1>7 DEF Next

\* Every variable keeps its type, whatever the calls and the stream ids are.
THEOREM TypeCorrect == Spec => []TypeOK
<1> QED
  BY TypeInit, TypeNext, PTL DEF Spec

-----------------------------------------------------------------------------
(* The steps that leave the queues, the promises and the calls alone.      *)

Quiet ==
  /\ UNCHANGED <<queue_, priority_queue_, in_flight_, promise, victims, pc,
                 queue_mutex_>>
  /\ worker' = "reply" <=> worker = "reply"
  /\ cur' = cur \/ (cur' = None /\ worker # "reply")
  /\ SendFrame \/ UNCHANGED <<cur, sent>>
  /\ worker' = "send" => worker = "send"
  /\ worker' \in {"connected", "stream"} =>
       worker \in {"connected", "stream"} \/ (worker = "connect" /\ ~socket_)
  /\ ~connected_' /\ worker' # "drain" => ~connected_ /\ worker # "drain"

\* The worker's steps that do not.
Busy ==
  \/ Drain \/ FailVictim \/ QueueStateStreaming
  \/ DispatchPriority \/ DispatchNormal \/ Unsent \/ MatchReply \/ Reply

\* What the gripper, the network and time leave alone.
LEMMA EnvironmentWrites ==
  ASSUME Device \/ Time \/ LinkBreaks \/ UNCHANGED vars
  PROVE  UNCHANGED <<running_, owner, pc, queue_mutex_, connected_, socket_,
                     queue_, priority_queue_, in_flight_, promise, victims,
                     worker, resume, cur, frame, state_, sent>>
<1>1. CASE Device
  BY <1>1 DEF Device, DeviceAnswers, DeviceKeepsWorking, DeviceStreams,
     DeviceSends
<1>2. CASE Time
  BY <1>2 DEF Time, DeadlinePasses, IntervalPasses
<1>3. CASE LinkBreaks \/ UNCHANGED vars
  BY <1>3 DEF LinkBreaks, vars
<1> QED
  BY <1>1, <1>2, <1>3

\* A step leaves the requests alone, or is one of command(), or of the worker.
LEMMA QuietOrBusy ==
  ASSUME TypeOK, ConnectionInv, CurInv, [Next]_vars
  PROVE  Quiet \/ (\E c \in Client : Command(c)) \/ (Worker /\ Busy)
<1> USE DEF Quiet
<1>1. CASE Owner
  <2>1. CASE Start
    BY <2>1 DEF Start, ConnectionInv
  <2>2. CASE Stop \/ Joined
    BY <2>2 DEF Stop, Joined
  <2> QED
    BY <1>1, <2>1, <2>2 DEF Owner
<1>2. CASE Worker
  <2>1. CASE LoopEnds \/ SendFails \/ PollFails \/ ExpireRequests
    BY <1>2, <2>1 DEF Worker, LoopEnds, SendFails, PollFails, ExpireRequests,
       Disconnect
  <2>2. CASE \/ LoopTurn \/ LoopConnects \/ DispatchNothing \/ SendGivesUp
             \/ PollIdle \/ NothingExpired
    BY <1>2, <2>2 DEF Worker, LoopTurn, LoopConnects, DispatchNothing,
       SendGivesUp, PollIdle, NothingExpired, GoTo
  <2>3. CASE ClearState
    BY <1>2, <2>3 DEF Worker, ClearState, TypeOK, ThreadTypes
  <2>4. CASE ConnectFails \/ ConnectSucceeds
    BY <1>2, <2>4 DEF Worker, ConnectFails, ConnectSucceeds, ConnectionInv
  <2>6. CASE SetConnected
    BY <1>2, <2>6 DEF Worker, SetConnected
  <2>5. CASE \/ SendFrame \/ RecvFrame \/ RecvStopped \/ MatchNothing
             \/ MatchPending
    BY <1>2, <2>5 DEF Worker, SendFrame, RecvFrame, RecvStopped, MatchNothing,
       MatchPending
  <2> QED
    BY <1>2, <2>1, <2>2, <2>3, <2>4, <2>5, <2>6 DEF Worker, Busy
<1>3. CASE Device \/ Time \/ LinkBreaks \/ UNCHANGED vars
  BY <1>3, EnvironmentWrites
<1> QED
  BY <1>1, <1>2, <1>3 DEF Next

\* What the steps of one call write.
LEMMA CommandWrites ==
  ASSUME NEW c \in Client, Command(c)
  PROVE  /\ UNCHANGED <<in_flight_, victims, connected_, socket_, worker,
                        resume, cur, running_, owner, sent>>
         /\ pc' = [pc EXCEPT ![c] = pc'[c]]
BY DEF Command, CheckConnected, Push, Reject

\* What every step of the worker leaves alone.
LEMMA WorkerWrites == ASSUME Worker PROVE UNCHANGED <<pc, queue_mutex_, running_, owner>>
BY DEF Worker

-----------------------------------------------------------------------------
(* The parts of the inductive invariant.                                   *)

\* The mutex is taken and released by the two steps of command() only.
LEMMA MutexNext == IInv /\ [Next]_vars => MutexInv'
<1> SUFFICES ASSUME IInv, [Next]_vars PROVE MutexInv'
  OBVIOUS
<1> USE RequestIds DEF IInv, MutexInv
<1>1. CASE Quiet
  BY <1>1 DEF Quiet
<1>2. ASSUME NEW c \in Client, Command(c) PROVE MutexInv'
  BY <1>2 DEF Command, CheckConnected, Push, Reject, TypeOK, ThreadTypes
<1>3. CASE Worker
  BY <1>3, WorkerWrites
<1> QED
  BY <1>1, <1>2, <1>3, QuietOrBusy

\* connected_ and socket_ follow the place of run().
LEMMA ConnectionNext == IInv /\ [Next]_vars => ConnectionInv'
<1> SUFFICES ASSUME IInv, [Next]_vars PROVE ConnectionInv'
  OBVIOUS
<1> USE DEF IInv, ConnectionInv
<1>1. CASE Owner
  BY <1>1 DEF Owner, Start, Stop, Joined
<1>2. ASSUME NEW c \in Client, Command(c) PROVE ConnectionInv'
  BY <1>2, CommandWrites
<1>3. CASE Worker
  <2>1. CASE LoopEnds \/ SendFails \/ PollFails \/ ExpireRequests
    BY <1>3, <2>1 DEF Worker, LoopEnds, SendFails, PollFails, ExpireRequests,
       Disconnect
  <2>2. CASE \/ LoopTurn \/ LoopConnects \/ DispatchNothing \/ SendGivesUp
             \/ PollIdle \/ NothingExpired
    BY <1>3, <2>2 DEF Worker, LoopTurn, LoopConnects, DispatchNothing,
       SendGivesUp, PollIdle, NothingExpired, GoTo
  <2>3. CASE Drain \/ FailVictim
    BY <1>3, <2>3 DEF Worker, Drain, FailVictim
  <2>4. CASE ClearState
    BY <1>3, <2>4 DEF Worker, ClearState, TypeOK, ThreadTypes
  <2>5. CASE ConnectFails \/ ConnectSucceeds \/ SetConnected
    BY <1>3, <2>5 DEF Worker, ConnectFails, ConnectSucceeds, SetConnected
  <2>6. CASE QueueStateStreaming \/ SendFrame \/ Unsent \/ RecvStopped
    BY <1>3, <2>6 DEF Worker, QueueStateStreaming, SendFrame, Unsent, RecvStopped
  <2>7. CASE DispatchPriority \/ DispatchNormal
    BY <1>3, <2>7 DEF Worker, DispatchPriority, DispatchNormal, PutInFlight
  <2>8. CASE RecvFrame \/ MatchNothing \/ MatchPending \/ MatchReply \/ Reply
    BY <1>3, <2>8 DEF Worker, RecvFrame, MatchNothing, MatchPending, MatchReply,
       Reply
  <2> QED
    BY <1>3, <2>1, <2>2, <2>3, <2>4, <2>5, <2>6, <2>7, <2>8 DEF Worker
<1>4. CASE Device \/ Time \/ LinkBreaks \/ UNCHANGED vars
  BY <1>4, EnvironmentWrites
<1> QED
  BY <1>1, <1>2, <1>3, <1>4 DEF Next

\* Only a call that read connected_ queues, and Drain waits for it.
LEMMA DownNext == IInv /\ [Next]_vars => DownInv'
<1> SUFFICES ASSUME IInv, [Next]_vars PROVE DownInv'
  OBVIOUS
<1> USE DEF IInv, DownInv
<1>1. CASE Quiet
  BY <1>1 DEF Quiet
<1>2. ASSUME NEW c \in Client, Command(c) PROVE DownInv'
  BY <1>2 DEF Command, CheckConnected, Push, Reject, TypeOK, ThreadTypes
<1>3. CASE Worker /\ Busy
  <2>1. CASE Drain
    BY <1>3, <2>1, RequestIds DEF Worker, Drain, MutexInv
  <2>2. CASE FailVictim
    BY <1>3, <2>2 DEF Worker, FailVictim
  <2>3. CASE \/ QueueStateStreaming \/ DispatchPriority \/ DispatchNormal
             \/ MatchReply \/ Reply
    BY <1>3, <2>3 DEF QueueStateStreaming, DispatchPriority, DispatchNormal,
       PutInFlight, MatchReply, Reply, ConnectionInv
  <2>4. CASE Unsent
    <3>1. in_flight_ = NoneInFlight => in_flight_' = NoneInFlight
      BY <2>4 DEF Unsent, NoneInFlight
    <3> QED
      BY <1>3, <2>4, <3>1 DEF Worker, Unsent
  <2> QED
    BY <1>3, <2>1, <2>2, <2>3, <2>4 DEF Busy
<1> QED
  BY <1>1, <1>2, <1>3, QuietOrBusy

-----------------------------------------------------------------------------
(* How the steps of the worker move requests.                              *)

\* A request enters in_flight_ under an id that is free.
LEMMA PutFacts ==
  ASSUME TypeOK, NEW r \in Request, in_flight_[Id(r)] = None,
         in_flight_' = [in_flight_ EXCEPT ![Id(r)] = r]
  PROVE  InFlight' = InFlight \cup {r} /\ in_flight_'[Id(r)] = r
BY RequestIds DEF TypeOK, RequestTypes, InFlight

\* The request of an id, if there is one, leaves in_flight_.
LEMMA EraseFacts ==
  ASSUME TypeOK, PlaceInv, NEW i \in CommandId,
         in_flight_' = [in_flight_ EXCEPT ![i] = None]
  PROVE  InFlight' = InFlight \ {in_flight_[i]}
BY DEF TypeOK, RequestTypes, PlaceInv, InFlight

\* A call that is pushed was not waiting before.
LEMMA PushFacts ==
  ASSUME IInv, NEW c \in Client, Push(c)
  PROVE  /\ c \notin Waiting /\ cur # c
         /\ Range(queue_') \cup Range(priority_queue_')
              = Range(queue_) \cup Range(priority_queue_) \cup {c}
         /\ Range(queue_') \subseteq Range(queue_) \cup {c}
         /\ IsInjective(queue_') /\ IsInjective(priority_queue_')
<1> USE RequestIds DEF IInv, TypeOK, RequestTypes, PlaceInv
<1>1. c \notin Waiting /\ cur # c
  BY DEF Push
<1>2. CASE c \in Priority
  <2>1. priority_queue_' = Append(priority_queue_, c) /\ queue_' = queue_
    BY <1>2 DEF Push
  <2>2. /\ Range(priority_queue_') = Range(priority_queue_) \cup {c}
        /\ IsInjective(priority_queue_')
    BY <1>1, <1>2, <2>1, AppendFacts DEF Waiting
  <2> QED
    BY <1>1, <2>1, <2>2
<1>3. CASE c \notin Priority
  <2>1. queue_' = Append(queue_, c) /\ priority_queue_' = priority_queue_
    BY <1>3 DEF Push
  <2>2. c \in Request \ Priority
    BY <1>3
  <2>3. Range(queue_') = Range(queue_) \cup {c} /\ IsInjective(queue_')
    BY <1>1, <2>1, <2>2, AppendFacts DEF Waiting
  <2> QED
    BY <1>1, <2>1, <2>3
<1> QED
  BY <1>2, <1>3

\* A dispatched request moves from a queue to in_flight_.
LEMMA DispatchFacts ==
  ASSUME IInv, DispatchPriority \/ DispatchNormal
  PROVE  /\ cur' \in Range(queue_) \cup Range(priority_queue_)
         /\ worker' = "send" /\ UNCHANGED <<promise, victims, resume>>
         /\ in_flight_' = [in_flight_ EXCEPT ![Id(cur')] = cur']
         /\ InFlight' = InFlight \cup {cur'}
         /\ in_flight_'[Id(cur')] = cur'
         /\ Range(queue_') \cup Range(priority_queue_')
              = (Range(queue_) \cup Range(priority_queue_)) \ {cur'}
         /\ IsInjective(queue_') /\ IsInjective(priority_queue_')
<1> USE RequestIds DEF IInv, TypeOK, RequestTypes, PlaceInv
<1>1. Range(queue_) \subseteq Request \ Priority
  BY RangeOfSeq
<1>2. Range(priority_queue_) \subseteq Priority
  BY RangeOfSeq
<1>3. CASE DispatchPriority
  <2>1. /\ cur' = Head(priority_queue_) /\ priority_queue_' = Tail(priority_queue_)
        /\ queue_' = queue_ /\ priority_queue_ # <<>>
        /\ worker' = "send" /\ UNCHANGED <<promise, victims, resume>>
        /\ in_flight_[Id(cur')] = None
        /\ in_flight_' = [in_flight_ EXCEPT ![Id(cur')] = cur']
    BY <1>3 DEF DispatchPriority, PriorityCanGo, PutInFlight
  <2>2. /\ cur' \in Range(priority_queue_)
        /\ Range(priority_queue_) = {cur'} \cup Range(priority_queue_')
        /\ cur' \notin Range(priority_queue_') /\ IsInjective(priority_queue_')
    BY <2>1, TailFacts
  <2>3. InFlight' = InFlight \cup {cur'} /\ in_flight_'[Id(cur')] = cur'
    BY <1>2, <2>1, <2>2, PutFacts
  <2> QED
    BY <1>1, <1>2, <2>1, <2>2, <2>3
<1>4. CASE DispatchNormal
  <2>1. /\ cur' = Head(queue_) /\ queue_' = Tail(queue_)
        /\ priority_queue_' = priority_queue_ /\ queue_ # <<>>
        /\ worker' = "send" /\ UNCHANGED <<promise, victims, resume>>
        /\ InFlight = {}
        /\ in_flight_' = [in_flight_ EXCEPT ![Id(cur')] = cur']
    BY <1>4 DEF DispatchNormal, NormalCanGo, PutInFlight
  <2>2. /\ cur' \in Range(queue_)
        /\ Range(queue_) = {cur'} \cup Range(queue_')
        /\ cur' \notin Range(queue_') /\ IsInjective(queue_')
    BY <2>1, TailFacts
  <2>3. in_flight_[Id(cur')] = None
    BY <1>1, <2>1, <2>2 DEF InFlight
  <2>4. InFlight' = InFlight \cup {cur'} /\ in_flight_'[Id(cur')] = cur'
    BY <1>1, <2>1, <2>2, <2>3, PutFacts
  <2> QED
    BY <1>1, <1>2, <2>1, <2>2, <2>4
<1> QED
  BY <1>3, <1>4

\* The request that could not be sent leaves in_flight_ and fails.
LEMMA UnsentFacts ==
  ASSUME IInv, Unsent
  PROVE  /\ cur \in Request /\ InFlight' = InFlight \ {cur}
         /\ promise' = [promise EXCEPT ![cur] =
                          IF @ = "unset" THEN "failed" ELSE @]
         /\ UNCHANGED <<queue_, priority_queue_, victims, resume>>
         /\ cur \notin Waiting' /\ cur' = None /\ worker' = "recv"
<1> USE RequestIds DEF IInv, TypeOK, RequestTypes, CurInv, PlaceInv
<1>1. /\ cur \in Request /\ in_flight_[Id(cur)] \in {cur, None}
      /\ cur \notin Range(queue_) \cup Range(priority_queue_)
  BY DEF Unsent
<1>2. InFlight' = InFlight \ {in_flight_[Id(cur)]}
  BY <1>1, EraseFacts DEF Unsent
<1>3. cur \notin InFlight \/ in_flight_[Id(cur)] = cur
  BY <1>1 DEF InFlight
<1>4. None \notin InFlight
  BY DEF InFlight
<1>5. InFlight' = InFlight \ {cur}
  BY <1>1, <1>2, <1>3, <1>4
<1>6. promise' = [promise EXCEPT ![cur] = IF @ = "unset" THEN "failed" ELSE @]
  BY <1>1 DEF Unsent, FailRequest
<1> QED
  BY <1>1, <1>5, <1>6 DEF Unsent, Waiting

\* The request that is answered leaves in_flight_; the worker holds it.
LEMMA MatchFacts ==
  ASSUME IInv, MatchReply
  PROVE  /\ cur' \in InFlight /\ cur' \in Request
         /\ InFlight' = InFlight \ {cur'}
         /\ UNCHANGED <<queue_, priority_queue_, promise, victims, resume>>
         /\ worker = "match" /\ worker' = "reply"
<1> USE DEF IInv, TypeOK, RequestTypes, ThreadTypes
<1>1. frame.id \in CommandId
  BY DEF Frame
<1> QED
  BY <1>1, EraseFacts DEF MatchReply, InFlight

\* The streaming requests are queued after what is there.
LEMMA StreamFacts ==
  ASSUME IInv, QueueStateStreaming
  PROVE  /\ Range(queue_') = Range(queue_) \cup StreamId
         /\ IsInjective(queue_')
         /\ InFlight = {} /\ InFlight' = {}
         /\ UNCHANGED <<priority_queue_, victims, resume, cur>>
         /\ worker = "stream" /\ worker' = "dispatch"
         /\ promise' = [r \in Request |-> IF r \in StreamId THEN "unset"
                                                         ELSE promise[r]]
<1> USE RequestIds DEF IInv, TypeOK, RequestTypes, PlaceInv
<1>1. StreamSeq \in Seq(Request) /\ queue_ \in Seq(Request)
  BY SeqMonotonic
<1>2. Range(StreamSeq) = StreamId
  BY DEF StreamId
<1>3. IsInjective(StreamSeq)
  BY RequestAssumption, LenProperties DEF IsInjective
<1>4. InFlight = {} /\ Range(queue_) \cap StreamId = {} /\ InFlight' = InFlight
  BY DEF QueueStateStreaming, InFlight
<1>5. queue_' = queue_ \o StreamSeq
  BY DEF QueueStateStreaming
<1>6. Range(queue_') = Range(queue_) \cup StreamId /\ IsInjective(queue_')
  BY <1>1, <1>2, <1>3, <1>4, <1>5, ConcatFacts
<1> QED
  BY <1>4, <1>6 DEF QueueStateStreaming

-----------------------------------------------------------------------------
(* Where requests are, and what their promises hold.                       *)

\* Every step moves a request from one place to one other.
LEMMA PlaceNext == IInv /\ [Next]_vars => PlaceInv'
<1> SUFFICES ASSUME IInv, [Next]_vars PROVE PlaceInv'
  OBVIOUS
<1> USE RequestIds DEF IInv, PlaceInv, Waiting
<1>1. CASE Quiet
  <2>1. worker = "connect" /\ ~socket_ =>
          InFlight = {} /\ Range(queue_) \cap StreamId = {}
    BY DEF ConnectionInv, DownInv, InFlight, NoneInFlight, Range
  <2>2. InFlight' = InFlight
    BY <1>1 DEF Quiet, InFlight
  <2> QED
    BY <1>1, <2>1, <2>2 DEF Quiet
<1>2. ASSUME NEW c \in Client, Command(c) PROVE PlaceInv'
  <2>1. InFlight' = InFlight
    BY <1>2, CommandWrites DEF InFlight
  <2>2. CASE CheckConnected(c) \/ Reject(c)
    BY <1>2, <2>1, <2>2, CommandWrites DEF CheckConnected, Reject, TypeOK,
       ThreadTypes
  <2>3. CASE Push(c)
    <3>1. /\ pc' = [pc EXCEPT ![c] = "waiting"]
          /\ pc \in [Client -> {"idle", "push", "reject", "waiting"}]
          /\ UNCHANGED <<in_flight_, victims, worker, cur>>
      BY <2>3, <1>2, CommandWrites DEF Push, TypeOK, ThreadTypes
    <3>2. \A d \in Client :
            pc'[d] # "waiting" => d \notin (Waiting \cup victims)' /\ cur' # d
      BY <2>1, <2>3, <3>1, PushFacts
    <3>3. worker' \in {"connected", "stream"} => Range(queue_') \cap StreamId = {}
      BY <2>3, <3>1, PushFacts
    <3> QED
      BY <2>1, <2>3, <3>1, <3>2, <3>3, PushFacts
  <2> QED
    BY <1>2, <2>2, <2>3 DEF Command
<1>3. CASE Worker /\ Busy
  <2> USE WorkerWrites, <1>3
  <2>1. CASE Drain
    <3>1. InFlight' = {} /\ Range(queue_') = {} /\ Range(priority_queue_') = {}
      BY <2>1 DEF Drain, InFlight, NoneInFlight, Range
    <3>2. IsInjective(queue_') /\ IsInjective(priority_queue_')
      BY <2>1 DEF Drain, IsInjective
    <3> QED
      BY <2>1, <3>1, <3>2 DEF Drain, Drained, NoneInFlight
  <2>2. CASE FailVictim
    BY <2>2 DEF FailVictim, InFlight
  <2>3. CASE QueueStateStreaming
    <3>1. in_flight_' = in_flight_
      BY <2>3 DEF QueueStateStreaming
    <3> QED
      BY <2>3, <3>1, StreamFacts
  <2>4. CASE DispatchPriority \/ DispatchNormal
    <3>1. cur' \in Request
      BY <2>4, DispatchFacts, RangeOfSeq DEF TypeOK, RequestTypes
    <3>2. \A i \in CommandId : in_flight_'[i] # None => Id(in_flight_'[i]) = i
      <4>1. in_flight_' = [in_flight_ EXCEPT ![Id(cur')] = cur']
        BY <2>4, DispatchFacts
      <4> QED
        BY <3>1, <4>1 DEF TypeOK, RequestTypes
    <3> QED
      BY <2>4, <3>2, DispatchFacts
  <2>5. CASE Unsent
    <3>1. \A i \in CommandId : in_flight_'[i] # None => Id(in_flight_'[i]) = i
      BY <2>5 DEF Unsent, TypeOK, RequestTypes
    <3> QED
      BY <2>5, <3>1, UnsentFacts
  <2>6. CASE MatchReply
    <3>1. \A i \in CommandId : in_flight_'[i] # None => Id(in_flight_'[i]) = i
      BY <2>6 DEF MatchReply, TypeOK, RequestTypes
    <3> QED
      BY <2>6, <3>1, MatchFacts
  <2>7. CASE Reply
    BY <2>7 DEF Reply, InFlight
  <2> QED
    BY <2>1, <2>2, <2>3, <2>4, <2>5, <2>6, <2>7 DEF Busy
<1> QED
  BY <1>1, <1>2, <1>3, QuietOrBusy

\* Only the worker writes what it has in its hands.
LEMMA CurNext == IInv /\ [Next]_vars => CurInv'
<1> SUFFICES ASSUME IInv, [Next]_vars PROVE CurInv'
  OBVIOUS
<1> USE RequestIds DEF IInv, CurInv
<1>1. CASE Owner
  <2>1. InFlight' = InFlight
    BY <1>1 DEF Owner, Start, Stop, Joined, InFlight
  <2>2. CASE Start
    BY <2>1, <2>2 DEF Start, ConnectionInv
  <2>3. CASE Stop \/ Joined
    BY <2>1, <2>3 DEF Stop, Joined, Waiting
  <2> QED
    BY <1>1, <2>2, <2>3 DEF Owner
<1>2. ASSUME NEW c \in Client, Command(c) PROVE CurInv'
  <2>1. InFlight' = InFlight
    BY <1>2, CommandWrites DEF InFlight
  <2>2. CASE CheckConnected(c) \/ Reject(c)
    BY <1>2, <2>1, <2>2, CommandWrites DEF CheckConnected, Reject, Waiting
  <2>3. CASE Push(c)
    BY <1>2, <2>1, <2>3, PushFacts, CommandWrites DEF Waiting
  <2> QED
    BY <1>2, <2>2, <2>3 DEF Command
<1>3. CASE Worker
  <2> USE <1>3
  <2>1. CASE LoopEnds \/ PollFails \/ ExpireRequests
    BY <2>1 DEF LoopEnds, PollFails, ExpireRequests, Disconnect
  <2>2. CASE SendFails
    BY <2>2 DEF SendFails, Disconnect
  <2>3. CASE \/ LoopTurn \/ LoopConnects \/ DispatchNothing \/ SendGivesUp
             \/ PollIdle \/ NothingExpired
    BY <2>3 DEF LoopTurn, LoopConnects, DispatchNothing,
       SendGivesUp, PollIdle, NothingExpired, GoTo
  <2>4. CASE Drain
    BY <2>4 DEF Drain, NoneInFlight, Range
  <2>5. CASE FailVictim
    BY <2>5 DEF FailVictim
  <2>6. CASE ClearState
    BY <2>6 DEF ClearState, TypeOK, ThreadTypes
  <2>7. CASE ConnectFails \/ ConnectSucceeds \/ SetConnected \/ RecvStopped
    BY <2>7 DEF ConnectFails, ConnectSucceeds, SetConnected, RecvStopped
  <2>8. CASE QueueStateStreaming
    BY <2>8, StreamFacts
  <2>9. CASE DispatchPriority \/ DispatchNormal
    <3>1. cur' \in Request
      BY <2>9, DispatchFacts, RangeOfSeq DEF TypeOK, RequestTypes
    <3>2. worker = "dispatch"
      BY <2>9 DEF DispatchPriority, DispatchNormal
    <3> QED
      BY <2>9, <3>1, <3>2, DispatchFacts
  <2>10. CASE SendFrame
    BY <2>10 DEF SendFrame
  <2>11. CASE Unsent
    <3>1. worker = "unsent"
      BY <2>11 DEF Unsent
    <3> QED
      BY <2>11, <3>1, UnsentFacts
  <2>12. CASE RecvFrame \/ MatchNothing \/ MatchPending
    BY <2>12 DEF RecvFrame, MatchNothing, MatchPending
  <2>13. CASE MatchReply
    BY <2>13, MatchFacts DEF PlaceInv, Waiting
  <2>14. CASE Reply
    BY <2>14 DEF Reply
  <2> QED
    BY <2>1, <2>2, <2>3, <2>4, <2>5, <2>6, <2>7, <2>8, <2>9, <2>10, <2>11,
       <2>12, <2>13, <2>14 DEF Worker
<1>4. CASE Device \/ Time \/ LinkBreaks \/ UNCHANGED vars
  BY <1>4, EnvironmentWrites DEF Waiting, InFlight
<1> QED
  BY <1>1, <1>2, <1>3, <1>4 DEF Next

\* Every step that sets a promise has taken its request out.
LEMMA UnsetNext == IInv /\ [Next]_vars => UnsetInv'
<1> SUFFICES ASSUME IInv, [Next]_vars PROVE UnsetInv'
  OBVIOUS
<1> USE RequestIds DEF IInv, UnsetInv, Waiting
<1>1. CASE Quiet
  BY <1>1 DEF Quiet, InFlight
<1>2. ASSUME NEW c \in Client, Command(c) PROVE UnsetInv'
  <2>1. InFlight' = InFlight
    BY <1>2, CommandWrites DEF InFlight
  <2>2. CASE CheckConnected(c)
    BY <1>2, <2>1, <2>2, CommandWrites DEF CheckConnected
  <2>3. CASE Push(c)
    <3>1. /\ pc' = [pc EXCEPT ![c] = "waiting"]
          /\ pc \in [Client -> {"idle", "push", "reject", "waiting"}]
          /\ promise[c] = "unset" /\ UNCHANGED <<promise, worker, cur>>
      BY <2>3, <1>2, CommandWrites DEF Push, TypeOK, ThreadTypes
    <3>2. Waiting' = Waiting \cup {c}
      BY <2>1, <2>3, PushFacts
    <3> QED
      BY <3>1, <3>2
  <2>4. CASE Reject(c)
    <3>1. c \notin Waiting /\ cur # c
      BY <2>4 DEF Reject, PlaceInv
    <3>2. \A r \in Request \ {c} : promise'[r] = promise[r]
      BY <2>4 DEF Reject, FailRequest, TypeOK, RequestTypes
    <3>3. Waiting \subseteq Request
      BY RangeOfSeq DEF TypeOK, RequestTypes, InFlight
    <3>4. worker' = "reply" => cur' = cur /\ worker = "reply" /\ cur \in Request
      BY <1>2, CommandWrites DEF CurInv
    <3> QED
      BY <2>1, <2>4, <3>1, <3>2, <3>3, <3>4 DEF Reject, TypeOK, ThreadTypes
  <2> QED
    BY <1>2, <2>2, <2>3, <2>4 DEF Command
<1>3. CASE Worker /\ Busy
  <2> USE WorkerWrites, <1>3
  <2>1. CASE Drain
    BY <2>1 DEF Drain, InFlight, NoneInFlight, Range
  <2>2. CASE FailVictim
    <3>1. Waiting' = {}
      BY <2>2 DEF FailVictim, ConnectionInv, DownInv, InFlight, NoneInFlight,
         Range
    <3>2. PICK v \in victims : FailRequest(v)
      BY <2>2 DEF FailVictim
    <3>3. \A r \in Request \ {v} : promise'[r] = promise[r]
      BY <3>2 DEF FailRequest, TypeOK, RequestTypes
    <3> QED
      BY <2>2, <3>1, <3>2, <3>3 DEF FailVictim, PlaceInv
  <2>3. CASE QueueStateStreaming
    <3>1. Range(queue_) \cup Range(priority_queue_) \subseteq Request
      BY RangeOfSeq DEF TypeOK, RequestTypes
    <3> QED
      BY <2>3, <3>1, StreamFacts
  <2>4. CASE DispatchPriority \/ DispatchNormal
    BY <2>4, DispatchFacts
  <2>5. CASE Unsent
    <3>1. \A r \in Request \ {cur} : promise'[r] = promise[r]
      BY <2>5, UnsentFacts DEF TypeOK, RequestTypes
    <3>2. Waiting \subseteq Request
      BY RangeOfSeq DEF TypeOK, RequestTypes, InFlight
    <3>3. Waiting' \subseteq Waiting
      BY <2>5, UnsentFacts
    <3> QED
      BY <2>5, <3>1, <3>2, <3>3, UnsentFacts DEF PlaceInv
  <2>6. CASE MatchReply
    BY <2>6, MatchFacts
  <2>7. CASE Reply
    <3>1. cur \in Request /\ cur \notin Waiting
      BY <2>7 DEF Reply, CurInv
    <3>2. Waiting' = Waiting /\ Waiting \subseteq Request
      BY <2>7, RangeOfSeq DEF Reply, InFlight, TypeOK, RequestTypes
    <3> QED
      BY <2>7, <3>1, <3>2 DEF Reply, PlaceInv, TypeOK, RequestTypes
  <2> QED
    BY <2>1, <2>2, <2>3, <2>4, <2>5, <2>6, <2>7 DEF Busy
<1> QED
  BY <1>1, <1>2, <1>3, QuietOrBusy

\* Every step that takes a request out sets its promise or keeps it.
LEMMA StrandedNext == IInv /\ [Next]_vars => NoStrandedRequest'
<1> SUFFICES ASSUME IInv, [Next]_vars PROVE NoStrandedRequest'
  OBVIOUS
<1> USE RequestIds DEF IInv, NoStrandedRequest
<1>0. Held = Waiting \cup victims /\ Held' = Waiting' \cup victims'
  BY DEF Held, Waiting
<1>1. CASE Quiet
  BY <1>0, <1>1 DEF Quiet, Waiting, InFlight
<1>2. ASSUME NEW c \in Client, Command(c) PROVE NoStrandedRequest'
  <2>1. InFlight' = InFlight
    BY <1>2, CommandWrites DEF InFlight
  <2>2. CASE CheckConnected(c)
    BY <1>0, <1>2, <2>1, <2>2, CommandWrites DEF CheckConnected, Waiting, TypeOK,
       ThreadTypes
  <2>3. CASE Push(c)
    <3>1. Waiting' = Waiting \cup {c}
      BY <2>1, <2>3, PushFacts DEF Waiting
    <3>2. /\ pc' = [pc EXCEPT ![c] = "waiting"]
          /\ pc \in [Client -> {"idle", "push", "reject", "waiting"}]
          /\ UNCHANGED <<promise, victims, worker, cur>>
      BY <1>2, <2>3, CommandWrites DEF Push, TypeOK, ThreadTypes
    <3> QED
      BY <1>0, <3>1, <3>2
  <2>4. CASE Reject(c)
    <3>1. Waiting' = Waiting /\ victims' = victims
      BY <2>1, <2>4 DEF Reject, Waiting
    <3>2. promise'[c] # "unset"
      BY <2>4 DEF Reject, FailRequest, TypeOK, RequestTypes
    <3>3. \A d \in Client \ {c} : promise'[d] = promise[d] /\ pc'[d] = pc[d]
      BY <2>4 DEF Reject, FailRequest, TypeOK, RequestTypes, ThreadTypes
    <3> QED
      BY <1>0, <1>2, <3>1, <3>2, <3>3, CommandWrites
  <2> QED
    BY <1>2, <2>2, <2>3, <2>4 DEF Command
<1>3. CASE Worker /\ Busy
  <2> USE WorkerWrites, <1>3
  <2>1. CASE Drain
    BY <1>0, <2>1 DEF Drain, Drained, Waiting, ConnectionInv
  <2>2. CASE FailVictim
    <3>1. PICK v \in victims : FailRequest(v) /\ victims' = victims \ {v}
      BY <2>2 DEF FailVictim
    <3>2. promise'[v] # "unset"
      BY <3>1 DEF FailRequest, TypeOK, RequestTypes
    <3>3. \A r \in Request \ {v} : promise'[r] = promise[r]
      BY <3>1 DEF FailRequest, TypeOK, RequestTypes
    <3>4. Waiting' = Waiting
      BY <2>2 DEF FailVictim, Waiting, InFlight
    <3> QED
      BY <1>0, <2>2, <3>1, <3>2, <3>3, <3>4 DEF FailVictim
  <2>3. CASE QueueStateStreaming
    BY <1>0, <2>3, StreamFacts DEF Waiting
  <2>4. CASE DispatchPriority \/ DispatchNormal
    <3>1. Waiting' = Waiting /\ UNCHANGED <<promise, victims>>
      BY <2>4, DispatchFacts DEF Waiting
    <3>2. worker = "dispatch"
      BY <2>4 DEF DispatchPriority, DispatchNormal
    <3> QED
      BY <1>0, <3>1, <3>2
  <2>5. CASE Unsent
    <3>1. Waiting' \cup {cur} = Waiting \cup {cur} /\ victims' = victims
      BY <2>5, UnsentFacts DEF Waiting, CurInv
    <3>2. promise'[cur] # "unset"
      BY <2>5, UnsentFacts DEF TypeOK, RequestTypes
    <3>3. \A r \in Request \ {cur} : promise'[r] = promise[r]
      BY <2>5, UnsentFacts DEF TypeOK, RequestTypes
    <3>4. worker = "unsent"
      BY <2>5 DEF Unsent
    <3> QED
      BY <1>0, <3>1, <3>2, <3>3, <3>4
  <2>6. CASE MatchReply
    BY <1>0, <2>6, MatchFacts DEF Waiting
  <2>7. CASE Reply
    BY <1>0, <2>7 DEF Reply, Waiting, InFlight, TypeOK, RequestTypes
  <2> QED
    BY <2>1, <2>2, <2>3, <2>4, <2>5, <2>6, <2>7 DEF Busy
<1> QED
  BY <1>1, <1>2, <1>3, QuietOrBusy

-----------------------------------------------------------------------------
(* The invariant and what follows from it.                                 *)

\* The inductive invariant holds at first.
LEMMA InvariantInit == Init => IInv
<1> SUFFICES ASSUME Init PROVE IInv
  OBVIOUS
<1> USE RequestIds DEF Init
<1>1. TypeOK
  BY TypeInit
<1>2. InFlight = {} /\ Range(queue_) = {} /\ Range(priority_queue_) = {}
  BY DEF InFlight, NoneInFlight, Range
<1>3. MutexInv /\ ConnectionInv /\ DownInv
  BY DEF MutexInv, ConnectionInv, DownInv
<1>4. PlaceInv
  BY <1>2 DEF PlaceInv, Waiting, IsInjective, NoneInFlight
<1>5. CurInv /\ UnsetInv /\ NoStrandedRequest
  BY <1>2 DEF CurInv, UnsetInv, Waiting, NoStrandedRequest
<1> QED
  BY <1>1, <1>3, <1>4, <1>5 DEF IInv

\* Every step keeps the inductive invariant.
LEMMA InvariantNext == IInv /\ [Next]_vars => IInv'
BY TypeNext, MutexNext, ConnectionNext, DownNext, PlaceNext, CurNext, UnsetNext,
   StrandedNext DEF IInv

\* The inductive invariant holds in every behaviour.
THEOREM Invariant == Spec => []IInv
<1> QED
  BY InvariantInit, InvariantNext, PTL DEF Spec

\* No interleaving of command(), dispatch, replies and disconnect() loses a
\* request, for any number of calls and any ids.
THEOREM NothingStranded == Spec => []NoStrandedRequest
<1>1. IInv => NoStrandedRequest
  BY DEF IInv
<1> QED
  BY <1>1, Invariant, PTL

\* After fail_all the queues stay empty until the next connection.
THEOREM NothingOutlives == Spec => []NothingOutlivesConnection
<1>1. IInv => NothingOutlivesConnection
  BY DEF IInv, DownInv, NothingOutlivesConnection, InFlight, NoneInFlight
<1> QED
  BY <1>1, Invariant, PTL

\* handle_frame() never sets a promise twice.
THEOREM NeverThrows == Spec => []ReplyNeverThrows
<1>1. IInv => ReplyNeverThrows
  BY DEF IInv, UnsetInv, ReplyNeverThrows
<1> QED
  BY <1>1, Invariant, PTL

\* stop() returns with every call answered.
THEOREM StopAnswersCallers == Spec => []StopLeavesNoCaller
<1>1. IInv => StopLeavesNoCaller
  <2> SUFFICES ASSUME IInv, owner = "idle", ~running_ PROVE Held = {}
    BY DEF IInv, ConnectionInv, NoStrandedRequest, StopLeavesNoCaller
  <2> QED
    BY DEF IInv, ConnectionInv, DownInv, Held, InFlight, NoneInFlight, Range
<1> QED
  BY <1>1, Invariant, PTL

-----------------------------------------------------------------------------
(* state_ and the connection.                                              *)

\* The flag in state_ goes up with the socket and down at the end of
\* disconnect().
StateInv ==
  /\ socket_ => state_.connected
  /\ state_.connected => socket_ \/ worker \in {"drain", "fail"}
  /\ StateIsOfThisConnection

\* state_ is written at connect, by frames of the connection and at reset.
LEMMA StateNext == IInv /\ StateInv /\ [Next]_vars => StateInv'
<1> SUFFICES ASSUME IInv, StateInv, [Next]_vars PROVE StateInv'
  OBVIOUS
<1> USE DEF StateInv, StateIsOfThisConnection
<1>0. state_ \in DeviceState
  BY DEF IInv, TypeOK, ConnectionTypes
<1>2. CASE Owner
  BY <1>2 DEF Owner, Start, Stop, Joined, IInv, ConnectionInv
<1>3. ASSUME NEW c \in Client, Command(c) PROVE StateInv'
  BY <1>3 DEF Command, CheckConnected, Push, Reject
<1>4. CASE Worker
  <2>1. CASE LoopEnds \/ SendFails \/ PollFails \/ ExpireRequests
    BY <2>1 DEF LoopEnds, SendFails, PollFails, ExpireRequests, Disconnect
  <2>2. CASE Drain \/ FailVictim
    BY <2>2 DEF Drain, FailVictim
  <2>3. CASE ClearState
    BY <1>0, <2>3 DEF ClearState, IInv, ConnectionInv, DeviceState
  <2>4. CASE ConnectSucceeds
    BY <1>0, <2>4 DEF ConnectSucceeds, DeviceState, IInv, ConnectionInv
  <2>5. CASE SetConnected
    BY <2>5 DEF SetConnected, IInv, ConnectionInv
  <2>6. CASE RecvFrame
    BY <1>0, <2>6 DEF RecvFrame, UpdateState, DeviceState
  <2>7. CASE Reply
    BY <1>0, <2>7 DEF Reply, DeviceState
  <2>8. CASE \/ LoopTurn \/ LoopConnects \/ DispatchNothing \/ SendGivesUp
             \/ PollIdle \/ NothingExpired
    BY <2>8 DEF LoopTurn, LoopConnects, DispatchNothing,
       SendGivesUp, PollIdle, NothingExpired, GoTo
  <2>9. CASE ConnectFails \/ QueueStateStreaming \/ SendFrame \/ Unsent
    BY <2>9 DEF ConnectFails, QueueStateStreaming, SendFrame, Unsent
  <2>10. CASE DispatchPriority \/ DispatchNormal \/ RecvStopped
    BY <2>10 DEF DispatchPriority, DispatchNormal, PutInFlight, RecvStopped
  <2>11. CASE MatchNothing \/ MatchPending \/ MatchReply
    BY <2>11 DEF MatchNothing, MatchPending, MatchReply
  <2> QED
    BY <1>4, <2>1, <2>2, <2>3, <2>4, <2>5, <2>6, <2>7, <2>8, <2>9, <2>10, <2>11
       DEF Worker
<1>5. CASE Device \/ Time \/ LinkBreaks \/ UNCHANGED vars
  BY <1>5, EnvironmentWrites
<1> QED
  BY <1>2, <1>3, <1>4, <1>5 DEF Next

\* What state() returns as referenced or as freshly measured comes from the
\* connection it counts.
THEOREM StateIsCurrent == Spec => []StateIsOfThisConnection
<1>1. Init => StateInv
  BY DEF Init, StateInv, StateIsOfThisConnection
<1>2. StateInv => StateIsOfThisConnection
  BY DEF StateInv
<1> QED
  BY <1>1, <1>2, StateNext, Invariant, PTL DEF Spec

-----------------------------------------------------------------------------
(* The transport implements CommandService.                                *)

\* How often a call was written: never while it is queued, once when it is
\* in flight and out of the worker's hands, or being answered.
SentInv ==
  /\ \A c \in Client :
       pc[c] # "waiting" \/ c \in Range(queue_) \cup Range(priority_queue_) =>
         sent[c] = 0
  /\ worker = "send" /\ cur \in Client => sent[cur] = 0
  /\ \A c \in Client \cap InFlight : c # cur => sent[c] = 1
  /\ worker = "reply" /\ cur \in Client => sent[cur] = 1

\* Only the first dispatch of a call writes it to the socket.
LEMMA SentNext == IInv /\ SentInv /\ [Next]_vars => SentInv'
<1> SUFFICES ASSUME IInv, SentInv, [Next]_vars PROVE SentInv'
  OBVIOUS
<1> USE RequestIds DEF IInv, SentInv
<1>1. CASE Quiet /\ UNCHANGED <<cur, sent>>
  BY <1>1 DEF Quiet, InFlight
<1>2. CASE Quiet /\ SendFrame
  <2>1. cur \in Request /\ cur \in InFlight /\ worker = "send" /\ worker' = "recv"
    BY <1>2 DEF SendFrame, CurInv, InFlight
  <2>2. \A c \in Client : sent'[c] = IF c = cur THEN 1 ELSE sent[c]
    BY <1>2, <2>1 DEF SendFrame, TypeOK, ThreadTypes
  <2>3. cur \notin Range(queue_) \cup Range(priority_queue_)
    BY <2>1 DEF CurInv
  <2>4. \A c \in Client : pc[c] # "waiting" => c # cur
    BY DEF PlaceInv
  <2> QED
    BY <1>2, <2>1, <2>2, <2>3, <2>4 DEF Quiet, InFlight
<1>3. ASSUME NEW c \in Client, Command(c) PROVE SentInv'
  <2>1. InFlight' = InFlight
    BY <1>3, CommandWrites DEF InFlight
  <2>2. CASE CheckConnected(c) \/ Reject(c)
    BY <1>3, <2>1, <2>2, CommandWrites DEF CheckConnected, Reject, TypeOK,
       ThreadTypes
  <2>3. CASE Push(c)
    <3>1. /\ pc' = [pc EXCEPT ![c] = "waiting"] /\ sent[c] = 0
          /\ pc \in [Client -> {"idle", "push", "reject", "waiting"}]
          /\ UNCHANGED <<sent, worker, cur>>
      BY <1>3, <2>3, CommandWrites DEF Push, TypeOK, ThreadTypes
    <3> QED
      BY <2>1, <2>3, <3>1, PushFacts
  <2> QED
    BY <1>3, <2>2, <2>3 DEF Command
<1>4. CASE Worker /\ Busy
  <2> USE WorkerWrites, <1>4
  <2>1. CASE Drain
    BY <2>1 DEF Drain, InFlight, NoneInFlight, Range
  <2>2. CASE FailVictim
    BY <2>2 DEF FailVictim, InFlight
  <2>3. CASE QueueStateStreaming
    <3>1. sent' = sent
      BY <2>3 DEF QueueStateStreaming
    <3> QED
      BY <2>3, <3>1, StreamFacts
  <2>4. CASE DispatchPriority \/ DispatchNormal
    <3>1. sent' = sent /\ worker = "dispatch"
      BY <2>4 DEF DispatchPriority, DispatchNormal, PutInFlight
    <3>2. cur = None
      BY <3>1, <2>4 DEF CurInv
    <3>3. cur' \in Client => sent[cur'] = 0
      BY <2>4, DispatchFacts
    <3>4. None \notin InFlight
      BY DEF InFlight
    <3> QED
      BY <2>4, <3>1, <3>2, <3>3, <3>4, DispatchFacts
  <2>5. CASE Unsent
    <3>1. sent' = sent
      BY <2>5 DEF Unsent
    <3> QED
      BY <2>5, <3>1, UnsentFacts
  <2>6. CASE MatchReply
    <3>1. sent' = sent /\ cur = None
      BY <2>6 DEF MatchReply, CurInv
    <3> QED
      BY <2>6, <3>1, MatchFacts
  <2>7. CASE Reply
    <3>1. sent' = sent /\ InFlight' = InFlight /\ cur \notin InFlight
      BY <2>7 DEF Reply, InFlight, CurInv, Waiting
    <3> QED
      BY <2>7, <3>1 DEF Reply
  <2> QED
    BY <2>1, <2>2, <2>3, <2>4, <2>5, <2>6, <2>7 DEF Busy
<1> QED
  BY <1>1, <1>2, <1>3, <1>4, QuietOrBusy DEF Quiet

\* A promise that is set once is the only thing a step can change for a caller.
LEMMA FailIsServiceFail ==
  ASSUME TypeOK, NEW r \in Request, FailRequest(r), UNCHANGED <<pc, sent>>,
         r \in Client => pc[r] = "waiting"
  PROVE  [Service!Next]_(Service!svars)
<1> USE RequestIds DEF TypeOK, RequestTypes, ThreadTypes, callStatus
<1>1. CASE r \notin Client \/ promise[r] # "unset"
  <2>1. \A c \in Client : promise'[c] = promise[c]
    BY <1>1 DEF FailRequest
  <2> QED
    BY <2>1 DEF Service!svars
<1>2. CASE r \in Client /\ promise[r] = "unset"
  <2>1. promise' = [promise EXCEPT ![r] = "failed"]
    BY <1>2 DEF FailRequest
  <2>2. callStatus[r] = "pending"
    BY <1>2
  <2>3. callStatus' = [callStatus EXCEPT ![r] = "failed"]
    BY <1>2, <2>1
  <2> QED
    BY <1>2, <2>2, <2>3 DEF Service!Next, Service!Fail
<1> QED
  BY <1>1, <1>2

\* Every step is a step of the service or none.
LEMMA ServiceNext ==
  IInv /\ SentInv /\ [Next]_vars => [Service!Next]_(Service!svars)
<1> SUFFICES ASSUME IInv, SentInv, [Next]_vars
             PROVE  [Service!Next]_(Service!svars)
  OBVIOUS
<1> USE RequestIds DEF IInv
<1>1. CASE Quiet /\ UNCHANGED <<cur, sent>>
  BY <1>1 DEF Quiet, callStatus, Service!svars
<1>2. CASE Quiet /\ SendFrame
  <2>1. callStatus' = callStatus
    BY <1>2 DEF Quiet, callStatus
  <2>2. CASE cur \in Client
    <3>1. cur \in Waiting /\ worker = "send"
      BY <1>2, <2>2 DEF SendFrame, CurInv, InFlight, Waiting
    <3>2. callStatus[cur] = "pending" /\ sent[cur] = 0
      BY <2>2, <3>1 DEF PlaceInv, UnsetInv, SentInv, callStatus
    <3>3. sent' = [sent EXCEPT ![cur] = 1]
      BY <1>2, <2>2, <3>2 DEF SendFrame, TypeOK, ThreadTypes
    <3> QED
      BY <2>1, <2>2, <3>2, <3>3 DEF Service!Next, Service!Send
  <2>3. CASE cur \notin Client
    BY <1>2, <2>1, <2>3 DEF SendFrame, Service!svars
  <2> QED
    BY <2>2, <2>3
<1>3. ASSUME NEW c \in Client, Command(c)
      PROVE  [Service!Next]_(Service!svars)
  <2>1. sent' = sent
    BY <1>3, CommandWrites
  <2>2. CASE CheckConnected(c)
    <3>1. callStatus[c] = "idle" /\ promise[c] = "unset"
      BY <2>2 DEF CheckConnected, callStatus, UnsetInv
    <3>2. callStatus' = [callStatus EXCEPT ![c] = "pending"]
      BY <2>2, <3>1 DEF CheckConnected, callStatus, TypeOK, ThreadTypes
    <3> QED
      BY <2>1, <3>1, <3>2 DEF Service!Next, Service!Call
  <2>3. CASE Push(c)
    <3>1. callStatus' = callStatus
      BY <2>3 DEF Push, callStatus, TypeOK, ThreadTypes
    <3> QED
      BY <2>1, <3>1 DEF Service!svars
  <2>4. CASE Reject(c)
    <3>1. callStatus[c] = "pending" /\ promise[c] = "unset"
      BY <2>4 DEF Reject, callStatus, UnsetInv
    <3>2. callStatus' = [callStatus EXCEPT ![c] = "failed"]
      BY <2>4, <3>1 DEF Reject, FailRequest, callStatus, TypeOK, ThreadTypes,
         RequestTypes
    <3> QED
      BY <2>1, <3>1, <3>2 DEF Service!Next, Service!Fail
  <2> QED
    BY <1>3, <2>2, <2>3, <2>4 DEF Command
<1>4. CASE Worker /\ Busy
  <2> USE WorkerWrites, <1>4
  <2>0. CASE UNCHANGED <<pc, promise, sent>>
    BY <2>0 DEF callStatus, Service!svars
  <2>1. CASE Drain \/ DispatchPriority \/ DispatchNormal \/ MatchReply
    BY <2>0, <2>1 DEF Drain, DispatchPriority, DispatchNormal, PutInFlight,
       MatchReply
  <2>2. CASE FailVictim
    <3>1. PICK r \in victims : FailRequest(r)
      BY <2>2 DEF FailVictim
    <3>2. r \in Request /\ (r \in Client => pc[r] = "waiting")
      BY <3>1 DEF PlaceInv, TypeOK, RequestTypes
    <3> QED
      BY <2>2, <3>1, <3>2, FailIsServiceFail DEF FailVictim
  <2>3. CASE QueueStateStreaming
    <3>1. \A c \in Client : promise'[c] = promise[c]
      BY <2>3 DEF QueueStateStreaming
    <3> QED
      BY <2>3, <3>1 DEF QueueStateStreaming, callStatus, Service!svars
  <2>4. CASE Unsent
    <3>1. cur \in Request /\ (cur \in Client => pc[cur] = "waiting")
      BY <2>4, UnsentFacts DEF PlaceInv
    <3> QED
      BY <2>4, <3>1, FailIsServiceFail DEF Unsent
  <2>5. CASE Reply
    <3>1. cur \in Request /\ promise[cur] = "unset"
      BY <2>5 DEF Reply, CurInv, UnsetInv
    <3>2. CASE cur \in Client
      <4>1. callStatus[cur] = "pending" /\ sent[cur] = 1
        BY <2>5, <3>1, <3>2 DEF Reply, PlaceInv, SentInv, callStatus
      <4>2. callStatus' = [callStatus EXCEPT ![cur] = "answered"]
        BY <2>5, <3>1, <3>2 DEF Reply, PlaceInv, callStatus, TypeOK, RequestTypes
      <4> QED
        BY <2>5, <3>2, <4>1, <4>2 DEF Reply, Service!Next, Service!Answer
    <3>3. CASE cur \notin Client
      BY <2>5, <3>3 DEF Reply, callStatus, Service!svars, TypeOK, RequestTypes
    <3> QED
      BY <3>2, <3>3
  <2> QED
    BY <2>1, <2>2, <2>3, <2>4, <2>5 DEF Busy
<1> QED
  BY <1>1, <1>2, <1>3, <1>4, QuietOrBusy DEF Quiet

\* Whatever the threads, the gripper and the network do, a caller sees its
\* call sent at most once, answered only if it was sent, and ended once.
THEOREM TransportImplementsService == Spec => ServiceSpec
<1>1. Init => SentInv /\ Service!Init
  BY DEF Init, SentInv, InFlight, NoneInFlight, Range, Service!Init, callStatus
<1>2. Init /\ [][Next]_vars => []SentInv
  BY <1>1, SentNext, Invariant, PTL DEF Spec
<1> QED
  BY <1>1, <1>2, ServiceNext, Invariant, PTL DEF Spec, ServiceSpec, Service!Spec

=============================================================================
