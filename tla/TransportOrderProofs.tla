------------------------- MODULE TransportOrderProofs -------------------------
(***************************************************************************)
(* Proofs about the order in which Transport has the gripper work, for any *)
(* calls, ids and streams.                                                 *)
(*                                                                         *)
(* A call the gripper works on, or whose answer is on its way, is still in *)
(* flight under its id: nothing that carries the same id can take its      *)
(* answer, and no call that waits for an empty in_flight_ goes out.        *)
(***************************************************************************)
EXTENDS TransportProofs

USE DEF callers, requests, connection, locals

\* What the gripper sends is for a call, or is telemetry.
ProperFrame(f) ==
  IF f.of \in Client THEN f.id = ClientId[f.of] ELSE f.id \in StreamId

\* The answer to a call, not only the news that it is being worked on.
Final(f) == f.of \in Client /\ f.status # "pending"

\* Nothing of a connection is left when it is closed.
GripperInv ==
  /\ ~socket_ => rx = <<>> /\ device = {}
  /\ link => socket_

FrameInv ==
  /\ \A n \in DOMAIN rx : ProperFrame(rx[n])
  /\ worker = "match" => ProperFrame(frame)

\* At most one request in flight is not a priority request.
NormalInv == \A r, s \in InFlight \ Priority : r = s

\* A call the gripper works on is in flight.
DeviceInv == \A c \in device \cap Client : in_flight_[ClientId[c]] = c

\* So is one whose answer waits in the socket, and there is one answer.
RxInv ==
  \A n \in DOMAIN rx : Final(rx[n]) =>
    /\ in_flight_[rx[n].id] = rx[n].of /\ rx[n].of \notin device
    /\ \A k \in DOMAIN rx : Final(rx[k]) /\ rx[k].of = rx[n].of => k = n

\* So is one whose answer the worker is looking at.
MatchInv ==
  /\ worker = "match" /\ Final(frame) =>
       /\ in_flight_[frame.id] = frame.of /\ frame.of \notin device
       /\ \A n \in DOMAIN rx : Final(rx[n]) => rx[n].of # frame.of
  /\ worker = "reply" /\ cur \in Client => frame.of = cur

\* What the worker is about to write is not at the gripper yet.
SendInv ==
  (worker \in {"send", "unsent"} \/ resume = "unsent") /\ cur \in Client =>
    /\ cur \notin device
    /\ \A n \in DOMAIN rx : Final(rx[n]) => rx[n].of # cur

AnswerInv == DeviceInv /\ RxInv /\ MatchInv /\ SendInv

\* What is invariant beside IInv.  A call that does not allow "command
\* pending" ends with such a frame while the gripper goes on with it.
OrderInv ==
  /\ GripperInv /\ FrameInv /\ NormalInv
  /\ Client \subseteq AllowPending => AnswerInv

-----------------------------------------------------------------------------
(* The connection, the frames and what is in flight.                       *)

\* disconnect() drops what the gripper and the socket hold.
LEMMA GripperNext == IInv /\ GripperInv /\ [Next]_vars => GripperInv'
<1> SUFFICES ASSUME IInv, GripperInv, [Next]_vars PROVE GripperInv'
  OBVIOUS
<1> USE DEF GripperInv
<1>1. CASE Owner
  BY <1>1 DEF Owner, Start, Stop, Joined
<1>2. ASSUME NEW c \in Client, Command(c) PROVE GripperInv'
  BY <1>2 DEF Command, CheckConnected, Push, Reject
<1>3. CASE Worker
  <2>1. CASE LoopEnds \/ SendFails \/ PollFails \/ ExpireRequests
    BY <2>1 DEF LoopEnds, SendFails, PollFails, ExpireRequests, Disconnect
  <2>2. CASE \/ LoopTurn \/ LoopConnects \/ DispatchNothing \/ SendGivesUp
             \/ PollIdle \/ NothingExpired
    BY <2>2 DEF LoopTurn, LoopConnects, DispatchNothing,
       SendGivesUp, PollIdle, NothingExpired, GoTo
  <2>3. CASE Drain \/ FailVictim \/ ClearState
    BY <2>3 DEF Drain, FailVictim, ClearState
  <2>4. CASE ConnectFails \/ ConnectSucceeds \/ SetConnected \/ RecvStopped
    BY <2>4 DEF ConnectFails, ConnectSucceeds, SetConnected, RecvStopped
  <2>5. CASE QueueStateStreaming \/ DispatchPriority \/ DispatchNormal
    BY <2>5 DEF QueueStateStreaming, DispatchPriority, DispatchNormal,
       PutInFlight
  <2>6. CASE SendFrame
    BY <2>6 DEF SendFrame
  <2>7. CASE RecvFrame
    BY <2>7 DEF RecvFrame
  <2>8. CASE Unsent \/ MatchNothing \/ MatchPending \/ MatchReply \/ Reply
    BY <2>8 DEF Unsent, MatchNothing, MatchPending, MatchReply, Reply
  <2> QED
    BY <1>3, <2>1, <2>2, <2>3, <2>4, <2>5, <2>6, <2>7, <2>8 DEF Worker
<1>4. CASE Device
  BY <1>4 DEF Device, DeviceAnswers, DeviceKeepsWorking, DeviceStreams,
     DeviceSends
<1>5. CASE Time \/ LinkBreaks \/ UNCHANGED vars
  BY <1>5 DEF Time, DeadlinePasses, IntervalPasses, LinkBreaks, vars
<1> QED
  BY <1>1, <1>2, <1>3, <1>4, <1>5 DEF Next

\* A normal request goes out only when nothing is in flight, and a request
\* that is in flight is never joined by another normal one.
LEMMA NormalNext == IInv /\ NormalInv /\ [Next]_vars => NormalInv'
<1> SUFFICES ASSUME IInv, NormalInv, [Next]_vars PROVE NormalInv'
  OBVIOUS
<1> USE DEF NormalInv
<1>1. CASE Quiet
  BY <1>1 DEF Quiet, InFlight
<1>2. ASSUME NEW c \in Client, Command(c) PROVE NormalInv'
  BY <1>2, CommandWrites DEF InFlight
<1>3. CASE Drain
  BY <1>3 DEF Drain, InFlight, NoneInFlight
<1>4. CASE FailVictim \/ Reply
  BY <1>4 DEF FailVictim, Reply, InFlight
<1>5. CASE QueueStateStreaming
  BY <1>5, StreamFacts
<1>6. CASE DispatchPriority
  <2>1. cur' \in Priority
    BY <1>6, RangeOfSeq, TailFacts DEF DispatchPriority, PriorityCanGo,
       PutInFlight, IInv, TypeOK, RequestTypes
  <2> QED
    BY <1>6, <2>1, DispatchFacts
<1>7. CASE DispatchNormal
  <2>1. InFlight = {}
    BY <1>7 DEF DispatchNormal, NormalCanGo
  <2> QED
    BY <1>7, <2>1, DispatchFacts
<1>8. CASE Unsent
  BY <1>8, UnsentFacts
<1>9. CASE MatchReply
  BY <1>9, MatchFacts
<1> QED
  BY <1>1, <1>2, <1>3, <1>4, <1>5, <1>6, <1>7, <1>8, <1>9, QuietOrBusy
     DEF Busy, IInv

-----------------------------------------------------------------------------
(* What the steps do with the frames and the requests at the gripper.      *)

\* The steps that have nothing to do with either.
Apart ==
  /\ UNCHANGED <<rx, device, in_flight_, cur, frame>>
  /\ worker' = "match" <=> worker = "match"
  /\ worker' = "reply" <=> worker = "reply"
  /\ worker' \in {"send", "unsent"} \/ resume' = "unsent" =>
       worker \in {"send", "unsent"} \/ resume = "unsent"

\* The worker's steps that do.
Moves ==
  \/ Drain \/ DispatchPriority \/ DispatchNormal \/ SendFrame \/ Unsent
  \/ RecvFrame \/ MatchNothing \/ MatchPending \/ MatchReply \/ Reply

\* The steps that end a connection.
Ends == LoopEnds \/ SendFails \/ PollFails \/ ExpireRequests

\* Every step is one of these.
LEMMA ApartOrMoves ==
  ASSUME IInv, [Next]_vars
  PROVE  Apart \/ (Worker /\ Ends) \/ (Worker /\ Moves) \/ Device
<1> USE DEF Apart, IInv
<1>1. CASE Owner
  BY <1>1 DEF Owner, Start, Stop, Joined, ConnectionInv
<1>2. ASSUME NEW c \in Client, Command(c) PROVE Apart
  BY <1>2 DEF Command, CheckConnected, Push, Reject
<1>3. CASE Worker
  <2>1. CASE \/ LoopTurn \/ LoopConnects \/ DispatchNothing \/ SendGivesUp
             \/ PollIdle \/ NothingExpired
    BY <2>1 DEF LoopTurn, LoopConnects, DispatchNothing,
       SendGivesUp, PollIdle, NothingExpired, GoTo
  <2>2. CASE FailVictim
    BY <2>2 DEF FailVictim
  <2>3. CASE ClearState
    BY <2>3 DEF ClearState, TypeOK, ThreadTypes
  <2>4. CASE ConnectFails \/ ConnectSucceeds \/ SetConnected \/ RecvStopped
    BY <2>4 DEF ConnectFails, ConnectSucceeds, SetConnected, RecvStopped
  <2>5. CASE QueueStateStreaming
    BY <2>5 DEF QueueStateStreaming
  <2> QED
    BY <1>3, <2>1, <2>2, <2>3, <2>4, <2>5 DEF Worker, Ends, Moves
<1>4. CASE Time \/ LinkBreaks \/ UNCHANGED vars
  BY <1>4 DEF Time, DeadlinePasses, IntervalPasses, LinkBreaks, vars
<1> QED
  BY <1>1, <1>2, <1>3, <1>4 DEF Next

\* disconnect() leaves no frame and no request at the gripper.
LEMMA EndsFacts ==
  ASSUME Ends
  PROVE  rx' = <<>> /\ device' = {} /\ worker' = "drain"
BY DEF Ends, LoopEnds, SendFails, PollFails, ExpireRequests, Disconnect

\* A frame the gripper sends goes to the end of rx.
LEMMA DeviceFacts ==
  ASSUME IInv, Device
  PROVE  \E f \in Frame :
           /\ rx' = Append(rx, f) /\ Len(rx') = Len(rx) + 1
           /\ DOMAIN rx' = DOMAIN rx \cup {Len(rx) + 1}
           /\ Len(rx) + 1 \notin DOMAIN rx
           /\ \A n \in DOMAIN rx : rx'[n] = rx[n]
           /\ rx'[Len(rx) + 1] = f
           /\ \/ f.of \in device /\ f.id = Id(f.of) /\ device' = device \ {f.of}
              \/ /\ f.of \in device /\ f.id = Id(f.of) /\ f.status = "pending"
                 /\ device' = device
              \/ f.of = None /\ f.id \in StreamId /\ device' = device
<1> USE RequestIds DEF IInv, TypeOK, ConnectionTypes
<1>1. ASSUME NEW f \in Frame, rx' = Append(rx, f)
      PROVE  /\ Len(rx') = Len(rx) + 1
             /\ DOMAIN rx' = DOMAIN rx \cup {Len(rx) + 1}
             /\ Len(rx) + 1 \notin DOMAIN rx
             /\ \A n \in DOMAIN rx : rx'[n] = rx[n]
             /\ rx'[Len(rx) + 1] = f
  BY <1>1, AppendProperties, LenProperties
<1>2. ASSUME NEW r \in Request, NEW s \in {"success", "error"},
             DeviceAnswers(r, s)
      PROVE  \E f \in Frame :
               /\ rx' = Append(rx, f) /\ f.of \in device
               /\ f.id = Id(f.of) /\ device' = device \ {f.of}
  <2>1. [id |-> Id(r), of |-> r, status |-> s] \in Frame
    BY DEF Frame, Status
  <2> QED
    BY <1>2, <2>1 DEF DeviceAnswers, DeviceSends
<1>3. ASSUME NEW r \in Request, DeviceKeepsWorking(r)
      PROVE  \E f \in Frame :
               /\ rx' = Append(rx, f) /\ f.of \in device /\ f.id = Id(f.of)
               /\ f.status = "pending" /\ device' = device
  <2>1. [id |-> Id(r), of |-> r, status |-> "pending"] \in Frame
    BY DEF Frame, Status
  <2> QED
    BY <1>3, <2>1 DEF DeviceKeepsWorking, DeviceSends
<1>4. ASSUME NEW i \in StreamId, DeviceStreams(i)
      PROVE  \E f \in Frame :
               /\ rx' = Append(rx, f) /\ f.of = None /\ f.id \in StreamId
               /\ device' = device
  <2>1. [id |-> i, of |-> None, status |-> "success"] \in Frame
    BY DEF Frame, Status
  <2> QED
    BY <1>4, <2>1 DEF DeviceStreams, DeviceSends
<1> QED
  BY <1>1, <1>2, <1>3, <1>4 DEF Device

\* receive_available() takes the first frame of rx.
LEMMA RecvFacts ==
  ASSUME IInv, RecvFrame
  PROVE  /\ 1 \in DOMAIN rx /\ frame' = rx[1] /\ worker' = "match"
         /\ \A n \in DOMAIN rx' : n + 1 \in DOMAIN rx /\ rx'[n] = rx[n + 1]
         /\ DOMAIN rx' \subseteq Nat \ {0}
         /\ UNCHANGED <<device, in_flight_, cur, resume>> /\ worker = "recv"
<1>1. /\ rx \in Seq(Frame) /\ rx # <<>> /\ frame' = Head(rx) /\ rx' = Tail(rx)
      /\ worker' = "match"
      /\ UNCHANGED <<device, in_flight_, cur, resume>> /\ worker = "recv"
  BY DEF RecvFrame, IInv, TypeOK, ConnectionTypes
<1>2. Len(rx) \in Nat \ {0} /\ DOMAIN rx = 1..Len(rx) /\ Head(rx) = rx[1]
  BY <1>1, EmptySeq, LenProperties
<1>3. Tail(rx) = SubSeq(rx, 2, Len(rx))
  BY <1>1, TailIsSubSeq
<1>4. /\ DOMAIN rx' = 1..(Len(rx) - 1)
      /\ \A n \in 1..(Len(rx) - 1) : rx'[n] = rx[n + 1]
  BY <1>1, <1>2
<1> QED
  BY <1>1, <1>2, <1>4

\* Frames keep the id of what they are for.
LEMMA FrameNext == IInv /\ FrameInv /\ [Next]_vars => FrameInv'
<1> SUFFICES ASSUME IInv, FrameInv, [Next]_vars PROVE FrameInv'
  OBVIOUS
<1> USE RequestIds DEF FrameInv, ProperFrame
<1>1. CASE Apart
  BY <1>1 DEF Apart
<1>2. CASE Ends
  BY <1>2, EndsFacts
<1>3. CASE Drain \/ DispatchPriority \/ DispatchNormal
  BY <1>3 DEF Drain, DispatchPriority, DispatchNormal, PutInFlight
<1>4. CASE SendFrame \/ Unsent \/ MatchNothing \/ MatchPending \/ MatchReply
           \/ Reply
  BY <1>4 DEF SendFrame, Unsent, MatchNothing, MatchPending, MatchReply, Reply
<1>5. CASE RecvFrame
  BY <1>5, RecvFacts
<1>6. CASE Device
  <2>1. \A r \in Request : Id(r) = IF r \in Client THEN ClientId[r] ELSE r
    BY DEF Id, Request
  <2>2. device \subseteq Request
    BY DEF IInv, TypeOK, ConnectionTypes
  <2>3. worker' = worker /\ frame' = frame
    BY <1>6, EnvironmentWrites
  <2>4. PICK f \in Frame :
          /\ DOMAIN rx' = DOMAIN rx \cup {Len(rx) + 1}
          /\ \A n \in DOMAIN rx : rx'[n] = rx[n]
          /\ rx'[Len(rx) + 1] = f
          /\ \/ f.of \in device /\ f.id = Id(f.of)
             \/ f.of = None /\ f.id \in StreamId
    BY <1>6, DeviceFacts
  <2>5. ProperFrame(f)
    BY <2>1, <2>2, <2>4 DEF Request
  <2> QED
    BY <2>3, <2>4, <2>5
<1> QED
  BY <1>1, <1>2, <1>3, <1>4, <1>5, <1>6, ApartOrMoves DEF Moves

-----------------------------------------------------------------------------
(* A call at the gripper is in flight.                                     *)

\* A call is in flight under its own id.
LEMMA CallIds ==
  /\ \A c \in Client : Id(c) = ClientId[c] /\ ClientId[c] \in CommandId
                       /\ ClientId[c] \notin StreamId /\ c # None
  /\ \A r \in Request \ Client : Id(r) \in StreamId
BY RequestIds, RequestAssumption DEF Id, Request

\* The requests that are dispatched are new to the gripper.
LEMMA NewToGripper ==
  ASSUME IInv, FrameInv, DeviceInv, RxInv, DispatchPriority \/ DispatchNormal
  PROVE  /\ cur' \in Request /\ (cur' \in Client => cur' \notin device)
         /\ \A n \in DOMAIN rx : Final(rx[n]) => rx[n].of # cur'
         /\ \A c \in Client : in_flight_[ClientId[c]] = c => in_flight_'[ClientId[c]] = c
         /\ UNCHANGED <<rx, device, frame, resume>>
         /\ worker = "dispatch" /\ worker' = "send"
<1> USE DEF IInv
<1>1. /\ cur' \in Range(queue_) \cup Range(priority_queue_)
      /\ in_flight_' = [in_flight_ EXCEPT ![Id(cur')] = cur']
      /\ UNCHANGED resume /\ worker' = "send"
  BY DispatchFacts
<1>2. cur' \in Request /\ cur' \notin InFlight
  BY <1>1, RangeOfSeq, RequestIds DEF PlaceInv, TypeOK, RequestTypes
<1>3. in_flight_[Id(cur')] = None
  <2>1. CASE DispatchPriority
    BY <2>1 DEF DispatchPriority, PriorityCanGo, PutInFlight
  <2>2. CASE DispatchNormal
    BY <2>2, <1>2, RequestIds DEF DispatchNormal, NormalCanGo, InFlight
  <2> QED
    BY <2>1, <2>2
<1>4. in_flight_ \in [CommandId -> Request \cup {None}]
  BY DEF TypeOK, RequestTypes
<1>5. cur' \in Client => cur' \notin device
  BY <1>3, CallIds DEF DeviceInv
<1>6. ASSUME NEW n \in DOMAIN rx, Final(rx[n]) PROVE rx[n].of # cur'
  BY <1>3, <1>6, CallIds DEF RxInv, FrameInv, ProperFrame, Final
<1>7. ASSUME NEW c \in Client, in_flight_[ClientId[c]] = c
      PROVE  in_flight_'[ClientId[c]] = c
  BY <1>1, <1>3, <1>4, <1>7, CallIds
<1> QED
  BY <1>1, <1>2, <1>5, <1>6, <1>7 DEF DispatchPriority, DispatchNormal, PutInFlight

\* Every step keeps a call that the gripper works on, or has answered, in
\* flight until its answer is handled.
LEMMA AnswerNext ==
  ASSUME Client \subseteq AllowPending, IInv, GripperInv, FrameInv, AnswerInv,
         [Next]_vars
  PROVE  AnswerInv'
<1> USE DEF AnswerInv
<1>0. /\ in_flight_ \in [CommandId -> Request \cup {None}]
      /\ device \subseteq Request /\ DOMAIN rx \subseteq Nat \ {0}
  BY LenProperties DEF IInv, TypeOK, RequestTypes, ConnectionTypes
<1>1. CASE Apart
  BY <1>1 DEF Apart, DeviceInv, RxInv, MatchInv, SendInv
<1>2. CASE Ends
  BY <1>2, EndsFacts DEF DeviceInv, RxInv, MatchInv, SendInv
<1>3. CASE Drain
  <2>1. rx = <<>> /\ device = {}
    BY <1>3 DEF Drain, IInv, ConnectionInv, GripperInv
  <2> QED
    BY <1>3, <2>1 DEF Drain, DeviceInv, RxInv, MatchInv, SendInv
<1>4. CASE DispatchPriority \/ DispatchNormal
  <2>1. DeviceInv' /\ SendInv' /\ MatchInv'
    BY <1>4, NewToGripper DEF DeviceInv, SendInv, MatchInv
  <2>2. RxInv'
    BY <1>4, NewToGripper, CallIds DEF RxInv, FrameInv, ProperFrame, Final
  <2> QED
    BY <2>1, <2>2
<1>5. CASE SendFrame
  <2>1. /\ worker = "send" /\ worker' = "recv" /\ UNCHANGED <<rx, in_flight_>>
        /\ device' \in {device, device \cup {cur}} /\ UNCHANGED resume
        /\ resume = "off" /\ in_flight_[Id(cur)] = cur
    BY <1>5 DEF SendFrame, IInv, CurInv
  <2>2. DeviceInv'
    BY <2>1, CallIds DEF DeviceInv
  <2>3. RxInv'
    BY <2>1 DEF RxInv, SendInv, Final
  <2> QED
    BY <2>1, <2>2, <2>3 DEF MatchInv, SendInv
<1>6. CASE Unsent
  <2>1. /\ worker = "unsent" /\ worker' = "recv" /\ UNCHANGED <<rx, device>>
        /\ in_flight_' = [in_flight_ EXCEPT ![Id(cur)] = None]
        /\ cur \in Request /\ UNCHANGED resume /\ resume = "off"
        /\ in_flight_[Id(cur)] \in {cur, None}
    BY <1>6 DEF Unsent, IInv, CurInv
  <2>2. ASSUME NEW c \in Client, in_flight_[ClientId[c]] = c, c # cur
        PROVE  in_flight_'[ClientId[c]] = c
    BY <1>0, <2>1, <2>2, CallIds
  <2>3. DeviceInv'
    BY <2>1, <2>2 DEF DeviceInv, SendInv
  <2>4. RxInv'
    BY <2>1, <2>2 DEF RxInv, SendInv, FrameInv, ProperFrame, Final
  <2> QED
    BY <2>1, <2>3, <2>4 DEF MatchInv, SendInv
<1>7. CASE RecvFrame
  <2>1. /\ 1 \in DOMAIN rx /\ frame' = rx[1] /\ worker' = "match"
        /\ \A n \in DOMAIN rx' : n + 1 \in DOMAIN rx /\ rx'[n] = rx[n + 1]
        /\ DOMAIN rx' \subseteq Nat \ {0}
        /\ UNCHANGED <<device, in_flight_, cur, resume>> /\ worker = "recv"
    BY <1>7, RecvFacts
  <2>2. RxInv'
    <3> SUFFICES ASSUME NEW n \in DOMAIN rx', Final(rx'[n])
                 PROVE  /\ in_flight_'[rx'[n].id] = rx'[n].of
                        /\ rx'[n].of \notin device'
                        /\ \A k \in DOMAIN rx' :
                             Final(rx'[k]) /\ rx'[k].of = rx'[n].of => k = n
      BY DEF RxInv, Final
    <3>1. n + 1 \in DOMAIN rx /\ rx'[n] = rx[n + 1] /\ n \in Nat
      BY <2>1
    <3>2. ASSUME NEW k \in DOMAIN rx', Final(rx'[k]), rx'[k].of = rx'[n].of
          PROVE  k = n
      <4>1. k + 1 \in DOMAIN rx /\ rx'[k] = rx[k + 1] /\ k \in Nat
        BY <2>1
      <4>2. k + 1 = n + 1
        BY <3>1, <3>2, <4>1 DEF RxInv
      <4> QED
        BY <3>1, <4>1, <4>2
    <3> QED
      BY <2>1, <3>1, <3>2 DEF RxInv
  <2>3. MatchInv'
    <3>1. ASSUME NEW n \in DOMAIN rx', Final(rx'[n]), Final(rx[1])
          PROVE  rx'[n].of # rx[1].of
      <4>1. n + 1 \in DOMAIN rx /\ rx'[n] = rx[n + 1] /\ n + 1 # 1
        BY <2>1
      <4> QED
        BY <2>1, <3>1, <4>1 DEF RxInv
    <3> QED
      BY <2>1, <3>1 DEF RxInv, MatchInv, Final
  <2> QED
    BY <2>1, <2>2, <2>3 DEF DeviceInv, SendInv, IInv, CurInv
<1>8. CASE MatchNothing \/ MatchPending
  BY <1>8 DEF MatchNothing, MatchPending, DeviceInv, RxInv, MatchInv, SendInv
<1>9. CASE MatchReply
  <2>1. /\ worker = "match" /\ worker' = "reply"
        /\ UNCHANGED <<rx, device, frame, resume>> /\ resume = "off"
        /\ cur' = in_flight_[frame.id] /\ cur' # None
        /\ in_flight_' = [in_flight_ EXCEPT ![frame.id] = None]
        /\ ~OnlyPending(in_flight_[frame.id]) /\ frame.id \in CommandId
    BY <1>9 DEF MatchReply, IInv, CurInv, TypeOK, ThreadTypes, Frame
  <2>2. Id(cur') = frame.id
    BY <2>1 DEF IInv, PlaceInv
  <2>3. cur' \in Client => Final(frame) /\ frame.of = cur'
    BY <2>1, <2>2, CallIds DEF FrameInv, ProperFrame, Final, OnlyPending, MatchInv
  <2>4. cur' \in Request
    BY <1>0, <2>1
  <2>5. ASSUME NEW c \in Client, in_flight_[ClientId[c]] = c, c # cur'
        PROVE  in_flight_'[ClientId[c]] = c
    BY <1>0, <2>1, <2>5, CallIds
  <2>6. DeviceInv'
    BY <2>1, <2>3, <2>5 DEF DeviceInv, MatchInv
  <2>7. RxInv'
    BY <2>1, <2>3, <2>5, CallIds DEF RxInv, MatchInv, FrameInv, ProperFrame, Final
  <2> QED
    BY <2>1, <2>3, <2>6, <2>7 DEF MatchInv, SendInv
<1>10. CASE Reply
  BY <1>10 DEF Reply, DeviceInv, RxInv, MatchInv, SendInv, IInv, CurInv
<1>11. CASE Device
  <2>1. UNCHANGED <<in_flight_, worker, resume, cur, frame>>
    BY <1>11, EnvironmentWrites
  <2>2. PICK f \in Frame :
          /\ DOMAIN rx' = DOMAIN rx \cup {Len(rx) + 1}
          /\ Len(rx) + 1 \notin DOMAIN rx
          /\ \A n \in DOMAIN rx : rx'[n] = rx[n]
          /\ rx'[Len(rx) + 1] = f
          /\ \/ f.of \in device /\ f.id = Id(f.of) /\ device' = device \ {f.of}
             \/ ~Final(f) /\ device' = device
    BY <1>11, DeviceFacts, CallIds DEF Final
  <2>3. CASE ~Final(f) /\ device' \subseteq device
    BY <2>1, <2>2, <2>3 DEF DeviceInv, RxInv, MatchInv, SendInv, Final
  <2>4. CASE /\ Final(f) /\ f.of \in device /\ f.id = Id(f.of)
             /\ device' = device \ {f.of}
    <3>1. f.of \in Client /\ in_flight_[f.id] = f.of
      BY <2>4, CallIds DEF Final, DeviceInv
    <3>2. \A n \in DOMAIN rx : Final(rx[n]) => rx[n].of # f.of
      BY <2>4 DEF RxInv
    <3>3. RxInv'
      BY <2>1, <2>2, <2>4, <3>1, <3>2 DEF RxInv, Final
    <3>4. DeviceInv' /\ MatchInv' /\ SendInv'
      BY <2>1, <2>2, <2>4, <3>1 DEF DeviceInv, MatchInv, SendInv, Final
    <3> QED
      BY <3>3, <3>4
  <2> QED
    BY <2>2, <2>3, <2>4
<1> QED
  BY <1>1, <1>2, <1>3, <1>4, <1>5, <1>6, <1>7, <1>8, <1>9, <1>10, <1>11,
     ApartOrMoves DEF Moves

-----------------------------------------------------------------------------
(* The invariant and what follows from it.                                 *)

\* Nothing is under way at first.
LEMMA OrderInit == Init => OrderInv
<1> SUFFICES ASSUME Init PROVE OrderInv
  OBVIOUS
<1> USE DEF Init
<1>1. GripperInv /\ FrameInv
  BY DEF GripperInv, FrameInv
<1>2. NormalInv
  BY DEF NormalInv, InFlight, NoneInFlight
<1>3. AnswerInv
  BY DEF AnswerInv, DeviceInv, RxInv, MatchInv, SendInv
<1> QED
  BY <1>1, <1>2, <1>3 DEF OrderInv

\* The order of the calls is kept in every behaviour, whatever the frames,
\* the deadlines and the other threads do.
THEOREM OrderIsKept == Spec => []OrderInv
<1>1. IInv /\ OrderInv /\ [Next]_vars => OrderInv'
  BY GripperNext, FrameNext, NormalNext, AnswerNext DEF OrderInv
<1> QED
  BY <1>1, OrderInit, Invariant, PTL DEF Spec

\* A reply that is matched by its id is the answer to the call it ends.
THEOREM RepliesAreAnswers == Spec => []ReplyAnswersRequest
<1>1. OrderInv => ReplyAnswersRequest
  BY DEF OrderInv, AnswerInv, MatchInv, ReplyAnswersRequest
<1> QED
  BY <1>1, OrderIsKept, PTL

\* Two motions are never at the gripper at once.
THEOREM NormalCallsTakeTurns == Spec => []OneNormalAtDevice
<1>1. IInv /\ OrderInv => OneNormalAtDevice
  <2> SUFFICES ASSUME IInv, DeviceInv, NormalInv,
                      NEW c \in device \cap (Client \ Priority),
                      NEW d \in device \cap (Client \ Priority)
               PROVE  c = d
    BY DEF OrderInv, AnswerInv, OneNormalAtDevice
  <2>1. c \in InFlight /\ d \in InFlight
    BY CallIds DEF DeviceInv, InFlight
  <2> QED
    BY <2>1 DEF NormalInv
<1> QED
  BY <1>1, OrderIsKept, Invariant, PTL

=============================================================================
