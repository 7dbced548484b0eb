------------------------- MODULE TransportQueueProofs -------------------------
(***************************************************************************)
(* Transport implements CommandQueue and TransportView, for any calls, ids *)
(* and streams: the proofs that MotionGoals may be built on the one and    *)
(* ConnectionInit on the other.                                            *)
(***************************************************************************)
EXTENDS TransportProofs

USE DEF callers, requests, connection, locals

\* Priority requests are told apart by their id only; the driver has one
\* (main.cpp sends nothing but STOP with priority).
OnePriorityId == \A c, d \in Priority : ClientId[c] = ClientId[d]

\* fail_all has taken its requests out before it fails them.
VictimInv == \A r \in victims : promise[r] = "unset"

QueueUp == connected_ \/ worker = "drain"

Flying == Client \cap (InFlight \cup IF worker = "reply" THEN {cur} ELSE {})

QueueStatus ==
  [c \in Client |-> IF pc[c] # "waiting" THEN "idle"
                    ELSE IF promise[c] = "unset" THEN "pending"
                    ELSE promise[c]]

-----------------------------------------------------------------------------
(* The calls of a queue.                                                   *)

\* What has no element is the empty sequence.
LEMMA NoElement ==
  ASSUME NEW S, NEW q \in Seq(S), Range(q) = {} PROVE q = <<>>
<1>1. Len(q) \in Nat /\ DOMAIN q = 1..Len(q)
  BY LenProperties
<1>2. Len(q) # 0 => q[1] \in Range(q)
  BY <1>1 DEF Range
<1>3. Len(q) = 0
  BY <1>2
<1> QED
  BY <1>3, EmptySeq

\* An empty queue has none.
LEMMA OwnCallsOfNone == OwnCalls(<<>>) = <<>>
<1>1. <<>> \in Seq(Request)
  BY EmptySeq
<1>2. /\ OwnCalls(<<>>) \in Seq(Client)
      /\ Range(OwnCalls(<<>>)) = Range(<<>>) \cap Client
  BY <1>1, SelectInFacts DEF OwnCalls
<1>3. Range(OwnCalls(<<>>)) = {}
  BY <1>2 DEF Range
<1> HIDE DEF OwnCalls
<1> QED
  BY <1>2, <1>3, NoElement

\* A queue of streaming requests has none either.
LEMMA OwnCallsOfStream ==
  ASSUME NEW q \in Seq(Request), Range(q) \cap Client = {}
  PROVE  OwnCalls(q) = <<>>
<1>1. OwnCalls(q) \in Seq(Client) /\ Range(OwnCalls(q)) = {}
  BY SelectInFacts DEF OwnCalls
<1> HIDE DEF OwnCalls
<1> QED
  BY <1>1, NoElement

\* A queue of one call has this call.
LEMMA OwnCallsOfOne ==
  ASSUME NEW c \in Client PROVE OwnCalls(<<c>>) = <<c>>
<1>1. <<c>> \in Seq(Request) /\ Len(<<c>>) = 1 /\ <<c>>[1] = c
  BY RequestIds
<1>2. Selects(SelectedUpTo(<<c>>, Client), <<c>>, Client)
  BY <1>1, SelectedUpToFacts
<1> DEFINE own == SelectedUpTo(<<c>>, Client)
<1>3. own[0] = <<>> /\ own[1] = Append(own[0], c)
  BY <1>1, <1>2 DEF Selects
<1> QED
  BY <1>1, <1>3 DEF OwnCalls, SelectIn

\* Two queues in a row have the calls of both.
LEMMA OwnCallsOfBoth ==
  ASSUME NEW p \in Seq(Request), NEW q \in Seq(Request)
  PROVE  OwnCalls(p \o q) = OwnCalls(p) \o OwnCalls(q)
BY SelectInConcat DEF OwnCalls

\* A call that is queued comes last.
LEMMA OwnCallsOfAppend ==
  ASSUME NEW q \in Seq(Request), NEW c \in Client
  PROVE  OwnCalls(Append(q, c)) = Append(OwnCalls(q), c)
<1>1. <<c>> \in Seq(Request) /\ Append(q, c) = q \o <<c>>
  BY RequestIds, AppendIsConcat
<1>2. OwnCalls(q \o <<c>>) = OwnCalls(q) \o <<c>>
  BY <1>1, OwnCallsOfBoth, OwnCallsOfOne
<1>3. OwnCalls(q) \in Seq(Client)
  BY SelectInFacts DEF OwnCalls
<1>4. Append(OwnCalls(q), c) = OwnCalls(q) \o <<c>>
  <2> HIDE DEF OwnCalls
  <2> QED
    BY <1>3, AppendIsConcat
<1> QED
  BY <1>1, <1>2, <1>4

\* The streaming requests are no calls.
LEMMA OwnCallsOfStreamed ==
  ASSUME NEW q \in Seq(Request)
  PROVE  OwnCalls(q \o StreamSeq) = OwnCalls(q)
<1>1. StreamSeq \in Seq(Request)
  BY RequestIds, SeqMonotonic
<1>2. OwnCalls(StreamSeq) = <<>>
  BY <1>1, RequestIds, OwnCallsOfStream DEF StreamId
<1>3. OwnCalls(q) \in Seq(Client)
  BY SelectInFacts DEF OwnCalls
<1>4. OwnCalls(q) \o <<>> = OwnCalls(q)
  <2> HIDE DEF OwnCalls
  <2> QED
    BY <1>3, ConcatEmptySeq
<1> QED
  BY <1>1, <1>2, <1>4, OwnCallsOfBoth

\* What leaves the queue is the first call, or no call.
LEMMA OwnCallsOfTail ==
  ASSUME NEW q \in Seq(Request), q # <<>>
  PROVE  /\ Head(q) \in Client =>
              /\ OwnCalls(q) # <<>> /\ Head(OwnCalls(q)) = Head(q)
              /\ OwnCalls(Tail(q)) = Tail(OwnCalls(q))
         /\ Head(q) \notin Client => OwnCalls(Tail(q)) = OwnCalls(q)
<1>1. /\ Head(q) \in Request /\ Tail(q) \in Seq(Request)
      /\ q = <<Head(q)>> \o Tail(q) /\ <<Head(q)>> \in Seq(Request)
  <2>1. Head(q) \in Request /\ Tail(q) \in Seq(Request)
    BY HeadTailProperties
  <2> QED
    BY <2>1, HeadTailProperties
<1>2. OwnCalls(q) = OwnCalls(<<Head(q)>>) \o OwnCalls(Tail(q))
  BY <1>1, OwnCallsOfBoth
<1>3. OwnCalls(Tail(q)) \in Seq(Client)
  BY <1>1, SelectInFacts DEF OwnCalls
<1> HIDE DEF OwnCalls
<1>4. CASE Head(q) \in Client
  <2>1. OwnCalls(q) = <<Head(q)>> \o OwnCalls(Tail(q))
    BY <1>2, <1>4, OwnCallsOfOne
  <2>2. ASSUME NEW h \in Client, NEW t \in Seq(Client)
        PROVE  <<h>> \o t # <<>> /\ Head(<<h>> \o t) = h /\ Tail(<<h>> \o t) = t
    OBVIOUS
  <2> QED
    BY <1>3, <1>4, <2>1, <2>2
<1>5. CASE Head(q) \notin Client
  <2>1. OwnCalls(<<Head(q)>>) = <<>>
    <3>1. Range(<<Head(q)>>) = {Head(q)}
      BY DEF Range
    <3> QED
      BY <1>1, <1>5, <3>1, OwnCallsOfStream
  <2>2. <<>> \o OwnCalls(Tail(q)) = OwnCalls(Tail(q))
    BY <1>3, ConcatEmptySeq
  <2> QED
    BY <1>2, <1>5, <2>1, <2>2
<1> QED
  BY <1>4, <1>5

-----------------------------------------------------------------------------
(* The steps.                                                              *)

\* A step of the queue, or none.
QueueStep == [Queue!Next]_(Queue!qvars)

\* What changes nothing of the queue.
LEMMA NoQueueStep ==
  ASSUME QueueUp' = QueueUp, OwnCalls(queue_)' = OwnCalls(queue_),
         priority_queue_' = priority_queue_, Flying' = Flying,
         (victims \cap Client)' = victims \cap Client,
         QueueStatus' = QueueStatus
  PROVE  QueueStep
<1>1. (Queue!qvars)' = Queue!qvars
  BY Zenon DEF Queue!qvars, QueueUp, Flying, QueueStatus
<1> QED
  BY <1>1 DEF QueueStep

\* A call that is in no promise's way leaves what its caller knows.
LEMMA SameStatus ==
  ASSUME pc' = pc, \A c \in Client : promise'[c] = promise[c]
  PROVE  QueueStatus' = QueueStatus
BY DEF QueueStatus

\* Setting the promise of a call that waits is all its caller sees.
LEMMA OneStatus ==
  ASSUME TypeOK, NEW r \in Client, pc' = pc, pc[r] = "waiting",
         NEW v \in {"answered", "failed"},
         promise' = [promise EXCEPT ![r] = v]
  PROVE  QueueStatus' = [QueueStatus EXCEPT ![r] = v]
BY RequestIds DEF QueueStatus, TypeOK, RequestTypes, ThreadTypes

\* No call is at the gripper any longer than its request is in flight.
LEMMA SameFlying ==
  ASSUME in_flight_' = in_flight_, worker # "reply", worker' # "reply"
  PROVE  Flying' = Flying
BY DEF Flying, InFlight

\* A step that touches no request opens the queue, if anything.
LEMMA QuietQueue ==
  ASSUME IInv, [Next]_vars, Quiet
  PROVE  QueueStep
<1> USE DEF IInv, Quiet
<1>1. /\ OwnCalls(queue_)' = OwnCalls(queue_) /\ priority_queue_' = priority_queue_
      /\ victims' = victims
  OBVIOUS
<1>2. QueueStatus' = QueueStatus
  BY SameStatus
<1>3. Flying' = Flying
  BY DEF Flying, InFlight
<1>4. QueueUp => QueueUp'
  BY DEF QueueUp
<1>5. CASE QueueUp
  BY <1>1, <1>2, <1>3, <1>4, <1>5, NoQueueStep DEF QueueUp
<1>6. CASE ~QueueUp'
  BY <1>1, <1>2, <1>3, <1>4, <1>6, NoQueueStep DEF QueueUp
<1>7. CASE ~QueueUp /\ QueueUp'
  <2>1. Queue!Open
    BY <1>1, <1>2, <1>3, <1>7 DEF Queue!Open, QueueUp, Flying, QueueStatus
  <2> QED
    BY <2>1 DEF Queue!Next, QueueStep
<1> QED
  BY <1>5, <1>6, <1>7

\* command() places its call when it lets go of the mutex.
LEMMA CommandQueues ==
  ASSUME IInv, NEW c \in Client, Command(c)
  PROVE  QueueStep
<1> USE RequestIds DEF IInv
<1>1. /\ UNCHANGED <<in_flight_, victims, connected_, worker, cur>>
      /\ Flying' = Flying
  BY CommandWrites DEF Flying, InFlight
<1>2. pc \in [Client -> {"idle", "push", "reject", "waiting"}]
  BY DEF TypeOK, ThreadTypes
<1>3. CASE CheckConnected(c)
  <2>1. QueueStatus' = QueueStatus
    BY <1>2, <1>3 DEF CheckConnected, QueueStatus
  <2>2. UNCHANGED <<queue_, priority_queue_>>
    BY <1>3 DEF CheckConnected
  <2> QED
    BY <1>1, <2>1, <2>2, NoQueueStep DEF QueueUp
<1>4. CASE Push(c)
  <2>1. /\ pc[c] = "push" /\ pc' = [pc EXCEPT ![c] = "waiting"]
        /\ promise' = promise
    BY <1>4 DEF Push
  <2>2. promise[c] = "unset" /\ QueueUp
    BY <2>1 DEF UnsetInv, DownInv, QueueUp
  <2>3. /\ QueueStatus[c] = "idle"
        /\ QueueStatus' = [QueueStatus EXCEPT ![c] = "pending"]
    BY <1>2, <2>1, <2>2 DEF QueueStatus
  <2>4. IF c \in Priority
          THEN /\ priority_queue_' = Append(priority_queue_, c)
               /\ OwnCalls(queue_)' = OwnCalls(queue_)
          ELSE /\ OwnCalls(queue_)' = Append(OwnCalls(queue_), c)
               /\ priority_queue_' = priority_queue_
    <3>1. queue_ \in Seq(Request)
      BY SeqMonotonic DEF TypeOK, RequestTypes
    <3>2. OwnCalls(Append(queue_, c)) = Append(OwnCalls(queue_), c)
      BY <3>1, OwnCallsOfAppend
    <3> QED
      BY <1>4, <3>2 DEF Push
  <2>5. Queue!Enqueue(c)
    BY <1>1, <2>2, <2>3, <2>4 DEF Queue!Enqueue, QueueUp, Flying, QueueStatus
  <2> QED
    BY <2>5 DEF Queue!Next, QueueStep
<1>5. CASE Reject(c)
  <2>1. /\ pc[c] = "reject" /\ pc' = [pc EXCEPT ![c] = "waiting"]
        /\ promise[c] = "unset"
    BY <1>5 DEF Reject, UnsetInv
  <2>2. promise' = [promise EXCEPT ![c] = "failed"]
    BY <1>5, <2>1 DEF Reject, FailRequest
  <2>3. /\ QueueStatus[c] = "idle"
        /\ QueueStatus' = [QueueStatus EXCEPT ![c] = "failed"]
    BY <1>2, <2>1, <2>2 DEF QueueStatus, TypeOK, RequestTypes
  <2>4. UNCHANGED <<queue_, priority_queue_>>
    BY <1>5 DEF Reject
  <2>5. Queue!Reject(c)
    BY <1>1, <2>3, <2>4 DEF Queue!Reject, QueueUp, Flying, QueueStatus
  <2> QED
    BY <2>5 DEF Queue!Next, QueueStep
<1> QED
  BY <1>3, <1>4, <1>5 DEF Command

\* The worker has at most one priority call out, for they share an id.
LEMMA OnePriorityFlies ==
  ASSUME IInv, OnePriorityId, NEW p \in Priority, in_flight_[Id(p)] = None
  PROVE  InFlight \cap Priority = {}
<1> SUFFICES ASSUME NEW r \in InFlight \cap Priority PROVE FALSE
  OBVIOUS
<1> USE RequestIds DEF IInv, PlaceInv
<1>1. PICK i \in CommandId : in_flight_[i] = r
  BY DEF InFlight
<1>2. in_flight_[i] # None
  BY <1>1
<1>3. Id(r) = i
  BY <1>1, <1>2
<1>4. Id(r) = Id(p)
  BY DEF OnePriorityId, Id
<1> QED
  BY <1>1, <1>2, <1>3, <1>4

\* The head of the priority queue is sent unless one is out.
LEMMA PriorityIsSent ==
  ASSUME IInv, OnePriorityId, Worker, DispatchPriority
  PROVE  QueueStep
<1> USE RequestIds DEF IInv
<1>1. /\ worker = "dispatch" /\ worker' = "send"
      /\ priority_queue_ # <<>> /\ priority_queue_' = Tail(priority_queue_)
      /\ cur' = Head(priority_queue_)
      /\ in_flight_[Id(Head(priority_queue_))] = None
      /\ UNCHANGED <<queue_, promise, victims, connected_, pc>>
  BY WorkerWrites DEF DispatchPriority, PriorityCanGo, PutInFlight
<1>2. Head(priority_queue_) \in Priority
  BY <1>1 DEF TypeOK, RequestTypes
<1>3. InFlight' = InFlight \cup {Head(priority_queue_)}
  BY <1>1, DispatchFacts
<1>4. InFlight \cap Priority = {}
  BY <1>1, <1>2, OnePriorityFlies
<1>5. /\ Flying = Client \cap InFlight /\ Flying \cap Priority = {}
      /\ Flying' = Flying \cup {Head(priority_queue_)}
  BY <1>1, <1>2, <1>3, <1>4 DEF Flying
<1>6. QueueStatus' = QueueStatus
  BY <1>1, SameStatus
<1>7. QueueUp' = QueueUp
  BY <1>1 DEF QueueUp, ConnectionInv
<1>8. Queue!Send
  BY <1>1, <1>5, <1>6, <1>7 DEF Queue!Send, QueueUp, Flying, QueueStatus
<1> QED
  BY <1>8 DEF Queue!Next, QueueStep

\* The head of the other queue is sent when nothing is out.
LEMMA NormalIsSent ==
  ASSUME IInv, Worker, DispatchNormal
  PROVE  QueueStep
<1> USE RequestIds DEF IInv
<1>1. /\ worker = "dispatch" /\ worker' = "send"
      /\ queue_ # <<>> /\ queue_' = Tail(queue_) /\ cur' = Head(queue_)
      /\ priority_queue_ = <<>> /\ InFlight = {}
      /\ UNCHANGED <<priority_queue_, promise, victims, connected_, pc>>
  BY WorkerWrites DEF DispatchNormal, NormalCanGo, PutInFlight
<1>2. queue_ \in Seq(Request)
  BY SeqMonotonic DEF TypeOK, RequestTypes
<1>3. InFlight' = {Head(queue_)}
  BY <1>1, DispatchFacts
<1>4. Flying = {} /\ Flying' = Client \cap {Head(queue_)}
  BY <1>1, <1>3 DEF Flying
<1>5. QueueStatus' = QueueStatus
  BY <1>1, SameStatus
<1>6. QueueUp' = QueueUp
  BY <1>1 DEF QueueUp, ConnectionInv
<1>7. CASE Head(queue_) \in Client
  <2>1. /\ OwnCalls(queue_) # <<>> /\ Head(OwnCalls(queue_)) = Head(queue_)
        /\ OwnCalls(queue_)' = Tail(OwnCalls(queue_))
    BY <1>1, <1>2, <1>7, OwnCallsOfTail
  <2>2. Flying' = {Head(OwnCalls(queue_))}
    BY <1>4, <1>7, <2>1
  <2>3. Queue!Send
    BY <1>1, <1>4, <1>5, <1>6, <2>1, <2>2
    DEF Queue!Send, QueueUp, Flying, QueueStatus
  <2> QED
    BY <2>3 DEF Queue!Next, QueueStep
<1>8. CASE Head(queue_) \notin Client
  <2>1. OwnCalls(queue_)' = OwnCalls(queue_)
    BY <1>1, <1>2, <1>8, OwnCallsOfTail
  <2> QED
    BY <1>1, <1>4, <1>5, <1>6, <1>8, <2>1, NoQueueStep
<1> QED
  BY <1>7, <1>8

\* Drain takes every call off the queues and out of in_flight_.
LEMMA DrainDrops ==
  ASSUME IInv, Worker, Drain
  PROVE  QueueStep
<1> USE RequestIds DEF IInv
<1>1. /\ worker = "drain" /\ worker' = "fail" /\ ~connected_
      /\ queue_' = <<>> /\ priority_queue_' = <<>>
      /\ in_flight_' = NoneInFlight
      /\ victims = {} /\ victims' = Waiting
      /\ UNCHANGED <<promise, connected_, pc>>
  BY WorkerWrites DEF Drain, Drained, Waiting, ConnectionInv
<1>2. /\ Range(OwnCalls(queue_)) = Range(queue_) \cap Client
      /\ Range(priority_queue_) \subseteq Client
  <2>1. queue_ \in Seq(Request)
    BY SeqMonotonic DEF TypeOK, RequestTypes
  <2> QED
    BY <2>1, SelectInFacts, RangeOfSeq DEF OwnCalls, TypeOK, RequestTypes
<1>3. OwnCalls(queue_)' = <<>>
  BY <1>1, OwnCallsOfNone
<1>4. Flying = Client \cap InFlight /\ Flying' = {}
  BY <1>1 DEF Flying, InFlight, NoneInFlight
<1>5. (victims \cap Client)' = (victims \cap Client)
         \cup Range(OwnCalls(queue_)) \cup Range(priority_queue_) \cup Flying
  BY <1>1, <1>2, <1>4 DEF Waiting
<1>6. QueueStatus' = QueueStatus
  BY <1>1, SameStatus
<1>7. QueueUp' = FALSE
  BY <1>1 DEF QueueUp
<1>8. Queue!Drop
  <2>1. \A q : Queue!Range(q) = Range(q)
    BY DEF Queue!Range, Range
  <2> QED
    BY <1>1, <1>3, <1>4, <1>5, <1>6, <1>7, <2>1
    DEF Queue!Drop, QueueUp, Flying, QueueStatus
<1> QED
  BY <1>8 DEF Queue!Next, QueueStep

\* A call that fail_all took off is failed once.
LEMMA VictimFails ==
  ASSUME IInv, VictimInv, Worker, FailVictim
  PROVE  QueueStep
<1> USE RequestIds DEF IInv
<1>1. PICK r \in victims : FailRequest(r) /\ victims' = victims \ {r}
  BY DEF FailVictim
<1>2. /\ worker = "fail" /\ worker' = "fail"
      /\ UNCHANGED <<queue_, priority_queue_, in_flight_, connected_, pc, cur>>
  BY WorkerWrites DEF FailVictim
<1>3. promise' = [promise EXCEPT ![r] = "failed"] /\ r \in Request
  BY <1>1 DEF FailRequest, VictimInv, TypeOK, RequestTypes
<1>4. Flying' = Flying /\ QueueUp' = QueueUp
  BY <1>2, SameFlying DEF QueueUp
<1>5. OwnCalls(queue_)' = OwnCalls(queue_)
  BY <1>2
<1>6. CASE r \in Client
  <2>1. pc[r] = "waiting"
    BY <1>1, <1>6 DEF PlaceInv
  <2>2. QueueStatus' = [QueueStatus EXCEPT ![r] = "failed"]
    BY <1>2, <1>3, <1>6, <2>1, OneStatus
  <2>3. /\ r \in victims \cap Client
        /\ (victims \cap Client)' = (victims \cap Client) \ {r}
    BY <1>1, <1>6
  <2>4. Queue!FailDropped(r)
    BY <1>2, <1>4, <1>5, <2>2, <2>3
    DEF Queue!FailDropped, QueueUp, Flying, QueueStatus
  <2> QED
    BY <1>6, <2>4 DEF Queue!Next, QueueStep
<1>7. CASE r \notin Client
  <2>1. (victims \cap Client)' = victims \cap Client
    BY <1>1, <1>7
  <2>2. \A c \in Client : promise'[c] = promise[c]
    BY <1>3, <1>7
  <2>3. QueueStatus' = QueueStatus
    BY <1>2, <2>2, SameStatus
  <2> QED
    BY <1>2, <1>4, <1>5, <2>1, <2>3, NoQueueStep
<1> QED
  BY <1>6, <1>7

\* A call that flies and whose promise is set comes back.
LEMMA CallReturns ==
  ASSUME TypeOK, NEW c \in Flying, NEW a \in {"answered", "failed"},
         pc[c] = "waiting", Flying' = Flying \ {c}, pc' = pc,
         promise' = [promise EXCEPT ![c] = a], QueueUp' = QueueUp,
         UNCHANGED <<queue_, priority_queue_, victims>>
  PROVE  QueueStep
<1>1. c \in Client
  BY DEF Flying
<1>2. QueueStatus' = [QueueStatus EXCEPT ![c] = a]
  BY <1>1, OneStatus
<1>3. Queue!Return(c, a)
  BY <1>2 DEF Queue!Return, QueueUp, Flying, QueueStatus
<1> QED
  BY <1>1, <1>3 DEF Queue!Next, QueueStep

\* A call that could not be sent comes back as failed, once.
LEMMA UnsentReturns ==
  ASSUME IInv, Worker, Unsent
  PROVE  QueueStep
<1> USE RequestIds DEF IInv
<1>1. /\ cur \in Request /\ InFlight' = InFlight \ {cur}
      /\ promise' = [promise EXCEPT ![cur] =
                       IF @ = "unset" THEN "failed" ELSE @]
      /\ worker = "unsent" /\ worker' = "recv"
      /\ UNCHANGED <<queue_, priority_queue_, victims, connected_, pc>>
      /\ victims = {}
  BY UnsentFacts, WorkerWrites DEF Unsent, ConnectionInv
<1>2. Flying = Client \cap InFlight /\ Flying' = Flying \ {cur}
  BY <1>1 DEF Flying
<1>3. QueueUp' = QueueUp
  BY <1>1 DEF QueueUp
<1>4. CASE cur \in Flying
  <2>1. cur \in Client /\ promise[cur] = "unset" /\ pc[cur] = "waiting"
    BY <1>2, <1>4 DEF UnsetInv, Waiting, PlaceInv
  <2>2. promise' = [promise EXCEPT ![cur] = "failed"]
    BY <1>1, <2>1
  <2> QED
    BY <1>1, <1>2, <1>3, <1>4, <2>1, <2>2, CallReturns
<1>5. CASE cur \notin Flying
  <2>1. cur \in Client => promise[cur] # "unset"
    <3>1. cur \in Client => pc[cur] = "waiting"
      BY DEF PlaceInv
    <3>2. cur \notin Range(queue_) \cup Range(priority_queue_)
      BY <1>1 DEF CurInv
    <3> QED
      BY <1>1, <1>2, <1>5, <3>1, <3>2 DEF NoStrandedRequest, Held
  <2>2. \A c \in Client : promise'[c] = promise[c]
    BY <1>1, <2>1 DEF TypeOK, RequestTypes
  <2>3. QueueStatus' = QueueStatus
    BY <1>1, <2>2, SameStatus
  <2> QED
    BY <1>1, <1>2, <1>3, <1>5, <2>3, NoQueueStep
<1> QED
  BY <1>4, <1>5

\* A call that is answered comes back with the answer.
LEMMA ReplyReturns ==
  ASSUME IInv, Worker, Reply
  PROVE  QueueStep
<1> USE RequestIds DEF IInv
<1>1. /\ worker = "reply" /\ worker' = "recv"
      /\ promise' = [promise EXCEPT ![cur] = "answered"]
      /\ UNCHANGED <<queue_, priority_queue_, victims, in_flight_, connected_, pc>>
      /\ cur \in Request /\ cur \notin InFlight
  BY WorkerWrites DEF Reply, CurInv, Waiting
<1>2. InFlight' = InFlight
  BY <1>1 DEF InFlight
<1>3. Flying = Client \cap (InFlight \cup {cur}) /\ Flying' = Flying \ {cur}
  BY <1>1, <1>2 DEF Flying
<1>4. QueueUp' = QueueUp
  BY <1>1 DEF QueueUp
<1>5. CASE cur \in Client
  <2>1. pc[cur] = "waiting" /\ cur \in Flying
    BY <1>3, <1>5 DEF PlaceInv
  <2> QED
    BY <1>1, <1>3, <1>4, <2>1, CallReturns
<1>6. CASE cur \notin Client
  <2>1. \A c \in Client : promise'[c] = promise[c]
    BY <1>1, <1>6
  <2>2. QueueStatus' = QueueStatus /\ Flying' = Flying
    BY <1>1, <1>3, <1>6, <2>1, SameStatus
  <2> QED
    BY <1>1, <1>4, <2>2, NoQueueStep
<1> QED
  BY <1>5, <1>6

\* Every step is a step of the queue or none.
LEMMA QueueNext ==
  OnePriorityId /\ IInv /\ VictimInv /\ [Next]_vars => [Queue!Next]_(Queue!qvars)
<1> SUFFICES ASSUME OnePriorityId, IInv, VictimInv, [Next]_vars PROVE QueueStep
  BY DEF QueueStep
<1>1. CASE Quiet
  BY <1>1, QuietQueue
<1>2. ASSUME NEW c \in Client, Command(c) PROVE QueueStep
  BY <1>2, CommandQueues
<1>3. CASE Worker /\ Busy
  <2>1. CASE QueueStateStreaming
    <3>1. /\ queue_' = queue_ \o StreamSeq /\ queue_ \in Seq(Request)
          /\ UNCHANGED <<in_flight_, connected_, pc, worker = "drain">>
          /\ worker # "reply" /\ worker' # "reply"
      BY <1>3, <2>1, WorkerWrites, RequestIds, SeqMonotonic
      DEF QueueStateStreaming, IInv, TypeOK, RequestTypes
    <3>2. OwnCalls(queue_)' = OwnCalls(queue_)
      BY <3>1, OwnCallsOfStreamed
    <3>3. \A c \in Client : promise'[c] = promise[c]
      BY <2>1, RequestIds DEF QueueStateStreaming
    <3>4. QueueStatus' = QueueStatus /\ Flying' = Flying
      BY <3>1, <3>3, SameStatus, SameFlying
    <3> QED
      BY <2>1, <3>1, <3>2, <3>4, StreamFacts, NoQueueStep DEF QueueUp
  <2>2. CASE MatchReply
    <3>1. Flying' = Flying
      BY <2>2, MatchFacts DEF Flying
    <3>2. QueueStatus' = QueueStatus /\ QueueUp' = QueueUp
      BY <1>3, <2>2, WorkerWrites, SameStatus DEF MatchReply, QueueUp
    <3> QED
      BY <2>2, <3>1, <3>2, MatchFacts, NoQueueStep
  <2> QED
    BY <1>3, <2>1, <2>2, DrainDrops, VictimFails, PriorityIsSent, NormalIsSent,
       UnsentReturns, ReplyReturns DEF Busy
<1> QED
  BY <1>1, <1>2, <1>3, QuietOrBusy DEF IInv

\* What fail_all takes has not been answered, and nobody answers it then.
LEMMA VictimNext == IInv /\ VictimInv /\ [Next]_vars => VictimInv'
<1> SUFFICES ASSUME IInv, VictimInv, [Next]_vars PROVE VictimInv'
  OBVIOUS
<1> USE RequestIds DEF IInv, VictimInv
<1>1. CASE Quiet
  BY <1>1 DEF Quiet
<1>2. ASSUME NEW c \in Client, Command(c) PROVE VictimInv'
  <2>1. victims' = victims /\ \A r \in victims : promise'[r] = promise[r]
    <3>1. CASE CheckConnected(c) \/ Push(c)
      BY <3>1 DEF CheckConnected, Push
    <3>2. CASE Reject(c)
      BY <3>2 DEF Reject, FailRequest, PlaceInv, TypeOK, RequestTypes
    <3> QED
      BY <1>2, <3>1, <3>2 DEF Command
  <2> QED
    BY <2>1
<1>3. CASE Worker /\ Busy
  <2>1. CASE Drain
    BY <2>1 DEF Drain, Drained, UnsetInv, Waiting
  <2>2. CASE FailVictim
    <3>1. PICK r \in victims : FailRequest(r) /\ victims' = victims \ {r}
      BY <2>2 DEF FailVictim
    <3> QED
      BY <3>1 DEF FailRequest
  <2>3. CASE \/ QueueStateStreaming \/ DispatchPriority \/ DispatchNormal
             \/ Unsent \/ MatchReply \/ Reply
    <3>1. victims = {} /\ victims' = victims
      BY <2>3 DEF QueueStateStreaming, DispatchPriority, DispatchNormal,
         PutInFlight, Unsent, MatchReply, Reply, ConnectionInv
    <3> QED
      BY <3>1
  <2> QED
    BY <1>3, <2>1, <2>2, <2>3 DEF Busy
<1> QED
  BY <1>1, <1>2, <1>3, QuietOrBusy

\* Calls reach the gripper in the order in which they were queued, one at a
\* time, only a priority call passes, each comes back once, and a lost
\* connection leaves none queued: whatever the threads, the gripper and the
\* network do, if the priority calls have one id.
THEOREM TransportImplementsQueue == OnePriorityId => (Spec => QueueSpec)
<1> SUFFICES ASSUME OnePriorityId PROVE Spec => QueueSpec
  OBVIOUS
<1>1. Init => VictimInv /\ Queue!Init
  <2>1. OwnCalls(<<>>) = <<>>
    BY OwnCallsOfNone
  <2> QED
    BY <2>1 DEF Init, VictimInv, Queue!Init, InFlight, NoneInFlight
<1>2. IInv /\ VictimInv /\ [Next]_vars => VictimInv' /\ [Queue!Next]_(Queue!qvars)
  BY VictimNext, QueueNext
<1> QED
  BY <1>1, <1>2, Invariant, PTL DEF Spec, QueueSpec, Queue!Spec

-----------------------------------------------------------------------------
(* The transport as one of its callers sees it.                            *)

\* Once state_ is reset nothing is left of the connection.
ResetInv ==
  ~state_.connected =>
    /\ queue_ = <<>> /\ priority_queue_ = <<>> /\ in_flight_ = NoneInFlight
    /\ victims = {} /\ \A c \in Client : pc[c] # "push"

\* A request whose frame is not out: either disconnect() fails it, with all
\* the others, or there is a connection and stop() has been called.
UnsentInv ==
  /\ worker = "drain" /\ resume = "unsent" => cur \in InFlight
  /\ worker = "fail" /\ resume = "unsent" =>
       cur \in victims \/ promise[cur] # "unset"
  /\ worker = "unsent" /\ promise[cur] = "unset" =>
       connected_ /\ (cur \in Oversize \/ ~running_)

ShownInv == StateInv /\ VictimInv /\ ResetInv /\ UnsentInv

\* What disconnect() does first, whoever calls it.
Disconnecting == LoopEnds \/ SendFails \/ PollFails \/ ExpireRequests

\* Only the worker, with a connection, and command() fill the queues.
LEMMA ResetNext == IInv /\ ShownInv /\ [Next]_vars => ResetInv'
<1> SUFFICES ASSUME IInv, ShownInv, [Next]_vars PROVE ResetInv'
  OBVIOUS
<1> USE DEF IInv, ShownInv, ResetInv
<1>0. state_ \in DeviceState
  BY DEF TypeOK, ConnectionTypes
<1>1. ~state_.connected => ~connected_
  BY DEF StateInv, StateIsOfThisConnection
<1>2. CASE Quiet /\ UNCHANGED state_
  BY <1>2 DEF Quiet
<1>3. CASE Quiet /\ state_'.connected
  BY <1>3
<1>4. CASE Quiet /\ ClearState
  BY <1>4 DEF Quiet, ClearState, DownInv, ConnectionInv
<1>5. CASE Quiet /\ RecvFrame
  <2>1. state_'.connected = state_.connected
    BY <1>0, <1>5 DEF RecvFrame, UpdateState, DeviceState
  <2> QED
    BY <1>5, <2>1 DEF Quiet
<1>6. ASSUME NEW c \in Client, Command(c) PROVE ResetInv'
  BY <1>1, <1>6 DEF Command, CheckConnected, Push, Reject, TypeOK, ThreadTypes
<1>7. CASE Worker /\ Busy
  <2>1. CASE Drain
    <3>1. ~state_.connected => Drained = {}
      BY DEF Drained, InFlight, NoneInFlight, Range
    <3> QED
      BY <1>7, <2>1, <3>1, WorkerWrites DEF Drain
  <2>2. CASE FailVictim
    BY <1>7, <2>2, WorkerWrites DEF FailVictim
  <2>3. CASE \/ QueueStateStreaming \/ DispatchPriority \/ DispatchNormal
             \/ MatchReply
    BY <1>1, <1>7, <2>3, WorkerWrites
    DEF QueueStateStreaming, DispatchPriority, DispatchNormal, PutInFlight,
        MatchReply, ConnectionInv
  <2>4. CASE Reply
    BY <1>0, <1>7, <2>4, WorkerWrites DEF Reply, DeviceState
  <2>5. CASE Unsent
    <3>1. in_flight_ = NoneInFlight => in_flight_' = NoneInFlight
      BY <2>5 DEF Unsent, NoneInFlight
    <3> QED
      BY <1>7, <2>5, <3>1, WorkerWrites DEF Unsent
  <2> QED
    BY <1>7, <2>1, <2>2, <2>3, <2>4, <2>5 DEF Busy
<1>8. \/ UNCHANGED state_ \/ state_'.connected \/ ClearState \/ RecvFrame
      \/ Worker /\ Busy
  <2>1. CASE Owner
    BY <2>1 DEF Owner, Start, Stop, Joined
  <2>2. CASE \E c \in Client : Command(c)
    BY <2>2 DEF Command, CheckConnected, Push, Reject
  <2>3. CASE Worker
    BY <1>0, <2>3 DEF Worker, Busy, LoopEnds, LoopTurn, LoopConnects,
       ConnectFails, ConnectSucceeds, SetConnected, DispatchNothing, SendFrame,
       SendFails, SendGivesUp, PollFails, PollIdle, RecvStopped, MatchNothing,
       MatchPending, ExpireRequests, NothingExpired, GoTo, Disconnect,
       DeviceState
  <2> QED
    BY <2>1, <2>2, <2>3, EnvironmentWrites DEF Next
<1> QED
  BY <1>2, <1>3, <1>4, <1>5, <1>6, <1>7, <1>8, QuietOrBusy

\* disconnect() fails the request it was called for, too.
LEMMA UnsentNext == IInv /\ ShownInv /\ [Next]_vars => UnsentInv'
<1> SUFFICES ASSUME IInv, ShownInv, [Next]_vars PROVE UnsentInv'
  OBVIOUS
<1> USE DEF IInv, ShownInv, UnsentInv
<1>1. CASE Owner
  BY <1>1 DEF Owner, Start, Stop, Joined, ConnectionInv, InFlight
<1>2. ASSUME NEW c \in Client, Command(c) PROVE UnsentInv'
  <2>1. UNCHANGED <<worker, resume, cur, InFlight, victims, connected_, running_>>
    BY <1>2, CommandWrites DEF InFlight
  <2>2. ASSUME cur \in Request, promise[cur] # "unset"
        PROVE  promise'[cur] # "unset"
    BY <1>2, <2>2 DEF Command, CheckConnected, Push, Reject, FailRequest,
       TypeOK, RequestTypes
  <2>3. ASSUME cur \in Request, promise'[cur] = "unset"
        PROVE  promise[cur] = "unset"
    BY <2>2, <2>3
  <2>4. worker = "unsent" \/ resume = "unsent" => cur \in Request
    BY DEF CurInv
  <2> QED
    BY <2>1, <2>2, <2>3, <2>4
<1>3. CASE Worker
  <2>1. CASE SendFails
    <3>1. cur \in InFlight
      BY <2>1, RequestIds DEF SendFails, CurInv, InFlight
    <3>2. InFlight' = InFlight /\ cur' = cur /\ worker' = "drain"
      BY <2>1 DEF SendFails, Disconnect, InFlight
    <3> QED
      BY <3>1, <3>2
  <2>2. CASE LoopEnds \/ PollFails \/ ExpireRequests
    BY <2>2 DEF LoopEnds, PollFails, ExpireRequests, Disconnect
  <2>3. CASE Drain
    BY <2>3 DEF Drain, Drained
  <2>4. CASE FailVictim
    <3>1. PICK r \in victims : FailRequest(r) /\ victims' = victims \ {r}
      BY <2>4 DEF FailVictim
    <3>2. /\ UNCHANGED <<cur, resume, worker>> /\ worker = "fail"
          /\ \A q \in victims : q = r \/ q \in victims'
      BY <2>4, <3>1 DEF FailVictim
    <3>3. /\ promise[cur] # "unset" => promise'[cur] # "unset"
          /\ promise'[r] # "unset"
      BY <3>1 DEF FailRequest, TypeOK, RequestTypes
    <3> QED
      BY <3>2, <3>3
  <2>5. CASE ClearState
    BY <2>5 DEF ClearState, TypeOK, ThreadTypes
  <2>6. CASE SendGivesUp
    BY <1>3, <2>6, WorkerWrites DEF SendGivesUp, GoTo, ConnectionInv
  <2>7. CASE \/ LoopTurn \/ LoopConnects \/ DispatchNothing
             \/ PollIdle \/ NothingExpired
    BY <2>7 DEF LoopTurn, LoopConnects, DispatchNothing, PollIdle,
       NothingExpired, GoTo
  <2>8. CASE \/ ConnectFails \/ ConnectSucceeds \/ SetConnected
             \/ QueueStateStreaming \/ DispatchPriority \/ DispatchNormal
    BY <2>8 DEF ConnectFails, ConnectSucceeds, SetConnected,
       QueueStateStreaming, DispatchPriority, DispatchNormal, PutInFlight
  <2>9. CASE \/ SendFrame \/ Unsent \/ RecvFrame \/ RecvStopped
             \/ MatchNothing \/ MatchPending \/ MatchReply \/ Reply
    BY <2>9 DEF SendFrame, Unsent, RecvFrame, RecvStopped, MatchNothing,
       MatchPending, MatchReply, Reply
  <2> QED
    BY <1>3, <2>1, <2>2, <2>3, <2>4, <2>5, <2>6, <2>7, <2>8, <2>9 DEF Worker
<1>4. CASE Device \/ Time \/ LinkBreaks \/ UNCHANGED vars
  <2>1. InFlight' = InFlight
    BY <1>4, EnvironmentWrites DEF InFlight
  <2> QED
    BY <1>4, <2>1, EnvironmentWrites
<1> QED
  BY <1>1, <1>2, <1>3, <1>4 DEF Next

\* What is needed besides IInv to compare the two is kept by every step.
LEMMA ShownNext == IInv /\ ShownInv /\ [Next]_vars => ShownInv'
BY StateNext, VictimNext, ResetNext, UnsentNext DEF ShownInv

\* It holds at first.
LEMMA ShownInit == Init => ShownInv
BY DEF Init, ShownInv, StateInv, StateIsOfThisConnection, VictimInv, ResetInv,
   UnsentInv

\* A step of what one call sees, or none.
ViewStep(c) == [View(c)!Next]_(View(c)!view)

\* What changes nothing of it.
LEMMA NoViewStep ==
  ASSUME NEW c, UNCHANGED <<life, phase, shown>>, Outcome(c)' = Outcome(c)
  PROVE  ViewStep(c)
BY DEF ViewStep, View!view

\* What the owner and the callers write of it.
LEMMA SameLife == ASSUME UNCHANGED <<running_, owner>> PROVE life' = life
BY DEF life

\* The phase only depends on three variables.
LEMMA SamePhase ==
  ASSUME UNCHANGED <<state_, connected_>>,
         worker \notin {"connected", "drain"},
         worker' \notin {"connected", "drain"}
  PROVE  UNCHANGED <<phase, shown>>
BY DEF phase, shown

\* One call changes.
LEMMA SameOutcome ==
  ASSUME NEW c, pc'[c] = pc[c], promise'[c] = promise[c]
  PROVE  Outcome(c)' = Outcome(c)
BY DEF Outcome

\* With a socket the phase is up, or about to be; without, it is on its way
\* down.
LEMMA PhaseFacts ==
  ASSUME IInv, ShownInv
  PROVE  /\ connected_ => phase = "up"
         /\ phase = "up" <=> connected_
         /\ worker \in {"off", "connect"} => ~state_.connected
         /\ state_.connected /\ ~connected_ =>
              worker \in {"connected", "drain", "fail"}
         /\ worker = "connected" => phase = "connecting"
         /\ ~state_.connected => ~connected_ /\ phase = "down"
         /\ worker = "fail" => phase \in {"dropping", "down"}
         /\ worker = "drain" => phase \in {"closing", "down"}
BY DEF IInv, ShownInv, StateInv, ConnectionInv, phase

\* start() and stop().
LEMMA OwnerIsSeen ==
  ASSUME IInv, ShownInv, NEW c, Owner
  PROVE  ViewStep(c)
<1> USE DEF Owner
<1>1. Outcome(c)' = Outcome(c)
  BY DEF Start, Stop, Joined, Outcome
<1>2. state_' = state_ /\ connected_' = connected_ /\ shown' = shown
  BY DEF Start, Stop, Joined, shown
<1>3. CASE Start
  <2>1. life = "stopped" /\ life' = "running" /\ worker = "off"
    BY <1>3 DEF Start, life, IInv, ConnectionInv
  <2>2. phase' = phase
    BY <1>2, <2>1, PhaseFacts DEF phase
  <2>3. View(c)!Start
    BY <1>1, <1>2, <2>1, <2>2 DEF View!Start, View!Lives
  <2> QED
    BY <2>3 DEF ViewStep, View!Next
<1>4. CASE Stop
  <2>1. life = "running" /\ life' = "stopping" /\ phase' = phase
    BY <1>4 DEF Stop, life, phase
  <2>2. View(c)!Stop
    BY <1>1, <1>2, <2>1 DEF View!Stop, View!Lives
  <2> QED
    BY <2>2 DEF ViewStep, View!Next
<1>5. CASE Joined
  <2>1. life = "stopping" /\ life' = "stopped" /\ phase' = phase
    BY <1>5 DEF Joined, life, phase, IInv, ConnectionInv
  <2>2. phase = "down"
    BY <1>5, PhaseFacts DEF Joined
  <2>3. View(c)!Stopped
    BY <1>1, <1>2, <2>1, <2>2 DEF View!Stopped, View!Lives
  <2> QED
    BY <2>3 DEF ViewStep, View!Next
<1> QED
  BY <1>3, <1>4, <1>5

\* command(): what it reads of connected_ decides.
LEMMA CommandIsSeen ==
  ASSUME IInv, ShownInv, NEW c \in Client, NEW d \in Client, Command(d)
  PROVE  ViewStep(c)
<1> USE RequestIds DEF IInv, TypeOK, ThreadTypes, RequestTypes
<1>1. UNCHANGED <<life, phase, shown>>
  BY DEF Command, CheckConnected, Push, Reject, life, phase, shown
<1>2. CASE c # d
  <2>1. pc'[c] = pc[c] /\ promise'[c] = promise[c]
    BY <1>2 DEF Command, CheckConnected, Push, Reject, FailRequest
  <2> QED
    BY <1>1, <2>1, NoViewStep, SameOutcome
<1>3. CASE CheckConnected(c)
  <2>1. CASE connected_
    <3>1. Outcome(c)' = Outcome(c)
      BY <1>3, <2>1 DEF CheckConnected, Outcome
    <3> QED
      BY <1>1, <3>1, NoViewStep
  <2>2. CASE ~connected_
    <3>1. Outcome(c) = "none" /\ Outcome(c)' = "failed" /\ phase # "up"
      BY <1>3, <2>2, PhaseFacts DEF CheckConnected, Outcome
    <3>2. View(c)!Call
      BY <1>1, <3>1 DEF View!Call, View!Becomes
    <3> QED
      BY <3>2 DEF ViewStep, View!Next
  <2> QED
    BY <2>1, <2>2
<1>4. CASE Push(c)
  <2>1. Outcome(c) = "none" /\ Outcome(c)' = "pending"
    BY <1>4 DEF Push, Outcome, UnsetInv
  <2>2. state_.connected /\ (connected_ \/ worker = "drain")
    BY <1>4 DEF Push, ShownInv, ResetInv, DownInv
  <2>3. phase \in {"up", "closing"}
    BY <2>2, PhaseFacts DEF phase
  <2>4. View(c)!Call
    BY <1>1, <2>1, <2>3 DEF View!Call, View!Becomes
  <2> QED
    BY <2>4 DEF ViewStep, View!Next
<1>5. CASE Reject(c)
  <2>1. Outcome(c) = "failed" /\ Outcome(c)' = "failed"
    BY <1>5 DEF Reject, FailRequest, Outcome, UnsetInv
  <2> QED
    BY <1>1, <2>1, NoViewStep
<1> QED
  BY <1>2, <1>3, <1>4, <1>5 DEF Command

\* disconnect() begins: the connection, if there is one, is closing.
LEMMA DisconnectIsSeen ==
  ASSUME IInv, ShownInv, NEW c, Worker, Disconnecting
  PROVE  ViewStep(c)
<1>1. /\ worker \notin {"connected", "drain", "fail"} /\ worker' = "drain"
      /\ UNCHANGED <<state_, promise>> /\ ~connected_'
  BY DEF Disconnecting, LoopEnds, SendFails, PollFails, ExpireRequests,
     Disconnect
<1>2. life' = life /\ Outcome(c)' = Outcome(c)
  BY <1>1, WorkerWrites, SameLife, SameOutcome
<1>3. shown' = shown
  BY <1>1 DEF shown
<1>4. CASE state_.connected
  <2>1. phase = "up" /\ phase' = "closing"
    BY <1>1, <1>4, PhaseFacts DEF phase
  <2>2. View(c)!Disconnects
    BY <1>2, <1>3, <2>1 DEF View!Disconnects, View!Turns
  <2> QED
    BY <2>2 DEF ViewStep, View!Next
<1>5. CASE ~state_.connected
  <2>1. phase' = phase
    BY <1>1, <1>5 DEF phase
  <2> QED
    BY <1>2, <1>3, <2>1, NoViewStep
<1> QED
  BY <1>4, <1>5

\* The queues are drained.
LEMMA DrainIsSeen ==
  ASSUME IInv, ShownInv, NEW c, Worker, Drain
  PROVE  ViewStep(c)
<1>1. /\ worker = "drain" /\ worker' = "fail"
      /\ UNCHANGED <<state_, promise, connected_>> /\ ~connected_
  BY DEF Drain, IInv, ConnectionInv
<1>2. life' = life /\ Outcome(c)' = Outcome(c)
  BY <1>1, WorkerWrites, SameLife, SameOutcome
<1>3. shown' = shown
  BY <1>1 DEF shown
<1>4. CASE state_.connected
  <2>1. phase = "closing" /\ phase' = "dropping"
    BY <1>1, <1>4 DEF phase
  <2>2. View(c)!Drain
    BY <1>2, <1>3, <2>1 DEF View!Drain, View!Turns
  <2> QED
    BY <2>2 DEF ViewStep, View!Next
<1>5. CASE ~state_.connected
  <2>1. phase' = phase
    BY <1>1, <1>5 DEF phase
  <2> QED
    BY <1>2, <1>3, <2>1, NoViewStep
<1> QED
  BY <1>4, <1>5

\* What was drained is failed before state_ is reset.
LEMMA VictimIsSeen ==
  ASSUME IInv, ShownInv, NEW c \in Client, Worker, FailVictim
  PROVE  ViewStep(c)
<1> USE RequestIds DEF IInv, ShownInv
<1>1. PICK r \in victims : FailRequest(r)
  BY DEF FailVictim
<1>2. /\ worker = "fail" /\ worker' = "fail" /\ UNCHANGED <<state_, connected_>>
  BY DEF FailVictim
<1>3. life' = life /\ phase' = phase /\ shown' = shown
  BY <1>2, WorkerWrites, SameLife, SamePhase
<1>4. promise' = [promise EXCEPT ![r] = "failed"] /\ promise[r] = "unset"
  BY <1>1 DEF FailRequest, VictimInv
<1>5. CASE r = c
  <2>1. pc[c] = "waiting"
    BY <1>1, <1>5 DEF PlaceInv
  <2>2. Outcome(c) = "pending" /\ Outcome(c)' = "failed"
    BY <1>4, <1>5, <2>1, WorkerWrites DEF Outcome, TypeOK, RequestTypes
  <2>3. state_.connected
    BY <1>1 DEF ResetInv
  <2>4. phase = "dropping"
    BY <1>2, <2>3 DEF phase, ConnectionInv
  <2>5. View(c)!FailDropped
    BY <1>3, <2>2, <2>4 DEF View!FailDropped, View!Becomes
  <2> QED
    BY <2>5 DEF ViewStep, View!Next
<1>6. CASE r # c
  <2>1. promise'[c] = promise[c]
    BY <1>4, <1>6
  <2>2. Outcome(c)' = Outcome(c)
    BY <2>1, WorkerWrites, SameOutcome
  <2> QED
    BY <1>3, <2>2, NoViewStep
<1> QED
  BY <1>5, <1>6

\* When state_ is reset no call is pending.
LEMMA ResetIsSeen ==
  ASSUME IInv, ShownInv, NEW c \in Client, Worker, ClearState
  PROVE  ViewStep(c)
<1> USE RequestIds DEF IInv, ShownInv
<1>0. state_ \in DeviceState
  BY DEF TypeOK, ConnectionTypes
<1>1. /\ worker = "fail" /\ victims = {} /\ worker' \in {"off", "loop", "unsent"}
      /\ state_' = [state_ EXCEPT !.connected = FALSE, !.referenced = 0,
                                  !.last_status = "transport_error"]
      /\ UNCHANGED <<promise, connected_>> /\ ~connected_
  BY DEF ClearState, ConnectionInv, TypeOK, ThreadTypes
<1>2. life' = life /\ Outcome(c)' = Outcome(c)
  BY <1>1, WorkerWrites, SameLife, SameOutcome
<1>3. shown' = [connected |-> FALSE, referenced |-> FALSE,
                generation |-> shown.generation]
  <2>1. /\ state_'.connected = FALSE /\ state_'.referenced = 0
        /\ state_'.generation = state_.generation
    BY <1>0, <1>1 DEF DeviceState
  <2> QED
    BY <2>1 DEF shown
<1>4. phase' = "down"
  BY <1>0, <1>1 DEF phase, DeviceState
<1>5. CASE state_.connected
  <2>1. phase = "dropping"
    BY <1>1, <1>5 DEF phase
  <2>2. Held = {}
    BY <1>1 DEF DownInv, Held, InFlight, NoneInFlight, Range
  <2>3. Outcome(c) # "pending"
    <3>1. pc[c] = "waiting" => promise[c] # "unset"
      BY <1>1, <2>2 DEF NoStrandedRequest
    <3>2. pc[c] \in {"idle", "push", "reject", "waiting"}
          /\ promise[c] \in {"unset", "answered", "failed"}
      BY DEF TypeOK, ThreadTypes, RequestTypes
    <3> QED
      BY <3>1, <3>2 DEF Outcome
  <2>4. View(c)!ClearState
    BY <1>2, <1>3, <1>4, <2>1, <2>3 DEF View!ClearState, View!Turns
  <2> QED
    BY <2>4 DEF ViewStep, View!Next
<1>6. CASE ~state_.connected
  <2>1. phase = "down"
    BY <1>6 DEF phase
  <2>2. state_.referenced = 0
    BY <1>6 DEF StateInv, StateIsOfThisConnection
  <2>3. shown' = shown
    BY <1>0, <1>3, <1>6, <2>2 DEF shown, DeviceState
  <2> QED
    BY <1>2, <1>4, <2>1, <2>3, NoViewStep
<1> QED
  BY <1>5, <1>6

\* connect_socket() sets state_ first, connected_ second.
LEMMA ConnectIsSeen ==
  ASSUME IInv, ShownInv, NEW c, Worker, ConnectSucceeds \/ SetConnected
  PROVE  ViewStep(c)
<1>0. state_ \in DeviceState
  BY DEF IInv, TypeOK, ConnectionTypes
<1>1. life' = life /\ Outcome(c)' = Outcome(c)
  BY WorkerWrites, SameLife, SameOutcome DEF ConnectSucceeds, SetConnected
<1>2. CASE ConnectSucceeds
  <2>1. /\ worker = "connect" /\ state_.generation < MaxGeneration
        /\ state_' = [state_ EXCEPT !.connected = TRUE, !.last_status = "success",
                         !.opening_updated_at = 0, !.generation = @ + 1]
        /\ worker' = "connected"
    BY <1>2 DEF ConnectSucceeds
  <2>2. shown' = [connected |-> TRUE, referenced |-> shown.referenced,
                  generation |-> shown.generation + 1]
    <3>1. /\ state_'.connected = TRUE
          /\ state_'.referenced = state_.referenced
          /\ state_'.generation = state_.generation + 1
      BY <1>0, <2>1 DEF DeviceState
    <3> QED
      BY <3>1 DEF shown
  <2>3. phase = "down" /\ phase' = "connecting"
    BY <1>0, <2>1, PhaseFacts DEF phase, DeviceState
  <2>4. life # "stopped" /\ shown.generation < MaxGeneration
    BY <2>1 DEF life, shown, IInv, ConnectionInv, TypeOK, ThreadTypes
  <2>5. View(c)!Connects
    BY <1>1, <2>2, <2>3, <2>4 DEF View!Connects, View!Turns
  <2> QED
    BY <2>5 DEF ViewStep, View!Next
<1>3. CASE SetConnected
  <2>1. /\ worker = "connected" /\ worker' = "stream" /\ connected_'
        /\ state_' = state_
    BY <1>3 DEF SetConnected
  <2>2. state_.connected
    BY <2>1 DEF IInv, ConnectionInv, ShownInv, StateInv
  <2>3. phase = "connecting" /\ phase' = "up" /\ shown' = shown
    BY <2>1, <2>2 DEF phase, shown
  <2>4. View(c)!SetConnected
    BY <1>1, <2>3 DEF View!SetConnected, View!Turns
  <2> QED
    BY <2>4 DEF ViewStep, View!Next
<1> QED
  BY <1>2, <1>3

\* Telemetry tells whether the gripper is referenced.
LEMMA TelemetryIsSeen ==
  ASSUME IInv, ShownInv, NEW c, Worker, RecvFrame
  PROVE  ViewStep(c)
<1>0. state_ \in DeviceState
  BY DEF IInv, TypeOK, ConnectionTypes
<1>1. /\ worker = "recv" /\ worker' = "match" /\ socket_
      /\ UNCHANGED <<connected_, promise>>
  BY DEF RecvFrame
<1>2. life' = life /\ Outcome(c)' = Outcome(c)
  BY <1>1, WorkerWrites, SameLife, SameOutcome
<1>3. /\ state_'.connected = state_.connected
      /\ state_'.generation = state_.generation
  BY <1>0 DEF RecvFrame, UpdateState, DeviceState
<1>4. phase = "up" /\ phase' = "up"
  BY <1>1, <1>3 DEF phase, IInv, ConnectionInv, ShownInv, StateInv
<1>5. PICK referenced \in BOOLEAN : referenced = (state_'.referenced # 0)
  OBVIOUS
<1>6. shown' = [shown EXCEPT !.referenced = referenced]
  BY <1>3, <1>5 DEF shown
<1>7. View(c)!Telemetry
  BY <1>2, <1>4, <1>6 DEF View!Telemetry, View!Turns
<1> QED
  BY <1>7 DEF ViewStep, View!Next

\* An answer comes over the connection that state() shows.
LEMMA ReplyIsSeen ==
  ASSUME IInv, ShownInv, NEW c \in Client, Worker, Reply
  PROVE  ViewStep(c)
<1> USE RequestIds DEF IInv
<1>0. state_ \in DeviceState
  BY DEF TypeOK, ConnectionTypes
<1>1. /\ worker = "reply" /\ worker' = "recv" /\ UNCHANGED connected_
      /\ promise' = [promise EXCEPT ![cur] = "answered"]
      /\ promise[cur] = "unset" /\ connected_
  BY DEF Reply, UnsetInv, ConnectionInv
<1>2. /\ state_'.connected = state_.connected
      /\ state_'.referenced = state_.referenced
      /\ state_'.generation = state_.generation
  BY <1>0 DEF Reply, DeviceState
<1>3. life' = life /\ phase' = phase /\ shown' = shown /\ phase = "up"
  BY <1>1, <1>2, WorkerWrites, SameLife, PhaseFacts DEF phase, shown
<1>4. CASE cur = c
  <2>1. pc[c] = "waiting"
    BY <1>4 DEF PlaceInv
  <2>2. Outcome(c) = "pending" /\ Outcome(c)' = "answered"
    BY <1>1, <1>4, <2>1, WorkerWrites DEF Outcome, TypeOK, RequestTypes
  <2>3. View(c)!Answers
    BY <1>3, <2>2 DEF View!Answers, View!Becomes
  <2> QED
    BY <2>3 DEF ViewStep, View!Next
<1>5. CASE cur # c
  <2>1. promise'[c] = promise[c]
    BY <1>1, <1>5
  <2> QED
    BY <1>3, <2>1, WorkerWrites, SameOutcome, NoViewStep
<1> QED
  BY <1>4, <1>5

\* A call whose frame is not out fails early only if stop() was called.
LEMMA UnsentIsSeen ==
  ASSUME IInv, ShownInv, NEW c \in Client \ Oversize, Worker, Unsent
  PROVE  ViewStep(c)
<1> USE RequestIds DEF IInv
<1>1. /\ worker = "unsent" /\ worker' = "recv"
      /\ UNCHANGED <<connected_, state_>> /\ cur \in Request
      /\ promise' = [promise EXCEPT ![cur] =
                       IF @ = "unset" THEN "failed" ELSE @]
  BY UnsentFacts DEF Unsent
<1>2. life' = life /\ phase' = phase /\ shown' = shown
  BY <1>1, WorkerWrites, SameLife, SamePhase
<1>3. CASE cur = c /\ promise[c] = "unset"
  <2>1. connected_ /\ ~running_
    BY <1>1, <1>3 DEF ShownInv, UnsentInv
  <2>2. life = "stopping" /\ phase = "up"
    BY <1>1, <2>1, PhaseFacts DEF life, ConnectionInv, TypeOK, ThreadTypes
  <2>3. pc[c] = "waiting"
    BY <1>3 DEF PlaceInv
  <2>4. Outcome(c) = "pending" /\ Outcome(c)' = "failed"
    BY <1>1, <1>3, <2>3, WorkerWrites DEF Outcome, TypeOK, RequestTypes
  <2>5. View(c)!GivesUp
    BY <1>2, <2>2, <2>4 DEF View!GivesUp, View!Becomes
  <2> QED
    BY <2>5 DEF ViewStep, View!Next
<1>4. CASE cur # c \/ promise[c] # "unset"
  <2>1. promise'[c] = promise[c]
    BY <1>1, <1>4 DEF TypeOK, RequestTypes
  <2> QED
    BY <1>2, <2>1, WorkerWrites, SameOutcome, NoViewStep
<1> QED
  BY <1>3, <1>4

\* The other steps of the worker are not seen.
LEMMA TheRestIsNotSeen ==
  ASSUME IInv, ShownInv, NEW c \in Client, Worker,
         \/ LoopTurn \/ LoopConnects \/ DispatchNothing \/ SendGivesUp
         \/ PollIdle \/ NothingExpired \/ ConnectFails \/ QueueStateStreaming
         \/ DispatchPriority \/ DispatchNormal \/ SendFrame \/ RecvStopped
         \/ MatchNothing \/ MatchPending \/ MatchReply
  PROVE  ViewStep(c)
<1>1. CASE \/ LoopTurn \/ LoopConnects \/ DispatchNothing \/ SendGivesUp
           \/ PollIdle \/ NothingExpired
  <2>1. /\ worker \notin {"connected", "drain"}
        /\ worker' \notin {"connected", "drain"}
        /\ UNCHANGED <<state_, connected_, promise>>
    BY <1>1 DEF LoopTurn, LoopConnects, DispatchNothing, SendGivesUp, PollIdle,
       NothingExpired, GoTo
  <2> QED
    BY <2>1, WorkerWrites, SameLife, SamePhase, SameOutcome, NoViewStep
<1>2. CASE \/ ConnectFails \/ DispatchPriority \/ DispatchNormal \/ SendFrame
           \/ RecvStopped \/ MatchNothing \/ MatchPending \/ MatchReply
  <2>1. /\ worker \notin {"connected", "drain"}
        /\ worker' \notin {"connected", "drain"}
        /\ UNCHANGED <<state_, connected_, promise>>
    BY <1>2 DEF ConnectFails, DispatchPriority, DispatchNormal, PutInFlight,
       SendFrame, RecvStopped, MatchNothing, MatchPending, MatchReply
  <2> QED
    BY <2>1, WorkerWrites, SameLife, SamePhase, SameOutcome, NoViewStep
<1>3. CASE QueueStateStreaming
  <2>1. /\ worker = "stream" /\ worker' = "dispatch"
        /\ UNCHANGED <<state_, connected_>> /\ promise'[c] = promise[c]
    BY <1>3, RequestIds DEF QueueStateStreaming
  <2> QED
    BY <2>1, WorkerWrites, SameLife, SamePhase, SameOutcome, NoViewStep
<1> QED
  BY <1>1, <1>2, <1>3

\* Every step of the transport is one that its callers expect, or none.
LEMMA ViewNext ==
  IInv /\ ShownInv /\ [Next]_vars =>
    \A c \in Client \ Oversize : UNCHANGED View(c)!view \/ View(c)!Next
<1> SUFFICES ASSUME IInv, ShownInv, [Next]_vars, NEW c \in Client \ Oversize
             PROVE  ViewStep(c)
  BY DEF ViewStep
<1>1. CASE Owner
  BY <1>1, OwnerIsSeen
<1>2. ASSUME NEW d \in Client, Command(d) PROVE ViewStep(c)
  BY <1>2, CommandIsSeen
<1>3. CASE Worker
  BY <1>3, DisconnectIsSeen, DrainIsSeen, VictimIsSeen, ResetIsSeen,
     ConnectIsSeen, TelemetryIsSeen, ReplyIsSeen, UnsentIsSeen,
     TheRestIsNotSeen
  DEF Worker, Disconnecting
<1>4. CASE Device \/ Time \/ LinkBreaks \/ UNCHANGED vars
  <2>1. UNCHANGED <<life, phase, shown>>
    BY <1>4, EnvironmentWrites DEF life, phase, shown
  <2> QED
    BY <1>4, <2>1, EnvironmentWrites, SameOutcome, NoViewStep
<1> QED
  BY <1>1, <1>2, <1>3, <1>4 DEF Next

\* The initialisation thread may rely on TransportView: a call is refused or
\* failed only while its connection is not up or stop() is running, it is over
\* before state_ is reset, and it is answered over the connection that state_
\* counts; whatever the other callers, the gripper and the network do.
THEOREM TransportImplementsView == Spec => ViewSpec
<1>1. Init => \A c \in Client \ Oversize : View(c)!Init
  <2> SUFFICES ASSUME Init, NEW c \in Client PROVE View(c)!Init
    OBVIOUS
  <2>1. life = "stopped" /\ phase = "down" /\ Outcome(c) = "none"
    BY DEF Init, life, phase, Outcome
  <2>2. state_.connected = FALSE /\ state_.referenced = 0 /\ state_.generation = 0
    BY DEF Init
  <2>3. shown = [connected |-> FALSE, referenced |-> FALSE, generation |-> 0]
    BY <2>2 DEF shown
  <2> QED
    BY <2>1, <2>3 DEF View!Init
<1>2. Init => ShownInv
  BY ShownInit
<1> QED
  BY <1>1, <1>2, ShownNext, ViewNext, Invariant, PTL DEF Spec, ViewSpec
=============================================================================
