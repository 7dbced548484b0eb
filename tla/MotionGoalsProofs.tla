-------------------------- MODULE MotionGoalsProofs --------------------------
(***************************************************************************)
(* Proofs about MotionGoals, for any goals, requests and connections.      *)
(*                                                                         *)
(* The inductive invariant IInv says who holds motion_execution_mutex_,    *)
(* who waits for each pending call, how a goal's status follows from where *)
(* its thread is, and what generations the goals have.  At the end: what   *)
(* becomes of a call, and what is said of a goal, is what happened.        *)
(***************************************************************************)
EXTENDS MotionGoals, SequenceFacts

USE DEF transport, goals, threads, node

\* What the assumptions say about calls and those who make them.
LEMMA CallFacts ==
  /\ UrgentCall \subseteq Call
  /\ \A g \in Goal : \A k \in {"acceleration", "force", "motion", "stop"} :
       <<g, k>> \in Call
  /\ \A s \in ServiceRequest : <<s, "service">> \in Call
  /\ HomeRequest \subseteq ServiceRequest
  /\ Goal \cap ServiceRequest = {} /\ None \notin Goal \cup ServiceRequest
BY ActorAssumption DEF UrgentCall, Call, ServiceRequest

\* A call of command(): one status changes, from idle.
LEMMA MakeCallFacts ==
  ASSUME QueueTypes, NEW c \in Call, MakeCall(c)
  PROVE  /\ status[c] = "idle"
         /\ \/ status' = [status EXCEPT ![c] = "pending"]
            \/ status' = [status EXCEPT ![c] = "failed"]
         /\ up' = up /\ flying' = flying /\ dropped' = dropped
         /\ queue' \in Seq(Call \ UrgentCall)
         /\ priorityQueue' \in Seq(UrgentCall)
         /\ Range(queue') \subseteq Range(queue) \cup {c}
         /\ Range(priorityQueue') \subseteq Range(priorityQueue) \cup {c}
<1>1. CASE Q!Enqueue(c)
  <2>1. CASE c \in UrgentCall
    <3>1. priorityQueue' = Append(priorityQueue, c) /\ queue' = queue
      BY <1>1, <2>1 DEF Q!Enqueue
    <3>2. Range(priorityQueue') = Range(priorityQueue) \cup {c}
      BY <2>1, <3>1, AppendFacts DEF QueueTypes
    <3> QED
      BY <1>1, <2>1, <3>1, <3>2 DEF Q!Enqueue, QueueTypes
  <2>2. CASE c \notin UrgentCall
    <3>1. queue' = Append(queue, c) /\ priorityQueue' = priorityQueue
      BY <1>1, <2>2 DEF Q!Enqueue
    <3>2. Range(queue') = Range(queue) \cup {c}
      BY <2>2, <3>1, AppendFacts DEF QueueTypes
    <3> QED
      BY <1>1, <2>2, <3>1, <3>2 DEF Q!Enqueue, QueueTypes
  <2> QED
    BY <2>1, <2>2
<1>2. CASE Q!Reject(c)
  BY <1>2 DEF Q!Reject, QueueTypes
<1> QED
  BY <1>1, <1>2 DEF MakeCall

\* The calls the transport has taken charge of.
Taken == Range(queue) \cup Range(priorityQueue) \cup flying \cup dropped

\* They have been made.
TakenInv == \A c \in Taken : status[c] # "idle"

\* What the transport does while the connection is up.
TransportGoesOn == TransportWorks \/ GripperAnswers

\* A step of the transport: it takes charge of nothing new, and what it does
\* to a call is to end it.
LEMMA TransportFacts ==
  ASSUME QueueTypes, TakenInv, TransportGoesOn \/ Disconnects \/ Connects
  PROVE  /\ QueueTypes'
         /\ Taken' \subseteq Taken
         /\ \A c \in Call :
              status'[c] # status[c] =>
                status[c] # "idle" /\ status'[c] \notin {"idle", "pending"}
<1> USE CallFacts DEF QueueTypes
<1>1. CASE Q!Send
  <2> /\ up' = up /\ status' = status /\ dropped' = dropped
      /\ connection' \in Nat
    BY <1>1 DEF Q!Send, TransportGoesOn, TransportWorks, GripperAnswers,
                Disconnects, Connects
  <2>1. CASE /\ priorityQueue # <<>> /\ queue' = queue
             /\ flying' = flying \cup {Head(priorityQueue)}
             /\ priorityQueue' = Tail(priorityQueue)
    <3>1. /\ Head(priorityQueue) \in Range(priorityQueue)
          /\ Range(Tail(priorityQueue)) \subseteq Range(priorityQueue)
      BY <2>1, TailFacts
    <3>2. /\ Head(priorityQueue) \in UrgentCall
          /\ Tail(priorityQueue) \in Seq(UrgentCall)
      BY <2>1
    <3> QED
      BY <2>1, <3>1, <3>2 DEF Taken
  <2>2. CASE /\ queue # <<>> /\ priorityQueue' = priorityQueue
             /\ flying' = {Head(queue)}
             /\ queue' = Tail(queue)
    <3>1. /\ Head(queue) \in Range(queue)
          /\ Range(Tail(queue)) \subseteq Range(queue)
      BY <2>2, TailFacts
    <3>2. /\ Head(queue) \in Call
          /\ Tail(queue) \in Seq(Call \ UrgentCall)
      BY <2>2
    <3> QED
      BY <2>2, <3>1, <3>2 DEF Taken
  <2> QED
    BY <1>1, <2>1, <2>2 DEF Q!Send
<1>2. ASSUME NEW c \in Call, Q!FailDropped(c), connection' = connection
      PROVE  /\ QueueTypes' /\ Taken' \subseteq Taken
             /\ status[c] # "idle" /\ status' = [status EXCEPT ![c] = "failed"]
  BY <1>2 DEF Q!FailDropped, Taken, TakenInv
<1>3. ASSUME NEW c \in Call, NEW a \in PossibleAnswer(c), Q!Return(c, a),
             connection' = connection
      PROVE  /\ QueueTypes' /\ Taken' \subseteq Taken
             /\ status[c] # "idle" /\ status' = [status EXCEPT ![c] = a]
             /\ a \notin {"idle", "pending"}
  BY <1>3 DEF Q!Return, Taken, TakenInv, PossibleAnswer
<1>4. CASE TransportGoesOn
  BY <1>1, <1>2, <1>3, <1>4 DEF TransportGoesOn, TransportWorks, GripperAnswers
<1>5. CASE Disconnects
  <2>1. /\ queue' = <<>> /\ priorityQueue' = <<>> /\ flying' = {}
        /\ dropped' = dropped \cup Range(queue) \cup Range(priorityQueue)
                        \cup flying
        /\ status' = status /\ up' = FALSE
        /\ connection' = connection
    BY <1>5 DEF Disconnects, Q!Drop, Q!Range, Range
  <2>2. Range(queue) \subseteq Call /\ Range(priorityQueue) \subseteq Call
    BY DEF Range
  <2>3. Range(<<>>) = {}
    BY DEF Range
  <2>4. Taken' = dropped'
    BY <2>1, <2>3 DEF Taken
  <2>5. Taken' \subseteq Taken
    BY <2>1, <2>4 DEF Taken
  <2>6. <<>> \in Seq(Call \ UrgentCall) /\ <<>> \in Seq(UrgentCall)
    OBVIOUS
  <2>7. dropped' \subseteq Call
    BY <2>1, <2>2
  <2>8. QueueTypes'
    BY <2>1, <2>6, <2>7
  <2> QED
    BY <2>1, <2>5, <2>8
<1>6. CASE Connects
  BY <1>6 DEF Connects, Q!Open, Taken
<1> QED
  BY <1>4, <1>5, <1>6

-----------------------------------------------------------------------------
(* Type correctness.                                                       *)

\* The types hold at first.
LEMMA TypeInit == Init => TypeOK
<1> SUFFICES ASSUME Init PROVE TypeOK
  OBVIOUS
<1>1. QueueTypes
  <2>1. status = [c \in Call |-> "idle"]
    BY DEF Init, Q!Init
  <2>2. /\ up = FALSE /\ queue = <<>> /\ priorityQueue = <<>>
        /\ flying = {} /\ dropped = {} /\ connection = 0
    BY DEF Init, Q!Init
  <2>3. <<>> \in Seq(Call \ UrgentCall) /\ <<>> \in Seq(UrgentCall)
    OBVIOUS
  <2> QED
    BY <2>1, <2>2, <2>3 DEF QueueTypes
<1>2. GoalTypes
  BY DEF Init, GoalTypes, Place
<1>3. NodeTypes
  BY DEF Init, NodeTypes, Free
<1> QED
  BY <1>1, <1>2, <1>3 DEF TypeOK

\* Calls keep the types of the transport.
LEMMA MakeCallTypes ==
  ASSUME QueueTypes, NEW c \in Call, MakeCall(c), UNCHANGED connection
  PROVE  QueueTypes'
BY MakeCallFacts DEF QueueTypes

\* A thread's step keeps the types.
LEMMA ThreadTypesNext ==
  ASSUME TypeOK, NEW g \in Goal, Thread(g)
  PROVE  TypeOK'
<1> USE CallFacts DEF TypeOK, NodeTypes, ThreadStep, End
<1>1. CASE Begin(g)
  <2>1. GoalTypes'
    BY <1>1 DEF Begin, GoalTypes, Place, Outcome, Unlucky
  <2> QED
    BY <1>1, <2>1 DEF Begin, QueueTypes
<1>2. CASE GoalCalls(g)
  <2>1. <<g, pc[g]>> \in Call
    BY <1>2 DEF GoalCalls
  <2>2. QueueTypes'
    BY <1>2, <2>1, MakeCallTypes DEF GoalCalls
  <2> QED
    BY <1>2, <2>2 DEF GoalCalls, GoalTypes
<1>3. CASE SettingReturns(g)
  BY <1>3 DEF SettingReturns, NextSetting, GoalTypes, Place, Outcome, QueueTypes
<1>4. CASE WaitsOn(g) \/ NoticeInterruption(g) \/ StopReturns(g)
  BY <1>4 DEF WaitsOn, NoticeInterruption, StopReturns, GoalTypes, Place,
              QueueTypes
<1>5. CASE MotionReturns(g)
  <2>1. PICK reached \in BOOLEAN : End(g, Ending(g, reached))
    BY <1>5 DEF MotionReturns
  <2>2. Ending(g, reached) \in Outcome
    BY DEF Ending, Outcome
  <2> QED
    BY <1>5, <2>1, <2>2 DEF MotionReturns, GoalTypes, Place, QueueTypes
<1>6. CASE Finish(g)
  BY <1>6 DEF Finish, GoalTypes, Place, Outcome, QueueTypes
<1> QED
  BY <1>1, <1>2, <1>3, <1>4, <1>5, <1>6 DEF Thread

\* The executor's steps keep the types.
LEMMA ExecutorTypesNext ==
  ASSUME TypeOK, Callback \/ ExecutorGoesOn
  PROVE  TypeOK'
<1> USE CallFacts DEF TypeOK, NodeTypes, ExecutorStep, Free
<1>1. ASSUME NEW g \in Goal, GoalArrives(g) PROVE TypeOK'
  BY <1>1 DEF GoalArrives, GoalTypes, QueueTypes
<1>2. ASSUME NEW g \in Goal, GoalAccepted(g) PROVE TypeOK'
  BY <1>2 DEF GoalAccepted, GoalTypes, QueueTypes, Place
<1>3. ASSUME NEW g \in Goal, Cancel(g) PROVE TypeOK'
  BY <1>3 DEF Cancel, GoalTypes, QueueTypes
<1>4. ASSUME NEW s \in ServiceRequest, ServiceArrives(s) PROVE TypeOK'
  BY <1>4 DEF ServiceArrives, GoalTypes, QueueTypes
<1>5. ASSUME NEW s \in ServiceRequest, HomeLocks(s) PROVE TypeOK'
  BY <1>5 DEF HomeLocks, GoalTypes, QueueTypes
<1>6. ASSUME NEW s \in ServiceRequest, ServiceCalls(s) PROVE TypeOK'
  <2>1. QueueTypes'
    BY <1>6, MakeCallTypes DEF ServiceCalls
  <2> QED
    BY <1>6, <2>1 DEF ServiceCalls, GoalTypes
<1>7. ASSUME NEW s \in ServiceRequest, ServiceReturns(s) PROVE TypeOK'
  BY <1>7 DEF ServiceReturns, GoalTypes, QueueTypes
<1>8. CASE Destroy
  BY <1>8 DEF Destroy, GoalTypes, QueueTypes
<1>9. CASE TransportStopped \/ JoinActionThreads
  BY <1>9 DEF TransportStopped, JoinActionThreads, GoalTypes, QueueTypes
<1> QED
  BY <1>1, <1>2, <1>3, <1>4, <1>5, <1>6, <1>7, <1>8, <1>9
  DEF Callback, ExecutorGoesOn

\* Every step keeps the types.
LEMMA TypeNext == TypeOK /\ TakenInv /\ [Next]_vars => TypeOK'
<1> SUFFICES ASSUME TypeOK, TakenInv, [Next]_vars PROVE TypeOK'
  OBVIOUS
<1>1. CASE Callback \/ ExecutorGoesOn
  BY <1>1, ExecutorTypesNext
<1>2. ASSUME NEW g \in Goal, Thread(g) PROVE TypeOK'
  BY <1>2, ThreadTypesNext
<1>3. CASE TransportGoesOn \/ Disconnects \/ Connects
  <2>1. QueueTypes'
    BY <1>3, TransportFacts DEF TypeOK
  <2> QED
    BY <1>3, <2>1 DEF TransportGoesOn, TransportWorks, GripperAnswers,
                      Disconnects, Connects, TypeOK, GoalTypes,
                      NodeTypes
<1>4. CASE UNCHANGED vars
  BY <1>4 DEF vars, TypeOK, QueueTypes, GoalTypes, NodeTypes
<1> QED
  BY <1>1, <1>2, <1>3, <1>4 DEF Next, Environment, TransportGoesOn

-----------------------------------------------------------------------------
(* The inductive invariant.                                                *)

\* At these places a goal's thread holds the mutex.
Busy == {"acceleration", "force", "motion", "watch", "stop", "finish"}

\* Who holds the mutex.
HolderInv ==
  /\ \A g \in Goal : pc[g] \in Busy <=> motion_execution_mutex_ = g
  /\ \A s \in HomeRequest :
       executor = [at |-> "service", of |-> s] <=> motion_execution_mutex_ = s

\* Somebody waits for every call that is pending.
WaitedByThread(g) ==
  /\ \A k \in {"acceleration", "force", "stop"} :
       status[<<g, k>>] = "pending" => pc[g] = k
  /\ status[<<g, "motion">>] = "pending" =>
       pc[g] \in {"motion", "watch", "stop"}
  /\ pc[g] \in {"none", "lock"} =>
       \A k \in {"acceleration", "force", "motion", "stop"} :
         status[<<g, k>>] = "idle"

WaitedByExecutor(s) ==
  status[<<s, "service">>] = "pending" =>
    executor = [at |-> "service", of |-> s]

WaitedInv ==
  /\ \A g \in Goal : WaitedByThread(g)
  /\ \A s \in ServiceRequest : WaitedByExecutor(s)

\* How a goal stands follows from where its thread is.
StandingInv ==
  \A g \in Goal :
    /\ pc[g] = "none" => goal_status[g] = "none"
    /\ pc[g] = "done" => goal_status[g] \in Outcome
    /\ pc[g] = "finish" => outcome[g] \in Outcome

\* The generations of the goals accepted so far are different.
GenerationInv ==
  \A g \in Goal :
    /\ generation[g] <= motion_generation_
    /\ pc[g] = "none" <=> generation[g] = 0
    /\ \A h \in Goal : g # h /\ generation[g] # 0 => generation[g] # generation[h]

\* The executor is waiting for the right thing.
ExecutorInv ==
  /\ \A g \in Goal : executor = [at |-> "accept", of |-> g] => pc[g] = "none"
  /\ executor.at = "gone" => \A g \in Goal : pc[g] \in {"none", "done"}

IInv ==
  /\ TypeOK /\ TakenInv /\ HolderInv /\ WaitedInv /\ StandingInv
  /\ GenerationInv /\ ExecutorInv /\ NewerGoalSilencesOlder

\* They hold at first.
LEMMA InitIInv == Init => IInv
<1> SUFFICES ASSUME Init PROVE IInv
  OBVIOUS
<1>1. TypeOK
  BY TypeInit
<1>2. /\ status = [c \in Call |-> "idle"] /\ Taken = {}
  BY DEF Init, Q!Init, Taken, Range
<1>3. TakenInv
  BY <1>2 DEF TakenInv
<1>4. HolderInv
  BY CallFacts DEF Init, HolderInv, Busy, Free
<1>5. WaitedInv
  BY <1>2, CallFacts DEF WaitedInv, WaitedByThread, WaitedByExecutor
<1>6. StandingInv /\ GenerationInv /\ ExecutorInv
  BY DEF Init, StandingInv, GenerationInv, ExecutorInv, Free
<1>7. NewerGoalSilencesOlder
  BY DEF Init, NewerGoalSilencesOlder
<1> QED
  BY <1>1, <1>3, <1>4, <1>5, <1>6, <1>7 DEF IInv

\* All but the types and what the transport has taken charge of.
DriverInv ==
  /\ HolderInv /\ WaitedInv /\ StandingInv
  /\ GenerationInv /\ ExecutorInv /\ NewerGoalSilencesOlder

\* A step that only ends calls keeps the invariant.
LEMMA TransportStep ==
  ASSUME IInv, TransportGoesOn \/ Disconnects \/ Connects
  PROVE  TakenInv' /\ DriverInv'
<1>1. /\ Taken' \subseteq Taken
      /\ \A c \in Call :
           status'[c] # status[c] =>
             status[c] # "idle" /\ status'[c] \notin {"idle", "pending"}
  BY TransportFacts DEF IInv, TypeOK
<1>2. UNCHANGED <<goals, threads, node>>
  BY DEF TransportGoesOn, TransportWorks, GripperAnswers, Disconnects, Connects
<1>3. Taken \subseteq Call
  BY CallFacts DEF Taken, IInv, TypeOK, QueueTypes, Range
<1>4. TakenInv'
  BY <1>1, <1>3 DEF TakenInv, IInv
<1>5. HolderInv' /\ StandingInv' /\ GenerationInv' /\ ExecutorInv'
  BY <1>2 DEF IInv, HolderInv, StandingInv, GenerationInv, ExecutorInv
<1>6. WaitedInv'
  BY <1>1, <1>2, CallFacts DEF IInv, WaitedInv, WaitedByThread, WaitedByExecutor
<1>7. NewerGoalSilencesOlder'
  BY <1>1, <1>2, CallFacts DEF IInv, NewerGoalSilencesOlder
<1> QED
  BY <1>4, <1>5, <1>6, <1>7 DEF DriverInv

\* The call a goal makes is its own, of the kind its thread is at; no newer
\* goal has sent anything, because this one holds the mutex.
LEMMA GoalCallsStep ==
  ASSUME IInv, NEW g \in Goal, GoalCalls(g)
  PROVE  TakenInv' /\ DriverInv'
<1> DEFINE c == <<g, pc[g]>>
<1>1. c \in Call /\ pc[g] \in Busy
  BY CallFacts DEF GoalCalls, Busy
<1>2. /\ MakeCall(c) /\ QueueTypes
      /\ UNCHANGED <<connection, goals, threads, node>>
  BY DEF GoalCalls, IInv, TypeOK
<1>3. /\ \/ status' = [status EXCEPT ![c] = "pending"]
         \/ status' = [status EXCEPT ![c] = "failed"]
      /\ Taken' \subseteq Taken \cup {c}
  BY <1>1, <1>2, MakeCallFacts DEF Taken
<1>4. \A d \in Call : d # c => status'[d] = status[d]
  BY <1>2, <1>3 DEF QueueTypes
<1>5. status'[c] # "idle"
  BY <1>1, <1>2, <1>3 DEF QueueTypes
<1>6. Taken \subseteq Call
  BY CallFacts DEF Taken, IInv, TypeOK, QueueTypes, Range
<1>7. TakenInv'
  BY <1>1, <1>3, <1>4, <1>5, <1>6 DEF TakenInv, IInv
<1>8. HolderInv' /\ StandingInv' /\ GenerationInv' /\ ExecutorInv'
  BY <1>2 DEF IInv, HolderInv, StandingInv, GenerationInv, ExecutorInv
<1>9. WaitedInv'
  BY <1>1, <1>2, <1>4, CallFacts
  DEF IInv, WaitedInv, WaitedByThread, WaitedByExecutor, Busy
<1>10. NewerGoalSilencesOlder'
  <2> SUFFICES ASSUME NEW a \in Goal, NEW b \in Goal,
                      generation[a] # 0, generation[a] < generation[b],
                      status'[<<b, "acceleration">>] # "idle"
               PROVE  /\ pc[a] \in {"lock", "finish", "done"}
                      /\ \A k \in {"acceleration", "force", "motion", "stop"} :
                           status'[<<a, k>>] # "pending"
    BY <1>2 DEF NewerGoalSilencesOlder
  <2>1. CASE status[<<b, "acceleration">>] # "idle"
    BY <1>1, <1>4, <2>1, CallFacts DEF IInv, NewerGoalSilencesOlder, Busy, GoalCalls
  <2>2. CASE status[<<b, "acceleration">>] = "idle"
    <3>1. b = g
      BY <1>4, <2>2, CallFacts
    <3>2. pc[a] \notin Busy /\ a # b
      BY <1>1, <3>1 DEF IInv, HolderInv, TypeOK, GoalTypes
    <3>3. pc[a] \in {"lock", "done"}
      BY <3>2 DEF IInv, TypeOK, GoalTypes, Place, Busy, GenerationInv
    <3>4. \A k \in {"acceleration", "force", "motion", "stop"} :
            status[<<a, k>>] # "pending" /\ <<a, k>> # c
      BY <3>1, <3>2, <3>3 DEF IInv, WaitedInv, WaitedByThread, WaitedByExecutor
    <3> QED
      BY <1>4, <3>3, <3>4, CallFacts
  <2> QED
    BY <2>1, <2>2
<1> QED
  BY <1>7, <1>8, <1>9, <1>10 DEF DriverInv

\* A thread's steps between its calls.
LEMMA ThreadStepInv ==
  ASSUME IInv, NEW g \in Goal, Thread(g)
  PROVE  TakenInv' /\ DriverInv'
<1> USE DEF IInv, TypeOK, GoalTypes, NodeTypes
<1>1. CASE GoalCalls(g)
  BY <1>1, GoalCallsStep
<1>2. ASSUME NEW p \in {"acceleration", "finish"},
             pc[g] = "lock", motion_execution_mutex_ = None,
             motion_execution_mutex_' = g, pc' = [pc EXCEPT ![g] = p],
             p = "acceleration" => ~Preempted(g) /\ outcome' = outcome,
             p = "finish" => \E o \in Outcome : outcome' = [outcome EXCEPT ![g] = o],
             UNCHANGED <<transport, connection, goals, executor, shutting_down_>>
      PROVE  TakenInv' /\ DriverInv'
  <2>1. TakenInv'
    BY <1>2 DEF TakenInv, Taken
  <2>2. HolderInv'
    BY <1>2, CallFacts DEF HolderInv, Busy
  <2>3. WaitedInv'
    <3>1. WaitedByThread(g)'
      BY <1>2 DEF WaitedInv, WaitedByThread
    <3>2. ASSUME NEW h \in Goal, h # g PROVE WaitedByThread(h)'
      BY <1>2, <3>2 DEF WaitedInv, WaitedByThread
    <3>3. ASSUME NEW s \in ServiceRequest PROVE WaitedByExecutor(s)'
      BY <1>2 DEF WaitedInv, WaitedByExecutor
    <3> QED
      BY <3>1, <3>2, <3>3 DEF WaitedInv
  <2>4. StandingInv'
    BY <1>2 DEF StandingInv
  <2>5. GenerationInv' /\ ExecutorInv'
    BY <1>2 DEF GenerationInv, ExecutorInv
  <2>6. NewerGoalSilencesOlder'
    BY <1>2 DEF NewerGoalSilencesOlder, GenerationInv, Preempted
  <2> QED
    BY <2>1, <2>2, <2>3, <2>4, <2>5, <2>6 DEF DriverInv
<1>3. CASE Begin(g)
  <2>1. CASE Preempted(g) \/ shutting_down_
    BY <1>2, <1>3, <2>1 DEF Begin, End, ThreadStep, Unlucky, Outcome
  <2>2. CASE ~(Preempted(g) \/ shutting_down_)
    BY <1>2, <1>3, <2>2 DEF Begin, ThreadStep
  <2> QED
    BY <2>1, <2>2
\* A step from one place where the mutex is held to another: the call made
\* at this place has returned, except for a motion that is being watched.
<1>4. ASSUME NEW p \in Busy,
             pc[g] \in Busy \ {"finish"}, pc' = [pc EXCEPT ![g] = p],
             \/ pc[g] # "watch" /\ status[<<g, pc[g]>>] # "pending" /\ p # "stop"
             \/ pc[g] = "motion" /\ p = "watch"
             \/ pc[g] = "watch" /\ p \in {"motion", "stop"},
             pc[g] = "stop" => p = "motion",
             \/ p # "finish" /\ outcome' = outcome
             \/ \E o \in Outcome : outcome' = [outcome EXCEPT ![g] = o],
             UNCHANGED <<transport, connection, goals, motion_execution_mutex_,
                         executor, shutting_down_>>
      PROVE  TakenInv' /\ DriverInv'
  <2>1. TakenInv'
    BY <1>4 DEF TakenInv, Taken
  <2>2. HolderInv'
    BY <1>4 DEF HolderInv
  <2>3. WaitedInv'
    <3>1. WaitedByThread(g)'
      BY <1>4 DEF WaitedInv, WaitedByThread, Busy
    <3>2. ASSUME NEW h \in Goal, h # g PROVE WaitedByThread(h)'
      BY <1>4, <3>2 DEF WaitedInv, WaitedByThread
    <3>3. ASSUME NEW s \in ServiceRequest PROVE WaitedByExecutor(s)'
      BY <1>4 DEF WaitedInv, WaitedByExecutor
    <3> QED
      BY <3>1, <3>2, <3>3 DEF WaitedInv
  <2>4. StandingInv'
    BY <1>4 DEF StandingInv, Busy
  <2>5. GenerationInv' /\ ExecutorInv'
    BY <1>4 DEF GenerationInv, ExecutorInv, Busy
  <2>6. NewerGoalSilencesOlder'
    BY <1>4 DEF NewerGoalSilencesOlder, Busy
  <2> QED
    BY <2>1, <2>2, <2>3, <2>4, <2>5, <2>6 DEF DriverInv
<1>5. CASE SettingReturns(g)
  BY <1>4, <1>5 DEF SettingReturns, NextSetting, End, ThreadStep, Busy, Outcome,
                    Returned
<1>6. CASE WaitsOn(g) \/ NoticeInterruption(g) \/ StopReturns(g)
  BY <1>4, <1>6 DEF WaitsOn, NoticeInterruption, StopReturns, ThreadStep, Busy,
                    Returned
<1>7. CASE MotionReturns(g)
  <2>1. PICK reached \in BOOLEAN : End(g, Ending(g, reached))
    BY <1>7 DEF MotionReturns
  <2>2. Ending(g, reached) \in Outcome
    BY DEF Ending, Outcome
  <2> QED
    BY <1>4, <1>7, <2>1, <2>2 DEF MotionReturns, End, ThreadStep, Busy, Returned
<1>8. CASE Finish(g)
  <2>1. TakenInv'
    BY <1>8 DEF Finish, TakenInv, Taken
  <2>2. HolderInv'
    BY <1>8, CallFacts DEF Finish, HolderInv, Busy
  <2>3. WaitedInv'
    <3>1. WaitedByThread(g)'
      BY <1>8 DEF Finish, WaitedInv, WaitedByThread
    <3>2. ASSUME NEW h \in Goal, h # g PROVE WaitedByThread(h)'
      BY <1>8, <3>2 DEF Finish, WaitedInv, WaitedByThread
    <3>3. ASSUME NEW s \in ServiceRequest PROVE WaitedByExecutor(s)'
      BY <1>8 DEF Finish, WaitedInv, WaitedByExecutor
    <3> QED
      BY <3>1, <3>2, <3>3 DEF WaitedInv
  <2>4. StandingInv'
    BY <1>8 DEF Finish, StandingInv
  <2>5. GenerationInv' /\ ExecutorInv'
    BY <1>8 DEF Finish, GenerationInv, ExecutorInv
  <2>6. NewerGoalSilencesOlder'
    BY <1>8 DEF Finish, NewerGoalSilencesOlder
  <2> QED
    BY <2>1, <2>2, <2>3, <2>4, <2>5, <2>6 DEF DriverInv
<1> QED
  BY <1>1, <1>3, <1>5, <1>6, <1>7, <1>8 DEF Thread

\* The steps of the executor.
LEMMA ExecutorStepInv ==
  ASSUME IInv, Callback \/ ExecutorGoesOn
  PROVE  TakenInv' /\ DriverInv'
<1> USE DEF IInv, TypeOK, GoalTypes, NodeTypes
\* A step that touches neither the goals nor the transport.
<1> DEFINE StatusKept ==
      \A g \in Goal : \/ goal_status'[g] = goal_status[g]
                     \/ /\ goal_status[g] = "executing"
                        /\ goal_status'[g] = "canceling"
<1>1. ASSUME UNCHANGED <<transport, motion_generation_, generation, pc, outcome>>,
             StatusKept, HolderInv', \A s \in ServiceRequest : WaitedByExecutor(s)',
             ExecutorInv'
      PROVE  TakenInv' /\ DriverInv'
  <2>1. TakenInv'
    BY <1>1 DEF TakenInv, Taken
  <2>2. WaitedInv'
    BY <1>1 DEF WaitedInv, WaitedByThread
  <2>3. StandingInv' /\ GenerationInv'
    BY <1>1 DEF StandingInv, GenerationInv, Outcome
  <2>4. NewerGoalSilencesOlder'
    BY <1>1 DEF NewerGoalSilencesOlder
  <2> QED
    BY <1>1, <2>1, <2>2, <2>3, <2>4 DEF DriverInv
<1>2. ASSUME NEW g \in Goal, GoalArrives(g) PROVE TakenInv' /\ DriverInv'
  <2>1. HolderInv' /\ ExecutorInv'
    BY <1>2 DEF GoalArrives, HolderInv, ExecutorInv, Free
  <2>2. \A s \in ServiceRequest : WaitedByExecutor(s)'
    BY <1>2 DEF GoalArrives, WaitedInv, WaitedByExecutor, Free
  <2>3. UNCHANGED <<transport, motion_generation_, generation, pc, outcome>>
    BY <1>2 DEF GoalArrives
  <2>4. StatusKept
    BY <1>2 DEF GoalArrives
  <2> HIDE DEF StatusKept
  <2> QED
    BY <1>1, <2>1, <2>2, <2>3, <2>4
<1>3. ASSUME NEW g \in Goal, Cancel(g) PROVE TakenInv' /\ DriverInv'
  <2>1. HolderInv' /\ ExecutorInv'
    BY <1>3 DEF Cancel, HolderInv, ExecutorInv
  <2>2. \A s \in ServiceRequest : WaitedByExecutor(s)'
    BY <1>3 DEF Cancel, WaitedInv, WaitedByExecutor
  <2>3. UNCHANGED <<transport, motion_generation_, generation, pc, outcome>>
    BY <1>3 DEF Cancel
  <2>4. StatusKept
    BY <1>3 DEF Cancel
  <2> HIDE DEF StatusKept
  <2> QED
    BY <1>1, <2>1, <2>2, <2>3, <2>4
<1>4. ASSUME NEW s \in ServiceRequest, ServiceArrives(s)
      PROVE  TakenInv' /\ DriverInv'
  <2>1. HolderInv' /\ ExecutorInv'
    BY <1>4, CallFacts DEF ServiceArrives, ExecutorStep, HolderInv, ExecutorInv,
                           Free
  <2>2. \A t \in ServiceRequest : WaitedByExecutor(t)'
    BY <1>4 DEF ServiceArrives, ExecutorStep, WaitedInv, WaitedByExecutor, Free
  <2>3. UNCHANGED <<transport, motion_generation_, generation, pc, outcome>>
    BY <1>4 DEF ServiceArrives, ExecutorStep
  <2>4. StatusKept
    BY <1>4 DEF ServiceArrives, ExecutorStep
  <2> HIDE DEF StatusKept
  <2> QED
    BY <1>1, <2>1, <2>2, <2>3, <2>4
<1>5. ASSUME NEW s \in ServiceRequest, HomeLocks(s)
      PROVE  TakenInv' /\ DriverInv'
  <2>1. HolderInv' /\ ExecutorInv'
    BY <1>5, CallFacts DEF HomeLocks, ExecutorStep, HolderInv, ExecutorInv, Free
  <2>2. \A t \in ServiceRequest : WaitedByExecutor(t)'
    BY <1>5 DEF HomeLocks, ExecutorStep, WaitedInv, WaitedByExecutor, Free
  <2>3. UNCHANGED <<transport, motion_generation_, generation, pc, outcome>>
    BY <1>5 DEF HomeLocks, ExecutorStep
  <2>4. StatusKept
    BY <1>5 DEF HomeLocks, ExecutorStep
  <2> HIDE DEF StatusKept
  <2> QED
    BY <1>1, <2>1, <2>2, <2>3, <2>4
<1>6. ASSUME NEW s \in ServiceRequest, ServiceReturns(s)
      PROVE  TakenInv' /\ DriverInv'
  <2>1. HolderInv' /\ ExecutorInv'
    BY <1>6, CallFacts DEF ServiceReturns, HolderInv, ExecutorInv, Free
  <2>2. \A t \in ServiceRequest : WaitedByExecutor(t)'
    BY <1>6 DEF ServiceReturns, WaitedInv, WaitedByExecutor, Free, Returned
  <2>3. UNCHANGED <<transport, motion_generation_, generation, pc, outcome>>
    BY <1>6 DEF ServiceReturns
  <2>4. StatusKept
    BY <1>6 DEF ServiceReturns
  <2> HIDE DEF StatusKept
  <2> QED
    BY <1>1, <2>1, <2>2, <2>3, <2>4
<1>7. CASE Destroy \/ TransportStopped \/ JoinActionThreads
  <2>1. HolderInv' /\ ExecutorInv'
    BY <1>7 DEF Destroy, TransportStopped, JoinActionThreads, ExecutorStep,
                HolderInv, ExecutorInv, Free
  <2>2. \A t \in ServiceRequest : WaitedByExecutor(t)'
    BY <1>7 DEF Destroy, TransportStopped, JoinActionThreads, ExecutorStep,
                WaitedInv, WaitedByExecutor, Free
  <2>3. UNCHANGED <<transport, motion_generation_, generation, pc, outcome>>
    BY <1>7
    DEF Destroy, TransportStopped, JoinActionThreads, ExecutorStep
  <2>4. StatusKept
    BY <1>7
    DEF Destroy, TransportStopped, JoinActionThreads, ExecutorStep
  <2> HIDE DEF StatusKept
  <2> QED
    BY <1>1, <2>1, <2>2, <2>3, <2>4
\* The newest goal has sent nothing yet.
<1>8. ASSUME NEW g \in Goal, GoalAccepted(g) PROVE TakenInv' /\ DriverInv'
  <2>1. /\ pc[g] = "none" /\ pc' = [pc EXCEPT ![g] = "lock"]
        /\ motion_generation_' = motion_generation_ + 1
        /\ generation' = [generation EXCEPT ![g] = motion_generation_ + 1]
        /\ goal_status' = [goal_status EXCEPT ![g] = "executing"]
        /\ executor' = Free /\ executor = [at |-> "accept", of |-> g]
        /\ UNCHANGED <<transport, outcome, motion_execution_mutex_>>
    BY <1>8 DEF GoalAccepted, ExecutorInv
  <2>2. TakenInv'
    BY <2>1 DEF TakenInv, Taken
  <2>3. HolderInv'
    BY <2>1, CallFacts DEF HolderInv, Busy, Free
  <2>4. WaitedInv'
    <3>1. WaitedByThread(g)'
      BY <2>1 DEF WaitedInv, WaitedByThread
    <3>2. ASSUME NEW h \in Goal, h # g PROVE WaitedByThread(h)'
      BY <2>1, <3>2 DEF WaitedInv, WaitedByThread
    <3>3. ASSUME NEW s \in ServiceRequest PROVE WaitedByExecutor(s)'
      BY <2>1 DEF WaitedInv, WaitedByExecutor
    <3> QED
      BY <3>1, <3>2, <3>3 DEF WaitedInv
  <2>5. StandingInv' /\ ExecutorInv'
    BY <2>1 DEF StandingInv, ExecutorInv, Free
  <2>6. GenerationInv'
    BY <2>1 DEF GenerationInv
  <2>7. \A k \in {"acceleration", "force", "motion", "stop"} :
          status[<<g, k>>] = "idle"
    BY <2>1 DEF WaitedInv, WaitedByThread
  <2>8. NewerGoalSilencesOlder'
    <3> SUFFICES ASSUME NEW a \in Goal, NEW b \in Goal,
                        generation'[a] # 0, generation'[a] < generation'[b],
                        status'[<<b, "acceleration">>] # "idle"
                 PROVE  /\ pc'[a] \in {"lock", "finish", "done"}
                        /\ \A k \in {"acceleration", "force", "motion", "stop"} :
                             status'[<<a, k>>] # "pending"
      BY DEF NewerGoalSilencesOlder
    <3>1. b # g /\ a # g
      BY <2>1, <2>7 DEF GenerationInv
    <3> QED
      BY <2>1, <3>1 DEF NewerGoalSilencesOlder
  <2> QED
    BY <2>2, <2>3, <2>4, <2>5, <2>6, <2>8 DEF DriverInv
<1>9. ASSUME NEW s \in ServiceRequest, ServiceCalls(s)
      PROVE  TakenInv' /\ DriverInv'
  <2> DEFINE c == <<s, "service">>
  <2>1. /\ c \in Call /\ MakeCall(c) /\ UNCHANGED <<connection, goals, threads, node>>
        /\ executor = [at |-> "service", of |-> s]
    BY <1>9, CallFacts DEF ServiceCalls
  <2>2. /\ \A d \in Call : d # c => status'[d] = status[d]
        /\ status'[c] # "idle"
        /\ Taken' \subseteq Taken \cup {c}
    <3>1. /\ \/ status' = [status EXCEPT ![c] = "pending"]
             \/ status' = [status EXCEPT ![c] = "failed"]
          /\ Taken' \subseteq Taken \cup {c}
      BY <2>1, MakeCallFacts DEF Taken
    <3> QED
      BY <2>1, <3>1 DEF QueueTypes
  <2>3. Taken \subseteq Call
    BY CallFacts DEF Taken, QueueTypes, Range
  <2>4. TakenInv'
    BY <2>1, <2>2, <2>3 DEF TakenInv
  <2>5. HolderInv' /\ StandingInv' /\ GenerationInv' /\ ExecutorInv'
    BY <2>1 DEF HolderInv, StandingInv, GenerationInv, ExecutorInv
  <2>6. \A g \in Goal, k \in {"acceleration", "force", "motion", "stop"} :
          status'[<<g, k>>] = status[<<g, k>>]
    BY <2>2, CallFacts
  <2>7. WaitedInv'
    <3>1. ASSUME NEW g \in Goal PROVE WaitedByThread(g)'
      BY <2>1, <2>6 DEF WaitedInv, WaitedByThread
    <3>2. ASSUME NEW t \in ServiceRequest PROVE WaitedByExecutor(t)'
      BY <2>1, <2>2, CallFacts DEF WaitedInv, WaitedByExecutor
    <3> QED
      BY <3>1, <3>2 DEF WaitedInv
  <2>8. NewerGoalSilencesOlder'
    <3> SUFFICES ASSUME NEW a \in Goal, NEW b \in Goal,
                        generation'[a] # 0, generation'[a] < generation'[b],
                        status'[<<b, "acceleration">>] # "idle"
                 PROVE  /\ pc'[a] \in {"lock", "finish", "done"}
                        /\ \A k \in {"acceleration", "force", "motion", "stop"} :
                             status'[<<a, k>>] # "pending"
      BY DEF NewerGoalSilencesOlder
    <3>1. generation' = generation /\ pc' = pc
      BY <2>1
    <3>2. status[<<b, "acceleration">>] # "idle"
      BY <2>6
    <3>3. \A k \in {"acceleration", "force", "motion", "stop"} :
            status[<<a, k>>] # "pending"
      BY <3>1, <3>2 DEF NewerGoalSilencesOlder
    <3>4. pc[a] \in {"lock", "finish", "done"}
      BY <3>1, <3>2 DEF NewerGoalSilencesOlder
    <3> QED
      BY <2>6, <3>1, <3>3, <3>4
  <2> QED
    BY <2>4, <2>5, <2>7, <2>8 DEF DriverInv
<1> QED
  BY <1>2, <1>3, <1>4, <1>5, <1>6, <1>7, <1>8, <1>9
  DEF Callback, ExecutorGoesOn

-----------------------------------------------------------------------------
(* The theorems.                                                           *)

\* Every step keeps the invariant.
LEMMA NextIInv == IInv /\ [Next]_vars => IInv'
<1> SUFFICES ASSUME IInv, [Next]_vars PROVE IInv'
  OBVIOUS
<1>1. TypeOK'
  BY TypeNext DEF IInv
<1>2. CASE Callback \/ ExecutorGoesOn
  BY <1>1, <1>2, ExecutorStepInv DEF IInv, DriverInv
<1>3. ASSUME NEW g \in Goal, Thread(g) PROVE IInv'
  BY <1>1, <1>3, ThreadStepInv DEF IInv, DriverInv
<1>4. CASE TransportGoesOn \/ Disconnects \/ Connects
  BY <1>1, <1>4, TransportStep DEF IInv, DriverInv
<1>5. CASE UNCHANGED vars
  <2>1. UNCHANGED <<transport, goals, threads, node>>
    BY <1>5 DEF vars
  <2>2. TakenInv'
    BY <2>1 DEF IInv, TakenInv, Taken
  <2>3. HolderInv' /\ StandingInv' /\ GenerationInv' /\ ExecutorInv'
    BY <2>1 DEF IInv, HolderInv, StandingInv, GenerationInv, ExecutorInv
  <2>4. WaitedInv' /\ NewerGoalSilencesOlder'
    BY <2>1 DEF IInv, WaitedInv, WaitedByThread, WaitedByExecutor,
                NewerGoalSilencesOlder
  <2> QED
    BY <1>1, <2>2, <2>3, <2>4 DEF IInv
<1> QED
  BY <1>2, <1>3, <1>4, <1>5 DEF Next, Environment, TransportGoesOn

\* The inductive invariant holds in every behaviour.
THEOREM Invariant == Spec => []IInv
BY InitIInv, NextIInv, PTL DEF Spec

\* Every variable keeps to its type.
THEOREM TypeCorrect == Spec => []TypeOK
<1>1. IInv => TypeOK
  BY DEF IInv
<1> QED
  BY <1>1, Invariant, PTL

\* While a motion or a homing that a goal or ~/home asked for has not come
\* back, nobody else can ask for one: the one who asked holds the mutex.
THEOREM OneMotion == Spec => []OneMotionAtATime
<1>1. IInv => OneMotionAtATime
  <2> SUFFICES ASSUME IInv, NEW c \in MotionCall, status[c] = "pending"
               PROVE  motion_execution_mutex_ = c[1]
    BY DEF OneMotionAtATime
  <2>1. CASE c \in Goal \X {"motion"}
    <3>1. PICK g \in Goal : c = <<g, "motion">>
      BY <2>1
    <3>2. pc[g] \in {"motion", "watch", "stop"}
      BY <3>1 DEF IInv, WaitedInv, WaitedByThread
    <3> QED
      BY <3>1, <3>2 DEF IInv, HolderInv, Busy
  <2>2. CASE c \in HomeRequest \X {"service"}
    <3>1. PICK s \in HomeRequest : c = <<s, "service">>
      BY <2>2
    <3>2. executor = [at |-> "service", of |-> s]
      BY <3>1, CallFacts DEF IInv, WaitedInv, WaitedByExecutor
    <3> QED
      BY <3>1, <3>2 DEF IInv, HolderInv
  <2> QED
    BY <2>1, <2>2 DEF MotionCall
<1> QED
  BY <1>1, Invariant, PTL

\* Once a newer goal has sent anything, an older one has no call pending and
\* makes none: no STOP meant for it hits the newer goal's motion.
THEOREM NewerSilencesOlder == Spec => []NewerGoalSilencesOlder
<1>1. IInv => NewerGoalSilencesOlder
  BY DEF IInv
<1> QED
  BY <1>1, Invariant, PTL

\* When the destructor has joined the threads no goal is open, no call is
\* pending and the mutex is free.
THEOREM NothingOutlives == Spec => []NothingOutlivesNode
<1>1. IInv => NothingOutlivesNode
  <2> SUFFICES ASSUME IInv, executor.at = "gone"
               PROVE  /\ \A g \in Goal : goal_status[g] \in Outcome \cup {"none"}
                      /\ \A c \in Call : status[c] # "pending"
                      /\ motion_execution_mutex_ = None
    BY DEF NothingOutlivesNode
  <2>1. \A g \in Goal : pc[g] \in {"none", "done"}
    BY DEF IInv, ExecutorInv
  <2>2. \A g \in Goal : goal_status[g] \in Outcome \cup {"none"}
    BY <2>1 DEF IInv, StandingInv
  <2>3. ASSUME NEW g \in Goal
        PROVE  /\ \A k \in {"acceleration", "force", "stop"} :
                    status[<<g, k>>] # "pending"
               /\ status[<<g, "motion">>] # "pending"
    <3>1. WaitedByThread(g) /\ pc[g] \in {"none", "done"}
      BY <2>1 DEF IInv, WaitedInv
    <3> QED
      BY <3>1 DEF WaitedByThread
  <2>4. ASSUME NEW s \in ServiceRequest PROVE status[<<s, "service">>] # "pending"
    <3>1. WaitedByExecutor(s)
      BY DEF IInv, WaitedInv
    <3>2. executor # [at |-> "service", of |-> s]
      OBVIOUS
    <3> QED
      BY <3>1, <3>2 DEF WaitedByExecutor
  <2>5. ASSUME NEW c \in Call PROVE status[c] # "pending"
    <3>1. CASE \E g \in Goal : \E k \in {"acceleration", "force", "motion", "stop"} :
                 c = <<g, k>>
      BY <2>3, <3>1
    <3>2. CASE \E s \in ServiceRequest : c = <<s, "service">>
      BY <2>4, <3>2
    <3> QED
      BY <3>1, <3>2 DEF Call
  <2>6. motion_execution_mutex_ = None
    BY <2>1 DEF IInv, HolderInv, Busy, TypeOK, NodeTypes
  <2> QED
    BY <2>2, <2>5, <2>6
<1> QED
  BY <1>1, Invariant, PTL
-----------------------------------------------------------------------------
(* The node keeps to what the transport promises: whatever the goals, the  *)
(* services and the destructor do, the transport they share takes a step   *)
(* of CommandQueue or none.  TransportImplementsQueue of                   *)
(* TransportQueueProofs is the other half.                                 *)

LEMMA NoQueueStep ==
  ASSUME UNCHANGED transport
  PROVE  UNCHANGED Q!qvars
BY DEF Q!qvars

LEMMA MakeCallIsQueued ==
  ASSUME NEW c \in Call, MakeCall(c)
  PROVE  Q!Next
BY DEF MakeCall, Q!Next

LEMMA TransportIsQueue ==
  ASSUME TransportGoesOn
  PROVE  Q!Next
<1>1. CASE Q!Send
  BY <1>1 DEF Q!Next
<1>2. CASE \E c \in Call : Q!FailDropped(c)
  BY <1>2 DEF Q!Next
<1>3. CASE \E c \in Call : \E a \in PossibleAnswer(c) : Q!Return(c, a)
  <2>0. PICK c \in Call : \E a \in PossibleAnswer(c) : Q!Return(c, a)
    BY <1>3
  <2>1. PICK a \in PossibleAnswer(c) : Q!Return(c, a)
    BY <2>0
  <2>2. a \in {"success", "blocked"} \cup {"failed"}
    BY DEF PossibleAnswer
  <2> QED
    BY <2>1, <2>2 DEF Q!Next
<1> QED
  BY <1>1, <1>2, <1>3 DEF TransportGoesOn, TransportWorks, GripperAnswers

LEMMA ThreadKeepsToQueue ==
  ASSUME NEW g \in Goal, Thread(g)
  PROVE  [Q!Next]_(Q!qvars)
<1>1. CASE GoalCalls(g)
  <2>1. <<g, pc[g]>> \in Call /\ MakeCall(<<g, pc[g]>>)
    BY <1>1, CallFacts DEF GoalCalls
  <2> QED
    BY <2>1, MakeCallIsQueued
<1>2. CASE Begin(g) \/ SettingReturns(g) \/ WaitsOn(g) \/ NoticeInterruption(g)
  BY <1>2, NoQueueStep
     DEF Begin, SettingReturns, WaitsOn, NoticeInterruption
<1>3. CASE StopReturns(g) \/ MotionReturns(g) \/ Finish(g)
  BY <1>3, NoQueueStep DEF StopReturns, MotionReturns, Finish
<1> QED
  BY <1>1, <1>2, <1>3 DEF Thread

LEMMA ExecutorKeepsToQueue ==
  ASSUME Callback \/ ExecutorGoesOn
  PROVE  [Q!Next]_(Q!qvars)
<1>1. CASE Callback
  BY <1>1, NoQueueStep
     DEF Callback, GoalArrives, Cancel, ServiceArrives, Destroy
<1>2. ASSUME NEW s \in ServiceRequest, ServiceCalls(s)
      PROVE  [Q!Next]_(Q!qvars)
  <2>1. <<s, "service">> \in Call /\ MakeCall(<<s, "service">>)
    BY <1>2, CallFacts DEF ServiceCalls
  <2> QED
    BY <2>1, MakeCallIsQueued
<1>3. ASSUME NEW s \in ServiceRequest, HomeLocks(s) \/ ServiceReturns(s)
      PROVE  [Q!Next]_(Q!qvars)
  BY <1>3, NoQueueStep DEF HomeLocks, ServiceReturns
<1>4. CASE \E g \in Goal : GoalAccepted(g)
  BY <1>4, NoQueueStep DEF GoalAccepted
<1>5. CASE TransportStopped \/ JoinActionThreads
  BY <1>5, NoQueueStep DEF TransportStopped, JoinActionThreads
<1> QED
  BY <1>1, <1>2, <1>3, <1>4, <1>5 DEF ExecutorGoesOn

LEMMA QueueNext == [Next]_vars => [Q!Next]_(Q!qvars)
<1> SUFFICES ASSUME [Next]_vars PROVE [Q!Next]_(Q!qvars)
  OBVIOUS
<1>1. CASE Callback \/ ExecutorGoesOn
  BY <1>1, ExecutorKeepsToQueue
<1>2. CASE \E g \in Goal : Thread(g)
  BY <1>2, ThreadKeepsToQueue
<1>3. CASE TransportGoesOn
  BY <1>3, TransportIsQueue
<1>4. CASE Connects \/ Disconnects
  BY <1>4 DEF Connects, Disconnects, Q!Next
<1>5. CASE UNCHANGED vars
  BY <1>5, NoQueueStep DEF vars
<1> QED
  BY <1>1, <1>2, <1>3, <1>4, <1>5 DEF Next, Environment, TransportGoesOn

-----------------------------------------------------------------------------
(* What became of a call.                                                  *)

\* A call is in one place at a time, and it is there exactly while its caller
\* waits: the transport forgets none and has none that is over.
PlacedInv ==
  /\ IsInjective(queue) /\ IsInjective(priorityQueue)
  /\ (Range(queue) \cup Range(priorityQueue)) \cap (flying \cup dropped) = {}
  /\ flying \cap dropped = {}
  /\ \A c \in Call : c \in Taken <=> status[c] = "pending"

\* The two queues have nothing in common.
LEMMA QueuesAreApart ==
  ASSUME QueueTypes
  PROVE  /\ Range(queue) \subseteq Call \ UrgentCall
         /\ Range(priorityQueue) \subseteq UrgentCall
BY DEF QueueTypes, Range

\* A call that is queued was nowhere before.
LEMMA EnqueuePlaces ==
  ASSUME QueueTypes, PlacedInv, NEW c \in Call, Q!Enqueue(c)
  PROVE  PlacedInv'
<1>1. /\ status[c] = "idle" /\ status' = [status EXCEPT ![c] = "pending"]
      /\ flying' = flying /\ dropped' = dropped
  BY DEF Q!Enqueue
<1>2. c \notin Taken
  BY <1>1 DEF PlacedInv
<1>3. \A d \in Call : status'[d] = IF d = c THEN "pending" ELSE status[d]
  BY <1>1 DEF QueueTypes
<1>4. CASE c \in UrgentCall
  <2>1. priorityQueue' = Append(priorityQueue, c) /\ queue' = queue
    BY <1>4 DEF Q!Enqueue
  <2>2. /\ Range(priorityQueue') = Range(priorityQueue) \cup {c}
        /\ IsInjective(priorityQueue')
    BY <1>2, <1>4, <2>1, AppendFacts DEF QueueTypes, PlacedInv, Taken
  <2>3. Taken' = Taken \cup {c}
    BY <1>1, <2>1, <2>2 DEF Taken
  <2> QED
    BY <1>1, <1>2, <1>3, <2>1, <2>2, <2>3 DEF PlacedInv, Taken
<1>5. CASE c \notin UrgentCall
  <2>1. queue' = Append(queue, c) /\ priorityQueue' = priorityQueue
    BY <1>5 DEF Q!Enqueue
  <2>2. Range(queue') = Range(queue) \cup {c} /\ IsInjective(queue')
    BY <1>2, <1>5, <2>1, AppendFacts DEF QueueTypes, PlacedInv, Taken
  <2>3. Taken' = Taken \cup {c}
    BY <1>1, <2>1, <2>2 DEF Taken
  <2> QED
    BY <1>1, <1>2, <1>3, <2>1, <2>2, <2>3 DEF PlacedInv, Taken
<1> QED
  BY <1>4, <1>5

\* What is sent goes from a queue to the gripper.
LEMMA SendPlaces ==
  ASSUME QueueTypes, PlacedInv, Q!Send
  PROVE  PlacedInv'
<1>1. dropped' = dropped /\ status' = status
  BY DEF Q!Send
<1>2. CASE /\ priorityQueue # <<>> /\ queue' = queue
           /\ flying' = flying \cup {Head(priorityQueue)}
           /\ priorityQueue' = Tail(priorityQueue)
  <2>1. PICK c : c = Head(priorityQueue)
    OBVIOUS
  <2>2. /\ Range(priorityQueue) = {c} \cup Range(priorityQueue')
        /\ IsInjective(priorityQueue') /\ c \notin Range(priorityQueue')
    BY <1>2, <2>1, TailFacts DEF QueueTypes, PlacedInv
  <2>3. c \notin Range(queue)
    BY <2>2, QueuesAreApart
  <2>4. Taken' = Taken
    BY <1>1, <1>2, <2>1, <2>2 DEF Taken
  <2> QED
    BY <1>1, <1>2, <2>1, <2>2, <2>3, <2>4 DEF PlacedInv
<1>3. CASE /\ queue # <<>> /\ priorityQueue' = priorityQueue
           /\ flying = {} /\ flying' = {Head(queue)}
           /\ queue' = Tail(queue)
  <2>1. PICK c : c = Head(queue)
    OBVIOUS
  <2>2. /\ Range(queue) = {c} \cup Range(queue')
        /\ IsInjective(queue') /\ c \notin Range(queue')
    BY <1>3, <2>1, TailFacts DEF QueueTypes, PlacedInv
  <2>3. c \notin Range(priorityQueue)
    BY <2>2, QueuesAreApart
  <2>4. Taken' = Taken
    BY <1>1, <1>3, <2>1, <2>2 DEF Taken
  <2> QED
    BY <1>1, <1>3, <2>1, <2>2, <2>3, <2>4 DEF PlacedInv
<1> QED
  BY <1>2, <1>3 DEF Q!Send

\* A lost connection moves all that is open to what will be failed.
LEMMA DropPlaces ==
  ASSUME QueueTypes, PlacedInv, Q!Drop
  PROVE  PlacedInv'
<1>1. /\ queue' = <<>> /\ priorityQueue' = <<>> /\ flying' = {}
      /\ dropped' = dropped \cup Range(queue) \cup Range(priorityQueue)
                      \cup flying
      /\ status' = status
  BY DEF Q!Drop, Q!Range, Range
<1>2. Range(<<>>) = {} /\ IsInjective(<<>>)
  BY DEF Range, IsInjective
<1>3. Taken' = Taken
  BY <1>1, <1>2 DEF Taken
<1> QED
  BY <1>1, <1>2, <1>3 DEF PlacedInv

\* A call that comes back leaves the one place where it was.
LEMMA LeavePlaces ==
  ASSUME QueueTypes, PlacedInv, NEW c \in Call, NEW a, a # "pending",
         status' = [status EXCEPT ![c] = a],
         UNCHANGED <<queue, priorityQueue>>,
         \/ c \in flying /\ flying' = flying \ {c} /\ dropped' = dropped
         \/ c \in dropped /\ dropped' = dropped \ {c} /\ flying' = flying
  PROVE  PlacedInv'
<1>1. Taken' = Taken \ {c}
  BY DEF PlacedInv, Taken
<1>2. \A d \in Call : status'[d] = IF d = c THEN a ELSE status[d]
  BY DEF QueueTypes
<1> QED
  BY <1>1, <1>2 DEF PlacedInv

\* Every step leaves each call in one place, or lets it come back.
LEMMA PlacedNext == QueueTypes /\ PlacedInv /\ [Next]_vars => PlacedInv'
<1> SUFFICES ASSUME QueueTypes, PlacedInv, [Next]_vars PROVE PlacedInv'
  OBVIOUS
<1>0. [Q!Next]_(Q!qvars)
  BY QueueNext
<1>1. CASE Q!Open \/ UNCHANGED Q!qvars
  BY <1>1 DEF Q!Open, Q!qvars, PlacedInv, Taken
<1>2. CASE Q!Drop \/ Q!Send
  BY <1>2, DropPlaces, SendPlaces
<1>3. ASSUME NEW c \in Call, Q!Reject(c) PROVE PlacedInv'
  <2>1. \A d \in Call : status'[d] = IF d = c THEN "failed" ELSE status[d]
    BY <1>3 DEF Q!Reject, QueueTypes
  <2>2. status[c] = "idle" /\ Taken' = Taken
    BY <1>3 DEF Q!Reject, Taken
  <2> QED
    BY <1>3, <2>1, <2>2 DEF Q!Reject, PlacedInv
<1>4. ASSUME NEW c \in Call, Q!FailDropped(c) PROVE PlacedInv'
  BY <1>4, LeavePlaces DEF Q!FailDropped
<1>5. ASSUME NEW c \in Call,
             NEW a \in {"success", "blocked"} \cup {"failed"},
             Q!Return(c, a)
      PROVE  PlacedInv'
  BY <1>5, LeavePlaces DEF Q!Return
<1> QED
  BY <1>0, <1>1, <1>2, <1>3, <1>4, <1>5, EnqueuePlaces DEF Q!Next

\* No call is forgotten and none comes back twice: as long as a caller waits
\* the transport has its call, in one place.
THEOREM CallsAreKept == Spec => []PlacedInv
<1>1. Init => PlacedInv
  <2> SUFFICES ASSUME Init PROVE PlacedInv
    OBVIOUS
  <2>1. Range(<<>>) = {} /\ IsInjective(<<>>)
    BY DEF Range, IsInjective
  <2> QED
    BY <2>1 DEF Init, Q!Init, PlacedInv, Taken
<1>2. IInv => QueueTypes
  BY DEF IInv, TypeOK
<1> QED
  BY <1>1, <1>2, PlacedNext, Invariant, PTL DEF Spec

\* What command() returned to its caller does not change any more: a promise
\* is set once, whatever answers, failures and lost connections follow.
AnswersAreFinal ==
  [][\A c \in Call :
       status[c] \notin {"idle", "pending"} => status'[c] = status[c]]_vars

\* Only a call that waits, or is not made yet, changes.
LEMMA FinalNext ==
  ASSUME QueueTypes, PlacedInv, [Next]_vars,
         NEW c \in Call, status[c] \notin {"idle", "pending"}
  PROVE  status'[c] = status[c]
<1>0. [Q!Next]_(Q!qvars)
  BY QueueNext
<1>1. CASE Q!Open \/ Q!Send \/ Q!Drop \/ UNCHANGED Q!qvars
  BY <1>1 DEF Q!Open, Q!Send, Q!Drop, Q!qvars
<1>2. ASSUME NEW d \in Call, NEW a, status' = [status EXCEPT ![d] = a],
             status[d] \in {"idle", "pending"}
      PROVE  status'[c] = status[c]
  BY <1>2 DEF QueueTypes
<1>3. ASSUME NEW d \in Call, Q!Enqueue(d) \/ Q!Reject(d)
      PROVE  status'[c] = status[c]
  BY <1>2, <1>3 DEF Q!Enqueue, Q!Reject
<1>4. ASSUME NEW d \in Call, Q!FailDropped(d) PROVE status'[c] = status[c]
  <2>1. status[d] = "pending"
    BY <1>4 DEF Q!FailDropped, PlacedInv, Taken
  <2> QED
    BY <1>2, <1>4, <2>1 DEF Q!FailDropped
<1>5. ASSUME NEW d \in Call,
             NEW a \in {"success", "blocked"} \cup {"failed"},
             Q!Return(d, a)
      PROVE  status'[c] = status[c]
  <2>1. status[d] = "pending"
    BY <1>5 DEF Q!Return, PlacedInv, Taken
  <2> QED
    BY <1>2, <1>5, <2>1 DEF Q!Return
<1> QED
  BY <1>0, <1>1, <1>3, <1>4, <1>5 DEF Q!Next

\* No call of command() gets a second result.
THEOREM CallsReturnOnce == Spec => AnswersAreFinal
<1>1. QueueTypes /\ PlacedInv /\ [Next]_vars
        => [\A c \in Call : status[c] \notin {"idle", "pending"}
                              => status'[c] = status[c]]_vars
  BY FinalNext
<1>2. IInv => QueueTypes
  BY DEF IInv, TypeOK
<1> QED
  BY <1>1, <1>2, Invariant, CallsAreKept, PTL DEF Spec, AnswersAreFinal

-----------------------------------------------------------------------------
(* What is reported of a goal.                                             *)

Confirmed(g, k) == status[<<g, k>>] = "success"

\* What must be true of a goal that is reported succeeded: acceleration and
\* force were set for it, and its motion was made.
Deserved(g) ==
  Confirmed(g, "acceleration") /\ Confirmed(g, "force") /\ MotionOk(g)

\* What the thread has behind it at each place, and that it leaves the goal
\* handle to be ended as it has decided.
Reported(g) ==
  /\ pc[g] \in {"force", "motion", "watch", "stop"} =>
       Confirmed(g, "acceleration")
  /\ pc[g] \in {"motion", "watch", "stop"} => Confirmed(g, "force")
  /\ pc[g] \notin {"none", "done"} =>
       goal_status[g] \in {"executing", "canceling"}
  /\ outcome[g] = "canceled" => goal_status[g] = "canceling"
  /\ outcome[g] = "succeeded" \/ goal_status[g] = "succeeded" => Deserved(g)

ReportInv == \A g \in Goal : Reported(g)

\* The transitions of a goal handle; rclcpp_action throws at any other, and
\* in the thread of a goal the exception would end the process.
Transition ==
  {<<"none", "executing">>, <<"executing", "canceling">>,
   <<"executing", "succeeded">>, <<"executing", "aborted">>,
   <<"canceling", "succeeded">>, <<"canceling", "aborted">>,
   <<"canceling", "canceled">>}

GoalHandlesAreLegal ==
  [][\A g \in Goal :
       goal_status'[g] # goal_status[g] =>
         <<goal_status[g], goal_status'[g]>> \in Transition]_vars

\* What returned stays: so does what the report rests on.
LEMMA ConfirmedStays ==
  ASSUME QueueTypes, PlacedInv, [Next]_vars, NEW g \in Goal
  PROVE  /\ \A k \in {"acceleration", "force", "motion", "stop"} :
              Confirmed(g, k) => Confirmed(g, k)'
         /\ MotionOk(g) => MotionOk(g)'
         /\ Deserved(g) => Deserved(g)'
<1>1. \A k \in {"acceleration", "force", "motion", "stop"} :
        <<g, k>> \in Call
          /\ (status[<<g, k>>] \notin {"idle", "pending"}
                => status'[<<g, k>>] = status[<<g, k>>])
  BY FinalNext, CallFacts
<1> QED
  BY <1>1 DEF Confirmed, MotionOk, Deserved

\* A step that leaves a goal alone, or only asks to cancel it.
LEMMA SameReport ==
  ASSUME QueueTypes, PlacedInv, ReportInv, [Next]_vars, NEW g \in Goal,
         pc'[g] = pc[g], outcome'[g] = outcome[g],
         \/ goal_status'[g] = goal_status[g]
         \/ goal_status[g] = "executing" /\ goal_status'[g] = "canceling"
  PROVE  Reported(g)'
BY ConfirmedStays DEF ReportInv, Reported

\* The thread of a goal reports what it has seen, and ends the goal handle
\* in a way that it allows.
LEMMA ThreadReports ==
  ASSUME IInv, PlacedInv, ReportInv, NEW g \in Goal, Thread(g)
  PROVE  /\ Reported(g)'
         /\ goal_status'[g] # goal_status[g] =>
              <<goal_status[g], goal_status'[g]>> \in Transition
<1>0. /\ QueueTypes /\ [Next]_vars /\ Reported(g)
      /\ pc \in [Goal -> Place] /\ g \in DOMAIN outcome
      /\ g \in DOMAIN goal_status
  BY DEF IInv, TypeOK, GoalTypes, Next, ReportInv
<1>1. CASE Begin(g)
  <2>1. CASE End(g, Unlucky(g))
    BY <1>0, <1>1, <2>1
       DEF Begin, End, ThreadStep, Unlucky, Cancelled, Reported, Deserved,
           Confirmed, MotionOk
  <2>2. CASE ThreadStep(g, "acceleration") /\ UNCHANGED outcome
    BY <1>0, <1>1, <2>2
       DEF Begin, ThreadStep, Reported, Deserved, Confirmed, MotionOk
  <2> QED
    BY <1>1, <2>1, <2>2 DEF Begin
<1>2. CASE GoalCalls(g)
  <2>1. pc' = pc /\ outcome' = outcome /\ goal_status' = goal_status
    BY <1>2 DEF GoalCalls
  <2> QED
    BY <1>0, <2>1, SameReport
<1>3. CASE SettingReturns(g)
  <2>1. status' = status /\ goal_status' = goal_status
    BY <1>3 DEF SettingReturns, End, ThreadStep
  <2>2. CASE status[<<g, pc[g]>>] = "success"
    <3>1. /\ pc' = [pc EXCEPT ![g] = NextSetting(pc[g])]
          /\ outcome' = outcome /\ pc[g] \in {"acceleration", "force"}
      BY <1>3, <2>2 DEF SettingReturns, ThreadStep
    <3>2. /\ pc[g] = "acceleration" => pc'[g] = "force"
          /\ pc[g] = "force" => pc'[g] = "motion"
      BY <1>0, <3>1 DEF NextSetting
    <3> QED
      BY <1>0, <2>1, <2>2, <3>1, <3>2 DEF Reported, Deserved, Confirmed, MotionOk
  <2>3. CASE status[<<g, pc[g]>>] # "success"
    BY <1>0, <1>3, <2>1, <2>3
       DEF SettingReturns, End, ThreadStep, Reported, Deserved, Confirmed,
           MotionOk
  <2> QED
    BY <2>2, <2>3
<1>4. CASE WaitsOn(g) \/ NoticeInterruption(g) \/ StopReturns(g)
  BY <1>0, <1>4
     DEF WaitsOn, NoticeInterruption, StopReturns, ThreadStep, Reported, Deserved,
         Confirmed, MotionOk
<1>5. CASE MotionReturns(g)
  <2>1. PICK reached \in BOOLEAN : End(g, Ending(g, reached))
    BY <1>5 DEF MotionReturns
  <2>2. /\ status' = status /\ goal_status' = goal_status
        /\ pc[g] = "motion" /\ pc'[g] = "finish"
        /\ outcome'[g] = Ending(g, reached)
    BY <1>0, <1>5, <2>1 DEF MotionReturns, End, ThreadStep
  <2>3. /\ Ending(g, reached) = "canceled" => Cancelled(g)
        /\ Ending(g, reached) = "succeeded" => MotionOk(g)
    BY DEF Ending
  <2> QED
    BY <1>0, <2>2, <2>3 DEF Reported, Deserved, Confirmed, MotionOk, Cancelled
<1>6. CASE Finish(g)
  <2>1. /\ status' = status /\ pc[g] = "finish" /\ pc'[g] = "done"
        /\ outcome'[g] = "none" /\ goal_status'[g] = outcome[g]
    BY <1>0, <1>6 DEF Finish
  <2>2. outcome[g] \in Outcome
    BY <2>1 DEF IInv, StandingInv
  <2> QED
    BY <1>0, <2>1, <2>2
       DEF Reported, Deserved, Confirmed, MotionOk, Outcome, Transition
<1> QED
  BY <1>1, <1>2, <1>3, <1>4, <1>5, <1>6 DEF Thread

\* It leaves the other goals alone.
LEMMA OthersAreLeftAlone ==
  ASSUME TypeOK, NEW g \in Goal, Thread(g), NEW h \in Goal, h # g
  PROVE  pc'[h] = pc[h] /\ outcome'[h] = outcome[h]
           /\ goal_status'[h] = goal_status[h]
BY DEF Thread, Begin, GoalCalls, SettingReturns, WaitsOn, NoticeInterruption,
       StopReturns, MotionReturns, Finish, End, ThreadStep, TypeOK, GoalTypes

\* The executor accepts and cancels goals.
LEMMA ExecutorReports ==
  ASSUME IInv, PlacedInv, ReportInv, Callback \/ ExecutorGoesOn,
         NEW g \in Goal
  PROVE  /\ Reported(g)'
         /\ goal_status'[g] # goal_status[g] =>
              <<goal_status[g], goal_status'[g]>> \in Transition
<1>0. /\ QueueTypes /\ [Next]_vars /\ Reported(g)
      /\ pc \in [Goal -> Place] /\ goal_status \in
           [Goal -> Outcome \cup {"none", "executing", "canceling"}]
  BY DEF IInv, TypeOK, GoalTypes, Next, ReportInv
<1>1. ASSUME NEW h \in Goal, GoalAccepted(h)
      PROVE  /\ Reported(g)'
             /\ goal_status'[g] # goal_status[g] =>
                  <<goal_status[g], goal_status'[g]>> \in Transition
  <2>1. /\ goal_status' = [goal_status EXCEPT ![h] = "executing"]
        /\ pc' = [pc EXCEPT ![h] = "lock"]
        /\ outcome' = outcome /\ status' = status
    BY <1>1 DEF GoalAccepted
  <2>2. goal_status[h] = "none"
    BY <1>1 DEF GoalAccepted, IInv, ExecutorInv, StandingInv
  <2>3. CASE h = g
    BY <1>0, <2>1, <2>2, <2>3
       DEF Reported, Deserved, Confirmed, MotionOk, Transition
  <2>4. CASE h # g
    BY <1>0, <2>1, <2>4, SameReport
  <2> QED
    BY <2>3, <2>4
<1>2. ASSUME NEW h \in Goal, Cancel(h)
      PROVE  /\ Reported(g)'
             /\ goal_status'[g] # goal_status[g] =>
                  <<goal_status[g], goal_status'[g]>> \in Transition
  <2>1. /\ goal_status[h] = "executing"
        /\ goal_status' = [goal_status EXCEPT ![h] = "canceling"]
        /\ pc' = pc /\ outcome' = outcome
    BY <1>2 DEF Cancel
  <2>2. \/ goal_status'[g] = goal_status[g]
        \/ goal_status[g] = "executing" /\ goal_status'[g] = "canceling"
    BY <1>0, <2>1
  <2> QED
    BY <1>0, <2>1, <2>2, SameReport DEF Transition
<1>3. ASSUME pc' = pc, outcome' = outcome, goal_status' = goal_status
      PROVE  /\ Reported(g)'
             /\ goal_status'[g] # goal_status[g] =>
                  <<goal_status[g], goal_status'[g]>> \in Transition
  BY <1>0, <1>3, SameReport
<1>4. CASE Callback
  <2>1. ASSUME NEW h \in Goal, GoalArrives(h)
        PROVE  pc' = pc /\ outcome' = outcome /\ goal_status' = goal_status
    BY <2>1 DEF GoalArrives
  <2>2. ASSUME NEW r \in ServiceRequest, ServiceArrives(r)
        PROVE  pc' = pc /\ outcome' = outcome /\ goal_status' = goal_status
    BY <2>2 DEF ServiceArrives, ExecutorStep
  <2>3. CASE Destroy
    BY <1>3, <2>3 DEF Destroy
  <2> QED
    BY <1>2, <1>3, <1>4, <2>1, <2>2, <2>3 DEF Callback
<1>5. CASE ExecutorGoesOn
  BY <1>1, <1>3, <1>5
     DEF ExecutorGoesOn, HomeLocks, ServiceCalls, ServiceReturns,
         TransportStopped, JoinActionThreads, ExecutorStep
<1> QED
  BY <1>4, <1>5

\* Each goal, at each step.
LEMMA ReportNext ==
  ASSUME IInv, PlacedInv, ReportInv, [Next]_vars, NEW g \in Goal
  PROVE  /\ Reported(g)'
         /\ goal_status'[g] # goal_status[g] =>
              <<goal_status[g], goal_status'[g]>> \in Transition
<1>0. QueueTypes /\ TypeOK
  BY DEF IInv, TypeOK
<1>1. CASE Callback \/ ExecutorGoesOn
  BY <1>1, ExecutorReports
<1>2. ASSUME NEW h \in Goal, Thread(h)
      PROVE  /\ Reported(g)'
             /\ goal_status'[g] # goal_status[g] =>
                  <<goal_status[g], goal_status'[g]>> \in Transition
  <2>1. CASE h = g
    BY <1>2, <2>1, ThreadReports
  <2>2. CASE h # g
    BY <1>0, <1>2, <2>2, OthersAreLeftAlone, SameReport
  <2> QED
    BY <2>1, <2>2
<1>3. CASE TransportGoesOn \/ Environment \/ UNCHANGED vars
  <2>1. pc' = pc /\ outcome' = outcome /\ goal_status' = goal_status
    BY <1>3
       DEF TransportGoesOn, TransportWorks, GripperAnswers, Environment, Connects,
           Disconnects, vars
  <2> QED
    BY <1>0, <2>1, SameReport
<1> QED
  BY <1>1, <1>2, <1>3 DEF Next, TransportGoesOn

\* A goal is reported succeeded only if its settings were confirmed and its
\* motion was made, whatever cancelled, preempted or disconnected it.
SuccessIsDeserved ==
  \A g \in Goal : goal_status[g] = "succeeded" => Deserved(g)

\* The thread of a goal reports what happened, and asks of the goal handle
\* nothing that it would refuse: execute_advanced() calls canceled() only
\* after is_canceling(), and nothing else ends the handle in between.
THEOREM ReportsAreTrue == Spec => []SuccessIsDeserved /\ GoalHandlesAreLegal
<1>1. Init => ReportInv
  BY DEF Init, ReportInv, Reported
<1>2. IInv /\ PlacedInv /\ ReportInv /\ [Next]_vars => ReportInv'
  BY ReportNext DEF ReportInv
<1>3. IInv /\ PlacedInv /\ ReportInv /\ [Next]_vars
        => [\A g \in Goal :
              goal_status'[g] # goal_status[g] =>
                <<goal_status[g], goal_status'[g]>> \in Transition]_vars
  BY ReportNext
<1>4. ReportInv => SuccessIsDeserved
  BY DEF ReportInv, Reported, SuccessIsDeserved
<1> QED
  BY <1>1, <1>2, <1>3, <1>4, Invariant, CallsAreKept, PTL
     DEF Spec, GoalHandlesAreLegal
=============================================================================
