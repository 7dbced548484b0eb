----------------------------- MODULE MotionGoals -----------------------------
(***************************************************************************)
(* The motion goals and the services of the driver node                    *)
(* (wsg50_driver/src/main.cpp).                                            *)
(*                                                                         *)
(* One thread, the executor, runs the callbacks of the two action servers  *)
(* and of the services, one at a time, and at the end the destructor.      *)
(* Every accepted goal gets a thread of its own (execute_standard,         *)
(* execute_advanced); motion_execution_mutex_ lets one of them, or the     *)
(* home service, talk to the gripper about motion.  All of them share the  *)
(* transport, here its promise CommandQueue.                               *)
(*                                                                         *)
(* Abstractions: the two kinds of goals run the same steps and differ in   *)
(* what they send and report; a goal is a name, its payload is left out    *)
(* and so are feedback and results.  connection_is_ready() may be found    *)
(* true at any time after the first connection began, and then the goal is *)
(* accepted; ConnectionInit models how it comes about.  motion_active_ is  *)
(* written and never read: it is left out.                                 *)
(***************************************************************************)
EXTENDS Naturals, Sequences, Functions

CONSTANTS
  Goal,          \* goals sent to either action server
  Grasp,         \* those that grasp: "axis blocked" is a success for them
  HomeRequest,   \* requests of ~/home
  StopRequest,   \* requests of ~/stop
  OtherRequest,  \* requests of ~/ack_fault and ~/tare
  None,          \* nobody
  MaxConnection  \* bound: connections in one behaviour

ServiceRequest == HomeRequest \cup StopRequest \cup OtherRequest

ASSUME ActorAssumption ==
  /\ Grasp \subseteq Goal
  /\ Goal \cap ServiceRequest = {}
  /\ HomeRequest \cap (StopRequest \cup OtherRequest) = {}
  /\ StopRequest \cap OtherRequest = {}
  /\ None \notin Goal \cup ServiceRequest

ASSUME ConnectionAssumption == MaxConnection \in Nat

\* A call of command(): who makes it and what it asks for.
Call == (Goal \X {"acceleration", "force", "motion", "stop"})
          \cup (ServiceRequest \X {"service"})

UrgentCall == (Goal \X {"stop"}) \cup (StopRequest \X {"service"})

VARIABLES
  up, queue, priorityQueue, flying, dropped, status,  \* the transport
  connection,              \* connections established
  accepted_on,             \* the connection a goal was accepted on (history)
  motion_generation_,
  generation,              \* the generation a goal's thread was given
  pc,                      \* where a goal's thread is
  goal_status,             \* of the goal handle
  outcome,                 \* what the thread is about to report
  motion_execution_mutex_, \* its holder, or None
  executor,                \* where the executor is, and on whose behalf
  shutting_down_

transport == <<up, queue, priorityQueue, flying, dropped, status>>
goals     == <<accepted_on, motion_generation_, generation, goal_status>>
threads   == <<pc, outcome>>
node      == <<motion_execution_mutex_, executor, shutting_down_>>
vars == <<up, queue, priorityQueue, flying, dropped, status, connection,
          accepted_on, motion_generation_, generation, pc,
          goal_status, outcome, motion_execution_mutex_, executor,
          shutting_down_>>

\* The driver asks a reply only for success() and "axis blocked": an answer
\* with any other status is "failed" to it, like a call that was not answered.
Q == INSTANCE CommandQueue WITH
       Client <- Call, Priority <- UrgentCall,
       Answer <- {"success", "blocked"}

Free == [at |-> "free", of |-> None]

Init ==
  /\ Q!Init
  /\ connection = 0
  /\ accepted_on = [g \in Goal |-> 0]
  /\ motion_generation_ = 0 /\ generation = [g \in Goal |-> 0]
  /\ pc = [g \in Goal |-> "none"]
  /\ goal_status = [g \in Goal |-> "none"]
  /\ outcome = [g \in Goal |-> "none"]
  /\ motion_execution_mutex_ = None
  /\ executor = Free
  /\ shutting_down_ = FALSE

-----------------------------------------------------------------------------
\* command(): the call is queued, or fails at once.
MakeCall(c) == Q!Enqueue(c) \/ Q!Reject(c)

Returned(c) == status[c] \notin {"idle", "pending"}

\* Preempted by a newer goal.
Preempted(g) == generation[g] # motion_generation_

Cancelled(g) == goal_status[g] = "canceling"

\* The goal handle is asked for is_canceling() first, then ended.
Unlucky(g) == IF Cancelled(g) THEN "canceled" ELSE "aborted"

-----------------------------------------------------------------------------
(* The executor: the callbacks of the action servers.                      *)

\* handle_standard_goal(), handle_advanced_goal(): the goal is valid and
\* connection_is_ready() returned true, which it may still do when the
\* connection has just been lost.  A rejected goal leaves no trace.
GoalArrives(g) ==
  /\ executor = Free /\ ~shutting_down_
  /\ pc[g] = "none" /\ connection > 0
  /\ accepted_on' = [accepted_on EXCEPT ![g] = connection]
  /\ executor' = [at |-> "accept", of |-> g]
  /\ UNCHANGED <<transport, connection, motion_generation_, generation,
                 goal_status, threads, motion_execution_mutex_,
                 shutting_down_>>

\* handle_standard_accepted(), handle_advanced_accepted()
GoalAccepted(g) ==
  /\ executor = [at |-> "accept", of |-> g]
  /\ motion_generation_' = motion_generation_ + 1
  /\ generation' = [generation EXCEPT ![g] = motion_generation_ + 1]
  /\ goal_status' = [goal_status EXCEPT ![g] = "executing"]
  /\ pc' = [pc EXCEPT ![g] = "lock"]
  /\ executor' = Free
  /\ UNCHANGED <<transport, connection, accepted_on, outcome,
                 motion_execution_mutex_, shutting_down_>>

\* handle_standard_cancel(), handle_advanced_cancel(): always accepted.
Cancel(g) ==
  /\ executor = Free /\ ~shutting_down_
  /\ goal_status[g] = "executing"
  /\ goal_status' = [goal_status EXCEPT ![g] = "canceling"]
  /\ UNCHANGED <<transport, connection, accepted_on, motion_generation_,
                 generation, threads, node>>

-----------------------------------------------------------------------------
(* The thread of a goal: execute_standard(), execute_advanced().           *)

ThreadStep(g, place) ==
  /\ pc' = [pc EXCEPT ![g] = place]
  /\ UNCHANGED <<connection, goals, executor, shutting_down_>>

\* Go on to report this outcome.
End(g, o) ==
  /\ outcome' = [outcome EXCEPT ![g] = o]
  /\ ThreadStep(g, "finish")

Begin(g) ==
  /\ pc[g] = "lock" /\ motion_execution_mutex_ = None
  /\ motion_execution_mutex_' = g
  /\ IF Preempted(g) \/ shutting_down_
       THEN End(g, Unlucky(g))
       ELSE ThreadStep(g, "acceleration") /\ UNCHANGED outcome
  /\ UNCHANGED transport

\* set_acceleration(), set_force(), start_motion(), stop_motion()
GoalCalls(g) ==
  /\ pc[g] \in {"acceleration", "force", "motion", "stop"}
  /\ status[<<g, pc[g]>>] = "idle"
  /\ MakeCall(<<g, pc[g]>>)
  /\ UNCHANGED <<connection, goals, threads, node>>

NextSetting(k) == IF k = "acceleration" THEN "force" ELSE "motion"

SettingReturns(g) ==
  /\ pc[g] \in {"acceleration", "force"}
  /\ Returned(<<g, pc[g]>>)
  /\ IF status[<<g, pc[g]>>] = "success"
       THEN ThreadStep(g, NextSetting(pc[g])) /\ UNCHANGED outcome
       ELSE End(g, "aborted")
  /\ UNCHANGED <<transport, motion_execution_mutex_>>

\* The loop that waits for the motion: its condition.  Once there has been a
\* STOP (stop_sent) the body changes nothing.
WaitsOn(g) ==
  /\ pc[g] = "motion"
  /\ status[<<g, "motion">>] = "pending" /\ status[<<g, "stop">>] = "idle"
  /\ ~shutting_down_
  /\ ThreadStep(g, "watch")
  /\ UNCHANGED <<transport, outcome, motion_execution_mutex_>>

\* Mutant: preemption is only looked at when the motion has ended.
NoticeCancelOnly(g) ==
  /\ pc[g] = "watch"
  /\ ThreadStep(g, IF Cancelled(g) THEN "stop" ELSE "motion")
  /\ UNCHANGED <<transport, outcome, motion_execution_mutex_>>

\* Its body: the motion may have ended since, and a STOP is sent all the same.
NoticeInterruption(g) ==
  /\ pc[g] = "watch"
  /\ ThreadStep(g, IF Cancelled(g) \/ Preempted(g) THEN "stop" ELSE "motion")
  /\ UNCHANGED <<transport, outcome, motion_execution_mutex_>>

\* Mutant: the answer to STOP is not waited for.
StopNotAwaited(g) ==
  /\ pc[g] = "stop" /\ status[<<g, "stop">>] # "idle"
  /\ ThreadStep(g, "motion")
  /\ UNCHANGED <<transport, outcome, motion_execution_mutex_>>

StopReturns(g) ==
  /\ pc[g] = "stop" /\ Returned(<<g, "stop">>)
  /\ ThreadStep(g, "motion")
  /\ UNCHANGED <<transport, outcome, motion_execution_mutex_>>

MotionOk(g) ==
  \/ status[<<g, "motion">>] = "success"
  \/ status[<<g, "motion">>] = "blocked" /\ g \in Grasp

\* wait_for_settled_state() and the choice of the result.  A grasp that ends
\* blocked counts as stalled, whatever the telemetry says.
Ending(g, reached) ==
  CASE Cancelled(g) -> "canceled"
    [] ~Cancelled(g) /\ Preempted(g) -> "aborted"
    [] OTHER ->
         IF MotionOk(g) /\ (reached \/ status[<<g, "motion">>] = "blocked")
           THEN "succeeded" ELSE "aborted"

\* Mutant: the thread does not wait for the motion when the node shuts down.
MotionAbandoned(g) ==
  /\ pc[g] = "motion" /\ status[<<g, "motion">>] # "idle"
  /\ Returned(<<g, "motion">>) \/ shutting_down_
  /\ \E reached \in BOOLEAN : End(g, Ending(g, reached))
  /\ UNCHANGED <<transport, motion_execution_mutex_>>

MotionReturns(g) ==
  /\ pc[g] = "motion" /\ Returned(<<g, "motion">>)
  /\ \E reached \in BOOLEAN : End(g, Ending(g, reached))
  /\ UNCHANGED <<transport, motion_execution_mutex_>>

\* Mutant: the thread ends without letting go of the mutex.
FinishLocked(g) ==
  /\ pc[g] = "finish"
  /\ goal_status' = [goal_status EXCEPT ![g] = outcome[g]]
  /\ outcome' = [outcome EXCEPT ![g] = "none"]
  /\ pc' = [pc EXCEPT ![g] = "done"]
  /\ UNCHANGED <<transport, connection, accepted_on, motion_generation_,
                 generation, motion_execution_mutex_, executor,
                 shutting_down_>>

\* The goal handle is ended and the function returns.  A cancel may have
\* come since is_canceling() was asked; every outcome is legal after it.
Finish(g) ==
  /\ pc[g] = "finish"
  /\ goal_status' = [goal_status EXCEPT ![g] = outcome[g]]
  /\ outcome' = [outcome EXCEPT ![g] = "none"]
  /\ pc' = [pc EXCEPT ![g] = "done"]
  /\ motion_execution_mutex_' = None
  /\ UNCHANGED <<transport, connection, accepted_on, motion_generation_,
                 generation, executor, shutting_down_>>

-----------------------------------------------------------------------------
(* The executor: the services.                                             *)

ExecutorStep(place, s) ==
  /\ executor' = [at |-> place, of |-> s]
  /\ UNCHANGED <<connection, goals, threads, shutting_down_>>

\* Mutant: every service takes the mutex.
EveryServiceLocks(s) ==
  /\ executor = Free /\ ~shutting_down_
  /\ status[<<s, "service">>] = "idle"
  /\ ExecutorStep("lock", s)
  /\ UNCHANGED <<transport, motion_execution_mutex_>>

ServiceArrives(s) ==
  /\ executor = Free /\ ~shutting_down_
  /\ status[<<s, "service">>] = "idle"
  /\ ExecutorStep(IF s \in HomeRequest THEN "lock" ELSE "service", s)
  /\ UNCHANGED <<transport, motion_execution_mutex_>>

\* home_service(): the mutex, then connected().  connected_ is cleared
\* before the transport counts as down.
HomeLocks(s) ==
  /\ executor = [at |-> "lock", of |-> s]
  /\ motion_execution_mutex_ = None
  /\ \/ /\ up
        /\ motion_execution_mutex_' = s
        /\ ExecutorStep("service", s)
     \/ /\ executor' = Free
        /\ UNCHANGED <<connection, goals, threads, motion_execution_mutex_,
                       shutting_down_>>
  /\ UNCHANGED transport

ServiceCalls(s) ==
  /\ executor = [at |-> "service", of |-> s]
  /\ MakeCall(<<s, "service">>)
  /\ UNCHANGED <<connection, goals, threads, node>>

ServiceReturns(s) ==
  /\ executor = [at |-> "service", of |-> s]
  /\ Returned(<<s, "service">>)
  /\ executor' = Free
  /\ motion_execution_mutex_' =
       IF s \in HomeRequest THEN None ELSE motion_execution_mutex_
  /\ UNCHANGED <<transport, connection, goals, threads, shutting_down_>>

-----------------------------------------------------------------------------
(* The destructor, run by the thread that was the executor.                *)

\* Mutant: the threads are joined before the transport is stopped.
DestroyJoinsFirst ==
  /\ executor = Free /\ ~shutting_down_
  /\ shutting_down_' = TRUE
  /\ executor' = [at |-> "joining", of |-> None]
  /\ UNCHANGED <<transport, connection, goals, threads,
                 motion_execution_mutex_>>

Destroy ==
  /\ executor = Free /\ ~shutting_down_
  /\ shutting_down_' = TRUE
  /\ executor' = [at |-> "stopping", of |-> None]
  /\ UNCHANGED <<transport, connection, goals, threads,
                 motion_execution_mutex_>>

\* transport_->stop(): it leaves no call pending.
TransportStopped ==
  /\ executor.at = "stopping"
  /\ ~up /\ dropped = {}
  /\ ExecutorStep("joining", None)
  /\ UNCHANGED <<transport, motion_execution_mutex_>>

\* Mutant: join_action_threads() forgets the threads that wait for the mutex.
JoinStarted ==
  /\ executor.at = "joining"
  /\ \A g \in Goal : pc[g] \in {"none", "lock", "done"}
  /\ ExecutorStep("gone", None)
  /\ UNCHANGED <<transport, motion_execution_mutex_>>

JoinActionThreads ==
  /\ executor.at = "joining"
  /\ \A g \in Goal : pc[g] \in {"none", "done"}
  /\ ExecutorStep("gone", None)
  /\ UNCHANGED <<transport, motion_execution_mutex_>>

-----------------------------------------------------------------------------
(* The transport and the gripper.                                          *)

\* There is no new connection after stop().
Connects ==
  /\ ~up /\ dropped = {}
  /\ connection < MaxConnection
  /\ executor.at \notin {"joining", "gone"}
  /\ Q!Open
  /\ connection' = connection + 1
  /\ UNCHANGED <<goals, threads, node>>

Disconnects ==
  /\ up
  /\ Q!Drop
  /\ UNCHANGED <<connection, goals, threads, node>>

\* Only a grasp is answered "axis blocked" in a way that matters.
PossibleAnswer(c) ==
  {"success", "failed"}
    \cup IF c \in Grasp \X {"motion"} THEN {"blocked"} ELSE {}

GripperAnswers ==
  /\ \E c \in Call : \E a \in PossibleAnswer(c) : Q!Return(c, a)
  /\ UNCHANGED <<connection, goals, threads, node>>

\* What the transport does without the gripper.
TransportWorks ==
  /\ Q!Send \/ \E c \in Call : Q!FailDropped(c)
  /\ UNCHANGED <<connection, goals, threads, node>>

-----------------------------------------------------------------------------
Callback ==
  \/ \E g \in Goal : GoalArrives(g) \/ Cancel(g)
  \/ \E s \in ServiceRequest : ServiceArrives(s)
  \/ Destroy

ExecutorGoesOn ==
  \/ \E g \in Goal : GoalAccepted(g)
  \/ \E s \in ServiceRequest :
       HomeLocks(s) \/ ServiceCalls(s) \/ ServiceReturns(s)
  \/ TransportStopped \/ JoinActionThreads

Thread(g) ==
  \/ Begin(g) \/ GoalCalls(g) \/ SettingReturns(g)
  \/ WaitsOn(g) \/ NoticeInterruption(g) \/ StopReturns(g)
  \/ MotionReturns(g) \/ Finish(g)

Environment == GripperAnswers \/ Connects \/ Disconnects

Next ==
  \/ Callback \/ ExecutorGoesOn
  \/ \E g \in Goal : Thread(g)
  \/ TransportWorks \/ Environment

\* transport_->stop() ends the connection.
StopDisconnects == executor.at = "stopping" /\ Disconnects

(***************************************************************************)
(* Every thread that can go on does; the transport writes what it can and  *)
(* fails what it dropped.  No fairness for clients, connections or the     *)
(* gripper: a call that is not answered may stay in flight.                *)
(***************************************************************************)
Fairness ==
  /\ WF_vars(ExecutorGoesOn)
  /\ \A g \in Goal : WF_vars(Thread(g))
  /\ WF_vars(TransportWorks)
  /\ WF_vars(StopDisconnects)

Spec == Init /\ [][Next]_vars
FairSpec == Spec /\ Fairness

\* The premise of what holds only because calls come back: the transport
\* does not rest while it has one, which is CommandQueue!Fairness.
CallsComeBack ==
  WF_vars(TransportWorks \/ GripperAnswers \/ (flying # {} /\ Disconnects))

\* A weaker one: of the calls with priority, those beside the STOP of this goal
\* do not stay in flight for ever.
OtherStopsComeBack(g) ==
  \A c \in UrgentCall \ {<<g, "stop">>} : []<>(c \notin flying)

-----------------------------------------------------------------------------
Outcome == {"succeeded", "canceled", "aborted"}

Place == {"none", "lock", "acceleration", "force", "motion", "watch", "stop",
          "finish", "done"}

QueueTypes ==
  /\ up \in BOOLEAN
  /\ queue \in Seq(Call \ UrgentCall) /\ priorityQueue \in Seq(UrgentCall)
  /\ flying \subseteq Call /\ dropped \subseteq Call
  /\ status \in [Call -> {"idle", "pending", "failed", "success", "blocked"}]
  /\ connection \in Nat

GoalTypes ==
  /\ accepted_on \in [Goal -> Nat]
  /\ motion_generation_ \in Nat /\ generation \in [Goal -> Nat]
  /\ pc \in [Goal -> Place]
  /\ goal_status \in [Goal -> Outcome \cup {"none", "executing", "canceling"}]
  /\ outcome \in [Goal -> Outcome \cup {"none"}]

NodeTypes ==
  /\ motion_execution_mutex_ \in Goal \cup HomeRequest \cup {None}
  /\ executor \in [at : {"free", "accept", "lock", "service", "stopping",
                         "joining", "gone"},
                   of : Goal \cup ServiceRequest \cup {None}]
  /\ executor.at = "lock" => executor.of \in HomeRequest
  /\ executor.at = "service" => executor.of \in ServiceRequest
  /\ shutting_down_ \in BOOLEAN

\* The type invariant.
TypeOK == QueueTypes /\ GoalTypes /\ NodeTypes

\* The calls that make the gripper move, and who may have one pending.
MotionCall == (Goal \X {"motion"}) \cup (HomeRequest \X {"service"})

\* Only one motion at a time: while a motion or a homing that was asked for
\* has not come back, the one who asked still holds the mutex, whatever
\* cancels, preempts, disconnects or shuts down in between.
OneMotionAtATime ==
  \A c \in MotionCall :
    status[c] = "pending" => motion_execution_mutex_ = c[1]

\* A newer goal silences the older ones: once it has sent anything, no call
\* of an older goal is pending or will be made.  So no STOP meant for an
\* older goal hits the motion of a newer one.
NewerGoalSilencesOlder ==
  \A g, h \in Goal :
    /\ generation[g] # 0 /\ generation[g] < generation[h]
    /\ status[<<h, "acceleration">>] # "idle"
    => /\ pc[g] \in {"lock", "finish", "done"}
       /\ \A k \in {"acceleration", "force", "motion", "stop"} :
            status[<<g, k>>] # "pending"

\* When the destructor has joined the threads nothing is left that uses the
\* members it is about to destroy: every goal accepted has been ended, no
\* call is pending and nobody holds the mutex.
NothingOutlivesNode ==
  executor.at = "gone" =>
    /\ \A g \in Goal : goal_status[g] \in Outcome \cup {"none"}
    /\ \A c \in Call : status[c] # "pending"
    /\ motion_execution_mutex_ = None

\* Every accepted goal is ended if calls come back: mutex, queue, STOP, lost
\* connections and shutdown never leave its thread waiting.
GoalsEnd ==
  CallsComeBack =>
    \A g \in Goal : []<>(goal_status[g] \in Outcome \cup {"none"})

\* The executor gets free again after a service: it waits for the mutex and
\* for answers, and the goals it waits for need no callback to end.
ExecutorComesFree ==
  CallsComeBack => []<>(executor.at \notin {"accept", "lock", "service"})

\* The destructor returns, whatever the goals are doing and even if no call
\* is ever answered: it stops the transport before it joins the threads.
DestructorReturns == []<>(shutting_down_ => executor.at = "gone")

\* The gripper moves, or will, for a goal that is cancelled or preempted, and
\* has not been told to stop.
Unstopped(g) ==
  /\ pc[g] \in {"motion", "watch", "stop"}
  /\ status[<<g, "motion">>] = "pending"
  /\ Cancelled(g) \/ Preempted(g)
  /\ <<g, "stop">> \notin flying /\ ~Returned(<<g, "stop">>)

\* README: "Cancellation sends a priority STOP and waits for the device
\* response.  A newer goal stops and preempts the older goal."  The STOP of a
\* motion that is cancelled or preempted gets to the gripper, or the motion
\* or the STOP comes back, even if the gripper never answers the motion and
\* no deadline ends it: the thread does not wait for what it should stop.
\* Another STOP in flight, ~/stop or that of another goal, must come back,
\* though: the transport keeps this one in its queue until then.
StopFollows ==
  \A g \in Goal : OtherStopsComeBack(g) => []<>~Unstopped(g)

\* The same sentence: once the gripper has executed the STOP of a goal, its
\* motion is not sent to it any more.
StopIsFinal ==
  [][\A g \in Goal :
       status[<<g, "stop">>] = "success" /\ <<g, "motion">> \in flying'
         => <<g, "motion">> \in flying]_vars

\* README: on a connection loss "active commands fail ... and the driver
\* reconnects without resuming motion": a goal accepted on one connection
\* does not move the gripper on the next.
MotionIsNotResumed ==
  \A g \in Goal :
    <<g, "motion">> \in Range(queue) \cup flying =>
      accepted_on[g] = connection

\* README: "Stop motion explicitly with ... ~/stop": while the gripper moves
\* for a goal the executor is not held up until the motion has ended.
StopCanBeCalled ==
  \A g \in Goal : <<g, "motion">> \in flying => executor.at # "lock"
=============================================================================
