---------------------------- MODULE ConnectionInit ----------------------------
(***************************************************************************)
(* What the driver node does with a new connection, and who relies on it   *)
(* (wsg50_driver/src/main.cpp).                                            *)
(*                                                                         *)
(* A timer callback finds that the transport has a connection that was not *)
(* initialised and starts a thread that sends the settings, one after the  *)
(* other, and then writes three atomics.  The executor reads them together *)
(* with a copy of the transport's state, in connection_is_ready() and in   *)
(* publish_diagnostics(), while the thread writes and while the transport  *)
(* may lose the connection and get another one.                            *)
(*                                                                         *)
(* The transport is here what TransportView says of it, which Transport    *)
(* implements: when connected_ and state_ change, and that a call is       *)
(* refused, answered, given up by stop() or failed by disconnect() before  *)
(* state_ is reset.                                                        *)
(***************************************************************************)
EXTENDS Naturals

CONSTANTS
  AutoAcknowledge,  \* auto_acknowledge_faults
  AutoHome,         \* auto_home
  MaxConnection     \* bound: connections in one behaviour

ASSUME InitAssumption ==
  AutoAcknowledge \in BOOLEAN /\ AutoHome \in BOOLEAN /\ MaxConnection \in Nat

VARIABLES
  state_,      \* the transport's state: connected, referenced, generation
  worker,      \* where the transport's worker is between two connections
  reply,       \* the call of command() the thread waits for
  initialized_generation_, initialization_running_,
  initialization_successful_,
  initialization_thread_,  \* where it is, and for which connection
  executor,                \* where the executor is, and the generation it saw
  shutting_down_,
  confirmed,   \* the connections on which each setting succeeded (history)
  trouble,     \* how the attempt for each connection went wrong (history)
  accepted,    \* connections found ready by connection_is_ready() (history)
  report       \* the last diagnostics about a connection (history)

transport == <<state_, worker>>
flags == <<initialized_generation_, initialization_running_,
           initialization_successful_>>
thread == <<reply, initialization_thread_, trouble>>
node == <<executor, shutting_down_, accepted, report>>
vars == <<state_, worker, reply, initialized_generation_,
          initialization_running_, initialization_successful_,
          initialization_thread_, executor, shutting_down_, confirmed,
          trouble, accepted, report>>

-----------------------------------------------------------------------------
Setting == {"acceleration", "force", "acknowledge", "home"}

Wanted ==
  {s \in Setting : /\ s = "acknowledge" => AutoAcknowledge
                   /\ s = "home" => AutoHome}

\* Where the thread goes on when a setting has succeeded.
Following(s) ==
  IF s = "acceleration" THEN "force"
  ELSE IF s = "force" /\ AutoAcknowledge THEN "acknowledge"
  ELSE IF s # "home" /\ AutoHome THEN "home"
  ELSE "generation"

Connection == 1..MaxConnection

\* The transport, whose stop() is called by the destructor.
View == INSTANCE TransportView WITH
  Answer <- {"success", "error"},
  life <- IF executor.at = "stopping" THEN "stopping"
          ELSE IF executor.at \in {"joining", "gone"} THEN "stopped"
          ELSE "running",
  phase <- worker,
  status <- reply

Free == [at |-> "free", generation |-> 0]

Init ==
  /\ state_ = [connected |-> FALSE, referenced |-> FALSE, generation |-> 0]
  /\ worker = "down" /\ reply = "none"
  /\ initialized_generation_ = 0
  /\ initialization_running_ = FALSE /\ initialization_successful_ = FALSE
  /\ initialization_thread_ = [at |-> "none", generation |-> 0]
  /\ executor = Free /\ shutting_down_ = FALSE
  /\ confirmed = [s \in Setting |-> {}]
  /\ trouble = [n \in Connection |-> "none"]
  /\ accepted = {}
  /\ report = [says |-> "nothing", generation |-> 0]

-----------------------------------------------------------------------------
(* The timer callback initialize_connection().                             *)

\* Mutant: a running initialisation does not keep the callback from going on.
InitializeAgain ==
  /\ executor = Free /\ ~shutting_down_
  /\ state_.connected /\ state_.generation # initialized_generation_
  /\ executor' = [at |-> "initialize", generation |-> state_.generation]
  /\ UNCHANGED <<transport, flags, thread, shutting_down_, confirmed,
                 accepted, report>>

\* The conditions, with the copy of the state.
InitializeConnection ==
  /\ executor = Free /\ ~shutting_down_ /\ ~initialization_running_
  /\ state_.connected /\ state_.generation # initialized_generation_
  /\ executor' = [at |-> "initialize", generation |-> state_.generation]
  /\ UNCHANGED <<transport, flags, thread, shutting_down_, confirmed,
                 accepted, report>>

\* Mutant: the flag of the connection before is not cleared.
StartKeepingSuccess ==
  /\ executor.at = "initialize"
  /\ initialization_thread_.at \in {"none", "ended"}
  /\ initialization_running_' = TRUE
  /\ initialization_thread_' =
       [at |-> "acceleration", generation |-> executor.generation]
  /\ reply' = "none"
  /\ executor' = Free
  /\ UNCHANGED <<transport, initialized_generation_,
                 initialization_successful_, shutting_down_, confirmed,
                 trouble, accepted, report>>

\* The last thread is joined, the next one started.
StartInitialization ==
  /\ executor.at = "initialize"
  /\ initialization_thread_.at \in {"none", "ended"}
  /\ initialization_running_' = TRUE
  /\ initialization_successful_' = FALSE
  /\ initialization_thread_' =
       [at |-> "acceleration", generation |-> executor.generation]
  /\ reply' = "none"
  /\ executor' = Free
  /\ UNCHANGED <<transport, initialized_generation_, shutting_down_,
                 confirmed, trouble, accepted, report>>

-----------------------------------------------------------------------------
(* The initialisation thread.                                              *)

ThreadGoes(place) ==
  /\ initialization_thread_' =
       [at |-> place, generation |-> initialization_thread_.generation]
  /\ UNCHANGED <<transport, node, confirmed>>

\* set_acceleration(), set_force(), command().
CallSetting ==
  /\ initialization_thread_.at \in Setting
  /\ UNCHANGED <<flags, initialization_thread_, node, confirmed, trouble>>
  /\ View!Call

SettingSucceeds ==
  /\ initialization_thread_.at \in Setting /\ reply = "success"
  /\ LET next == Following(initialization_thread_.at) IN
       /\ ThreadGoes(next)
       /\ reply' = IF next \in Setting THEN "none" ELSE reply
  /\ UNCHANGED <<flags, trouble>>

\* Mutant: the thread does not wait for its call when the node shuts down.
SettingAbandoned ==
  /\ initialization_thread_.at \in Setting
  /\ reply \in {"error", "failed"} \/ (reply = "pending" /\ shutting_down_)
  /\ trouble' = [trouble EXCEPT ![initialization_thread_.generation] = "failed"]
  /\ ThreadGoes("generation")
  /\ UNCHANGED <<flags, reply>>

SettingFails ==
  /\ initialization_thread_.at \in Setting /\ reply \in {"error", "failed"}
  /\ trouble' = [trouble EXCEPT ![initialization_thread_.generation] = reply]
  /\ ThreadGoes("generation")
  /\ UNCHANGED <<flags, reply>>

\* Mutant: the generation is read when the thread ends.
StoreCurrentGeneration ==
  /\ initialization_thread_.at = "generation"
  /\ initialized_generation_' = state_.generation
  /\ ThreadGoes("successful")
  /\ UNCHANGED <<initialization_running_, initialization_successful_, reply,
                 trouble>>

\* Mutant: initialization_running_ is cleared first, not last.
StoreRunningFirst ==
  /\ initialization_thread_.at = "generation"
  /\ initialized_generation_' = initialization_thread_.generation
  /\ initialization_running_' = FALSE
  /\ ThreadGoes("successful")
  /\ UNCHANGED <<initialization_successful_, reply, trouble>>

StoreGeneration ==
  /\ initialization_thread_.at = "generation"
  /\ initialized_generation_' = initialization_thread_.generation
  /\ ThreadGoes("successful")
  /\ UNCHANGED <<initialization_running_, initialization_successful_, reply,
                 trouble>>

StoreSuccessful ==
  /\ initialization_thread_.at = "successful"
  /\ initialization_successful_' = (reply = "success")
  /\ ThreadGoes("running")
  /\ UNCHANGED <<initialized_generation_, initialization_running_, reply,
                 trouble>>

\* Mutant: initialization_running_ is only cleared after a success.
StoreRunningIfSuccessful ==
  /\ initialization_thread_.at = "running"
  /\ initialization_running_' = (reply # "success")
  /\ ThreadGoes("ended")
  /\ UNCHANGED <<initialized_generation_, initialization_successful_, reply,
                 trouble>>

StoreRunning ==
  /\ initialization_thread_.at = "running"
  /\ initialization_running_' = FALSE
  /\ ThreadGoes("ended")
  /\ UNCHANGED <<initialized_generation_, initialization_successful_, reply,
                 trouble>>

-----------------------------------------------------------------------------
(* The readers: callbacks of the executor.                                 *)

ExecutorGoes(place) ==
  /\ executor' = IF place = "free" THEN Free
               ELSE [at |-> place, generation |-> executor.generation]
  /\ UNCHANGED <<transport, flags, thread, shutting_down_, confirmed>>

\* connection_is_ready() reads the state, then initialization_successful_,
\* then initialized_generation_, each if what came before was in order.
GoalArrives ==
  /\ executor = Free /\ ~shutting_down_
  /\ state_.connected /\ state_.referenced
  /\ executor' = [at |-> "successful", generation |-> state_.generation]
  /\ UNCHANGED <<transport, flags, thread, shutting_down_, confirmed,
                 accepted, report>>

ReadSuccessful ==
  /\ executor.at = "successful"
  /\ ExecutorGoes(IF initialization_successful_ THEN "generation" ELSE "free")
  /\ UNCHANGED <<accepted, report>>

ReadGeneration ==
  /\ executor.at = "generation"
  /\ ExecutorGoes("free")
  /\ accepted' = IF initialized_generation_ = executor.generation
                   THEN accepted \cup {executor.generation} ELSE accepted
  /\ UNCHANGED report

\* publish_diagnostics(): the state, then initialized_generation_, then
\* initialization_running_, then initialization_successful_.
DiagnosticsDue ==
  /\ executor = Free /\ ~shutting_down_
  /\ state_.connected
  /\ executor' = [at |-> "diagnose", generation |-> state_.generation]
  /\ UNCHANGED <<transport, flags, thread, shutting_down_, confirmed,
                 accepted, report>>

Report(what) ==
  /\ report' = [says |-> what, generation |-> executor.generation]
  /\ ExecutorGoes("free")
  /\ UNCHANGED accepted

DiagnoseGeneration ==
  /\ executor.at = "diagnose"
  /\ \/ /\ initialized_generation_ # executor.generation
        /\ Report("initializing")
     \/ /\ initialized_generation_ = executor.generation
        /\ ExecutorGoes("diagnose running")
        /\ UNCHANGED <<accepted, report>>

DiagnoseRunning ==
  /\ executor.at = "diagnose running"
  /\ \/ initialization_running_ /\ Report("initializing")
     \/ /\ ~initialization_running_
        /\ ExecutorGoes("diagnose success")
        /\ UNCHANGED <<accepted, report>>

DiagnoseSuccess ==
  /\ executor.at = "diagnose success"
  /\ Report(IF initialization_successful_ THEN "initialized" ELSE "failed")

-----------------------------------------------------------------------------
(* The destructor, run by the thread that was the executor.                *)

\* Mutant: the thread is joined before the transport is stopped.
JoinFirst ==
  /\ executor = Free /\ ~shutting_down_
  /\ shutting_down_' = TRUE
  /\ executor' = [at |-> "joining", generation |-> 0]
  /\ UNCHANGED <<transport, flags, thread, confirmed, accepted, report>>

Destroy ==
  /\ executor = Free /\ ~shutting_down_
  /\ shutting_down_' = TRUE
  /\ executor' = [at |-> "stopping", generation |-> 0]
  /\ UNCHANGED <<transport, flags, thread, confirmed, accepted, report>>

TransportStopped ==
  /\ executor.at = "stopping"
  /\ ExecutorGoes("joining")
  /\ View!Stopped
  /\ UNCHANGED <<accepted, report>>

JoinInitialization ==
  /\ executor.at = "joining"
  /\ initialization_thread_.at \in {"none", "ended"}
  /\ ExecutorGoes("gone")
  /\ UNCHANGED <<accepted, report>>

-----------------------------------------------------------------------------
(* The transport and the gripper.                                          *)

\* A step of the transport that answers no setting.
TransportGoesOn ==
  UNCHANGED <<flags, initialization_thread_, node, trouble, confirmed>>

Connects == TransportGoesOn /\ View!Connects
SetConnected == TransportGoesOn /\ View!SetConnected
SendGivesUp == TransportGoesOn /\ View!GivesUp
Telemetry == TransportGoesOn /\ View!Telemetry
Disconnects == TransportGoesOn /\ View!Disconnects
Drain == TransportGoesOn /\ View!Drain
FailDropped == TransportGoesOn /\ View!FailDropped
ClearState == TransportGoesOn /\ View!ClearState

\* The gripper answers that it has made a setting, or that it has not.
Answer ==
  /\ UNCHANGED <<flags, initialization_thread_, node, trouble>>
  /\ View!Answers
  /\ IF reply' = "success"
       THEN confirmed' = [confirmed EXCEPT ![initialization_thread_.at] =
                            @ \cup {state_.generation}]
       ELSE UNCHANGED confirmed

-----------------------------------------------------------------------------
Callback == InitializeConnection \/ GoalArrives \/ DiagnosticsDue \/ Destroy

ExecutorGoesOn ==
  \/ StartInitialization \/ ReadSuccessful \/ ReadGeneration
  \/ DiagnoseGeneration \/ DiagnoseRunning \/ DiagnoseSuccess
  \/ TransportStopped \/ JoinInitialization

Thread ==
  \/ CallSetting \/ SettingSucceeds \/ SettingFails
  \/ StoreGeneration \/ StoreSuccessful \/ StoreRunning

WorkerGoesOn == SetConnected \/ Drain \/ FailDropped \/ ClearState

Next ==
  \/ Callback \/ ExecutorGoesOn \/ Thread \/ WorkerGoesOn
  \/ Connects \/ Answer \/ SendGivesUp \/ Telemetry \/ Disconnects

StopDisconnects == executor.at = "stopping" /\ Disconnects

(***************************************************************************)
(* Threads that can go on do.  The timer is served even if other callbacks *)
(* come again and again, as the executor takes what is due in turn: strong *)
(* fairness.  stop() ends a connection.  Nothing is assumed of the gripper *)
(* and of the network.                                                     *)
(***************************************************************************)
Fairness ==
  /\ WF_vars(ExecutorGoesOn) /\ WF_vars(Thread) /\ WF_vars(WorkerGoesOn)
  /\ SF_vars(InitializeConnection)
  /\ WF_vars(StopDisconnects)

Spec == Init /\ [][Next]_vars
FairSpec == Spec /\ Fairness

\* The premise of what holds only because calls come back, by an answer or
\* by a timeout, which ends the connection (CommandQueue!Fairness).
CallsComeBack == WF_vars(Answer \/ (reply = "pending" /\ Disconnects))
-----------------------------------------------------------------------------
Place == Setting \cup {"none", "generation", "successful", "running", "ended"}

\* The places at which the executor has a copy of the state.
Looking == {"initialize", "successful", "generation", "diagnose",
            "diagnose running", "diagnose success"}

TransportTypes ==
  /\ state_ \in [connected : BOOLEAN, referenced : BOOLEAN,
                 generation : 0..MaxConnection]
  /\ worker \in {"down", "connecting", "up", "closing", "dropping"}
  /\ state_.connected <=> worker # "down"
  /\ state_.connected => state_.generation \in Connection

ThreadTypes ==
  /\ initialized_generation_ \in 0..MaxConnection
  /\ initialization_running_ \in BOOLEAN
  /\ initialization_successful_ \in BOOLEAN
  /\ initialization_thread_ \in [at : Place, generation : 0..MaxConnection]
  /\ initialization_thread_.at # "none" =>
       initialization_thread_.generation \in Connection
  /\ reply \in {"none", "pending", "success", "error", "failed"}
  /\ reply = "pending" => initialization_thread_.at \in Setting

ExecutorTypes ==
  /\ executor \in
       [at : Looking \cup {"free", "stopping", "joining", "gone"},
        generation : 0..MaxConnection]
  /\ executor.at \in Looking => executor.generation \in Connection
  /\ shutting_down_ \in BOOLEAN

HistoryTypes ==
  /\ confirmed \in [Setting -> SUBSET Connection]
  /\ trouble \in [Connection -> {"none", "error", "failed"}]
  /\ accepted \subseteq Connection
  /\ report \in [says : {"nothing", "initializing", "initialized", "failed"},
                 generation : 0..MaxConnection]

\* The type invariant; a pending call is that of the setting being sent.
TypeOK == TransportTypes /\ ThreadTypes /\ ExecutorTypes /\ HistoryTypes

\* Every setting was confirmed, on this connection or a later one.
Configured(n) ==
  \A s \in Wanted : \E m \in confirmed[s] : m >= n

\* connection_is_ready(), evaluated in one instant.
Ready ==
  /\ state_.connected /\ state_.referenced /\ initialization_successful_
  /\ initialized_generation_ = state_.generation

\* A connection is never ready on the strength of another one: whatever is
\* lost and re-established while the settings are sent, every setting was
\* confirmed on the very connection that counts as ready.
ReadyIsConfigured ==
  Ready => \A s \in Wanted : state_.generation \in confirmed[s]

\* connection_is_ready() is not atomic: the thread stores the generation
\* before the success flag.  Still no goal is accepted on a connection whose
\* settings were refused or not sent, as the executor, which reads the flag,
\* is also the one that cleared it before it started the thread.
AcceptedIsConfigured == \A n \in accepted : Configured(n)

\* publish_diagnostics() does not call an initialisation failed that has only
\* not stored its success yet, nor initialised what was not configured.
DiagnosticsAreTrue ==
  /\ report.says = "failed" => trouble[report.generation] # "none"
  /\ report.says = "initialized" => Configured(report.generation)

\* The callback does not hold up the executor: the thread that it joins has
\* nothing more to wait for (a HOME may take 30 s).
ExecutorIsNotHeldUp ==
  executor.at = "initialize" => initialization_thread_.at \in {"none", "ended"}

\* Each connection that stays up gets an attempt that ends, whatever became
\* of the attempts before: a lost, refused or unanswered setting never keeps
\* the callback from starting the next thread.
EveryConnectionGetsItsAttempt ==
  CallsComeBack =>
    \A n \in Connection :
      worker = "up" /\ state_.generation = n
        ~> \/ initialized_generation_ = n /\ ~initialization_running_
           \/ worker # "up" \/ shutting_down_

\* The destructor returns while an initialisation is under way, even if the
\* gripper never answers: stop() fails the call the thread waits for.
DestructorReturns == shutting_down_ ~> executor.at = "gone"

\* README: "The safe default startup only connects, configures
\* acceleration/force, and starts state streaming": while a connection stays
\* up, and until the driver stops, its settings may be refused by the gripper
\* but do not get lost.
StartupConfigures ==
  \A n \in Connection :
    trouble[n] = "failed" =>
      \/ state_.generation # n \/ worker \notin {"connecting", "up"}
      \/ shutting_down_
=============================================================================
