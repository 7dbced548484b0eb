------------------------ MODULE ConnectionInitProofs ------------------------
(***************************************************************************)
(* Proofs about ConnectionInit, for either value of the two parameters and *)
(* any number of connections.                                              *)
(*                                                                         *)
(* The inductive invariant IInv orders the generations (what is stored,    *)
(* what the thread works on, what a reader has seen, what the transport    *)
(* has), says what the three atomics hold at each place of the thread, and *)
(* which settings it has behind it there.  At the end: the node keeps to   *)
(* TransportView.                                                          *)
(***************************************************************************)
EXTENDS ConnectionInit, TLAPS

\* Tuples of variables, and what an action of the transport is made of: they
\* are seen wherever the action is.
USE DEF transport, flags, thread, node, TransportGoesOn,
        View!Connects, View!SetConnected, View!Telemetry, View!Disconnects,
        View!Drain, View!ClearState, View!Call, View!Answers, View!GivesUp,
        View!FailDropped, View!Stopped, View!Lives, View!Turns, View!Becomes

\* A setting was confirmed on connection n or a later one.
Confirmed(s, n) == \E m \in confirmed[s] : m >= n

\* The places at which the thread has not yet stored its generation.
Unstored == Setting \cup {"generation"}

Ended == {"none", "ended"}

\* What is stored lags behind the thread until it stores its generation.
StoredInv ==
  /\ initialization_thread_.at \in Unstored =>
       initialized_generation_ < initialization_thread_.generation
  /\ initialization_thread_.at \notin Unstored =>
       initialized_generation_ = initialization_thread_.generation
  /\ initialization_thread_.at = "none" =>
       initialization_thread_.generation = 0

\* Nobody is ahead of the transport.
OrderInv ==
  /\ initialization_thread_.generation <= state_.generation
  /\ executor.generation <= state_.generation
  /\ \A s \in Setting : \A m \in confirmed[s] : m <= state_.generation

FlagInv ==
  /\ initialization_running_ <=> initialization_thread_.at \notin Ended
  /\ initialization_successful_ =>
       initialization_thread_.at \in {"running", "ended"} /\ reply = "success"
  /\ initialization_thread_.at \in {"running", "ended"} /\ reply = "success"
       => initialization_successful_

\* A thread that gave up has left a trace.
TroubleInv ==
  initialization_thread_.at \notin Setting \cup {"none"} =>
    \/ reply = "success"
    \/ /\ reply \in {"error", "failed"}
       /\ trouble[initialization_thread_.generation] # "none"

\* The settings the thread has behind it at a place, and after an answer.
Behind(place, answer) ==
  CASE place = "acceleration" -> {}
    [] place = "force" -> {"acceleration"}
    [] place = "acknowledge" -> {"acceleration", "force"}
    [] place = "home" -> Wanted \ {"home"}
    [] OTHER -> IF answer = "success" THEN Wanted ELSE {}

SettingInv ==
  initialization_thread_.at \in Setting =>
    /\ initialization_thread_.at \in Wanted
    /\ reply = "success" =>
         Confirmed(initialization_thread_.at, initialization_thread_.generation)

BehindInv ==
  initialization_thread_.at # "none" =>
    \A s \in Behind(initialization_thread_.at, reply) :
      Confirmed(s, initialization_thread_.generation)

\* What a reader has found out still holds when it goes on.
LookingInv ==
  /\ executor.at \in Looking =>
       initialization_thread_.generation <= executor.generation
  /\ executor.at = "initialize" =>
       initialized_generation_ < executor.generation
  /\ executor.at = "generation" => initialization_successful_

DiagnoseInv ==
  /\ executor.at \in {"diagnose running", "diagnose success"} =>
       initialized_generation_ = executor.generation
  /\ executor.at = "diagnose success" => initialization_thread_.at = "ended"

IInv ==
  /\ TypeOK /\ StoredInv /\ OrderInv /\ FlagInv /\ TroubleInv
  /\ SettingInv /\ BehindInv /\ LookingInv /\ DiagnoseInv
  /\ ExecutorIsNotHeldUp /\ AcceptedIsConfigured /\ DiagnosticsAreTrue

\* The free executor carries a generation in bounds.
LEMMA ZeroIsBound == 0 \in 0..MaxConnection
BY InitAssumption

\* Connections are counted from 1.
LEMMA NoConnectionIsZero == 0 \notin Connection
BY InitAssumption DEF Connection

\* Arithmetic.
LEMMA LessIsDifferent ==
  ASSUME NEW a \in Nat, NEW b \in Nat, NEW c \in Nat, a < b, b <= c
  PROVE  a # c
OBVIOUS

\* The types are kept, one part after the other.
LEMMA TransportTypesStep ==
  ASSUME TransportTypes, [Next]_vars
  PROVE  TransportTypes'
<1> USE InitAssumption DEF TransportTypes, Connection
<1>1. CASE UNCHANGED transport
  BY <1>1
<1>2. CASE SetConnected
  BY <1>2 DEF SetConnected
<1>3. CASE Drain
  BY <1>3 DEF Drain
<1>4. CASE FailDropped
  BY <1>4 DEF FailDropped
<1>5. CASE ClearState
  BY <1>5 DEF ClearState
<1>6. CASE Connects
  <2>1. state_.generation + 1 \in 1..MaxConnection
    BY <1>6 DEF Connects
  <2>2. /\ worker' = "connecting"
        /\ state_' = [connected |-> TRUE, referenced |-> state_.referenced,
                      generation |-> state_.generation + 1]
    BY <1>6 DEF Connects
  <2>3. state_.generation + 1 \in 0..MaxConnection
    BY <2>1
  <2> QED
    BY <2>1, <2>2, <2>3
<1>7. CASE Answer
  BY <1>7 DEF Answer
<1>8. CASE Telemetry
  BY <1>8 DEF Telemetry
<1>9. CASE Disconnects
  BY <1>9 DEF Disconnects
<1>10. CASE SendGivesUp
  BY <1>10 DEF SendGivesUp
<1> QED
  BY <1>1, <1>2, <1>3, <1>4, <1>5, <1>6, <1>7, <1>8, <1>9, <1>10
  DEF Next, Callback, ExecutorGoesOn, Thread, WorkerGoesOn, vars,
      InitializeConnection, GoalArrives, DiagnosticsDue, Destroy,
      StartInitialization, ReadSuccessful, ReadGeneration,
      DiagnoseGeneration, DiagnoseRunning, DiagnoseSuccess,
      TransportStopped, JoinInitialization, CallSetting,
      SettingSucceeds, SettingFails, StoreGeneration, StoreSuccessful,
      StoreRunning, ExecutorGoes, Report, ThreadGoes

\* The thread's variables keep their types; only a setting waits for a call.
LEMMA ThreadTypesStep ==
  ASSUME TransportTypes, ThreadTypes, ExecutorTypes, [Next]_vars
  PROVE  ThreadTypes'
<1> USE InitAssumption DEF TransportTypes, ThreadTypes, ExecutorTypes,
        Place, Setting, Connection, Looking
<1>1. CASE UNCHANGED <<flags, reply, initialization_thread_>>
  BY <1>1
<1>2. CASE StartInitialization
  BY <1>2 DEF StartInitialization
<1>3. CASE CallSetting
  BY <1>3 DEF CallSetting
<1>4. CASE SettingSucceeds
  BY <1>4 DEF SettingSucceeds, ThreadGoes, Following
<1>5. CASE SettingFails
  BY <1>5 DEF SettingFails, ThreadGoes
<1>6. CASE StoreGeneration
  BY <1>6 DEF StoreGeneration, ThreadGoes
<1>7. CASE StoreSuccessful
  BY <1>7 DEF StoreSuccessful, ThreadGoes
<1>8. CASE StoreRunning
  BY <1>8 DEF StoreRunning, ThreadGoes
<1>9. CASE FailDropped
  BY <1>9 DEF FailDropped
<1>10. CASE Answer
  BY <1>10 DEF Answer
<1>11. CASE SendGivesUp
  BY <1>11 DEF SendGivesUp
<1> QED
  BY <1>1, <1>2, <1>3, <1>4, <1>5, <1>6, <1>7, <1>8, <1>9, <1>10, <1>11
  DEF Next, Callback, ExecutorGoesOn, Thread, WorkerGoesOn, vars,
      InitializeConnection, GoalArrives, DiagnosticsDue, Destroy,
      ReadSuccessful, ReadGeneration, DiagnoseGeneration,
      DiagnoseRunning, DiagnoseSuccess, TransportStopped,
      JoinInitialization, SetConnected, Drain, ClearState, Connects,
      Telemetry, Disconnects, ExecutorGoes, Report

\* The executor's place and the generation it carries keep their types.
LEMMA ExecutorTypesStep ==
  ASSUME TransportTypes, ExecutorTypes, [Next]_vars
  PROVE  ExecutorTypes'
<1> USE DEF TransportTypes, ExecutorTypes, Free, Connection, Looking
<1>1. CASE UNCHANGED <<executor, shutting_down_>>
  BY <1>1
<1>2. CASE InitializeConnection
  BY <1>2 DEF InitializeConnection
<1>3. CASE GoalArrives
  BY <1>3 DEF GoalArrives
<1>4. CASE DiagnosticsDue
  BY <1>4 DEF DiagnosticsDue
<1>5. CASE Destroy
  BY <1>5 DEF Destroy
<1>6. CASE StartInitialization
  BY ZeroIsBound, <1>6 DEF StartInitialization
<1>7. CASE ReadSuccessful
  BY ZeroIsBound, <1>7 DEF ReadSuccessful, ExecutorGoes
<1>8. CASE ReadGeneration
  BY ZeroIsBound, <1>8 DEF ReadGeneration, ExecutorGoes
<1>9. CASE DiagnoseGeneration
  <2>1. CASE Report("initializing")
    BY ZeroIsBound, <1>9, <2>1 DEF Report, ExecutorGoes
  <2>2. CASE ExecutorGoes("diagnose running") /\ UNCHANGED <<accepted, report>>
    BY <1>9, <2>2 DEF DiagnoseGeneration, ExecutorGoes
  <2> QED
    BY <1>9, <2>1, <2>2 DEF DiagnoseGeneration
<1>10. CASE DiagnoseRunning
  <2>1. CASE Report("initializing")
    BY ZeroIsBound, <1>10, <2>1 DEF Report, ExecutorGoes
  <2>2. CASE ExecutorGoes("diagnose success") /\ UNCHANGED <<accepted, report>>
    BY <1>10, <2>2 DEF DiagnoseRunning, ExecutorGoes
  <2> QED
    BY <1>10, <2>1, <2>2 DEF DiagnoseRunning
<1>11. CASE DiagnoseSuccess
  BY ZeroIsBound, <1>11 DEF DiagnoseSuccess, ExecutorGoes, Report
<1>12. CASE TransportStopped
  BY <1>12 DEF TransportStopped, ExecutorGoes
<1>13. CASE JoinInitialization
  BY <1>13 DEF JoinInitialization, ExecutorGoes
<1> QED
  BY <1>1, <1>2, <1>3, <1>4, <1>5, <1>6, <1>7, <1>8, <1>9, <1>10, <1>11,
     <1>12, <1>13
  DEF Next, Callback, ExecutorGoesOn, Thread, WorkerGoesOn, vars, CallSetting,
      SettingSucceeds, SettingFails, StoreGeneration, StoreSuccessful,
      StoreRunning, SetConnected, Drain, FailDropped, SendGivesUp, ClearState,
      Connects, Answer, Telemetry, Disconnects, ThreadGoes

\* The history variables keep their types.
LEMMA HistoryTypesStep ==
  ASSUME TransportTypes, ThreadTypes, ExecutorTypes, HistoryTypes, [Next]_vars
  PROVE  HistoryTypes'
<1> USE InitAssumption DEF TransportTypes, ThreadTypes, ExecutorTypes,
        HistoryTypes, Setting, Connection, Looking
<1>1. CASE UNCHANGED <<confirmed, trouble, accepted, report>>
  BY <1>1
<1>2. CASE SettingFails
  BY <1>2 DEF SettingFails, ThreadGoes
<1>3. CASE ReadGeneration
  BY <1>3 DEF ReadGeneration, ExecutorGoes
<1>4. CASE DiagnoseGeneration
  <2>1. CASE Report("initializing")
    BY <1>4, <2>1 DEF Report, ExecutorGoes
  <2>2. CASE ExecutorGoes("diagnose running") /\ UNCHANGED <<accepted, report>>
    BY <1>4, <2>2 DEF DiagnoseGeneration, ExecutorGoes
  <2> QED
    BY <1>4, <2>1, <2>2 DEF DiagnoseGeneration
<1>5. CASE DiagnoseRunning
  <2>1. CASE Report("initializing")
    BY <1>5, <2>1 DEF Report, ExecutorGoes
  <2>2. CASE ExecutorGoes("diagnose success") /\ UNCHANGED <<accepted, report>>
    BY <1>5, <2>2 DEF DiagnoseRunning, ExecutorGoes
  <2> QED
    BY <1>5, <2>1, <2>2 DEF DiagnoseRunning
<1>6. CASE DiagnoseSuccess
  BY <1>6 DEF DiagnoseSuccess, ExecutorGoes, Report
<1>7. CASE Answer
  <2>1. state_.generation \in Connection
    BY <1>7 DEF Answer
  <2>2. CASE UNCHANGED confirmed
    BY <1>7, <2>2 DEF Answer
  <2>3. CASE confirmed' = [confirmed EXCEPT ![initialization_thread_.at] =
                             @ \cup {state_.generation}]
    <3>1. confirmed' \in [Setting -> SUBSET Connection]
      BY <2>1, <2>3
    <3> QED
      BY <1>7, <3>1 DEF Answer
  <2> QED
    BY <1>7, <2>2, <2>3 DEF Answer
<1> QED
  BY <1>1, <1>2, <1>3, <1>4, <1>5, <1>6, <1>7
  DEF Next, Callback, ExecutorGoesOn, Thread, WorkerGoesOn, vars,
      InitializeConnection, GoalArrives, DiagnosticsDue, Destroy,
      StartInitialization, ReadSuccessful, TransportStopped,
      JoinInitialization, CallSetting, SettingSucceeds, StoreGeneration,
      StoreSuccessful, StoreRunning, SetConnected, Drain, FailDropped,
      SendGivesUp, ClearState, Connects, Telemetry, Disconnects, ExecutorGoes,
      ThreadGoes

\* The four parts together.
LEMMA TypeStep ==
  ASSUME TypeOK, [Next]_vars
  PROVE  TypeOK'
BY TransportTypesStep, ThreadTypesStep, ExecutorTypesStep, HistoryTypesStep
DEF TypeOK

\* What was confirmed stays confirmed.
LEMMA ConfirmedStays ==
  ASSUME TransportTypes, ThreadTypes, HistoryTypes, [Next]_vars
  PROVE  \A s \in Setting : confirmed[s] \subseteq confirmed'[s]
<1>1. CASE UNCHANGED confirmed
  BY <1>1
<1>2. CASE Answer
  BY <1>2 DEF Answer, HistoryTypes
<1> QED
  BY <1>1, <1>2
  DEF Next, Callback, ExecutorGoesOn, Thread, WorkerGoesOn, vars,
      InitializeConnection, GoalArrives, DiagnosticsDue, Destroy,
      StartInitialization, ReadSuccessful, ReadGeneration, DiagnoseGeneration,
      DiagnoseRunning, DiagnoseSuccess, TransportStopped, JoinInitialization,
      CallSetting, SettingSucceeds, SettingFails, StoreGeneration,
      StoreSuccessful, StoreRunning, SetConnected, Drain, FailDropped,
      SendGivesUp, ClearState, Connects, Telemetry, Disconnects, ExecutorGoes,
      Report, ThreadGoes

\* The thread stores the generation it was started for.
LEMMA StoredStep ==
  ASSUME TransportTypes, ThreadTypes, ExecutorTypes, StoredInv, LookingInv,
         [Next]_vars
  PROVE  StoredInv'
<1> USE DEF ThreadTypes, ExecutorTypes, StoredInv, LookingInv, Unstored,
        Setting, Place, Looking
<1>1. CASE UNCHANGED <<initialized_generation_, initialization_thread_>>
  BY <1>1
<1>2. CASE StartInitialization
  BY <1>2 DEF StartInitialization
<1>3. CASE CallSetting
  BY <1>3 DEF CallSetting
<1>4. CASE SettingSucceeds
  BY <1>4 DEF SettingSucceeds, ThreadGoes, Following
<1>5. CASE SettingFails
  BY <1>5 DEF SettingFails, ThreadGoes
<1>6. CASE StoreGeneration
  BY <1>6 DEF StoreGeneration, ThreadGoes
<1>7. CASE StoreSuccessful
  BY <1>7 DEF StoreSuccessful, ThreadGoes
<1>8. CASE StoreRunning
  BY <1>8 DEF StoreRunning, ThreadGoes
<1> QED
  BY <1>1, <1>2, <1>3, <1>4, <1>5, <1>6, <1>7, <1>8
  DEF Next, Callback, ExecutorGoesOn, Thread, WorkerGoesOn, vars,
      InitializeConnection, GoalArrives, DiagnosticsDue, Destroy,
      ReadSuccessful, ReadGeneration, DiagnoseGeneration, DiagnoseRunning,
      DiagnoseSuccess, TransportStopped, JoinInitialization, SetConnected,
      Drain, FailDropped, SendGivesUp, ClearState, Connects, Answer,
      Telemetry, Disconnects, ExecutorGoes, Report

\* The transport's generation only grows.
LEMMA GenerationGrows ==
  ASSUME TransportTypes, [Next]_vars
  PROVE  state_.generation <= state_'.generation
<1> USE DEF TransportTypes
<1>1. CASE UNCHANGED state_
  BY <1>1
<1>2. CASE Connects
  BY <1>2 DEF Connects
<1>3. CASE Telemetry
  BY <1>3 DEF Telemetry
<1>4. CASE ClearState
  BY <1>4 DEF ClearState
<1> QED
  BY <1>1, <1>2, <1>3, <1>4
  DEF Next, Callback, ExecutorGoesOn, Thread, WorkerGoesOn, vars,
      InitializeConnection, GoalArrives, DiagnosticsDue, Destroy,
      StartInitialization, ReadSuccessful, ReadGeneration, DiagnoseGeneration,
      DiagnoseRunning, DiagnoseSuccess, TransportStopped, JoinInitialization,
      CallSetting, SettingSucceeds, SettingFails, StoreGeneration,
      StoreSuccessful, StoreRunning, SetConnected, Drain, FailDropped,
      SendGivesUp, Answer, Disconnects, ExecutorGoes, Report, ThreadGoes

\* The thread works on a connection the transport has reached.
LEMMA ThreadOrderStep ==
  ASSUME TransportTypes, ThreadTypes, ExecutorTypes, OrderInv, [Next]_vars
  PROVE  initialization_thread_'.generation <= state_'.generation
<1>0. /\ state_.generation <= state_'.generation
      /\ state_.generation \in Nat /\ state_'.generation \in Nat
  <2>1. TransportTypes'
    BY TransportTypesStep
  <2> QED
    BY <2>1, GenerationGrows, InitAssumption DEF TransportTypes
<1> USE <1>0
<1> USE DEF ThreadTypes, ExecutorTypes, OrderInv
<1>1. CASE UNCHANGED initialization_thread_
  BY <1>1
<1>2. CASE StartInitialization
  BY <1>2 DEF StartInitialization
<1>3. CASE CallSetting
  BY <1>3 DEF CallSetting
<1>4. CASE SettingSucceeds
  BY <1>4 DEF SettingSucceeds, ThreadGoes, Following
<1>5. CASE SettingFails
  BY <1>5 DEF SettingFails, ThreadGoes
<1>6. CASE StoreGeneration
  BY <1>6 DEF StoreGeneration, ThreadGoes
<1>7. CASE StoreSuccessful
  BY <1>7 DEF StoreSuccessful, ThreadGoes
<1>8. CASE StoreRunning
  BY <1>8 DEF StoreRunning, ThreadGoes
<1> QED
  BY <1>1, <1>2, <1>3, <1>4, <1>5, <1>6, <1>7, <1>8
  DEF Next, Callback, ExecutorGoesOn, Thread, WorkerGoesOn, vars,
      InitializeConnection, GoalArrives, DiagnosticsDue, Destroy,
      ReadSuccessful, ReadGeneration, DiagnoseGeneration, DiagnoseRunning,
      DiagnoseSuccess, TransportStopped, JoinInitialization, SetConnected,
      Drain, FailDropped, SendGivesUp, ClearState, Connects, Answer,
      Telemetry, Disconnects, ExecutorGoes, Report

\* The executor has seen a generation the transport has reached.
LEMMA ExecutorOrderStep ==
  ASSUME TransportTypes, ExecutorTypes, OrderInv, [Next]_vars
  PROVE  executor'.generation <= state_'.generation
<1>0. /\ state_.generation <= state_'.generation
      /\ state_.generation \in Nat /\ state_'.generation \in Nat
  <2>1. TransportTypes'
    BY TransportTypesStep
  <2> QED
    BY <2>1, GenerationGrows, InitAssumption DEF TransportTypes
<1> USE <1>0
<1> USE DEF ExecutorTypes, OrderInv, Free
<1>1. CASE UNCHANGED executor
  BY <1>1
<1>2. CASE InitializeConnection
  BY <1>2 DEF InitializeConnection
<1>3. CASE GoalArrives
  BY <1>3 DEF GoalArrives
<1>4. CASE DiagnosticsDue
  BY <1>4 DEF DiagnosticsDue
<1>5. CASE Destroy
  BY <1>5 DEF Destroy
<1>6. CASE StartInitialization
  BY <1>6 DEF StartInitialization
<1>7. CASE ReadSuccessful
  BY <1>7 DEF ReadSuccessful, ExecutorGoes
<1>8. CASE ReadGeneration
  BY <1>8 DEF ReadGeneration, ExecutorGoes
<1>9. CASE DiagnoseGeneration
  <2>1. CASE Report("initializing")
    BY <1>9, <2>1 DEF Report, ExecutorGoes
  <2>2. CASE ExecutorGoes("diagnose running") /\ UNCHANGED <<accepted, report>>
    BY <1>9, <2>2 DEF DiagnoseGeneration, ExecutorGoes
  <2> QED
    BY <1>9, <2>1, <2>2 DEF DiagnoseGeneration
<1>10. CASE DiagnoseRunning
  <2>1. CASE Report("initializing")
    BY <1>10, <2>1 DEF Report, ExecutorGoes
  <2>2. CASE ExecutorGoes("diagnose success") /\ UNCHANGED <<accepted, report>>
    BY <1>10, <2>2 DEF DiagnoseRunning, ExecutorGoes
  <2> QED
    BY <1>10, <2>1, <2>2 DEF DiagnoseRunning
<1>11. CASE DiagnoseSuccess
  <2>1. executor' = Free
    BY <1>11 DEF DiagnoseSuccess, Report, ExecutorGoes
  <2> QED
    BY <2>1
<1>12. CASE TransportStopped
  BY <1>12 DEF TransportStopped, ExecutorGoes
<1>13. CASE JoinInitialization
  BY <1>13 DEF JoinInitialization, ExecutorGoes
<1> QED
  BY <1>1, <1>2, <1>3, <1>4, <1>5, <1>6, <1>7, <1>8, <1>9, <1>10, <1>11,
     <1>12, <1>13
  DEF Next, Callback, ExecutorGoesOn, Thread, WorkerGoesOn, vars, CallSetting,
      SettingSucceeds, SettingFails, StoreGeneration, StoreSuccessful,
      StoreRunning, SetConnected, Drain, FailDropped, SendGivesUp, ClearState,
      Connects, Answer, Telemetry, Disconnects, ThreadGoes

\* Nothing is confirmed on a connection to come.
LEMMA ConfirmedOrderStep ==
  ASSUME TransportTypes, HistoryTypes, OrderInv, [Next]_vars
  PROVE  \A s \in Setting : \A m \in confirmed'[s] : m <= state_'.generation
<1>0. /\ state_.generation <= state_'.generation
      /\ state_.generation \in Nat /\ state_'.generation \in Nat
  <2>1. TransportTypes'
    BY TransportTypesStep
  <2> QED
    BY <2>1, GenerationGrows, InitAssumption DEF TransportTypes
<1> USE <1>0
<1> USE DEF HistoryTypes, OrderInv, Connection
<1>1. CASE UNCHANGED confirmed
  BY <1>1
<1>2. CASE Answer
  BY <1>2 DEF Answer
<1> QED
  BY <1>1, <1>2
  DEF Next, Callback, ExecutorGoesOn, Thread, WorkerGoesOn, vars,
      InitializeConnection, GoalArrives, DiagnosticsDue, Destroy,
      StartInitialization, ReadSuccessful, ReadGeneration, DiagnoseGeneration,
      DiagnoseRunning, DiagnoseSuccess, TransportStopped, JoinInitialization,
      CallSetting, SettingSucceeds, SettingFails, StoreGeneration,
      StoreSuccessful, StoreRunning, SetConnected, Drain, FailDropped,
      SendGivesUp, ClearState, Connects, Telemetry, Disconnects, ExecutorGoes,
      Report, ThreadGoes

\* Nobody is ahead of the transport.
LEMMA OrderStep ==
  ASSUME TypeOK, OrderInv, [Next]_vars
  PROVE  OrderInv'
BY ThreadOrderStep, ExecutorOrderStep, ConfirmedOrderStep DEF OrderInv, TypeOK

\* What the flags tell of the thread.
LEMMA FlagStep ==
  ASSUME ThreadTypes, FlagInv, [Next]_vars
  PROVE  FlagInv'
<1> USE DEF ThreadTypes, FlagInv, Place, Setting, Ended
<1>1. CASE UNCHANGED <<initialization_running_, initialization_successful_,
                         initialization_thread_, reply>>
  BY <1>1
<1>2. CASE StartInitialization
  BY <1>2 DEF StartInitialization
<1>3. CASE CallSetting
  BY <1>3 DEF CallSetting
<1>4. CASE SettingSucceeds
  BY <1>4 DEF SettingSucceeds, ThreadGoes, Following
<1>5. CASE SettingFails
  BY <1>5 DEF SettingFails, ThreadGoes
<1>6. CASE StoreGeneration
  BY <1>6 DEF StoreGeneration, ThreadGoes
<1>7. CASE StoreSuccessful
  BY <1>7 DEF StoreSuccessful, ThreadGoes
<1>8. CASE StoreRunning
  BY <1>8 DEF StoreRunning, ThreadGoes
<1>9. CASE FailDropped
  BY <1>9 DEF FailDropped
<1>10. CASE Answer
  BY <1>10 DEF Answer
<1>11. CASE SendGivesUp
  BY <1>11 DEF SendGivesUp
<1> QED
  BY <1>1, <1>2, <1>3, <1>4, <1>5, <1>6, <1>7, <1>8, <1>9, <1>10, <1>11
  DEF Next, Callback, ExecutorGoesOn, Thread, WorkerGoesOn, vars,
      InitializeConnection, GoalArrives, DiagnosticsDue, Destroy,
      ReadSuccessful, ReadGeneration, DiagnoseGeneration,
      DiagnoseRunning, DiagnoseSuccess, TransportStopped,
      JoinInitialization, SetConnected, Drain, ClearState, Connects,
      Telemetry, Disconnects, ExecutorGoes, Report

\* A thread that stores a failure has left a trace of it.
LEMMA TroubleStep ==
  ASSUME TransportTypes, ThreadTypes, HistoryTypes, TroubleInv, [Next]_vars
  PROVE  TroubleInv'
<1> USE DEF ThreadTypes, HistoryTypes, TroubleInv, Place, Setting,
        Connection
<1>1. CASE UNCHANGED <<initialization_thread_, reply, trouble>>
  BY <1>1
<1>2. CASE StartInitialization
  BY <1>2 DEF StartInitialization
<1>3. CASE CallSetting
  BY <1>3 DEF CallSetting
<1>4. CASE SettingSucceeds
  BY <1>4 DEF SettingSucceeds, ThreadGoes, Following
<1>5. CASE SettingFails
  BY <1>5 DEF SettingFails, ThreadGoes
<1>6. CASE StoreGeneration
  BY <1>6 DEF StoreGeneration, ThreadGoes
<1>7. CASE StoreSuccessful
  BY <1>7 DEF StoreSuccessful, ThreadGoes
<1>8. CASE StoreRunning
  BY <1>8 DEF StoreRunning, ThreadGoes
<1>9. CASE FailDropped
  BY <1>9 DEF FailDropped
<1>10. CASE Answer
  BY <1>10 DEF Answer
<1>11. CASE SendGivesUp
  BY <1>11 DEF SendGivesUp
<1> QED
  BY <1>1, <1>2, <1>3, <1>4, <1>5, <1>6, <1>7, <1>8, <1>9, <1>10, <1>11
  DEF Next, Callback, ExecutorGoesOn, Thread, WorkerGoesOn, vars,
      InitializeConnection, GoalArrives, DiagnosticsDue, Destroy,
      ReadSuccessful, ReadGeneration, DiagnoseGeneration,
      DiagnoseRunning, DiagnoseSuccess, TransportStopped,
      JoinInitialization, SetConnected, Drain, ClearState, Connects,
      Telemetry, Disconnects, ExecutorGoes, Report

\* The settings that are sent are wanted, and confirmed when they succeed.
LEMMA SettingStep ==
  ASSUME TypeOK, OrderInv, SettingInv, [Next]_vars
  PROVE  SettingInv'
<1>0. \A s \in Setting : Confirmed(s, initialization_thread_.generation) =>
        \E m \in confirmed'[s] : m >= initialization_thread_.generation
  BY ConfirmedStays DEF Confirmed, TypeOK
<1> USE DEF TypeOK, ThreadTypes, SettingInv, Confirmed, Setting
<1>1. CASE UNCHANGED <<initialization_thread_, reply, confirmed>>
  BY <1>1
<1>2. CASE StartInitialization
  <2>1. initialization_thread_'.at = "acceleration" /\ reply' = "none"
    BY <1>2 DEF StartInitialization
  <2> QED
    BY <2>1 DEF Wanted
<1>3. CASE CallSetting
  BY <1>3 DEF CallSetting
<1>4. CASE SettingSucceeds
  <2> DEFINE next == Following(initialization_thread_.at)
  <2>1. next \in Setting \cup {"generation"}
        /\ (next \in Setting => next \in Wanted)
    BY <1>4 DEF SettingSucceeds, Following, Wanted
  <2>2. /\ initialization_thread_'.at = next
        /\ next \in Setting => reply' = "none"
    BY <1>4 DEF SettingSucceeds, ThreadGoes
  <2> QED
    BY <2>1, <2>2
<1>5. CASE SettingFails
  BY <1>5 DEF SettingFails, ThreadGoes
<1>6. CASE StoreGeneration
  BY <1>6 DEF StoreGeneration, ThreadGoes
<1>7. CASE StoreSuccessful
  BY <1>7 DEF StoreSuccessful, ThreadGoes
<1>8. CASE StoreRunning
  BY <1>8 DEF StoreRunning, ThreadGoes
<1>9. CASE FailDropped
  BY <1>9 DEF FailDropped
<1>10. CASE Answer
  <2>1. /\ initialization_thread_.at \in Setting
        /\ initialization_thread_' = initialization_thread_
    BY <1>10 DEF Answer
  <2>2. CASE reply' = "error"
    BY <1>0, <2>1, <2>2
  <2>3. CASE confirmed' = [confirmed EXCEPT ![initialization_thread_.at] =
                             @ \cup {state_.generation}]
    <3>1. state_.generation \in confirmed'[initialization_thread_.at]
      BY <2>1, <2>3 DEF HistoryTypes
    <3>2. /\ state_.generation >= initialization_thread_.generation
          /\ initialization_thread_'.generation
               = initialization_thread_.generation
      BY <2>1 DEF OrderInv, TransportTypes
    <3> QED
      BY <2>1, <3>1, <3>2
  <2> QED
    BY <1>10, <2>2, <2>3 DEF Answer
<1>11. CASE SendGivesUp
  BY <1>11 DEF SendGivesUp
<1> QED
  BY <1>1, <1>2, <1>3, <1>4, <1>5, <1>6, <1>7, <1>8, <1>9, <1>10, <1>11
  DEF Next, Callback, ExecutorGoesOn, Thread, WorkerGoesOn, vars,
      InitializeConnection, GoalArrives, DiagnosticsDue, Destroy,
      ReadSuccessful, ReadGeneration, DiagnoseGeneration,
      DiagnoseRunning, DiagnoseSuccess, TransportStopped,
      JoinInitialization, SetConnected, Drain, ClearState, Connects,
      Telemetry, Disconnects, ExecutorGoes, Report

\* All generations are natural numbers.
LEMMA GenerationsAreNumbers ==
  ASSUME TypeOK
  PROVE  /\ initialized_generation_ \in Nat /\ state_.generation \in Nat
         /\ initialization_thread_.generation \in Nat
         /\ executor.generation \in Nat
<1>1. \A n \in 0..MaxConnection : n \in Nat
  BY InitAssumption
<1> QED
  BY <1>1 DEF TypeOK, TransportTypes, ThreadTypes, ExecutorTypes

\* What is stored is not ahead of the transport.
LEMMA StoredIsBehind ==
  ASSUME TypeOK, StoredInv, OrderInv
  PROVE  /\ initialization_thread_.generation <= state_.generation
         /\ initialized_generation_ # state_.generation =>
              initialized_generation_ < state_.generation
<1>1. initialized_generation_ <= initialization_thread_.generation
  BY GenerationsAreNumbers DEF StoredInv
<1>2. initialization_thread_.generation <= state_.generation
  BY DEF OrderInv
<1> QED
  BY <1>1, <1>2, GenerationsAreNumbers

\* What the executor has found out still holds when it goes on.
LEMMA LookingStep ==
  ASSUME TypeOK, StoredInv, OrderInv, FlagInv, LookingInv,
         ExecutorIsNotHeldUp, [Next]_vars
  PROVE  LookingInv'
<1> USE DEF TypeOK, ThreadTypes, LookingInv, Looking
<1>1. CASE UNCHANGED <<executor, initialization_thread_,
                         initialized_generation_,
                         initialization_successful_>>
  BY <1>1
<1>2. CASE InitializeConnection
  <2>1. /\ executor' = [at |-> "initialize", generation |-> state_.generation]
        /\ UNCHANGED <<flags, initialization_thread_>>
        /\ state_.generation # initialized_generation_
    BY <1>2 DEF InitializeConnection
  <2>2. /\ initialization_thread_.generation <= state_.generation
        /\ initialized_generation_ < state_.generation
    BY <2>1, StoredIsBehind
  <2> QED
    BY <2>1, <2>2
<1>3. CASE GoalArrives
  <2>1. /\ executor'.generation = state_.generation
        /\ UNCHANGED <<flags, initialization_thread_>>
        /\ executor'.at = "successful"
    BY <1>3 DEF GoalArrives
  <2> QED
    BY <1>3, <2>1 DEF StoredInv, OrderInv, Unstored, TransportTypes
<1>4. CASE DiagnosticsDue
  <2>1. /\ executor'.generation = state_.generation
        /\ UNCHANGED <<flags, initialization_thread_>>
        /\ executor'.at = "diagnose"
    BY <1>4 DEF DiagnosticsDue
  <2> QED
    BY <1>4, <2>1 DEF StoredInv, OrderInv, Unstored, TransportTypes
<1>5. CASE Destroy
  BY <1>5 DEF Destroy
<1>6. CASE StartInitialization
  <2>1. executor' = Free
    BY <1>6 DEF StartInitialization
  <2> QED
    BY <2>1 DEF Free
<1>7. CASE ReadSuccessful
  <2>1. UNCHANGED <<flags, initialization_thread_>>
    BY <1>7 DEF ReadSuccessful, ExecutorGoes
  <2>2. CASE initialization_successful_
    <3>1. executor' = [at |-> "generation", generation |-> executor.generation]
      BY <1>7, <2>2 DEF ReadSuccessful, ExecutorGoes
    <3> QED
      BY <1>7, <2>1, <2>2, <3>1 DEF ReadSuccessful
  <2>3. CASE ~initialization_successful_
    <3>1. executor' = Free
      BY <1>7, <2>3 DEF ReadSuccessful, ExecutorGoes
    <3> QED
      BY <3>1 DEF Free
  <2> QED
    BY <2>2, <2>3
<1>8. CASE ReadGeneration
  <2>1. executor' = Free
    BY <1>8 DEF ReadGeneration, ExecutorGoes
  <2> QED
    BY <2>1 DEF Free
<1>9. CASE DiagnoseGeneration
  <2>1. CASE Report("initializing")
    <3>1. executor' = Free
      BY <2>1 DEF Report, ExecutorGoes
    <3> QED
      BY <3>1 DEF Free
  <2>2. CASE ExecutorGoes("diagnose running")
    <3>1. /\ executor' = [at |-> "diagnose running", generation |-> executor.generation]
          /\ UNCHANGED <<flags, initialization_thread_>>
      BY <2>2 DEF ExecutorGoes
    <3>2. executor.at = "diagnose"
      BY <1>9 DEF DiagnoseGeneration
    <3> QED
      BY <3>1, <3>2
  <2> QED
    BY <1>9, <2>1, <2>2 DEF DiagnoseGeneration
<1>10. CASE DiagnoseRunning
  <2>1. CASE Report("initializing")
    <3>1. executor' = Free
      BY <2>1 DEF Report, ExecutorGoes
    <3> QED
      BY <3>1 DEF Free
  <2>2. CASE ExecutorGoes("diagnose success")
    <3>1. /\ executor' = [at |-> "diagnose success", generation |-> executor.generation]
          /\ UNCHANGED <<flags, initialization_thread_>>
      BY <2>2 DEF ExecutorGoes
    <3>2. executor.at = "diagnose running"
      BY <1>10 DEF DiagnoseRunning
    <3> QED
      BY <3>1, <3>2
  <2> QED
    BY <1>10, <2>1, <2>2 DEF DiagnoseRunning
<1>11. CASE DiagnoseSuccess
  <2>1. executor' = Free
    BY <1>11 DEF DiagnoseSuccess, Report, ExecutorGoes
  <2> QED
    BY <2>1 DEF Free
<1>12. CASE TransportStopped
  BY <1>12 DEF TransportStopped, ExecutorGoes
<1>13. CASE JoinInitialization
  BY <1>13 DEF JoinInitialization, ExecutorGoes
<1>14. CASE CallSetting
  BY <1>14 DEF CallSetting
<1>15. CASE SettingSucceeds
  BY <1>15 DEF SettingSucceeds, ThreadGoes, Following
<1>16. CASE SettingFails
  BY <1>16 DEF SettingFails, ThreadGoes
<1>17. CASE StoreGeneration
  <2>1. initialization_thread_.at = "generation"
    BY <1>17 DEF StoreGeneration
  <2>2. initialized_generation_ < initialization_thread_.generation
    BY <2>1 DEF StoredInv, Unstored
  <2>3. /\ initialization_thread_'.generation
             = initialization_thread_.generation
        /\ UNCHANGED <<executor, initialization_successful_>>
    BY <1>17 DEF StoreGeneration, ThreadGoes
  <2>4. executor.at # "initialize"
    BY <2>1 DEF ExecutorIsNotHeldUp
  <2> QED
    BY <2>3, <2>4
<1>18. CASE StoreSuccessful
  <2>1. /\ initialization_thread_'.generation
             = initialization_thread_.generation
        /\ UNCHANGED <<executor, initialized_generation_>>
        /\ initialization_thread_.at = "successful"
    BY <1>18 DEF StoreSuccessful, ThreadGoes
  <2>2. ~initialization_successful_
    BY <2>1 DEF FlagInv
  <2> QED
    BY <2>1, <2>2
<1>19. CASE StoreRunning
  BY <1>19 DEF StoreRunning, ThreadGoes
<1> QED
  BY <1>1, <1>2, <1>3, <1>4, <1>5, <1>6, <1>7, <1>8, <1>9, <1>10, <1>11,
     <1>12, <1>13, <1>14, <1>15, <1>16, <1>17, <1>18, <1>19
  DEF Next, Callback, ExecutorGoesOn, Thread, WorkerGoesOn, vars,
      SetConnected, Drain, FailDropped, SendGivesUp, ClearState, Connects,
      Answer, Telemetry, Disconnects

\* With each step the thread has at most the setting that succeeded more
\* behind it.
LEMMA BehindGrows ==
  ASSUME ThreadTypes, SettingInv, [Next]_vars
  PROVE  \/ Behind(initialization_thread_'.at, reply') = {}
         \/ /\ initialization_thread_' = initialization_thread_
            /\ Behind(initialization_thread_'.at, reply')
                 = Behind(initialization_thread_.at, reply)
         \/ /\ initialization_thread_.at # "none"
            /\ initialization_thread_'.generation
                 = initialization_thread_.generation
            /\ \A s \in Behind(initialization_thread_'.at, reply') :
                 \/ s \in Behind(initialization_thread_.at, reply)
                 \/ /\ s = initialization_thread_.at
                    /\ s \in Setting /\ reply = "success"
<1>1. CASE UNCHANGED <<initialization_thread_, reply>>
  BY <1>1
<1>2. CASE StartInitialization
  <2>1. initialization_thread_'.at = "acceleration"
    BY <1>2 DEF StartInitialization
  <2> QED
    BY <2>1 DEF Behind
<1>3. CASE CallSetting
  <2>1. /\ initialization_thread_' = initialization_thread_
        /\ initialization_thread_.at \in Setting
    BY <1>3 DEF CallSetting, ThreadTypes
  <2>2. Behind(initialization_thread_.at, reply') = Behind(initialization_thread_.at, reply)
    BY <2>1 DEF Behind, Setting
  <2> QED
    BY <2>1, <2>2 DEF Setting
<1>4. CASE SettingSucceeds
  <2>1. initialization_thread_.at \in Setting /\ reply = "success"
    BY <1>4 DEF SettingSucceeds
  <2>2. /\ initialization_thread_'.at = Following(initialization_thread_.at)
        /\ initialization_thread_'.generation
             = initialization_thread_.generation
        /\ initialization_thread_'.at \notin Setting => reply' = "success"
    BY <1>4 DEF SettingSucceeds, ThreadGoes
  <2>3. \A s \in Behind(Following(initialization_thread_.at), reply') :
          s \in Behind(initialization_thread_.at, reply) \cup {initialization_thread_.at}
    BY <2>1, <2>2 DEF Following, Setting, Behind, Wanted, SettingInv
  <2> QED
    BY <2>1, <2>2, <2>3 DEF Setting
<1>5. CASE SettingFails
  <2>1. initialization_thread_'.at = "generation" /\ reply' # "success"
    BY <1>5 DEF SettingFails, ThreadGoes
  <2> QED
    BY <2>1 DEF Behind
<1>6. CASE StoreGeneration
  <2>1. /\ initialization_thread_.at = "generation"
        /\ initialization_thread_' =
             [at |-> "successful", generation |-> initialization_thread_.generation]
        /\ reply' = reply
    BY <1>6 DEF StoreGeneration, ThreadGoes
  <2>2. Behind("successful", reply) = Behind("generation", reply)
    BY DEF Behind
  <2> QED
    BY <2>1, <2>2
<1>7. CASE StoreSuccessful
  <2>1. /\ initialization_thread_.at = "successful"
        /\ initialization_thread_' =
             [at |-> "running", generation |-> initialization_thread_.generation]
        /\ reply' = reply
    BY <1>7 DEF StoreSuccessful, ThreadGoes
  <2>2. Behind("running", reply) = Behind("successful", reply)
    BY DEF Behind
  <2> QED
    BY <2>1, <2>2
<1>8. CASE StoreRunning
  <2>1. /\ initialization_thread_.at = "running"
        /\ initialization_thread_' =
             [at |-> "ended", generation |-> initialization_thread_.generation]
        /\ reply' = reply
    BY <1>8 DEF StoreRunning, ThreadGoes
  <2>2. Behind("ended", reply) = Behind("running", reply)
    BY DEF Behind
  <2> QED
    BY <2>1, <2>2
<1>9. CASE FailDropped
  <2>1. /\ initialization_thread_' = initialization_thread_
        /\ initialization_thread_.at \in Setting
    BY <1>9 DEF FailDropped, ThreadTypes
  <2>2. Behind(initialization_thread_.at, reply') = Behind(initialization_thread_.at, reply)
    BY <2>1 DEF Behind, Setting
  <2> QED
    BY <2>1, <2>2 DEF Setting
<1>10. CASE Answer
  <2>1. /\ initialization_thread_' = initialization_thread_
        /\ initialization_thread_.at \in Setting
    BY <1>10 DEF Answer, ThreadTypes
  <2>2. Behind(initialization_thread_.at, reply') = Behind(initialization_thread_.at, reply)
    BY <2>1 DEF Behind, Setting
  <2> QED
    BY <2>1, <2>2 DEF Setting
<1>11. CASE SendGivesUp
  <2>1. /\ initialization_thread_' = initialization_thread_
        /\ initialization_thread_.at \in Setting
    BY <1>11 DEF SendGivesUp, ThreadTypes
  <2>2. Behind(initialization_thread_.at, reply') = Behind(initialization_thread_.at, reply)
    BY <2>1 DEF Behind, Setting
  <2> QED
    BY <2>1, <2>2 DEF Setting
<1> QED
  BY <1>1, <1>2, <1>3, <1>4, <1>5, <1>6, <1>7, <1>8, <1>9, <1>10, <1>11
  DEF Next, Callback, ExecutorGoesOn, Thread, WorkerGoesOn, vars,
      InitializeConnection, GoalArrives, DiagnosticsDue, Destroy,
      ReadSuccessful, ReadGeneration, DiagnoseGeneration,
      DiagnoseRunning, DiagnoseSuccess, TransportStopped,
      JoinInitialization, SetConnected, Drain, ClearState, Connects,
      Telemetry, Disconnects, ExecutorGoes, Report

\* What the thread has behind it was confirmed.
LEMMA BehindStep ==
  ASSUME TypeOK, SettingInv, BehindInv, [Next]_vars
  PROVE  BehindInv'
<1>1. \A s \in Setting : \A n : (\E m \in confirmed[s] : m >= n)
                               => (\E m \in confirmed'[s] : m >= n)
  BY ConfirmedStays DEF TypeOK
<1>2. \A place, answer : Behind(place, answer) \subseteq Setting
  BY DEF Behind, Setting, Wanted
<1>3. initialization_thread_.at \in Setting /\ reply = "success" =>
        \E m \in confirmed[initialization_thread_.at] :
          m >= initialization_thread_.generation
  BY DEF SettingInv, Confirmed
<1>4. initialization_thread_.at # "none" =>
        \A s \in Behind(initialization_thread_.at, reply) :
          \E m \in confirmed[s] : m >= initialization_thread_.generation
  BY DEF BehindInv, Confirmed
<1>5. SUFFICES ASSUME initialization_thread_'.at # "none",
                      NEW s \in Behind(initialization_thread_'.at, reply')
               PROVE  \E m \in confirmed'[s] :
                        m >= initialization_thread_'.generation
  BY DEF BehindInv, Confirmed
<1> QED
  BY <1>1, <1>2, <1>3, <1>4, <1>5, BehindGrows DEF TypeOK

\* What publish_diagnostics() has read still holds when it reads on.
LEMMA DiagnoseStep ==
  ASSUME TypeOK, StoredInv, FlagInv, LookingInv, DiagnoseInv, [Next]_vars
  PROVE  DiagnoseInv'
<1> USE DEF DiagnoseInv
<1>1. CASE UNCHANGED <<executor, initialization_thread_, initialized_generation_>>
  BY <1>1
<1>2. CASE InitializeConnection
  BY <1>2 DEF InitializeConnection
<1>3. CASE GoalArrives
  BY <1>3 DEF GoalArrives
<1>4. CASE DiagnosticsDue
  BY <1>4 DEF DiagnosticsDue
<1>5. CASE Destroy
  BY <1>5 DEF Destroy
<1>6. CASE StartInitialization
  <2>1. executor' = Free
    BY <1>6 DEF StartInitialization
  <2> QED
    BY <2>1 DEF Free
<1>7. CASE ReadSuccessful
  <2>1. executor'.at \in {"generation", "free"}
    BY <1>7 DEF ReadSuccessful, ExecutorGoes, Free
  <2> QED
    BY <2>1
<1>8. CASE ReadGeneration
  <2>1. executor' = Free
    BY <1>8 DEF ReadGeneration, ExecutorGoes
  <2> QED
    BY <2>1 DEF Free
<1>9. CASE DiagnoseGeneration
  <2>1. CASE Report("initializing")
    BY <2>1 DEF Report, ExecutorGoes, Free
  <2>2. CASE /\ initialized_generation_ = executor.generation
             /\ ExecutorGoes("diagnose running")
    BY <2>2 DEF ExecutorGoes
  <2> QED
    BY <1>9, <2>1, <2>2 DEF DiagnoseGeneration
<1>10. CASE DiagnoseRunning
  <2>1. CASE Report("initializing")
    BY <2>1 DEF Report, ExecutorGoes, Free
  <2>2. CASE ~initialization_running_ /\ ExecutorGoes("diagnose success")
    <3>1. /\ executor' = [at |-> "diagnose success",
                          generation |-> executor.generation]
          /\ UNCHANGED <<flags, initialization_thread_>>
      BY <2>2 DEF ExecutorGoes
    <3>2. /\ initialized_generation_ = executor.generation
          /\ executor.generation \in Connection
      BY <1>10 DEF DiagnoseRunning, TypeOK, ExecutorTypes, Looking
    <3>3. initialization_thread_.at # "none"
      <4>1. "none" \notin Unstored
        BY DEF Unstored, Setting
      <4> QED
        BY <3>2, <4>1, NoConnectionIsZero DEF StoredInv
    <3>4. initialization_thread_.at = "ended"
      BY <2>2, <3>3 DEF FlagInv, Ended
    <3> QED
      BY <3>1, <3>2, <3>4
  <2> QED
    BY <1>10, <2>1, <2>2 DEF DiagnoseRunning
<1>11. CASE DiagnoseSuccess
  <2>1. executor' = Free
    BY <1>11 DEF DiagnoseSuccess, Report, ExecutorGoes
  <2> QED
    BY <2>1 DEF Free
<1>12. CASE TransportStopped
  BY <1>12 DEF TransportStopped, ExecutorGoes
<1>13. CASE JoinInitialization
  BY <1>13 DEF JoinInitialization, ExecutorGoes
<1>14. CASE CallSetting
  BY <1>14 DEF CallSetting
<1>15. CASE SettingSucceeds
  BY <1>15 DEF SettingSucceeds, ThreadGoes, Setting
<1>16. CASE SettingFails
  BY <1>16 DEF SettingFails, ThreadGoes, Setting
<1>17. CASE StoreGeneration
  <2>1. /\ initialization_thread_.at = "generation"
        /\ executor' = executor
    BY <1>17 DEF StoreGeneration, ThreadGoes
  <2>2. initialized_generation_ < initialization_thread_.generation
    BY <2>1 DEF StoredInv, Unstored
  <2>3. executor.at \in Looking =>
          initialization_thread_.generation <= executor.generation
    BY DEF LookingInv
  <2>4. /\ initialized_generation_ \in Nat /\ executor.generation \in Nat
        /\ initialization_thread_.generation \in Nat
    BY GenerationsAreNumbers
  <2>5. executor.at \notin {"diagnose running", "diagnose success"}
    <3>1. executor.at \in Looking =>
            initialized_generation_ # executor.generation
      BY <2>2, <2>3, <2>4, LessIsDifferent
    <3>2. {"diagnose running", "diagnose success"} \subseteq Looking
      BY DEF Looking
    <3> QED
      BY <3>1, <3>2
  <2> QED
    BY <2>1, <2>5
<1>18. CASE StoreSuccessful
  BY <1>18 DEF StoreSuccessful, ThreadGoes
<1>19. CASE StoreRunning
  BY <1>19 DEF StoreRunning, ThreadGoes
<1> QED
  BY <1>1, <1>2, <1>3, <1>4, <1>5, <1>6, <1>7, <1>8, <1>9, <1>10, <1>11,
     <1>12, <1>13, <1>14, <1>15, <1>16, <1>17, <1>18, <1>19
  DEF Next, Callback, ExecutorGoesOn, Thread, WorkerGoesOn, vars,
      SetConnected, Drain, FailDropped, SendGivesUp, ClearState, Connects,
      Answer, Telemetry, Disconnects

\* A thread is only joined when it has ended.
LEMMA NotHeldUpStep ==
  ASSUME FlagInv, ExecutorIsNotHeldUp, [Next]_vars
  PROVE  ExecutorIsNotHeldUp'
<1> USE DEF ExecutorIsNotHeldUp
<1>1. CASE UNCHANGED <<executor, initialization_thread_>>
  BY <1>1
<1>2. CASE InitializeConnection
  BY <1>2 DEF InitializeConnection, FlagInv, Ended
<1>3. CASE GoalArrives
  BY <1>3 DEF GoalArrives
<1>4. CASE DiagnosticsDue
  BY <1>4 DEF DiagnosticsDue
<1>5. CASE Destroy
  BY <1>5 DEF Destroy
<1>6. CASE StartInitialization
  <2>1. executor' = Free
    BY <1>6 DEF StartInitialization
  <2> QED
    BY <2>1 DEF Free
<1>7. CASE ReadSuccessful
  <2>1. executor'.at \in {"generation", "free"}
    BY <1>7 DEF ReadSuccessful, ExecutorGoes, Free
  <2> QED
    BY <2>1
<1>8. CASE ReadGeneration
  <2>1. executor' = Free
    BY <1>8 DEF ReadGeneration, ExecutorGoes
  <2> QED
    BY <2>1 DEF Free
<1>9. CASE DiagnoseGeneration
  <2>1. \/ executor' = Free
        \/ executor' = [at |-> "diagnose running",
                        generation |-> executor.generation]
    <3>1. CASE Report("initializing")
      BY <3>1 DEF Report, ExecutorGoes
    <3>2. CASE ExecutorGoes("diagnose running")
      BY <3>2 DEF ExecutorGoes
    <3> QED
      BY <1>9, <3>1, <3>2 DEF DiagnoseGeneration
  <2>2. executor'.at # "initialize"
    <3>1. CASE executor' = Free
      BY <3>1 DEF Free
    <3>2. CASE executor' = [at |-> "diagnose running",
                            generation |-> executor.generation]
      BY <3>2
    <3> QED
      BY <2>1, <3>1, <3>2
  <2> QED
    BY <2>2
<1>10. CASE DiagnoseRunning
  <2>1. \/ executor' = Free
        \/ executor' = [at |-> "diagnose success",
                        generation |-> executor.generation]
    <3>1. CASE Report("initializing")
      BY <3>1 DEF Report, ExecutorGoes
    <3>2. CASE ExecutorGoes("diagnose success")
      BY <3>2 DEF ExecutorGoes
    <3> QED
      BY <1>10, <3>1, <3>2 DEF DiagnoseRunning
  <2>2. executor'.at # "initialize"
    <3>1. CASE executor' = Free
      BY <3>1 DEF Free
    <3>2. CASE executor' = [at |-> "diagnose success",
                            generation |-> executor.generation]
      BY <3>2
    <3> QED
      BY <2>1, <3>1, <3>2
  <2> QED
    BY <2>2
<1>11. CASE DiagnoseSuccess
  <2>1. executor' = Free
    BY <1>11 DEF DiagnoseSuccess, Report, ExecutorGoes
  <2> QED
    BY <2>1 DEF Free
<1>12. CASE TransportStopped
  BY <1>12 DEF TransportStopped, ExecutorGoes
<1>13. CASE JoinInitialization
  BY <1>13 DEF JoinInitialization, ExecutorGoes
<1>14. CASE CallSetting
  BY <1>14 DEF CallSetting, Setting
<1>15. CASE SettingSucceeds
  BY <1>15 DEF SettingSucceeds, Setting, ThreadGoes
<1>16. CASE SettingFails
  BY <1>16 DEF SettingFails, Setting, ThreadGoes
<1>17. CASE StoreGeneration
  BY <1>17 DEF StoreGeneration, Setting, ThreadGoes
<1>18. CASE StoreSuccessful
  BY <1>18 DEF StoreSuccessful, Setting, ThreadGoes
<1>19. CASE StoreRunning
  BY <1>19 DEF StoreRunning, Setting, ThreadGoes
<1> QED
  BY <1>1, <1>2, <1>3, <1>4, <1>5, <1>6, <1>7, <1>8, <1>9, <1>10, <1>11,
     <1>12, <1>13, <1>14, <1>15, <1>16, <1>17, <1>18, <1>19
  DEF Next, Callback, ExecutorGoesOn, Thread, WorkerGoesOn, vars,
      SetConnected, Drain, FailDropped, SendGivesUp, ClearState, Connects,
      Answer, Telemetry, Disconnects

\* Once configured, always configured.
LEMMA ConfiguredStays ==
  ASSUME TypeOK, [Next]_vars, NEW n, Configured(n)
  PROVE  Configured(n)'
BY ConfirmedStays DEF TypeOK, Configured, Wanted

\* The connection of a thread that has ended well is configured.
LEMMA SuccessIsConfigured ==
  ASSUME TypeOK, BehindInv, reply = "success",
         initialization_thread_.at \in {"generation", "successful", "running",
                                       "ended"}
  PROVE  Configured(initialization_thread_.generation)
<1>1. Behind(initialization_thread_.at, reply) = Wanted
  BY DEF Behind
<1> QED
  BY <1>1 DEF BehindInv, Confirmed, Configured

\* A connection that connection_is_ready() accepts is configured.
LEMMA AcceptedStep ==
  ASSUME TypeOK, StoredInv, FlagInv, BehindInv, LookingInv, AcceptedIsConfigured, [Next]_vars
  PROVE  AcceptedIsConfigured'
<1>0. \A n \in accepted : Configured(n)'
  BY ConfiguredStays DEF AcceptedIsConfigured
<1> USE <1>0
<1> USE DEF AcceptedIsConfigured
<1>1. CASE UNCHANGED accepted
  BY <1>1
<1>2. CASE ReadGeneration
  <2>1. CASE accepted' = accepted
    BY <1>0, <2>1
  <2>2. CASE initialized_generation_ = executor.generation
    <3>1. initialization_successful_
      BY <1>2 DEF ReadGeneration, LookingInv
    <3>2. /\ initialization_thread_.at \in {"running", "ended"}
          /\ reply = "success"
      BY <3>1 DEF FlagInv
    <3>3. initialized_generation_ = initialization_thread_.generation
      BY <3>2 DEF StoredInv, Unstored, Setting
    <3>4. Configured(executor.generation)
      BY <2>2, <3>2, <3>3, SuccessIsConfigured
    <3>5. accepted' = accepted \cup {executor.generation}
      BY <1>2, <2>2 DEF ReadGeneration
    <3>6. SUFFICES ASSUME NEW n \in accepted'
                   PROVE  Configured(n)'
      OBVIOUS
    <3>7. CASE n \in accepted
      BY <1>0, <3>7
    <3>8. CASE n = executor.generation
      BY <3>4, <3>8, ConfiguredStays
    <3> QED
      BY <3>5, <3>7, <3>8
  <2> QED
    BY <1>2, <2>1, <2>2 DEF ReadGeneration
<1> QED
  BY <1>1, <1>2
  DEF Next, Callback, ExecutorGoesOn, Thread, WorkerGoesOn, vars,
      InitializeConnection, GoalArrives, DiagnosticsDue, Destroy,
      StartInitialization, ReadSuccessful, DiagnoseGeneration,
      DiagnoseRunning, DiagnoseSuccess, TransportStopped, JoinInitialization,
      CallSetting, SettingSucceeds, SettingFails, StoreGeneration,
      StoreSuccessful, StoreRunning, SetConnected, Drain, FailDropped,
      SendGivesUp, ClearState, Connects, Answer, Telemetry, Disconnects,
      ExecutorGoes, Report, ThreadGoes

\* A trace of trouble stays.
LEMMA TroubleStays ==
  ASSUME TypeOK, [Next]_vars, NEW n, trouble[n] # "none"
  PROVE  trouble'[n] # "none"
<1>1. CASE UNCHANGED trouble
  BY <1>1
<1>2. CASE SettingFails
  BY <1>2 DEF SettingFails, TypeOK, HistoryTypes
<1> QED
  BY <1>1, <1>2
  DEF Next, Callback, ExecutorGoesOn, Thread, WorkerGoesOn, vars,
      InitializeConnection, GoalArrives, DiagnosticsDue, Destroy,
      StartInitialization, ReadSuccessful, ReadGeneration, DiagnoseGeneration,
      DiagnoseRunning, DiagnoseSuccess, TransportStopped, JoinInitialization,
      CallSetting, SettingSucceeds, StoreGeneration, StoreSuccessful,
      StoreRunning, SetConnected, Drain, FailDropped, SendGivesUp, ClearState,
      Connects, Answer, Telemetry, Disconnects, ExecutorGoes, Report,
      ThreadGoes

\* Each new report is true, and the last one stays true.
LEMMA DiagnosticsStep ==
  ASSUME TypeOK, StoredInv, FlagInv, TroubleInv, BehindInv, DiagnoseInv,
         DiagnosticsAreTrue, [Next]_vars
  PROVE  DiagnosticsAreTrue'
<1>0. /\ report.says = "failed" => trouble'[report.generation] # "none"
      /\ report.says = "initialized" => \A s \in Wanted : \E m \in confirmed'[s] :
                                         m >= report.generation
  <2>1. report.says = "initialized" => \A s \in Wanted : \E m \in confirmed'[s] :
                                         m >= report.generation
    BY ConfirmedStays DEF DiagnosticsAreTrue, TypeOK, Configured, Wanted
  <2> QED
    BY <2>1, TroubleStays DEF DiagnosticsAreTrue
<1> USE DEF DiagnosticsAreTrue
<1>1. CASE UNCHANGED report
  BY <1>0, <1>1 DEF Configured, Wanted
<1>2. CASE DiagnoseGeneration
  <2>1. CASE Report("initializing")
    <3>1. report'.says = "initializing"
      BY <2>1 DEF Report
    <3> QED
      BY <3>1
  <2>2. CASE report' = report
    BY <1>0, <2>2 DEF Configured, Wanted
  <2> QED
    BY <1>2, <2>1, <2>2 DEF DiagnoseGeneration, ExecutorGoes
<1>3. CASE DiagnoseRunning
  <2>1. CASE Report("initializing")
    <3>1. report'.says = "initializing"
      BY <2>1 DEF Report
    <3> QED
      BY <3>1
  <2>2. CASE report' = report
    BY <1>0, <2>2 DEF Configured, Wanted
  <2> QED
    BY <1>3, <2>1, <2>2 DEF DiagnoseRunning, ExecutorGoes
<1>4. CASE DiagnoseSuccess
  <2>1. /\ report' = [says |-> IF initialization_successful_ THEN "initialized"
                                                          ELSE "failed",
                      generation |-> executor.generation]
        /\ executor.at = "diagnose success"
    BY <1>4 DEF DiagnoseSuccess, Report
  <2>2. UNCHANGED <<trouble, confirmed>>
    BY <1>4 DEF DiagnoseSuccess, Report, ExecutorGoes
  <2>3. /\ initialization_thread_.at = "ended"
        /\ initialized_generation_ = executor.generation
    BY <2>1 DEF DiagnoseInv
  <2>4. initialization_thread_.generation = executor.generation
    BY <2>3 DEF StoredInv, Unstored, Setting
  <2>5. CASE initialization_successful_
    <3>1. reply = "success"
      BY <2>5 DEF FlagInv
    <3>2. Configured(executor.generation)
      BY <2>3, <2>4, <3>1, SuccessIsConfigured
    <3>3. report' = [says |-> "initialized", generation |-> executor.generation]
      BY <2>1, <2>5
    <3>4. report'.says = "initialized"
      BY <3>3
    <3> QED
      BY <2>2, <3>2, <3>3, <3>4 DEF Configured, Wanted
  <2>6. CASE ~initialization_successful_
    <3>1. reply # "success"
      BY <2>3, <2>6 DEF FlagInv
    <3>2. trouble[executor.generation] # "none"
      BY <2>3, <2>4, <3>1 DEF TroubleInv, Setting
    <3>3. report' = [says |-> "failed", generation |-> executor.generation]
      BY <2>1, <2>6
    <3> QED
      BY <2>2, <3>2, <3>3
  <2> QED
    BY <2>5, <2>6
<1> QED
  BY <1>1, <1>2, <1>3, <1>4
  DEF Next, Callback, ExecutorGoesOn, Thread, WorkerGoesOn, vars,
      InitializeConnection, GoalArrives, DiagnosticsDue, Destroy,
      StartInitialization, ReadSuccessful, ReadGeneration, TransportStopped,
      JoinInitialization, CallSetting, SettingSucceeds, SettingFails,
      StoreGeneration, StoreSuccessful, StoreRunning, SetConnected, Drain,
      FailDropped, SendGivesUp, ClearState, Connects, Answer, Telemetry,
      Disconnects, ExecutorGoes, ThreadGoes

\* The generations of confirmations are numbers.
LEMMA ConfirmedAreNumbers ==
  ASSUME TypeOK
  PROVE  \A s \in Setting : \A m \in confirmed[s] : m \in Nat
BY InitAssumption DEF TypeOK, HistoryTypes, Connection

\* IInv is inductive.
LEMMA InitInvariant == Init => IInv
<1> SUFFICES ASSUME Init PROVE IInv
  OBVIOUS
<1> USE DEF Init
<1>1. TypeOK
  BY InitAssumption, ZeroIsBound
  DEF TypeOK, TransportTypes, ThreadTypes, ExecutorTypes, HistoryTypes, Free,
      Looking, Place, Setting, Connection
<1>2. StoredInv /\ OrderInv
  BY DEF StoredInv, OrderInv, Unstored, Setting, Free
<1>3. FlagInv /\ TroubleInv /\ SettingInv /\ BehindInv
  BY DEF FlagInv, TroubleInv, SettingInv, BehindInv, Ended, Setting
<1>4. LookingInv /\ DiagnoseInv /\ ExecutorIsNotHeldUp
  BY DEF LookingInv, DiagnoseInv, ExecutorIsNotHeldUp, Looking, Free
<1>5. AcceptedIsConfigured /\ DiagnosticsAreTrue
  BY DEF AcceptedIsConfigured, DiagnosticsAreTrue
<1> QED
  BY <1>1, <1>2, <1>3, <1>4, <1>5 DEF IInv

\* Every step keeps each part.
LEMMA NextInvariant ==
  ASSUME IInv, [Next]_vars
  PROVE  IInv'
BY TypeStep, StoredStep, OrderStep, FlagStep, TroubleStep, SettingStep,
   BehindStep, LookingStep, DiagnoseStep, NotHeldUpStep, AcceptedStep,
   DiagnosticsStep
DEF IInv, TypeOK

\* The inductive invariant holds in every reachable state of the node.
THEOREM Invariant == Spec => []IInv
<1>1. Init => IInv
  BY InitInvariant
<1>2. IInv /\ [Next]_vars => IInv'
  BY NextInvariant
<1> QED
  BY <1>1, <1>2, PTL DEF Spec

\* Types, and that only a setting being sent waits for an answer.
THEOREM TypeCorrect == Spec => []TypeOK
<1>1. IInv => TypeOK
  BY DEF IInv
<1> QED
  BY <1>1, Invariant, PTL

\* connection_is_ready(), were it evaluated in one instant, never holds on the
\* strength of an earlier connection: what is stored names the thread's
\* connection, and nobody confirms a setting on a connection to come.
THEOREM ReadyConfigured == Spec => []ReadyIsConfigured
<1>1. IInv => ReadyIsConfigured
  <2> SUFFICES ASSUME IInv, Ready
               PROVE  \A s \in Wanted : state_.generation \in confirmed[s]
    BY DEF ReadyIsConfigured
  <2>1. /\ initialization_thread_.at \in {"running", "ended"}
        /\ reply = "success"
    BY DEF IInv, FlagInv, Ready
  <2>2. initialization_thread_.generation = state_.generation
    BY <2>1 DEF IInv, StoredInv, Unstored, Setting, Ready
  <2>3. Configured(state_.generation)
    BY <2>1, <2>2, SuccessIsConfigured DEF IInv
  <2>4. /\ state_.generation \in Nat
        /\ \A s \in Setting : \A m \in confirmed[s] :
             m \in Nat /\ m <= state_.generation
    BY GenerationsAreNumbers, ConfirmedAreNumbers DEF IInv, OrderInv
  <2>5. ASSUME NEW s \in Setting, NEW m \in confirmed[s],
               m >= state_.generation
        PROVE  state_.generation \in confirmed[s]
    <3>1. m = state_.generation
      BY <2>4, <2>5
    <3> QED
      BY <3>1
  <2> QED
    BY <2>3, <2>5 DEF Configured, Wanted
<1> QED
  BY <1>1, Invariant, PTL

\* Read in three steps, connection_is_ready() lets no goal pass on a
\* connection whose settings were not confirmed.
THEOREM AcceptedConfigured == Spec => []AcceptedIsConfigured
<1>1. IInv => AcceptedIsConfigured
  BY DEF IInv
<1> QED
  BY <1>1, Invariant, PTL

\* publish_diagnostics() reports failures and successes that happened.
THEOREM DiagnosticsTrue == Spec => []DiagnosticsAreTrue
<1>1. IInv => DiagnosticsAreTrue
  BY DEF IInv
<1> QED
  BY <1>1, Invariant, PTL

\* The executor only joins an initialisation thread that has ended.
THEOREM ExecutorGoesOnAtOnce == Spec => []ExecutorIsNotHeldUp
<1>1. IInv => ExecutorIsNotHeldUp
  BY DEF IInv
<1> QED
  BY <1>1, Invariant, PTL

-----------------------------------------------------------------------------
(* The node uses the transport as TransportView allows.                    *)

\* The state of the transport's life that the node's destructor stands for.
Life == IF executor.at = "stopping" THEN "stopping"
        ELSE IF executor.at \in {"joining", "gone"} THEN "stopped"
        ELSE "running"

\* A step that leaves the transport and the call alone.
LEMMA NoViewStep ==
  ASSUME UNCHANGED <<state_, worker, reply>>, Life' = Life
  PROVE  [View!Next]_(View!view)
BY DEF View!view, Life

\* The thread makes its next call, or keeps what became of the last one.
LEMMA NextCallOrNone ==
  ASSUME TypeOK, UNCHANGED <<state_, worker>>, Life' = Life,
         reply # "pending", reply' \in {"none", reply}
  PROVE  [View!Next]_(View!view)
<1>1. CASE reply' = reply
  BY <1>1, NoViewStep
<1>2. CASE reply' = "none" /\ reply # "none"
  <2>1. reply \in {"success", "error", "failed"}
    BY <1>2 DEF TypeOK, ThreadTypes
  <2>2. View!NextCall
    BY <1>2, <2>1 DEF View!NextCall, Life
  <2> QED
    BY <2>2 DEF View!Next
<1> QED
  BY <1>1, <1>2

\* The executor's steps before the destructor.
LEMMA ExecutorIsRunning ==
  ASSUME Life = "running", executor' = Free \/ executor'.at \in Looking
  PROVE  Life' = Life
<1>1. executor'.at \in Looking \cup {"free"}
  BY DEF Free
<1>2. executor'.at \notin {"stopping", "joining", "gone"}
  BY <1>1 DEF Looking
<1> QED
  BY <1>2 DEF Life

\* Every step is one of the transport's, or a next call, or neither.
LEMMA ViewNext == IInv /\ [Next]_vars => [View!Next]_(View!view)
<1> SUFFICES ASSUME IInv, [Next]_vars PROVE [View!Next]_(View!view)
  OBVIOUS
<1>1. CASE UNCHANGED <<state_, worker, reply, executor>>
  BY <1>1, NoViewStep DEF Life
<1>2. CASE InitializeConnection \/ GoalArrives \/ DiagnosticsDue
  <2>1. UNCHANGED <<state_, worker, reply>> /\ executor = Free
    BY <1>2 DEF InitializeConnection, GoalArrives, DiagnosticsDue
  <2>2. executor'.at \in Looking
    <3>1. CASE InitializeConnection
      BY <3>1 DEF InitializeConnection, Looking
    <3>2. CASE GoalArrives
      BY <3>2 DEF GoalArrives, Looking
    <3>3. CASE DiagnosticsDue
      BY <3>3 DEF DiagnosticsDue, Looking
    <3> QED
      BY <1>2, <3>1, <3>2, <3>3
  <2> QED
    BY <2>1, <2>2, ExecutorIsRunning, NoViewStep DEF Life, Free
<1>3. CASE \/ ReadSuccessful \/ ReadGeneration \/ DiagnoseGeneration
           \/ DiagnoseRunning \/ DiagnoseSuccess
  <2>1. UNCHANGED <<state_, worker, reply>> /\ executor.at \in Looking
    BY <1>3 DEF ReadSuccessful, ReadGeneration, DiagnoseGeneration,
       DiagnoseRunning, DiagnoseSuccess, ExecutorGoes, Report, Looking
  <2>2. \/ executor' = Free
        \/ \E place \in Looking :
             executor' = [at |-> place, generation |-> executor.generation]
    <3>1. CASE ReadSuccessful \/ ReadGeneration
      BY <3>1 DEF ReadSuccessful, ReadGeneration, ExecutorGoes, Looking
    <3>2. CASE DiagnoseGeneration
      BY <3>2 DEF DiagnoseGeneration, ExecutorGoes, Report, Looking
    <3>3. CASE DiagnoseRunning
      BY <3>3 DEF DiagnoseRunning, ExecutorGoes, Report, Looking
    <3>4. CASE DiagnoseSuccess
      BY <3>4 DEF DiagnoseSuccess, ExecutorGoes, Report
    <3> QED
      BY <1>3, <3>1, <3>2, <3>3, <3>4
  <2>3. Life = "running"
    BY <2>1 DEF Life, Looking
  <2> QED
    BY <2>1, <2>2, <2>3, ExecutorIsRunning, NoViewStep
<1>4. CASE Destroy
  <2>1. Life = "running" /\ Life' = "stopping" /\ UNCHANGED <<state_, worker, reply>>
    BY <1>4 DEF Destroy, Life, Free
  <2>2. View!Stop
    BY <2>1 DEF View!Stop, Life
  <2> QED
    BY <2>2 DEF View!Next
<1>5. CASE TransportStopped
  BY <1>5 DEF TransportStopped, View!Next
<1>6. CASE JoinInitialization
  <2>1. /\ UNCHANGED <<state_, worker, reply>>
        /\ executor.at = "joining" /\ executor'.at = "gone"
    BY <1>6 DEF JoinInitialization, ExecutorGoes
  <2> QED
    BY <2>1, NoViewStep DEF Life
<1>7. CASE StartInitialization
  <2>1. /\ UNCHANGED <<state_, worker>> /\ reply' = "none"
        /\ executor.at = "initialize" /\ executor' = Free
        /\ reply # "pending"
    BY <1>7 DEF StartInitialization, IInv, TypeOK, ThreadTypes, Setting
  <2>2. Life' = Life
    BY <2>1 DEF Life, Free
  <2> QED
    BY <2>1, <2>2, NextCallOrNone DEF IInv
<1>8. CASE SettingSucceeds
  <2>1. /\ UNCHANGED <<state_, worker, executor>> /\ reply = "success"
        /\ reply' \in {"none", "success"}
    BY <1>8 DEF SettingSucceeds, ThreadGoes
  <2> QED
    BY <2>1, NextCallOrNone DEF IInv, Life
<1>9. CASE \/ SettingFails \/ StoreGeneration \/ StoreSuccessful \/ StoreRunning
  BY <1>1, <1>9 DEF SettingFails, StoreGeneration, StoreSuccessful,
     StoreRunning, ThreadGoes
<1>10. CASE CallSetting
  BY <1>10 DEF CallSetting, View!Next
<1>11. CASE Connects \/ SetConnected \/ SendGivesUp \/ Telemetry
  BY <1>11 DEF Connects, SetConnected, SendGivesUp, Telemetry, View!Next
<1>12. CASE Disconnects \/ Drain \/ FailDropped \/ ClearState \/ Answer
  BY <1>12 DEF Disconnects, Drain, FailDropped, ClearState, Answer, View!Next
<1> QED
  BY <1>1, <1>2, <1>3, <1>4, <1>5, <1>6, <1>7, <1>8, <1>9, <1>10, <1>11, <1>12
  DEF Next, Callback, ExecutorGoesOn, Thread, WorkerGoesOn, vars

\* Whatever the node does, the transport and the call behave as TransportView
\* says: the thread calls again only when its last call has come back, and
\* the destructor stops the transport once.
THEOREM NodeKeepsToView == Spec => View!Spec
<1>1. Init => View!Init
  BY DEF Init, View!Init, Free
<1> QED
  BY <1>1, ViewNext, Invariant, PTL DEF Spec, View!Spec
=============================================================================
