----------------------------- MODULE CommandQueue -----------------------------
(***************************************************************************)
(* What the threads of the driver can rely on when they share a transport: *)
(* in which order calls of command() reach the gripper, and what becomes   *)
(* of them when the connection is lost.  Transport implements it; the      *)
(* modules of the driver are built on it instead of on Transport.          *)
(*                                                                         *)
(* Calls are written in the order in which they were queued, one at a      *)
(* time; a priority call passes the queue and does not wait for the call   *)
(* in flight, unless that one is a priority call, too.  When the           *)
(* connection is lost nothing stays queued and every open call fails.      *)
(***************************************************************************)
EXTENDS Naturals, Sequences, Functions

CONSTANTS
  Client,    \* calls of command(), each made at most once
  Priority,  \* those made with priority = true
  Answer     \* what the gripper may answer

VARIABLES
  up,        \* calls are accepted
  queue, priorityQueue,
  flying,    \* written and not answered
  dropped,   \* taken off the queues because the connection was lost
  status     \* what the caller knows of each call

qvars == <<up, queue, priorityQueue, flying, dropped, status>>

Init ==
  /\ up = FALSE
  /\ queue = <<>> /\ priorityQueue = <<>>
  /\ flying = {} /\ dropped = {}
  /\ status = [c \in Client |-> "idle"]

Open ==
  /\ up' = TRUE
  /\ UNCHANGED <<queue, priorityQueue, flying, dropped, status>>

Enqueue(c) ==
  /\ up /\ status[c] = "idle"
  /\ status' = [status EXCEPT ![c] = "pending"]
  /\ IF c \in Priority
       THEN priorityQueue' = Append(priorityQueue, c) /\ UNCHANGED queue
       ELSE queue' = Append(queue, c) /\ UNCHANGED priorityQueue
  /\ UNCHANGED <<up, flying, dropped>>

\* connected_ may have been read before it was set, or be cleared already.
Reject(c) ==
  /\ status[c] = "idle"
  /\ status' = [status EXCEPT ![c] = "failed"]
  /\ UNCHANGED <<up, queue, priorityQueue, flying, dropped>>

Send ==
  \/ /\ priorityQueue # <<>> /\ flying \cap Priority = {}
     /\ flying' = flying \cup {Head(priorityQueue)}
     /\ priorityQueue' = Tail(priorityQueue)
     /\ UNCHANGED <<up, queue, dropped, status>>
  \/ /\ queue # <<>> /\ priorityQueue = <<>> /\ flying = {}
     /\ flying' = {Head(queue)}
     /\ queue' = Tail(queue)
     /\ UNCHANGED <<up, priorityQueue, dropped, status>>

\* An answer, or "failed" if the call could not be written.
Return(c, a) ==
  /\ c \in flying
  /\ flying' = flying \ {c}
  /\ status' = [status EXCEPT ![c] = a]
  /\ UNCHANGED <<up, queue, priorityQueue, dropped>>

Drop ==
  /\ up' = FALSE
  /\ queue' = <<>> /\ priorityQueue' = <<>> /\ flying' = {}
  /\ dropped' = dropped \cup Range(queue) \cup Range(priorityQueue) \cup flying
  /\ UNCHANGED status

FailDropped(c) ==
  /\ c \in dropped
  /\ dropped' = dropped \ {c}
  /\ status' = [status EXCEPT ![c] = "failed"]
  /\ UNCHANGED <<up, queue, priorityQueue, flying>>

Next ==
  \/ Open \/ Drop \/ Send
  \/ \E c \in Client :
       \/ Enqueue(c) \/ Reject(c) \/ FailDropped(c)
       \/ \E a \in Answer \cup {"failed"} : Return(c, a)

Spec == Init /\ [][Next]_qvars

(***************************************************************************)
(* The transport does not rest while it has a call: it sends what it can,  *)
(* and a call in flight is answered, or its deadline ends the connection.  *)
(***************************************************************************)
Progress ==
  \/ Send
  \/ flying # {} /\ Drop
  \/ \E c \in Client :
       FailDropped(c) \/ \E a \in Answer \cup {"failed"} : Return(c, a)

Fairness == WF_qvars(Progress)

FairSpec == Spec /\ Fairness
=============================================================================
