---------------------------- MODULE CommandService ----------------------------
(***************************************************************************)
(* What the transport promises a caller of command(): a call is sent to    *)
(* the gripper at most once and only while its future is not ready; the    *)
(* future gets one value, an answer only if the call was sent.  A failed   *)
(* call may or may not have been sent.                                     *)
(***************************************************************************)
CONSTANT Client

VARIABLES status, sent

svars == <<status, sent>>

Init == status = [c \in Client |-> "idle"] /\ sent = [c \in Client |-> 0]

Call(c) ==
  /\ status[c] = "idle"
  /\ status' = [status EXCEPT ![c] = "pending"]
  /\ UNCHANGED sent

Send(c) ==
  /\ status[c] = "pending" /\ sent[c] = 0
  /\ sent' = [sent EXCEPT ![c] = 1]
  /\ UNCHANGED status

Answer(c) ==
  /\ status[c] = "pending" /\ sent[c] = 1
  /\ status' = [status EXCEPT ![c] = "answered"]
  /\ UNCHANGED sent

Fail(c) ==
  /\ status[c] = "pending"
  /\ status' = [status EXCEPT ![c] = "failed"]
  /\ UNCHANGED sent

Next == \E c \in Client : Call(c) \/ Send(c) \/ Answer(c) \/ Fail(c)

Spec == Init /\ [][Next]_svars

Fairness == \A c \in Client : WF_svars(Answer(c) \/ Fail(c))

FairSpec == Spec /\ Fairness
=============================================================================
