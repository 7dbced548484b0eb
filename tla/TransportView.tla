---------------------------- MODULE TransportView ----------------------------
(***************************************************************************)
(* What the transport shows to a thread that calls command() and reads     *)
(* state() and to the one that starts and stops it, one call at a time:    *)
(* when a call is refused, answered, given up by stop() or failed by       *)
(* disconnect(), and how this relates to the connections that state()      *)
(* counts.  ConnectionInit is built on these actions, and Transport        *)
(* implements them for each of its calls.                                  *)
(***************************************************************************)
EXTENDS Naturals

CONSTANTS
  Answer,         \* the answers of the gripper that are told apart
  MaxConnection   \* bound: connections in one behaviour

VARIABLES
  life,    \* is the transport running, in stop(), or stopped
  phase,   \* where the worker is between two connections
  state_,  \* what state() returns: connected, referenced, generation
  status   \* the call: none, pending, an answer, or failed

view == <<life, phase, state_, status>>

Init ==
  /\ life \in {"running", "stopped"} /\ phase = "down" /\ status = "none"
  /\ state_ = [connected |-> FALSE, referenced |-> FALSE, generation |-> 0]

-----------------------------------------------------------------------------
Lives(from, to) ==
  /\ life = from /\ life' = to
  /\ UNCHANGED <<phase, state_, status>>

Start == Lives("stopped", "running")
Stop == Lives("running", "stopping")

\* stop() returns when the worker has ended: nothing is connected then.
Stopped == phase = "down" /\ Lives("stopping", "stopped")

-----------------------------------------------------------------------------
Turns(from, to) ==
  /\ phase = from /\ phase' = to
  /\ UNCHANGED <<life, status>>

\* connect_socket() sets state_ first, connected_ second.  It may be under
\* way when stop() is called; there is no new connection after stop().
Connects ==
  /\ life # "stopped" /\ state_.generation < MaxConnection
  /\ state_' = [connected |-> TRUE, referenced |-> state_.referenced,
                generation |-> state_.generation + 1]
  /\ Turns("down", "connecting")

SetConnected == Turns("connecting", "up") /\ UNCHANGED state_

\* Telemetry tells whether the gripper is referenced.
Telemetry ==
  /\ \E referenced \in BOOLEAN :
       state_' = [state_ EXCEPT !.referenced = referenced]
  /\ Turns("up", "up")

\* disconnect(): connected_ is cleared, the queues are drained, what was on
\* them is failed, state_ is reset.
Disconnects == Turns("up", "closing") /\ UNCHANGED state_

Drain == Turns("closing", "dropping") /\ UNCHANGED state_

ClearState ==
  /\ status # "pending"
  /\ state_' = [connected |-> FALSE, referenced |-> FALSE,
                generation |-> state_.generation]
  /\ Turns("dropping", "down")

-----------------------------------------------------------------------------
Becomes(from, to) ==
  /\ status = from /\ status' \in to
  /\ UNCHANGED <<life, phase, state_>>

\* command(): refused unless connected_.  In the middle of disconnect()
\* connected_ may have been read just before.
Call ==
  \/ phase \in {"up", "closing"} /\ Becomes("none", {"pending"})
  \/ phase # "up" /\ Becomes("none", {"failed"})

\* The thread makes its next call.
NextCall == status \in Answer \cup {"failed"} /\ Becomes(status, {"none"})

Answers == phase = "up" /\ Becomes("pending", Answer)

\* stop() clears running_ before the frame of the call is out: the call is
\* failed while there is still a connection.
GivesUp ==
  life = "stopping" /\ phase = "up" /\ Becomes("pending", {"failed"})

FailDropped == phase = "dropping" /\ Becomes("pending", {"failed"})

-----------------------------------------------------------------------------
Next ==
  \/ Start \/ Stop \/ Stopped
  \/ Connects \/ SetConnected \/ Telemetry \/ Disconnects \/ Drain
  \/ ClearState
  \/ Call \/ NextCall \/ Answers \/ GivesUp \/ FailDropped

Spec == Init /\ [][Next]_view
=============================================================================
