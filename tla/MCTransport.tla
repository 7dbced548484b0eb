---------------------------- MODULE MCTransport ----------------------------
(***************************************************************************)
(* Small instances of Transport.  c1 and c2 pass the same id (two MOVE     *)
(* commands), the other calls pass the id of STOP.                         *)
(***************************************************************************)
EXTENDS Transport, TLC

CONSTANTS c1, c2, c3, c4, MOVE, STOP, s40, s43

MCClientId == [c \in Client |-> IF c \in {c1, c2} THEN MOVE ELSE STOP]
MCStream == <<s40>>
\* For the run about calls: a streaming request takes the steps of a MOVE that
\* nobody waits for.
MCNoStream == <<>>

\* c1 and c2 make the same call: exchanging them changes no invariant.
MCSymmetry == Permutations({c1, c2})
=============================================================================
