---------------------------- MODULE MCMotionGoals ----------------------------
(***************************************************************************)
(* Small instances of MotionGoals: one or two goals, and requests of the   *)
(* services.                                                               *)
(***************************************************************************)
EXTENDS MotionGoals

CONSTANTS g1, g2, home, stop, tare
=============================================================================
