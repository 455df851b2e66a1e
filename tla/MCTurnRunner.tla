---------------------------- MODULE MCTurnRunner ----------------------------
(* TurnRunner on small instances: one thread, two or three messages, so that a *)
(* turn, a message that waits or steers, and a stop meet.                      *)
EXTENDS TurnRunner, TLC

CONSTANTS a1, a2
=============================================================================
