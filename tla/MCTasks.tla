------------------------------ MODULE MCTasks ------------------------------
(* A small instance of Tasks.                                                  *)
EXTENDS Tasks
=============================================================================
