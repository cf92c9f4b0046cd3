------------------------------ MODULE MCTasks ------------------------------
(* Instances of Tasks for TLC.                                             *)
EXTENDS Tasks

CONSTANTS r1, r2
=============================================================================
