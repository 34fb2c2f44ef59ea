---------------------------- MODULE MCTimeTravel ----------------------------
(* Instances of TimeTravel for TLC: up to three executions, all alike or mixed. *)
EXTENDS TimeTravel
CONSTANTS e1, e2, e3
=============================================================================
