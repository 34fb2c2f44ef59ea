-------------------------- MODULE MCProcessStopper --------------------------
(* Instances of ProcessStopper for TLC. *)
EXTENDS ProcessStopper
CONSTANTS e1, e2, p1, p2

\* The filter of e1 also matches the protected p2.
Overlapping == [e \in Exec |-> IF e = e1 THEN {p1, p2} ELSE {p1}]
=============================================================================
