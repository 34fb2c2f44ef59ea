-------------------------- MODULE MCNetworkAttack --------------------------
(* Small instances of NetworkAttack for TLC. *)
EXTENDS NetworkAttack

CONSTANTS e1, e2, e3

Limit(str, bw, n) == [str |-> str, bw |-> bw, n |-> n]
Divert(str) == [str |-> str, bw |-> "", n |-> 0]

\* Two executions of one limit, which share the slot, and a WinDivert attack.
Twins == (e1 :> Limit("a", "1mbit", 1)) @@ (e2 :> Limit("a", "1mbit", 1))
           @@ (e3 :> Divert("c"))
=============================================================================
