------------------------- MODULE MCExtensionService -------------------------
(* A small instance of ExtensionService for TLC. *)
EXTENDS ExtensionService

CONSTANTS e1, e2

Limit(str, bw, n) == [str |-> str, bw |-> bw, n |-> n]

\* Two limits of one bandwidth on different CIDRs, which share a policy name.
Limits == (e1 :> Limit("a", "1mbit", 2)) @@ (e2 :> Limit("b", "1mbit", 1))
=============================================================================
