---------------------------- MODULE MCStressTools ----------------------------
(* Instances of StressTools for TLC: a stress tool, a pipeline and an fsutil. *)
EXTENDS StressTools
CONSTANTS e1, e2, e3

Mixed == [e \in Exec |-> CASE e = e1 -> "memfill" [] e = e2 -> "coreutils" [] e = e3 -> "fsutil"]
=============================================================================
