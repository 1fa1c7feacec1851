--------------------------- MODULE MCLocalCommand ---------------------------
(* Constants of LocalCommand for TLC: one module, run by several processes. *)
EXTENDS LocalCommand

CONSTANTS p1, p2, p3, a, c1

OneModule == [p \in Processes |-> a]
=============================================================================
