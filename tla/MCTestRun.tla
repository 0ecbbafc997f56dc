------------------------------- MODULE MCTestRun -------------------------------
(* Small instances of TestRun. *)
EXTENDS TestRun, TLC

CONSTANTS p1, p2, p3, t1, t2

Symmetry == Permutations({p1, p2, p3}) \cup Permutations({t1, t2})

=============================================================================
