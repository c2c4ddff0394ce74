-------------------------- MODULE MCParallelTail --------------------------
(***************************************************************************)
(* Threads for model-checking ParallelTail.                                *)
(***************************************************************************)
EXTENDS ParallelTail, TLC

CONSTANTS t1, t2, x1, x2

\* Callers are interchangeable, and so are closers.
Symmetry == Permutations({t1, t2}) \cup Permutations({x1, x2})
=============================================================================
