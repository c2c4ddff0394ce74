------------------------- MODULE MCNodeGenerations -------------------------
(***************************************************************************)
(* Controllers for model-checking NodeGenerations.                         *)
(***************************************************************************)
EXTENDS NodeGenerations, TLC

CONSTANTS k1, k2

\* Life-cycle callers are interchangeable.
Symmetry == Permutations({k1, k2})
=============================================================================
