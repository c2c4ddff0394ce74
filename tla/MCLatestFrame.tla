--------------------------- MODULE MCLatestFrame ---------------------------
(***************************************************************************)
(* Thread populations for model-checking LatestFrame.                      *)
(***************************************************************************)
EXTENDS LatestFrame, TLC

CONSTANTS p1, p2, c1, c2, k1, k2

\* Threads with the same role are interchangeable.
Symmetry == Permutations({p1, p2}) \cup Permutations({k1, k2})
=============================================================================
