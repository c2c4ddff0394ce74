--------------------------- MODULE MCLiveSession ---------------------------
(***************************************************************************)
(* Prompt texts for model-checking LiveSession.                            *)
(***************************************************************************)
EXTENDS LiveSession, TLC

CONSTANTS floor, wall, chair

\* Texts are interchangeable.
Symmetry == Permutations(Texts)
=============================================================================
