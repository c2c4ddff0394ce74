---------------------------- MODULE MCHybridLive ----------------------------
(***************************************************************************)
(* Prompts for model-checking HybridLive.                                  *)
(***************************************************************************)
EXTENDS HybridLive, TLC

CONSTANTS floor, wall

\* Prompts are interchangeable.
Symmetry == Permutations(Prompts)
=============================================================================
