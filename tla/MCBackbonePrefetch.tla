------------------------- MODULE MCBackbonePrefetch -------------------------
(* Two pipelines on one model and two iterators over short frame lists: an *)
(* empty one, and two that share a frame.                                  *)
EXTENDS BackbonePrefetch, TLC
ShortLists == {<<>>, <<1, 2, 1>>, <<2>>}
Symmetric == Permutations(Pipelines) \cup Permutations(Iterators)
=============================================================================
