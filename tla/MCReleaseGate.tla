--------------------------- MODULE MCReleaseGate ---------------------------
(* Besides the runner's own, the commands somebody may give first (a whole *)
(* box build, or a text build with --force) and second (a part of a build, *)
(* or a reset).                                                            *)
EXTENDS ReleaseGate, TLC
Do(box, text, force, steps) ==
  [box |-> box, text |-> text, force |-> force, perf |-> FALSE, steps |-> steps]
TextReset == Do(FALSE, TRUE, TRUE, {"all"})
SomeCommands ==
  <<{Do(TRUE, FALSE, FALSE, {"all"}), TextReset},
    {Do(TRUE, TRUE, FALSE, {"tracker_modules"}), Do(FALSE, TRUE, FALSE, {"manifest"}),
     Do(FALSE, TRUE, TRUE, {"memory_attention"}), TextReset}>>

Symmetric == Permutations(Commits)

(* One step of the box build, and the same command again.                  *)
TrackerTwice == <<{Do(TRUE, FALSE, FALSE, {"tracker_modules"})},
                  {Do(TRUE, FALSE, FALSE, {"tracker_modules"})}>>
=============================================================================
