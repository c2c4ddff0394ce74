---------------------------- MODULE ReleaseGate ----------------------------
(***************************************************************************)
(* tools/docker_test_runner.sh and tools/release_gate.sh over an artifact  *)
(* root: build it, smoke it, refresh its manifest and smoke it read-only;  *)
(* around that the gate's tests, checks and measurements, which end in     *)
(* RELEASE_GATE_PASS.json.  Everybody may use the root for other commands  *)
(* before and after, and change the checkout at any time.                  *)
(***************************************************************************)
EXTENDS ArtifactBuild

VARIABLES
  runner,    \* where docker_test_runner.sh is
  gate,      \* where release_gate.sh is
  gateTree,  \* the checkout its preflight saw
  returned,  \* history: the checkout came back to it during the gate
  evidence   \* history: the checkouts whose tests and measurements counted

gateVars == <<runner, gate, gateTree, returned, evidence>>
vars == <<buildVars, gateVars>>

GateStages ==
  <<"preflight", "clean-build", "built", "container tests", "wrapper tests", "tested",
    "manifest", "measurements", "measured", "summary">>
GateRuns == \E n \in 1..Len(GateStages) : gate = GateStages[n]

GateInit == /\ Init /\ runner = "off" /\ gate = "off" /\ gateTree = None
            /\ returned = FALSE /\ evidence = {}
-----------------------------------------------------------------------------
(* The runner.                                                             *)
RunnerRequest ==
  [box |-> FALSE, text |-> TRUE, force |-> FALSE, perf |-> TRUE, steps |-> {"all"}]

(* Every stage starts a container of its own.                              *)
RunnerBuilds ==
  /\ runner = "off" /\ (GateRuns => gate = "preflight")
  /\ Started(RunnerRequest)
  /\ runner' = "build"
  /\ gate' = IF gate = "preflight" THEN "clean-build" ELSE "off"
  /\ UNCHANGED <<gateTree, returned, evidence>>

(* set -e: the first stage that fails ends the runner, and its gate.       *)
RunnerEnds(passed) ==
  /\ runner' = "off"
  /\ gate' = CASE gate = "clean-build" /\ passed -> "built"
               [] gate = "clean-build" /\ ~passed -> "failed"
               [] OTHER -> gate

RunnerGoes(from, passed, to) ==
  /\ runner = from /\ process = "none"
  /\ IF passed THEN runner' = to /\ UNCHANGED gate ELSE RunnerEnds(FALSE)
  /\ UNCHANGED <<gateTree, returned, evidence, runVars, sourceVars>>

RunnerBuilt ==
  /\ RunnerGoes("build", report = TRUE, "smoke")
  /\ UNCHANGED rootVars

(* The writable smoke may add a cache that the manifest does not list yet. *)
RunnerSmokes ==
  \E o \in Smoke :
    /\ RunnerGoes("smoke", o.ok, "refresh")
    /\ file' = o.file
    /\ UNCHANGED <<provenance, litter, manifest>>

RunnerRefreshes ==
  /\ \/ /\ WritesManifest(Identity(tree))
        /\ RunnerGoes("refresh", manifest'.complete, "strict")
     \/ UNCHANGED manifest /\ RunnerGoes("refresh", FALSE, "strict")
  /\ UNCHANGED <<file, provenance, litter>>

(* The last smoke has the root read-only.                                  *)
RunnerPasses ==
  /\ runner = "strict"
  /\ \E passed \in {FALSE, RuntimeLoads} : RunnerEnds(passed)
  /\ UNCHANGED <<gateTree, returned, evidence, buildVars>>
-----------------------------------------------------------------------------
(* The gate.                                                               *)
Keeps(to) == gate' = to /\ UNCHANGED <<runner, gateTree, returned, buildVars>>
Moves(to) == Keeps(to) /\ UNCHANGED evidence
(* A stage that runs the checkout's own code.                              *)
Judged(to) ==
  /\ Keeps(to)
  /\ evidence' = IF to = "failed" THEN evidence ELSE evidence \cup {tree}

(* Only a clean checkout and an output directory that does not exist yet.  *)
Preflight ==
  /\ runner = "off" /\ process = "none" /\ ~GateRuns
  /\ tree.edit = 0 /\ ~Populated
  /\ gate' = "preflight" /\ gateTree' = tree /\ returned' = FALSE /\ evidence' = {}
  /\ UNCHANGED <<runner, buildVars>>

(* (Mutation: the checkout is not looked at again.)                        *)
AssertNothing(from, to) == gate = from /\ Moves(to)

(* assert_source_unchanged: HEAD and the status of the checkout.           *)
AssertSource(from, to) ==
  /\ gate = from
  /\ Moves(IF Identity(tree) = Identity(gateTree) THEN to ELSE "failed")

Tests(from, to) == gate = from /\ \E outcome \in {to, "failed"} : Judged(outcome)

(* The checksums of everything listed, and the identity in the manifest.   *)
ManifestVerifies ==
  /\ manifest # None
  /\ manifest.complete
  /\ \A f \in Listed : manifest.listing[f] # None => manifest.listing[f] = file[f]
  /\ manifest.from = Identity(gateTree)

VerifyManifest ==
  /\ gate = "manifest"
  /\ Moves(IF ManifestVerifies THEN "measurements" ELSE "failed")

(* The mask regression, its thresholds, three canonical runs and the soak, *)
(* each of which may miss its threshold; they load the read-only root.     *)
Measure ==
  /\ gate = "measurements"
  /\ \E outcome \in {"failed"} \cup (IF RuntimeLoads THEN {"measured"} ELSE {}) :
       Judged(outcome)

(* RELEASE_GATE_PASS.json.                                                 *)
Summarize == gate = "summary" /\ Moves("passed")

(* on_exit, whatever stops it.                                             *)
GateStopped ==
  /\ GateRuns /\ process = "none"
  /\ gate' = "failed" /\ runner' = "off"
  /\ UNCHANGED <<gateTree, returned, evidence, buildVars>>

Gate ==
  \/ Preflight \/ AssertSource("built", "container tests")
  \/ Tests("container tests", "wrapper tests") \/ Tests("wrapper tests", "tested")
  \/ AssertSource("tested", "manifest") \/ VerifyManifest \/ Measure
  \/ AssertSource("measured", "summary") \/ Summarize \/ GateStopped
-----------------------------------------------------------------------------
(* Somebody else gives a command, but not in the middle of these two.      *)
Command ==
  /\ runner = "off" /\ ~GateRuns
  /\ run < MaxRuns /\ \E r \in Requests[run + 1] : Started(r)
  /\ gate' = "off" /\ UNCHANGED <<runner, gateTree, returned, evidence>>

BuildStep ==
  /\ \/ BoxScripts \/ TextScripts \/ Finished \/ Killed
     \/ Refuses \/ Prepare \/ PrepareCut \/ WriteManifest
  /\ UNCHANGED gateVars

SourceChange ==
  /\ ChangeSource
  /\ returned' = (returned \/ (GateRuns /\ tree' = gateTree))
  /\ UNCHANGED <<runner, gate, gateTree, evidence>>

GateNext ==
  \/ Command \/ BuildStep \/ SourceChange
  \/ RunnerBuilds \/ RunnerBuilt \/ RunnerSmokes \/ RunnerRefreshes \/ RunnerPasses
  \/ Gate

GateSpec == GateInit /\ [][GateNext]_vars
-----------------------------------------------------------------------------
(* The runner and the gate are where their scripts have a stage.           *)
GateTypeOK ==
  /\ TypeOK
  /\ runner \in {"off", "build", "smoke", "refresh", "strict"}
  /\ GateRuns \/ gate \in {"off", "failed", "passed"}
  /\ gateTree \in Trees \cup {None} /\ returned \in BOOLEAN
  /\ evidence \subseteq Trees

(* A passed gate (of a checkout that did not leave its commit and come back*)
(* unseen): every artifact is whole, was made from exactly the commit that *)
(* passed, is the one the manifest lists, and was tested by that commit.   *)
GatePassIsBuilt ==
  gate = "passed" /\ ~returned =>
    /\ \A f \in TextFiles \ Intermediates : file[f] # None
    /\ \A f \in TextFiles : file[f] # None => file[f].state = "whole" /\ file[f].tree = gateTree
    /\ manifest # None /\ manifest.complete /\ manifest.from = Identity(gateTree)
    /\ \A f \in TextFiles : manifest.listing[f] = file[f]
    /\ evidence = {gateTree}
=============================================================================
