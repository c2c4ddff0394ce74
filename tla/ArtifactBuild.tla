--------------------------- MODULE ArtifactBuild ---------------------------
(***************************************************************************)
(* The build of an artifact root: export/build.py (box and text builds),   *)
(* export/build_text_prompt_mig.py, the scripts they start, the root's     *)
(* provenance and manifest (write_artifact_manifest.py), and the identity  *)
(* docker/rocm101/run.sh passes to a container.                            *)
(*                                                                         *)
(* A script is the set of its outcomes: the files it leaves and whether it *)
(* exits with 0.  A kill inside a script leaves what one of its failures   *)
(* leaves; Killed ends a command between two of them.                      *)
(*                                                                         *)
(* A file's state is "torn" (a write was cut short), "unchecked" (saved,   *)
(* then the check of it failed) or "whole".  S1..S10 share one slot.  The  *)
(* cache from which the decoder is copied, and the copy before its rename, *)
(* have no name here (detr_decoder_fixed/ort_cache, direct_gpuio.mxr.tmp). *)
(*                                                                         *)
(* A definition named like another with a suffix (AcceptsAny, ...) is      *)
(* that one with a plausible mistake in it.                                *)
(***************************************************************************)
EXTENDS Naturals, Sequences, FiniteSets

CONSTANTS
  Commits,     \* commits of the repository
  MaxEdits,    \* bound: different uncommitted states of a checkout
  Requests,    \* the commands that may be given first, second, ...
  MaxChanges,  \* bound: changes of the checkout
  None

Trees == [commit : Commits, edit : 0..MaxEdits]
TextSteps ==
  {"backbone", "detr_encoder", "memory_attention", "fixed_decoder", "prewarm", "manifest", "all"}
Commands ==
  [box : BOOLEAN, text : BOOLEAN, force : BOOLEAN, perf : BOOLEAN,
   steps : SUBSET (TextSteps \cup {"tracker_modules"})]

ASSUME BuildAssumption ==
  /\ Requests \in Seq(SUBSET Commands)
  /\ MaxChanges \in Nat /\ MaxEdits \in Nat
  /\ None \notin BOOLEAN \cup Trees \cup [commit : Commits, dirty : BOOLEAN]
  /\ None \notin [run : Nat, tree : Trees, state : {"torn", "unchecked", "whole"}]

VARIABLES
  tree, changes,     \* the checkout, mounted into every container
  file,              \* the artifacts; the rest of the root:
  provenance,        \* BUILD_PROVENANCE.json: an identity, or None
  litter,            \* an empty directory, or a temporary provenance file
  manifest,          \* the three manifest files
  run, request,      \* how many commands there were, and the last one
  claim,             \* the source identity run.sh gave its container
  process, todo, ok, \* what runs, the steps left, all of them good so far
  report,            \* the exit of the last command, None without one
  raced              \* history: the checkout changed under a command

rootVars == <<file, provenance, litter, manifest>>
runVars == <<run, request, claim, process, todo, ok, report>>
sourceVars == <<tree, changes, raced>>
buildVars == <<rootVars, runVars, sourceVars>>

(* ARTIFACT_SUBDIRS, in the order a reset clears them.                     *)
TextDirs ==
  <<{"fp32", "simple", "tuned", "gpuio"}, {"encoderfp32", "encoder", "ortcache"},
    {"fixedfp32", "fixed", "fixedreport", "decoder", "sidecar"},
    {"graph", "memory", "policy", "sentinel", "modules", "warm", "caches"}>>
BoxModules == {"sentinel", "modules", "warm", "caches"}
Listed == UNION {TextDirs[d] : d \in 1..4}
TextFiles == Listed \ BoxModules
Files == Listed \cup {"boxfp32", "boxsimple", "boxtuned"}

(* What two exporters write besides the file their driver looks for.       *)
Intermediates == {"encoderfp32", "fixedfp32", "fixedreport"}

MaxRuns == Len(Requests)

Contents == [run : 1..MaxRuns, tree : Trees, state : {"torn", "unchecked", "whole"}]
Identities == [commit : Commits, dirty : BOOLEAN]
Manifests == [listing : [Listed -> Contents \cup {None}], from : Identities, complete : BOOLEAN]

ASSUME ManifestAssumption == None \notin Manifests

(* SOURCE_COMMIT and SOURCE_DIRTY: two edits of a commit look the same.    *)
Identity(t) == [commit |-> t.commit, dirty |-> t.edit # 0]

Made(state) == [run |-> run, tree |-> tree, state |-> state]
Loads(f) == file[f] # None /\ file[f].state # "torn"
Without(fs) == [f \in Files |-> IF f \in fs THEN None ELSE file[f]]

Init ==
  /\ tree \in {t \in Trees : t.edit = 0} /\ changes = 0 /\ raced = FALSE
  /\ file = [f \in Files |-> None]
  /\ provenance = None /\ litter = FALSE /\ manifest = None
  /\ run = 0 /\ request = None /\ claim = None
  /\ process = "none" /\ todo = <<>> /\ ok = TRUE /\ report = None
-----------------------------------------------------------------------------
(* The scripts.                                                            *)
Good(fs) == [file |-> fs, ok |-> TRUE]
Bad(fs) == [file |-> fs, ok |-> FALSE]
Raises == {Bad(file)}
(* f is written, ends in one of states, and only "whole" exits with 0.     *)
SavesTo(fs, f, states) ==
  {[file |-> [fs EXCEPT ![f] = Made(s)], ok |-> s = "whole"] : s \in states}
Saves(f, states) == SavesTo(file, f, states)

(* skip_if_exists, exists: a file that is there is never looked into.      *)
Skipped(f) == ~request.force /\ file[f] # None
UnlessDone(f, outcomes) == IF Skipped(f) THEN {Good(file)} ELSE outcomes

ExportBackbone(f) == Raises \cup Saves(f, {"torn", "whole"})

SimplifyBackbone(in, f) ==
  Raises \cup IF Loads(in) THEN Saves(f, {"torn", "unchecked", "whole"}) ELSE {}

CompileBackbone(in, f) ==
  Raises \cup IF Loads(in) THEN Saves(f, {"torn", "whole"}) ELSE {}

(* The FP32 graph of an exporter, always anew; what follows may fail.      *)
Exported(f) == [file EXCEPT ![f] = Made("whole")]
ExportFails(f) == Raises \cup {Bad([file EXCEPT ![f] = Made("torn")]), Bad(Exported(f))}

ExportEncoder ==
  ExportFails("encoderfp32")
  \cup SavesTo(Exported("encoderfp32"), "encoder", {"torn", "unchecked", "whole"})

ExportMemory == Raises \cup Saves("graph", {"torn", "whole"})

(* verified_existing_cache: the policy names the graph that is there.      *)
CacheVerified == file["policy"] # None /\ file["policy"] = file["graph"]
CacheEmpty == file["memory"] = None /\ file["policy"] = None

(* The policy is written last.                                             *)
Recompiled ==
  LET cleared == Without({"memory", "policy"})
      Cached(state) == [cleared EXCEPT !["memory"] = Made(state)] IN
  {Bad(cleared), Bad(Cached("torn"))} \cup
  IF Loads("graph")
    THEN {Bad(Cached("whole")), Good([Cached("whole") EXCEPT !["policy"] = file["graph"]])}
    ELSE {}

CompileMemoryResetting ==
  IF file["graph"] = None THEN Raises
  ELSE IF ~request.force /\ CacheVerified THEN {Good(file)} ELSE Recompiled

(* Keeps a verified cache, refuses to touch another without --force.       *)
CompileMemory ==
  IF file["graph"] = None \/ (~request.force /\ ~CacheVerified /\ ~CacheEmpty) THEN Raises
  ELSE IF ~request.force /\ CacheVerified THEN {Good(file)} ELSE Recompiled

(* Saved before the comparison with PyTorch; a report is written last.     *)
ExportFixed ==
  LET simplified == [Exported("fixedfp32") EXCEPT !["fixed"] = Made("whole")] IN
  ExportFails("fixedfp32")
  \cup SavesTo(Exported("fixedfp32"), "fixed", {"torn", "unchecked"})
  \cup {Bad(simplified)} \cup SavesTo(simplified, "fixedreport", {"torn", "whole"})

(* The decoder is renamed into place, its checksum written after it.       *)
CompileFixed ==
  LET decoder == [file EXCEPT !["decoder"] = Made("whole")] IN
  Raises \cup
  IF Loads("fixed")
    THEN {Bad(decoder), Good([decoder EXCEPT !["sidecar"] = decoder["decoder"]])}
    ELSE {}

(* The smoke loads what the runtime does, and ORT fills the encoder cache. *)
RuntimeLoads ==
  /\ \A f \in {"gpuio", "encoder", "decoder", "graph", "memory"} : Loads(f)
  /\ file["sidecar"] = file["decoder"]
  /\ file["ortcache"] # None => Loads("ortcache")

Smoke ==
  Raises \cup
  (IF RuntimeLoads THEN {Good(IF file["ortcache"] # None THEN file
                             ELSE [file EXCEPT !["ortcache"] = Made("whole")])}
   ELSE {}) \cup
  (IF file["ortcache"] = None /\ Loads("encoder")
     THEN {Bad([file EXCEPT !["ortcache"] = Made(s)]) : s \in {"torn", "whole"}}
     ELSE {})

(* temporal_pe.npy, the file the driver looks for, is written first.       *)
ExportTracker ==
  LET begun == [file EXCEPT !["sentinel"] = Made("whole")] IN
  Raises \cup
  {Bad(begun), Bad([begun EXCEPT !["modules"] = Made("torn")]),
   Good([begun EXCEPT !["modules"] = Made("whole")])}

(* Existing caches are loaded, not rebuilt; of a session that fails it only*)
(* prints so.                                                              *)
Spared(f) ==
  IF file[f] # None THEN {file[f]} ELSE {None, Made("torn"), Made("whole")}

PrewarmBox ==
  Raises \cup
  IF Loads("modules")
    THEN {Good([file EXCEPT !["warm"] = w, !["caches"] = c]) :
            w \in Spared("warm"), c \in Spared("caches")}
    ELSE {}
-----------------------------------------------------------------------------
(* The commands.                                                           *)
Plan(r, step, scripts) == IF {step, "all"} \cap r.steps # {} THEN scripts ELSE <<>>

BoxPlan(r) ==
  Plan(r, "tracker_modules", <<"modules">>)
  \o Plan(r, "backbone", <<"boxfp32", "boxsimple", "boxtuned">>)
  \o Plan(r, "prewarm", <<"warm">>)

(* The manifest is also written again when there was one.                  *)
TextPlan(r, hadManifest) ==
  Plan(r, "backbone", <<"fp32", "simple", "tuned", "gpuio">>)
  \o Plan(r, "detr_encoder", <<"encoder">>)
  \o Plan(r, "memory_attention", <<"graph", "memory">>)
  \o Plan(r, "fixed_decoder", <<"fixed", "decoder">>)
  \o Plan(r, "prewarm", <<"smoke">>)
  \o IF hadManifest \/ r.steps \cap {"all", "manifest", "prewarm"} # {}
       THEN <<"manifest">> ELSE <<>>

(* run.sh, then build.py, which goes through the box steps first, or       *)
(* build_text_prompt_mig.py itself.                                        *)
Started(r) ==
  /\ process = "none" /\ run < MaxRuns
  /\ run' = run + 1
  /\ request' = r
  /\ claim' = Identity(tree)
  /\ report' = None /\ ok' = TRUE
  /\ IF r.box THEN process' = "box" /\ todo' = BoxPlan(r)
             ELSE process' = "launch" /\ todo' = <<>>
  /\ UNCHANGED <<rootVars, sourceVars>>

(* The next script of the command; after a failed one none is started.     *)
Script(build, part, outcomes) ==
  /\ process = build /\ todo # <<>> /\ Head(todo) = part
  /\ \E o \in outcomes :
       /\ file' = o.file
       /\ ok' = (ok /\ o.ok)
       /\ todo' = IF o.ok THEN Tail(todo) ELSE <<>>
  /\ litter' = (litter \/ process = "box")
  /\ UNCHANGED <<run, request, claim, process, report, provenance, manifest, sourceVars>>

BoxScripts ==
  \/ Script("box", "modules", UnlessDone("sentinel", ExportTracker))
  \/ Script("box", "boxfp32", UnlessDone("boxfp32", ExportBackbone("boxfp32")))
  \/ Script("box", "boxsimple", UnlessDone("boxsimple", SimplifyBackbone("boxfp32", "boxsimple")))
  \/ Script("box", "boxtuned", UnlessDone("boxtuned", CompileBackbone("boxsimple", "boxtuned")))
  \/ Script("box", "warm", UnlessDone("warm", PrewarmBox))

TextScripts ==
  \/ Script("text", "fp32", UnlessDone("fp32", ExportBackbone("fp32")))
  \/ Script("text", "simple", UnlessDone("simple", SimplifyBackbone("fp32", "simple")))
  \/ Script("text", "tuned", UnlessDone("tuned", CompileBackbone("simple", "tuned")))
  \/ Script("text", "gpuio", UnlessDone("gpuio", CompileBackbone("simple", "gpuio")))
  \/ Script("text", "encoder", UnlessDone("encoder", ExportEncoder))
  \/ Script("text", "graph", UnlessDone("graph", ExportMemory))
  \/ Script("text", "memory", CompileMemory)
  \/ Script("text", "fixed", UnlessDone("fixed", ExportFixed))
  \/ Script("text", "decoder", UnlessDone("decoder", CompileFixed))
  \/ Script("text", "smoke", Smoke)

(* main() prints ALL OK or not; a failed box build does not stop the text  *)
(* build that follows it.                                                  *)
Finished ==
  /\ process \in {"box", "text"} /\ todo = <<>>
  /\ IF process = "box" /\ request.text
       THEN process' = "launch" /\ UNCHANGED report
       ELSE process' = "none" /\ report' = ok
  /\ UNCHANGED <<run, request, claim, todo, ok, rootVars, sourceVars>>

Killed ==
  /\ process # "none"
  /\ process' = "none" /\ todo' = <<>>
  /\ UNCHANGED <<run, request, claim, ok, report, rootVars, sourceVars>>
-----------------------------------------------------------------------------
(* The text build's root.                                                  *)
Populated == litter \/ provenance # None \/ manifest # None \/ \E f \in Files : file[f] # None
Reset == request.force /\ "all" \in request.steps

(* A step it does not know, a dirty checkout under --performance-build.    *)
Admitted ==
  /\ process = "launch"
  /\ request.steps \subseteq TextSteps
  /\ request.perf => ~claim.dirty

AcceptsAny == Admitted

(* Without a full reset, only an empty root or one this source filled.     *)
Accepts == Admitted /\ (Reset \/ ~Populated \/ provenance = claim)

Refuses ==
  /\ process = "launch" /\ ~Accepts
  /\ process' = "text" /\ todo' = <<>> /\ ok' = FALSE
  /\ UNCHANGED <<run, request, claim, report, rootVars, sourceVars>>

Cleared == file' = Without(IF Reset THEN Listed ELSE {})

StaysValidUnlessReset == ~Reset

(* Of the text build's steps only "manifest" alone leaves the files alone. *)
StaysValid == ~Reset /\ request.steps = {"manifest"}

(* prepare_build_root, then invalidate_artifact_manifest.                  *)
Prepare ==
  /\ Accepts
  /\ Cleared
  /\ provenance' = claim
  /\ manifest' = IF StaysValid THEN manifest ELSE None
  /\ litter' = FALSE
  /\ process' = "text" /\ todo' = TextPlan(request, manifest # None)
  /\ UNCHANGED <<run, request, claim, ok, report, sourceVars>>

(* What may be left of the manifest's files after some were deleted.       *)
Remnants ==
  {manifest, None} \cup
  IF manifest = None THEN {} ELSE {[manifest EXCEPT !.complete = FALSE]}

(* Killed inside: when some directories are cleared; when the provenance   *)
(* is deleted or its temporary file written; when the manifest is deleted. *)
PrepareCut ==
  /\ Accepts
  /\ \/ /\ Reset
        /\ \E n \in 0..4 : file' = Without(UNION {TextDirs[d] : d \in 1..n})
        /\ UNCHANGED <<provenance, litter, manifest>>
     \/ /\ Cleared
        /\ provenance' = IF Reset THEN None ELSE provenance
        /\ manifest' \in IF Reset THEN Remnants ELSE {manifest}
        /\ litter' = TRUE
     \/ /\ Cleared
        /\ provenance' = claim
        /\ manifest' \in IF StaysValid THEN {manifest} ELSE Remnants
        /\ litter' = FALSE
  /\ process' = "none" /\ todo' = <<>>
  /\ UNCHANGED <<run, request, claim, ok, report, sourceVars>>

(* validate_required_artifacts: everything is there, the policy and the    *)
(* checksum match.                                                         *)
Complete ==
  /\ \A f \in TextFiles \ ({"fp32"} \cup Intermediates) : file[f] # None
  /\ CacheVerified
  /\ file["sidecar"] = file["decoder"]

ListingOfText == [f \in TextFiles |-> file[f]]
Listing == [f \in Listed |-> file[f]]

(* build_manifest, and the three files of write_manifest.                  *)
WritesManifest(from) ==
  /\ provenance = from /\ Complete
  /\ \E complete \in BOOLEAN :
       manifest' = [listing |-> Listing, from |-> from, complete |-> complete]

WriteManifest ==
  /\ process = "text" /\ todo # <<>> /\ Head(todo) = "manifest"
  /\ todo' = <<>>
  /\ \/ WritesManifest(claim) /\ ok' = (ok /\ manifest'.complete)
     \/ UNCHANGED manifest /\ ok' = FALSE
  /\ UNCHANGED <<run, request, claim, process, report, file, provenance, litter, sourceVars>>
-----------------------------------------------------------------------------
(* Somebody edits, commits, reverts or checks out, while a command runs or *)
(* not.                                                                    *)
ChangeSource ==
  /\ changes < MaxChanges
  /\ changes' = changes + 1
  /\ tree' \in Trees \ {tree}
  /\ raced' = (raced \/ process # "none")
  /\ UNCHANGED <<rootVars, runVars>>

Next ==
  \/ run < MaxRuns /\ \E r \in Requests[run + 1] : Started(r)
  \/ BoxScripts \/ TextScripts \/ Finished \/ Killed
  \/ Refuses \/ Prepare \/ PrepareCut \/ WriteManifest
  \/ ChangeSource

Spec == Init /\ [][Next]_buildVars
-----------------------------------------------------------------------------
(* Every variable holds a value of its type.                               *)
TypeOK ==
  /\ tree \in Trees /\ changes \in 0..MaxChanges
  /\ file \in [Files -> Contents \cup {None}]
  /\ provenance \in Identities \cup {None} /\ litter \in BOOLEAN
  /\ manifest \in Manifests \cup {None}
  /\ run \in 0..MaxRuns /\ request \in Commands \cup {None}
  /\ claim \in Identities \cup {None}
  /\ process \in {"none", "box", "launch", "text"}
  /\ {ok, raced} \subseteq BOOLEAN /\ report \in BOOLEAN \cup {None}

(* Whatever was killed, resumed or refused: the files of the text build    *)
(* all come from the source the provenance of the root names (unless the   *)
(* checkout changed under a running command, whose claim is older).        *)
OneSource ==
  provenance # None /\ ~raced =>
    \A f \in TextFiles : file[f] # None => Identity(file[f].tree) = provenance

(* A manifest on disk, whole or not, never lists another version of a file *)
(* of the text build than the one that is there.  (The box modules, which  *)
(* it lists too, may be changed by a later box build, which leaves it.)    *)
ManifestHonest ==
  manifest # None =>
    \A f \in TextFiles : file[f] # None => manifest.listing[f] = file[f]

(* Without --force no output is deleted or written over, torn ones         *)
(* included, and of what an exporter writes besides it nothing is, once the*)
(* output is there; until then a rerun writes that again.                  *)
OutputOf(f) ==
  CASE f = "encoderfp32" -> "encoder"
    [] f \in {"fixedfp32", "fixedreport"} -> "fixed"
    [] OTHER -> f
KeepsFiles ==
  [][request # None /\ ~request.force =>
       \A f \in Files : file[f] # None /\ file[OutputOf(f)] # None => file'[f] = file[f]]_buildVars

(* What the steps of a command are there to make.                          *)
OutputsOf(step) ==
  CASE step = "tracker_modules" -> {"sentinel", "modules"}
    [] step = "detr_encoder" -> {"encoder"}
    [] step = "memory_attention" -> {"graph", "memory", "policy"}
    [] step = "fixed_decoder" -> {"fixed", "decoder", "sidecar"}
    [] OTHER -> {}

(* build.py's "each step skips if its output already exists, safe to       *)
(* re-run after interruption": ALL OK means that the outputs are there.    *)
AllOkIsBuilt ==
  report = TRUE =>
    \A step \in request.steps : \A f \in OutputsOf(step) : file[f] # None /\ Loads(f)
=============================================================================
