--------------------------- MODULE ArtifactProofs ---------------------------
(***************************************************************************)
(* Proofs about the artifact build, and about the runner and the gate that *)
(* use it, for any commits, commands and bounds: whatever is killed,       *)
(* resumed, refused or reset, the files of the text build come from one    *)
(* source; a command without --force overwrites no output; no manifest     *)
(* lists another version of a file of the text build; and what the gate    *)
(* passes was built, whole, from the commit that it judged.                *)
(***************************************************************************)
EXTENDS ReleaseGate, SequenceTheorems, TLAPS

(* The text build's files in fs were all made from a checkout of identity  *)
(* id.                                                                     *)
From(fs, id) == \A f \in TextFiles : fs[f] # None => Identity(fs[f].tree) = id
IsRoot(fs) == fs = [f \in Files |-> fs[f]]

(* A running text build was launched by the source that it runs, and found *)
(* or left that source's identity in the root (as long as the checkout does*)
(* not change under a command).                                            *)
OneSourceInv ==
  /\ tree \in Trees /\ raced \in BOOLEAN
  /\ ~raced =>
       /\ IsRoot(file)
       /\ process # "none" => claim = Identity(tree)
       /\ process = "text" /\ todo # <<>> => provenance = claim
       /\ provenance # None => From(file, provenance)

LEMMA FilesFact == TextFiles \subseteq Files /\ BoxModules \cap TextFiles = {}
  BY DEF TextFiles, Files

LEMMA NamesFact ==
  /\ {"fp32", "simple", "tuned", "gpuio", "encoderfp32", "encoder", "ortcache", "fixedfp32",
      "fixed", "fixedreport", "decoder", "sidecar", "graph", "memory", "policy"} \subseteq TextFiles
  /\ {"boxfp32", "boxsimple", "boxtuned"} \subseteq Files \ TextFiles
<1>1. /\ TextDirs[1] = {"fp32", "simple", "tuned", "gpuio"}
      /\ TextDirs[2] = {"encoderfp32", "encoder", "ortcache"}
      /\ TextDirs[3] = {"fixedfp32", "fixed", "fixedreport", "decoder", "sidecar"}
      /\ TextDirs[4] = {"graph", "memory", "policy"} \cup BoxModules
  BY DEF TextDirs, BoxModules
<1>2. \A x : x \in Listed <=> x \in TextDirs[1] \cup TextDirs[2] \cup TextDirs[3] \cup TextDirs[4]
  <2>1. 1..4 = {1, 2, 3, 4}
    OBVIOUS
  <2> QED BY <2>1 DEF Listed
<1> QED BY <1>1, <1>2 DEF TextFiles, Files, BoxModules

(* A script that writes one file, from the checkout that runs.             *)
LEMMA SavesFrom ==
  ASSUME NEW id, id = Identity(tree), From(file, id), IsRoot(file),
         NEW f \in Files, NEW states, NEW o \in Raises \cup Saves(f, states)
  PROVE  From(o.file, id) /\ IsRoot(o.file)
<1>1. CASE o \in Raises
  BY <1>1 DEF Raises, Bad
<1>2. CASE o \in Saves(f, states)
  <2>1. PICK s \in states : o = [file |-> [file EXCEPT ![f] = Made(s)], ok |-> s = "whole"]
    BY <1>2 DEF Saves, SavesTo
  <2>2. o.file = [file EXCEPT ![f] = Made(s)]
    BY <2>1
  <2>3. Made(s).tree = tree
    BY DEF Made
  <2> QED BY <2>2, <2>3, FilesFact DEF From, IsRoot
<1> QED BY <1>1, <1>2

(* A file of this source's, or of the root's, is put into the root.        *)
LEMMA PutFrom ==
  ASSUME NEW fs, NEW id, From(fs, id), IsRoot(fs), NEW f \in Files, NEW c,
         f \in TextFiles /\ c # None => Identity(c.tree) = id
  PROVE  From([fs EXCEPT ![f] = c], id) /\ IsRoot([fs EXCEPT ![f] = c])
<1>1. IsRoot([fs EXCEPT ![f] = c])
  BY DEF IsRoot
<1>2. ASSUME NEW g \in TextFiles, [fs EXCEPT ![f] = c][g] # None
      PROVE  Identity([fs EXCEPT ![f] = c][g].tree) = id
  <2>1. g \in Files
    BY FilesFact
  <2>2. CASE g = f
    <3>1. [fs EXCEPT ![f] = c][g] = c
      BY <2>1, <2>2 DEF IsRoot
    <3> QED BY <3>1, <1>2, <2>2
  <2>3. CASE g # f
    <3>1. [fs EXCEPT ![f] = c][g] = fs[g]
      BY <2>1, <2>3 DEF IsRoot
    <3> QED BY <3>1, <1>2 DEF From
  <2> QED BY <2>2, <2>3
<1> QED BY <1>1, <1>2 DEF From

(* The exporters that write raw before f, their output: what the latter is *)
(* made from is written whole before it, and of f and last, if they are    *)
(* two, only the last says that all is well.                               *)
States == {"torn", "unchecked", "whole"}
Put(fs, f, s) == [fs EXCEPT ![f] = Made(s)]
Writes(o, raw, f, last) ==
  \/ o.file = file /\ ~o.ok
  \/ \E s \in States :
       \/ o.file = Put(file, raw, s) /\ ~o.ok
       \/ o.file = Put(Put(file, raw, "whole"), f, s) /\ (o.ok => s = "whole")
       \/ /\ o.file = Put(Put(Put(file, raw, "whole"), f, "whole"), last, s)
          /\ o.ok => s = "whole"

LEMMA ExportFact ==
  /\ \A o \in ExportEncoder : Writes(o, "encoderfp32", "encoder", "encoder")
  /\ \A o \in ExportFixed : Writes(o, "fixedfp32", "fixed", "fixedreport")
<1>1. ASSUME NEW f, NEW g, NEW last, NEW o \in ExportFails(f) PROVE Writes(o, f, g, last)
  <2>1. \/ o = Bad(file) \/ o = Bad(Put(file, f, "torn")) \/ o = Bad(Put(file, f, "whole"))
    BY <1>1 DEF ExportFails, Raises, Exported, Put
  <2>2. /\ ~o.ok
        /\ o.file = file \/ o.file = Put(file, f, "torn") \/ o.file = Put(file, f, "whole")
    BY <2>1 DEF Bad
  <2> QED BY <2>2 DEF Writes, States
<1>2. ASSUME NEW f, NEW g, NEW last, NEW states \in SUBSET States,
             NEW o \in SavesTo(Exported(f), g, states)
      PROVE  Writes(o, f, g, last)
  <2>1. PICK s \in states :
          o = [file |-> [Exported(f) EXCEPT ![g] = Made(s)], ok |-> s = "whole"]
    BY <1>2 DEF SavesTo
  <2>2. o.file = Put(Put(file, f, "whole"), g, s) /\ (o.ok => s = "whole")
    BY <2>1 DEF Exported, Put
  <2> QED BY <1>2, <2>2 DEF Writes
<1>3. ASSUME NEW o \in ExportEncoder PROVE Writes(o, "encoderfp32", "encoder", "encoder")
  BY <1>1, <1>2 DEF ExportEncoder, States
<1>4. ASSUME NEW o \in ExportFixed PROVE Writes(o, "fixedfp32", "fixed", "fixedreport")
  <2> DEFINE simplified == [Exported("fixedfp32") EXCEPT !["fixed"] = Made("whole")]
  <2>1. simplified = Put(Put(file, "fixedfp32", "whole"), "fixed", "whole")
    BY DEF Exported, Put
  <2>2. \/ o \in ExportFails("fixedfp32")
        \/ o \in SavesTo(Exported("fixedfp32"), "fixed", {"torn", "unchecked"})
        \/ o = Bad(simplified)
        \/ o \in SavesTo(simplified, "fixedreport", {"torn", "whole"})
    BY DEF ExportFixed
  <2> HIDE DEF simplified
  <2>3. CASE o = Bad(simplified)
    BY <2>1, <2>3 DEF Bad, Writes, States
  <2>4. CASE o \in SavesTo(simplified, "fixedreport", {"torn", "whole"})
    <3>1. PICK s \in {"torn", "whole"} :
            o = [file |-> [simplified EXCEPT !["fixedreport"] = Made(s)], ok |-> s = "whole"]
      BY <2>4 DEF SavesTo
    <3>2. o.file = Put(simplified, "fixedreport", s) /\ (o.ok => s = "whole")
      BY <3>1 DEF Put
    <3> QED BY <2>1, <3>2 DEF Writes, States
  <2> QED BY <1>1, <1>2, <2>2, <2>3, <2>4 DEF States
<1> QED BY <1>3, <1>4

LEMMA ExportsFrom ==
  ASSUME NEW id, id = Identity(tree), From(file, id), IsRoot(file),
         NEW o \in ExportEncoder \cup ExportFixed
  PROVE  From(o.file, id) /\ IsRoot(o.file)
<1>1. ASSUME NEW fs, From(fs, id), IsRoot(fs), NEW f \in Files, NEW s
      PROVE  From(Put(fs, f, s), id) /\ IsRoot(Put(fs, f, s))
  <2>1. Identity(Made(s).tree) = id
    BY DEF Made
  <2> QED BY <1>1, <2>1, PutFrom DEF Put
<1>2. ASSUME NEW raw \in Files, NEW f \in Files, NEW last \in Files, Writes(o, raw, f, last)
      PROVE  From(o.file, id) /\ IsRoot(o.file)
  <2>1. PICK s : \/ o.file = file
                 \/ o.file = Put(file, raw, s)
                 \/ o.file = Put(Put(file, raw, "whole"), f, s)
                 \/ o.file = Put(Put(Put(file, raw, "whole"), f, "whole"), last, s)
    BY <1>2 DEF Writes
  <2> QED BY <1>1, <2>1
<1> QED BY <1>2, ExportFact, NamesFact, FilesFact

(* Every script of the text build.                                         *)
LEMMA RecompiledFrom ==
  ASSUME NEW id, id = Identity(tree), From(file, id), IsRoot(file), NEW o \in Recompiled
  PROVE  From(o.file, id) /\ IsRoot(o.file)
<1> DEFINE cleared == Without({"memory", "policy"})
           Cached(state) == [cleared EXCEPT !["memory"] = Made(state)]
           verified == [Cached("whole") EXCEPT !["policy"] = file["graph"]]
<1>1. From(cleared, id) /\ IsRoot(cleared)
  BY FilesFact DEF Without, From, IsRoot
<1>2. "memory" \in Files /\ "policy" \in Files /\ "graph" \in TextFiles
  BY NamesFact, FilesFact
<1>3. ASSUME NEW state PROVE From(Cached(state), id) /\ IsRoot(Cached(state))
  <2>1. Identity(Made(state).tree) = id
    BY DEF Made
  <2> QED BY <1>1, <1>2, <2>1, PutFrom
<1>4. From(verified, id) /\ IsRoot(verified)
  <2>1. file["graph"] # None => Identity(file["graph"].tree) = id
    BY <1>2 DEF From
  <2> HIDE DEF Cached
  <2> QED BY <1>2, <1>3, <2>1, PutFrom
<1>5. o \in {Bad(cleared), Bad(Cached("torn")), Bad(Cached("whole")), Good(verified)}
  BY DEF Recompiled
<1>6. o.file = cleared \/ o.file = Cached("torn") \/ o.file = Cached("whole") \/ o.file = verified
  <2> HIDE DEF cleared, Cached, verified
  <2> QED BY <1>5 DEF Good, Bad
<1> QED
  <2> HIDE DEF cleared, Cached, verified
  <2> QED BY <1>1, <1>3, <1>4, <1>6

LEMMA CompileMemoryFrom ==
  ASSUME NEW id, id = Identity(tree), From(file, id), IsRoot(file), NEW o \in CompileMemory
  PROVE  From(o.file, id) /\ IsRoot(o.file)
<1>1. o \in Recompiled \/ o \in Raises \/ o = Good(file)
  BY DEF CompileMemory
<1> QED BY <1>1, RecompiledFrom DEF Raises, Good, Bad

LEMMA CompileFixedFrom ==
  ASSUME NEW id, id = Identity(tree), From(file, id), IsRoot(file), NEW o \in CompileFixed
  PROVE  From(o.file, id) /\ IsRoot(o.file)
<1> DEFINE decoder == [file EXCEPT !["decoder"] = Made("whole")]
           checked == [decoder EXCEPT !["sidecar"] = decoder["decoder"]]
<1>1. "decoder" \in TextFiles /\ "decoder" \in Files /\ "sidecar" \in Files
  BY NamesFact, FilesFact
<1>2. From(decoder, id) /\ IsRoot(decoder)
  <2>1. Identity(Made("whole").tree) = id
    BY DEF Made
  <2> QED BY <1>1, <2>1, PutFrom
<1>3. From(checked, id) /\ IsRoot(checked)
  <2> HIDE DEF decoder
  <2>1. decoder["decoder"] # None => Identity(decoder["decoder"].tree) = id
    BY <1>1, <1>2 DEF From
  <2> QED BY <1>1, <1>2, <2>1, PutFrom
<1>4. o \in {Bad(file), Bad(decoder), Good(checked)}
  BY DEF CompileFixed, Raises
<1>5. o.file = file \/ o.file = decoder \/ o.file = checked
  <2> HIDE DEF decoder, checked
  <2> QED BY <1>4 DEF Good, Bad
<1> QED
  <2> HIDE DEF decoder, checked
  <2> QED BY <1>2, <1>3, <1>5

LEMMA SmokeFrom ==
  ASSUME NEW id, id = Identity(tree), From(file, id), IsRoot(file), NEW o \in Smoke
  PROVE  From(o.file, id) /\ IsRoot(o.file)
<1> DEFINE Cached(state) == [file EXCEPT !["ortcache"] = Made(state)]
<1>1. ASSUME NEW state PROVE From(Cached(state), id) /\ IsRoot(Cached(state))
  <2>1. "ortcache" \in Files /\ Identity(Made(state).tree) = id
    BY NamesFact, FilesFact DEF Made
  <2> QED BY <2>1, PutFrom
<1>2. o \in {Bad(file), Good(file), Good(Cached("whole")), Bad(Cached("torn")), Bad(Cached("whole"))}
  BY DEF Smoke, Raises
<1>3. o.file = file \/ o.file = Cached("whole") \/ o.file = Cached("torn")
  <2> HIDE DEF Cached
  <2> QED BY <1>2 DEF Good, Bad
<1> QED
  <2> HIDE DEF Cached
  <2> QED BY <1>1, <1>3

(* The outcomes a text step can have.                                      *)
TextOutcomes ==
  {Good(file)} \cup CompileMemory \cup CompileFixed \cup Smoke \cup Raises \cup
  ExportEncoder \cup ExportFixed \cup
  UNION {Saves(f, {"torn", "unchecked", "whole"}) : f \in TextFiles}

LEMMA TextOutcomesFrom ==
  ASSUME NEW id, id = Identity(tree), From(file, id), IsRoot(file), NEW o \in TextOutcomes
  PROVE  From(o.file, id) /\ IsRoot(o.file)
<1>1. CASE o = Good(file)
  BY <1>1 DEF Good
<1>2. CASE o \in CompileMemory \cup CompileFixed \cup Smoke \cup ExportEncoder \cup ExportFixed
  BY <1>2, CompileMemoryFrom, CompileFixedFrom, SmokeFrom, ExportsFrom
<1>3. ASSUME o \in Raises \/ \E f \in TextFiles : o \in Saves(f, {"torn", "unchecked", "whole"})
      PROVE  From(o.file, id) /\ IsRoot(o.file)
  <2>1. PICK f \in Files : o \in Raises \cup Saves(f, {"torn", "unchecked", "whole"})
    BY <1>3, FilesFact, NamesFact
  <2> QED BY <2>1, SavesFrom
<1> QED BY <1>1, <1>2, <1>3 DEF TextOutcomes

(* How a script ends that has the outcome o.                               *)
Ended(o) ==
  file' = o.file /\ ok' = (ok /\ o.ok) /\ todo' = IF o.ok THEN Tail(todo) ELSE <<>>

LEMMA TextScriptOutcome ==
  ASSUME TextScripts
  PROVE  /\ process = "text" /\ todo # <<>>
         /\ \E o \in TextOutcomes : Ended(o)
         /\ UNCHANGED <<claim, process, provenance, tree, raced>>
<1> DEFINE Goal == /\ process = "text" /\ todo # <<>>
                   /\ \E o \in TextOutcomes : Ended(o)
                   /\ UNCHANGED <<claim, process, provenance, tree, raced>>
<1> SUFFICES Goal
  OBVIOUS
<1>1. ASSUME NEW part, NEW outcomes \in SUBSET TextOutcomes, Script("text", part, outcomes)
      PROVE  Goal
  BY <1>1 DEF Script, sourceVars, Ended
<1>2. ASSUME NEW f, NEW outcomes \in SUBSET TextOutcomes
      PROVE  UnlessDone(f, outcomes) \in SUBSET TextOutcomes
  BY DEF UnlessDone, TextOutcomes
<1>3. ASSUME NEW f \in TextFiles, NEW outcomes,
             \E states \in {{"torn", "whole"}, {"torn", "unchecked", "whole"}} :
               outcomes \subseteq Raises \cup Saves(f, states)
      PROVE  UnlessDone(f, outcomes) \in SUBSET TextOutcomes
  <2>1. PICK states \in {{"torn", "whole"}, {"torn", "unchecked", "whole"}} :
               outcomes \subseteq Raises \cup Saves(f, states)
    BY <1>3
  <2>2. Saves(f, states) \subseteq Saves(f, {"torn", "unchecked", "whole"})
    BY DEF Saves, SavesTo
  <2> DEFINE every == {Saves(g, {"torn", "unchecked", "whole"}) : g \in TextFiles}
  <2>4. Saves(f, {"torn", "unchecked", "whole"}) \in every
    OBVIOUS
  <2> HIDE DEF every
  <2>5. UNION every \subseteq TextOutcomes /\ Raises \subseteq TextOutcomes
    BY DEF TextOutcomes, every
  <2>3. outcomes \in SUBSET TextOutcomes
    BY <2>1, <2>2, <2>4, <2>5
  <2> QED BY <2>3, <1>2
<1>4. {CompileMemory, CompileFixed, Smoke, ExportEncoder, ExportFixed} \subseteq SUBSET TextOutcomes
  BY DEF TextOutcomes
<1> HIDE DEF Goal
<1>5. CASE Script("text", "fp32", UnlessDone("fp32", ExportBackbone("fp32")))
  <2>1. UnlessDone("fp32", ExportBackbone("fp32")) \in SUBSET TextOutcomes
    BY <1>3, NamesFact DEF ExportBackbone
  <2> QED BY <1>1, <1>5, <2>1
<1>6. CASE Script("text", "simple", UnlessDone("simple", SimplifyBackbone("fp32", "simple")))
  <2>1. UnlessDone("simple", SimplifyBackbone("fp32", "simple")) \in SUBSET TextOutcomes
    BY <1>3, NamesFact DEF SimplifyBackbone
  <2> QED BY <1>1, <1>6, <2>1
<1>7. ASSUME NEW f \in {"tuned", "gpuio"},
             Script("text", f, UnlessDone(f, CompileBackbone("simple", f)))
      PROVE  Goal
  <2>1. UnlessDone(f, CompileBackbone("simple", f)) \in SUBSET TextOutcomes
    BY <1>3, NamesFact DEF CompileBackbone
  <2> QED BY <1>1, <1>7, <2>1
<1>9. CASE Script("text", "graph", UnlessDone("graph", ExportMemory))
  <2>1. UnlessDone("graph", ExportMemory) \in SUBSET TextOutcomes
    BY <1>3, NamesFact DEF ExportMemory
  <2> QED BY <1>1, <1>9, <2>1
<1>11. CASE \/ Script("text", "encoder", UnlessDone("encoder", ExportEncoder))
            \/ Script("text", "fixed", UnlessDone("fixed", ExportFixed))
            \/ Script("text", "memory", CompileMemory)
            \/ Script("text", "decoder", UnlessDone("decoder", CompileFixed))
            \/ Script("text", "smoke", Smoke)
  BY <1>11, <1>1, <1>2, <1>4
<1> QED BY <1>5, <1>6, <1>7, <1>9, <1>11 DEF TextScripts

(* The box build writes none of the text build's files.                    *)
LEMMA BoxScriptOutcome ==
  ASSUME BoxScripts, IsRoot(file)
  PROVE  /\ process = "box" /\ process' = "box"
         /\ IsRoot(file') /\ \A f \in TextFiles : file'[f] = file[f]
         /\ UNCHANGED <<claim, provenance, tree, raced>>
<1> DEFINE Boxed(fs) == IsRoot(fs) /\ \A f \in TextFiles : fs[f] = file[f]
<1>1. Boxed(file)
  OBVIOUS
<1>2. ASSUME NEW fs, Boxed(fs), NEW f, f \notin TextFiles, NEW c
      PROVE  Boxed([fs EXCEPT ![f] = c])
  BY <1>2, FilesFact DEF IsRoot
<1>3. /\ "sentinel" \notin TextFiles /\ "modules" \notin TextFiles
      /\ "warm" \notin TextFiles /\ "caches" \notin TextFiles
      /\ "boxfp32" \notin TextFiles /\ "boxsimple" \notin TextFiles /\ "boxtuned" \notin TextFiles
  BY NamesFact DEF TextFiles, BoxModules
<1> HIDE DEF Boxed
<1>4. \A o \in ExportTracker : Boxed(o.file)
  <2> DEFINE begun == [file EXCEPT !["sentinel"] = Made("whole")]
  <2>1. Boxed(begun)
    BY <1>1, <1>2, <1>3
  <2> HIDE DEF begun
  <2>2. \A c : Boxed([begun EXCEPT !["modules"] = c])
    BY <2>1, <1>2, <1>3
  <2> QED BY <1>1, <2>1, <2>2 DEF ExportTracker, Raises, Good, Bad, begun
<1>5. \A o \in PrewarmBox : Boxed(o.file)
  <2>1. \A w, c : Boxed([file EXCEPT !["warm"] = w, !["caches"] = c])
    <3> TAKE w, c
    <3> DEFINE warmed == [file EXCEPT !["warm"] = w]
    <3>1. Boxed(warmed)
      BY <1>1, <1>2, <1>3
    <3> HIDE DEF warmed
    <3>2. Boxed([warmed EXCEPT !["caches"] = c])
      BY <3>1, <1>2, <1>3
    <3> QED BY <3>2 DEF warmed
  <2> QED BY <1>1, <2>1 DEF PrewarmBox, Raises, Good, Bad
<1>6. ASSUME NEW f, f \notin TextFiles, NEW states, NEW o \in Raises \cup Saves(f, states)
      PROVE  Boxed(o.file)
  BY <1>6, <1>1, <1>2 DEF Raises, Saves, SavesTo, Bad
<1>7. ASSUME NEW part, NEW f, NEW outcomes, \A o \in outcomes : Boxed(o.file),
             Script("box", part, UnlessDone(f, outcomes))
      PROVE  /\ process = "box" /\ process' = "box"
             /\ Boxed(file')
             /\ UNCHANGED <<claim, provenance, tree, raced>>
  BY <1>7, <1>1 DEF Script, UnlessDone, Good, sourceVars
<1>8. CASE Script("box", "modules", UnlessDone("sentinel", ExportTracker))
  BY <1>8, <1>4, <1>7 DEF Boxed
<1>9. CASE Script("box", "boxfp32", UnlessDone("boxfp32", ExportBackbone("boxfp32")))
  <2>1. \A o \in ExportBackbone("boxfp32") : Boxed(o.file)
    BY <1>6, <1>3 DEF ExportBackbone
  <2> QED BY <1>9, <2>1, <1>7 DEF Boxed
<1>10. CASE Script("box", "boxsimple", UnlessDone("boxsimple", SimplifyBackbone("boxfp32", "boxsimple")))
  <2>1. \A o \in SimplifyBackbone("boxfp32", "boxsimple") : Boxed(o.file)
    BY <1>6, <1>3 DEF SimplifyBackbone
  <2> QED BY <1>10, <2>1, <1>7 DEF Boxed
<1>11. CASE Script("box", "boxtuned", UnlessDone("boxtuned", CompileBackbone("boxsimple", "boxtuned")))
  <2>1. \A o \in CompileBackbone("boxsimple", "boxtuned") : Boxed(o.file)
    BY <1>6, <1>3 DEF CompileBackbone
  <2> QED BY <1>11, <2>1, <1>7 DEF Boxed
<1>12. CASE Script("box", "warm", UnlessDone("warm", PrewarmBox))
  BY <1>12, <1>5, <1>7 DEF Boxed
<1> QED BY <1>8, <1>9, <1>10, <1>11, <1>12 DEF BoxScripts

LEMMA ClearedFrom ==
  ASSUME NEW fs, NEW id, From(file, id)
  PROVE  From(Without(fs), id) /\ IsRoot(Without(fs))
  BY FilesFact DEF From, IsRoot, Without

(* A root that Prepare accepts holds, once cleared, this source's files.   *)
LEMMA AcceptedFrom ==
  ASSUME OneSourceInv, Accepts, Cleared, ~raced
  PROVE  From(file', claim) /\ IsRoot(file')
<1>1. CASE Reset
  <2>1. file' = Without(Listed)
    BY <1>1 DEF Cleared
  <2>2. \A f \in TextFiles : file'[f] = None
    BY <2>1, FilesFact DEF Without, TextFiles
  <2> QED BY <2>1, <2>2 DEF From, IsRoot, Without
<1>2. CASE ~Reset /\ ~Populated
  <2>1. From(file, claim)
    BY <1>2, FilesFact DEF Populated, From
  <2> QED BY <1>2, <2>1, ClearedFrom DEF Cleared
<1>3. CASE ~Reset /\ Populated /\ provenance = claim
  <2>1. CASE provenance = None
    <3>1. process = "launch"
      BY DEF Accepts, Admitted
    <3>2. claim = Identity(tree)
      BY <3>1 DEF OneSourceInv
    <3>3. Identity(tree) # None
      <4>1. tree \in Trees
        BY DEF OneSourceInv
      <4>2. Identity(tree) \in [commit : Commits, dirty : BOOLEAN]
        BY <4>1 DEF Identity, Trees
      <4> QED BY <4>2, BuildAssumption
    <3> QED BY <2>1, <1>3, <3>2, <3>3
  <2>2. CASE provenance # None
    BY <1>3, <2>2, ClearedFrom DEF OneSourceInv, Cleared
  <2> QED BY <2>1, <2>2
<1> QED BY <1>1, <1>2, <1>3 DEF Accepts

LEMMA IdentityFact == ASSUME NEW t \in Trees PROVE Identity(t) # None
<1>1. Identity(t) \in [commit : Commits, dirty : BOOLEAN]
  BY DEF Identity, Trees
<1> QED BY <1>1, BuildAssumption

LEMMA OneSourceInit == Init => OneSourceInv
<1> SUFFICES ASSUME Init PROVE OneSourceInv
  OBVIOUS
<1>1. file = [f \in Files |-> None] /\ provenance = None /\ process = "none"
  BY DEF Init
<1>2. tree \in Trees /\ raced = FALSE
  BY DEF Init
<1>3. IsRoot(file)
  BY <1>1 DEF IsRoot
<1> QED BY <1>1, <1>2, <1>3 DEF OneSourceInv

(* The steps of the build, whatever the command.                           *)
BuildWorks ==
  \/ BoxScripts \/ TextScripts \/ Finished \/ Killed
  \/ Refuses \/ Prepare \/ PrepareCut \/ WriteManifest \/ ChangeSource
  \/ UNCHANGED buildVars
BuildMoves == BuildWorks \/ \E r : Started(r)

LEMMA MovesFact == [Next]_buildVars => BuildMoves
BY DEF Next, BuildMoves, BuildWorks

LEMMA OneSourceStep == OneSourceInv /\ BuildMoves => OneSourceInv'
<1> SUFFICES ASSUME OneSourceInv, BuildMoves PROVE OneSourceInv'
  OBVIOUS
<1>1. CASE \E r : Started(r)
  <2>1. /\ UNCHANGED <<file, provenance, tree, raced>>
        /\ claim' = Identity(tree) /\ process' # "text"
    BY <1>1 DEF Started, rootVars, sourceVars
  <2> QED BY <2>1 DEF OneSourceInv, From, IsRoot, Identity
<1>2. CASE BoxScripts
  <2>1. CASE raced
    <3>1. UNCHANGED <<tree, raced>>
      BY <1>2 DEF BoxScripts, Script, sourceVars
    <3> QED BY <2>1, <3>1 DEF OneSourceInv
  <2>2. CASE ~raced
    <3>1. IsRoot(file)
      BY <2>2 DEF OneSourceInv
    <3>2. /\ process = "box" /\ process' = "box" /\ UNCHANGED <<claim, provenance, tree, raced>>
          /\ IsRoot(file') /\ \A f \in TextFiles : file'[f] = file[f]
      BY <1>2, <3>1, BoxScriptOutcome
    <3>3. provenance # None => From(file', provenance)
      BY <2>2, <3>2 DEF OneSourceInv, From
    <3> QED BY <2>2, <3>2, <3>3 DEF OneSourceInv, IsRoot, Identity, From
  <2> QED BY <2>1, <2>2
<1>3. CASE TextScripts
  <2>1. /\ process = "text" /\ todo # <<>>
        /\ \E o \in TextOutcomes : file' = o.file
        /\ UNCHANGED <<claim, process, provenance, tree, raced>>
    BY <1>3, TextScriptOutcome DEF Ended
  <2>2. CASE raced
    BY <2>1, <2>2 DEF OneSourceInv
  <2>3. CASE ~raced
    <3>1. provenance = Identity(tree) /\ claim = Identity(tree) /\ IsRoot(file)
      BY <2>1, <2>3 DEF OneSourceInv
    <3>2. From(file, Identity(tree))
      BY <2>3, <3>1, IdentityFact DEF OneSourceInv
    <3>3. From(file', Identity(tree)) /\ IsRoot(file')
      BY <2>1, <3>1, <3>2, TextOutcomesFrom
    <3> QED BY <2>1, <2>3, <3>1, <3>3 DEF OneSourceInv, IsRoot, Identity, From
  <2> QED BY <2>2, <2>3
<1>4. CASE Finished \/ Killed \/ Refuses \/ WriteManifest
  <2>1. /\ UNCHANGED <<file, provenance, claim, tree, raced>>
        /\ process' # "none" => process # "none"
        /\ process' = "text" /\ todo' # <<>> => process = "text" /\ todo # <<>>
    BY <1>4 DEF Finished, Killed, Refuses, WriteManifest, rootVars, sourceVars
  <2> QED BY <2>1 DEF OneSourceInv, From, IsRoot, Identity
<1>5. CASE Prepare
  <2>1. Accepts /\ Cleared /\ provenance' = claim /\ UNCHANGED <<claim, tree, raced>>
    BY <1>5 DEF Prepare, sourceVars
  <2>2. process # "none"
    BY <2>1 DEF Accepts, Admitted
  <2>3. ~raced => From(file', claim) /\ IsRoot(file')
    BY <2>1, AcceptedFrom
  <2> QED BY <2>1, <2>2, <2>3 DEF OneSourceInv, IsRoot, Identity, From
<1>6. CASE PrepareCut
  <2>1. Accepts /\ process' = "none" /\ UNCHANGED <<claim, tree, raced>>
    BY <1>6 DEF PrepareCut, sourceVars
  <2>2. ASSUME NEW fs, file' = Without(fs), UNCHANGED provenance
        PROVE  OneSourceInv'
    <3>1. IsRoot(file')
      BY <2>2 DEF Without, IsRoot
    <3>2. ~raced /\ provenance # None => From(file', provenance)
      BY <2>2, ClearedFrom DEF OneSourceInv
    <3> QED BY <2>1, <2>2, <3>1, <3>2 DEF OneSourceInv, IsRoot, From, Identity
  <2>3. CASE provenance' = claim /\ Cleared
    <3>1. ~raced => From(file', claim) /\ IsRoot(file')
      BY <2>1, <2>3, AcceptedFrom
    <3> QED BY <2>1, <2>3, <3>1 DEF OneSourceInv, IsRoot, Identity, From
  <2>4. CASE provenance' = None /\ Cleared
    <3>1. IsRoot(file')
      BY <2>4 DEF Cleared, Without, IsRoot
    <3> QED BY <2>1, <2>4, <3>1 DEF OneSourceInv, IsRoot, From, Identity
  <2>5. \/ \E fs : file' = Without(fs) /\ UNCHANGED provenance
        \/ provenance' = None /\ Cleared
        \/ provenance' = claim /\ Cleared
    BY <1>6 DEF PrepareCut, Cleared
  <2> QED BY <2>2, <2>3, <2>4, <2>5
<1>7. CASE ChangeSource
  <2>1. tree' \in Trees /\ UNCHANGED <<file, provenance, claim, process, todo>>
    BY <1>7 DEF ChangeSource, rootVars, runVars
  <2>2. raced' \in BOOLEAN /\ (~raced' => ~raced /\ process = "none")
    BY <1>7 DEF ChangeSource, OneSourceInv
  <2> QED BY <2>1, <2>2 DEF OneSourceInv, From, IsRoot, Identity
<1>8. CASE UNCHANGED buildVars
  <2>1. UNCHANGED <<file, provenance, claim, process, todo, tree, raced>>
    BY <1>8 DEF buildVars, rootVars, runVars, sourceVars
  <2> QED BY <2>1 DEF OneSourceInv, From, IsRoot, Identity
<1> QED BY <1>1, <1>2, <1>3, <1>4, <1>5, <1>6, <1>7, <1>8 DEF BuildMoves, BuildWorks

(* The files of the text build come from one source, the one the root's    *)
(* provenance names, through every kill, resumption, refusal and reset     *)
(* (prepare_build_root and the scripts of build_text_prompt_mig.py).       *)
THEOREM OneSourceHolds == Spec => []OneSource
<1>1. OneSourceInv => OneSource
  BY DEF OneSourceInv, OneSource, From
<1>2. OneSourceInv /\ [Next]_buildVars => OneSourceInv'
  BY OneSourceStep, MovesFact
<1> QED BY <1>1, <1>2, OneSourceInit, PTL DEF Spec
-----------------------------------------------------------------------------

(* The scripts that write two files are skipped when the first is there, so*)
(* the second must never be there without it.                              *)
Paired(fs) ==
  /\ fs["sidecar"] # None => fs["decoder"] # None
  /\ fs["modules"] # None => fs["sentinel"] # None

FilesInv ==
  /\ run \in Nat /\ tree \in Trees
  /\ IsRoot(file) /\ Paired(file)

(* What a step may make of the files.                                      *)
Kept(fs) == \A f \in Files : file[f] # None /\ file[OutputOf(f)] # None => fs[f] = file[f]
Allowed(fs) == IsRoot(fs) /\ Paired(fs) /\ (~request.force => Kept(fs))

LEMMA AllNames ==
  {"fp32", "simple", "tuned", "gpuio", "encoderfp32", "encoder", "ortcache",
   "fixedfp32", "fixed", "fixedreport", "decoder", "sidecar", "graph", "memory", "policy", "sentinel", "modules", "warm", "caches",
   "boxfp32", "boxsimple", "boxtuned"} \subseteq Files
<1>1. BoxModules \subseteq Files
  <2>1. TextDirs[4] = {"graph", "memory", "policy", "sentinel", "modules", "warm", "caches"}
    BY DEF TextDirs
  <2>2. BoxModules \subseteq TextDirs[4] /\ 4 \in 1..4
    BY <2>1 DEF BoxModules
  <2>3. TextDirs[4] \subseteq Listed
    BY <2>2 DEF Listed
  <2> QED BY <2>2, <2>3 DEF Files
<1> QED BY <1>1, NamesFact, FilesFact DEF BoxModules

LEMMA MadeFact ==
  ASSUME FilesInv, NEW s \in {"torn", "unchecked", "whole"}
  PROVE  Made(s) # None
<1>1. Made(s) \in [run : Nat, tree : Trees, state : {"torn", "unchecked", "whole"}]
  BY DEF Made, FilesInv
<1> QED BY <1>1, BuildAssumption

(* One more file is put there, which was not, or may be overwritten.       *)
LEMMA PutAllowed ==
  ASSUME NEW fs, Allowed(fs), NEW f \in Files, NEW c,
         request.force \/ file[f] = None \/ file[OutputOf(f)] = None,
         f \in {"decoder", "sentinel"} => c # None,
         f = "sidecar" => fs["decoder"] # None,
         f = "modules" => fs["sentinel"] # None
  PROVE  Allowed([fs EXCEPT ![f] = c])
<1> DEFINE gs == [fs EXCEPT ![f] = c]
<1>1. IsRoot(gs) /\ \A g \in Files : gs[g] = IF g = f THEN c ELSE fs[g]
  BY DEF Allowed, IsRoot
<1> HIDE DEF gs
<1>2. Paired(gs)
  BY <1>1, AllNames DEF Allowed, Paired
<1>3. ~request.force => Kept(gs)
  BY <1>1 DEF Allowed, Kept
<1>4. Allowed(gs)
  BY <1>1, <1>2, <1>3 DEF Allowed
<1> QED BY <1>4 DEF gs

LEMMA SameAllowed == ASSUME FilesInv PROVE Allowed(file)
  BY DEF FilesInv, Allowed, Kept

(* The scripts that write one file which has no second.                    *)
LEMMA SavesAllowed ==
  ASSUME FilesInv, NEW f \in Files \ {"sidecar", "modules"}, NEW states,
         states \subseteq {"torn", "unchecked", "whole"},
         NEW outcomes, outcomes \subseteq Raises \cup Saves(f, states),
         NEW o \in UnlessDone(f, outcomes)
  PROVE  Allowed(o.file)
<1>1. CASE o = Good(file) \/ o \in Raises
  BY <1>1, SameAllowed DEF Good, Raises, Bad
<1>2. CASE ~Skipped(f) /\ o \in Saves(f, states)
  <2>1. PICK s \in states : o = [file |-> [file EXCEPT ![f] = Made(s)], ok |-> s = "whole"]
    BY <1>2 DEF Saves, SavesTo
  <2>2. o.file = [file EXCEPT ![f] = Made(s)]
    BY <2>1
  <2>3. request.force \/ file[f] = None
    BY <1>2 DEF Skipped
  <2>4. Allowed([file EXCEPT ![f] = Made(s)])
    BY <2>3, MadeFact, SameAllowed, PutAllowed
  <2> QED BY <2>2, <2>4
<1> QED BY <1>1, <1>2 DEF UnlessDone

(* The exporters that write more than their output.                        *)
LEMMA ExportsAllowed ==
  ASSUME FilesInv,
         NEW o \in UnlessDone("encoder", ExportEncoder) \cup UnlessDone("fixed", ExportFixed)
  PROVE  Allowed(o.file)
<1>1. CASE o = Good(file)
  BY <1>1, SameAllowed DEF Good
<1>2. ASSUME NEW raw, NEW f, NEW last,
             {raw, f, last} \subseteq Files \ {"decoder", "sentinel", "sidecar", "modules"},
             OutputOf(raw) = f, OutputOf(f) = f, OutputOf(last) = f,
             ~Skipped(f), Writes(o, raw, f, last)
      PROVE  Allowed(o.file)
  <2>1. request.force \/ file[f] = None
    BY <1>2 DEF Skipped
  <2>2. ASSUME NEW fs, Allowed(fs), NEW g \in {raw, f, last}, NEW s
        PROVE  Allowed(Put(fs, g, s))
    BY <1>2, <2>1, <2>2, PutAllowed DEF Put
  <2>3. PICK s : \/ o.file = file
                 \/ o.file = Put(file, raw, s)
                 \/ o.file = Put(Put(file, raw, "whole"), f, s)
                 \/ o.file = Put(Put(Put(file, raw, "whole"), f, "whole"), last, s)
    BY <1>2 DEF Writes
  <2> QED BY <2>2, <2>3, SameAllowed
<1>3. CASE ~Skipped("encoder") /\ o \in ExportEncoder
  <2>1. OutputOf("encoderfp32") = "encoder" /\ OutputOf("encoder") = "encoder"
    BY DEF OutputOf
  <2> QED BY <1>2, <1>3, <2>1, ExportFact, AllNames
<1>4. CASE ~Skipped("fixed") /\ o \in ExportFixed
  <2>1. OutputOf("fixedfp32") = "fixed" /\ OutputOf("fixed") = "fixed"
        /\ OutputOf("fixedreport") = "fixed"
    BY DEF OutputOf
  <2> QED BY <1>2, <1>4, <2>1, ExportFact, AllNames
<1> QED BY <1>1, <1>3, <1>4 DEF UnlessDone

LEMMA CompileMemoryAllowed ==
  ASSUME FilesInv, NEW o \in CompileMemory
  PROVE  Allowed(o.file)
<1>1. CASE o \in Raises \/ o = Good(file)
  BY <1>1, SameAllowed DEF Good, Raises, Bad
<1>2. CASE o \in Recompiled /\ (request.force \/ CacheEmpty)
  <2> DEFINE cleared == Without({"memory", "policy"})
             Cached(state) == [cleared EXCEPT !["memory"] = Made(state)]
             verified == [Cached("whole") EXCEPT !["policy"] = file["graph"]]
  <2>1. request.force \/ (file["memory"] = None /\ file["policy"] = None)
    BY <1>2 DEF CacheEmpty
  <2>2. Allowed(cleared)
    <3>1. IsRoot(cleared) /\ \A f \in Files : cleared[f] =
            IF f \in {"memory", "policy"} THEN None ELSE file[f]
      BY DEF Without, IsRoot
    <3> HIDE DEF cleared
    <3>2. Paired(cleared)
      BY <3>1, AllNames DEF Paired, FilesInv
    <3>3. ~request.force => Kept(cleared)
      BY <3>1, <2>1 DEF Kept
    <3> QED BY <3>1, <3>2, <3>3 DEF Allowed
  <2> HIDE DEF cleared
  <2>3. ASSUME NEW state PROVE Allowed(Cached(state))
    BY <2>1, <2>2, AllNames, PutAllowed
  <2>4. Allowed(verified)
    <3> HIDE DEF Cached
    <3> QED BY <2>1, <2>3, AllNames, PutAllowed
  <2>5. o \in {Bad(cleared), Bad(Cached("torn")), Bad(Cached("whole")), Good(verified)}
    BY <1>2 DEF Recompiled, cleared
  <2> HIDE DEF Cached, verified
  <2>6. o.file = cleared \/ o.file = Cached("torn") \/ o.file = Cached("whole") \/ o.file = verified
    BY <2>5 DEF Good, Bad
  <2> QED BY <2>2, <2>3, <2>4, <2>6
<1>3. \/ o \in Raises \/ o = Good(file)
      \/ o \in Recompiled /\ (request.force \/ CacheEmpty \/ CacheVerified)
  BY DEF CompileMemory
<1>4. o \in Recompiled => o \in Raises \/ o = Good(file) \/ request.force \/ CacheEmpty
  BY DEF CompileMemory
<1> QED BY <1>1, <1>2, <1>3, <1>4

LEMMA CompileFixedAllowed ==
  ASSUME FilesInv, NEW o \in UnlessDone("decoder", CompileFixed)
  PROVE  Allowed(o.file)
<1> DEFINE decoder == [file EXCEPT !["decoder"] = Made("whole")]
           checked == [decoder EXCEPT !["sidecar"] = decoder["decoder"]]
<1>1. CASE o = Good(file) \/ o \in Raises
  BY <1>1, SameAllowed DEF Good, Raises, Bad
<1>2. CASE ~Skipped("decoder") /\ o \in {Bad(decoder), Good(checked)}
  <2>1. request.force \/ (file["decoder"] = None /\ file["sidecar"] = None)
    BY <1>2 DEF Skipped, FilesInv, Paired
  <2>2. Allowed(decoder) /\ decoder["decoder"] # None
    BY <2>1, MadeFact, SameAllowed, AllNames, PutAllowed DEF FilesInv, IsRoot
  <2>3. Allowed(checked)
    <3> HIDE DEF decoder
    <3> QED BY <2>1, <2>2, AllNames, PutAllowed
  <2> HIDE DEF decoder, checked
  <2> QED BY <1>2, <2>2, <2>3 DEF Good, Bad
<1>3. o = Good(file) \/ o \in Raises \/ (~Skipped("decoder") /\ o \in {Bad(decoder), Good(checked)})
  BY DEF UnlessDone, CompileFixed
<1> QED BY <1>1, <1>2, <1>3

LEMMA SmokeAllowed ==
  ASSUME FilesInv, NEW o \in Smoke
  PROVE  Allowed(o.file)
<1> DEFINE Cached(state) == [file EXCEPT !["ortcache"] = Made(state)]
<1>1. CASE o = Good(file) \/ o \in Raises
  BY <1>1, SameAllowed DEF Good, Raises, Bad
<1>2. ASSUME NEW state, file["ortcache"] = None PROVE Allowed(Cached(state))
  BY <1>2, SameAllowed, AllNames, PutAllowed
<1>3. \/ o = Good(file) \/ o \in Raises
      \/ /\ file["ortcache"] = None
         /\ o \in {Good(Cached("whole")), Bad(Cached("torn")), Bad(Cached("whole"))}
  BY DEF Smoke
<1> HIDE DEF Cached
<1> QED BY <1>1, <1>2, <1>3 DEF Good, Bad

LEMMA ExportTrackerAllowed ==
  ASSUME FilesInv, NEW o \in UnlessDone("sentinel", ExportTracker)
  PROVE  Allowed(o.file)
<1> DEFINE begun == [file EXCEPT !["sentinel"] = Made("whole")]
           Modules(state) == [begun EXCEPT !["modules"] = Made(state)]
<1>1. CASE o = Good(file) \/ o \in Raises
  BY <1>1, SameAllowed DEF Good, Raises, Bad
<1>2. CASE ~Skipped("sentinel") /\ o \in {Bad(begun), Bad(Modules("torn")), Good(Modules("whole"))}
  <2>1. request.force \/ (file["sentinel"] = None /\ file["modules"] = None)
    BY <1>2 DEF Skipped, FilesInv, Paired
  <2>2. Allowed(begun) /\ begun["sentinel"] # None
    BY <2>1, MadeFact, SameAllowed, AllNames, PutAllowed DEF FilesInv, IsRoot
  <2>3. ASSUME NEW state PROVE Allowed(Modules(state))
    <3> HIDE DEF begun
    <3> QED BY <2>1, <2>2, AllNames, PutAllowed
  <2> HIDE DEF begun, Modules
  <2> QED BY <1>2, <2>2, <2>3 DEF Good, Bad
<1>3. \/ o = Good(file) \/ o \in Raises
      \/ /\ ~Skipped("sentinel")
         /\ o \in {Bad(begun), Bad(Modules("torn")), Good(Modules("whole"))}
  BY DEF UnlessDone, ExportTracker
<1> QED BY <1>1, <1>2, <1>3

LEMMA PrewarmBoxAllowed ==
  ASSUME FilesInv, NEW o \in UnlessDone("warm", PrewarmBox)
  PROVE  Allowed(o.file)
<1>1. CASE o = Good(file) \/ o \in Raises
  BY <1>1, SameAllowed DEF Good, Raises, Bad
<1>2. ASSUME NEW fs, Allowed(fs), NEW f \in {"warm", "caches"}, fs[f] = file[f], NEW c \in Spared(f)
      PROVE  Allowed([fs EXCEPT ![f] = c])
  <2>1. f \in Files /\ f \notin {"decoder", "sentinel", "sidecar", "modules"}
    BY <1>2, AllNames
  <2>2. CASE file[f] = None
    BY <1>2, <2>1, <2>2, PutAllowed
  <2>3. CASE file[f] # None
    <3>1. [fs EXCEPT ![f] = c] = fs
      BY <1>2, <2>1, <2>3 DEF Allowed, IsRoot, Spared
    <3> QED BY <1>2, <3>1
  <2> QED BY <2>2, <2>3
<1>3. ASSUME NEW w \in Spared("warm"), NEW c \in Spared("caches")
      PROVE  Allowed([file EXCEPT !["warm"] = w, !["caches"] = c])
  <2> DEFINE warmed == [file EXCEPT !["warm"] = w]
  <2>1. Allowed(warmed)
    BY <1>2, SameAllowed
  <2>2. warmed["caches"] = file["caches"]
    BY AllNames DEF FilesInv, IsRoot
  <2> HIDE DEF warmed
  <2>3. Allowed([warmed EXCEPT !["caches"] = c])
    BY <2>1, <2>2, <1>2
  <2> QED BY <2>3 DEF warmed
<1>4. \/ o = Good(file) \/ o \in Raises
      \/ \E w \in Spared("warm"), c \in Spared("caches") :
           o = Good([file EXCEPT !["warm"] = w, !["caches"] = c])
  <2>1. o = Good(file) \/ o \in PrewarmBox
    BY DEF UnlessDone
  <2>2. o \in PrewarmBox =>
          \/ o \in Raises
          \/ \E w \in Spared("warm"), c \in Spared("caches") :
               o = Good([file EXCEPT !["warm"] = w, !["caches"] = c])
    <3> DEFINE warmings == {Good([file EXCEPT !["warm"] = w, !["caches"] = c]) :
                              w \in Spared("warm"), c \in Spared("caches")}
    <3>1. PrewarmBox = Raises \cup IF Loads("modules") THEN warmings ELSE {}
      BY DEF PrewarmBox
    <3>2. \A x \in warmings : \E w \in Spared("warm"), c \in Spared("caches") :
            x = Good([file EXCEPT !["warm"] = w, !["caches"] = c])
      OBVIOUS
    <3> HIDE DEF warmings
    <3> QED BY <3>1, <3>2
  <2> QED BY <2>1, <2>2
<1> QED BY <1>1, <1>3, <1>4 DEF Good

(* Whatever script ran, of the box build or of the text build.             *)
LEMMA ScriptAllowed ==
  ASSUME FilesInv, BoxScripts \/ TextScripts
  PROVE  Allowed(file') /\ UNCHANGED <<run, tree>>
<1> DEFINE Goal == Allowed(file') /\ UNCHANGED <<run, tree>>
<1> SUFFICES Goal
  OBVIOUS
<1>1. ASSUME NEW build, NEW part, NEW outcomes, \A o \in outcomes : Allowed(o.file),
             Script(build, part, outcomes)
      PROVE  Goal
  <2>1. PICK o \in outcomes : file' = o.file
    BY <1>1 DEF Script
  <2>2. UNCHANGED <<run, tree>>
    BY <1>1 DEF Script, sourceVars
  <2>3. Allowed(o.file)
    BY <1>1
  <2> QED BY <2>1, <2>2, <2>3
<1> HIDE DEF Goal
<1>2. ASSUME NEW build, NEW f \in Files \ {"sidecar", "modules"}, NEW outcomes,
             \E states \in SUBSET {"torn", "unchecked", "whole"} :
               outcomes \subseteq Raises \cup Saves(f, states),
             Script(build, f, UnlessDone(f, outcomes))
      PROVE  Goal
  BY <1>1, <1>2, SavesAllowed
<1>3. ASSUME NEW build, NEW f \in {"fp32", "boxfp32"},
             Script(build, f, UnlessDone(f, ExportBackbone(f)))
      PROVE  Goal
  <2>1. ExportBackbone(f) \subseteq Raises \cup Saves(f, {"torn", "whole"})
    BY DEF ExportBackbone
  <2> QED BY <1>2, <1>3, <2>1, AllNames
<1>4. ASSUME NEW build, NEW f \in {"simple", "boxsimple"}, NEW in,
             Script(build, f, UnlessDone(f, SimplifyBackbone(in, f)))
      PROVE  Goal
  <2>1. SimplifyBackbone(in, f) \subseteq Raises \cup Saves(f, {"torn", "unchecked", "whole"})
    BY DEF SimplifyBackbone
  <2> QED BY <1>2, <1>4, <2>1, AllNames
<1>5. ASSUME NEW build, NEW f \in {"tuned", "gpuio", "boxtuned"}, NEW in,
             Script(build, f, UnlessDone(f, CompileBackbone(in, f)))
      PROVE  Goal
  <2>1. CompileBackbone(in, f) \subseteq Raises \cup Saves(f, {"torn", "whole"})
    BY DEF CompileBackbone
  <2> QED BY <1>2, <1>5, <2>1, AllNames
<1>7. CASE Script("text", "graph", UnlessDone("graph", ExportMemory))
  <2>1. ExportMemory \subseteq Raises \cup Saves("graph", {"torn", "whole"})
    BY DEF ExportMemory
  <2> QED BY <1>2, <1>7, <2>1, AllNames
<1>8. CASE \/ Script("text", "encoder", UnlessDone("encoder", ExportEncoder))
           \/ Script("text", "fixed", UnlessDone("fixed", ExportFixed))
  BY <1>1, <1>8, ExportsAllowed
<1>9. CASE \/ Script("text", "memory", CompileMemory)
           \/ Script("text", "decoder", UnlessDone("decoder", CompileFixed))
           \/ Script("text", "smoke", Smoke)
  BY <1>1, <1>9, CompileMemoryAllowed, CompileFixedAllowed, SmokeAllowed
<1>10. CASE \/ Script("box", "modules", UnlessDone("sentinel", ExportTracker))
            \/ Script("box", "warm", UnlessDone("warm", PrewarmBox))
  BY <1>1, <1>10, ExportTrackerAllowed, PrewarmBoxAllowed
<1>11. CASE BoxScripts
  BY <1>3, <1>4, <1>5, <1>10, <1>11 DEF BoxScripts
<1>12. CASE TextScripts
  BY <1>3, <1>4, <1>5, <1>7, <1>8, <1>9, <1>12 DEF TextScripts
<1> QED BY <1>11, <1>12

(* A reset clears both files of a pair, since it clears whole directories. *)
LEMMA ClearedAllowed ==
  ASSUME FilesInv,
         \/ Cleared
         \/ Reset /\ \E n \in 0..4 : file' = Without(UNION {TextDirs[d] : d \in 1..n})
  PROVE  Allowed(file')
<1>1. ASSUME NEW fs, file' = Without(fs),
             "decoder" \in fs => "sidecar" \in fs, "sentinel" \in fs => "modules" \in fs,
             request.force \/ fs = {}
      PROVE  Allowed(file')
  <2>1. IsRoot(file') /\ \A f \in Files : file'[f] = IF f \in fs THEN None ELSE file[f]
    BY <1>1 DEF Without, IsRoot
  <2>2. Paired(file')
    BY <1>1, <2>1, AllNames DEF Paired, FilesInv
  <2>3. ~request.force => Kept(file')
    BY <1>1, <2>1 DEF Kept
  <2> QED BY <2>1, <2>2, <2>3 DEF Allowed
<1>2. /\ TextDirs[1] = {"fp32", "simple", "tuned", "gpuio"}
      /\ TextDirs[2] = {"encoderfp32", "encoder", "ortcache"}
      /\ TextDirs[3] = {"fixedfp32", "fixed", "fixedreport", "decoder", "sidecar"}
      /\ TextDirs[4] = {"graph", "memory", "policy", "sentinel", "modules", "warm", "caches"}
  BY DEF TextDirs
<1>3. ASSUME NEW n \in 0..4
      PROVE  LET fs == UNION {TextDirs[d] : d \in 1..n} IN
             /\ "decoder" \in fs => "sidecar" \in fs
             /\ "sentinel" \in fs => "modules" \in fs
  <2> DEFINE fs == UNION {TextDirs[d] : d \in 1..n}
  <2>1. \A x : x \in fs <=> \E d \in 1..n : x \in TextDirs[d]
    OBVIOUS
  <2>2. \A d \in 1..n : d \in {1, 2, 3, 4}
    OBVIOUS
  <2>3. \A d \in 1..n : /\ "decoder" \in TextDirs[d] => "sidecar" \in TextDirs[d]
                        /\ "sentinel" \in TextDirs[d] => "modules" \in TextDirs[d]
    BY <1>2, <2>2
  <2> HIDE DEF fs
  <2>4. /\ "decoder" \in fs => "sidecar" \in fs
        /\ "sentinel" \in fs => "modules" \in fs
    BY <2>1, <2>3
  <2> QED BY <2>4 DEF fs
<1>4. CASE Cleared /\ ~Reset
  BY <1>1, <1>4 DEF Cleared
<1>5. CASE Cleared /\ Reset
  <2>1. file' = Without(UNION {TextDirs[d] : d \in 1..4}) /\ request.force
    BY <1>5 DEF Cleared, Listed, Reset
  <2>2. 4 \in 0..4
    OBVIOUS
  <2> QED BY <1>1, <1>3, <2>1, <2>2
<1>6. CASE Reset /\ \E n \in 0..4 : file' = Without(UNION {TextDirs[d] : d \in 1..n})
  BY <1>1, <1>3, <1>6 DEF Reset
<1> QED BY <1>4, <1>5, <1>6

LEMMA FilesStep ==
  ASSUME FilesInv, BuildMoves
  PROVE  Allowed(file') /\ run' \in Nat /\ tree' \in Trees
<1> DEFINE Goal == Allowed(file') /\ run' \in Nat /\ tree' \in Trees
<1> SUFFICES Goal
  OBVIOUS
<1>1. ASSUME UNCHANGED file, run' \in Nat, tree' \in Trees PROVE Goal
  BY <1>1, SameAllowed
<1>2. run \in Nat /\ tree \in Trees
  BY DEF FilesInv
<1> HIDE DEF Goal
<1>3. ASSUME NEW r, Started(r) PROVE Goal
  <2>1. UNCHANGED <<file, tree>> /\ run' = run + 1
    BY <1>3 DEF Started, rootVars, sourceVars
  <2> QED BY <1>1, <1>2, <2>1
<1>4. CASE BoxScripts \/ TextScripts
  <2>1. Allowed(file') /\ UNCHANGED <<run, tree>>
    BY <1>4, ScriptAllowed
  <2> QED BY <1>2, <2>1 DEF Goal
<1>5. CASE Finished \/ Killed \/ Refuses \/ WriteManifest
  <2>1. UNCHANGED <<file, run, tree>>
    BY <1>5 DEF Finished, Killed, Refuses, WriteManifest, rootVars, sourceVars
  <2> QED BY <1>1, <1>2, <2>1
<1>6. CASE Prepare \/ PrepareCut
  <2>1. UNCHANGED <<run, tree>>
    BY <1>6 DEF Prepare, PrepareCut, sourceVars
  <2>2. \/ Cleared
        \/ Reset /\ \E n \in 0..4 : file' = Without(UNION {TextDirs[d] : d \in 1..n})
    BY <1>6 DEF Prepare, PrepareCut
  <2>3. Allowed(file')
    BY <2>2, ClearedAllowed
  <2> QED BY <1>2, <2>1, <2>3 DEF Goal
<1>7. CASE ChangeSource
  <2>1. UNCHANGED <<file, run>> /\ tree' \in Trees
    BY <1>7 DEF ChangeSource, rootVars, runVars
  <2> QED BY <1>1, <1>2, <2>1
<1>8. CASE UNCHANGED buildVars
  <2>1. UNCHANGED <<file, run, tree>>
    BY <1>8 DEF buildVars, rootVars, runVars, sourceVars
  <2> QED BY <1>1, <1>2, <2>1
<1> QED BY <1>3, <1>4, <1>5, <1>6, <1>7, <1>8 DEF BuildMoves, BuildWorks

(* Without --force the build deletes and overwrites no output, neither by a*)
(* script nor when it prepares its root (skip_if_exists, exists,           *)
(* compile_all and prepare_build_root), and nothing else of an exporter's  *)
(* either once its output is there.                                        *)
THEOREM KeepsFilesHolds == Spec => KeepsFiles
<1>1. Init => FilesInv
  <2> SUFFICES ASSUME Init PROVE FilesInv
    OBVIOUS
  <2>1. file = [f \in Files |-> None] /\ run = 0 /\ tree \in Trees
    BY DEF Init
  <2> QED BY <2>1, AllNames DEF FilesInv, IsRoot, Paired
<1>2. FilesInv /\ [Next]_buildVars => FilesInv'
  BY FilesStep, MovesFact DEF FilesInv, Allowed, IsRoot, Paired
<1>3. FilesInv /\ [Next]_buildVars =>
        [request # None /\ ~request.force =>
           \A f \in Files :
             file[f] # None /\ file[OutputOf(f)] # None => file'[f] = file[f]]_buildVars
  BY FilesStep, MovesFact DEF Allowed, Kept
<1> QED BY <1>1, <1>2, <1>3, PTL DEF Spec, KeepsFiles
-----------------------------------------------------------------------------
(***************************************************************************)
(* The release gate: what its scripts rely on at each of their stages.     *)
(***************************************************************************)
ScriptNames ==
  {"modules", "boxfp32", "boxsimple", "boxtuned", "warm", "fp32", "simple", "tuned", "gpuio",
   "encoder", "graph", "memory", "fixed", "decoder", "smoke", "manifest"}

(* A command that runs is one that was given, from a checkout.             *)
CommandTyped ==
  /\ todo \in Seq(ScriptNames)
  /\ process # "none" => run \in 1..MaxRuns /\ request \in Commands /\ claim \in Identities
TypesInv == GateTypeOK /\ CommandTyped

(* After Prepare there is a manifest only if nothing but it is to be made. *)
ManifestAgrees ==
  /\ ManifestHonest
  /\ process = "text" => manifest = None \/ todo = <<>> \/ todo = <<"manifest">>

(* The runner's build makes the encoder's cache, so its smoke never does.  *)
HasCache == file["ortcache"] # None
CachePending == HasCache \/ \E n \in 1..Len(todo) : todo[n] = "smoke"
RunnerAgrees ==
  /\ runner \in {"smoke", "refresh", "strict"} => process = "none" /\ HasCache
  /\ runner = "build" =>
       /\ request = RunnerRequest /\ process \in {"none", "launch", "text"}
       /\ process # "none" => report = None
       /\ process = "text" /\ ok => CachePending
       /\ report = TRUE => HasCache

(* The runner works for the gate during its clean build, alone.            *)
Early == {"preflight", "clean-build", "built", "container tests"}
Late == {"wrapper tests", "tested", "manifest", "measurements", "measured", "summary", "passed"}
Judging == Early \cup Late
StagesAgree ==
  /\ gate = "clean-build" => runner # "off"
  /\ gate \in Judging \ {"clean-build"} => runner = "off" /\ process = "none"
  /\ gate \in Judging => gateTree \in Trees /\ gateTree.edit = 0
  /\ gate = "preflight" => ~Populated

(* The checkout has not left the commit of the preflight.                  *)
Steady == ~returned /\ (gate \in {"summary", "passed"} \/ tree = gateTree)

(* Everything there was made, whole, from that commit.                     *)
Whole == \A f \in TextFiles : file[f] # None => file[f].state = "whole" /\ file[f].tree = gateTree
HasExport == file["fp32"] # None
Manifested ==
  /\ Complete
  /\ manifest # None /\ manifest.complete /\ manifest.from = Identity(gateTree)
  /\ manifest.listing = Listing

CleanBuildAgrees ==
  /\ runner = "build" /\ process = "launch" => \A f \in Files : file[f] = None
  /\ runner = "build" /\ process = "text" /\ ok =>
       Whole /\ (HasExport \/ (todo # <<>> /\ Head(todo) = "fp32"))
  /\ runner = "build" /\ report = TRUE => Whole /\ HasExport
  /\ runner \in {"smoke", "refresh", "strict"} => Whole /\ HasExport
  /\ runner = "strict" => Manifested
GateAgrees ==
  gate \in Judging /\ Steady =>
    /\ gate = "clean-build" => CleanBuildAgrees
    /\ gate \in Judging \ {"preflight", "clean-build"} => Whole /\ HasExport /\ Manifested
    /\ evidence = IF gate \in Early THEN {} ELSE {gateTree}

ReleaseInv ==
  TypesInv /\ OneSourceInv /\ FilesInv /\ ManifestAgrees /\ RunnerAgrees /\ StagesAgree /\ GateAgrees

(* What the gate's steps make of the root: all are steps of the build, but *)
(* the refresh of the manifest.                                            *)
LEMMA SmokeKeeps ==
  ASSUME FilesInv, RunnerAgrees, RunnerSmokes
  PROVE  UNCHANGED buildVars
<1>1. PICK o \in Smoke : /\ RunnerGoes("smoke", o.ok, "refresh") /\ file' = o.file
                         /\ UNCHANGED <<provenance, litter, manifest>>
  BY DEF RunnerSmokes
<1>2. file["ortcache"] # None
  BY <1>1 DEF RunnerGoes, RunnerAgrees, HasCache
<1>3. o = Good(file) \/ o = Bad(file)
  BY <1>2 DEF Smoke, Raises
<1>4. file' = file
  BY <1>1, <1>3 DEF Good, Bad
<1> QED BY <1>1, <1>4 DEF RunnerGoes, buildVars, rootVars

LEMMA WrittenFact ==
  ASSUME TypesInv, NEW id \in Identities, WritesManifest(id)
  PROVE  /\ Complete /\ manifest' \in Manifests /\ manifest' # None
         /\ manifest'.listing = Listing /\ manifest'.from = id
<1>1. Complete /\ \E complete \in BOOLEAN :
        manifest' = [listing |-> Listing, from |-> id, complete |-> complete]
  BY DEF WritesManifest
<1>2. Listing \in [Listed -> Contents \cup {None}]
  BY DEF TypesInv, GateTypeOK, TypeOK, Listing, Files
<1> HIDE DEF Listing
<1>3. manifest' \in Manifests
  BY <1>1, <1>2 DEF Manifests
<1> QED BY <1>1, <1>3, ManifestAssumption

LEMMA TreeIdentity == ASSUME NEW t \in Trees PROVE Identity(t) \in Identities
BY DEF Identity, Identities, Trees

LEMMA RefreshFact ==
  ASSUME TypesInv, RunnerRefreshes
  PROVE  /\ UNCHANGED <<file, provenance, litter, runVars, sourceVars>>
         /\ process = "none" /\ runner = "refresh" /\ UNCHANGED <<gateTree, returned, evidence>>
         /\ \/ UNCHANGED manifest /\ RunnerEnds(FALSE)
            \/ /\ Complete /\ manifest' # None
               /\ manifest' \in Manifests
               /\ manifest'.listing = Listing /\ manifest'.from = Identity(tree)
               /\ IF manifest'.complete THEN runner' = "strict" /\ UNCHANGED gate
                                        ELSE RunnerEnds(FALSE)
<1>1. CASE WritesManifest(Identity(tree)) /\ RunnerGoes("refresh", manifest'.complete, "strict")
  <2>1. Identity(tree) \in Identities
    BY TreeIdentity DEF TypesInv, GateTypeOK, TypeOK
  <2>2. /\ Complete /\ manifest' \in Manifests /\ manifest' # None
        /\ manifest'.listing = Listing /\ manifest'.from = Identity(tree)
    BY <1>1, <2>1, WrittenFact
  <2> QED BY <1>1, <2>2 DEF RunnerRefreshes, RunnerGoes
<1>2. CASE UNCHANGED manifest /\ RunnerGoes("refresh", FALSE, "strict")
  BY <1>2 DEF RunnerRefreshes, RunnerGoes
<1> QED BY <1>1, <1>2 DEF RunnerRefreshes

LEMMA StagesFact ==
  \A s : (\E n \in 1..Len(GateStages) : s = GateStages[n]) <=>
    s \in {"preflight", "clean-build", "built", "container tests", "wrapper tests",
           "tested", "manifest", "measurements", "measured", "summary"}
<1>1. Len(GateStages) = 10
  BY DEF GateStages
<1>2. 1..Len(GateStages) = {1, 2, 3, 4, 5, 6, 7, 8, 9, 10}
  BY <1>1
<1>3. /\ GateStages[1] = "preflight" /\ GateStages[2] = "clean-build" /\ GateStages[3] = "built"
      /\ GateStages[4] = "container tests" /\ GateStages[5] = "wrapper tests"
      /\ GateStages[6] = "tested" /\ GateStages[7] = "manifest"
      /\ GateStages[8] = "measurements" /\ GateStages[9] = "measured"
      /\ GateStages[10] = "summary"
  BY DEF GateStages
<1> QED BY <1>2, <1>3

(* Types.                                                                  *)
Rooted(fs) == fs \in [Files -> Contents \cup {None}]

LEMMA TypedFact ==
  ASSUME TypesInv
  PROVE  /\ Rooted(file) /\ tree \in Trees /\ run \in 0..MaxRuns /\ MaxRuns \in Nat
         /\ manifest \in Manifests \cup {None} /\ claim \in Identities \cup {None}
         /\ Identity(tree) \in Identities
  BY TreeIdentity, BuildAssumption DEF TypesInv, GateTypeOK, TypeOK, Rooted, MaxRuns

LEMMA GateMoves ==
  ASSUME TypesInv, FilesInv, RunnerAgrees, [GateNext]_vars
  PROVE  BuildWorks \/ RunnerRefreshes \/ \E r \in Commands : Started(r)
<1>1. CASE Command \/ RunnerBuilds
  <2>1. CASE Command
    <3>1. PICK r \in Requests[run + 1] : Started(r) /\ run < MaxRuns
      BY <2>1 DEF Command
    <3>2. run + 1 \in 1..Len(Requests)
      BY <3>1, TypedFact DEF MaxRuns
    <3>3. Requests[run + 1] \in SUBSET Commands
      BY <3>2, BuildAssumption, ElementOfSeq
    <3> QED BY <3>1, <3>3
  <2>2. CASE RunnerBuilds
    <3>1. RunnerRequest \in Commands
      BY DEF RunnerRequest, Commands, TextSteps
    <3> QED BY <2>2, <3>1 DEF RunnerBuilds
  <2> QED BY <1>1, <2>1, <2>2
<1>2. CASE BuildStep \/ SourceChange
  BY <1>2 DEF BuildStep, SourceChange, BuildWorks
<1>3. CASE RunnerBuilt
  <2>1. UNCHANGED buildVars
    BY <1>3 DEF RunnerBuilt, RunnerGoes, buildVars
  <2> QED BY <2>1 DEF BuildWorks
<1>4. CASE RunnerSmokes
  BY <1>4, SmokeKeeps DEF BuildWorks
<1>5. CASE RunnerPasses
  BY <1>5 DEF RunnerPasses, BuildWorks
<1>6. CASE Gate
  <2>1. UNCHANGED buildVars
    BY <1>6 DEF Gate, Preflight, AssertSource, Tests, VerifyManifest, Measure, Summarize,
                GateStopped, Moves, Judged, Keeps
  <2> QED BY <2>1 DEF BuildWorks
<1>7. CASE UNCHANGED vars
  BY <1>7 DEF vars, BuildWorks
<1> QED BY <1>1, <1>2, <1>3, <1>4, <1>5, <1>6, <1>7 DEF GateNext

LEMMA MadeTyped ==
  ASSUME TypesInv, process # "none", NEW s \in {"torn", "unchecked", "whole"}
  PROVE  Made(s) \in Contents
<1>1. run \in 1..MaxRuns /\ tree \in Trees
  BY TypedFact DEF TypesInv, CommandTyped
<1> QED BY <1>1 DEF Made, Contents

LEMMA PutTyped ==
  ASSUME NEW fs, Rooted(fs), NEW f, NEW c \in Contents \cup {None}
  PROVE  Rooted([fs EXCEPT ![f] = c])
  BY DEF Rooted

LEMMA SavesTyped ==
  ASSUME TypesInv, process # "none", NEW f, NEW states,
         states \subseteq {"torn", "unchecked", "whole"},
         NEW o \in {Good(file)} \cup Raises \cup Saves(f, states)
  PROVE  Rooted(o.file)
<1>1. CASE o \in {Good(file)} \cup Raises
  BY <1>1, TypedFact DEF Good, Bad, Raises
<1>2. CASE o \in Saves(f, states)
  <2>1. PICK s \in states : o = [file |-> [file EXCEPT ![f] = Made(s)], ok |-> s = "whole"]
    BY <1>2 DEF Saves, SavesTo
  <2>2. Rooted([file EXCEPT ![f] = Made(s)])
    BY TypedFact, MadeTyped, PutTyped
  <2> QED BY <2>1, <2>2
<1> QED BY <1>1, <1>2

LEMMA TextOutcomesTyped ==
  ASSUME TypesInv, process # "none", NEW o \in TextOutcomes
  PROVE  Rooted(o.file)
<1> DEFINE whole == Made("whole")
           torn == Made("torn")
<1>1. Rooted(file) /\ whole \in Contents /\ torn \in Contents
      /\ \A f \in Files : file[f] \in Contents \cup {None}
  BY TypedFact, MadeTyped DEF Rooted
<1> HIDE DEF whole, torn
<1>2. CASE o \in Recompiled
  <2> DEFINE cleared == Without({"memory", "policy"})
             With(c) == [cleared EXCEPT !["memory"] = c]
             verified == [With(whole) EXCEPT !["policy"] = file["graph"]]
  <2>1. Rooted(cleared)
    BY <1>1 DEF Without, Rooted
  <2> HIDE DEF cleared
  <2>2. Rooted(With(whole)) /\ Rooted(With(torn))
    BY <1>1, <2>1, PutTyped
  <2>3. file["graph"] \in Contents \cup {None}
    BY <1>1, AllNames
  <2>4. Rooted(verified)
    <3> HIDE DEF With
    <3> QED BY <2>2, <2>3, PutTyped
  <2>5. o \in {Bad(cleared), Bad(With(torn)), Bad(With(whole)), Good(verified)}
    BY <1>2 DEF Recompiled, cleared, whole, torn
  <2> HIDE DEF With, verified
  <2> QED BY <2>1, <2>2, <2>4, <2>5 DEF Good, Bad
<1>3. CASE o \in CompileMemory
  <2>1. o \in Recompiled \/ o = Bad(file) \/ o = Good(file)
    BY <1>3 DEF CompileMemory, Raises
  <2> QED BY <1>1, <1>2, <2>1 DEF Good, Bad
<1>4. CASE o \in CompileFixed
  <2> DEFINE decoder == [file EXCEPT !["decoder"] = whole]
             checked == [decoder EXCEPT !["sidecar"] = decoder["decoder"]]
  <2>1. Rooted(decoder) /\ decoder["decoder"] \in Contents \cup {None}
    BY <1>1, AllNames, PutTyped DEF Rooted
  <2> HIDE DEF decoder
  <2>2. Rooted(checked)
    BY <2>1, PutTyped
  <2>3. o \in {Bad(file), Bad(decoder), Good(checked)}
    BY <1>4 DEF CompileFixed, Raises, decoder, whole
  <2> HIDE DEF checked
  <2> QED BY <1>1, <2>1, <2>2, <2>3 DEF Good, Bad
<1>5. CASE o \in Smoke
  <2> DEFINE With(c) == [file EXCEPT !["ortcache"] = c]
  <2>1. Rooted(With(whole)) /\ Rooted(With(torn))
    BY <1>1, PutTyped
  <2>2. o \in {Bad(file), Good(file), Good(With(whole)), Bad(With(torn)), Bad(With(whole))}
    BY <1>5 DEF Smoke, Raises, whole, torn
  <2> HIDE DEF With
  <2> QED BY <1>1, <2>1, <2>2 DEF Good, Bad
<1>6. ASSUME NEW f, o \in Saves(f, {"torn", "unchecked", "whole"}) PROVE Rooted(o.file)
  BY <1>6, SavesTyped
<1>7. CASE o = Good(file) \/ o \in Raises
  BY <1>1, <1>7 DEF Good, Bad, Raises
<1>8. ASSUME NEW raw, NEW f, NEW last, Writes(o, raw, f, last) PROVE Rooted(o.file)
  <2>1. ASSUME NEW fs, Rooted(fs), NEW g, NEW s \in States PROVE Rooted(Put(fs, g, s))
    BY <2>1, MadeTyped, PutTyped DEF Put, States
  <2>2. PICK s \in States :
               \/ o.file = file
               \/ o.file = Put(file, raw, s)
               \/ o.file = Put(Put(file, raw, "whole"), f, s)
               \/ o.file = Put(Put(Put(file, raw, "whole"), f, "whole"), last, s)
    BY <1>8 DEF Writes, States
  <2>3. "whole" \in States
    BY DEF States
  <2> QED BY <1>1, <2>1, <2>2, <2>3
<1>9. CASE o \in ExportEncoder \cup ExportFixed
  BY <1>8, <1>9, ExportFact
<1> QED BY <1>3, <1>4, <1>5, <1>6, <1>7, <1>9 DEF TextOutcomes

LEMMA BoxScriptsTyped ==
  ASSUME TypesInv, BoxScripts
  PROVE  /\ Rooted(file') /\ ok' \in BOOLEAN /\ litter' \in BOOLEAN /\ process = "box"
         /\ UNCHANGED <<run, request, claim, process, report, provenance, manifest, sourceVars>>
<1> DEFINE Goal ==
         /\ Rooted(file') /\ ok' \in BOOLEAN /\ litter' \in BOOLEAN /\ process = "box"
         /\ UNCHANGED <<run, request, claim, process, report, provenance, manifest, sourceVars>>
<1> SUFFICES Goal
  OBVIOUS
<1>0. Rooted(file) /\ ok \in BOOLEAN /\ litter \in BOOLEAN
  BY TypedFact DEF TypesInv, GateTypeOK, TypeOK
<1>1. process = "box"
  BY DEF BoxScripts, Script
<1>2. ASSUME NEW part, NEW f, NEW outcomes,
             \A o \in outcomes : Rooted(o.file),
             Script("box", part, UnlessDone(f, outcomes))
      PROVE  Goal
  <2>1. \A o \in UnlessDone(f, outcomes) : Rooted(o.file)
    BY <1>0, <1>2 DEF UnlessDone, Good
  <2>2. \E o \in UnlessDone(f, outcomes) : file' = o.file /\ ok' = (ok /\ o.ok)
    BY <1>2 DEF Script
  <2>3. Rooted(file') /\ ok' \in BOOLEAN
    BY <1>0, <2>1, <2>2
  <2>4. litter' \in BOOLEAN
    BY <1>2, <1>0 DEF Script
  <2> QED BY <1>1, <1>2, <2>3, <2>4 DEF Script
<1> HIDE DEF Goal
<1>3. ASSUME NEW f, NEW states \in SUBSET {"torn", "unchecked", "whole"},
             NEW outcomes, outcomes \subseteq Raises \cup Saves(f, states)
      PROVE  \A o \in outcomes : Rooted(o.file)
  BY <1>1, <1>3, SavesTyped
<1> DEFINE whole == Made("whole")
           torn == Made("torn")
<1>4. whole \in Contents /\ torn \in Contents
  BY <1>1, MadeTyped
<1>5. CASE Script("box", "boxfp32", UnlessDone("boxfp32", ExportBackbone("boxfp32")))
  <2>1. ExportBackbone("boxfp32") \subseteq Raises \cup Saves("boxfp32", {"torn", "whole"})
    BY DEF ExportBackbone
  <2> QED BY <1>2, <1>3, <1>5, <2>1
<1>6. CASE Script("box", "boxsimple", UnlessDone("boxsimple", SimplifyBackbone("boxfp32", "boxsimple")))
  <2>1. SimplifyBackbone("boxfp32", "boxsimple") \subseteq
          Raises \cup Saves("boxsimple", {"torn", "unchecked", "whole"})
    BY DEF SimplifyBackbone
  <2> QED BY <1>2, <1>3, <1>6, <2>1
<1>7. CASE Script("box", "boxtuned", UnlessDone("boxtuned", CompileBackbone("boxsimple", "boxtuned")))
  <2>1. CompileBackbone("boxsimple", "boxtuned") \subseteq
          Raises \cup Saves("boxtuned", {"torn", "whole"})
    BY DEF CompileBackbone
  <2> QED BY <1>2, <1>3, <1>7, <2>1
<1>8. CASE Script("box", "modules", UnlessDone("sentinel", ExportTracker))
  <2> DEFINE begun == [file EXCEPT !["sentinel"] = whole]
             With(c) == [begun EXCEPT !["modules"] = c]
  <2> HIDE DEF whole, torn
  <2>1. Rooted(begun)
    BY <1>0, <1>4, PutTyped
  <2> HIDE DEF begun
  <2>2. Rooted(With(whole)) /\ Rooted(With(torn))
    BY <1>4, <2>1, PutTyped
  <2>3. ExportTracker \subseteq {Bad(file), Bad(begun), Bad(With(torn)), Good(With(whole))}
    BY DEF ExportTracker, Raises, begun, whole, torn
  <2> HIDE DEF With
  <2>4. \A o \in ExportTracker : Rooted(o.file)
    BY <1>0, <2>1, <2>2, <2>3 DEF Good, Bad
  <2> QED BY <1>2, <1>8, <2>4
<1>9. CASE Script("box", "warm", UnlessDone("warm", PrewarmBox))
  <2>1. \A c \in Spared("warm") \cup Spared("caches") : c \in Contents \cup {None}
    <3>1. file["warm"] \in Contents \cup {None} /\ file["caches"] \in Contents \cup {None}
      BY <1>0, AllNames DEF Rooted
    <3> QED BY <1>4, <3>1 DEF Spared
  <2>2. ASSUME NEW w \in Spared("warm"), NEW c \in Spared("caches")
        PROVE  Rooted([file EXCEPT !["warm"] = w, !["caches"] = c])
    <3> DEFINE warmed == [file EXCEPT !["warm"] = w]
    <3>1. Rooted(warmed)
      BY <1>0, <2>1, PutTyped
    <3> HIDE DEF warmed
    <3>2. Rooted([warmed EXCEPT !["caches"] = c])
      BY <2>1, <3>1, PutTyped
    <3> QED BY <3>2 DEF warmed
  <2>3. \A o \in PrewarmBox : Rooted(o.file)
    BY <1>0, <2>2 DEF PrewarmBox, Raises, Good, Bad
  <2> QED BY <1>2, <1>9, <2>3
<1> QED BY <1>5, <1>6, <1>7, <1>8, <1>9 DEF BoxScripts

(* The steps of the build keep the types.                                  *)
LEMMA ClearedTyped ==
  ASSUME TypesInv, NEW fs PROVE Rooted(Without(fs))
  BY TypedFact DEF Without, Rooted

LEMMA JoinedFact ==
  ASSUME NEW S, NEW s \in Seq(S), NEW t \in Seq(S)
  PROVE  /\ Len(s \o t) = Len(s) + Len(t)
         /\ \A i \in 1..Len(s) : (s \o t)[i] = s[i]
<1>1. Len(s) \in Nat /\ Len(t) \in Nat
  BY LenProperties
<1> QED BY <1>1, ConcatProperties

LEMMA PlansFact ==
  ASSUME NEW r, NEW h
  PROVE  /\ BoxPlan(r) \in Seq(ScriptNames) /\ TextPlan(r, h) \in Seq(ScriptNames)
         /\ "all" \in r.steps =>
              /\ TextPlan(r, h) # <<>> /\ Head(TextPlan(r, h)) = "fp32"
              /\ \E n \in 1..Len(TextPlan(r, h)) : TextPlan(r, h)[n] = "smoke"
         /\ r.steps = {"manifest"} => TextPlan(r, h) = <<"manifest">>
<1> DEFINE a == Plan(r, "backbone", <<"fp32", "simple", "tuned", "gpuio">>)
           b == Plan(r, "detr_encoder", <<"encoder">>)
           c == Plan(r, "memory_attention", <<"graph", "memory">>)
           d == Plan(r, "fixed_decoder", <<"fixed", "decoder">>)
           e == Plan(r, "prewarm", <<"smoke">>)
           m == IF h \/ r.steps \cap {"all", "manifest", "prewarm"} # {}
                  THEN <<"manifest">> ELSE <<>>
           before == a \o b \o c \o d
<1>0. ASSUME NEW step, NEW scripts \in Seq(ScriptNames) PROVE Plan(r, step, scripts) \in Seq(ScriptNames)
  BY EmptySeq DEF Plan
<1>t. /\ <<"modules">> \in Seq(ScriptNames) /\ <<"warm">> \in Seq(ScriptNames)
      /\ <<"encoder">> \in Seq(ScriptNames) /\ <<"smoke">> \in Seq(ScriptNames)
      /\ <<"manifest">> \in Seq(ScriptNames)
  BY DEF ScriptNames
<1>u. <<"boxfp32", "boxsimple", "boxtuned">> \in Seq(ScriptNames)
  BY DEF ScriptNames
<1>v. <<"fp32", "simple", "tuned", "gpuio">> \in Seq(ScriptNames)
  BY DEF ScriptNames
<1>w. <<"graph", "memory">> \in Seq(ScriptNames) /\ <<"fixed", "decoder">> \in Seq(ScriptNames)
  BY DEF ScriptNames
<1>1. /\ a \in Seq(ScriptNames) /\ b \in Seq(ScriptNames) /\ c \in Seq(ScriptNames) /\ d \in Seq(ScriptNames)
      /\ e \in Seq(ScriptNames) /\ m \in Seq(ScriptNames)
  BY <1>0, <1>t, <1>v, <1>w, EmptySeq
<1>2. /\ "all" \in r.steps => a # <<>> /\ a[1] = "fp32" /\ e = <<"smoke">>
      /\ r.steps = {"manifest"} =>
           a = <<>> /\ b = <<>> /\ c = <<>> /\ d = <<>> /\ e = <<>> /\ m = <<"manifest">>
  BY DEF Plan
<1>3. TextPlan(r, h) = before \o e \o m
  BY DEF TextPlan
<1>4. BoxPlan(r) \in Seq(ScriptNames)
  <2>1. /\ Plan(r, "tracker_modules", <<"modules">>) \in Seq(ScriptNames)
        /\ Plan(r, "backbone", <<"boxfp32", "boxsimple", "boxtuned">>) \in Seq(ScriptNames)
        /\ Plan(r, "prewarm", <<"warm">>) \in Seq(ScriptNames)
    BY <1>0, <1>t, <1>u
  <2> QED BY <2>1, ConcatProperties DEF BoxPlan
<1> HIDE DEF a, b, c, d, e, m
<1>5. a \o b \in Seq(ScriptNames) /\ a \o b \o c \in Seq(ScriptNames) /\ before \in Seq(ScriptNames)
      /\ before \o e \in Seq(ScriptNames) /\ before \o e \o m \in Seq(ScriptNames)
  BY <1>1, ConcatProperties
<1>6. ASSUME "all" \in r.steps
      PROVE  /\ TextPlan(r, h) # <<>> /\ Head(TextPlan(r, h)) = "fp32"
             /\ \E n \in 1..Len(TextPlan(r, h)) : TextPlan(r, h)[n] = "smoke"
  <2>1. ASSUME NEW s \in Seq(ScriptNames), NEW t \in Seq(ScriptNames), s # <<>>, s[1] = "fp32"
        PROVE  s \o t # <<>> /\ (s \o t)[1] = "fp32"
    BY <2>1
  <2>2. a \o b # <<>> /\ (a \o b)[1] = "fp32"
    BY <1>1, <1>2, <1>6, <2>1
  <2>3. a \o b \o c # <<>> /\ (a \o b \o c)[1] = "fp32"
    BY <1>1, <1>5, <2>1, <2>2
  <2>4. before # <<>> /\ before[1] = "fp32"
    BY <1>1, <1>5, <2>1, <2>3
  <2> HIDE DEF before
  <2>5. before \o e # <<>> /\ (before \o e)[1] = "fp32"
    BY <1>1, <1>5, <2>1, <2>4
  <2>6. before \o e \o m # <<>> /\ (before \o e \o m)[1] = "fp32"
    BY <1>1, <1>5, <2>1, <2>5
  <2>7. Len(before \o e) = Len(before) + 1 /\ (before \o e)[Len(before) + 1] = "smoke"
    <3>1. e = <<"smoke">> /\ before \in Seq(ScriptNames)
      BY <1>2, <1>5, <1>6
    <3> QED BY <3>1
  <2>8. /\ Len(before) + 1 \in 1..Len(before \o e \o m)
        /\ (before \o e \o m)[Len(before) + 1] = "smoke"
    <3>1. Len(before) \in Nat /\ Len(m) \in Nat
      BY <1>1, <1>5
    <3> DEFINE front == before \o e
    <3>2. front \in Seq(ScriptNames) /\ Len(front) = Len(before) + 1
          /\ front[Len(before) + 1] = "smoke"
      BY <1>5, <2>7
    <3> HIDE DEF front
    <3>3. /\ Len(front \o m) = Len(front) + Len(m)
          /\ \A i \in 1..Len(front) : (front \o m)[i] = front[i]
      BY <1>1, <3>2, JoinedFact
    <3>4. /\ Len(before) + 1 \in 1..Len(front \o m)
          /\ (front \o m)[Len(before) + 1] = "smoke"
      BY <3>1, <3>2, <3>3
    <3> QED BY <3>4 DEF front
  <2> QED BY <1>3, <1>5, <2>6, <2>8
<1>7. ASSUME r.steps = {"manifest"} PROVE TextPlan(r, h) = <<"manifest">>
  <2>1. <<>> \o <<>> = <<>> /\ <<>> \o <<"manifest">> = <<"manifest">>
    BY ConcatEmptySeq
  <2> QED BY <1>2, <1>3, <1>7, <2>1
<1> QED BY <1>3, <1>4, <1>5, <1>6, <1>7

LEMMA BuildTyped ==
  ASSUME TypesInv, FilesInv, BuildWorks \/ \E r \in Commands : Started(r)
  PROVE  TypeOK' /\ CommandTyped'
<1> DEFINE Goal == TypeOK' /\ CommandTyped'
<1>0. TypeOK /\ CommandTyped
  BY DEF TypesInv, GateTypeOK
<1>s. todo \in Seq(ScriptNames) /\ <<>> \in Seq(ScriptNames) /\ (todo # <<>> => Tail(todo) \in Seq(ScriptNames))
  BY <1>0 DEF CommandTyped
<1>1. ASSUME NEW r \in Commands, Started(r) PROVE Goal
  <2>1. /\ UNCHANGED <<rootVars, sourceVars>> /\ run' = run + 1 /\ run < MaxRuns
        /\ request' = r /\ claim' = Identity(tree) /\ report' = None /\ ok' = TRUE
        /\ process' \in {"box", "launch"} /\ todo' \in {BoxPlan(r), <<>>}
    BY <1>1 DEF Started
  <2>3. todo' \in Seq(ScriptNames)
    BY <1>s, <2>1, PlansFact
  <2>2. run' \in 1..MaxRuns /\ run' \in 0..MaxRuns /\ claim' \in Identities
    BY <2>1, TypedFact
  <2> QED BY <1>0, <2>1, <2>2, <2>3 DEF TypeOK, CommandTyped, rootVars, sourceVars
<1>2. ASSUME BoxScripts PROVE Goal
  <2>1. /\ Rooted(file') /\ ok' \in BOOLEAN /\ litter' \in BOOLEAN
        /\ UNCHANGED <<run, request, claim, process, report, provenance, manifest, sourceVars>>
    BY <1>2, BoxScriptsTyped
  <2>2. todo # <<>> /\ todo' \in {Tail(todo), <<>>}
    BY <1>2 DEF BoxScripts, Script
  <2> QED BY <1>0, <1>s, <2>1, <2>2 DEF TypeOK, CommandTyped, Rooted, sourceVars
<1>3. ASSUME TextScripts PROVE Goal
  <2>1. process = "text" /\ todo # <<>> /\ \E o \in TextOutcomes : Ended(o)
    BY <1>3, TextScriptOutcome
  <2>2. Rooted(file') /\ ok' \in BOOLEAN /\ todo' \in Seq(ScriptNames)
    BY <1>0, <1>s, <2>1, TextOutcomesTyped DEF Ended
  <2>3. /\ UNCHANGED <<run, request, claim, process, report, provenance, manifest, sourceVars>>
        /\ litter' = (litter \/ process = "box")
    BY <1>3 DEF TextScripts, Script
  <2>4. litter' \in BOOLEAN
    BY <2>3
  <2> QED BY <1>0, <2>2, <2>3, <2>4 DEF TypeOK, CommandTyped, Rooted, sourceVars
<1>4. ASSUME Finished \/ Killed \/ Refuses PROVE Goal
  <2>1. /\ UNCHANGED <<run, request, claim, rootVars, sourceVars>>
        /\ process' \in {"none", "launch", "text"} /\ ok' \in BOOLEAN
        /\ report' \in BOOLEAN \cup {None}
        /\ process' # "none" => process # "none"
        /\ todo' \in {todo, <<>>}
    BY <1>0, <1>4 DEF Finished, Killed, Refuses, TypeOK
  <2> QED BY <1>0, <1>s, <2>1 DEF TypeOK, CommandTyped, rootVars, sourceVars
<1>5. ASSUME WriteManifest PROVE Goal
  <2>1. /\ UNCHANGED <<run, request, claim, process, report, file, provenance, litter, sourceVars>>
        /\ process = "text" /\ todo' = <<>>
    BY <1>5 DEF WriteManifest
  <2>2. claim \in Identities
    BY <1>0, <2>1 DEF CommandTyped
  <2>3. manifest' \in Manifests \cup {None}
    BY <1>5, <2>2, WrittenFact, TypedFact DEF WriteManifest
  <2>4. ok' \in BOOLEAN
    BY <1>5 DEF WriteManifest
  <2> QED BY <1>0, <1>s, <2>1, <2>3, <2>4 DEF TypeOK, CommandTyped, sourceVars
<1>6. ASSUME Prepare \/ PrepareCut PROVE Goal
  <2>1. /\ UNCHANGED <<run, request, claim, ok, report, sourceVars>> /\ process = "launch"
        /\ process' \in {"text", "none"} /\ litter' \in BOOLEAN
        /\ provenance' \in {claim, provenance, None}
        /\ manifest' \in Remnants
        /\ todo' \in {<<>>, TextPlan(request, manifest # None)}
    BY <1>0, <1>6 DEF Prepare, PrepareCut, Accepts, Admitted, TypeOK, Remnants
  <2>2. manifest' \in Manifests \cup {None}
    BY <2>1, TypedFact DEF Remnants, Manifests
  <2>3. \E fs : file' = Without(fs)
    BY <1>6 DEF Prepare, PrepareCut, Cleared
  <2>4. Rooted(file')
    BY <2>3, ClearedTyped
  <2>5. provenance' \in Identities \cup {None}
    BY <1>0, <2>1, TypedFact DEF TypeOK
  <2>6. todo' \in Seq(ScriptNames)
    BY <1>s, <2>1, PlansFact
  <2> QED BY <1>0, <2>1, <2>2, <2>4, <2>5, <2>6 DEF TypeOK, CommandTyped, Rooted, sourceVars
<1>7. ASSUME ChangeSource PROVE Goal
  <2>1. /\ UNCHANGED <<rootVars, runVars>> /\ tree' \in Trees /\ changes' = changes + 1
        /\ changes < MaxChanges /\ raced' = (raced \/ process # "none")
    BY <1>7 DEF ChangeSource
  <2>2. changes' \in 0..MaxChanges
    BY <1>0, <2>1, BuildAssumption DEF TypeOK
  <2>3. raced' \in BOOLEAN
    BY <2>1
  <2> QED BY <1>0, <2>1, <2>2, <2>3 DEF TypeOK, CommandTyped, rootVars, runVars
<1>8. ASSUME UNCHANGED buildVars PROVE Goal
  BY <1>0, <1>8 DEF TypeOK, CommandTyped, buildVars, rootVars, runVars, sourceVars
<1> HIDE DEF Goal
<1>9. Goal
  BY <1>1, <1>2, <1>3, <1>4, <1>5, <1>6, <1>7, <1>8 DEF BuildWorks
<1> QED BY <1>9 DEF Goal

LEMMA TypesStep ==
  ASSUME TypesInv, FilesInv, RunnerAgrees, [GateNext]_vars
  PROVE  TypesInv'
<1>1. TypeOK' /\ CommandTyped'
  <2>1. CASE BuildWorks \/ \E r \in Commands : Started(r)
    BY <2>1, BuildTyped
  <2>2. CASE RunnerRefreshes
    <3>1. UNCHANGED <<file, provenance, litter, runVars, sourceVars>>
          /\ manifest' \in Manifests \cup {None}
      BY <2>2, RefreshFact, TypedFact
    <3> QED BY <3>1 DEF TypesInv, GateTypeOK, TypeOK, CommandTyped, runVars, sourceVars
  <2> QED BY <2>1, <2>2, GateMoves
<1> DEFINE Typed == /\ runner' \in {"off", "build", "smoke", "refresh", "strict"}
                    /\ gate' \in Judging \cup {"off", "failed"}
                    /\ gateTree' \in Trees \cup {None} /\ returned' \in BOOLEAN
                    /\ evidence' \subseteq Trees
<1>0. /\ runner \in {"off", "build", "smoke", "refresh", "strict"}
      /\ gate \in Judging \cup {"off", "failed"}
      /\ gateTree \in Trees \cup {None} /\ returned \in BOOLEAN /\ evidence \subseteq Trees
      /\ tree \in Trees
  BY StagesFact DEF TypesInv, GateTypeOK, TypeOK, GateRuns, Judging, Early, Late
<1>3. ASSUME NEW p, RunnerEnds(p), UNCHANGED <<gateTree, returned, evidence>> PROVE Typed
  BY <1>0, <1>3 DEF RunnerEnds, Judging, Early, Late
<1>4. ASSUME Command PROVE Typed
  BY <1>0, <1>4 DEF Command
<1>5. ASSUME BuildStep \/ UNCHANGED vars PROVE Typed
  BY <1>0, <1>5 DEF BuildStep, vars, gateVars
<1>6. ASSUME SourceChange PROVE Typed
  <2>1. UNCHANGED <<runner, gate, gateTree, evidence>>
        /\ returned' = (returned \/ (GateRuns /\ tree' = gateTree))
    BY <1>6 DEF SourceChange
  <2>2. returned' \in BOOLEAN
    BY <2>1
  <2> QED BY <1>0, <2>1, <2>2
<1>7. ASSUME RunnerBuilds PROVE Typed
  BY <1>0, <1>7 DEF RunnerBuilds, Judging, Early, Late
<1>8. ASSUME RunnerBuilt PROVE Typed
  BY <1>0, <1>3, <1>8 DEF RunnerBuilt, RunnerGoes
<1>9. ASSUME RunnerSmokes PROVE Typed
  BY <1>0, <1>3, <1>9 DEF RunnerSmokes, RunnerGoes
<1>10. ASSUME RunnerRefreshes PROVE Typed
  BY <1>0, <1>3, <1>10 DEF RunnerRefreshes, RunnerGoes
<1>11. ASSUME RunnerPasses PROVE Typed
  BY <1>0, <1>3, <1>11 DEF RunnerPasses
<1>12. ASSUME Gate PROVE Typed
  BY <1>0, <1>12 DEF Gate, Preflight, AssertSource, Tests, VerifyManifest, Measure,
     Summarize, GateStopped, Moves, Judged, Keeps, Judging, Early, Late
<1>13. Typed
  BY <1>4, <1>5, <1>6, <1>7, <1>8, <1>9, <1>10, <1>11, <1>12 DEF GateNext
<1> QED BY <1>1, <1>13, StagesFact DEF TypesInv, GateTypeOK, GateRuns, Judging, Early, Late

(* What a text script makes that succeeds.                                 *)
LEMMA GoodOutcome ==
  ASSUME FilesInv, NEW o \in TextOutcomes, o.ok, NEW f \in TextFiles
  PROVE  \/ o.file[f] = file[f] \/ o.file[f] = Made("whole")
         \/ f = "policy" /\ o.file[f] = file["graph"] /\ file["graph"] # None
<1> DEFINE whole == Made("whole")
           Goal(fs) == \/ fs[f] = file[f] \/ fs[f] = whole
                       \/ f = "policy" /\ fs[f] = file["graph"] /\ file["graph"] # None
<1>0. f \in Files /\ (\A g \in Files : file = [file EXCEPT ![g] = file[g]])
      /\ file = [g \in Files |-> file[g]]
  BY FilesFact DEF FilesInv, IsRoot
<1>1. \A x : Good(x).file = x /\ Good(x).ok = TRUE /\ Bad(x).ok = FALSE
  BY DEF Good, Bad
<1>2. Goal(file)
  OBVIOUS
<1>3. CASE o \in Recompiled
  <2> DEFINE cleared == Without({"memory", "policy"})
             With(c) == [cleared EXCEPT !["memory"] = c]
             verified == [With(whole) EXCEPT !["policy"] = file["graph"]]
  <2>1. o = Good(verified) /\ file["graph"] # None
    BY <1>1, <1>3 DEF Recompiled, Loads
  <2>2. verified[f] = IF f = "policy" THEN file["graph"] ELSE IF f = "memory" THEN whole ELSE file[f]
    BY <1>0 DEF Without
  <2> HIDE DEF verified
  <2> QED BY <1>1, <2>1, <2>2
<1>4. CASE o \in CompileMemory
  <2>1. o \in Recompiled \/ o = Bad(file) \/ o = Good(file)
    BY <1>4 DEF CompileMemory, Raises
  <2> QED BY <1>1, <1>2, <1>3, <2>1
<1>5. CASE o \in CompileFixed
  <2> DEFINE decoder == [file EXCEPT !["decoder"] = whole]
             checked == [decoder EXCEPT !["sidecar"] = decoder["decoder"]]
  <2>1. o = Good(checked)
    BY <1>1, <1>5 DEF CompileFixed, Raises
  <2>2. checked[f] = IF f \in {"decoder", "sidecar"} THEN whole ELSE file[f]
    BY <1>0, AllNames
  <2> HIDE DEF checked
  <2> QED BY <1>1, <2>1, <2>2
<1>6. CASE o \in Smoke
  <2> DEFINE With(c) == [file EXCEPT !["ortcache"] = c]
  <2>1. o = Good(file) \/ o = Good(With(whole))
    BY <1>1, <1>6 DEF Smoke, Raises
  <2>2. With(whole)[f] = IF f = "ortcache" THEN whole ELSE file[f]
    BY <1>0
  <2> HIDE DEF With
  <2> QED BY <1>1, <1>2, <2>1, <2>2
<1>7. ASSUME NEW g, o \in Saves(g, {"torn", "unchecked", "whole"}) PROVE Goal(o.file)
  <2>1. PICK s : o = [file |-> [file EXCEPT ![g] = Made(s)], ok |-> s = "whole"]
    BY <1>7 DEF Saves, SavesTo
  <2>2. s = "whole"
    BY <2>1
  <2>3. o.file = [file EXCEPT ![g] = whole]
    BY <2>1, <2>2
  <2> QED BY <1>0, <2>3
<1>8. CASE o = Good(file) \/ o \in Raises
  BY <1>1, <1>2, <1>8 DEF Raises
<1>9. ASSUME NEW raw, NEW g, NEW last, Writes(o, raw, g, last) PROVE Goal(o.file)
  <2>1. ASSUME NEW fs, IsRoot(fs), Goal(fs), NEW h
        PROVE  IsRoot(Put(fs, h, "whole")) /\ Goal(Put(fs, h, "whole"))
    BY <1>0, <2>1 DEF Put, IsRoot
  <2>2. \/ o.file = Put(Put(file, raw, "whole"), g, "whole")
        \/ o.file = Put(Put(Put(file, raw, "whole"), g, "whole"), last, "whole")
    BY <1>9 DEF Writes
  <2>3. IsRoot(file)
    BY DEF FilesInv
  <2> HIDE DEF Goal
  <2> QED BY <1>2, <2>1, <2>2, <2>3
<1>10. CASE o \in ExportEncoder \cup ExportFixed
  BY <1>9, <1>10, ExportFact
<1> QED BY <1>3, <1>4, <1>5, <1>6, <1>7, <1>8, <1>10 DEF TextOutcomes

LEMMA TextScriptMakes ==
  ASSUME FilesInv, TextScripts, ok'
  PROVE  /\ Head(todo) = "fp32" => file'["fp32"] # None
         /\ Head(todo) = "smoke" => file'["ortcache"] # None
         /\ Head(todo) # "manifest"
<1>0. \A x : Good(x).file = x /\ Bad(x).ok = FALSE
  BY DEF Good, Bad
<1>1. Made("whole") # None
  BY MadeFact
<1>2. CASE Script("text", "fp32", UnlessDone("fp32", ExportBackbone("fp32")))
  <2>1. PICK o \in UnlessDone("fp32", ExportBackbone("fp32")) :
          file' = o.file /\ ok' = (ok /\ o.ok) /\ Head(todo) = "fp32"
    BY <1>2 DEF Script
  <2>2. o.ok
    BY <2>1
  <2>3. CASE Skipped("fp32")
    BY <1>0, <2>1, <2>3 DEF Skipped, UnlessDone
  <2>4. CASE ~Skipped("fp32")
    <3>1. PICK s \in {"torn", "whole"} :
            o = [file |-> [file EXCEPT !["fp32"] = Made(s)], ok |-> s = "whole"]
      BY <1>0, <2>1, <2>2, <2>4 DEF UnlessDone, ExportBackbone, Raises, Saves, SavesTo
    <3>2. file' = [file EXCEPT !["fp32"] = Made("whole")]
      BY <2>1, <2>2, <3>1
    <3> QED BY <1>1, <2>1, <3>2, AllNames DEF FilesInv, IsRoot
  <2> QED BY <2>1, <2>3, <2>4
<1>3. CASE Script("text", "smoke", Smoke)
  <2>1. PICK o \in Smoke : file' = o.file /\ ok' = (ok /\ o.ok) /\ Head(todo) = "smoke"
    BY <1>3 DEF Script
  <2>2. o.ok
    BY <2>1
  <2>3. o = Good(IF file["ortcache"] # None THEN file
                 ELSE [file EXCEPT !["ortcache"] = Made("whole")])
    BY <1>0, <2>2 DEF Smoke, Raises
  <2> QED BY <1>0, <1>1, <2>1, <2>3, AllNames DEF FilesInv, IsRoot
<1>4. \/ Head(todo) \notin {"fp32", "smoke", "manifest"}
      \/ Script("text", "fp32", UnlessDone("fp32", ExportBackbone("fp32")))
      \/ Script("text", "smoke", Smoke)
  BY DEF TextScripts, Script
<1> QED BY <1>2, <1>3, <1>4

-----------------------------------------------------------------------------
(* The manifest.                                                           *)
LEMMA ManifestStep ==
  ASSUME TypesInv, FilesInv, ManifestAgrees, BuildMoves \/ RunnerRefreshes
  PROVE  ManifestAgrees'
<1>0. ManifestHonest /\ (process = "text" => manifest = None \/ todo = <<>> \/ todo = <<"manifest">>)
  BY DEF ManifestAgrees
<1>n. TextFiles \subseteq Listed /\ IsRoot(file)
  BY DEF TextFiles, FilesInv
<1>k. ASSUME \A f \in TextFiles : file'[f] # None => file'[f] = file[f],
             manifest' = None \/ manifest' = manifest
             \/ (manifest # None /\ manifest' = [manifest EXCEPT !.complete = FALSE])
      PROVE  ManifestHonest'
  <2>1. ASSUME manifest # None, manifest' = [manifest EXCEPT !.complete = FALSE]
        PROVE  manifest'.listing = manifest.listing
    BY <2>1, TypedFact DEF Manifests
  <2> QED BY <1>0, <1>k, <2>1 DEF ManifestHonest
<1>l. ASSUME file' = file, manifest'.listing = Listing PROVE ManifestHonest'
  BY <1>l, <1>n DEF ManifestHonest, Listing
<1>1. CASE \E r : Started(r)
  <2>1. UNCHANGED <<file, manifest>> /\ process' # "text"
    BY <1>1 DEF Started, rootVars
  <2> QED BY <1>k, <2>1 DEF ManifestAgrees
<1>2. CASE BoxScripts
  <2>1. /\ process' = "box" /\ \A f \in TextFiles : file'[f] = file[f]
        /\ UNCHANGED manifest
    BY <1>2, <1>n, BoxScriptOutcome, BoxScriptsTyped
  <2> QED BY <1>k, <2>1 DEF ManifestAgrees
<1>3. CASE TextScripts
  <2>1. process = "text" /\ todo # <<>> /\ Head(todo) # "manifest" /\ UNCHANGED manifest
    BY <1>3 DEF TextScripts, Script
  <2>2. todo # <<"manifest">>
    BY <2>1
  <2> QED BY <1>0, <2>1, <2>2 DEF ManifestAgrees, ManifestHonest
<1>4. CASE Finished \/ Killed \/ Refuses
  <2>1. UNCHANGED <<file, manifest>> /\ (process' = "text" => todo' = <<>>)
    BY <1>4 DEF Finished, Killed, Refuses, rootVars
  <2> QED BY <1>k, <2>1 DEF ManifestAgrees
<1>5. CASE Prepare
  <2>1. /\ Cleared /\ manifest' = IF StaysValid THEN manifest ELSE None
        /\ todo' = TextPlan(request, manifest # None)
    BY <1>5 DEF Prepare
  <2>2. \A f \in TextFiles : file'[f] # None => file'[f] = file[f]
    BY <2>1, FilesFact DEF Cleared, Without
  <2>3. StaysValid => todo' = <<"manifest">>
    BY <2>1, PlansFact DEF StaysValid
  <2> QED BY <1>k, <2>1, <2>2, <2>3 DEF ManifestAgrees
<1>6. CASE PrepareCut
  <2>1. process' = "none" /\ manifest' \in Remnants
    BY <1>6 DEF PrepareCut, Remnants
  <2>2. \E fs : file' = Without(fs)
    BY <1>6 DEF PrepareCut, Cleared
  <2>3. \A f \in TextFiles : file'[f] # None => file'[f] = file[f]
    BY <2>2, FilesFact DEF Without
  <2> QED BY <1>k, <2>1, <2>3 DEF ManifestAgrees, Remnants
<1>7. CASE WriteManifest
  <2>1. UNCHANGED file /\ todo' = <<>> /\ (UNCHANGED manifest \/ WritesManifest(claim))
        /\ process = "text"
    BY <1>7 DEF WriteManifest
  <2>2. claim \in Identities
    BY <2>1 DEF TypesInv, CommandTyped
  <2> QED BY <1>k, <1>l, <2>1, <2>2, WrittenFact DEF ManifestAgrees
<1>8. CASE ChangeSource \/ UNCHANGED buildVars
  <2>1. UNCHANGED <<file, manifest, process, todo>>
    BY <1>8 DEF ChangeSource, buildVars, rootVars, runVars
  <2> QED BY <1>0, <1>k, <2>1 DEF ManifestAgrees
<1>9. CASE RunnerRefreshes
  <2>1. /\ UNCHANGED <<file, process>> /\ process = "none"
        /\ UNCHANGED manifest \/ manifest'.listing = Listing
    BY <1>9, RefreshFact DEF runVars
  <2> QED BY <1>k, <1>l, <2>1 DEF ManifestAgrees
<1> QED BY <1>1, <1>2, <1>3, <1>4, <1>5, <1>6, <1>7, <1>8, <1>9 DEF BuildMoves, BuildWorks

-----------------------------------------------------------------------------
(* The runner.                                                             *)
LEMMA TailFact ==
  ASSUME TypesInv, todo # <<>>, NEW n \in 1..Len(todo), todo[n] # Head(todo)
  PROVE  \E m \in 1..Len(Tail(todo)) : Tail(todo)[m] = todo[n]
<1>1. todo \in Seq(ScriptNames)
  BY DEF TypesInv, CommandTyped
<1>2. Len(todo) \in Nat /\ Head(todo) = todo[1] /\ n # 1
  BY <1>1
<1>3. /\ Len(Tail(todo)) = Len(todo) - 1
      /\ \A i \in 1..(Len(todo) - 1) : Tail(todo)[i] = todo[i + 1]
  BY <1>1, <1>2
<1>4. n - 1 \in 1..(Len(todo) - 1) /\ Tail(todo)[n - 1] = todo[n]
  BY <1>2, <1>3
<1> QED BY <1>3, <1>4

(* The build that the runner started.                                      *)
LEMMA RunnerBuildStep ==
  ASSUME TypesInv, FilesInv, RunnerAgrees, BuildStep, runner = "build"
  PROVE  RunnerAgrees'
<1>0. /\ request = RunnerRequest /\ process \in {"none", "launch", "text"}
      /\ process # "none" => report = None
      /\ process = "text" /\ ok => CachePending
      /\ runner' = "build"
  BY DEF RunnerAgrees, BuildStep, gateVars
<1> DEFINE Goal == /\ request' = RunnerRequest /\ process' \in {"none", "launch", "text"}
                   /\ process' # "none" => report' = None
                   /\ process' = "text" /\ ok' => CachePending'
                   /\ report' = TRUE => HasCache'
<1>1. None # TRUE
  BY BuildAssumption
<1>2. ASSUME TextScripts PROVE Goal
  <2>1. /\ process = "text" /\ todo # <<>> /\ \E o \in TextOutcomes : Ended(o)
        /\ UNCHANGED <<request, process, report>>
    BY <1>2, TextScriptOutcome DEF TextScripts, Script
  <2>2. ASSUME ok' PROVE CachePending'
    <3>1. PICK o \in TextOutcomes : Ended(o) /\ o.ok /\ ok
      BY <2>1, <2>2 DEF Ended
    <3>2. todo' = Tail(todo) /\ file' = o.file
      BY <3>1 DEF Ended
    <3>3. CASE HasCache
      <4>1. o.file["ortcache"] = file["ortcache"] \/ o.file["ortcache"] = Made("whole")
        BY <3>1, GoodOutcome, NamesFact
      <4> QED BY <3>2, <3>3, <4>1, MadeFact DEF HasCache, CachePending
    <3>4. CASE \E n \in 1..Len(todo) : todo[n] = "smoke"
      <4>1. CASE Head(todo) = "smoke"
        BY <1>2, <2>2, <4>1, TextScriptMakes DEF CachePending, HasCache
      <4>2. CASE Head(todo) # "smoke"
        BY <2>1, <3>2, <3>4, <4>2, TailFact DEF CachePending
      <4> QED BY <4>1, <4>2
    <3> QED BY <1>0, <2>1, <3>1, <3>3, <3>4 DEF CachePending
  <2> QED BY <1>0, <1>1, <2>1, <2>2
<1>3. ASSUME Finished PROVE Goal
  <2>1. /\ process = "text" /\ todo = <<>> /\ process' = "none" /\ report' = ok
        /\ UNCHANGED <<request, todo, ok, file>>
    BY <1>0, <1>3 DEF Finished, rootVars
  <2>2. ok => HasCache
    BY <1>0, <2>1 DEF CachePending
  <2> QED BY <1>0, <2>1, <2>2 DEF HasCache
<1>4. ASSUME Killed PROVE Goal
  <2>1. process # "none" /\ process' = "none" /\ UNCHANGED <<request, report>>
    BY <1>4 DEF Killed
  <2> QED BY <1>0, <1>1, <2>1
<1>5. ASSUME Refuses PROVE Goal
  <2>1. /\ process = "launch" /\ process' = "text" /\ ok' = FALSE
        /\ UNCHANGED <<request, report>>
    BY <1>5 DEF Refuses
  <2> QED BY <1>0, <1>1, <2>1
<1>6. ASSUME Prepare PROVE Goal
  <2>1. /\ process = "launch" /\ process' = "text" /\ UNCHANGED <<request, report>>
        /\ todo' = TextPlan(request, manifest # None)
    BY <1>6 DEF Prepare, Accepts, Admitted
  <2>2. "all" \in request.steps
    BY <1>0 DEF RunnerRequest
  <2> QED BY <1>0, <1>1, <2>1, <2>2, PlansFact DEF CachePending
<1>7. ASSUME PrepareCut PROVE Goal
  <2>1. process = "launch" /\ process' = "none" /\ UNCHANGED <<request, report>>
    BY <1>7 DEF PrepareCut, Accepts, Admitted
  <2> QED BY <1>0, <1>1, <2>1
<1>8. ASSUME WriteManifest PROVE Goal
  <2>1. process = "text" /\ UNCHANGED <<process, request, report, file>>
    BY <1>8 DEF WriteManifest
  <2>2. ok' => Complete
    BY <1>8 DEF WriteManifest, WritesManifest
  <2>3. Complete => HasCache
    BY NamesFact DEF Complete, HasCache, Intermediates
  <2> QED BY <1>0, <1>1, <2>1, <2>2, <2>3 DEF CachePending, HasCache
<1>9. ~BoxScripts
  BY <1>0 DEF BoxScripts, Script
<1> HIDE DEF Goal
<1>10. Goal
  BY <1>2, <1>3, <1>4, <1>5, <1>6, <1>7, <1>8, <1>9 DEF BuildStep
<1> QED BY <1>0, <1>10 DEF RunnerAgrees, Goal

LEMMA RunnerStep ==
  ASSUME TypesInv, FilesInv, RunnerAgrees, [GateNext]_vars
  PROVE  RunnerAgrees'
<1>1. CASE BuildStep
  <2>1. process # "none" /\ UNCHANGED runner
    BY <1>1 DEF BuildStep, BoxScripts, TextScripts, Script, Finished, Killed, Refuses, Prepare,
       PrepareCut, Accepts, Admitted, WriteManifest, gateVars
  <2>2. CASE runner = "build"
    BY <1>1, <2>2, RunnerBuildStep
  <2>3. CASE runner # "build"
    BY <2>1, <2>3 DEF RunnerAgrees
  <2> QED BY <2>2, <2>3
<1>2. CASE Command
  BY <1>2 DEF Command, RunnerAgrees
<1>3. CASE RunnerBuilds
  <2>1. /\ runner' = "build" /\ request' = RunnerRequest /\ report' = None
        /\ process' = "launch"
    BY <1>3 DEF RunnerBuilds, Started, RunnerRequest
  <2>2. None # TRUE
    BY BuildAssumption
  <2> QED BY <2>1, <2>2 DEF RunnerAgrees
<1>4. CASE RunnerBuilt
  <2>1. /\ runner = "build" /\ process = "none" /\ UNCHANGED <<process, file>>
        /\ runner' = "off" \/ (report = TRUE /\ runner' = "smoke")
    BY <1>4 DEF RunnerBuilt, RunnerGoes, RunnerEnds, runVars, rootVars
  <2> QED BY <2>1 DEF RunnerAgrees, HasCache
<1>5. CASE RunnerSmokes
  <2>1. UNCHANGED buildVars
    BY <1>5, SmokeKeeps
  <2>2. runner = "smoke" /\ runner' \in {"refresh", "off"}
    BY <1>5 DEF RunnerSmokes, RunnerGoes, RunnerEnds
  <2> QED BY <2>1, <2>2 DEF RunnerAgrees, HasCache, buildVars, rootVars, runVars
<1>6. CASE RunnerRefreshes
  <2>1. /\ runner = "refresh" /\ runner' \in {"strict", "off"} /\ UNCHANGED <<file, process>>
    BY <1>6 DEF RunnerRefreshes, RunnerGoes, RunnerEnds, runVars
  <2> QED BY <2>1 DEF RunnerAgrees, HasCache
<1>7. CASE RunnerPasses
  BY <1>7 DEF RunnerPasses, RunnerEnds, RunnerAgrees
<1>8. CASE SourceChange \/ UNCHANGED vars
  <2>1. UNCHANGED <<runner, file, process, report, request, todo, ok>>
    BY <1>8 DEF SourceChange, ChangeSource, vars, gateVars, buildVars, rootVars, runVars
  <2> QED BY <2>1 DEF RunnerAgrees, HasCache, CachePending
<1>9. CASE Gate
  <2>1. /\ UNCHANGED buildVars /\ runner' \in {runner, "off"}
    BY <1>9 DEF Gate, Preflight, AssertSource, Tests, VerifyManifest, Measure, Summarize,
                GateStopped, Moves, Judged, Keeps
  <2> QED BY <2>1 DEF RunnerAgrees, HasCache, CachePending, buildVars, rootVars, runVars
<1> QED BY <1>1, <1>2, <1>3, <1>4, <1>5, <1>6, <1>7, <1>8, <1>9 DEF GateNext

(* The gate's stages.                                                      *)
LEMMA RunsFact == (GateRuns <=> gate \in Judging \ {"passed"}) /\ (GateRuns' <=> gate' \in Judging \ {"passed"})
BY StagesFact DEF GateRuns, Judging, Early, Late

LEMMA BuildActs ==
  ASSUME BuildStep PROVE process # "none" /\ UNCHANGED <<gateVars, tree>>
BY DEF BuildStep, BoxScripts, TextScripts, Script, Finished, Killed, Refuses, Prepare,
       PrepareCut, Accepts, Admitted, WriteManifest, sourceVars

LEMMA StagesStep ==
  ASSUME TypesInv, FilesInv, RunnerAgrees, StagesAgree, [GateNext]_vars
  PROVE  StagesAgree'
<1> USE DEF Judging, Early, Late
<1>0. tree \in Trees
  BY TypedFact
<1>1. CASE BuildStep
  BY <1>1, BuildActs DEF StagesAgree, gateVars
<1>2. CASE Command
  BY <1>2 DEF Command, StagesAgree
<1>3. CASE RunnerBuilds
  BY <1>3 DEF RunnerBuilds, StagesAgree
<1>4. ASSUME NEW p, RunnerEnds(p), runner # "off", process' = "none", UNCHANGED <<gateTree>>
      PROVE  StagesAgree'
  BY <1>4 DEF RunnerEnds, StagesAgree
<1>5. CASE RunnerBuilt
  <2>1. /\ runner = "build" /\ process' = "none" /\ UNCHANGED gateTree
        /\ RunnerEnds(FALSE) \/ (runner' = "smoke" /\ UNCHANGED gate)
    BY <1>5 DEF RunnerBuilt, RunnerGoes, runVars
  <2> QED BY <1>4, <2>1 DEF StagesAgree
<1>6. CASE RunnerSmokes
  <2>1. /\ runner = "smoke" /\ process' = "none" /\ UNCHANGED gateTree
        /\ RunnerEnds(FALSE) \/ (runner' = "refresh" /\ UNCHANGED gate)
    BY <1>6 DEF RunnerSmokes, RunnerGoes, runVars
  <2> QED BY <1>4, <2>1 DEF StagesAgree
<1>7. CASE RunnerRefreshes
  <2>1. /\ runner = "refresh" /\ process' = "none" /\ UNCHANGED gateTree
        /\ RunnerEnds(FALSE) \/ (runner' = "strict" /\ UNCHANGED gate)
    BY <1>7 DEF RunnerRefreshes, RunnerGoes, runVars
  <2> QED BY <1>4, <2>1 DEF StagesAgree
<1>8. CASE RunnerPasses
  <2>1. /\ runner = "strict" /\ process = "none" /\ UNCHANGED <<gateTree, buildVars>>
        /\ \E p : RunnerEnds(p)
    BY <1>8 DEF RunnerPasses, RunnerAgrees
  <2> QED BY <1>4, <2>1 DEF buildVars, runVars
<1>9. CASE SourceChange \/ UNCHANGED vars
  <2>1. UNCHANGED <<runner, gate, gateTree, process, litter, provenance, manifest, file>>
    BY <1>9 DEF SourceChange, ChangeSource, vars, gateVars, buildVars, rootVars, runVars
  <2> QED BY <2>1 DEF StagesAgree, Populated
<1>10. CASE Preflight
  <2>1. /\ runner = "off" /\ process = "none" /\ tree.edit = 0 /\ ~Populated
        /\ gate' = "preflight" /\ gateTree' = tree /\ UNCHANGED <<runner, buildVars>>
    BY <1>10 DEF Preflight
  <2>2. ~Populated'
    BY <2>1 DEF Populated, buildVars, rootVars
  <2> QED BY <1>0, <2>1, <2>2 DEF StagesAgree, buildVars, runVars
<1>11. CASE Gate /\ ~Preflight
  <2>1. /\ UNCHANGED <<gateTree, buildVars>>
        /\ \/ gate' = "failed"
           \/ /\ gate \in Judging \ {"preflight", "clean-build"}
              /\ gate' \in Judging \ {"preflight", "clean-build"} /\ UNCHANGED runner
    BY <1>11 DEF Gate, AssertSource, Tests, VerifyManifest, Measure, Summarize,
                GateStopped, Moves, Judged, Keeps
  <2> QED BY <2>1 DEF StagesAgree, buildVars, runVars
<1> QED BY <1>1, <1>2, <1>3, <1>5, <1>6, <1>7, <1>8, <1>9, <1>10, <1>11 DEF GateNext, Gate

(* The clean build of the gate: what its command makes, from the checkout  *)
(* of the preflight.                                                       *)
LEMMA CleanBuildStep ==
  ASSUME TypesInv, FilesInv, RunnerAgrees, CleanBuildAgrees, BuildStep, runner = "build",
         tree = gateTree
  PROVE  CleanBuildAgrees'
<1>0. /\ request = RunnerRequest /\ (process # "none" => report = None)
      /\ process # "none" /\ runner' = "build" /\ UNCHANGED gateTree /\ None # TRUE
  BY BuildActs, BuildAssumption DEF RunnerAgrees, BuildStep, gateVars
<1>1. /\ process = "launch" => \A f \in Files : file[f] = None
      /\ process = "text" /\ ok =>
           Whole /\ (HasExport \/ (todo # <<>> /\ Head(todo) = "fp32"))
  BY DEF CleanBuildAgrees
<1> DEFINE Goal ==
         /\ process' = "launch" => \A f \in Files : file'[f] = None
         /\ process' = "text" /\ ok' =>
              Whole' /\ (HasExport' \/ (todo' # <<>> /\ Head(todo') = "fp32"))
         /\ report' = TRUE => Whole' /\ HasExport'
<1>k. UNCHANGED file => Whole' = Whole /\ HasExport' = HasExport
  BY <1>0 DEF Whole, HasExport
<1>2. ASSUME TextScripts PROVE Goal
  <2>1. /\ process = "text" /\ todo # <<>> /\ \E o \in TextOutcomes : Ended(o)
        /\ UNCHANGED <<process, report>>
    BY <1>2, TextScriptOutcome DEF TextScripts, Script
  <2>2. ASSUME ok' PROVE Whole' /\ HasExport'
    <3>1. PICK o \in TextOutcomes : o.ok /\ ok /\ file' = o.file
      BY <2>1, <2>2 DEF Ended
    <3>2. Whole /\ (HasExport \/ Head(todo) = "fp32")
      BY <1>1, <2>1, <3>1
    <3>3. \A f \in TextFiles :
            \/ file'[f] = file[f] \/ file'[f] = Made("whole")
            \/ file'[f] = file["graph"] /\ file["graph"] # None
      BY <3>1, GoodOutcome
    <3>4. Made("whole").state = "whole" /\ Made("whole").tree = gateTree
      BY DEF Made
    <3>5. Whole'
      BY <1>0, <3>2, <3>3, <3>4, NamesFact DEF Whole
    <3>6. HasExport'
      <4>1. file'["fp32"] = file["fp32"] \/ file'["fp32"] = Made("whole")
        BY <3>1, GoodOutcome, NamesFact
      <4>2. CASE HasExport
        BY <4>1, <4>2, MadeFact DEF HasExport
      <4>3. CASE Head(todo) = "fp32"
        BY <1>2, <2>2, <4>3, TextScriptMakes DEF HasExport
      <4> QED BY <3>2, <4>2, <4>3
    <3> QED BY <3>5, <3>6
  <2> QED BY <1>0, <2>1, <2>2
<1>3. ASSUME Finished PROVE Goal
  <2>1. /\ process = "text" /\ todo = <<>> /\ process' = "none" /\ report' = ok
        /\ UNCHANGED file
    BY <1>0, <1>3 DEF Finished, rootVars, RunnerRequest, RunnerAgrees
  <2> QED BY <1>1, <1>k, <2>1
<1>4. ASSUME Killed \/ PrepareCut PROVE Goal
  <2>1. process' = "none" /\ UNCHANGED report
    BY <1>4 DEF Killed, PrepareCut
  <2> QED BY <1>0, <2>1
<1>5. ASSUME Refuses PROVE Goal
  <2>1. process' = "text" /\ ok' = FALSE /\ UNCHANGED report
    BY <1>5 DEF Refuses
  <2> QED BY <1>0, <2>1
<1>6. ASSUME Prepare PROVE Goal
  <2>1. /\ process = "launch" /\ process' = "text" /\ UNCHANGED report
        /\ \E fs : file' = Without(fs)
        /\ todo' = TextPlan(request, manifest # None)
    BY <1>6 DEF Prepare, Accepts, Admitted, Cleared
  <2>2. \A f \in TextFiles : file'[f] = None
    BY <1>1, <2>1, FilesFact DEF Without
  <2>3. todo' # <<>> /\ Head(todo') = "fp32"
    BY <1>0, <2>1, PlansFact DEF RunnerRequest
  <2> QED BY <1>0, <2>1, <2>2, <2>3 DEF Whole
<1>7. ASSUME WriteManifest PROVE Goal
  <2>1. /\ process = "text" /\ Head(todo) = "manifest" /\ (ok' => ok)
        /\ UNCHANGED <<process, file, report>>
    BY <1>7 DEF WriteManifest
  <2> QED BY <1>0, <1>1, <1>k, <2>1
<1>8. ~BoxScripts
  BY <1>0 DEF BoxScripts, Script, RunnerAgrees
<1> HIDE DEF Goal
<1>9. Goal
  BY <1>2, <1>3, <1>4, <1>5, <1>6, <1>7, <1>8 DEF BuildStep
<1> QED BY <1>0, <1>9 DEF Goal, CleanBuildAgrees

(* What the gate relies on between its preflight and its verdict.          *)
LEMMA SameTree ==
  ASSUME TypesInv, gateTree \in Trees, gateTree.edit = 0, Identity(tree) = Identity(gateTree)
  PROVE  tree = gateTree
<1>1. tree \in Trees
  BY TypedFact
<1>2. tree.commit = gateTree.commit /\ (tree.edit # 0) = (gateTree.edit # 0)
  BY DEF Identity
<1> QED BY <1>1, <1>2 DEF Trees

LEMMA GateStep ==
  ASSUME TypesInv, FilesInv, RunnerAgrees, StagesAgree, ManifestAgrees, GateAgrees,
         [GateNext]_vars
  PROVE  GateAgrees'
<1> DEFINE Released == Whole /\ HasExport /\ Manifested
           Held == /\ gate = "clean-build" => CleanBuildAgrees
                   /\ gate \in Judging \ {"preflight", "clean-build"} => Released
                   /\ evidence = IF gate \in Early THEN {} ELSE {gateTree}
           Goal == Held'
<1> SUFFICES ASSUME gate' \in Judging, Steady' PROVE Goal
  BY DEF GateAgrees
<1>0. Steady /\ gate \in Judging => Held
  BY DEF GateAgrees
<1>k. UNCHANGED <<file, manifest, gateTree>> => Released' = Released
  BY DEF Whole, HasExport, Manifested, Complete, CacheVerified, Listing
<1>s. /\ gate = "clean-build" => runner # "off"
      /\ gate \in Judging \ {"clean-build"} => runner = "off" /\ process = "none"
      /\ gate \in Judging => gateTree \in Trees /\ gateTree.edit = 0
      /\ gate = "preflight" => ~Populated
  BY DEF StagesAgree
<1> HIDE DEF Released
(* A step of the runner, which the gate's clean build waits for.           *)
<1>r. ASSUME runner # "off", runner = "build" => process = "none",
             UNCHANGED <<tree, gateTree, returned, evidence>>,
             gate' \in {gate, "built", "failed"}, gate' = "built" => gate \in {"clean-build", "built"}
      PROVE  /\ gate = "clean-build" /\ Steady /\ CleanBuildAgrees /\ evidence' = {}
  <2>1. gate = "clean-build"
    BY <1>r, <1>s DEF Judging, Early, Late
  <2>2. Steady
    BY <1>r, <2>1 DEF Steady
  <2> QED BY <1>0, <1>r, <2>1, <2>2 DEF Judging, Early, Late
<1>1. ASSUME BuildStep PROVE Goal
  <2>1. process # "none" /\ UNCHANGED <<gateVars, tree>>
    BY <1>1, BuildActs
  <2>2. UNCHANGED <<gate, gateTree, returned, evidence, runner>> /\ Steady
    BY <2>1 DEF Steady, gateVars
  <2>3. gate = "clean-build" /\ runner = "build" /\ tree = gateTree
    BY <1>s, <2>1, <2>2 DEF RunnerAgrees, TypesInv, GateTypeOK, Steady, Judging, Early, Late
  <2>4. Held
    BY <1>0, <2>2
  <2>5. CleanBuildAgrees'
    BY <1>1, <2>3, <2>4, CleanBuildStep
  <2> QED BY <2>2, <2>3, <2>4, <2>5 DEF Judging, Early, Late
<1>2. ASSUME Command PROVE Goal
  BY <1>2 DEF Command, Judging, Early, Late
<1>3. ASSUME SourceChange PROVE Goal
  <2>1. /\ UNCHANGED <<runner, gate, gateTree, evidence, file, manifest, process, ok, todo, report>>
        /\ returned' = (returned \/ (GateRuns /\ tree' = gateTree))
    BY <1>3 DEF SourceChange, ChangeSource, rootVars, runVars
  <2>2. gate \in {"summary", "passed"}
    BY <2>1, RunsFact DEF Steady, Judging, Early, Late
  <2>3. Steady
    BY <2>1, <2>2 DEF Steady
  <2> QED BY <1>0, <1>k, <2>1, <2>2, <2>3 DEF Judging, Early, Late
<1>4. ASSUME RunnerBuilds PROVE Goal
  <2>1. /\ UNCHANGED <<gateTree, returned, evidence, file, tree>>
        /\ gate = "preflight" /\ gate' = "clean-build"
        /\ runner' = "build" /\ process' = "launch" /\ report' = None
    BY <1>4 DEF RunnerBuilds, Started, RunnerRequest, rootVars, sourceVars, Judging, Early, Late
  <2>2. Steady
    BY <2>1 DEF Steady
  <2>3. evidence' = {} /\ (\A f \in Files : file'[f] = None) /\ None # TRUE
    BY <1>0, <1>s, <2>1, <2>2, BuildAssumption DEF Populated, Judging, Early, Late
  <2>4. CleanBuildAgrees'
    BY <2>1, <2>3 DEF CleanBuildAgrees
  <2> QED BY <2>1, <2>3, <2>4 DEF Judging, Early, Late
<1>5. ASSUME RunnerBuilt PROVE Goal
  <2>1. /\ runner = "build" /\ process = "none" /\ UNCHANGED <<tree, gateTree, returned, evidence>>
        /\ UNCHANGED <<rootVars, runVars>>
        /\ \/ report = TRUE /\ runner' = "smoke" /\ UNCHANGED gate
           \/ gate' \in {gate, "failed"} /\ (gate = "clean-build" => gate' = "failed")
    BY <1>5 DEF RunnerBuilt, RunnerGoes, RunnerEnds, sourceVars
  <2>2. gate = "clean-build" /\ Steady /\ CleanBuildAgrees /\ evidence' = {}
    BY <1>r, <2>1
  <2>3. report = TRUE /\ runner' = "smoke" /\ UNCHANGED <<gate, file>>
    BY <2>1, <2>2 DEF Judging, Early, Late, rootVars
  <2>4. CleanBuildAgrees'
    BY <2>1, <2>2, <2>3 DEF CleanBuildAgrees, Whole, HasExport
  <2> QED BY <2>2, <2>3, <2>4 DEF Judging, Early, Late
<1>6. ASSUME RunnerSmokes PROVE Goal
  <2>1. /\ runner = "smoke" /\ process = "none" /\ UNCHANGED <<gateTree, returned, evidence>>
        /\ \/ runner' = "refresh" /\ UNCHANGED gate
           \/ gate' \in {gate, "failed"} /\ (gate = "clean-build" => gate' = "failed")
    BY <1>6 DEF RunnerSmokes, RunnerGoes, RunnerEnds
  <2>s. UNCHANGED <<tree, file>>
    BY <1>6, SmokeKeeps DEF buildVars, rootVars, sourceVars
  <2>2. gate = "clean-build" /\ Steady /\ CleanBuildAgrees /\ evidence' = {}
    BY <1>r, <2>1, <2>s
  <2>3. runner' = "refresh" /\ UNCHANGED gate
    BY <2>1, <2>2 DEF Judging, Early, Late
  <2>4. CleanBuildAgrees'
    BY <2>1, <2>s, <2>2, <2>3 DEF CleanBuildAgrees, Whole, HasExport
  <2> QED BY <2>2, <2>3, <2>4 DEF Judging, Early, Late
<1>7. ASSUME RunnerRefreshes PROVE Goal
  <2>1. /\ UNCHANGED <<file, tree, gateTree, returned, evidence>>
        /\ runner = "refresh" /\ process = "none"
        /\ \/ /\ Complete /\ manifest' # None /\ manifest'.complete
              /\ manifest'.listing = Listing /\ manifest'.from = Identity(tree)
              /\ runner' = "strict" /\ UNCHANGED gate
           \/ RunnerEnds(FALSE)
    BY <1>7, RefreshFact DEF sourceVars
  <2>e. RunnerEnds(FALSE) => gate' \in {gate, "failed"} /\ (gate = "clean-build" => gate' = "failed")
    BY DEF RunnerEnds
  <2>2. gate = "clean-build" /\ Steady /\ CleanBuildAgrees /\ evidence' = {}
    BY <1>r, <2>1, <2>e
  <2>3. /\ Complete /\ manifest' # None /\ manifest'.complete
        /\ manifest'.listing = Listing /\ manifest'.from = Identity(tree)
        /\ runner' = "strict" /\ UNCHANGED gate
    BY <2>1, <2>e, <2>2 DEF Judging, Early, Late
  <2>4. tree = gateTree
    BY <2>2 DEF Steady
  <2>5. Manifested'
    BY <2>1, <2>3, <2>4 DEF Manifested, Complete, CacheVerified, Listing, Identity
  <2>6. CleanBuildAgrees'
    BY <2>1, <2>2, <2>3, <2>5 DEF CleanBuildAgrees, Whole, HasExport
  <2> QED BY <2>2, <2>3, <2>6 DEF Judging, Early, Late
<1>8. ASSUME RunnerPasses PROVE Goal
  <2>1. /\ runner = "strict" /\ UNCHANGED <<gateTree, returned, evidence, tree, file, manifest>>
        /\ \E p : RunnerEnds(p)
    BY <1>8 DEF RunnerPasses, buildVars, rootVars, sourceVars
  <2>2. /\ gate' \in {gate, "built", "failed"} /\ (gate' = "built" => gate = "clean-build" \/ gate = "built")
        /\ (gate = "clean-build" => gate' \in {"built", "failed"})
    BY <2>1 DEF RunnerEnds
  <2>x. gate' = "built" => gate = "clean-build"
    BY <1>s, <2>1, <2>2 DEF Judging, Early, Late
  <2>3. gate = "clean-build" /\ Steady /\ CleanBuildAgrees /\ evidence' = {}
    BY <1>r, <2>1, <2>2, <2>x
  <2>4. gate' = "built"
    BY <2>2, <2>3 DEF Judging, Early, Late
  <2>5. Released
    BY <2>1, <2>3 DEF CleanBuildAgrees, Released
  <2> QED BY <1>k, <2>1, <2>3, <2>4, <2>5 DEF Judging, Early, Late
<1>9. ASSUME Preflight PROVE Goal
  BY <1>9 DEF Preflight, Judging, Early, Late
<1>10. ASSUME NEW from, NEW to, gate = from, UNCHANGED buildVars, UNCHANGED <<gateTree, returned>>,
              from \in Judging \ {"preflight", "clean-build"},
              gate' = to, to \in Judging \ {"preflight", "clean-build"},
              to \in {"summary", "passed"} => tree = gateTree \/ from = "summary",
              evidence' = IF from \in Early /\ to \in Late THEN evidence \cup {tree}
                          ELSE IF from = "wrapper tests" \/ from = "measurements"
                                 THEN evidence \cup {tree} ELSE evidence,
              from \in Late => to \in Late
       PROVE  Goal
  <2>1. UNCHANGED <<tree, file, manifest>>
    BY <1>10 DEF buildVars, rootVars, sourceVars
  <2>2. Steady
    BY <1>10, <2>1 DEF Steady
  <2>3. Held
    BY <1>0, <1>10, <2>2
  <2>4. Released'
    BY <1>10, <1>k, <2>1, <2>3
  <2>5. from # "summary" /\ from # "passed" => tree = gateTree
    BY <1>10, <2>2 DEF Steady
  <2>6. evidence' = IF to \in Early THEN {} ELSE {gateTree}
    BY <1>10, <2>3, <2>5 DEF Judging, Early, Late
  <2> QED BY <1>10, <2>4, <2>6
<1> HIDE DEF Goal
<1>11. ASSUME NEW from, NEW to, AssertSource(from, to),
              <<from, to>> \in {<<"built", "container tests">>, <<"tested", "manifest">>,
                                <<"measured", "summary">>}
       PROVE  Goal
  <2>1. /\ gate = from /\ UNCHANGED <<gateTree, returned, buildVars, evidence>>
        /\ Identity(tree) = Identity(gateTree) /\ gate' = to
    BY <1>11 DEF AssertSource, Moves, Keeps, Judging, Early, Late
  <2>2. tree = gateTree
    BY <1>s, <1>11, <2>1, SameTree DEF Judging, Early, Late
  <2> QED BY <1>10, <1>11, <2>1, <2>2 DEF Judging, Early, Late
<1>12. ASSUME NEW from, NEW to, gate = from, Judged(to),
              <<from, to>> \in {<<"container tests", "wrapper tests">>, <<"wrapper tests", "tested">>,
                                <<"measurements", "measured">>}
       PROVE  Goal
  <2>1. /\ gate = from /\ UNCHANGED <<gateTree, returned, buildVars>>
        /\ gate' = to /\ evidence' = evidence \cup {tree}
    BY <1>12 DEF Judged, Keeps, Judging, Early, Late
  <2> QED BY <1>10, <1>12, <2>1 DEF Judging, Early, Late
<1>13. ASSUME VerifyManifest \/ Summarize PROVE Goal
  <2>1. /\ UNCHANGED <<gateTree, returned, buildVars, evidence>>
        /\ \/ gate = "manifest" /\ gate' = "measurements"
           \/ gate = "summary" /\ gate' = "passed"
    BY <1>13 DEF VerifyManifest, Summarize, Moves, Keeps, Judging, Early, Late
  <2> QED BY <1>10, <2>1 DEF Judging, Early, Late
<1>14. ASSUME Tests("container tests", "wrapper tests") \/ Tests("wrapper tests", "tested") \/ Measure
       PROVE  Goal
  <2>1. \/ gate = "container tests" /\ Judged("wrapper tests")
        \/ gate = "wrapper tests" /\ Judged("tested")
        \/ gate = "measurements" /\ Judged("measured")
    BY <1>14 DEF Tests, Measure, Judged, Keeps, Judging, Early, Late
  <2> QED BY <1>12, <2>1
<1>15. ~GateStopped
  BY DEF GateStopped, Judging, Early, Late
<1>16. ASSUME UNCHANGED vars PROVE Goal
  <2>1. /\ UNCHANGED <<tree, file, manifest, process, ok, todo, report>>
        /\ UNCHANGED <<runner, gate, gateTree, returned, evidence>>
    BY <1>16 DEF vars, buildVars, rootVars, runVars, sourceVars, gateVars
  <2>2. Steady
    BY <2>1 DEF Steady
  <2>3. CleanBuildAgrees' = CleanBuildAgrees
    BY <2>1 DEF CleanBuildAgrees, Whole, HasExport, Manifested, Complete, CacheVerified, Listing
  <2> QED BY <1>0, <1>k, <2>1, <2>2, <2>3 DEF Goal
<1> QED BY <1>1, <1>2, <1>3, <1>4, <1>5, <1>6, <1>7, <1>8, <1>9, <1>11, <1>12, <1>13, <1>14,
           <1>15, <1>16 DEF GateNext, Gate

LEMMA ReleaseInit == GateInit => ReleaseInv
<1> SUFFICES ASSUME GateInit PROVE ReleaseInv
  OBVIOUS
<1>1. /\ Init /\ runner = "off" /\ gate = "off" /\ gateTree = None
      /\ returned = FALSE /\ evidence = {}
  BY DEF GateInit
<1>2. OneSourceInv
  BY <1>1, OneSourceInit
<1>3. /\ tree \in Trees /\ changes = 0 /\ raced = FALSE /\ file = [f \in Files |-> None]
      /\ provenance = None /\ litter = FALSE /\ manifest = None
      /\ run = 0 /\ request = None /\ claim = None
      /\ process = "none" /\ todo = <<>> /\ ok = TRUE /\ report = None
  BY <1>1 DEF Init
<1>4. FilesInv
  BY <1>3, AllNames DEF FilesInv, IsRoot, Paired
<1>5. TypesInv
  <2>1. MaxRuns \in Nat /\ MaxChanges \in Nat
    BY BuildAssumption DEF MaxRuns
  <2>2. <<>> \in Seq(ScriptNames)
    BY EmptySeq
  <2>3. TypeOK
    <3>1. file \in [Files -> Contents \cup {None}]
      BY <1>3
    <3>2. 0 \in 0..MaxChanges /\ 0 \in 0..MaxRuns
      BY <2>1
    <3>3. {ok, raced} \subseteq BOOLEAN /\ litter \in BOOLEAN
      BY <1>3
    <3> QED BY <1>3, <3>1, <3>2, <3>3 DEF TypeOK
  <2> QED BY <1>1, <1>3, <2>2, <2>3 DEF TypesInv, GateTypeOK, CommandTyped
<1>6. ManifestAgrees
  BY <1>3 DEF ManifestAgrees, ManifestHonest
<1>7. RunnerAgrees
  BY <1>1 DEF RunnerAgrees
<1>8. StagesAgree /\ GateAgrees
  BY <1>1 DEF StagesAgree, GateAgrees, Judging, Early, Late
<1> QED BY <1>2, <1>4, <1>5, <1>6, <1>7, <1>8 DEF ReleaseInv

(* Of the root's files the refresh of the manifest leaves all alone.       *)
LEMMA ReleaseFiles ==
  ASSUME ReleaseInv, [GateNext]_vars
  PROVE  Allowed(file') /\ FilesInv' /\ OneSourceInv'
<1>1. BuildMoves \/ RunnerRefreshes
  BY GateMoves DEF ReleaseInv, BuildMoves
<1>2. CASE BuildMoves
  BY <1>2, FilesStep, OneSourceStep DEF ReleaseInv, FilesInv, Allowed
<1>3. CASE RunnerRefreshes
  <2>1. UNCHANGED <<file, provenance, claim, process, todo, tree, raced, run>>
    BY <1>3, RefreshFact DEF ReleaseInv, runVars, sourceVars
  <2> QED BY <2>1, SameAllowed
          DEF ReleaseInv, FilesInv, OneSourceInv, Paired, IsRoot, From, Identity
<1> QED BY <1>1, <1>2, <1>3

LEMMA ReleaseStep == ReleaseInv /\ [GateNext]_vars => ReleaseInv'
<1> SUFFICES ASSUME ReleaseInv, [GateNext]_vars PROVE ReleaseInv'
  OBVIOUS
<1>1. /\ TypesInv /\ OneSourceInv /\ FilesInv /\ ManifestAgrees /\ RunnerAgrees /\ StagesAgree
      /\ GateAgrees
  BY DEF ReleaseInv
<1>2. BuildMoves \/ RunnerRefreshes
  BY <1>1, GateMoves DEF BuildMoves
<1>3. TypesInv' /\ RunnerAgrees' /\ StagesAgree' /\ GateAgrees'
  BY <1>1, TypesStep, RunnerStep, StagesStep, GateStep
<1>4. ManifestAgrees'
  BY <1>1, <1>2, ManifestStep
<1> QED BY <1>3, <1>4, ReleaseFiles DEF ReleaseInv

LEMMA ReleaseHolds == GateSpec => []ReleaseInv
BY ReleaseInit, ReleaseStep, PTL DEF GateSpec

(* The variables of the root, the build, the runner and the gate hold the  *)
(* values of their types, whatever stages and commands are interleaved     *)
(* (release_gate.sh, docker_test_runner.sh, export/build.py).              *)
THEOREM GateTypeCorrect == GateSpec => []GateTypeOK
<1>1. ReleaseInv => GateTypeOK
  BY DEF ReleaseInv, TypesInv
<1> QED BY <1>1, ReleaseHolds, PTL

(* Also with the runner and the gate at work on it a root holds the files  *)
(* of one source, the one its provenance names: neither the smokes nor the *)
(* refresh of the manifest (docker_test_runner.sh) bring in another.       *)
THEOREM GateOneSource == GateSpec => []OneSource
<1>1. ReleaseInv => OneSource
  BY DEF ReleaseInv, OneSourceInv, OneSource, From
<1> QED BY <1>1, ReleaseHolds, PTL

(* No manifest, whole or cut short, lists another version of a file of the *)
(* text build than the root has: it is deleted before any script writes                    *)
(* (invalidate_artifact_manifest), and the writable smoke finds the cache  *)
(* that it would add.                                                      *)
THEOREM ManifestIsHonest == GateSpec => []ManifestHonest
<1>1. ReleaseInv => ManifestHonest
  BY DEF ReleaseInv, ManifestAgrees
<1> QED BY <1>1, ReleaseHolds, PTL

(* No output of a root is written over, by the runner and the gate either, *)
(* unless its last command was given --force.                              *)
THEOREM GateKeepsFiles == GateSpec => KeepsFiles
<1>1. ReleaseInv /\ [GateNext]_vars =>
        [request # None /\ ~request.force =>
           \A f \in Files :
             file[f] # None /\ file[OutputOf(f)] # None => file'[f] = file[f]]_buildVars
  BY ReleaseFiles DEF Allowed, Kept
<1> QED BY <1>1, ReleaseHolds, PTL DEF GateSpec, KeepsFiles

(* RELEASE_GATE_PASS.json is written only for a root whose files are all   *)
(* there, whole, made from the commit that the preflight saw, listed by a  *)
(* complete manifest of that commit, and tested by that commit, however    *)
(* the checkout was changed between the gate's looks at it, unless it came *)
(* back unseen (release_gate.sh: assert_source_unchanged, verify manifest).*)
THEOREM GatePassed == GateSpec => []GatePassIsBuilt
<1>1. ReleaseInv => GatePassIsBuilt
  <2> SUFFICES ASSUME ReleaseInv, gate = "passed", ~returned PROVE GatePassIsBuilt
    BY DEF GatePassIsBuilt
  <2>1. Whole /\ HasExport /\ Manifested /\ evidence = {gateTree}
    BY DEF ReleaseInv, GateAgrees, Steady, Judging, Early, Late
  <2>2. \A f \in TextFiles \ Intermediates : file[f] # None
    BY <2>1 DEF Manifested, Complete, HasExport
  <2>3. \A f \in TextFiles : f \in Listed
    BY DEF TextFiles
  <2> QED BY <2>1, <2>2, <2>3 DEF GatePassIsBuilt, Whole, Manifested, Listing
<1> QED BY <1>1, ReleaseHolds, PTL
=============================================================================
