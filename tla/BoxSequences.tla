---------------------------- MODULE BoxSequences ----------------------------
(***************************************************************************)
(* The programs that drive a box tracker: demo_box.py, the evaluations of  *)
(* eval/datasets and eval/probes/visualize_correctness.py, each a process  *)
(* that follows one subject after the other through the frames of its      *)
(* sequence, and a client of the library that calls several trackers in    *)
(* any order.  eval_saco_sg_generate_preds.py also keeps a checkpoint from *)
(* which a later process may resume.  A process may be killed anywhere,    *)
(* also while it writes a file, and started again.                         *)
(***************************************************************************)
EXTENDS BoxTracker

CONSTANTS
  MaxSubjects,  \* subjects of a data set
  MaxFrames,    \* frames of a sequence
  MaxCalls,     \* calls of a client on a tracker, from one reset to the next
  MaxLaunches,  \* processes started
  Every         \* subjects between two checkpoints

ASSUME SequencesAssumption ==
  /\ MaxSubjects \in Nat \ {0} /\ MaxFrames \in Nat \ {0}
  /\ MaxCalls \in Nat
  /\ MaxLaunches \in Nat \ {0} /\ Every \in Nat \ {0}

VARIABLES
  run,       \* the process: what it runs and where it is, or None
  launches,  \* processes started so far
  partial,   \* checkpoint by output path: None, a list of subjects or Torn
  out,       \* written predictions by output path, likewise
  exact      \* every resume gave its checkpoint's path and length

runVars == <<run, launches, partial, out, exact>>
vars == <<trackerVars, runVars>>

Subjects == 1..MaxSubjects
Solo == CHOOSE t \in Trackers : TRUE

\* davis and saco_sg empty the bank before each subject; the other two
\* programs that follow several subjects do not.
Resetting == {"davis", "saco_sg"}
Evaluations == Resetting \cup {"visualize", "predictions"}
Programmes == Evaluations \cup {"demo", "client"}

\* A file whose writing was cut short, which no JSON reader takes.
Torn == <<0>>

\* An --out that is given, or the default, which names the second of the start.
Given == 0
Paths == Given..MaxLaunches

\* What a process runs, the subject each tracker is at, and its predictions.
Processes ==
  [kind : Programmes, at : [Trackers -> 0..MaxSubjects],
   phase : {"next", "first", "later", "record", "over"}, frame : 0..MaxFrames,
   path : Paths, done : Seq(Subjects)]

ASSUME ProcessAssumption == None \notin Processes

Idle == [t \in Trackers |-> None]
NoSubject == [t \in Trackers |-> 0]

-----------------------------------------------------------------------------
(***************************************************************************)
(* The life of a process                                                   *)
(***************************************************************************)

\* Its memory is gone, whatever it had been doing.
Gone ==
  /\ run' = None
  /\ tracker' = Idle
  /\ bank' = [t \in Trackers |-> <<>>]
  /\ encoded' = [t \in Trackers |-> <<>>]
  /\ mask' = None
  /\ misfit' = FALSE

\* --num-maskmem is an option of davis and saco_sg; the others take the default.
Objects(kind) ==
  CASE kind \in Resetting -> {[Idle EXCEPT ![Solo] = Own(n)] : n \in Sizes}
    [] kind = "client" ->
         {[t \in Trackers |-> Sharing(n[t], owner)] :
            n \in [Trackers -> Sizes], owner \in Sizes}
    [] OTHER -> {[Idle EXCEPT ![Solo] = Own(Exported)]}

\* generate_preds.main: with --start-from the checkpoint is read if there is
\* one at this --out, and the annotations before it are passed over.
Resumes(path, start) ==
  IF start > 0 /\ partial[path] # None THEN partial[path] ELSE <<>>

Launch(kind, objects, path, start) ==
  /\ run = None /\ launches < MaxLaunches
  /\ launches' = launches + 1
  /\ kind # "predictions" => path = Given /\ start = 0
  /\ path \in {Given, launches + 1}
  /\ LET done == Resumes(path, start)
     IN /\ exact' = (exact /\ (done # Torn => Len(done) = start))
        /\ \E loaded \in Loads :
             /\ stored' = loaded.store
             /\ IF loaded.on /\ done # Torn
                THEN /\ Constructed(objects)
                     /\ run' = [kind |-> kind, at |-> [NoSubject EXCEPT ![Solo] = start],
                                phase |-> "next", frame |-> 0, path |-> path, done |-> done]
                ELSE UNCHANGED <<run, tracker, bank, encoded, mask>>
  /\ UNCHANGED <<misfit, partial, out>>

Killed ==
  /\ run # None
  /\ Gone
  /\ UNCHANGED <<stored, launches, partial, out, exact>>

-----------------------------------------------------------------------------
(***************************************************************************)
(* One subject after the other                                             *)
(***************************************************************************)

Driving(phase) == run # None /\ run.kind # "client" /\ run.phase = phase
Subject == run.at[Solo]
Goes(phase, frame) == run' = [run EXCEPT !.phase = phase, !.frame = frame]
FilesKept == UNCHANGED <<launches, partial, out, exact>>

\* The main loops: the next sequence, object or annotation.
NextSubject ==
  /\ Driving("next")
  /\ Subject < (IF run.kind = "demo" THEN 1 ELSE MaxSubjects)
  /\ run' = [run EXCEPT !.at[Solo] = Subject + 1, !.phase = "first", !.frame = 0]
  /\ IF run.kind \in Resetting THEN Reset(Solo) ELSE UNCHANGED trackerVars
  /\ FilesKept

FirstFrame ==
  /\ Driving("first")
  /\ InitFrame(Solo, Subject)
  /\ Goes("later", 1)
  /\ FilesKept

LaterFrame ==
  /\ Driving("later") /\ run.frame < MaxFrames
  /\ PropagateFrame(Solo, Subject)
  /\ Goes("later", run.frame + 1)
  /\ FilesKept

\* generate_preds passes over a frame it cannot read.
FramePassedOver ==
  /\ Driving("later") /\ run.kind = "predictions" /\ run.frame < MaxFrames
  /\ Goes("later", run.frame + 1)
  /\ UNCHANGED trackerVars /\ FilesKept

\* (Mutation: an annotation without a first frame is passed over.)
SubjectOverUnrecorded ==
  /\ Driving("later") \/ (Driving("first") /\ run.kind = "predictions")
  /\ run' = [run EXCEPT !.phase = IF run.kind = "predictions" /\ run.phase = "later"
                                  THEN "record" ELSE "next"]
  /\ UNCHANGED trackerVars /\ FilesKept

\* The sequence is over; for generate_preds also without a first frame, when
\* no frame has a box or its picture is missing.
SubjectOver ==
  /\ Driving("later") \/ (Driving("first") /\ run.kind = "predictions")
  /\ run' = [run EXCEPT !.phase = IF run.kind = "predictions" THEN "record" ELSE "next"]
  /\ UNCHANGED trackerVars /\ FilesKept

\* A picture that cannot be read (but by generate_preds), or a call that
\* raises: nobody catches it, and nothing has been pushed.
FrameRaises ==
  /\ Driving("first") \/ Driving("later")
  /\ Gone
  /\ UNCHANGED stored /\ FilesKept

AttentionRaises ==
  /\ Driving("later") /\ run.frame < MaxFrames
  /\ AttentionRefused(Solo)
  /\ Goes("over", run.frame)
  /\ FilesKept

Quit ==
  /\ Driving("over") \/ (Driving("next") /\ run.kind # "predictions"
                         /\ Subject = (IF run.kind = "demo" THEN 1 ELSE MaxSubjects))
  /\ Gone
  /\ UNCHANGED stored /\ FilesKept

-----------------------------------------------------------------------------
(***************************************************************************)
(* The predictions of generate_preds                                       *)
(***************************************************************************)

\* The prediction is appended; every so many annotations all of them are
\* written over the checkpoint, in place.
Checkpoints == Subject % Every = 0

Record ==
  /\ Driving("record")
  /\ LET done == Append(run.done, Subject)
     IN /\ run' = [run EXCEPT !.done = done, !.phase = "next"]
        /\ partial' = IF Checkpoints THEN [partial EXCEPT ![run.path] = done] ELSE partial
  /\ UNCHANGED <<trackerVars, launches, out, exact>>

RecordCut ==
  /\ Driving("record") /\ Checkpoints
  /\ partial' = [partial EXCEPT ![run.path] = Torn]
  /\ Gone
  /\ UNCHANGED <<stored, launches, out, exact>>

\* After the last annotation: the file, then the checkpoint is removed.
Write ==
  /\ Driving("next") /\ run.kind = "predictions" /\ Subject = MaxSubjects
  /\ \E written \in {run.done, Torn}, cut \in BOOLEAN :
       /\ written = Torn => cut
       /\ out' = [out EXCEPT ![run.path] = written]
       /\ partial' = IF cut THEN partial ELSE [partial EXCEPT ![run.path] = None]
  /\ Gone
  /\ UNCHANGED <<stored, launches, exact>>

-----------------------------------------------------------------------------
(***************************************************************************)
(* A client of the library: per-object trackers that share the resources   *)
(* of one, called in any order, over features computed once per frame.     *)
(* It catches what a call raises and may go on.                            *)
(***************************************************************************)

Calling(t) ==
  /\ run # None /\ run.kind = "client"
  /\ FilesKept

ClientInit(t, subject) ==
  /\ Calling(t) /\ Len(encoded[t]) < MaxCalls
  /\ InitFrame(t, subject)
  /\ run' = [run EXCEPT !.at[t] = subject]

ClientPropagate(t) ==
  /\ Calling(t) /\ Len(encoded[t]) < MaxCalls
  /\ run.at[t] # 0
  /\ PropagateFrame(t, run.at[t])
  /\ UNCHANGED run

ClientReset(t) ==
  /\ Calling(t)
  /\ Reset(t)
  /\ UNCHANGED run

ClientRefused(t) ==
  /\ Calling(t)
  /\ AttentionRefused(t)
  /\ UNCHANGED run

-----------------------------------------------------------------------------
Init ==
  /\ TrackerInit
  /\ run = None /\ launches = 0 /\ exact = TRUE
  /\ partial = [p \in Paths |-> None]
  /\ out = [p \in Paths |-> None]

Next ==
  \/ \E kind \in Programmes : \E objects \in Objects(kind),
        path \in Paths, start \in 0..MaxSubjects : Launch(kind, objects, path, start)
  \/ Killed
  \/ NextSubject \/ FirstFrame \/ LaterFrame \/ FramePassedOver \/ SubjectOver
  \/ FrameRaises \/ AttentionRaises \/ Quit
  \/ Record \/ RecordCut \/ Write
  \/ \E t \in Trackers :
       \/ \E subject \in Subjects : ClientInit(t, subject)
       \/ ClientPropagate(t) \/ ClientReset(t) \/ ClientRefused(t)

Spec == Init /\ [][Next]_vars

-----------------------------------------------------------------------------
\* The shape of the variables; a bank never exceeds what its tracker keeps.
TypeOK ==
  LET files == [Paths -> Seq(Subjects) \cup {None, Torn}]
  IN /\ stored \in [Programs -> {"none", "torn", "whole"}]
     /\ \A t \in Trackers :
          /\ tracker[t] = None => bank[t] = <<>> /\ encoded[t] = <<>>
          /\ tracker[t] # None =>
               /\ tracker[t] \in [own : Sizes, slots : Sizes]
               /\ Len(bank[t]) <= tracker[t].own
          /\ ToSet(encoded[t]) \subseteq [subject : Subjects, from : SUBSET Subjects]
     /\ run # None => run \in Processes /\ \A p \in Programs : stored[p] = "whole"
     /\ partial \in files /\ out \in files

\* A mask is made only from memories of subjects this very tracker has been
\* prompted with since its bank was last emptied, so trackers that share
\* resources do not mix; where the program empties the bank between
\* sequences, or has only one, it is made from its own subject alone.
OwnMemories ==
  run # None /\ mask # None =>
    /\ mask.from \subseteq {m.subject : m \in ToSet(encoded[mask.tracker])}
                             \cup {mask.subject}
    /\ run.kind \in Resetting \cup {"demo"} => mask.from = {mask.subject}

\* What the evaluations take for granted: the masks of a sequence do not
\* depend on the sequences evaluated before it.
SequencesAreIndependent ==
  mask # None /\ run # None /\ run.kind \in Evaluations => mask.from = {mask.subject}

\* However often generate_preds is killed and resumed, a file it has written
\* out whole has one prediction for every annotation, in their order,
\* provided each resume was started at the length of the checkpoint it found.
ResumedIsComplete ==
  exact => \A p \in Paths :
             out[p] \in {None, Torn, [i \in Subjects |-> i]}
=============================================================================
