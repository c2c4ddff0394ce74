---------------------------- MODULE ParallelTail ----------------------------
(***************************************************************************)
(* The parallel tail (src/tracker/parallel_video.py): after the backbone a *)
(* frame's detection and its tracker propagation run on two worker threads,*)
(* and the caller joins them before it updates the session.                *)
(*                                                                         *)
(* A step of a caller ends where it gives up or waits for something: the   *)
(* call lock, a future, the branches.  Of the session a frame goes through *)
(* only what decides its path is kept.  GPU streams are left out: a worker *)
(* has ended when its finally block has drained its stream.                *)
(***************************************************************************)
CONSTANTS
  Callers,  \* threads that run the model; one at a time is let in
  Closers,  \* threads that call close_parallel_video_tail
  None

Branches == {"detect", "track"}

ASSUME CallerAssumption == None \notin Callers \cup Closers /\ Callers \cap Closers = {}

VARIABLES
  callLock, closed,    \* of the runtime
  patched,             \* the model's _det_track_one_frame is the parallel one
  worker,              \* the two futures of the present call
  failed,              \* session._parallel_tail_failed
  objects, encoded,    \* the session has objects; all its prompts are encoded
  pc,
  spoiled,             \* history: a branch of this session failed, or was left
  reused,              \* history: a frame ran on a spoiled session
  late,                \* history: a prompt came after the session had objects
  abandoned            \* history: a call has left its workers behind

runtimeVars == <<callLock, closed, patched>>
sessionVars == <<failed, objects, encoded>>
historyVars == <<spoiled, reused, late, abandoned>>
vars == <<runtimeVars, worker, sessionVars, pc, historyVars>>

Goto(t, from, to) == pc[t] = from /\ pc' = [pc EXCEPT ![t] = to]

Init ==
  /\ callLock = None /\ closed = FALSE /\ patched = TRUE
  /\ worker = [b \in Branches |-> "none"]
  /\ failed = FALSE /\ objects = FALSE /\ encoded = FALSE
  /\ pc = [t \in Callers \cup Closers |-> "idle"]
  /\ spoiled = FALSE /\ reused = FALSE
  /\ late = FALSE /\ abandoned = FALSE

BranchesEnded == \A b \in Branches : worker[b] # "running"
-----------------------------------------------------------------------------
(* The session between two frames, when nobody runs the model.             *)
Unused == \A t \in Callers : pc[t] = "idle"

(* reset_tracking keeps the embeddings, reset_prompts does not.            *)
NewSession ==
  /\ Unused
  /\ failed' = FALSE /\ objects' = FALSE
  /\ spoiled' = FALSE /\ late' = FALSE
  /\ encoded' \in {encoded, FALSE}
  /\ UNCHANGED <<runtimeVars, worker, pc, reused, abandoned>>

SetPrompts ==
  /\ Unused
  /\ encoded' = FALSE
  /\ late' = (late \/ objects)
  /\ UNCHANGED <<runtimeVars, worker, failed, objects, pc, spoiled, reused,
                 abandoned>>

-----------------------------------------------------------------------------
LockFree == callLock = None

(* _parallel_det_track_one_frame: a second caller is turned away at once.  *)
Enter(t) ==
  /\ LockFree /\ patched
  /\ Goto(t, "idle", "check")
  /\ callLock' = t
  /\ UNCHANGED <<closed, patched, worker, sessionVars, historyVars>>

Leave(t) ==
  /\ Goto(t, "leave", "idle")
  /\ callLock' = None
  /\ worker' = [b \in Branches |-> IF worker[b] = "running" THEN "running"
                                                            ELSE "none"]
  /\ UNCHANGED <<closed, patched, sessionVars, historyVars>>

Invalid == closed \/ failed

(* The session or the runtime is invalid, or the backbone raises.          *)
Refuse(t) ==
  /\ Invalid \/ objects
  /\ Goto(t, "check", "leave")
  /\ UNCHANGED <<runtimeVars, worker, sessionVars, historyVars>>

(* The first frame of a session, or one without objects or detection, runs *)
(* as upstream; it encodes the prompts if it detects.  It may raise.       *)
RunSerial(t) ==
  /\ ~Invalid
  /\ Goto(t, "check", "leave")
  /\ encoded' \in {encoded, TRUE}
  /\ objects' \in {objects, FALSE} \cup {encoded'}
  /\ reused' = (reused \/ spoiled)
  /\ UNCHANGED <<runtimeVars, worker, failed, spoiled, late, abandoned>>

AlwaysOverlap == TRUE
Overlaps == objects

(* Otherwise the branches are submitted one after the other.  The executor *)
(* has two threads, so a submitted branch starts at once.  (A worker that a*)
(* struck call left behind is taken to end before the next is submitted.)  *)
SubmitDetection(t) ==
  /\ ~Invalid /\ Overlaps /\ BranchesEnded
  /\ Goto(t, "check", "submit")
  /\ worker' = [worker EXCEPT !["detect"] = "running"]
  /\ reused' = (reused \/ spoiled)
  /\ UNCHANGED <<runtimeVars, sessionVars, spoiled, late, abandoned>>

SubmitTracking(t) ==
  /\ Goto(t, "submit", "wait")
  /\ worker' = [worker EXCEPT !["track"] = "running"]
  /\ UNCHANGED <<runtimeVars, sessionVars, historyVars>>

BranchEnds(b) ==
  /\ worker[b] = "running"
  /\ \E outcome \in {"done", "raised"} :
       /\ worker' = [worker EXCEPT ![b] = outcome]
       /\ spoiled' = (spoiled \/ outcome = "raised")
       /\ encoded' = (encoded \/ (b = "detect" /\ outcome = "done"))
  /\ UNCHANGED <<runtimeVars, failed, objects, pc, reused, late, abandoned>>

BranchesDone == \A b \in Branches : worker[b] = "done"

Join(t) ==
  /\ BranchesEnded /\ BranchesDone
  /\ Goto(t, "wait", "update")
  /\ UNCHANGED <<runtimeVars, worker, sessionVars, historyVars>>

(* A branch raised: wait for both again, then give up the session for good.*)
JoinRaises(t) ==
  /\ BranchesEnded /\ ~BranchesDone
  /\ Goto(t, "wait", "waitAgain")
  /\ UNCHANGED <<runtimeVars, worker, sessionVars, historyVars>>

(* A signal in the first wait, which is inside the try.                    *)
Interrupted(t) ==
  /\ Goto(t, "wait", "waitAgain")
  /\ spoiled' = TRUE
  /\ UNCHANGED <<runtimeVars, worker, sessionVars, reused, late, abandoned>>

(* Outside the try: a signal between the submits or in the second wait, or *)
(* an executor that cannot start another thread for the second submit.     *)
Abandoned(t) ==
  /\ Goto(t, "submit", "leave") \/ Goto(t, "waitAgain", "leave")
  /\ spoiled' = TRUE /\ abandoned' = TRUE
  /\ UNCHANGED <<runtimeVars, worker, sessionVars, reused, late>>

MarkForgotten == UNCHANGED failed
MarkFailed == failed' = TRUE

DetectionWaited == worker["detect"] # "running"
WaitIsOver == BranchesEnded

WaitAgain(t) ==
  /\ WaitIsOver
  /\ Goto(t, "waitAgain", "leave")
  /\ MarkFailed
  /\ UNCHANGED <<runtimeVars, worker, objects, encoded, historyVars>>

(* Association, update planning and execution, on the caller's thread.     *)
Update(t) ==
  /\ Goto(t, "update", "leave")
  /\ objects' \in BOOLEAN
  /\ UNCHANGED <<runtimeVars, worker, failed, encoded, historyVars>>

-----------------------------------------------------------------------------
(* close_parallel_video_tail: shut the executor down between two frames,   *)
(* then put the original method back.                                      *)
CloseWithoutLock == BranchesEnded
CloseAllowed == LockFree /\ BranchesEnded

CloseRuntime(t) ==
  /\ CloseAllowed /\ patched
  /\ Goto(t, "idle", "restore")
  /\ closed' = TRUE
  /\ UNCHANGED <<callLock, patched, worker, sessionVars, historyVars>>

RestoreModel(t) ==
  /\ Goto(t, "restore", "idle")
  /\ patched' = FALSE
  /\ UNCHANGED <<callLock, closed, worker, sessionVars, historyVars>>

(* patch_parallel_video_tail makes a new runtime.                          *)
Patch ==
  /\ ~patched /\ Unused
  /\ patched' = TRUE /\ closed' = FALSE
  /\ UNCHANGED <<callLock, worker, sessionVars, pc, historyVars>>

Run(t) ==
  \/ Refuse(t) \/ RunSerial(t) \/ SubmitDetection(t) \/ SubmitTracking(t)
  \/ Join(t) \/ JoinRaises(t) \/ Interrupted(t) \/ Abandoned(t)
  \/ WaitAgain(t) \/ Update(t) \/ Leave(t)

Next ==
  \/ NewSession \/ SetPrompts \/ Patch
  \/ \E t \in Callers : Enter(t) \/ Run(t)
  \/ \E b \in Branches : BranchEnds(b)
  \/ \E t \in Closers : CloseRuntime(t) \/ RestoreModel(t)

Spec == Init /\ [][Next]_vars

-----------------------------------------------------------------------------
(* Every variable keeps its type, and the call lock names the one caller   *)
(* that is inside the runtime.                                             *)
TypeOK ==
  /\ callLock \in Callers \cup {None}
  /\ \A t \in Callers : callLock = t <=> pc[t] # "idle"
  /\ closed \in BOOLEAN /\ patched \in BOOLEAN
  /\ worker \in [Branches -> {"none", "running", "done", "raised"}]
  /\ failed \in BOOLEAN /\ objects \in BOOLEAN /\ encoded \in BOOLEAN
  /\ pc \in [Callers \cup Closers ->
              {"idle", "check", "submit", "wait", "waitAgain", "update",
               "leave", "restore"}]
  /\ spoiled \in BOOLEAN /\ reused \in BOOLEAN
  /\ late \in BOOLEAN /\ abandoned \in BOOLEAN

(* When a call has left, no worker of it is running: the caller may free   *)
(* the frame, the model and the session.  (Unless some call was struck     *)
(* between its submits or a second time: the code does not cover that.)    *)
WorkersJoined == callLock = None /\ ~abandoned => BranchesEnded

(* After a branch has failed or its wait was interrupted no frame runs on  *)
(* the session: the tracker may have written half a frame into it.         *)
SpoiledNotReused == reused => abandoned

(* The two workers never have to encode a prompt: that was done by a serial*)
(* frame, when one thread had the session to itself.  (Unless the prompt   *)
(* came too late for one.)                                                 *)
EncodedBeforeWorkers == ~BranchesEnded => encoded \/ late \/ abandoned

(* Closing waits for the frame in progress and lets no other one begin.    *)
ClosedBetweenFrames ==
  closed => BranchesEnded
              /\ \A t \in Callers : pc[t] \in {"idle", "check", "leave"}
=============================================================================
