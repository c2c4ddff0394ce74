------------------------- MODULE ParallelTailProofs -------------------------
(***************************************************************************)
(* Proofs about the parallel tail, for any callers and closers.  Typing and*)
(* the close barrier hold wherever a call is struck; the join and what     *)
(* follows from it, until a call has abandoned its workers.                *)
(***************************************************************************)
EXTENDS ParallelTail, TLAPS

Labels == {"idle", "check", "submit", "wait", "waitAgain", "update", "leave",
           "restore"}

(* Who is inside the runtime holds its lock, and nobody else is inside.    *)
LockAgrees ==
  /\ callLock \in Callers \cup {None}
  /\ pc \in [Callers \cup Closers -> Labels]
  /\ \A t \in Callers : callLock = t <=> pc[t] # "idle"

LEMMA LockStep == LockAgrees /\ [Next]_vars => LockAgrees'
<1> SUFFICES ASSUME LockAgrees, [Next]_vars PROVE LockAgrees'
  OBVIOUS
<1> USE CallerAssumption
<1> USE DEF runtimeVars, sessionVars, historyVars, LockAgrees, Labels
<1>1. CASE NewSession
  BY <1>1 DEF NewSession, Unused
<1>2. CASE SetPrompts
  BY <1>2 DEF SetPrompts, Unused
<1>3. CASE Patch
  BY <1>3 DEF Patch, Unused
<1>4. ASSUME NEW t \in Callers, Enter(t) PROVE LockAgrees'
  BY <1>4 DEF Enter, LockFree, Goto
<1>5. ASSUME NEW t \in Callers, Refuse(t) PROVE LockAgrees'
  BY <1>5 DEF Refuse, Goto, Invalid
<1>6. ASSUME NEW t \in Callers, RunSerial(t) PROVE LockAgrees'
  BY <1>6 DEF RunSerial, Goto, Invalid
<1>7. ASSUME NEW t \in Callers, SubmitDetection(t) PROVE LockAgrees'
  BY <1>7 DEF SubmitDetection, Goto, Invalid, Overlaps, BranchesEnded
<1>8. ASSUME NEW t \in Callers, SubmitTracking(t) PROVE LockAgrees'
  BY <1>8 DEF SubmitTracking, Goto
<1>9. ASSUME NEW t \in Callers, Join(t) PROVE LockAgrees'
  BY <1>9 DEF Join, Goto, BranchesEnded, BranchesDone
<1>10. ASSUME NEW t \in Callers, JoinRaises(t) PROVE LockAgrees'
  BY <1>10 DEF JoinRaises, Goto, BranchesEnded, BranchesDone
<1>11. ASSUME NEW t \in Callers, Interrupted(t) PROVE LockAgrees'
  BY <1>11 DEF Interrupted, Goto
<1>12. ASSUME NEW t \in Callers, Abandoned(t) PROVE LockAgrees'
  BY <1>12 DEF Abandoned, Goto
<1>13. ASSUME NEW t \in Callers, WaitAgain(t) PROVE LockAgrees'
  BY <1>13 DEF WaitAgain, Goto, WaitIsOver, MarkFailed, BranchesEnded
<1>14. ASSUME NEW t \in Callers, Update(t) PROVE LockAgrees'
  BY <1>14 DEF Update, Goto
<1>15. ASSUME NEW t \in Callers, Leave(t) PROVE LockAgrees'
  BY <1>15 DEF Leave, Goto
<1>16. ASSUME NEW b \in Branches, BranchEnds(b) PROVE LockAgrees'
  BY <1>16 DEF BranchEnds
<1>17. ASSUME NEW t \in Closers, CloseRuntime(t) PROVE LockAgrees'
  BY <1>17 DEF CloseRuntime, CloseAllowed, LockFree, BranchesEnded, Goto
<1>18. ASSUME NEW t \in Closers, RestoreModel(t) PROVE LockAgrees'
  BY <1>18 DEF RestoreModel, Goto
<1>19. CASE UNCHANGED vars
  BY <1>19 DEF vars
<1> QED
  BY <1>1, <1>2, <1>3, <1>4, <1>5, <1>6, <1>7, <1>8, <1>9, <1>10, <1>11,
     <1>12, <1>13, <1>14, <1>15, <1>16, <1>17, <1>18, <1>19 DEF Next, Run

Outcomes == {"none", "running", "done", "raised"}
WorkersTyped == worker \in [Branches -> Outcomes]

LEMMA WorkersStep == WorkersTyped /\ [Next]_vars => WorkersTyped'
<1> SUFFICES ASSUME WorkersTyped, [Next]_vars PROVE WorkersTyped'
  OBVIOUS
<1> USE DEF runtimeVars, sessionVars, historyVars, WorkersTyped, Outcomes,
     Branches
<1>1. CASE NewSession
  BY <1>1 DEF NewSession, Unused
<1>2. CASE SetPrompts
  BY <1>2 DEF SetPrompts, Unused
<1>3. CASE Patch
  BY <1>3 DEF Patch, Unused
<1>4. ASSUME NEW t \in Callers, Enter(t) PROVE WorkersTyped'
  BY <1>4 DEF Enter, LockFree, Goto
<1>5. ASSUME NEW t \in Callers, Refuse(t) PROVE WorkersTyped'
  BY <1>5 DEF Refuse, Goto, Invalid
<1>6. ASSUME NEW t \in Callers, RunSerial(t) PROVE WorkersTyped'
  BY <1>6 DEF RunSerial, Goto, Invalid
<1>7. ASSUME NEW t \in Callers, SubmitDetection(t) PROVE WorkersTyped'
  BY <1>7 DEF SubmitDetection, Goto, Invalid, Overlaps, BranchesEnded
<1>8. ASSUME NEW t \in Callers, SubmitTracking(t) PROVE WorkersTyped'
  BY <1>8 DEF SubmitTracking, Goto
<1>9. ASSUME NEW t \in Callers, Join(t) PROVE WorkersTyped'
  BY <1>9 DEF Join, Goto, BranchesEnded, BranchesDone
<1>10. ASSUME NEW t \in Callers, JoinRaises(t) PROVE WorkersTyped'
  BY <1>10 DEF JoinRaises, Goto, BranchesEnded, BranchesDone
<1>11. ASSUME NEW t \in Callers, Interrupted(t) PROVE WorkersTyped'
  BY <1>11 DEF Interrupted, Goto
<1>12. ASSUME NEW t \in Callers, Abandoned(t) PROVE WorkersTyped'
  BY <1>12 DEF Abandoned, Goto
<1>13. ASSUME NEW t \in Callers, WaitAgain(t) PROVE WorkersTyped'
  BY <1>13 DEF WaitAgain, Goto, WaitIsOver, MarkFailed, BranchesEnded
<1>14. ASSUME NEW t \in Callers, Update(t) PROVE WorkersTyped'
  BY <1>14 DEF Update, Goto
<1>15. ASSUME NEW t \in Callers, Leave(t) PROVE WorkersTyped'
  BY <1>15 DEF Leave, Goto
<1>16. ASSUME NEW b \in Branches, BranchEnds(b) PROVE WorkersTyped'
  BY <1>16 DEF BranchEnds
<1>17. ASSUME NEW t \in Closers, CloseRuntime(t) PROVE WorkersTyped'
  BY <1>17 DEF CloseRuntime, CloseAllowed, LockFree, BranchesEnded, Goto
<1>18. ASSUME NEW t \in Closers, RestoreModel(t) PROVE WorkersTyped'
  BY <1>18 DEF RestoreModel, Goto
<1>19. CASE UNCHANGED vars
  BY <1>19 DEF vars
<1> QED
  BY <1>1, <1>2, <1>3, <1>4, <1>5, <1>6, <1>7, <1>8, <1>9, <1>10, <1>11,
     <1>12, <1>13, <1>14, <1>15, <1>16, <1>17, <1>18, <1>19 DEF Next, Run

FlagsTyped ==
  /\ closed \in BOOLEAN /\ patched \in BOOLEAN
  /\ failed \in BOOLEAN /\ objects \in BOOLEAN /\ encoded \in BOOLEAN
  /\ spoiled \in BOOLEAN /\ reused \in BOOLEAN
  /\ late \in BOOLEAN /\ abandoned \in BOOLEAN

LEMMA FlagsStep == FlagsTyped /\ [Next]_vars => FlagsTyped'
<1> SUFFICES ASSUME FlagsTyped, [Next]_vars PROVE FlagsTyped'
  OBVIOUS
<1> USE DEF runtimeVars, sessionVars, historyVars, FlagsTyped
<1>1. CASE NewSession
  BY <1>1 DEF NewSession, Unused
<1>2. CASE SetPrompts
  BY <1>2 DEF SetPrompts, Unused
<1>3. CASE Patch
  BY <1>3 DEF Patch, Unused
<1>4. ASSUME NEW t \in Callers, Enter(t) PROVE FlagsTyped'
  BY <1>4 DEF Enter, LockFree, Goto
<1>5. ASSUME NEW t \in Callers, Refuse(t) PROVE FlagsTyped'
  BY <1>5 DEF Refuse, Goto, Invalid
<1>6. ASSUME NEW t \in Callers, RunSerial(t) PROVE FlagsTyped'
  BY <1>6 DEF RunSerial, Goto, Invalid
<1>7. ASSUME NEW t \in Callers, SubmitDetection(t) PROVE FlagsTyped'
  BY <1>7 DEF SubmitDetection, Goto, Invalid, Overlaps, BranchesEnded
<1>8. ASSUME NEW t \in Callers, SubmitTracking(t) PROVE FlagsTyped'
  BY <1>8 DEF SubmitTracking, Goto
<1>9. ASSUME NEW t \in Callers, Join(t) PROVE FlagsTyped'
  BY <1>9 DEF Join, Goto, BranchesEnded, BranchesDone
<1>10. ASSUME NEW t \in Callers, JoinRaises(t) PROVE FlagsTyped'
  BY <1>10 DEF JoinRaises, Goto, BranchesEnded, BranchesDone
<1>11. ASSUME NEW t \in Callers, Interrupted(t) PROVE FlagsTyped'
  BY <1>11 DEF Interrupted, Goto
<1>12. ASSUME NEW t \in Callers, Abandoned(t) PROVE FlagsTyped'
  BY <1>12 DEF Abandoned, Goto
<1>13. ASSUME NEW t \in Callers, WaitAgain(t) PROVE FlagsTyped'
  BY <1>13 DEF WaitAgain, Goto, WaitIsOver, MarkFailed, BranchesEnded
<1>14. ASSUME NEW t \in Callers, Update(t) PROVE FlagsTyped'
  BY <1>14 DEF Update, Goto
<1>15. ASSUME NEW t \in Callers, Leave(t) PROVE FlagsTyped'
  BY <1>15 DEF Leave, Goto
<1>16. ASSUME NEW b \in Branches, BranchEnds(b) PROVE FlagsTyped'
  BY <1>16 DEF BranchEnds
<1>17. ASSUME NEW t \in Closers, CloseRuntime(t) PROVE FlagsTyped'
  BY <1>17 DEF CloseRuntime, CloseAllowed, LockFree, BranchesEnded, Goto
<1>18. ASSUME NEW t \in Closers, RestoreModel(t) PROVE FlagsTyped'
  BY <1>18 DEF RestoreModel, Goto
<1>19. CASE UNCHANGED vars
  BY <1>19 DEF vars
<1> QED
  BY <1>1, <1>2, <1>3, <1>4, <1>5, <1>6, <1>7, <1>8, <1>9, <1>10, <1>11,
     <1>12, <1>13, <1>14, <1>15, <1>16, <1>17, <1>18, <1>19 DEF Next, Run

LEMMA BarrierStep ==
  LockAgrees /\ ClosedBetweenFrames /\ [Next]_vars => ClosedBetweenFrames'
<1> SUFFICES ASSUME LockAgrees, ClosedBetweenFrames, [Next]_vars
             PROVE  ClosedBetweenFrames'
  OBVIOUS
<1> USE CallerAssumption
<1> USE DEF runtimeVars, sessionVars, historyVars, LockAgrees, Labels,
     ClosedBetweenFrames, BranchesEnded
<1>1. CASE NewSession
  BY <1>1 DEF NewSession, Unused
<1>2. CASE SetPrompts
  BY <1>2 DEF SetPrompts, Unused
<1>3. CASE Patch
  BY <1>3 DEF Patch, Unused
<1>4. ASSUME NEW t \in Callers, Enter(t) PROVE ClosedBetweenFrames'
  BY <1>4 DEF Enter, LockFree, Goto
<1>5. ASSUME NEW t \in Callers, Refuse(t) PROVE ClosedBetweenFrames'
  BY <1>5 DEF Refuse, Goto, Invalid
<1>6. ASSUME NEW t \in Callers, RunSerial(t) PROVE ClosedBetweenFrames'
  BY <1>6 DEF RunSerial, Goto, Invalid
<1>7. ASSUME NEW t \in Callers, SubmitDetection(t) PROVE ClosedBetweenFrames'
  BY <1>7 DEF SubmitDetection, Goto, Invalid, Overlaps
<1>8. ASSUME NEW t \in Callers, SubmitTracking(t) PROVE ClosedBetweenFrames'
  BY <1>8 DEF SubmitTracking, Goto
<1>9. ASSUME NEW t \in Callers, Join(t) PROVE ClosedBetweenFrames'
  BY <1>9 DEF Join, Goto, BranchesDone
<1>10. ASSUME NEW t \in Callers, JoinRaises(t) PROVE ClosedBetweenFrames'
  BY <1>10 DEF JoinRaises, Goto, BranchesDone
<1>11. ASSUME NEW t \in Callers, Interrupted(t) PROVE ClosedBetweenFrames'
  BY <1>11 DEF Interrupted, Goto
<1>12. ASSUME NEW t \in Callers, Abandoned(t) PROVE ClosedBetweenFrames'
  BY <1>12 DEF Abandoned, Goto
<1>13. ASSUME NEW t \in Callers, WaitAgain(t) PROVE ClosedBetweenFrames'
  BY <1>13 DEF WaitAgain, Goto, WaitIsOver, MarkFailed
<1>14. ASSUME NEW t \in Callers, Update(t) PROVE ClosedBetweenFrames'
  BY <1>14 DEF Update, Goto
<1>15. ASSUME NEW t \in Callers, Leave(t) PROVE ClosedBetweenFrames'
  BY <1>15 DEF Leave, Goto
<1>16. ASSUME NEW b \in Branches, BranchEnds(b) PROVE ClosedBetweenFrames'
  BY <1>16 DEF BranchEnds
<1>17. ASSUME NEW t \in Closers, CloseRuntime(t) PROVE ClosedBetweenFrames'
  BY <1>17 DEF CloseRuntime, CloseAllowed, LockFree, Goto
<1>18. ASSUME NEW t \in Closers, RestoreModel(t) PROVE ClosedBetweenFrames'
  BY <1>18 DEF RestoreModel, Goto
<1>19. CASE UNCHANGED vars
  BY <1>19 DEF vars
<1> QED
  BY <1>1, <1>2, <1>3, <1>4, <1>5, <1>6, <1>7, <1>8, <1>9, <1>10, <1>11,
     <1>12, <1>13, <1>14, <1>15, <1>16, <1>17, <1>18, <1>19 DEF Next, Run

-----------------------------------------------------------------------------
(* What the branches have come to, by the place of the caller: nothing     *)
(* before the first submit, and an end by the time the call leaves.        *)
WorkersAgree == ~abandoned =>
  /\ callLock = None => \A b \in Branches : worker[b] = "none"
  /\ \A t \in Callers :
       /\ pc[t] = "check" => \A b \in Branches : worker[b] = "none"
       /\ pc[t] = "submit" => worker["track"] = "none"
       /\ pc[t] \in {"update", "leave"} => BranchesEnded

LEMMA WorkersAgreeStep ==
  LockAgrees /\ WorkersTyped /\ WorkersAgree /\ [Next]_vars => WorkersAgree'
<1> SUFFICES ASSUME LockAgrees, WorkersTyped, WorkersAgree, [Next]_vars
             PROVE  WorkersAgree'
  OBVIOUS
<1> USE CallerAssumption
<1> USE DEF runtimeVars, sessionVars, historyVars, LockAgrees, Labels,
     WorkersTyped, Outcomes, WorkersAgree, BranchesEnded, Branches
<1>1. CASE NewSession
  BY <1>1 DEF NewSession, Unused
<1>2. CASE SetPrompts
  BY <1>2 DEF SetPrompts, Unused
<1>3. CASE Patch
  BY <1>3 DEF Patch, Unused
<1>4. ASSUME NEW t \in Callers, Enter(t) PROVE WorkersAgree'
  BY <1>4 DEF Enter, LockFree, Goto
<1>5. ASSUME NEW t \in Callers, Refuse(t) PROVE WorkersAgree'
  BY <1>5 DEF Refuse, Goto, Invalid
<1>6. ASSUME NEW t \in Callers, RunSerial(t) PROVE WorkersAgree'
  BY <1>6 DEF RunSerial, Goto, Invalid
<1>7. ASSUME NEW t \in Callers, SubmitDetection(t) PROVE WorkersAgree'
  BY <1>7 DEF SubmitDetection, Goto, Invalid, Overlaps
<1>8. ASSUME NEW t \in Callers, SubmitTracking(t) PROVE WorkersAgree'
  BY <1>8 DEF SubmitTracking, Goto
<1>9. ASSUME NEW t \in Callers, Join(t) PROVE WorkersAgree'
  BY <1>9 DEF Join, Goto, BranchesDone
<1>10. ASSUME NEW t \in Callers, JoinRaises(t) PROVE WorkersAgree'
  BY <1>10 DEF JoinRaises, Goto, BranchesDone
<1>11. ASSUME NEW t \in Callers, Interrupted(t) PROVE WorkersAgree'
  BY <1>11 DEF Interrupted, Goto
<1>12. ASSUME NEW t \in Callers, Abandoned(t) PROVE WorkersAgree'
  BY <1>12 DEF Abandoned, Goto
<1>13. ASSUME NEW t \in Callers, WaitAgain(t) PROVE WorkersAgree'
  BY <1>13 DEF WaitAgain, Goto, WaitIsOver, MarkFailed
<1>14. ASSUME NEW t \in Callers, Update(t) PROVE WorkersAgree'
  BY <1>14 DEF Update, Goto
<1>15. ASSUME NEW t \in Callers, Leave(t) PROVE WorkersAgree'
  BY <1>15 DEF Leave, Goto
<1>16. ASSUME NEW b \in Branches, BranchEnds(b) PROVE WorkersAgree'
  BY <1>16 DEF BranchEnds
<1>17. ASSUME NEW t \in Closers, CloseRuntime(t) PROVE WorkersAgree'
  BY <1>17 DEF CloseRuntime, CloseAllowed, LockFree, Goto
<1>18. ASSUME NEW t \in Closers, RestoreModel(t) PROVE WorkersAgree'
  BY <1>18 DEF RestoreModel, Goto
<1>19. CASE UNCHANGED vars
  BY <1>19 DEF vars
<1> QED
  BY <1>1, <1>2, <1>3, <1>4, <1>5, <1>6, <1>7, <1>8, <1>9, <1>10, <1>11,
     <1>12, <1>13, <1>14, <1>15, <1>16, <1>17, <1>18, <1>19 DEF Next, Run

JoinInv == LockAgrees /\ WorkersTyped /\ FlagsTyped /\ WorkersAgree

(* A spoiled session is marked before its call leaves, and until then the  *)
(* caller is bound to find out.                                            *)
SpoiledIsMarked == ~abandoned =>
  /\ callLock = None => (spoiled => failed)
  /\ \A t \in Callers :
       /\ pc[t] \in {"check", "update", "leave"} => (spoiled => failed)
       /\ pc[t] \in {"submit", "wait"} =>
            (spoiled => failed \/ \E b \in Branches : worker[b] = "raised")
  /\ ~reused

LEMMA SpoiledStep ==
  JoinInv /\ SpoiledIsMarked /\ [Next]_vars => SpoiledIsMarked'
<1> SUFFICES ASSUME LockAgrees, WorkersTyped, FlagsTyped, WorkersAgree,
                    SpoiledIsMarked, [Next]_vars
             PROVE  SpoiledIsMarked'
  BY DEF JoinInv
<1> USE CallerAssumption
<1> USE DEF runtimeVars, sessionVars, historyVars, LockAgrees, Labels,
     WorkersTyped, Outcomes, FlagsTyped, WorkersAgree, SpoiledIsMarked,
     BranchesEnded, Branches
<1>1. CASE NewSession
  BY <1>1 DEF NewSession, Unused
<1>2. CASE SetPrompts
  BY <1>2 DEF SetPrompts, Unused
<1>3. CASE Patch
  BY <1>3 DEF Patch, Unused
<1>4. ASSUME NEW t \in Callers, Enter(t) PROVE SpoiledIsMarked'
  BY <1>4 DEF Enter, LockFree, Goto
<1>5. ASSUME NEW t \in Callers, Refuse(t) PROVE SpoiledIsMarked'
  BY <1>5 DEF Refuse, Goto, Invalid
<1>6. ASSUME NEW t \in Callers, RunSerial(t) PROVE SpoiledIsMarked'
  BY <1>6 DEF RunSerial, Goto, Invalid
<1>7. ASSUME NEW t \in Callers, SubmitDetection(t) PROVE SpoiledIsMarked'
  BY <1>7 DEF SubmitDetection, Goto, Invalid, Overlaps
<1>8. ASSUME NEW t \in Callers, SubmitTracking(t) PROVE SpoiledIsMarked'
  BY <1>8 DEF SubmitTracking, Goto
<1>9. ASSUME NEW t \in Callers, Join(t) PROVE SpoiledIsMarked'
  BY <1>9 DEF Join, Goto, BranchesDone
<1>10. ASSUME NEW t \in Callers, JoinRaises(t) PROVE SpoiledIsMarked'
  BY <1>10 DEF JoinRaises, Goto, BranchesDone
<1>11. ASSUME NEW t \in Callers, Interrupted(t) PROVE SpoiledIsMarked'
  BY <1>11 DEF Interrupted, Goto
<1>12. ASSUME NEW t \in Callers, Abandoned(t) PROVE SpoiledIsMarked'
  BY <1>12 DEF Abandoned, Goto
<1>13. ASSUME NEW t \in Callers, WaitAgain(t) PROVE SpoiledIsMarked'
  BY <1>13 DEF WaitAgain, Goto, WaitIsOver, MarkFailed
<1>14. ASSUME NEW t \in Callers, Update(t) PROVE SpoiledIsMarked'
  BY <1>14 DEF Update, Goto
<1>15. ASSUME NEW t \in Callers, Leave(t) PROVE SpoiledIsMarked'
  BY <1>15 DEF Leave, Goto
<1>16. ASSUME NEW b \in Branches, BranchEnds(b) PROVE SpoiledIsMarked'
  BY <1>16 DEF BranchEnds
<1>17. ASSUME NEW t \in Closers, CloseRuntime(t) PROVE SpoiledIsMarked'
  BY <1>17 DEF CloseRuntime, CloseAllowed, LockFree, Goto
<1>18. ASSUME NEW t \in Closers, RestoreModel(t) PROVE SpoiledIsMarked'
  BY <1>18 DEF RestoreModel, Goto
<1>19. CASE UNCHANGED vars
  BY <1>19 DEF vars
<1> QED
  BY <1>1, <1>2, <1>3, <1>4, <1>5, <1>6, <1>7, <1>8, <1>9, <1>10, <1>11,
     <1>12, <1>13, <1>14, <1>15, <1>16, <1>17, <1>18, <1>19 DEF Next, Run

(* Objects come from a detection, which has encoded the prompts; so has the*)
(* frame that overlaps its branches.                                       *)
EncodedAgrees == ~late /\ ~abandoned =>
  /\ objects => encoded
  /\ ~BranchesEnded => encoded
  /\ \A t \in Callers :
       pc[t] \in {"submit", "wait", "waitAgain", "update"} => encoded

LEMMA EncodedStep ==
  JoinInv /\ EncodedAgrees /\ [Next]_vars => EncodedAgrees'
<1> SUFFICES ASSUME LockAgrees, WorkersTyped, FlagsTyped, WorkersAgree,
                    EncodedAgrees, [Next]_vars
             PROVE  EncodedAgrees'
  BY DEF JoinInv
<1> USE CallerAssumption
<1> USE DEF runtimeVars, sessionVars, historyVars, LockAgrees, Labels,
     WorkersTyped, Outcomes, FlagsTyped, WorkersAgree, EncodedAgrees,
     BranchesEnded, Branches
<1>1. CASE NewSession
  BY <1>1 DEF NewSession, Unused
<1>2. CASE SetPrompts
  BY <1>2 DEF SetPrompts, Unused
<1>3. CASE Patch
  BY <1>3 DEF Patch, Unused
<1>4. ASSUME NEW t \in Callers, Enter(t) PROVE EncodedAgrees'
  BY <1>4 DEF Enter, LockFree, Goto
<1>5. ASSUME NEW t \in Callers, Refuse(t) PROVE EncodedAgrees'
  BY <1>5 DEF Refuse, Goto, Invalid
<1>6. ASSUME NEW t \in Callers, RunSerial(t) PROVE EncodedAgrees'
  <2> SUFFICES ASSUME ~late', ~abandoned' PROVE EncodedAgrees'
    BY DEF EncodedAgrees
  <2>0. ~late /\ ~abandoned
    BY <1>6 DEF RunSerial
  <2>1. BranchesEnded /\ worker' = worker
    BY <1>6, <2>0 DEF RunSerial, Goto, WorkersAgree, BranchesEnded
  <2>2. encoded' \in BOOLEAN /\ (encoded => encoded')
    <3>1. CASE encoded' = encoded
      BY <3>1 DEF FlagsTyped
    <3>2. CASE encoded' = TRUE
      BY <3>2
    <3> QED
      BY <1>6, <3>1, <3>2 DEF RunSerial
  <2>3. objects' => encoded'
    BY <1>6, <2>0, <2>2 DEF RunSerial, FlagsTyped, EncodedAgrees
  <2>4. \A u \in Callers : pc'[u] \in {"idle", "leave"}
    BY <1>6 DEF RunSerial, Goto, LockAgrees
  <2> QED
    BY <2>1, <2>3, <2>4 DEF EncodedAgrees, BranchesEnded
<1>7. ASSUME NEW t \in Callers, SubmitDetection(t) PROVE EncodedAgrees'
  BY <1>7 DEF SubmitDetection, Goto, Invalid, Overlaps
<1>8. ASSUME NEW t \in Callers, SubmitTracking(t) PROVE EncodedAgrees'
  BY <1>8 DEF SubmitTracking, Goto
<1>9. ASSUME NEW t \in Callers, Join(t) PROVE EncodedAgrees'
  BY <1>9 DEF Join, Goto, BranchesDone
<1>10. ASSUME NEW t \in Callers, JoinRaises(t) PROVE EncodedAgrees'
  BY <1>10 DEF JoinRaises, Goto, BranchesDone
<1>11. ASSUME NEW t \in Callers, Interrupted(t) PROVE EncodedAgrees'
  BY <1>11 DEF Interrupted, Goto
<1>12. ASSUME NEW t \in Callers, Abandoned(t) PROVE EncodedAgrees'
  BY <1>12 DEF Abandoned, Goto
<1>13. ASSUME NEW t \in Callers, WaitAgain(t) PROVE EncodedAgrees'
  BY <1>13 DEF WaitAgain, Goto, WaitIsOver, MarkFailed
<1>14. ASSUME NEW t \in Callers, Update(t) PROVE EncodedAgrees'
  BY <1>14 DEF Update, Goto
<1>15. ASSUME NEW t \in Callers, Leave(t) PROVE EncodedAgrees'
  BY <1>15 DEF Leave, Goto
<1>16. ASSUME NEW b \in Branches, BranchEnds(b) PROVE EncodedAgrees'
  BY <1>16 DEF BranchEnds
<1>17. ASSUME NEW t \in Closers, CloseRuntime(t) PROVE EncodedAgrees'
  BY <1>17 DEF CloseRuntime, CloseAllowed, LockFree, Goto
<1>18. ASSUME NEW t \in Closers, RestoreModel(t) PROVE EncodedAgrees'
  BY <1>18 DEF RestoreModel, Goto
<1>19. CASE UNCHANGED vars
  BY <1>19 DEF vars
<1> QED
  BY <1>1, <1>2, <1>3, <1>4, <1>5, <1>6, <1>7, <1>8, <1>9, <1>10, <1>11,
     <1>12, <1>13, <1>14, <1>15, <1>16, <1>17, <1>18, <1>19 DEF Next, Run

-----------------------------------------------------------------------------
LEMMA InitAgrees ==
  Init => /\ LockAgrees /\ WorkersTyped /\ FlagsTyped /\ WorkersAgree
          /\ SpoiledIsMarked /\ EncodedAgrees /\ ClosedBetweenFrames
<1> SUFFICES ASSUME Init
             PROVE  /\ LockAgrees /\ WorkersTyped /\ FlagsTyped /\ WorkersAgree
                    /\ SpoiledIsMarked /\ EncodedAgrees /\ ClosedBetweenFrames
  OBVIOUS
<1> USE CallerAssumption DEF Init, BranchesEnded, Branches
<1>1. LockAgrees
  BY DEF LockAgrees, Labels
<1>2. WorkersTyped
  BY DEF WorkersTyped, Outcomes
<1>3. FlagsTyped
  BY DEF FlagsTyped
<1>4. WorkersAgree
  BY DEF WorkersAgree
<1>5. SpoiledIsMarked
  BY DEF SpoiledIsMarked
<1>6. EncodedAgrees
  BY DEF EncodedAgrees
<1>7. ClosedBetweenFrames
  BY DEF ClosedBetweenFrames
<1> QED
  BY <1>1, <1>2, <1>3, <1>4, <1>5, <1>6, <1>7

LEMMA Typed == Spec => [](LockAgrees /\ WorkersTyped /\ FlagsTyped)
<1>1. LockAgrees /\ WorkersTyped /\ FlagsTyped /\ [Next]_vars
        => (LockAgrees /\ WorkersTyped /\ FlagsTyped)'
  BY LockStep, WorkersStep, FlagsStep
<1> QED
  BY <1>1, InitAgrees, PTL DEF Spec

(* The variables keep their types and the lock names the caller that is    *)
(* inside the runtime, wherever calls may be struck.                       *)
THEOREM TailTypeCorrect == Spec => []TypeOK
<1>1. LockAgrees /\ WorkersTyped /\ FlagsTyped => TypeOK
  BY DEF LockAgrees, WorkersTyped, FlagsTyped, TypeOK, Labels, Outcomes
<1> QED
  BY <1>1, Typed, PTL

(* close_parallel_video_tail waits for the frame in progress and lets no   *)
(* other begin, wherever calls may be struck.                              *)
THEOREM CloseBetweenFrames == Spec => []ClosedBetweenFrames
<1>1. LockAgrees /\ ClosedBetweenFrames /\ [Next]_vars => ClosedBetweenFrames'
  BY BarrierStep
<1> QED
  BY <1>1, Typed, InitAgrees, PTL DEF Spec

LEMMA WorkersAgreeAlways == Spec => []JoinInv
<1>1. LockAgrees /\ WorkersTyped /\ WorkersAgree /\ [Next]_vars => WorkersAgree'
  BY WorkersAgreeStep
<1> QED
  BY <1>1, Typed, InitAgrees, PTL DEF Spec, JoinInv

(* A call that is struck in its first wait at most leaves no worker behind.*)
THEOREM CallsJoinWorkers == Spec => []WorkersJoined
<1>1. JoinInv => WorkersJoined
  BY DEF JoinInv, WorkersAgree, WorkersJoined, BranchesEnded
<1> QED
  BY <1>1, WorkersAgreeAlways, PTL

(* A session that a failed branch may have half written is not used again. *)
THEOREM SpoiledSessionsRefused == Spec => []SpoiledNotReused
<1>1. JoinInv /\ SpoiledIsMarked /\ [Next]_vars => SpoiledIsMarked'
  BY SpoiledStep
<1>2. SpoiledIsMarked => SpoiledNotReused
  BY DEF SpoiledIsMarked, SpoiledNotReused
<1> QED
  BY <1>1, <1>2, WorkersAgreeAlways, InitAgrees, PTL DEF Spec

(* No worker encodes a prompt that was there before the session's objects. *)
THEOREM WorkersFindPromptsEncoded == Spec => []EncodedBeforeWorkers
<1>1. JoinInv /\ EncodedAgrees /\ [Next]_vars => EncodedAgrees'
  BY EncodedStep
<1>2. EncodedAgrees => EncodedBeforeWorkers
  BY DEF EncodedAgrees, EncodedBeforeWorkers
<1> QED
  BY <1>1, <1>2, WorkersAgreeAlways, InitAgrees, PTL DEF Spec
=============================================================================
