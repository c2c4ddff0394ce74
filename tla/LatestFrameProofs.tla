------------------------- MODULE LatestFrameProofs -------------------------
(***************************************************************************)
(* Proofs that the latest-frame pipeline keeps its invariants for any      *)
(* number of threads and frames.  SafetyInv is proved part by part: each   *)
(* lemma takes the parts it needs in the old state and shows one part in   *)
(* the new state, with one step per action.                                *)
(***************************************************************************)
EXTENDS LatestFrame, TLAPS

USE DEF state, vars, flags, slotVars, faultVars, inputVars, lockVars,
        liveVars, outVars,
        InSequence, Stopped, CalledFromInference, BindConsumer

(***************************************************************************)
(* Life-cycle flags.                                                       *)
(***************************************************************************)
LEMMA FlagsStep ==
  ASSUME TypeOK, FlagsAgree, [Next]_vars
  PROVE  FlagsAgree'
<1> USE NoneAssumption, FrameAssumption
        DEF TypeOK, FlagsAgree, Goto, Threads
<1>1. ASSUME NEW t \in Producers, Submit(t) PROVE FlagsAgree'
  <2>1. CASE SubmitBegin(t)
    BY <2>1 DEF SubmitBegin
  <2>2. CASE SubmitRefused(t)
    BY <2>2 DEF SubmitRefused
  <2>3. ASSUME NEW frame \in Frames, SubmitPublish(t, frame) PROVE FlagsAgree'
    BY <2>3 DEF SubmitPublish, Put
  <2> QED BY <1>1, <2>1, <2>2, <2>3 DEF Submit
<1>2. ASSUME NEW t \in Consumers, InferNext(t) \/ InferStep(t)
      PROVE  FlagsAgree'
  <2>1. CASE InferNext(t)
    BY <2>1 DEF InferNext
  <2>2. CASE TakeFrame(t)
    BY <2>2 DEF TakeFrame
  <2>3. CASE Drained(t)
    BY <2>3 DEF Drained
  <2>4. CASE LockInference(t)
    BY <2>4 DEF LockInference
  <2>5. CASE SkipFrame(t)
    BY <2>5 DEF SkipFrame
  <2>6. CASE BeginInference(t)
    BY <2>6 DEF BeginInference
  <2>7. CASE InferReturns(t)
    BY <2>7 DEF InferReturns
  <2>8. CASE InferRaises(t)
    BY <2>8 DEF InferRaises
  <2>9. CASE RecordFailure(t)
    BY <2>9 DEF RecordFailure
  <2>10. CASE AbortOnFailure(t)
    BY <2>10 DEF AbortOnFailure, AbortEffect, DiscardSlot
  <2>11. CASE Drain(t)
    BY <2>11 DEF Drain
  <2>12. CASE Poison(t)
    BY <2>12 DEF Poison
  <2>13. CASE Disown(t)
    BY <2>13 DEF Disown
  <2>14. CASE CountOutput(t)
    BY <2>14 DEF CountOutput
  <2>15. CASE UnlockInference(t)
    BY <2>15 DEF UnlockInference
  <2> QED BY <1>2, <2>1, <2>2, <2>3, <2>4, <2>5, <2>6, <2>7, <2>8, <2>9,
             <2>10, <2>11, <2>12, <2>13, <2>14, <2>15
          DEF InferStep
<1>3. ASSUME NEW t \in Controllers, Control(t) PROVE FlagsAgree'
  <2>1. CASE Start(t)
    BY <2>1 DEF Start
  <2>2. CASE FinishInput(t)
    BY <2>2 DEF FinishInput
  <2>3. CASE Abort(t)
    BY <2>3 DEF Abort, AbortEffect, DiscardSlot
  <2>4. CASE CloseFirst(t)
    BY <2>4 DEF CloseFirst, AbortEffect, DiscardSlot, MayClose
  <2>5. CASE CloseAgain(t)
    BY <2>5 DEF CloseAgain, MayClose
  <2> QED BY <1>3, <2>1, <2>2, <2>3, <2>4, <2>5 DEF Control
<1>4. ASSUME NEW t \in Threads, CloseStep(t) \/ CloseInterrupted(t)
      PROVE  FlagsAgree'
  <2>1. CASE CloseWait(t)
    BY <2>1 DEF CloseWait
  <2>2. CASE CloseLock(t)
    BY <2>2 DEF CloseLock
  <2>3. CASE CloseRelease(t)
    BY <2>3 DEF CloseRelease
  <2>4. CASE CloseSet(t)
    BY <2>4 DEF CloseSet
  <2>5. CASE CloseInterrupted(t)
    BY <2>5 DEF CloseInterrupted
  <2> QED BY <1>4, <2>1, <2>2, <2>3, <2>4, <2>5 DEF CloseStep
<1>5. CASE OtherPipeline
  BY <1>5 DEF OtherPipeline
<1>6. CASE UNCHANGED vars
  BY <1>6
<1> QED BY <1>1, <1>2, <1>3, <1>4, <1>5, <1>6 DEF Next

(***************************************************************************)
(* Types.                                                                  *)
(***************************************************************************)
LEMMA TypeStep ==
  ASSUME TypeOK, ConsumerAgrees, [Next]_vars
  PROVE  TypeOK'
<1> USE BoundAssumption, NoneAssumption, FrameAssumption
        DEF TypeOK, Goto, Bump, Counters, Steps, Owning, Closing, Threads
<1>1. ASSUME NEW t \in Producers, Submit(t) PROVE TypeOK'
  <2>1. CASE SubmitBegin(t)
    BY <2>1 DEF SubmitBegin
  <2>2. CASE SubmitRefused(t)
    BY <2>2 DEF SubmitRefused
  <2>3. ASSUME NEW frame \in Frames, SubmitPublish(t, frame) PROVE TypeOK'
    BY <2>3 DEF SubmitPublish, Put, Frames
  <2> QED BY <1>1, <2>1, <2>2, <2>3 DEF Submit
<1>2. ASSUME NEW t \in Consumers, InferNext(t) \/ InferStep(t) PROVE TypeOK'
  <2>1. CASE InferNext(t)
    BY <2>1 DEF InferNext
  <2>2. CASE TakeFrame(t)
    BY <2>2 DEF TakeFrame
  <2>3. CASE Drained(t)
    BY <2>3 DEF Drained
  <2>4. CASE LockInference(t)
    BY <2>4 DEF LockInference
  <2>5. CASE SkipFrame(t)
    BY <2>5 DEF SkipFrame
  <2>6. CASE BeginInference(t)
    <3>1. inFlight \in Frames
      BY <2>6 DEF BeginInference, ConsumerAgrees, Holding
    <3>2. fullDetection' \in BOOLEAN /\ forcePending' \in BOOLEAN
      BY <2>6 DEF BeginInference
    <3>3. pc' \in [Threads -> Steps] /\ owner' \in Consumers \cup {None}
      BY <2>6 DEF BeginInference
    <3>4. UNCHANGED <<flags, slotVars, faultVars, consumer, nextSequence,
                      inferenceLock, closeComplete, counts, liveVars, inFlight,
                      lastResult>>
      BY <2>6 DEF BeginInference
    <3> QED BY <3>2, <3>3, <3>4
  <2>7. CASE InferReturns(t)
    BY <2>7 DEF InferReturns
  <2>8. CASE InferRaises(t)
    BY <2>8 DEF InferRaises
  <2>9. CASE RecordFailure(t)
    BY <2>9 DEF RecordFailure
  <2>10. CASE AbortOnFailure(t)
    BY <2>10 DEF AbortOnFailure, AbortEffect, DiscardSlot
  <2>11. CASE Drain(t)
    <3>1. drainFailed' \in BOOLEAN
      BY <2>11 DEF Drain
    <3>2. pc' \in [Threads -> Steps]
      BY <2>11 DEF Drain
    <3>3. UNCHANGED <<flags, slotVars, failed, consumer, inputVars, lockVars,
                      closeComplete, counts, liveVars, inFlight, outVars>>
      BY <2>11 DEF Drain
    <3> QED BY <3>1, <3>2, <3>3
  <2>12. CASE Poison(t)
    BY <2>12 DEF Poison
  <2>13. CASE Disown(t)
    BY <2>13 DEF Disown
  <2>14. CASE CountOutput(t)
    <3>1. inFlight \in Frames
      BY <2>14 DEF CountOutput, ConsumerAgrees, Holding
    <3> QED BY <2>14, <3>1 DEF CountOutput, Frames
  <2>15. CASE UnlockInference(t)
    BY <2>15 DEF UnlockInference
  <2> QED BY <1>2, <2>1, <2>2, <2>3, <2>4, <2>5, <2>6, <2>7, <2>8, <2>9,
             <2>10, <2>11, <2>12, <2>13, <2>14, <2>15
          DEF InferStep
<1>3. ASSUME NEW t \in Controllers, Control(t) PROVE TypeOK'
  <2>1. CASE Start(t)
    BY <2>1 DEF Start
  <2>2. CASE FinishInput(t)
    BY <2>2 DEF FinishInput
  <2>3. CASE Abort(t)
    BY <2>3 DEF Abort, AbortEffect, DiscardSlot
  <2>4. CASE CloseFirst(t)
    BY <2>4 DEF CloseFirst, AbortEffect, DiscardSlot, MayClose
  <2>5. CASE CloseAgain(t)
    BY <2>5 DEF CloseAgain, MayClose
  <2> QED BY <1>3, <2>1, <2>2, <2>3, <2>4, <2>5 DEF Control
<1>4. ASSUME NEW t \in Threads, CloseStep(t) \/ CloseInterrupted(t)
      PROVE  TypeOK'
  <2>1. CASE CloseWait(t)
    BY <2>1 DEF CloseWait
  <2>2. CASE CloseLock(t)
    BY <2>2 DEF CloseLock
  <2>3. CASE CloseRelease(t)
    BY <2>3 DEF CloseRelease
  <2>4. CASE CloseSet(t)
    BY <2>4 DEF CloseSet
  <2>5. CASE CloseInterrupted(t)
    BY <2>5 DEF CloseInterrupted
  <2> QED BY <1>4, <2>1, <2>2, <2>3, <2>4, <2>5 DEF CloseStep
<1>5. CASE OtherPipeline
  <2>1. poisoned' \in BOOLEAN
    BY <1>5 DEF OtherPipeline
  <2>2. active' \in {"none", "self", "other"}
    BY <1>5 DEF OtherPipeline
  <2>3. UNCHANGED <<flags, slotVars, faultVars, consumer, inputVars, lockVars,
                    closeComplete, counts, inFlight, outVars, pc>>
    BY <1>5 DEF OtherPipeline
  <2> QED BY <2>1, <2>2, <2>3
<1>6. CASE UNCHANGED vars
  BY <1>6
<1> QED BY <1>1, <1>2, <1>3, <1>4, <1>5, <1>6 DEF Next

(***************************************************************************)
(* The consumer, its lock and the frame in its hands.                      *)
(***************************************************************************)
LEMMA ConsumerStep ==
  ASSUME TypeOK, ConsumerAgrees, OwnerIsExact, [Next]_vars
  PROVE  ConsumerAgrees'
<1> USE NoneAssumption, FrameAssumption
        DEF TypeOK, ConsumerAgrees, OwnerIsExact, Goto, Consuming, Locking,
            Holding, Owning, Threads
<1>1. ASSUME NEW t \in Producers, Submit(t) PROVE ConsumerAgrees'
  <2>1. CASE SubmitBegin(t)
    BY <2>1 DEF SubmitBegin
  <2>2. CASE SubmitRefused(t)
    BY <2>2 DEF SubmitRefused
  <2>3. ASSUME NEW frame \in Frames, SubmitPublish(t, frame)
        PROVE  ConsumerAgrees'
    BY <2>3 DEF SubmitPublish
  <2> QED BY <1>1, <2>1, <2>2, <2>3 DEF Submit
<1>2. ASSUME NEW t \in Consumers, InferNext(t) \/ InferStep(t)
      PROVE  ConsumerAgrees'
  <2>1. CASE InferNext(t)
    BY <2>1 DEF InferNext
  <2>2. CASE TakeFrame(t)
    BY <2>2 DEF TakeFrame
  <2>3. CASE Drained(t)
    BY <2>3 DEF Drained
  <2>4. CASE LockInference(t)
    BY <2>4 DEF LockInference
  <2>5. CASE SkipFrame(t)
    BY <2>5 DEF SkipFrame
  <2>6. CASE BeginInference(t)
    BY <2>6 DEF BeginInference
  <2>7. CASE InferReturns(t)
    BY <2>7 DEF InferReturns
  <2>8. CASE InferRaises(t)
    BY <2>8 DEF InferRaises
  <2>9. CASE RecordFailure(t)
    BY <2>9 DEF RecordFailure
  <2>10. CASE AbortOnFailure(t)
    BY <2>10 DEF AbortOnFailure
  <2>11. CASE Drain(t)
    BY <2>11 DEF Drain
  <2>12. CASE Poison(t)
    BY <2>12 DEF Poison
  <2>13. CASE Disown(t)
    BY <2>13 DEF Disown
  <2>14. CASE CountOutput(t)
    BY <2>14 DEF CountOutput
  <2>15. CASE UnlockInference(t)
    BY <2>15 DEF UnlockInference
  <2> QED BY <1>2, <2>1, <2>2, <2>3, <2>4, <2>5, <2>6, <2>7, <2>8, <2>9,
             <2>10, <2>11, <2>12, <2>13, <2>14, <2>15
          DEF InferStep
<1>3. ASSUME NEW t \in Controllers, Control(t) PROVE ConsumerAgrees'
  <2>1. CASE Start(t)
    BY <2>1 DEF Start
  <2>2. CASE FinishInput(t)
    BY <2>2 DEF FinishInput
  <2>3. CASE Abort(t)
    BY <2>3 DEF Abort
  <2>4. CASE CloseFirst(t)
    BY <2>4 DEF CloseFirst, AbortEffect, DiscardSlot, MayClose
  <2>5. CASE CloseAgain(t)
    BY <2>5 DEF CloseAgain, MayClose
  <2> QED BY <1>3, <2>1, <2>2, <2>3, <2>4, <2>5 DEF Control
<1>4. ASSUME NEW t \in Threads, CloseStep(t) \/ CloseInterrupted(t)
      PROVE  ConsumerAgrees'
  <2>1. CASE CloseWait(t)
    BY <2>1 DEF CloseWait
  <2>2. CASE CloseLock(t)
    BY <2>2 DEF CloseLock
  <2>3. CASE CloseRelease(t)
    BY <2>3 DEF CloseRelease
  <2>4. CASE CloseSet(t)
    BY <2>4 DEF CloseSet
  <2>5. CASE CloseInterrupted(t)
    BY <2>5 DEF CloseInterrupted
  <2> QED BY <1>4, <2>1, <2>2, <2>3, <2>4, <2>5 DEF CloseStep
<1>5. CASE OtherPipeline
  BY <1>5 DEF OtherPipeline
<1>6. CASE UNCHANGED vars
  BY <1>6
<1> QED BY <1>1, <1>2, <1>3, <1>4, <1>5, <1>6 DEF Next

(***************************************************************************)
(* The inference owner.                                                    *)
(***************************************************************************)
LEMMA OwnerStep ==
  ASSUME TypeOK, ConsumerAgrees, OwnerIsExact, [Next]_vars
  PROVE  OwnerIsExact'
<1> USE NoneAssumption, FrameAssumption
        DEF TypeOK, ConsumerAgrees, OwnerIsExact, Goto, Consuming, Locking,
            Owning, Threads
<1>1. ASSUME NEW t \in Producers, Submit(t) PROVE OwnerIsExact'
  <2>1. CASE SubmitBegin(t)
    BY <2>1 DEF SubmitBegin
  <2>2. CASE SubmitRefused(t)
    BY <2>2 DEF SubmitRefused
  <2>3. ASSUME NEW frame \in Frames, SubmitPublish(t, frame)
        PROVE  OwnerIsExact'
    BY <2>3 DEF SubmitPublish
  <2> QED BY <1>1, <2>1, <2>2, <2>3 DEF Submit
<1>2. ASSUME NEW t \in Consumers, InferNext(t) \/ InferStep(t)
      PROVE  OwnerIsExact'
  <2>1. CASE InferNext(t)
    BY <2>1 DEF InferNext
  <2>2. CASE TakeFrame(t)
    BY <2>2 DEF TakeFrame
  <2>3. CASE Drained(t)
    BY <2>3 DEF Drained
  <2>4. CASE LockInference(t)
    BY <2>4 DEF LockInference
  <2>5. CASE SkipFrame(t)
    BY <2>5 DEF SkipFrame
  <2>6. CASE BeginInference(t)
    BY <2>6 DEF BeginInference
  <2>7. CASE InferReturns(t)
    BY <2>7 DEF InferReturns
  <2>8. CASE InferRaises(t)
    BY <2>8 DEF InferRaises
  <2>9. CASE RecordFailure(t)
    BY <2>9 DEF RecordFailure
  <2>10. CASE AbortOnFailure(t)
    BY <2>10 DEF AbortOnFailure
  <2>11. CASE Drain(t)
    BY <2>11 DEF Drain
  <2>12. CASE Poison(t)
    BY <2>12 DEF Poison
  <2>13. CASE Disown(t)
    BY <2>13 DEF Disown
  <2>14. CASE CountOutput(t)
    BY <2>14 DEF CountOutput
  <2>15. CASE UnlockInference(t)
    BY <2>15 DEF UnlockInference
  <2> QED BY <1>2, <2>1, <2>2, <2>3, <2>4, <2>5, <2>6, <2>7, <2>8, <2>9,
             <2>10, <2>11, <2>12, <2>13, <2>14, <2>15
          DEF InferStep
<1>3. ASSUME NEW t \in Controllers, Control(t) PROVE OwnerIsExact'
  <2>1. CASE Start(t)
    BY <2>1 DEF Start
  <2>2. CASE FinishInput(t)
    BY <2>2 DEF FinishInput
  <2>3. CASE Abort(t)
    BY <2>3 DEF Abort
  <2>4. CASE CloseFirst(t)
    BY <2>4 DEF CloseFirst, AbortEffect, DiscardSlot, MayClose
  <2>5. CASE CloseAgain(t)
    BY <2>5 DEF CloseAgain, MayClose
  <2> QED BY <1>3, <2>1, <2>2, <2>3, <2>4, <2>5 DEF Control
<1>4. ASSUME NEW t \in Threads, CloseStep(t) \/ CloseInterrupted(t)
      PROVE  OwnerIsExact'
  <2>1. CASE CloseWait(t)
    BY <2>1 DEF CloseWait
  <2>2. CASE CloseLock(t)
    BY <2>2 DEF CloseLock
  <2>3. CASE CloseRelease(t)
    BY <2>3 DEF CloseRelease
  <2>4. CASE CloseSet(t)
    BY <2>4 DEF CloseSet
  <2>5. CASE CloseInterrupted(t)
    BY <2>5 DEF CloseInterrupted
  <2> QED BY <1>4, <2>1, <2>2, <2>3, <2>4, <2>5 DEF CloseStep
<1>5. CASE OtherPipeline
  BY <1>5 DEF OtherPipeline
<1>6. CASE UNCHANGED vars
  BY <1>6
<1> QED BY <1>1, <1>2, <1>3, <1>4, <1>5, <1>6 DEF Next

(***************************************************************************)
(* Who closes, and when the claim may be given up.                         *)
(***************************************************************************)
LEMMA CloseInvStep ==
  ASSUME TypeOK, FlagsAgree, ConsumerAgrees, OwnerIsExact, CloseAgrees,
         [Next]_vars
  PROVE  CloseAgrees'
<1> USE NoneAssumption, FrameAssumption
        DEF TypeOK, ConsumerAgrees, OwnerIsExact, CloseAgrees, Goto,
            Consuming, Locking, Owning, Threads
<1>1. ASSUME NEW t \in Producers, Submit(t) PROVE CloseAgrees'
  <2>1. CASE SubmitBegin(t)
    BY <2>1 DEF SubmitBegin
  <2>2. CASE SubmitRefused(t)
    BY <2>2 DEF SubmitRefused
  <2>3. ASSUME NEW frame \in Frames, SubmitPublish(t, frame)
        PROVE  CloseAgrees'
    BY <2>3 DEF SubmitPublish, Put
  <2> QED BY <1>1, <2>1, <2>2, <2>3 DEF Submit
<1>2. ASSUME NEW t \in Consumers, InferNext(t) \/ InferStep(t)
      PROVE  CloseAgrees'
  <2>1. CASE InferNext(t)
    BY <2>1 DEF InferNext
  <2>2. CASE TakeFrame(t)
    BY <2>2 DEF TakeFrame
  <2>3. CASE Drained(t)
    BY <2>3 DEF Drained
  <2>4. CASE LockInference(t)
    BY <2>4 DEF LockInference
  <2>5. CASE SkipFrame(t)
    BY <2>5 DEF SkipFrame
  <2>6. CASE BeginInference(t)
    BY <2>6 DEF BeginInference
  <2>7. CASE InferReturns(t)
    BY <2>7 DEF InferReturns
  <2>8. CASE InferRaises(t)
    BY <2>8 DEF InferRaises
  <2>9. CASE RecordFailure(t)
    BY <2>9 DEF RecordFailure
  <2>10. CASE AbortOnFailure(t)
    BY <2>10 DEF AbortOnFailure, AbortEffect, DiscardSlot
  <2>11. CASE Drain(t)
    BY <2>11 DEF Drain
  <2>12. CASE Poison(t)
    BY <2>12 DEF Poison
  <2>13. CASE Disown(t)
    BY <2>13 DEF Disown
  <2>14. CASE CountOutput(t)
    BY <2>14 DEF CountOutput
  <2>15. CASE UnlockInference(t)
    BY <2>15 DEF UnlockInference
  <2> QED BY <1>2, <2>1, <2>2, <2>3, <2>4, <2>5, <2>6, <2>7, <2>8, <2>9,
             <2>10, <2>11, <2>12, <2>13, <2>14, <2>15
          DEF InferStep
<1>3. ASSUME NEW t \in Controllers, Control(t) PROVE CloseAgrees'
  <2>1. CASE Start(t)
    BY <2>1 DEF Start
  <2>2. CASE FinishInput(t)
    BY <2>2 DEF FinishInput
  <2>3. CASE Abort(t)
    BY <2>3 DEF Abort, AbortEffect, DiscardSlot
  <2>4. CASE CloseFirst(t)
    BY <2>4 DEF CloseFirst, AbortEffect, DiscardSlot, MayClose
  <2>5. CASE CloseAgain(t)
    BY <2>5 DEF CloseAgain, MayClose
  <2> QED BY <1>3, <2>1, <2>2, <2>3, <2>4, <2>5 DEF Control
<1>4. ASSUME NEW t \in Threads, CloseStep(t) \/ CloseInterrupted(t)
      PROVE  CloseAgrees'
  <2>1. CASE CloseWait(t)
    BY <2>1 DEF CloseWait
  <2>2. CASE CloseLock(t)
    BY <2>2 DEF CloseLock
  <2>3. CASE CloseRelease(t)
    BY <2>3 DEF CloseRelease
  <2>4. CASE CloseSet(t)
    BY <2>4 DEF CloseSet
  <2>5. CASE CloseInterrupted(t)
    BY <2>5 DEF CloseInterrupted
  <2> QED BY <1>4, <2>1, <2>2, <2>3, <2>4, <2>5 DEF CloseStep
<1>5. CASE OtherPipeline
  BY <1>5 DEF OtherPipeline
<1>6. CASE UNCHANGED vars
  BY <1>6
<1> QED BY <1>1, <1>2, <1>3, <1>4, <1>5, <1>6 DEF Next

(***************************************************************************)
(* Every accepted frame is accounted for.                                  *)
(***************************************************************************)
LEMMA AccountStep ==
  ASSUME TypeOK, FlagsAgree, ConsumerAgrees, FramesAccounted, [Next]_vars
  PROVE  FramesAccounted'
<1> USE NoneAssumption, FrameAssumption
        DEF TypeOK, FramesAccounted, Present, Bump, Counters, Goto
<1>1. ASSUME NEW t \in Producers, Submit(t) PROVE FramesAccounted'
  <2>1. CASE SubmitBegin(t)
    BY <2>1 DEF SubmitBegin
  <2>2. CASE SubmitRefused(t)
    BY <2>2 DEF SubmitRefused
  <2>3. ASSUME NEW frame \in Frames, SubmitPublish(t, frame)
        PROVE  FramesAccounted'
    BY <2>3 DEF SubmitPublish, Put
  <2> QED BY <1>1, <2>1, <2>2, <2>3 DEF Submit
<1>2. ASSUME NEW t \in Consumers, InferNext(t) \/ InferStep(t)
      PROVE  FramesAccounted'
  <2>1. CASE InferNext(t)
    BY <2>1 DEF InferNext
  <2>2. CASE TakeFrame(t)
    BY <2>2
       DEF TakeFrame, ConsumerAgrees, Consuming, Locking, Holding, Owning,
           Threads
  <2>3. CASE Drained(t)
    BY <2>3 DEF Drained
  <2>4. CASE LockInference(t)
    BY <2>4 DEF LockInference
  <2>5. CASE SkipFrame(t)
    BY <2>5
       DEF SkipFrame, ConsumerAgrees, Consuming, Locking, Holding, Owning,
           Threads
  <2>6. CASE BeginInference(t)
    BY <2>6 DEF BeginInference
  <2>7. CASE InferReturns(t)
    BY <2>7 DEF InferReturns
  <2>8. CASE InferRaises(t)
    BY <2>8
       DEF InferRaises, ConsumerAgrees, Consuming, Locking, Holding, Owning,
           Threads
  <2>9. CASE RecordFailure(t)
    BY <2>9 DEF RecordFailure
  <2>10. CASE AbortOnFailure(t)
    BY <2>10 DEF AbortOnFailure, AbortEffect, DiscardSlot
  <2>11. CASE Drain(t)
    BY <2>11 DEF Drain
  <2>12. CASE Poison(t)
    BY <2>12 DEF Poison
  <2>13. CASE Disown(t)
    BY <2>13 DEF Disown
  <2>14. CASE CountOutput(t)
    BY <2>14
       DEF CountOutput, ConsumerAgrees, Consuming, Locking, Holding, Owning,
           Threads
  <2>15. CASE UnlockInference(t)
    BY <2>15 DEF UnlockInference
  <2> QED BY <1>2, <2>1, <2>2, <2>3, <2>4, <2>5, <2>6, <2>7, <2>8, <2>9,
             <2>10, <2>11, <2>12, <2>13, <2>14, <2>15
          DEF InferStep
<1>3. ASSUME NEW t \in Controllers, Control(t) PROVE FramesAccounted'
  <2>1. CASE Start(t)
    BY <2>1 DEF Start
  <2>2. CASE FinishInput(t)
    BY <2>2 DEF FinishInput
  <2>3. CASE Abort(t)
    BY <2>3 DEF Abort, AbortEffect, DiscardSlot
  <2>4. CASE CloseFirst(t)
    BY <2>4 DEF CloseFirst, AbortEffect, DiscardSlot, MayClose
  <2>5. CASE CloseAgain(t)
    BY <2>5 DEF CloseAgain, MayClose
  <2> QED BY <1>3, <2>1, <2>2, <2>3, <2>4, <2>5 DEF Control
<1>4. ASSUME NEW t \in Threads, CloseStep(t) \/ CloseInterrupted(t)
      PROVE  FramesAccounted'
  <2>1. CASE CloseWait(t)
    BY <2>1 DEF CloseWait
  <2>2. CASE CloseLock(t)
    BY <2>2 DEF CloseLock
  <2>3. CASE CloseRelease(t)
    BY <2>3 DEF CloseRelease
  <2>4. CASE CloseSet(t)
    BY <2>4 DEF CloseSet
  <2>5. CASE CloseInterrupted(t)
    BY <2>5 DEF CloseInterrupted
  <2> QED BY <1>4, <2>1, <2>2, <2>3, <2>4, <2>5 DEF CloseStep
<1>5. CASE OtherPipeline
  BY <1>5 DEF OtherPipeline
<1>6. CASE UNCHANGED vars
  BY <1>6
<1> QED BY <1>1, <1>2, <1>3, <1>4, <1>5, <1>6 DEF Next

(***************************************************************************)
(* Frames stay in source order.                                            *)
(***************************************************************************)
LEMMA OrderStep ==
  ASSUME TypeOK, FlagsAgree, ConsumerAgrees, FramesInOrder, [Next]_vars
  PROVE  FramesInOrder'
<1> USE NoneAssumption, FrameAssumption
        DEF TypeOK, FramesInOrder, Frames
<1>1. ASSUME NEW t \in Producers, Submit(t) PROVE FramesInOrder'
  <2>1. CASE SubmitBegin(t)
    BY <2>1 DEF SubmitBegin
  <2>2. CASE SubmitRefused(t)
    BY <2>2 DEF SubmitRefused
  <2>3. ASSUME NEW frame \in Frames, SubmitPublish(t, frame)
        PROVE  FramesInOrder'
    BY <2>3 DEF SubmitPublish, Put
  <2> QED BY <1>1, <2>1, <2>2, <2>3 DEF Submit
<1>2. ASSUME NEW t \in Consumers, InferNext(t) \/ InferStep(t)
      PROVE  FramesInOrder'
  <2>1. CASE InferNext(t)
    BY <2>1 DEF InferNext
  <2>2. CASE TakeFrame(t)
    BY <2>2 DEF TakeFrame
  <2>3. CASE Drained(t)
    BY <2>3 DEF Drained
  <2>4. CASE LockInference(t)
    BY <2>4 DEF LockInference
  <2>5. CASE SkipFrame(t)
    BY <2>5 DEF SkipFrame
  <2>6. CASE BeginInference(t)
    BY <2>6 DEF BeginInference
  <2>7. CASE InferReturns(t)
    BY <2>7 DEF InferReturns
  <2>8. CASE InferRaises(t)
    BY <2>8 DEF InferRaises
  <2>9. CASE RecordFailure(t)
    BY <2>9 DEF RecordFailure
  <2>10. CASE AbortOnFailure(t)
    BY <2>10 DEF AbortOnFailure, AbortEffect, DiscardSlot
  <2>11. CASE Drain(t)
    BY <2>11 DEF Drain
  <2>12. CASE Poison(t)
    BY <2>12 DEF Poison
  <2>13. CASE Disown(t)
    BY <2>13 DEF Disown
  <2>14. CASE CountOutput(t)
    <3>1. inFlight \in Frames
      BY <2>14 DEF CountOutput, ConsumerAgrees, Holding, Threads
    <3> QED BY <2>14, <3>1 DEF CountOutput
  <2>15. CASE UnlockInference(t)
    BY <2>15 DEF UnlockInference
  <2> QED BY <1>2, <2>1, <2>2, <2>3, <2>4, <2>5, <2>6, <2>7, <2>8, <2>9,
             <2>10, <2>11, <2>12, <2>13, <2>14, <2>15
          DEF InferStep
<1>3. ASSUME NEW t \in Controllers, Control(t) PROVE FramesInOrder'
  <2>1. CASE Start(t)
    BY <2>1 DEF Start
  <2>2. CASE FinishInput(t)
    BY <2>2 DEF FinishInput
  <2>3. CASE Abort(t)
    BY <2>3 DEF Abort, AbortEffect, DiscardSlot
  <2>4. CASE CloseFirst(t)
    BY <2>4 DEF CloseFirst, AbortEffect, DiscardSlot, MayClose
  <2>5. CASE CloseAgain(t)
    BY <2>5 DEF CloseAgain, MayClose
  <2> QED BY <1>3, <2>1, <2>2, <2>3, <2>4, <2>5 DEF Control
<1>4. ASSUME NEW t \in Threads, CloseStep(t) \/ CloseInterrupted(t)
      PROVE  FramesInOrder'
  <2>1. CASE CloseWait(t)
    BY <2>1 DEF CloseWait
  <2>2. CASE CloseLock(t)
    BY <2>2 DEF CloseLock
  <2>3. CASE CloseRelease(t)
    BY <2>3 DEF CloseRelease
  <2>4. CASE CloseSet(t)
    BY <2>4 DEF CloseSet
  <2>5. CASE CloseInterrupted(t)
    BY <2>5 DEF CloseInterrupted
  <2> QED BY <1>4, <2>1, <2>2, <2>3, <2>4, <2>5 DEF CloseStep
<1>5. CASE OtherPipeline
  BY <1>5 DEF OtherPipeline
<1>6. CASE UNCHANGED vars
  BY <1>6
<1> QED BY <1>1, <1>2, <1>3, <1>4, <1>5, <1>6 DEF Next

(***************************************************************************)
(* A failure is final.                                                     *)
(***************************************************************************)
LEMMA FailureStep ==
  ASSUME TypeOK, FlagsAgree, ConsumerAgrees, FailureIsSticky, [Next]_vars
  PROVE  FailureIsSticky'
<1> USE NoneAssumption, FrameAssumption
        DEF TypeOK, FailureIsSticky, Goto, Holding, Threads
<1>1. ASSUME NEW t \in Producers, Submit(t) PROVE FailureIsSticky'
  <2>1. CASE SubmitBegin(t)
    BY <2>1 DEF SubmitBegin
  <2>2. CASE SubmitRefused(t)
    BY <2>2 DEF SubmitRefused
  <2>3. ASSUME NEW frame \in Frames, SubmitPublish(t, frame)
        PROVE  FailureIsSticky'
    BY <2>3 DEF SubmitPublish, Put
  <2> QED BY <1>1, <2>1, <2>2, <2>3 DEF Submit
<1>2. ASSUME NEW t \in Consumers, InferNext(t) \/ InferStep(t)
      PROVE  FailureIsSticky'
  <2>1. CASE InferNext(t)
    BY <2>1
       DEF InferNext, ConsumerAgrees, FlagsAgree, Consuming, Locking, Owning
  <2>2. CASE TakeFrame(t)
    BY <2>2 DEF TakeFrame
  <2>3. CASE Drained(t)
    BY <2>3 DEF Drained
  <2>4. CASE LockInference(t)
    BY <2>4 DEF LockInference
  <2>5. CASE SkipFrame(t)
    BY <2>5 DEF SkipFrame
  <2>6. CASE BeginInference(t)
    BY <2>6 DEF BeginInference
  <2>7. CASE InferReturns(t)
    BY <2>7 DEF InferReturns
  <2>8. CASE InferRaises(t)
    BY <2>8 DEF InferRaises
  <2>9. CASE RecordFailure(t)
    BY <2>9
       DEF RecordFailure, ConsumerAgrees, FlagsAgree, Consuming, Locking,
           Owning
  <2>10. CASE AbortOnFailure(t)
    BY <2>10 DEF AbortOnFailure, AbortEffect, DiscardSlot
  <2>11. CASE Drain(t)
    BY <2>11 DEF Drain
  <2>12. CASE Poison(t)
    BY <2>12
       DEF Poison, ConsumerAgrees, FlagsAgree, Consuming, Locking, Owning
  <2>13. CASE Disown(t)
    BY <2>13 DEF Disown
  <2>14. CASE CountOutput(t)
    BY <2>14 DEF CountOutput
  <2>15. CASE UnlockInference(t)
    BY <2>15 DEF UnlockInference
  <2> QED BY <1>2, <2>1, <2>2, <2>3, <2>4, <2>5, <2>6, <2>7, <2>8, <2>9,
             <2>10, <2>11, <2>12, <2>13, <2>14, <2>15
          DEF InferStep
<1>3. ASSUME NEW t \in Controllers, Control(t) PROVE FailureIsSticky'
  <2>1. CASE Start(t)
    BY <2>1 DEF Start
  <2>2. CASE FinishInput(t)
    BY <2>2 DEF FinishInput
  <2>3. CASE Abort(t)
    BY <2>3 DEF Abort, AbortEffect, DiscardSlot
  <2>4. CASE CloseFirst(t)
    BY <2>4 DEF CloseFirst, AbortEffect, DiscardSlot, MayClose
  <2>5. CASE CloseAgain(t)
    BY <2>5 DEF CloseAgain, MayClose
  <2> QED BY <1>3, <2>1, <2>2, <2>3, <2>4, <2>5 DEF Control
<1>4. ASSUME NEW t \in Threads, CloseStep(t) \/ CloseInterrupted(t)
      PROVE  FailureIsSticky'
  <2>1. CASE CloseWait(t)
    BY <2>1 DEF CloseWait
  <2>2. CASE CloseLock(t)
    BY <2>2 DEF CloseLock
  <2>3. CASE CloseRelease(t)
    BY <2>3 DEF CloseRelease
  <2>4. CASE CloseSet(t)
    BY <2>4 DEF CloseSet
  <2>5. CASE CloseInterrupted(t)
    BY <2>5 DEF CloseInterrupted
  <2> QED BY <1>4, <2>1, <2>2, <2>3, <2>4, <2>5 DEF CloseStep
<1>5. CASE OtherPipeline
  BY <1>5 DEF OtherPipeline
<1>6. CASE UNCHANGED vars
  BY <1>6
<1> QED BY <1>1, <1>2, <1>3, <1>4, <1>5, <1>6 DEF Next

(***************************************************************************)
(* A failed drain poisons the session.                                     *)
(***************************************************************************)
LEMMA PoisonStep ==
  ASSUME TypeOK, PoisonPending, [Next]_vars
  PROVE  PoisonPending'
<1> USE NoneAssumption, FrameAssumption
        DEF TypeOK, PoisonPending, Goto, Threads
<1>1. ASSUME NEW t \in Producers, Submit(t) PROVE PoisonPending'
  <2>1. CASE SubmitBegin(t)
    BY <2>1 DEF SubmitBegin
  <2>2. CASE SubmitRefused(t)
    BY <2>2 DEF SubmitRefused
  <2>3. ASSUME NEW frame \in Frames, SubmitPublish(t, frame)
        PROVE  PoisonPending'
    BY <2>3 DEF SubmitPublish, Put
  <2> QED BY <1>1, <2>1, <2>2, <2>3 DEF Submit
<1>2. ASSUME NEW t \in Consumers, InferNext(t) \/ InferStep(t)
      PROVE  PoisonPending'
  <2>1. CASE InferNext(t)
    BY <2>1 DEF InferNext
  <2>2. CASE TakeFrame(t)
    BY <2>2 DEF TakeFrame
  <2>3. CASE Drained(t)
    BY <2>3 DEF Drained
  <2>4. CASE LockInference(t)
    BY <2>4 DEF LockInference
  <2>5. CASE SkipFrame(t)
    BY <2>5 DEF SkipFrame
  <2>6. CASE BeginInference(t)
    BY <2>6 DEF BeginInference
  <2>7. CASE InferReturns(t)
    BY <2>7 DEF InferReturns
  <2>8. CASE InferRaises(t)
    BY <2>8 DEF InferRaises
  <2>9. CASE RecordFailure(t)
    BY <2>9 DEF RecordFailure
  <2>10. CASE AbortOnFailure(t)
    BY <2>10 DEF AbortOnFailure, AbortEffect, DiscardSlot
  <2>11. CASE Drain(t)
    BY <2>11 DEF Drain
  <2>12. CASE Poison(t)
    BY <2>12 DEF Poison
  <2>13. CASE Disown(t)
    BY <2>13 DEF Disown
  <2>14. CASE CountOutput(t)
    BY <2>14 DEF CountOutput
  <2>15. CASE UnlockInference(t)
    BY <2>15 DEF UnlockInference
  <2> QED BY <1>2, <2>1, <2>2, <2>3, <2>4, <2>5, <2>6, <2>7, <2>8, <2>9,
             <2>10, <2>11, <2>12, <2>13, <2>14, <2>15
          DEF InferStep
<1>3. ASSUME NEW t \in Controllers, Control(t) PROVE PoisonPending'
  <2>1. CASE Start(t)
    BY <2>1 DEF Start
  <2>2. CASE FinishInput(t)
    BY <2>2 DEF FinishInput
  <2>3. CASE Abort(t)
    BY <2>3 DEF Abort, AbortEffect, DiscardSlot
  <2>4. CASE CloseFirst(t)
    BY <2>4 DEF CloseFirst, AbortEffect, DiscardSlot, MayClose
  <2>5. CASE CloseAgain(t)
    BY <2>5 DEF CloseAgain, MayClose
  <2> QED BY <1>3, <2>1, <2>2, <2>3, <2>4, <2>5 DEF Control
<1>4. ASSUME NEW t \in Threads, CloseStep(t) \/ CloseInterrupted(t)
      PROVE  PoisonPending'
  <2>1. CASE CloseWait(t)
    BY <2>1 DEF CloseWait
  <2>2. CASE CloseLock(t)
    BY <2>2 DEF CloseLock
  <2>3. CASE CloseRelease(t)
    BY <2>3 DEF CloseRelease
  <2>4. CASE CloseSet(t)
    BY <2>4 DEF CloseSet
  <2>5. CASE CloseInterrupted(t)
    BY <2>5 DEF CloseInterrupted
  <2> QED BY <1>4, <2>1, <2>2, <2>3, <2>4, <2>5 DEF CloseStep
<1>5. CASE OtherPipeline
  BY <1>5 DEF OtherPipeline
<1>6. CASE UNCHANGED vars
  BY <1>6
<1> QED BY <1>1, <1>2, <1>3, <1>4, <1>5, <1>6 DEF Next

(***************************************************************************)
(* The close barrier, for closes that no signal interrupts.                *)
(***************************************************************************)
LEMMA BarrierStep ==
  ASSUME TypeOK, FlagsAgree, ConsumerAgrees, OwnerIsExact, CloseAgrees,
         BarrierAgrees, CloseIsBarrier, Interruptible = {}, [Next]_vars
  PROVE  (BarrierAgrees /\ CloseIsBarrier)'
<1> USE NoneAssumption, FrameAssumption
        DEF TypeOK, FlagsAgree, ConsumerAgrees, OwnerIsExact, CloseAgrees,
            BarrierAgrees, CloseIsBarrier, CloseWaitsForInference, Goto,
            Consuming, Locking, Owning, Threads
<1>1. ASSUME NEW t \in Producers, Submit(t)
      PROVE  (BarrierAgrees /\ CloseIsBarrier)'
  <2>1. CASE SubmitBegin(t)
    BY <2>1 DEF SubmitBegin
  <2>2. CASE SubmitRefused(t)
    BY <2>2 DEF SubmitRefused
  <2>3. ASSUME NEW frame \in Frames, SubmitPublish(t, frame)
        PROVE  (BarrierAgrees /\ CloseIsBarrier)'
    BY <2>3 DEF SubmitPublish, Put
  <2> QED BY <1>1, <2>1, <2>2, <2>3 DEF Submit
<1>2. ASSUME NEW t \in Consumers, InferNext(t) \/ InferStep(t)
      PROVE  (BarrierAgrees /\ CloseIsBarrier)'
  <2>1. CASE InferNext(t)
    BY <2>1 DEF InferNext
  <2>2. CASE TakeFrame(t)
    BY <2>2 DEF TakeFrame
  <2>3. CASE Drained(t)
    BY <2>3 DEF Drained
  <2>4. CASE LockInference(t)
    BY <2>4 DEF LockInference
  <2>5. CASE SkipFrame(t)
    BY <2>5 DEF SkipFrame
  <2>6. CASE BeginInference(t)
    BY <2>6 DEF BeginInference
  <2>7. CASE InferReturns(t)
    BY <2>7 DEF InferReturns
  <2>8. CASE InferRaises(t)
    BY <2>8 DEF InferRaises
  <2>9. CASE RecordFailure(t)
    BY <2>9 DEF RecordFailure
  <2>10. CASE AbortOnFailure(t)
    BY <2>10 DEF AbortOnFailure, AbortEffect, DiscardSlot
  <2>11. CASE Drain(t)
    BY <2>11 DEF Drain
  <2>12. CASE Poison(t)
    BY <2>12 DEF Poison
  <2>13. CASE Disown(t)
    BY <2>13 DEF Disown
  <2>14. CASE CountOutput(t)
    BY <2>14 DEF CountOutput
  <2>15. CASE UnlockInference(t)
    BY <2>15 DEF UnlockInference
  <2> QED BY <1>2, <2>1, <2>2, <2>3, <2>4, <2>5, <2>6, <2>7, <2>8, <2>9,
             <2>10, <2>11, <2>12, <2>13, <2>14, <2>15
          DEF InferStep
<1>3. ASSUME NEW t \in Controllers, Control(t)
      PROVE  (BarrierAgrees /\ CloseIsBarrier)'
  <2>1. CASE Start(t)
    BY <2>1 DEF Start
  <2>2. CASE FinishInput(t)
    BY <2>2 DEF FinishInput
  <2>3. CASE Abort(t)
    BY <2>3 DEF Abort, AbortEffect, DiscardSlot
  <2>4. CASE CloseFirst(t)
    BY <2>4 DEF CloseFirst, AbortEffect, DiscardSlot, MayClose
  <2>5. CASE CloseAgain(t)
    BY <2>5 DEF CloseAgain, MayClose
  <2> QED BY <1>3, <2>1, <2>2, <2>3, <2>4, <2>5 DEF Control
<1>4. ASSUME NEW t \in Threads, CloseStep(t) \/ CloseInterrupted(t)
      PROVE  (BarrierAgrees /\ CloseIsBarrier)'
  <2>1. CASE CloseWait(t)
    BY <2>1 DEF CloseWait
  <2>2. CASE CloseLock(t)
    BY <2>2 DEF CloseLock
  <2>3. CASE CloseRelease(t)
    BY <2>3 DEF CloseRelease
  <2>4. CASE CloseSet(t)
    BY <2>4 DEF CloseSet
  <2>5. CASE CloseInterrupted(t)
    BY <2>5 DEF CloseInterrupted
  <2> QED BY <1>4, <2>1, <2>2, <2>3, <2>4, <2>5 DEF CloseStep
<1>5. CASE OtherPipeline
  BY <1>5 DEF OtherPipeline
<1>6. CASE UNCHANGED vars
  BY <1>6
<1> QED BY <1>1, <1>2, <1>3, <1>4, <1>5, <1>6 DEF Next

(***************************************************************************)
(* The invariant holds of every behaviour.                                 *)
(***************************************************************************)
LEMMA SafetyInit == Init => SafetyInv
<1> SUFFICES ASSUME Init PROVE SafetyInv
  OBVIOUS
<1> USE NoneAssumption, BoundAssumption DEF Init, Threads
<1>1. /\ pc \in [Threads -> Steps]
      /\ counts \in [Counters -> Nat]
      /\ nextSequence \in 0..MaxSequence + 1 /\ lastResult \in -1..MaxSequence
  BY DEF Counters, Steps
<1>2. TypeOK
  BY <1>1 DEF TypeOK
<1>3. FlagsAgree /\ ConsumerAgrees /\ OwnerIsExact /\ CloseAgrees
  BY DEF FlagsAgree, ConsumerAgrees, OwnerIsExact, CloseAgrees, Consuming,
         Locking, Holding, Owning
<1>4. FramesAccounted /\ FramesInOrder
  BY DEF FramesAccounted, FramesInOrder, Present, Counters
<1>5. FailureIsSticky /\ PoisonPending
  BY DEF FailureIsSticky, PoisonPending
<1> QED BY <1>2, <1>3, <1>4, <1>5 DEF SafetyInv

LEMMA SafetyStep == SafetyInv /\ [Next]_vars => SafetyInv'
BY FlagsStep, TypeStep, ConsumerStep, OwnerStep, CloseInvStep, AccountStep,
   OrderStep, FailureStep, PoisonStep DEF SafetyInv

(* Every reachable state satisfies the whole inductive invariant, and with *)
(* it types, frame accounting, source order, the identity of the inference *)
(* owner and the finality of a failure.                                    *)
THEOREM Safety == Spec => []SafetyInv
BY SafetyInit, SafetyStep, PTL DEF Spec

(* Every variable keeps its type.                                          *)
THEOREM TypeCorrect == Spec => []TypeOK
<1>1. SafetyInv => TypeOK
  BY DEF SafetyInv
<1> QED BY <1>1, Safety, PTL

(* No accepted frame is lost or counted twice.                             *)
THEOREM Accounting == Spec => []FramesAccounted
<1>1. SafetyInv => FramesAccounted
  BY DEF SafetyInv
<1> QED BY <1>1, Safety, PTL

(* Frames never overtake each other between submit and the result.         *)
THEOREM Ordering == Spec => []FramesInOrder
<1>1. SafetyInv => FramesInOrder
  BY DEF SafetyInv
<1> QED BY <1>1, Safety, PTL

(* After a failure infer_next raises: it does not wait, infer, or report a *)
(* clean end of input.                                                     *)
THEOREM FailureSticks == Spec => []FailureIsSticky
<1>1. SafetyInv => FailureIsSticky
  BY DEF SafetyInv
<1> QED BY <1>1, Safety, PTL

(* close's own-thread check sees exactly the thread that infers.           *)
THEOREM OwnerExact == Spec => []OwnerIsExact
<1>1. SafetyInv => OwnerIsExact
  BY DEF SafetyInv
<1> QED BY <1>1, Safety, PTL

(* The session stays claimed throughout every inference, also when a       *)
(* signal interrupts a close.                                              *)
THEOREM ClaimCovers == Spec => []ClaimCoversInference
<1>1. SafetyInv => ClaimCoversInference
  BY DEF SafetyInv, ClaimCoversInference, CloseAgrees, ConsumerAgrees,
         Consuming, Locking
<1> QED BY <1>1, Safety, PTL

(* The poison mark precedes the release of the claim.                      *)
THEOREM PoisonFirst == Spec => []PoisonBeforeRelease
<1>1. SafetyInv => PoisonBeforeRelease
  BY DEF SafetyInv, PoisonBeforeRelease, PoisonPending, CloseAgrees,
         ConsumerAgrees, Consuming, Locking, Owning
<1> QED BY <1>1, Safety, PTL

(* A completed close is a barrier, provided no signal interrupts a close.  *)
THEOREM CloseBarrier ==
  ASSUME Interruptible = {}
  PROVE  Spec => []CloseIsBarrier
<1> DEFINE Inv == SafetyInv /\ BarrierAgrees /\ CloseIsBarrier
<1>1. Init => BarrierAgrees /\ CloseIsBarrier
  BY DEF Init, BarrierAgrees, CloseIsBarrier, Threads
<1>2. SafetyInv /\ BarrierAgrees /\ CloseIsBarrier /\ [Next]_vars
        => BarrierAgrees' /\ CloseIsBarrier'
  BY BarrierStep DEF SafetyInv
<1> QED BY <1>1, <1>2, Safety, PTL DEF Spec

(* Results are returned in strictly increasing source order.               *)
THEOREM ResultOrder == Spec => ResultsIncrease
<1>1. SafetyInv /\ [Next]_vars =>
        [lastResult' # lastResult => lastResult' > lastResult]_vars
  <2> SUFFICES ASSUME SafetyInv, Next, lastResult' # lastResult
               PROVE  lastResult' > lastResult
    BY DEF SafetyInv
  <2>1. PICK t \in Consumers : CountOutput(t)
    BY DEF Next, Submit, SubmitBegin, SubmitRefused, SubmitPublish, InferNext,
           InferStep, TakeFrame, Drained, LockInference, SkipFrame,
           BeginInference, InferReturns, InferRaises, RecordFailure,
           AbortOnFailure, Drain, Poison, Disown, UnlockInference, Control,
           Start, FinishInput, Abort, CloseFirst, CloseAgain, CloseStep,
           CloseWait, CloseLock, CloseRelease, CloseSet, CloseInterrupted,
           OtherPipeline
  <2>2. inFlight # None
    BY <2>1 DEF CountOutput, SafetyInv, ConsumerAgrees, Holding, Threads
  <2> QED BY <2>1, <2>2
          DEF CountOutput, SafetyInv, FramesInOrder, TypeOK, Frames
<1> QED BY <1>1, Safety, PTL DEF Spec, ResultsIncrease

(***************************************************************************)
(* The pipeline implements the abstract latest-frame queue.                *)
(***************************************************************************)
(* The step-simulation lemmas.  Abstract stuttering needs only that the    *)
(* mapped expressions keep their values.                                   *)
LEMMA RefinementStep ==
  ASSUME SafetyInv, [Next]_vars
  PROVE  [Fresh!Next]_Fresh!vars
<1> USE NoneAssumption, FrameAssumption, BoundAssumption
        DEF SafetyInv, TypeOK, ConsumerAgrees, FlagsAgree, Goto, Holding,
            Locking, Consuming, Owning, Threads, Fresh!vars
<1>1. ASSUME NEW t \in Producers, Submit(t)
      PROVE  [Fresh!Next]_Fresh!vars
  <2>1. CASE SubmitBegin(t)
    BY <2>1 DEF SubmitBegin
  <2>2. CASE SubmitRefused(t)
    BY <2>2 DEF SubmitRefused
  <2>3. ASSUME NEW frame \in Frames, SubmitPublish(t, frame)
        PROVE  [Fresh!Next]_Fresh!vars
    BY <2>3 DEF SubmitPublish, Put, Fresh!Next, Fresh!Accept, Frames
  <2> QED BY <1>1, <2>1, <2>2, <2>3 DEF Submit
<1>2. ASSUME NEW t \in Consumers, InferNext(t) \/ InferStep(t)
      PROVE  [Fresh!Next]_Fresh!vars
  <2>1. CASE InferNext(t)
    BY <2>1 DEF InferNext
  <2>2. CASE TakeFrame(t)
    BY <2>2 DEF TakeFrame, Fresh!Next, Fresh!Take, Frames
  <2>3. CASE Drained(t)
    BY <2>3 DEF Drained
  <2>4. CASE LockInference(t)
    BY <2>4 DEF LockInference
  <2>5. CASE SkipFrame(t)
    BY <2>5 DEF SkipFrame, Fresh!Next, Fresh!Lose, Frames
  <2>6. CASE BeginInference(t)
    BY <2>6 DEF BeginInference, Fresh!Next, Fresh!Run, Frames
  <2>7. CASE InferReturns(t)
    BY <2>7 DEF InferReturns
  <2>8. CASE InferRaises(t)
    BY <2>8 DEF InferRaises, Fresh!Next, Fresh!Lose, Frames
  <2>9. CASE RecordFailure(t)
    BY <2>9 DEF RecordFailure
  <2>10. CASE AbortOnFailure(t)
    BY <2>10 DEF AbortOnFailure, AbortEffect, DiscardSlot, Fresh!Next,
                    Fresh!Stop, Frames
  <2>11. CASE Drain(t)
    BY <2>11 DEF Drain
  <2>12. CASE Poison(t)
    BY <2>12 DEF Poison
  <2>13. CASE Disown(t)
    BY <2>13 DEF Disown
  <2>14. CASE CountOutput(t)
    BY <2>14 DEF CountOutput, Fresh!Next, Fresh!Deliver, Frames
  <2>15. CASE UnlockInference(t)
    BY <2>15 DEF UnlockInference
  <2> QED BY <1>2, <2>1, <2>2, <2>3, <2>4, <2>5, <2>6, <2>7, <2>8, <2>9,
             <2>10, <2>11, <2>12, <2>13, <2>14, <2>15 DEF InferStep
<1>3. ASSUME NEW t \in Controllers, Control(t)
      PROVE  [Fresh!Next]_Fresh!vars
  <2>1. CASE Start(t)
    BY <2>1 DEF Start
  <2>2. CASE FinishInput(t)
    BY <2>2 DEF FinishInput, Fresh!Next, Fresh!Finish, Frames
  <2>3. CASE Abort(t)
    BY <2>3 DEF Abort, AbortEffect, DiscardSlot, Fresh!Next, Fresh!Stop,
                    Frames
  <2>4. CASE CloseFirst(t)
    BY <2>4 DEF CloseFirst, AbortEffect, DiscardSlot, MayClose, OwnerIsExact,
                    Fresh!Next, Fresh!Stop, Frames
  <2>5. CASE CloseAgain(t)
    BY <2>5 DEF CloseAgain, MayClose
  <2> QED BY <1>3, <2>1, <2>2, <2>3, <2>4, <2>5 DEF Control
<1>4. ASSUME NEW t \in Threads, CloseStep(t) \/ CloseInterrupted(t)
      PROVE  [Fresh!Next]_Fresh!vars
  <2>1. CASE CloseWait(t)
    BY <2>1 DEF CloseWait
  <2>2. CASE CloseLock(t)
    BY <2>2 DEF CloseLock
  <2>3. CASE CloseRelease(t)
    BY <2>3 DEF CloseRelease
  <2>4. CASE CloseSet(t)
    BY <2>4 DEF CloseSet
  <2>5. CASE CloseInterrupted(t)
    BY <2>5 DEF CloseInterrupted
  <2> QED BY <1>4, <2>1, <2>2, <2>3, <2>4, <2>5 DEF CloseStep
<1>5. CASE OtherPipeline
  BY <1>5 DEF OtherPipeline
<1>6. CASE UNCHANGED vars
  BY <1>6
<1> QED BY <1>1, <1>2, <1>3, <1>4, <1>5, <1>6 DEF Next

(* Every behaviour of the pipeline is, threads and locks hidden, one of    *)
(* the FreshFrames queue.                                                  *)
THEOREM Refinement == Spec => ImplementsFreshFrames
<1>1. Init => Fresh!Init
  BY DEF Init, Fresh!Init
<1>2. SafetyInv /\ [Next]_vars => [Fresh!Next]_Fresh!vars
  BY RefinementStep
<1> QED BY <1>1, <1>2, Safety, PTL DEF Spec, ImplementsFreshFrames, Fresh!Spec
=============================================================================
