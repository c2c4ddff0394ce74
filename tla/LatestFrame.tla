---------------------------- MODULE LatestFrame ----------------------------
(***************************************************************************)
(* LatestFramePipeline (src/tracker/latest_frame.py): a capacity-one,      *)
(* newest-wins slot between capture threads and the single thread that may *)
(* run SAM3Live.infer.                                                     *)
(*                                                                         *)
(* The grain of atomicity is the critical section: everything a thread     *)
(* does while it holds _state_lock, _failure_lock, _LIVE_CLAIM_LOCK or the *)
(* slot's condition is one step.  The slot's condition is only ever taken  *)
(* alone (get) or inside _state_lock (put, close), so nesting it adds no   *)
(* step.  _inference_lock spans many steps and is a variable.              *)
(*                                                                         *)
(* A frame is its source sequence number and whether it carries            *)
(* full_detection=True; pixels, timestamps and metadata are left out.      *)
(* A call that raises before it changes anything is not a step.            *)
(*                                                                         *)
(* A definition that precedes another and is used nowhere             *)
(* (DiscardUncounted, CloseLockTimesOut, ...) is that definition with one  *)
(* mistake in it; the properties must tell the two apart.                  *)
(***************************************************************************)
EXTENDS Integers

CONSTANTS
  Producers,      \* threads that call submit
  Consumers,      \* threads that call infer_next (only one is let in)
  Controllers,    \* threads that call start, finish_input, abort and close
  Interruptible,  \* threads a signal may interrupt while they wait in close
  ReentrantClose, \* does live.infer call back into close on its own thread?
  MaxSequence,    \* bound: the largest source sequence ever submitted
  None            \* no thread, no frame

Threads == Producers \cup Consumers \cup Controllers

ASSUME NoneAssumption == None \notin Threads
ASSUME BoundAssumption == MaxSequence \in Nat
ASSUME ReentrantAssumption == ReentrantClose \in BOOLEAN
ASSUME InterruptAssumption == Interruptible \subseteq Controllers

Frames == [seq : 0..MaxSequence, full : BOOLEAN]

ASSUME FrameAssumption == None \notin Frames \cup (0..MaxSequence)

VARIABLES
  started, inputClosed, aborted, closed,  \* the pipeline's life-cycle flags
  slot, slotClosed,         \* _raw: the queued frame, and whether it is closed
  failed, drainFailed,      \* _failure is set; the GPU drain failed too
  consumer,                 \* _consumer_thread_id
  nextSequence,             \* _next_sequence
  forcePending,             \* _force_detection_pending
  inferenceLock, owner,     \* the lock's holder; _inference_owner_thread_id
  closeComplete,            \* the event close() waits on
  counts,                   \* the counters behind stats()
  active, poisoned,         \* the marks start and a failed drain leave on live
  inFlight,                 \* frame taken from the slot and not yet counted
  fullDetection,            \* the full_detection argument given to live.infer
  lastResult,               \* history: sequence of the newest counted output
  pc                        \* where each thread stands

flags     == <<started, inputClosed, aborted, closed>>
slotVars  == <<slot, slotClosed>>
faultVars == <<failed, drainFailed>>
lockVars  == <<inferenceLock, owner>>
liveVars  == <<active, poisoned>>
inputVars == <<nextSequence, forcePending>>
outVars   == <<fullDetection, lastResult>>

\* Everything but the program counters: what a step of pure control leaves.
state == <<flags, slotVars, faultVars, consumer, inputVars, lockVars,
           closeComplete, counts, liveVars, inFlight, outVars>>
vars == <<state, pc>>

Counters == {"submitted", "outputs", "dropped", "failed", "aborted"}

\* Program counters of a thread inside live.infer, or past it and still owner.
Owning == {"infer", "reentrantWait", "fail", "abort", "drain",
           "poison", "disown", "disownFailed"}
\* Program counters of a consumer with a frame that is not yet counted.
Holding == {"lock", "claim", "infer", "reentrantWait", "disown", "count"}
Closing == {"closeLock", "closeRelease", "closeSet", "closeWait"}
Steps == {"idle", "publish", "get", "lock", "claim", "count", "unlock"}
           \cup Owning \cup Closing

Goto(t, to) == pc' = [pc EXCEPT ![t] = to]
Bump(c) == counts' = [counts EXCEPT ![c] = @ + 1]

Init ==
  /\ started = FALSE /\ inputClosed = FALSE
  /\ aborted = FALSE /\ closed = FALSE
  /\ slot = None /\ slotClosed = FALSE
  /\ failed = FALSE /\ drainFailed = FALSE
  /\ consumer = None
  /\ nextSequence = 0
  /\ forcePending = FALSE
  /\ inferenceLock = None /\ owner = None
  /\ closeComplete = FALSE
  /\ counts = [c \in Counters |-> 0]
  /\ active = "none" /\ poisoned = FALSE
  /\ inFlight = None /\ fullDetection = FALSE
  /\ lastResult = -1
  /\ pc = [t \in Threads |-> "idle"]

-----------------------------------------------------------------------------
(* start: claim the live session unless someone else holds it.             *)

Start(t) ==
  /\ pc[t] = "idle"
  /\ ~closed /\ ~started /\ ~inputClosed /\ ~aborted
  /\ ~poisoned /\ active = "none"
  /\ active' = "self"
  /\ started' = TRUE
  /\ UNCHANGED <<inputClosed, aborted, closed, slotVars, faultVars, consumer,
                 inputVars, lockVars, closeComplete, counts, poisoned,
                 inFlight, outVars, pc>>

(* Other pipelines on the same live session follow the same protocol.      *)
OtherPipeline ==
  /\ \/ active = "none" /\ ~poisoned /\ active' = "other" /\ UNCHANGED poisoned
     \/ active = "other" /\ active' = "none" /\ UNCHANGED poisoned
     \/ active = "other" /\ poisoned' = TRUE /\ UNCHANGED active
  /\ UNCHANGED <<flags, slotVars, faultVars, consumer, inputVars, lockVars,
                 closeComplete, counts, inFlight, outVars, pc>>

-----------------------------------------------------------------------------
(* submit: check, copy the frame outside the lock, check again, publish.   *)

SubmitBegin(t) ==
  /\ pc[t] = "idle"
  /\ ~failed /\ started /\ ~inputClosed /\ ~closed
  /\ Goto(t, "publish")
  /\ UNCHANGED state

(* Source sequences are monotonic.                                         *)
InSequence(sequence) == sequence >= nextSequence

(* Input closed or a failure recorded while the frame was copied, or a     *)
(* sequence that runs backwards.  The failure is looked up before the state*)
(* lock is taken, so one recorded in between does not stop SubmitPublish.  *)
SubmitRefused(t) ==
  /\ pc[t] = "publish"
  /\ \/ failed \/ inputClosed \/ closed
     \/ \E sequence \in -1..MaxSequence : ~InSequence(sequence)
  /\ Goto(t, "idle")
  /\ UNCHANGED state

(* _LatestSlot.put: the queued frame, if any, is replaced and dropped.     *)
Put(frame) ==
  IF slotClosed
  THEN UNCHANGED <<slot, counts>>
  ELSE /\ slot' = frame
       /\ counts' = [counts EXCEPT
                       !["submitted"] = @ + 1,
                       !["dropped"] = @ + (IF slot = None THEN 0 ELSE 1)]

SubmitPublish(t, frame) ==
  /\ pc[t] = "publish"
  /\ ~inputClosed /\ ~closed
  /\ InSequence(frame.seq)
  /\ nextSequence' = frame.seq + 1
  /\ forcePending' = (forcePending \/ frame.full)
  /\ Put(frame)
  /\ Goto(t, "idle")
  /\ UNCHANGED <<flags, slotClosed, faultVars, consumer, lockVars,
                 closeComplete, liveVars, inFlight, outVars>>

-----------------------------------------------------------------------------
(* finish_input, abort, and the discarding close of the slot.              *)

FinishInput(t) ==
  /\ pc[t] = "idle"
  /\ ~inputClosed
  /\ inputClosed' = TRUE
  /\ slotClosed' = TRUE
  /\ UNCHANGED <<started, aborted, closed, slot, faultVars, consumer,
                 inputVars, lockVars, closeComplete, counts, liveVars,
                 inFlight, outVars, pc>>

DiscardUncounted ==
  /\ slotClosed' = TRUE
  /\ slot' = None
  /\ UNCHANGED counts

DiscardSlot ==
  /\ slotClosed' = TRUE
  /\ slot' = None
  /\ counts' = [counts EXCEPT !["aborted"] = @ + (IF slot = None THEN 0 ELSE 1)]

AbortEffect ==
  /\ inputClosed' = TRUE
  /\ aborted' = TRUE
  /\ DiscardSlot

Abort(t) ==
  /\ pc[t] = "idle"
  /\ AbortEffect
  /\ UNCHANGED <<started, closed, faultVars, consumer, inputVars, lockVars,
                 closeComplete, liveVars, inFlight, outVars, pc>>

-----------------------------------------------------------------------------
(* infer_next on the bound consumer thread.                                *)

InferNextIgnoringFailure(t) ==
  /\ pc[t] = "idle"
  /\ started
  /\ consumer \in {None, t}
  /\ consumer' = t
  /\ Goto(t, "get")
  /\ UNCHANGED <<flags, slotVars, faultVars, inputVars, lockVars,
                 closeComplete, counts, liveVars, inFlight, outVars>>

BindConsumer(t) == consumer \in {None, t} /\ consumer' = t

InferNext(t) ==
  /\ pc[t] = "idle"
  /\ started
  /\ BindConsumer(t)
  /\ Goto(t, IF failed THEN "idle" ELSE "get")
  /\ UNCHANGED <<flags, slotVars, faultVars, inputVars, lockVars,
                 closeComplete, counts, liveVars, inFlight, outVars>>

(* _LatestSlot.get: wait on the condition while the slot is open and empty.*)
TakeFrame(t) ==
  /\ pc[t] = "get"
  /\ slot # None
  /\ inFlight' = slot
  /\ slot' = None
  /\ Goto(t, "lock")
  /\ UNCHANGED <<flags, slotClosed, faultVars, consumer, inputVars, lockVars,
                 closeComplete, counts, liveVars, outVars>>

DrainedOnAbortOnly(t) ==
  pc[t] = "get" /\ slot = None /\ aborted /\ Goto(t, "idle") /\ UNCHANGED state

Drained(t) ==
  /\ pc[t] = "get"
  /\ slot = None /\ slotClosed
  /\ Goto(t, "idle")
  /\ UNCHANGED state

LockInference(t) ==
  /\ pc[t] = "lock"
  /\ inferenceLock = None
  /\ inferenceLock' = t
  /\ Goto(t, "claim")
  /\ UNCHANGED <<flags, slotVars, faultVars, consumer, inputVars, owner,
                 closeComplete, counts, liveVars, inFlight, outVars>>

StoppedByCloseOnly == closed
Stopped == aborted \/ closed

(* The frame was overtaken by abort or close: count it and do not infer.   *)
SkipFrame(t) ==
  /\ pc[t] = "claim"
  /\ Stopped
  /\ Bump("aborted")
  /\ inFlight' = None
  /\ Goto(t, "unlock")
  /\ UNCHANGED <<flags, slotVars, faultVars, consumer, inputVars, lockVars,
                 closeComplete, liveVars, outVars>>

(* Become the owner; a latched detection request joins the frame's own.    *)
BeginInference(t) ==
  /\ pc[t] = "claim"
  /\ ~Stopped
  /\ owner' = t
  /\ fullDetection' = (inFlight.full \/ forcePending)
  /\ forcePending' = FALSE
  /\ Goto(t, "infer")
  /\ UNCHANGED <<flags, slotVars, faultVars, consumer, nextSequence,
                 inferenceLock, closeComplete, counts, liveVars, inFlight,
                 lastResult>>

InferReturns(t) ==
  /\ pc[t] = "infer"
  /\ Goto(t, "disown")
  /\ UNCHANGED state

InferRaises(t) ==
  /\ pc[t] = "infer"
  /\ Bump("failed")
  /\ inFlight' = None
  /\ Goto(t, "fail")
  /\ UNCHANGED <<flags, slotVars, faultVars, consumer, inputVars, lockVars,
                 closeComplete, liveVars, outVars>>

(* _fail: record the first failure, then abort.                            *)
RecordFailure(t) ==
  /\ pc[t] = "fail"
  /\ failed' = TRUE
  /\ Goto(t, "abort")
  /\ UNCHANGED <<flags, slotVars, drainFailed, consumer, inputVars, lockVars,
                 closeComplete, counts, liveVars, inFlight, outVars>>

AbortOnFailure(t) ==
  /\ pc[t] = "abort"
  /\ AbortEffect
  /\ Goto(t, "drain")
  /\ UNCHANGED <<started, closed, faultVars, consumer, inputVars, lockVars,
                 closeComplete, liveVars, inFlight, outVars>>

(* _drain_inference_device: wait for the GPU, or poison the live session.  *)
Drain(t) ==
  /\ pc[t] = "drain"
  /\ \/ Goto(t, "disownFailed") /\ UNCHANGED drainFailed
     \/ Goto(t, "poison") /\ drainFailed' = TRUE
  /\ UNCHANGED <<flags, slotVars, failed, consumer, inputVars, lockVars,
                 closeComplete, counts, liveVars, inFlight, outVars>>

Poison(t) ==
  /\ pc[t] = "poison"
  /\ poisoned' = TRUE
  /\ failed' = TRUE
  /\ Goto(t, "disownFailed")
  /\ UNCHANGED <<flags, slotVars, drainFailed, consumer, inputVars, lockVars,
                 closeComplete, counts, active, inFlight, outVars>>

(* The finally clause, on the normal and on the raising path.              *)
Disown(t) ==
  /\ \/ pc[t] = "disown" /\ Goto(t, "count")
     \/ pc[t] = "disownFailed" /\ Goto(t, "unlock")
  /\ owner' = None
  /\ UNCHANGED <<flags, slotVars, faultVars, consumer, inputVars,
                 inferenceLock, closeComplete, counts, liveVars,
                 inFlight, outVars>>

CountOutput(t) ==
  /\ pc[t] = "count"
  /\ Bump("outputs")
  /\ lastResult' = inFlight.seq
  /\ inFlight' = None
  /\ Goto(t, "unlock")
  /\ UNCHANGED <<flags, slotVars, faultVars, consumer, inputVars, lockVars,
                 closeComplete, liveVars, fullDetection>>

(* Leave the lock's with block and return, or re-raise.                    *)
UnlockInference(t) ==
  /\ pc[t] = "unlock"
  /\ inferenceLock' = None
  /\ Goto(t, "idle")
  /\ UNCHANGED <<flags, slotVars, faultVars, consumer, inputVars, owner,
                 closeComplete, counts, liveVars, inFlight, outVars>>

-----------------------------------------------------------------------------
(* close: the first caller does the work, later callers wait for it.       *)
(* live.infer may call back on its own thread.  (A re-entrant submit,      *)
(* abort or finish_input is the same step as another thread's, so only     *)
(* close, which can wait, is given to it.)                                 *)

CalledFromInference(t) == owner = t

MayClose(t) == pc[t] = "idle" \/ (ReentrantClose /\ pc[t] = "infer")

CloseFirst(t) ==
  /\ MayClose(t)
  /\ ~closed
  /\ ~CalledFromInference(t)
  /\ closed' = TRUE
  /\ AbortEffect
  /\ Goto(t, "closeLock")
  /\ UNCHANGED <<started, faultVars, consumer, inputVars, lockVars,
                 closeComplete, liveVars, inFlight, outVars>>

CloseAgain(t) ==
  /\ MayClose(t)
  /\ closed
  /\ Goto(t, IF pc[t] = "infer" THEN "reentrantWait" ELSE "closeWait")
  /\ UNCHANGED state

CloseWait(t) ==
  /\ closeComplete
  /\ \/ pc[t] = "closeWait" /\ Goto(t, "idle")
     \/ pc[t] = "reentrantWait" /\ Goto(t, "infer")
  /\ UNCHANGED state

(* Acquire and release _inference_lock: no inference is running now.       *)
CloseLockTimesOut(t) ==
  pc[t] = "closeLock" /\ Goto(t, "closeRelease") /\ UNCHANGED state

CloseLock(t) ==
  /\ pc[t] = "closeLock"
  /\ inferenceLock = None
  /\ Goto(t, "closeRelease")
  /\ UNCHANGED state

(* A signal raises in the lock wait: only the finally clause still runs.   *)
CloseInterrupted(t) ==
  /\ t \in Interruptible
  /\ pc[t] = "closeLock"
  /\ Goto(t, "closeSet")
  /\ UNCHANGED state

CloseReleaseForgotten(t) ==
  pc[t] = "closeRelease" /\ Goto(t, "closeSet") /\ UNCHANGED state

CloseRelease(t) ==
  /\ pc[t] = "closeRelease"
  /\ active' = (IF active = "self" THEN "none" ELSE active)
  /\ Goto(t, "closeSet")
  /\ UNCHANGED <<flags, slotVars, faultVars, consumer, inputVars, lockVars,
                 closeComplete, counts, poisoned, inFlight, outVars>>

CloseSetForgotten(t) ==
  pc[t] = "closeSet" /\ Goto(t, "idle") /\ UNCHANGED state

CloseSet(t) ==
  /\ pc[t] = "closeSet"
  /\ closeComplete' = TRUE
  /\ Goto(t, "idle")
  /\ UNCHANGED <<flags, slotVars, faultVars, consumer, inputVars, lockVars,
                 counts, liveVars, inFlight, outVars>>

-----------------------------------------------------------------------------
Submit(t) ==
  \/ SubmitBegin(t) \/ SubmitRefused(t)
  \/ \E frame \in Frames : SubmitPublish(t, frame)

InferStep(t) ==
  \/ TakeFrame(t) \/ Drained(t) \/ LockInference(t)
  \/ SkipFrame(t) \/ BeginInference(t) \/ InferReturns(t) \/ InferRaises(t)
  \/ RecordFailure(t) \/ AbortOnFailure(t) \/ Drain(t) \/ Poison(t)
  \/ Disown(t) \/ CountOutput(t) \/ UnlockInference(t)

CloseStep(t) ==
  CloseWait(t) \/ CloseLock(t) \/ CloseRelease(t) \/ CloseSet(t)

Control(t) ==
  \/ Start(t) \/ FinishInput(t) \/ Abort(t) \/ CloseFirst(t) \/ CloseAgain(t)

Next ==
  \/ \E t \in Producers : Submit(t)
  \/ \E t \in Consumers : InferNext(t) \/ InferStep(t)
  \/ \E t \in Controllers : Control(t)
  \/ \E t \in Threads : CloseStep(t) \/ CloseInterrupted(t)
  \/ OtherPipeline

Spec == Init /\ [][Next]_vars

(* A call, once made, keeps running: live.infer returns or raises, and the *)
(* operating system schedules every thread.  The consumer is a loop around *)
(* infer_next (_consumer_loop, demo_live), so it always comes back for the *)
(* next frame.  Nothing forces anyone to submit, abort or close.           *)
Fairness ==
  /\ \A t \in Consumers : WF_vars(InferNext(t)) /\ WF_vars(InferStep(t))
  /\ \A t \in Threads : WF_vars(CloseStep(t))

FairSpec == Spec /\ Fairness
-----------------------------------------------------------------------------
(* Every variable keeps its type.                                          *)
TypeOK ==
  /\ started \in BOOLEAN /\ inputClosed \in BOOLEAN
  /\ aborted \in BOOLEAN /\ closed \in BOOLEAN
  /\ slotClosed \in BOOLEAN /\ forcePending \in BOOLEAN
  /\ failed \in BOOLEAN /\ drainFailed \in BOOLEAN
  /\ closeComplete \in BOOLEAN /\ poisoned \in BOOLEAN
  /\ slot \in Frames \cup {None}
  /\ inFlight \in Frames \cup {None} /\ fullDetection \in BOOLEAN
  /\ consumer \in Consumers \cup {None}
  /\ inferenceLock \in Consumers \cup {None}
  /\ owner \in Consumers \cup {None}
  /\ nextSequence \in 0..MaxSequence + 1
  /\ lastResult \in -1..MaxSequence
  /\ counts \in [Counters -> Nat]
  /\ active \in {"none", "self", "other"}
  /\ pc \in [Threads -> Steps]

Present(item) == IF item = None THEN 0 ELSE 1

(* stats(): every frame submit accepted is exactly one of delivered,       *)
(* dropped, failed, aborted, queued or in the consumer's hands, whatever   *)
(* abort, close and failures do to it on the way.                          *)
FramesAccounted ==
  counts["submitted"] = counts["outputs"] + counts["dropped"]
                          + counts["failed"] + counts["aborted"]
                          + Present(slot) + Present(inFlight)

(* Frames never overtake each other: the newest result is older than the   *)
(* frame being inferred, which is older than the queued one, which is      *)
(* older than any frame still to be accepted.                              *)
FramesInOrder ==
  /\ lastResult < nextSequence
  /\ inFlight # None =>
       lastResult < inFlight.seq /\ inFlight.seq < nextSequence
  /\ slot # None => lastResult < slot.seq /\ slot.seq < nextSequence
  /\ slot # None /\ inFlight # None => inFlight.seq < slot.seq

(* _inference_owner_thread_id names a thread exactly while that thread is  *)
(* between its claim and its finally clause, and that thread holds the     *)
(* inference lock: what close's own-thread check and SAM3Live's guard rely *)
(* on.                                                                     *)
OwnerIsExact ==
  /\ \A t \in Threads : owner = t <=> pc[t] \in Owning
  /\ owner # None => inferenceLock = owner /\ consumer = owner

(* While a frame is being inferred the live session is claimed by this     *)
(* pipeline, so no other pipeline can start on it.                         *)
ClaimCoversInference ==
  \A t \in Threads : pc[t] \in Owning => active = "self"

(* close waits for the inference that was running when it was called.      *)
CloseWaitsForInference ==
  closeComplete => \A t \in Threads : pc[t] \notin Owning

(* When the first close has completed, no inference is running or will run,*)
(* the queue is empty and the claim is given up: the session may be reset, *)
(* closed, or handed to the next pipeline.                                 *)
CloseIsBarrier ==
  closeComplete =>
    CloseWaitsForInference /\ active # "self" /\ slot = None

(* A session whose GPU work could not be drained is marked poisoned before *)
(* the pipeline gives up its claim: no successor can start in between.     *)
PoisonBeforeRelease == drainFailed /\ active # "self" => poisoned

(* After a failed inference infer_next raises; it never goes on to wait,   *)
(* to infer, or to report a clean end of input.                            *)
FailureIsSticky ==
  failed => \A t \in Threads : pc[t] \notin Holding \cup {"get"}

(* Results come out in strictly increasing source order.                   *)
ResultsIncrease == [][lastResult' # lastResult => lastResult' > lastResult]_vars

-----------------------------------------------------------------------------
(* The parts of the inductive invariant that the properties above leave    *)
(* implicit.                                                               *)

Locking == {"claim", "count", "unlock"} \cup Owning
Consuming == {"get", "lock"} \cup Locking

(* Input, slot and life-cycle flags close in one direction and together;   *)
(* a recorded failure is followed by the abort it calls.                   *)
FlagsAgree ==
  /\ slotClosed = inputClosed
  /\ closed => aborted
  /\ aborted => inputClosed /\ slot = None
  /\ failed => aborted \/ \E t \in Threads : pc[t] = "abort"
  /\ \A t \in Threads : pc[t] \in {"abort", "drain", "poison"} => failed

(* The consumer's program counter, the inference lock, and the frame in    *)
(* hand tell the same story, and only a started pipeline is consumed.      *)
ConsumerAgrees ==
  /\ \A t \in Threads : pc[t] \in Consuming => consumer = t /\ started
  /\ \A t \in Threads : inferenceLock = t <=> pc[t] \in Locking
  /\ \A t \in Threads : pc[t] \in Holding => inFlight # None
  /\ inFlight # None => consumer # None /\ pc[consumer] \in Holding

(* One thread at most carries out close; once it is past the lock nobody   *)
(* infers (unless a signal tore it out of the wait), and only then is the  *)
(* claim given up.                                                         *)
CloseAgrees ==
  /\ \A t, u \in Threads :
       /\ pc[t] \in {"closeLock", "closeRelease", "closeSet"}
       /\ pc[u] \in {"closeLock", "closeRelease", "closeSet"}
       => t = u
  /\ \A t \in Threads :
       pc[t] \in {"closeLock", "closeRelease", "closeSet"} =>
         closed /\ ~closeComplete
  /\ \A t, u \in Threads :
       pc[t] = "closeRelease" => pc[u] \notin Owning
  /\ closeComplete => closed
  /\ started /\ active # "self" =>
       closed /\ \A u \in Threads : pc[u] \notin Owning

(* What the close barrier rests on when no signal interrupts a close.      *)
BarrierAgrees ==
  \A t \in Threads : pc[t] = "closeSet" =>
    active # "self" /\ \A u \in Threads : pc[u] \notin Owning

PoisonPending == drainFailed => poisoned \/ \E t \in Threads : pc[t] = "poison"

SafetyInv == /\ TypeOK /\ FlagsAgree /\ ConsumerAgrees /\ OwnerIsExact
             /\ CloseAgrees /\ FramesAccounted /\ FramesInOrder
             /\ FailureIsSticky /\ PoisonPending

-----------------------------------------------------------------------------
(* The pipeline, threads and locks hidden, is a FreshFrames queue: it never *)
(* delivers an older frame after a newer one, never infers a frame that a  *)
(* newer one had already replaced, and begins no inference after a stop.   *)
Fresh == INSTANCE FreshFrames WITH
  mode <- IF aborted THEN "stopped"
          ELSE IF inputClosed THEN "draining" ELSE "open",
  next <- nextSequence,
  pending <- IF slot = None THEN None ELSE slot.seq,
  hand <- IF inFlight = None THEN None ELSE inFlight.seq,
  running <- inFlight # None
               /\ \E t \in Consumers : pc[t] \in Owning \cup {"count"},
  delivered <- lastResult

ImplementsFreshFrames == Fresh!Spec

(* Every call of close comes back.                                         *)
CloseTerminates ==
  \A t \in Threads :
    pc[t] \in Closing \cup {"reentrantWait"} ~> pc[t] \in {"idle", "infer"}

(* A consumer waiting for a frame is woken by the end of input, and no     *)
(* accepted frame rots in the slot, also after finish_input: it is taken,  *)
(* replaced or discarded.                                                  *)
EndOfInputWakesConsumer ==
  /\ \A t \in Consumers : pc[t] = "get" /\ inputClosed ~> pc[t] # "get"
  /\ \A s \in 0..MaxSequence :
       slot # None /\ slot.seq = s ~> slot = None \/ slot.seq > s
=============================================================================
