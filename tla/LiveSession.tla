---------------------------- MODULE LiveSession ----------------------------
(***************************************************************************)
(* SAM3Live (src/tracker/live_inference.py): when a frame runs detection,  *)
(* how exemplar boxes are gathered per prompt during a bootstrap window and*)
(* then injected into the detector, and what makes the session bootstrap   *)
(* again.                                                                  *)
(*                                                                         *)
(* One thread at a time calls the session (LatestFrame), so a step is one  *)
(* detector call, or a whole method.  A prompt is its text and its id, the *)
(* position in session.prompts; there is at least one.  Exemplar boxes are *)
(* the texts they were detected for, the empty set if there are none.  The *)
(* dictionaries _exemplar_boxes, _drift_baseline_score and                 *)
(* _drift_recent_scores are filled and cleared together, and are one       *)
(* variable.  Boxes, scores and times are left out: whether boxes pass the *)
(* threshold, whether the mean score has dropped and when the timer expires*)
(* is arbitrary.                                                           *)
(***************************************************************************)
EXTENDS Integers, Sequences

CONSTANTS
  Texts,
  RedetectEvery, BootstrapFrames, CheckInterval, GraceFrames,
  MaxPrompts  \* bound: prompts in a session

ASSUME ScheduleAssumption ==
  {RedetectEvery, BootstrapFrames, CheckInterval, GraceFrames} \subseteq Nat \ {0}
ASSUME BoundAssumption == MaxPrompts \in Nat \ {0}

Ids == 1..MaxPrompts
\* The call counter only matters modulo both intervals.
Period == RedetectEvery * CheckInterval

VARIABLES
  prompts,     \* session.prompts: texts in the order of their ids
  force,       \* _force_detect_next
  calls,       \* _infer_calls
  phase,       \* between frames, detecting, past detection, or tracking only
  at,          \* the model's loop: id of the prompt to detect next
  counter,     \* _detector_call_counter
  capture,     \* _bootstrap_capture: the ids it holds the outputs of
  remaining,   \* _bootstrap_remaining
  pool,        \* _exemplar_box_pool: whose boxes it holds
  exemplar,    \* _exemplar_boxes
  samples,     \* _drift_frames_since_bootstrap
  pending,     \* _drift_pending_rebootstrap
  timer,       \* _last_bootstrap_complete_time: off, running or elapsed
  injected,    \* history: detector calls got another prompt's boxes
  setbacks     \* history: parity of failed frames and resets together

scheduleVars  == <<force, calls>>
detectVars    == <<at, counter, capture>>
bootstrapVars == <<remaining, pool, exemplar, samples, pending, timer>>
historyVars   == <<injected, setbacks>>
vars == <<prompts, scheduleVars, phase, detectVars, bootstrapVars,
          historyVars>>

All(value) == [p \in Ids |-> value]
Ready(p) == p \in 1..Len(prompts)

Init ==
  /\ prompts \in {<<t>> : t \in Texts}
  /\ force = TRUE /\ calls = 0
  /\ phase = "idle" /\ at = 1 /\ counter = 0 /\ capture = <<>>
  /\ remaining = [p \in Ids |-> IF Ready(p) THEN BootstrapFrames ELSE 0]
  /\ pool = All({}) /\ exemplar = All({}) /\ samples = All(0)
  /\ pending = FALSE /\ timer = "off"
  /\ injected = FALSE /\ setbacks = FALSE

-----------------------------------------------------------------------------
(* set_prompts: a new prompt gets a bootstrap window of its own.           *)
SetPrompt(text) ==
  /\ phase = "idle"
  /\ Len(prompts) < MaxPrompts
  /\ \A p \in 1..Len(prompts) : prompts[p] # text
  /\ prompts' = Append(prompts, text)
  /\ remaining' = [remaining EXCEPT ![Len(prompts) + 1] = BootstrapFrames]
  /\ UNCHANGED <<scheduleVars, phase, detectVars, pool, exemplar,
                 samples, pending, timer, historyVars>>

(* _reset_session_counters.                                                *)
ResetCounters == force' = TRUE /\ calls' = 0 /\ counter' = 0

NoExemplars == All({})

(* reset_prompts: new prompts, not yet encoded, and a fresh bootstrap.     *)
ResetPrompts(texts) ==
  /\ phase = "idle"
  /\ ResetCounters
  /\ prompts' = texts
  /\ remaining' = [p \in Ids |-> IF p <= Len(texts) THEN BootstrapFrames ELSE 0]
  /\ pool' = All({}) /\ exemplar' = NoExemplars /\ samples' = All(0)
  /\ pending' = FALSE /\ timer' = "off"
  /\ setbacks' = ~setbacks
  /\ UNCHANGED <<phase, at, capture, injected>>

(* reset_tracking: prompts, their embeddings and the bootstrap stay.       *)
ResetTracking ==
  /\ phase = "idle"
  /\ ResetCounters
  /\ setbacks' = ~setbacks
  /\ UNCHANGED <<prompts, phase, at, capture, bootstrapVars, injected>>

RestartedCalls == 0
KeptCalls == calls

(* SAM3HybridLive replaces the session before a keyframe, which must not   *)
(* disturb the cadence of the drift check.                                 *)
ReplaceSession ==
  /\ phase = "idle"
  /\ force' = TRUE /\ counter' = 0
  /\ calls' = KeptCalls
  /\ UNCHANGED <<prompts, phase, at, capture, bootstrapVars, historyVars>>

-----------------------------------------------------------------------------
(* infer, up to the model call.                                            *)

(* _drift_perform_rebootstrap, before the frame's detector calls.          *)
RebootstrapKeepsTimer ==
  /\ remaining' = [p \in Ids |-> IF Ready(p) THEN BootstrapFrames ELSE 0]
  /\ pool' = All({}) /\ exemplar' = All({}) /\ samples' = All(0)
  /\ pending' = FALSE /\ UNCHANGED timer

Rebootstrap ==
  /\ remaining' = [p \in Ids |-> IF Ready(p) THEN BootstrapFrames ELSE 0]
  /\ pool' = All({}) /\ exemplar' = All({}) /\ samples' = All(0)
  /\ pending' = FALSE /\ timer' = "off"

Requests == {"schedule", "full", "track"}  \* full_detection = None, True, False

Detects(request) ==
  \/ force \/ request = "full"
  \/ request = "schedule" /\ calls % RedetectEvery = 0

CounterRestarted == 0

BeginInfer(request) ==
  /\ phase = "idle"
  /\ phase' = IF Detects(request) THEN "detect" ELSE "track"
  /\ force' = FALSE
  /\ calls' = (calls + 1) % Period
  /\ at' = 1 /\ counter' = CounterRestarted /\ capture' = <<>>
  /\ IF pending THEN Rebootstrap ELSE UNCHANGED bootstrapVars
  /\ UNCHANGED <<prompts, historyVars>>

(* The model detects one prompt after the other, encoding its text at need.*)
(* The pre-hook injects the boxes of the prompt its counter points to; the *)
(* capture hook keeps the output, or swallows its own exception.           *)
DetectPrompt ==
  /\ phase = "detect" /\ Ready(at)
  /\ counter' = counter + 1
  /\ injected' = (injected \/ (Ready(counter + 1) /\ exemplar[counter + 1] # {}
                               /\ counter + 1 # at))
  /\ \/ capture' = Append(capture, at)
     \/ UNCHANGED capture
  /\ at' = at + 1
  /\ UNCHANGED <<prompts, scheduleVars, phase, bootstrapVars, setbacks>>

(* The model raises, anywhere in the frame.                                *)
InferRaises ==
  /\ phase # "idle"
  /\ phase' = "idle"
  /\ setbacks' = ~setbacks
  /\ UNCHANGED <<prompts, scheduleVars, detectVars, bootstrapVars,
                 injected>>

-----------------------------------------------------------------------------
(* infer, after the model call.                                            *)

CaptureSome == capture # <<>>
CaptureComplete == capture # <<>> /\ Len(capture) = Len(prompts)

EveryWindow(p) == TRUE
WindowOpen(p) == remaining[p] > 0

(* _process_bootstrap_capture: the outputs are paired with the prompts; one*)
(* frame of every open window is used up, and a window that closes with    *)
(* boxes in the pool makes an exemplar.                                    *)
ProcessCapture(boxes) ==
  LET open == {p \in 1..Len(capture) : WindowOpen(p)}
      filled == [p \in Ids |-> IF p \in open /\ boxes[p]
                              THEN pool[p] \cup {prompts[capture[p]]} ELSE pool[p]]
      done == {p \in open : remaining[p] = 1 /\ filled[p] # {}}
  IN
  /\ remaining' = [p \in Ids |-> IF p \in open THEN remaining[p] - 1
                                 ELSE remaining[p]]
  /\ pool' = [p \in Ids |-> IF p \in done THEN {} ELSE filled[p]]
  /\ exemplar' = [p \in Ids |-> IF p \in done THEN filled[p] ELSE exemplar[p]]
  /\ samples' = [p \in Ids |-> IF p \in done THEN 0 ELSE samples[p]]
  /\ timer' = IF done # {} THEN "running" ELSE timer

(* The capture is used after a detection; the model call is over.          *)
EndDetection ==
  /\ phase = "detect" /\ at > Len(prompts)
  /\ phase' = "output"
  /\ IF CaptureComplete
     THEN \E boxes \in [Ids -> BOOLEAN] : ProcessCapture(boxes)
     ELSE UNCHANGED <<remaining, pool, exemplar, samples, timer>>
  /\ UNCHANGED <<prompts, scheduleVars, detectVars, pending, historyVars>>

(* _drift_record_and_check and _check_periodic_rebootstrap: a prompt is    *)
(* sampled if the frame shows objects of it.                               *)
Sampled(shown) ==
  [p \in Ids |-> IF p \in shown /\ exemplar[p] # {} /\ samples[p] < GraceFrames
                 THEN samples[p] + 1 ELSE samples[p]]

DriftDue ==
  /\ calls % CheckInterval = 0
  /\ \E p \in Ids : exemplar[p] # {} /\ samples'[p] >= GraceFrames

InferReturns ==
  /\ phase \in {"output", "track"}
  /\ phase' = "idle"
  /\ \E shown \in SUBSET Ids : samples' = Sampled(shown)
  /\ \/ pending' = (pending \/ timer = "elapsed")
     \/ DriftDue /\ pending' = TRUE
  /\ UNCHANGED <<prompts, scheduleVars, detectVars, remaining, pool,
                 exemplar, timer, injected, setbacks>>

(* _periodic_rebootstrap_seconds have passed since the last completion.    *)
TimerElapses ==
  /\ timer = "running"
  /\ timer' = "elapsed"
  /\ UNCHANGED <<prompts, scheduleVars, phase, detectVars, remaining, pool,
                 exemplar, samples, pending, historyVars>>

Infer ==
  \/ \E request \in Requests : BeginInfer(request)
  \/ DetectPrompt \/ EndDetection \/ InferReturns

Next ==
  \/ \E text \in Texts : SetPrompt(text)
  \/ \E text \in Texts : ResetPrompts(<<text>>)
  \/ ResetTracking \/ ReplaceSession \/ TimerElapses
  \/ Infer \/ InferRaises

Spec == Init /\ [][Next]_vars

(* Frames keep coming, and the model returns or raises.                    *)
FairSpec == Spec /\ WF_vars(Infer)
-----------------------------------------------------------------------------
(* Every variable keeps its type.                                          *)
TypeOK ==
  /\ Len(prompts) <= MaxPrompts /\ \A p \in DOMAIN prompts : prompts[p] \in Texts
  /\ force \in BOOLEAN /\ calls \in 0..Period - 1
  /\ phase \in {"idle", "detect", "output", "track"}
  /\ at \in 1..MaxPrompts + 1 /\ counter \in Nat
  /\ Len(capture) <= MaxPrompts /\ \A i \in DOMAIN capture : capture[i] \in Ids
  /\ remaining \in [Ids -> 0..BootstrapFrames] /\ pool \in [Ids -> SUBSET Texts]
  /\ exemplar \in [Ids -> SUBSET Texts]
  /\ samples \in [Ids -> 0..GraceFrames]
  /\ pending \in BOOLEAN /\ timer \in {"off", "running", "elapsed"}
  /\ injected \in BOOLEAN /\ setbacks \in BOOLEAN

(* An exemplar was gathered for the prompt that now has its id, not for one*)
(* that had the id before a reset nor for a neighbour in a frame whose     *)
(* capture was incomplete; while a window is open the prompt is detected   *)
(* by its text alone; and the detector is never given the boxes of another *)
(* prompt than the one it detects, also after a frame that failed half-way.*)
ExemplarIsCurrent ==
  /\ \A p \in Ids : exemplar[p] # {} =>
       Ready(p) /\ exemplar[p] = {prompts[p]} /\ remaining[p] = 0
  /\ ~injected

(* A re-bootstrap is only pending, and the timer only runs, while there is *)
(* an exemplar to replace: a bootstrap that has begun is not begun again   *)
(* before one of its windows has produced an exemplar.                     *)
RebootstrapOnce ==
  pending \/ timer # "off" => \E p \in Ids : exemplar[p] # {}

(* However often keyframes replace the session, the drift check comes round*)
(* again, once frames succeed and the user does not reset.                 *)
DriftCheckRecurs ==
  <>[][setbacks' = setbacks]_vars =>
    []<>(phase \in {"output", "track"} /\ calls % CheckInterval = 0)
=============================================================================
