# SAM3 tracker for ROCm: TLA+ models

This directory models the concurrent and stateful core of the repository in
TLA+, checks it with TLC on small instances and proves its main properties with
TLAPS for every value of the constants.

    tlc -config LatestFrame_safety.cfg MCLatestFrame.tla
    tlapm LatestFrameProofs.tla
    tlapm NodeProofs.tla
    tlapm HybridLiveProofs.tla
    tlapm LiveSessionProofs.tla
    tlapm ParallelTailProofs.tla
    tlapm BackbonePrefetchProofs.tla
    tlapm ArtifactProofs.tla
    tlapm BoxSequencesProofs.tla

`PROJECT.json` lists the runs with the properties each one checks, the source
lines every definition stands for, the hazards, the findings and the theorems.
For every checked property it also names a *mutant*: a definition of the model
with one plausible mistake in it (`CloseLockTimesOut`, `DiscardUncounted`, ...)
under which the property fails.

## 1. Inventory

| part | state | operations | interacts with |
|---|---|---|---|
| `tracker/latest_frame.py` `LatestFramePipeline` | one-slot queue, life-cycle flags, counters, detection latch, inference lock and owner, the claim it puts on the session | `start submit finish_input infer_next abort close stats` | any number of producers, one consumer, controllers; claims a `SAM3Live` or `SAM3HybridLive` |
| `examples/ros_node_skeleton.py` `SAM3Node` | current pipeline, consumer thread, generation, sticky detection request and its epoch, consumer errors | `on_image reset_prompts reset_tracking finish close`, the consumer loop | creates a pipeline per generation over one `SAM3Live` |
| `tracker/live_inference.py` `SAM3Live` | prompts and embeddings, tracker session, forced detection, bootstrap windows, exemplar boxes, drift and interval counters, object cap | `infer set_prompts reset_prompts reset_tracking close` | tracker, decoders; guarded by the pipeline's claim |
| `tracker/hybrid_inference.py` `SAM3HybridLive` | keyframe schedule, forced keyframe, inner-to-public id map, previous output | `infer reset_prompts reset_tracking close` | wraps a `SAM3Live`, whose tracking session it replaces at keyframes |
| `tracker/parallel_video.py` | call lock, two worker threads, their futures, a failure mark on the session | `run` a frame, `close`, patch a model | replaces `_det_track_one_frame` of the model; shares the inference session with both workers |
| `tracker/backbone_pipeline.py`, `mig_vision_encoder.py` | the active pipeline, one pending and one consuming job, keep-alive references, poison marks | enter, exit, `run`'s iterators, `use_current` | the model calls the pipeline in place of its encoder; jobs run on GPU streams |
| `tracker/sam3_onnx_tracker.py` and the memory bank in `migraphx_runtime.py` | compiled programs on disk, shared resources, the bank of each tracker | load, `init_frame propagate_frame reset` | several trackers share resources and features |
| `demo_box.py`, `eval/datasets`, `eval/probes` | position in the data set, predictions, checkpoint | drive a box tracker; checkpoint, resume, write | box tracker, file system |
| `export/*` | artifact files, their provenance and manifest | the steps of two build drivers, reset, resume | file system; the checkout is mounted live |
| `tools/`, `docker/` | the stage of the runner and of the release gate | build, smoke, verify, measure, certify | the artifact root, the checkout |
| batched decoders, detector encoders, memory attention | padded batches, fallback flags | decode, attend | MIGraphX programs |
| ORT glue, environment | stream fences | run | GPU libraries |
| `demo_live.py` | capture thread, latest frame | capture, consume, stop | camera, `SAM3Live` |
| benchmarks | none of their own | sequential scripts | processes and files |

Hard behaviours: the threads around the pipeline and the node (interleavings,
close against inference, re-entrant calls, failures in the middle of a
hand-over), the sticky detection request (stale reads and dropped frames),
object ids over sessions that are replaced and frames that fail, exemplars that
are attributed to prompts by call order, the fork and join of the video tail
(a branch that fails, an interrupted wait, a close), GPU buffer lifetime under
generators that are suspended, abandoned and resumed, builds that are killed
and run again over a root that other sources may have filled, a checkout that
changes while it is built and certified, and memories that outlive a sequence.

What makes the parts correct:

* pipeline: every accepted frame is accounted for; results in source order; one
  inference at a time, by the owner, under the claim; close is a barrier; a
  session whose GPU work could not be drained is never handed on;
* node: no result of an old generation after a reset; the model is only mutated
  when nobody infers; a detection request survives until a detected frame at
  least as new has been published; life-cycle calls return;
* live session: an exemplar belongs to the prompt it is injected for; a
  re-bootstrap is scheduled once; the drift check recurs; no frame is a no-op;
  the object cap bounds live objects; a guarded call never overlaps a pipeline's
  inference;
* hybrid session: a public id never denotes two objects, nor two prompts, and
  never returns; a lost object forces a detection;
* video tail: no worker outlives its call; a session that a failed branch left
  half-written is not used; close never overlaps a frame;
* prefetch: no buffer is released while the GPU reads it; whenever `run` calls
  the model, the features it has ready are the unused ones of that frame;
* box tracker: the attention sees the latest memories of its own tracker since
  the reset, and as many as it was exported for; a resumed prediction file is
  complete;
* artifact build: a root has one source; no output is overwritten unasked; a
  manifest lists what is there; ALL OK means that everything asked for exists;
* release gate: what it certifies was built, tested and measured from one commit.

## 2. Plan

Done, in this order:

1. `LatestFrame`, with `FreshFrames` (abstract) and `LatestFrameProofs`.
2. `NodeGenerations`: `SAM3Node` over the promises of the pipeline; it composes
   with `FreshFrames` through the refinement `PipelinesAreFresh`; `NodeProofs`.
3. `HybridLive` and `HybridLiveProofs`: public ids over keyframes.
4. `LiveSession` and `LiveSessionProofs`: detection schedule, bootstrap and drift.
5. `ParallelTail` and `ParallelTailProofs`: the fork and join of a frame.
6. `BackbonePrefetch` and `BackbonePrefetchProofs`: contexts, iterators, GPU
   jobs and who keeps their buffers.
7. `ArtifactBuild`: both build drivers over one root; `ReleaseGate`, which
   composes them with the release tooling; `ArtifactProofs` about both.
8. `BoxTracker`, and `BoxSequences` which composes it with the programs that
   drive it; `BoxSequencesProofs`.

What is left:

9. `LiveClaims`: the unlocked ownership guards of `SAM3Live` and
   `SAM3HybridLive` against a pipeline that starts meanwhile.
10. The object cap and the pruning of old frames in `LiveSession`.
11. The capture loop of `demo_live.py`, one more caller of the pipeline.

## 3. The pipeline

`LatestFrame.tla` models `tracker/latest_frame.py`. Its grain is the critical
section: everything done while holding `_state_lock`, `_failure_lock`,
`_LIVE_CLAIM_LOCK` or the slot's condition is one step, and a thread's place
between critical sections is its program counter `pc[t]`. `_inference_lock` is
held across steps and is a variable. The variables carry the names of the
attributes (`slot` is `_raw._item`, `owner` is `_inference_owner_thread_id`,
`active` and `poisoned` are the marks on the live session). `inFlight` is the
local variable `packet` of the consumer; `lastResult` is a history variable.

Threads have roles (`Producers`, `Consumers`, `Controllers`), which may overlap:
`Controllers = {c1, ...}` lets the consumer thread close the pipeline. Every
operation of the class is there; operations that raise before changing anything
are not steps. `OtherPipeline` is any other pipeline on the same session, which
claims, releases and poisons it by the same protocol. The failure check of
`submit` takes another lock than the publication, so a failure may be recorded
between the two; the model keeps that interleaving. `live.infer` is a step that
returns or raises; with `ReentrantClose` it may call `close` on its own thread,
and threads in `Interruptible` may be torn out of the lock wait in `close`.

`FreshFrames.tla` is the promise to the caller without threads, locks or
counters: a pending frame that newer ones replace, a frame in hand, results in
source order, no inference begun after a stop. `LatestFrame` implements it;
the refinement mapping is `Fresh` at the end of `LatestFrame.tla`.

| run | instance | shows |
|---|---|---|
| `pipeline_safety` | 2 producers, 2 threads that try to consume, 3 controllers (one is a consumer thread, also inside `live.infer`), sequences 0..2 | accounting, the close barrier, sticky failure, and `ImplementsFreshFrames`, which contains the order of the results |
| `pipeline_liveness` | 1, 1, 3, sequences 0..2, one controller may be interrupted, fair | close returns, end of input wakes the consumer; the claim and the poison mark survive an interrupted close |

*Bounds.* `MaxSequence` bounds the sequence numbers and with them the number of
accepted frames; three frames suffice for one being inferred, one queued and one
that replaces it. No other variable is bounded: counters are bounded by the
frames. Two producers give out-of-order publication, three controllers give a
first closer, a waiting closer and an aborter at once. Threads of one role are
interchangeable, so the safety run uses symmetry; the liveness runs do not.

*Fairness.* Once called, `infer_next` and `close` keep running: weak fairness on
the consumer's steps and on the steps of `close`. The consumer loop calls
`infer_next` again after each return (`_consumer_loop`, the loop in `demo_live`).
`live.infer` is assumed to return or raise. Nothing forces a producer to submit
or a controller to do anything. Weak fairness is enough for the inference lock:
only the consumer and one closer compete for it, and after `close` has set
`_aborted` the consumer takes it at most once more.

*Deadlock* is checked where nobody closes from inside `live.infer`; with a
re-entrant close the system may really stop, as follows.

### Where code and comments disagree

Earlier instances of these modules showed three behaviours; no property of the
runs claims otherwise.

* `close` tests `_closed` before it tests whether the caller is the inference
  owner (lines 386 and 390). If another thread is already closing, a close from
  inside `live.infer` waits for `_close_complete`, which needs that inference to
  end: neither continues. The message at line 391 promises an error instead.
* An exception in the lock wait of `close` still sets `_close_complete` (line
  413); the next `close` returns while inference runs, against the docstring at
  line 384. So `CloseIsBarrier` is checked where no close is interrupted;
  `pipeline_liveness` shows that the damage is limited: the claim stays.
* The detection latch (line 343) is consumed by whatever frame the consumer has
  in hand, possibly one older than the request, whose own frame may then be
  replaced: the request is lost, against the comment at line 295. (`SAM3Node`
  does not depend on the latch: it keeps its own sticky request.)

## 4. The node

`NodeGenerations.tla` models `SAM3Node` of `examples/ros_node_skeleton.py`. A
step is a critical section of `_state_lock`, or a call that may wait.
`_transition_lock` is a variable, `_callback_lock` the set `callbacks` of
snapshots that have been taken and not yet submitted (at most one). A generation
is its number, which also names its pipeline and its consumer thread; the
attributes `_pipeline` and `_consumer_thread` are assigned together and are one
variable. `consumer[g]` is the place of the consumer thread, `control[k]` that
of a thread in `reset_prompts`, `reset_tracking`, `finish` or `close`. The two
resets differ in what they do to the model, which is left out: either is
`reset`. The pipelines are not modelled again: `mode`, `slot` and the history
variables `accepted` and `completed` are the state of one `FreshFrames` queue
per generation, and `PipelinesAreFresh` checks that the node's steps treat them
as such; `LatestFrame` is shown to implement the same specification.

The three policies differ in when they ask for a detection; here that is
`armed`, which becomes true at any time. Sticky requests carry an epoch, as in
the code. Inference, publication, the reset of the model, `start` of a pipeline
and of a thread may raise. Statistics and the video harness are left out; so is
the check of `_closed` in `_start_generation`, which cannot succeed there: the
caller holds the transition lock that `close` needs.

| run | instance | shows |
|---|---|---|
| `node_safety` | 2 controllers, a publisher that may call back, sequences 0..2, 1 reset (3.4 million states) | the model is untouched while it is replaced, nothing old is published, requests are served, `finish` drains, each generation is a `FreshFrames` queue |
| `node_liveness` | 2 controllers, 1 image, 1 reset, no call from the publisher, fair | whoever enters a life-cycle call leaves it |

*Bounds.* Three images are one published, one in hand and one queued or
replaced. `MaxSession` bounds resets (it sits in the guard of `ResetModel`; a
reset beyond it still detaches and joins, and then raises); two generations
give an old and a new one, and what a third does to the second is what the
second does to the first. *Fairness.* Weak fairness of each consumer and of
whoever is inside the transition lock: `live.infer`, the publisher and the
join return or raise, and threads are scheduled. Nothing is assumed of images,
of callers, or of who gets the lock next. *Deadlock* is not checked where the
publisher is re-entrant, because of what follows.

*A disagreement.* The life-cycle calls take `_transition_lock` (line 398) before they
check that they are not on the consumer thread, which line 558 promises to
refuse. Called from the publisher while another thread holds the lock and joins
that consumer, neither ever continues.

## 5. The hybrid session

`HybridLive.tla` models `SAM3HybridLive`. A call is a step: the class is called
by one thread at a time. The wrapped session is its objects (inner id to
prompt), the next inner id and the forced detection; a frame may drop any
objects and, if it detects, find any new ones. Which pairs of masks overlap
enough to be associated is arbitrary; the prompt comparison and the greedy
one-to-one matching are in `Associates`. The three `_previous_` attributes are
one function from public ids to prompts. `era`, `lastPrompt`, `retired` and
`stale` are history. The branch that retries a detection that did not run (line 310) is
left out: `SAM3Live` always runs the detection it is asked for.

| run | instance | shows |
|---|---|---|
| `hybrid` | 2 prompts, up to 2 objects per session, 4 public ids, calls fail anywhere | ids are distinct, given-up ids stay given up, a loss forces a detection; an id keeps its prompt while the map is not stale |

*Bounds.* Two objects and two prompts are enough for a swap and for an id that
changes prompt; four public ids are two sessions' worth of new objects, so ids
are inherited, retired and followed by fresh ones. `stale` is true from the
failure of a keyframe that nothing forced to the next keyframe that succeeds: a
forced keyframe that fails is forced again, so its old id map is never used.

*Why `stale`.* When an interval or caller keyframe raises, the new inner session
stays, `finally` (line 295) declares it used, and `_inner_to_public` is still
that of the session before. A following frame without keyframe publishes the
new session's objects under the ids of unrelated ones.

## 6. The live session

`LiveSession.tla` models the scheduling part of `SAM3Live`: `set_prompts`,
`reset_prompts`, `reset_tracking`, the session replacement by the hybrid
wrapper, and `infer` as one step per detector call. Prompts are detected one
after the other in the order of their ids; the injection hook finds its prompt
by counting calls and the capture is paired with the prompts by position, so
both are modelled as they are, with a capture hook that may miss a call and a
model that may raise between any two calls. A box is the text it was detected
for. `_exemplar_boxes` and the drift baselines are filled and cleared together
and are one variable; whether boxes pass the threshold, whether scores have
dropped, and when time passes is arbitrary. The periodic timer is off, running
or elapsed. Prompt lists are not empty; the object cap, pruning and output are
left out. `BootstrapFrames` is positive: with zero none of this happens.

| run | instance | shows |
|---|---|---|
| `live_session` | 3 texts, 2 prompts, windows of 2 frames, re-detection every 2, drift check every 3, 2 grace frames, fair | an exemplar is its own prompt's, one re-bootstrap per completed bootstrap; keyframes do not starve the drift check |

*Bounds.* Two prompts make a neighbour; three texts let a reset give an id to a
new text. The windows and intervals are the smallest with a middle. The call
counter is kept modulo both intervals, which loses nothing. *Fairness.* Frames
keep coming and the model returns or raises. `DriftCheckRecurs` speaks of runs
in which frames stop failing and the user stops resetting, which restarts the
cadence on purpose; `setbacks` is the history variable that tells these steps
from a keyframe's replacement of the session, to which they may be equal in
every other variable.

*A disagreement.* The forced detection is used up before the model is called (line
884), and whether a prompt has been encoded is not looked at, although lines
839-841 name it: after a first frame that failed, a frame with
`full_detection=False` is the no-op they exclude.

## 7. The parallel tail

`ParallelTail.tla` models `parallel_video.py`: the call lock, the serial
fallback, the two submits, the two branches, the join and its second wait, the
failure mark, close and patching anew. A step of a caller ends where it gives up
or waits. Of a session only what decides a frame's path is kept: the failure
mark, whether it has objects, whether its prompts are encoded. GPU streams are
left out: a worker has ended when its `finally` has drained its stream; so is
the weakref finalizer. A call may be hit by a signal in its first wait
(`Interrupted`), and outside its `try` block: between the submits, by a signal
or an executor that cannot start a thread, or in the second wait (`Abandoned`).

| run | instance | shows |
|---|---|---|
| `tail` | 2 callers, 2 closers, calls struck anywhere, prompts added at any time | close lies between frames; until a call is abandoned, workers are joined and a spoiled session is refused, and no worker encodes a prompt that did not come after the session's objects |

There are no counters to bound; the second caller is the one that is turned
away, the second closer the one that finds the runtime closed.

`abandoned` and `late` are the history variables behind those two conditions.
Both are necessary, as removing either from the property shows: `set_prompts` in
the middle of a session leads to a lazy encoding on the detection worker, beside
the tracker worker, whatever the comment at line 123 says; and the second wait
(line 177) can be interrupted like the first, against the comment above it,
which leaves the workers running and the session unmarked.

## 8. The backbone prefetch

`BackbonePrefetch.tla` models `backbone_pipeline.py` over the encoder's
`prefetch` (`mig_vision_encoder.py`) and the backbone's `run_torch` and
`enqueue_torch` (`migraphx_runtime.py`). The host is one thread, but several
pipelines and the generators of `run` share one model, and a generator may be
suspended, abandoned or resumed at each `yield`; so an iterator has a program
counter, and `next()` is cut where it may raise: before and after the first
launch, at the wait, at the launch for the next frame, in the model's forward.
The GPU is the set `inflight` of launched jobs; `Finish` ends the oldest of a
stream. A job holds raw pointers, so all that matters about its buffers is who
references them: `pending` and `consuming` of its pipeline, the list a failed
drain leaves on the model (`modelKeep`), or the list of a failed launch
(`failedKeep`). The model may ask for features never, twice, or for another
frame's (`ForwardRaises`), and the consumer may call it itself (`ModelCall`).
That a forward which returns has waited for its job is taken from
`fence_ort_inputs` and the streams of the parallel tail.

| run | instance | shows |
|---|---|---|
| `prefetch` | 2 pipelines, 2 iterators, each pipeline entered at most twice, 4 launches, three frame lists that share a frame | unless a generator that outlived its context is resumed in a later one: buffers of a running job are referenced, and when `run` calls the model its features are those of the frame, unused (1.0 million states) |

*Bounds.* Two entries are needed for a generator of the first to be resumed in
the second; four launches are two frames ahead for each of two iterators. The
lists are empty, one frame, and three with a repetition, so the last frame, the
frame before it and one in the middle all occur.

That a frame gets no other frame's features is one comparison in `use_current`
(line 76), which refuses the call. `FeaturesReady` is about what that comparison
rests on: after every mixture of failed launches and waits, early exits, new
entries and calls of the consumer's own, the refusals of lines 72-77 never
stop a `run`, since the job that `consuming` names was launched for the frame
that is now passed to the model. Line 76 compares addresses; the model takes a
provider to return stable tensors, so that two frames never share one.

`stale` is necessary: `run` checks at line 180 only that its pipeline is active,
not that it is still the same context. A generator suspended in one context and
resumed in a later one shares `pending` with the generator started there and
may drop the last reference to a running job; one of the two then asks for its
frame with the other's features current, and is refused. Also, after an exit whose drain
failed, entering is refused (`undrained`) while the direct call of the model is
not.

## 9. The artifact build and the release gate

`ArtifactBuild.tla` models the two drivers (`export/build.py`,
`build_text_prompt_mig.py`), the provenance and manifest of a root
(`write_artifact_manifest.py`), the identity that `docker/rocm101/run.sh` hands to its
container, and every script the drivers start. A script is the set of what it
may leave behind: `Saves("simple", {"torn", "unchecked", "whole"})` is a script
that writes in place and checks afterwards. Killing a script leaves what one of
its failures leaves, and `Killed` ends a driver between two scripts; only
`prepare_build_root` and the deletion of the manifest are cut up themselves
(`PrepareCut`). A file is the command that made it, the checkout it was made
from and how far it got; so a file that is made again counts as another one.
`S1` to `S10` of the memory attention share one slot, removing a directory is
one step, and a torn ORT cache is assumed not to load.

`ReleaseGate.tla` adds `tools/docker_test_runner.sh` (build, smoke, refresh,
strict smoke) and `tools/release_gate.sh` (preflight, build, tests, manifest,
measurements, summary), over the same actions. Others give commands before and
after, but not in the middle, and change the checkout whenever they like: it is
mounted into every container.

| run | instance | shows |
|---|---|---|
| `release_gate` | 2 commits and an uncommitted edit, 2 changes of the checkout; a whole box build or a text reset first, then part of a build or a reset, and the runner with or without the gate anywhere (3.9 million states) | a root has one source; a manifest on disk lists what is there; a passed gate certifies what was built, tested and measured from its commit; no output is overwritten without `--force` |
| `build_resumed` | one step of the box build, twice | **violated** (`AllOkIsBuilt`): ALL OK without the modules |

Two exporters write more than the file their driver looks for
(`Intermediates`): the FP32 graphs `detr_encoder_fp32.onnx` and
`detr_decoder_fixed_fp32.onnx` come first and are written again by every attempt
(`export_detr_encoder.py:131`, `export_fixed_detr_decoder.py:295`), the report of
the fixed decoder last. So without `--force` a step that was killed and is run
again does write over them. `KeepsFiles` therefore promises this: an output is
never deleted or written over without `--force`, torn ones included, and an
intermediate file is not once the output of its exporter is there. The decoder's
compiler also keeps the cache it copies the decoder from
(`detr_decoder_fixed/ort_cache`) and a copy before the rename
(`direct_gpuio.mxr.tmp`), which a rerun deletes and writes again; these two have
no name in the model, and no property speaks of them.

`ManifestHonest` is about the files of the text build. A manifest lists the box
modules too, and a box build that runs later changes them and leaves the
manifest as it is.

*Bounds.* `Requests` names the commands that may be given first, second, ...;
those of `MCReleaseGate` are the ones that mix: a box build into the same root,
partial text builds with and without `--force`, and a reset. Two changes bring the
checkout away from its commit and back. Nothing else is bounded. *Deadlock* is
not checked: when the commands are used up everything rests.

`OneSource` speaks of commands under which the checkout did not change
(`raced`): the claim is fixed when the container starts, the files are read
later. `GatePassIsBuilt` leaves out a checkout that leaves its commit and is
back before the gate looks (`returned`). Two edits of a commit have the same
identity, so a dirty root may mix them; the gate refuses dirty checkouts.

*Finding* (`build_resumed`). `build_box` takes the modules as done when
`temporal_pe.npy`, the file written first, is there (line 106). Interrupted in
between and run again, it skips the step and prints ALL OK, which lines 32-33
call safe.

Writing the model showed more of the kind; no run claims the contrary:

* the simplified backbone, the exported encoder and the fixed decoder are saved
  before the check that may reject them; a rerun skips them. A torn `tuned.mxr`
  is never loaded by the text build, and is accepted and hashed;
* a kill between the decoder's rename and its checksum leaves a step that is
  skipped and a root that is refused for good;
* `--force` of the box build keeps old caches, and its prewarm prints the
  exceptions of a session and goes on;
* `--pipeline all --force` deletes the tracker modules it has just built when
  the text part resets the root; without `--force` the text part refuses the
  root the box part has populated. The box part ignores provenance and manifest;
* a kill while the provenance is written leaves a temporary file, for which the
  rerun is refused;
* a signal after `RELEASE_GATE_PASS.json` and before the trap is removed leaves
  the marks of both outcomes;
* the smoke looks for `manifest.json`, the build writes `ARTIFACT_MANIFEST.json`.

## 10. The box tracker and its programs

`BoxTracker.tla` models `sam3_onnx_tracker.py` and the memory bank: loading (each
program compiled and saved in place, or read from its cache), trackers with
their own or shared resources, `init_frame`, `propagate_frame`, `reset`, each
with what raises in it. A mask and a memory are the subjects they were made
from; `encoded` is the history of a tracker's memories since its last reset.
`BoxSequences.tla` composes it with the programs over it: `demo_box.py`, the
evaluations on DAVIS and SA-Co, the prediction generator with its checkpoint,
the visual probe, and a client of the library with several trackers. A process
is killed anywhere; files and compiled programs stay.

| run | instance | shows |
|---|---|---|
| `box_sequences` | 2 trackers, exported for 2 memories, trackers that keep 1 to 3, 3 subjects, 3 frames, 3 calls from reset to reset, 3 launches, a checkpoint every 2 | the attention sees the latest memories of its own tracker; memories do not cross trackers, nor sequences where the program resets; a resumed prediction file is complete |
| `box_carried` | one launch of each program | **violated** (`SequencesAreIndependent`): a mask made from the sequence before |

*Bounds.* A bank of 1, 2 and 3 is below, at and above the exported number; three
frames overflow it. Three launches are two interruptions; a checkpoint every
two subjects of three leaves one that is not in it. `ClientsFirst` looks at
the library client in the first process only: it touches no file of the others.

*Finding* (`box_carried`). `init_frame` does not empty the bank. Two of the
programs reset between sequences; `eval_saco_sg_generate_preds.py` (line 124)
and `visualize_correctness.py` (line 155) do not, so the first masks of a sequence
attend to memories of the one before.

What the conditions in the properties stand for: with `num_maskmem` other than
the exported 7 the first propagation raises (`AttentionInputRight`); a resume
whose `--start-from` is not the length of the checkpoint leaves a gap or
duplicates, and without `--out` the path has a new time stamp, so the earlier
predictions are dropped without a word (`exact`). A program file that was cut
short stops every later load (`stored`). The position encoding is by rank in
the bank, not by distance in frames. When the compilation of a backbone raises,
`MIGRAPHX_SKIP_BENCHMARKING` is not put back (`migraphx_runtime.py` 141-146).

## 11. What is proved

`LatestFrameProofs.tla`, for any sets of threads and any `MaxSequence`, from the
named assumptions on the constants in `LatestFrame.tla` alone (`None` is no
thread and no frame, the bound is a natural number, the interruptible threads
are controllers).

The checked invariants are not inductive. `SafetyInv` conjoins them with what
they leave implicit, in named parts:

* `FlagsAgree`: input, slot and life-cycle flags close together; a recorded
  failure is followed by the abort it calls;
* `ConsumerAgrees`: the consumer's program counter, the lock and the frame in
  hand tell the same story, so exactly one thread can hold a frame;
* `CloseAgrees`: one thread carries out close, and gives up the claim only when
  nobody owns the inference: this is what makes the claim cover every inference;
* `PoisonPending`: between the failed drain and the poison mark the consumer
  still owns the inference, which with `CloseAgrees` keeps the claim.

There is one step lemma per part, with one case per action. `Safety` combines
them; `TypeCorrect`, `Accounting`, `Ordering`, `OwnerExact`, `ClaimCovers` and
`PoisonFirst` follow from it. `FailureSticks` is a part of it. `CloseBarrier` needs `Interruptible = {}` and the
further part `BarrierAgrees`; the assumption is necessary (second finding of
section 3). `ResultOrder` is the action property `ResultsIncrease` (which
`FreshFrames` implies too), and `Refinement` the implementation of
`FreshFrames`: each action is shown to be an abstract step or a stutter under
`SafetyInv`.

`NodeProofs.tla`, for any controllers and bounds, with and without a publish
callback that makes life-cycle calls. `BarrierInv` is about the place (`Phase`)
and the operation (`Doing`) of the one call that holds the transition lock:
these decide whether a consumer may be alive and whether the model may be
claimed.

* `LockAgrees` and `HolderAgrees`: a call is inside exactly while it holds the
  lock, and the generation it works on is the present one;
* `QuietAgrees` and `ClaimAgrees`: without a pipeline there is no live consumer
  and no claim, except in the call that is giving them up or handing them over;
* `ConsumersAgree`: only the present generation has a live consumer, and what
  that has in hand from an inference was inferred in the present session.

`ModelIsUntouched` and `NothingOldPublished` follow from it. The conjunction
`NodeInv` builds on it and is inductive only as a whole:

* `RequestInv`: an image of the present epoch is at least as new as the request
  and carries it while it is pending; what is queued or in hand is newer than
  what was served, and what waits is newer than what is in hand;
* `ShutAgrees`: a pipeline that was given up takes nothing and holds nothing, so
  only the present generation has an image that could serve a request;
* `DrainInv`: a pipeline that holds nothing and was not stopped has inferred
  what it accepted, unless that is in the consumer's hands or the consumer
  failed; and finish stops only a pipeline whose consumer is gone.

`RequestIsServed` and `FinishIsDrained` follow. `PipelinesAreQueues` is the
composition: seen from any one generation, each step of the node is a step of
its `FreshFrames` queue or a stutter, so that what `Refinement` proves of
`LatestFrame` is what the node relies on. It needs `NodeInv` for what a consumer
has in hand, for which generation a life-cycle call stops, and for the consumer
that is spawned over a queue from which nothing has been taken.
`NodeTypeCorrect` adds to `NodeInv` the variables that no other theorem needs.

`ParallelTailProofs.tla`, for any callers and closers. `LockAgrees` (the lock
names the one caller inside) carries `TailTypeCorrect` and, with
`ClosedBetweenFrames` itself, `CloseBetweenFrames`. The other three invariants
hold until a call is abandoned: `WorkersAgree` says what the branches have come
to at each place of the caller and gives `CallsJoinWorkers`; `SpoiledIsMarked`,
that a spoiled session is marked or its caller bound to find out, gives
`SpoiledSessionsRefused`; `EncodedAgrees`, that objects come from a detection,
gives `WorkersFindPromptsEncoded`.

`HybridLiveProofs.tla`, for any prompts, bounds and failures. `ExtendFresh` is
the lemma about allocation: the ids of new objects are fresh, pairwise different
and below the next one, whatever the map they extend. The inductive invariant
`IdInv` adds to the two checked invariants that every id in use, remembered or
retired is below `_next_public_object_id`; `ObjectsHaveTheirOwnIds` and
`RetiredIdsNeverReturn` follow. `LossIsAnswered` rests on `LossPending`: a
reported loss keeps the next keyframe forced, also over failures.
`SessionsKeepIds` needs that a fresh session has no id map (`FreshIsEmpty`).
`IdsKeepPrompts` needs `PromptInv`: unless the map is stale or the next frame is
a forced keyframe, the map names each object by an id that was last published
with its prompt, if at all, and names no inner id that is still to be given;
the last clause is what keeps a new object from taking over the id of one that
is gone. `ReturnNames`, the account of one frame, serves `IdInv`, `PromptInv` and
`HybridTypeCorrect`.

`LiveSessionProofs.tla`, for any texts, intervals, windows and number of
prompts. `SessionInv` is inductive:

* `CaptureAgrees`: in the middle of the detector calls the counter has the
  prompt the model is at, and a capture with as many outputs as calls has them
  in the order of the ids. This is what makes pairing by position right: a
  capture that misses a call is shorter, and then no output is used;
* `BoxesAgree`: what an id has gathered was gathered for the prompt that has the
  id now, and a prompt with an exemplar has no open window.

`ExemplarsAreCurrent`, `RebootstrapsOnce` and `SessionTypeCorrect` follow. The
liveness of the drift check does not (below).

`BackbonePrefetchProofs.tla`, for any pipelines, iterators, frame lists and
bounds. `BuffersAreHeld` needs `KeptInv`, which holds until an iterator that
outlived its context is resumed in a later one (`stale`):

* `ContextsAgree`: outside a context a pipeline refers to no job, and after an
  exit that could not drain no context is entered again;
* `IteratorsAgree`: one iterator at a time works in a context, and its place
  says which of the references `pending` and `consuming` are taken;
* every unfinished job is `Kept`: it is in the list of a failed launch or of a
  failed drain, or it was launched by the active pipeline and is its `pending`
  or its `consuming` job.

`FeaturesAreReady` needs `ReadyInv` besides: an iterator of the present context
that has still to take a job finds in `pending` one that was launched for the
frame at the head of its list; once taken, that job is `current` and unused until
the model is called; and while the model is called, `pending` is already the
job of the next frame. It fails if two iterators may work in a context at once,
since they share `pending`, so it rests on `IteratorsAgree`. After a resumption in a
later context only the comparison of `use_current` is left, which refuses the
wrong frame. `PrefetchTypeCorrect` is the type
invariant, which already needs that a live iterator has frames left.

`BoxSequencesProofs.tla`, for any trackers, sizes, subjects, frames, checkpoint
intervals and launches; the programs that `Programs` lists are part of the
model. `BoxInv`:

* `BanksAgree`: a bank is the latest part of the tracker's history since its
  reset, as long as the tracker keeps, and every memory was made from subjects
  of that history;
* `MaskAgrees` and `MisfitAgrees`: what the last mask saw is still in the
  history, and a refused input leaves a tracker of the wrong size behind;
* `AloneAgrees`: the programs that reset, or have one subject, have memories of
  the subject they are at and no other;
* `CheckpointsAgree`: until a resumption starts elsewhere than the checkpoint
  ends, a checkpoint is a prefix of the annotations, and the process has
  recorded all those before the one it is at.

`AttentionIsRight`, `MasksAreOwn`, `ResumedAreComplete` and `BoxTypeCorrect`
follow, over kills at every step and restarts.

`ArtifactProofs.tla`, for any commits, commands and numbers of changes, first
about the build alone (`Spec`). `OneSourceHolds` says that what the text build
has in a root comes from the source its provenance names. `OneSourceInv` adds
what holds in the middle of a command, as long as the checkout did not change
under one: the claim is the identity of the checkout, and a text build that has
steps left has prepared its root, whose provenance is then the claim.
`KeepsFilesHolds`, the action property `KeepsFiles`, rests on `FilesInv`: a
command number and a checkout are never `None`, so what is made is a file; and
the second file of a pair (cache and policy, decoder and checksum) is never
there without the first. The second clause is needed because a step is skipped
by looking at one of its files. One lemma per script says that its outcomes keep
`FilesInv` and touch no output that is there; that of the two exporters, that
they write their intermediate files only when the output was missing
(`OutputOf`) or under `--force`.

The second half is about the composition with the runner and the gate
(`GateSpec`), where others start commands and change the checkout in between.
The inductive invariant `ReleaseInv` adds to the two above:

* `ManifestAgrees`: `ManifestHonest`, and that a text build with scripts left to
  run has no manifest in its root. The deletion of an old manifest is therefore
  what honesty rests on, not the writing of the new one;
* `RunnerAgrees`: when the runner's build has succeeded the encoder's cache is
  there, so the smokes, which would make one, change nothing in the root;
* `StagesAgree`: where the gate is says whether the runner or a command is at
  work, and from its preflight on the commit it tests is a clean one;
* `GateAgrees`: while the checkout is at the gate's commit, all that is in the
  root is whole and of that commit; the export is there, or the next thing to be
  made; from the strict smoke on everything is there and listed; and the
  evidence is of that commit alone.

`GateOneSource`, `GateKeepsFiles`, `ManifestIsHonest`, `GatePassed` and
`GateTypeCorrect` follow. `HasExport` is in `GateAgrees` because
a manifest is complete without the exported fp32 backbone: that this file is
there too follows from the clean build alone. Of the intermediate files of the
exporters `GatePassed` says that those that are there are whole and of the
commit.

*Constants.* Every theorem is from the named assumptions of its module alone:
bounds are natural numbers, intervals and sizes positive ones, `None` and the
other marks are none of the values they stand beside.

*Only model-checked.* Every invariant and every action property that a passing
run checks is also a theorem, and so are both refinements. What stays with TLC
is liveness: `CloseTerminates`, `EndOfInputWakesConsumer`, `TransitionEnds` and
`DriftCheckRecurs` need fairness and ENABLED, which the prover does not handle;
so do absence of deadlock and that the interesting cases are reached at all,
for which each run has the mutants. The two findings are counterexamples. The
theorems about the close barrier assume that no close is interrupted; what
remains true with interruptions is in the two runs of the pipeline.

## 12. What is not modelled

The tensors: masks, features, scores, resizing and normalisation are left out
everywhere, and with them the batched decoders, the detector's encoder and
decoder, the memory attention's padding and the ORT glue: no protocol state. GPU
kernels, MIGraphX compilation and ONNX export are calls into libraries. The
container build, `setup.sh`, the benchmarks and `text_baseline.py` are sequential
scripts. The demo's capture loop and the unlocked guards of the live session are
planned (section 2). The object cap and the pruning of old frames are not in
`LiveSession`; neither are two of its settings under which a feature silently
does nothing: a drift window below five frames never holds the samples the check
asks for (line 631), and the periodic re-bootstrap waits for a first completed
bootstrap (line 654), however many windows end without one.
