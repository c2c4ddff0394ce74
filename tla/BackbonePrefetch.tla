-------------------------- MODULE BackbonePrefetch --------------------------
(***************************************************************************)
(* The backbone prefetch (src/tracker/backbone_pipeline.py) on top of the  *)
(* MIG vision encoder and the GPU-I/O backbone it runs                     *)
(* (mig_vision_encoder.py, migraphx_runtime.py): while a frame goes through*)
(* the model, the backbone of the next one is already queued on a stream of*)
(* the pipeline.                                                           *)
(*                                                                         *)
(* The host is one thread; an iterator's next() is cut where it may raise. *)
(* The GPU runs a stream's jobs in order, some time after their launch, and*)
(* holds nothing but raw pointers into the buffers of a job: whoever drops *)
(* the last reference to those hands them to somebody else.                *)
(*                                                                         *)
(* A definition named like another with a suffix (NextJobReused, ...)      *)
(* is that one with a plausible mistake in it.                             *)
(***************************************************************************)
EXTENDS Naturals, Sequences, FiniteSets

CONSTANTS
  Pipelines,   \* BackbonePrefetchPipeline objects, all on one model
  Iterators,   \* the generators their run() returns
  IndexLists,  \* the frame_indices they are called with
  None,        \* no pipeline; also the name of the caller's own stream
  MaxJobs,     \* bound: backbone launches
  MaxEntries   \* bound: times a pipeline is entered

ASSUME PrefetchAssumption ==
  /\ None \notin Pipelines
  /\ IndexLists \subseteq Seq(Nat)
  /\ MaxJobs \in Nat /\ MaxEntries \in Nat

VARIABLES
  active,      \* the pipeline that patches get_vision_features
  running, pending, consuming, current, consumed, \* of each pipeline
  entries,     \* how often it was entered
  pc, of, entry, todo,   \* of each iterator; todo starts with current_index
  jobs,        \* backbone launches: frame and stream
  inflight,    \* the jobs the GPU has not finished
  undrained,   \* model._failed_backbone_prefetch_keepalive exists ...
  modelKeep,   \* ... and holds these jobs' buffers
  failedKeep,  \* jobs kept by a failed _prefetch or enqueue_torch
  encoderPoisoned, backbonePoisoned,
  stale        \* history: an iterator of an earlier context was resumed

contextVars == <<active, running, pending, consuming, current, consumed, entries>>
iteratorVars == <<pc, of, entry, todo>>
gpuVars == <<jobs, inflight, failedKeep, encoderPoisoned, backbonePoisoned>>
modelVars == <<undrained, modelKeep>>
vars == <<contextVars, iteratorVars, gpuVars, modelVars, stale>>

NoJob == 0
Streams == Pipelines \cup {None}
OnHost == {"launch", "take", "ahead", "forward"}
HostFree == \A i \in Iterators : pc[i] \notin OnHost
Goto(i, from, to) == pc[i] = from /\ pc' = [pc EXCEPT ![i] = to]

Init ==
  /\ active = None
  /\ running = [p \in Pipelines |-> FALSE] /\ consumed = [p \in Pipelines |-> FALSE]
  /\ pending = [p \in Pipelines |-> NoJob] /\ consuming = [p \in Pipelines |-> NoJob]
  /\ current = [p \in Pipelines |-> NoJob] /\ entries = [p \in Pipelines |-> 0]
  /\ pc = [i \in Iterators |-> "new"] /\ of = [i \in Iterators |-> None]
  /\ entry = [i \in Iterators |-> 0] /\ todo = [i \in Iterators |-> <<>>]
  /\ jobs = <<>> /\ inflight = {}
  /\ undrained = FALSE /\ modelKeep = {} /\ failedKeep = {}
  /\ encoderPoisoned = FALSE /\ backbonePoisoned = FALSE
  /\ stale = FALSE
-----------------------------------------------------------------------------
(* The GPU and the backbone.                                               *)
NextJobReused == Len(jobs)
NextJob == Len(jobs) + 1
(* The jobs that are not on a stream; one launched in this step is.        *)
Other(stream, js) == {j \in js : j < NextJob /\ jobs[j].stream # stream}

Launched(frame, stream) ==
  /\ Len(jobs) < MaxJobs
  /\ jobs' = Append(jobs, [frame |-> frame, stream |-> stream])

(* The GPU finishes the oldest job of a stream.                            *)
Finish(j) ==
  /\ j \in inflight
  /\ \A k \in inflight : jobs[k].stream = jobs[j].stream => j <= k
  /\ inflight' = inflight \ {j}
  /\ UNCHANGED <<contextVars, iteratorVars, jobs, failedKeep, encoderPoisoned,
                 backbonePoisoned, modelVars, stale>>

(* _prefetch gets a job onto the pipeline's stream.                        *)
PrefetchOk(p, frame) ==
  /\ ~encoderPoisoned /\ ~backbonePoisoned
  /\ Launched(frame, p)
  /\ inflight' = inflight \cup {NextJob}
  /\ UNCHANGED <<failedKeep, encoderPoisoned, backbonePoisoned>>

(* run_async raises, with or without having submitted the job: the device  *)
(* is drained, or the buffers stay and the backbone is given up.           *)
EnqueueRaises(frame, stream, busy) ==
  /\ ~backbonePoisoned
  /\ Launched(frame, stream)
  /\ \E submitted, drained \in BOOLEAN :
       /\ busy = IF drained THEN {}
                 ELSE IF submitted THEN inflight \cup {NextJob} ELSE inflight
       /\ failedKeep' = IF drained THEN failedKeep ELSE failedKeep \cup {NextJob}
       /\ backbonePoisoned' = ~drained

(* The except clause of _prefetch: drain the stream or poison the encoder. *)
DrainStream(p, busy) ==
  \E drained \in BOOLEAN :
    /\ inflight' = IF drained THEN Other(p, busy) ELSE busy
    /\ encoderPoisoned' = ~drained

(* _enqueue raises: fetching the frame does, or the encoder refuses, or the*)
(* backbone refuses or fails, or building the output does, after the launch*)
PrefetchRaises(p, frame) ==
  \/ UNCHANGED gpuVars
  \/ /\ ~encoderPoisoned /\ backbonePoisoned
     /\ DrainStream(p, inflight)
     /\ UNCHANGED <<jobs, failedKeep, backbonePoisoned>>
  \/ /\ ~encoderPoisoned
     /\ \E busy \in SUBSET (inflight \cup {NextJob}) :
          EnqueueRaises(frame, p, busy) /\ DrainStream(p, busy)
  \/ /\ ~encoderPoisoned /\ ~backbonePoisoned
     /\ Launched(frame, p)
     /\ DrainStream(p, inflight \cup {NextJob})
     /\ failedKeep' = IF encoderPoisoned' THEN failedKeep \cup {NextJob} ELSE failedKeep
     /\ UNCHANGED backbonePoisoned

(* Outside the context manager the model calls the encoder itself, which   *)
(* waits for the device (run_torch).                                       *)
DirectForward(frame) ==
  /\ HostFree /\ active = None
  /\ \/ /\ ~backbonePoisoned
        /\ Launched(frame, None)
        /\ inflight' = {}
        /\ UNCHANGED <<failedKeep, backbonePoisoned>>
     \/ EnqueueRaises(frame, None, inflight')
  /\ UNCHANGED <<encoderPoisoned, contextVars, iteratorVars, modelVars, stale>>
-----------------------------------------------------------------------------
(* The context manager.                                                    *)
Enter(p) ==
  /\ HostFree /\ active = None /\ ~undrained
  /\ entries[p] < MaxEntries
  /\ active' = p
  /\ entries' = [entries EXCEPT ![p] = @ + 1]
  /\ UNCHANGED <<running, pending, consuming, current, consumed, iteratorVars,
                 gpuVars, modelVars, stale>>

(* A consumer may leave with a job in flight.                              *)
Exit(p) ==
  /\ HostFree /\ active = p
  /\ active' = None
  /\ running' = [running EXCEPT ![p] = FALSE]
  /\ current' = [current EXCEPT ![p] = NoJob]
  /\ consumed' = [consumed EXCEPT ![p] = FALSE]
  /\ \/ /\ inflight' = Other(p, inflight)
        /\ pending' = [pending EXCEPT ![p] = NoJob]
        /\ consuming' = [consuming EXCEPT ![p] = NoJob]
        /\ UNCHANGED modelVars
     \/ /\ undrained' = TRUE
        /\ modelKeep' = {pending[p], consuming[p]} \ {NoJob}
        /\ UNCHANGED <<inflight, pending, consuming>>
  /\ UNCHANGED <<entries, iteratorVars, jobs, failedKeep, encoderPoisoned,
                 backbonePoisoned, stale>>
-----------------------------------------------------------------------------
BeginTogether(i, p, frames) ==
  /\ HostFree /\ pc[i] = "new"
  /\ of' = [of EXCEPT ![i] = p] /\ entry' = [entry EXCEPT ![i] = entries[p]]
  /\ todo' = [todo EXCEPT ![i] = frames]
  /\ IF active # p \/ frames = <<>>
       THEN pc' = [pc EXCEPT ![i] = "ended"] /\ UNCHANGED running
       ELSE pc' = [pc EXCEPT ![i] = "launch"] /\ running' = [running EXCEPT ![p] = TRUE]
  /\ UNCHANGED <<active, pending, consuming, current, consumed, entries, gpuVars,
                 modelVars, stale>>

(* run(): its body starts with the first next().                           *)
Begin(i, p, frames) ==
  /\ HostFree /\ pc[i] = "new"
  /\ of' = [of EXCEPT ![i] = p] /\ entry' = [entry EXCEPT ![i] = entries[p]]
  /\ todo' = [todo EXCEPT ![i] = frames]
  /\ IF active # p \/ running[p] \/ frames = <<>>
       THEN pc' = [pc EXCEPT ![i] = "ended"] /\ UNCHANGED running
       ELSE pc' = [pc EXCEPT ![i] = "launch"] /\ running' = [running EXCEPT ![p] = TRUE]
  /\ UNCHANGED <<active, pending, consuming, current, consumed, entries, gpuVars,
                 modelVars, stale>>

(* Queue the backbone of a frame; pending keeps its old value on failure.  *)
Prefetch(i, from, to, frame) ==
  LET p == of[i] IN
  /\ pc[i] = from
  /\ \/ /\ Goto(i, from, to)
        /\ PrefetchOk(p, frame)
        /\ pending' = [pending EXCEPT ![p] = NextJob]
     \/ /\ Goto(i, from, "ended")
        /\ PrefetchRaises(p, frame)
        /\ UNCHANGED pending
  /\ UNCHANGED <<active, running, consuming, current, consumed, entries,
                 of, entry, todo, modelVars, stale>>

PrefetchFirst(i) == Prefetch(i, "launch", "take", Head(todo[i]))
PrefetchAhead(i) == Prefetch(i, "ahead", "forward", Head(Tail(todo[i])))

(* The pending job becomes the one the model will be given; a wait that    *)
(* raises, or finds nothing pending, ends the iterator.                    *)
Take(i) ==
  LET p == of[i]
      last == Len(todo[i]) = 1 IN
  /\ pc[i] = "take"
  /\ consuming' = [consuming EXCEPT ![p] = pending[p]]
  /\ \/ /\ pending[p] # NoJob
        /\ Goto(i, "take", IF last THEN "forward" ELSE "ahead")
        /\ current' = [current EXCEPT ![p] = pending[p]]
        /\ consumed' = [consumed EXCEPT ![p] = FALSE]
        /\ pending' = [pending EXCEPT ![p] = IF last THEN NoJob ELSE @]
     \/ /\ Goto(i, "take", "ended")
        /\ UNCHANGED <<current, consumed, pending>>
  /\ UNCHANGED <<active, running, entries, of, entry, todo, gpuVars, modelVars, stale>>

(* use_current: the features, for the frame they were computed from, once. *)
(* It compares addresses: a provider returns stable tensors, so that two   *)
(* frames never have one address and a frame has the same one again.       *)
Granted(p, frame) ==
  current[p] # NoJob /\ ~consumed[p] /\ jobs[current[p]].frame = frame

Consume(p, frame) ==
  /\ Granted(p, frame)
  /\ consumed' = [consumed EXCEPT ![p] = TRUE]

(* The model's forward.  When it returns, its ORT runs and its branches    *)
(* have synchronised streams that waited for the job (fence_ort_inputs and *)
(* the finally clauses of the parallel tail).                              *)
ForwardReturns(i) ==
  LET p == of[i]
      last == Len(todo[i]) = 1 IN
  /\ Goto(i, "forward", IF last THEN "ended" ELSE "yielded")
  /\ Consume(p, Head(todo[i]))
  /\ inflight' = Other(p, inflight) \cup {j \in inflight : j > current[p]}
  /\ consuming' = [consuming EXCEPT ![p] = NoJob]
  /\ running' = [running EXCEPT ![p] = ~last]
  /\ todo' = [todo EXCEPT ![i] = Tail(@)]
  /\ UNCHANGED <<active, pending, current, entries, of, entry, jobs, failedKeep,
                 encoderPoisoned, backbonePoisoned, modelVars, stale>>

ForwardRaisesAndRestarts(i) ==
  /\ Goto(i, "forward", "ended")
  /\ Consume(of[i], Head(todo[i])) \/ UNCHANGED consumed
  /\ running' = [running EXCEPT ![of[i]] = FALSE]
  /\ UNCHANGED <<active, pending, consuming, current, entries,
                 of, entry, todo, gpuVars, modelVars, stale>>

(* It raises, before or after it asked for the features, or asks twice, or *)
(* for another frame's, or never.                                          *)
ForwardRaises(i) ==
  /\ Goto(i, "forward", "ended")
  /\ \/ Consume(of[i], Head(todo[i]))
     \/ UNCHANGED consumed
  /\ UNCHANGED <<active, running, pending, consuming, current, entries,
                 of, entry, todo, gpuVars, modelVars, stale>>

(* A consumer that calls the model itself inside the context gets the      *)
(* current features too, if no iterator has used them up.                  *)
ModelCall(p, frame) ==
  /\ HostFree /\ active = p
  /\ Consume(p, frame)
  /\ UNCHANGED <<active, running, pending, consuming, current, entries,
                 iteratorVars, gpuVars, modelVars, stale>>

(* next() on a suspended iterator.                                         *)
Resume(i) ==
  /\ HostFree
  /\ Goto(i, "yielded", IF active = of[i] THEN "take" ELSE "ended")
  /\ stale' = (stale \/ (active = of[i] /\ entry[i] # entries[of[i]]))
  /\ UNCHANGED <<contextVars, of, entry, todo, gpuVars, modelVars>>

Next ==
  \/ \E p \in Pipelines : Enter(p) \/ Exit(p)
  \/ \E i \in Iterators :
       \/ \E p \in Pipelines, frames \in IndexLists : Begin(i, p, frames)
       \/ PrefetchFirst(i) \/ PrefetchAhead(i) \/ Take(i)
       \/ ForwardReturns(i) \/ ForwardRaises(i) \/ Resume(i)
  \/ \E frames \in IndexLists : frames # <<>> /\
       (DirectForward(Head(frames)) \/ \E p \in Pipelines : ModelCall(p, Head(frames)))
  \/ \E j \in 1..Len(jobs) : Finish(j)

Spec == Init /\ [][Next]_vars
-----------------------------------------------------------------------------
Jobs == 0..MaxJobs

(* Every variable holds a value of its type.                               *)
TypeOK ==
  /\ active \in Streams
  /\ running \in [Pipelines -> BOOLEAN] /\ consumed \in [Pipelines -> BOOLEAN]
  /\ pending \in [Pipelines -> Jobs] /\ consuming \in [Pipelines -> Jobs]
  /\ current \in [Pipelines -> Jobs] /\ entries \in [Pipelines -> 0..MaxEntries]
  /\ pc \in [Iterators -> OnHost \cup {"new", "yielded", "ended"}]
  /\ of \in [Iterators -> Streams] /\ entry \in [Iterators -> 0..MaxEntries]
  /\ todo \in [Iterators -> Seq(Nat)]
  /\ jobs \in Seq([frame : Nat, stream : Streams]) /\ Len(jobs) <= MaxJobs
  /\ inflight \subseteq 1..Len(jobs)
  /\ modelKeep \subseteq Jobs /\ failedKeep \subseteq Jobs
  /\ {undrained, encoderPoisoned, backbonePoisoned, stale} \subseteq BOOLEAN

Held(j) ==
  \/ j \in modelKeep \cup failedKeep
  \/ \E p \in Pipelines : j \in {pending[p], consuming[p]}

(* Whatever raises, whoever leaves early: the buffers of a job the GPU has *)
(* not finished are referenced, unless an iterator that outlived its       *)
(* context was resumed in a later one (nothing in run() refuses that).     *)
BuffersHeld == ~stale => \A j \in inflight : Held(j)

(* When run() calls the model, the features at hand are those of the frame *)
(* it calls it with, and unused: whichever launches and waits failed before*)
(* and however iterators, contexts and the consumer's own calls are mixed, *)
(* no refusal of use_current stops a run (with the same exception).        *)
FeaturesReady == ~stale =>
  \A i \in Iterators : pc[i] = "forward" => Granted(of[i], Head(todo[i]))
=============================================================================
