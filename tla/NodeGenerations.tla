-------------------------- MODULE NodeGenerations --------------------------
(***************************************************************************)
(* SAM3Node (src/examples/ros_node_skeleton.py): one model and a succession*)
(* of latest-frame pipelines, one per generation, each with a consumer     *)
(* thread of its own.  Image callbacks, consumers and life-cycle calls     *)
(* (reset_prompts, reset_tracking, finish, close) run concurrently.        *)
(*                                                                         *)
(* A generation is its number; it names its pipeline and its consumer.     *)
(* The pipelines are what FreshFrames promises (PipelinesAreFresh), with   *)
(* the detection latch and the claim on the session added.  A step is a    *)
(* critical section of _state_lock, or a call that may wait.  The two      *)
(* references _pipeline and _consumer_thread are always assigned together  *)
(* and are one variable.  Counters, histories and timings are left out.    *)
(***************************************************************************)
EXTENDS Integers, FiniteSets

CONSTANTS
  Controllers,      \* threads that make life-cycle calls
  ReentrantPublish, \* does the publish callback make life-cycle calls?
  MaxSequence,      \* bound: images that arrive have sequences 0..MaxSequence
  MaxSession,       \* bound: how often the model is reset
  None

Generations == 0..MaxSession
Operations == {"reset", "finish", "close"}

ASSUME NoneAssumption == None \notin Controllers \cup Int
ASSUME BoundAssumption == MaxSequence \in Nat /\ MaxSession \in Nat
ASSUME ReentrantAssumption == ReentrantPublish \in BOOLEAN

Frames == [seq : 0..MaxSequence, full : BOOLEAN, epoch : Nat]
ASSUME FrameAssumption == None \notin Frames

VARIABLES
  pipeline, generation, accepting,   \* the current generation, as callbacks see it
  closed, liveClosed,
  errors,             \* generations in _consumer_errors
  sourceSequence,
  armed,              \* the policy will ask for detection at the next image
  pending, epoch,     \* _detection_pending, _detection_request_epoch
  callbacks,          \* snapshots taken by on_image and not yet submitted
  mode, slot, latch,  \* per generation: the pipeline
  claim, poisoned,    \* the marks on the live session
  session, fresh,     \* times the model was reset; _force_detect_next
  consumer,           \* per generation: where its consumer thread stands
  item, detected,     \* per generation: frame in hand, and did detection run
  control, op, target,\* per controller: where it stands, its call, its pipeline
  transitionLock,
  accepted, completed,\* history, per generation: newest frame in, newest out
  inferredIn,         \* history, per generation: session of the last inference
  requested, served   \* history: sequence a detection is due from; newest
                      \* sequence published with detection

nodeVars    == <<pipeline, generation, accepting, errors>>
endVars     == <<closed, liveClosed>>
inputVars   == <<sourceSequence, armed, callbacks>>
requestVars == <<pending, epoch, requested, served>>
pipeVars    == <<mode, slot, latch, accepted, completed>>
liveVars    == <<claim, poisoned, session, fresh, inferredIn>>
consumeVars == <<consumer, item, detected>>
controlVars == <<control, op, target, transitionLock>>

\* What a callback, a consumer and a life-cycle call usually leave alone.
node  == <<nodeVars, endVars, inputVars, requestVars>>
model == <<pipeVars, liveVars>>
vars  == <<node, model, consumeVars, controlVars>>

(* The constructor has started generation 0.                               *)
Init ==
  /\ pipeline = 0 /\ generation = 0 /\ accepting = TRUE
  /\ closed = FALSE /\ liveClosed = FALSE /\ errors = {}
  /\ sourceSequence = 0 /\ armed \in BOOLEAN /\ callbacks = {}
  /\ pending = TRUE /\ epoch = 0 /\ requested = 0 /\ served = -1
  /\ mode = [g \in Generations |-> "open"]
  /\ slot = [g \in Generations |-> None]
  /\ latch = [g \in Generations |-> FALSE]
  /\ accepted = [g \in Generations |-> -1]
  /\ completed = [g \in Generations |-> -1]
  /\ claim = 0 /\ poisoned = FALSE /\ session = 0 /\ fresh = TRUE
  /\ inferredIn = [g \in Generations |-> 0]
  /\ consumer = [g \in Generations |-> IF g = 0 THEN "waiting" ELSE "unborn"]
  /\ item = [g \in Generations |-> None]
  /\ detected = [g \in Generations |-> FALSE]
  /\ control = [k \in Controllers |-> "idle"]
  /\ op = [k \in Controllers |-> "none"]
  /\ target = [k \in Controllers |-> None]
  /\ transitionLock = None

-----------------------------------------------------------------------------
(* on_image: snapshot and policy in one critical section, then submit.     *)

(* trigger_redetect, or a time-based or periodic policy falling due.       *)
Trigger ==
  /\ ~armed
  /\ armed' = TRUE
  /\ UNCHANGED <<nodeVars, endVars, sourceSequence, callbacks, requestVars,
                 model, consumeVars, controlVars>>

(* An armed policy turns into a sticky request with an epoch of its own.   *)
ApplyPolicy ==
  /\ armed' = FALSE
  /\ pending' = (pending \/ armed)
  /\ epoch' = IF armed THEN epoch + 1 ELSE epoch
  /\ requested' = IF armed THEN sourceSequence ELSE requested
  /\ UNCHANGED served

(* _callback_lock: one on_image at a time.                                 *)
CallbackFree == callbacks = {}

DetectionFlag == pending'

OnImage ==
  /\ CallbackFree
  /\ sourceSequence <= MaxSequence
  /\ sourceSequence' = sourceSequence + 1
  /\ IF generation \in errors \/ ~accepting \/ pipeline = None
     THEN UNCHANGED <<armed, callbacks, requestVars>>
     ELSE /\ ApplyPolicy
          /\ callbacks' = callbacks \cup
               {[to |-> pipeline,
                 frame |-> [seq |-> sourceSequence, full |-> DetectionFlag,
                            epoch |-> epoch']]}
  /\ UNCHANGED <<nodeVars, endVars, model, consumeVars, controlVars>>

SubmitImage(callback) ==
  LET g == callback.to  f == callback.frame IN
  /\ mode[g] = "open" /\ f.seq > accepted[g]
  /\ slot' = [slot EXCEPT ![g] = f]
  /\ latch' = [latch EXCEPT ![g] = @ \/ f.full]
  /\ accepted' = [accepted EXCEPT ![g] = f.seq]
  /\ callbacks' = callbacks \ {callback}
  /\ UNCHANGED <<nodeVars, endVars, sourceSequence, armed, requestVars, mode,
                 completed, liveVars, consumeVars, controlVars>>

(* A life-cycle call or a failure has closed the pipeline since the        *)
(* snapshot was taken: submit returns False or raises.                     *)
SubmitRefused(callback) ==
  LET g == callback.to IN
  /\ \/ mode[g] # "open" \/ callback.frame.seq <= accepted[g]
     \/ consumer[g] = "raising"
  /\ callbacks' = callbacks \ {callback}
  /\ UNCHANGED <<nodeVars, endVars, sourceSequence, armed, requestVars,
                 model, consumeVars, controlVars>>

-----------------------------------------------------------------------------
(* _consumer_loop of generation g.                                         *)

Moves(g, from, to) ==
  /\ consumer[g] = from
  /\ consumer' = [consumer EXCEPT ![g] = to]
  /\ UNCHANGED <<nodeVars, endVars, inputVars, controlVars>>

StopKeepingFrame(g) ==
  /\ mode' = [mode EXCEPT ![g] = "stopped"]
  /\ UNCHANGED <<slot, latch, accepted, completed>>

StopPipeline(g) ==
  /\ mode' = [mode EXCEPT ![g] = "stopped"]
  /\ slot' = [slot EXCEPT ![g] = None]
  /\ UNCHANGED <<latch, accepted, completed>>

TakeFrame(g) ==
  /\ slot[g] # None
  /\ Moves(g, "waiting", "taken")
  /\ item' = [item EXCEPT ![g] = slot[g]]
  /\ slot' = [slot EXCEPT ![g] = None]
  /\ UNCHANGED <<requestVars, mode, latch, accepted, completed, liveVars,
                 detected>>

(* infer_next returned None: end of input, or the frame was overtaken.     *)
ConsumerEnds(g) ==
  /\ \/ slot[g] = None /\ mode[g] # "open" /\ Moves(g, "waiting", "exited")
     \/ mode[g] = "stopped" /\ Moves(g, "taken", "exited")
  /\ UNCHANGED <<requestVars, model, item, detected>>

(* SAM3Live.infer runs detection when told to, and on the first frame of a *)
(* session in any case.                                                    *)
BeginInference(g) ==
  /\ mode[g] # "stopped"
  /\ Moves(g, "taken", "inferring")
  /\ detected' = [detected EXCEPT ![g] = item[g].full \/ latch[g] \/ fresh]
  /\ latch' = [latch EXCEPT ![g] = FALSE]
  /\ fresh' = FALSE
  /\ inferredIn' = [inferredIn EXCEPT ![g] = session]
  /\ UNCHANGED <<requestVars, mode, slot, accepted, completed, claim, poisoned,
                 session, item>>

InferReturns(g) ==
  /\ Moves(g, "inferring", "returned")
  /\ completed' = [completed EXCEPT ![g] = item[g].seq]
  /\ UNCHANGED <<requestVars, mode, slot, latch, accepted, liveVars, item,
                 detected>>

InferRaises(g) ==
  Moves(g, "inferring", "raising") /\ UNCHANGED <<requestVars, model, item, detected>>

(* Still the owner, infer_next aborts its pipeline, and poisons the session*)
(* if the GPU cannot be drained, before the error reaches the loop.        *)
InferFails(g) ==
  /\ Moves(g, "raising", "failing")
  /\ StopPipeline(g)
  /\ poisoned' \in {poisoned, TRUE}
  /\ UNCHANGED <<requestVars, claim, session, fresh, inferredIn, item, detected>>

(* The gate: a result that is too old, or whose generation has been        *)
(* detached, is not published.                                             *)
GateResult(g) ==
  /\ \/ pipeline = g /\ generation = g /\ Moves(g, "returned", "publishing")
     \/ Moves(g, "returned", "waiting")
  /\ UNCHANGED <<requestVars, model, item, detected>>

PublishReturns(g) ==
  /\ Moves(g, "publishing", "published")
  /\ served' = IF detected[g] THEN item[g].seq ELSE served
  /\ UNCHANGED <<pending, epoch, requested, model, item, detected>>

PublishRaises(g) ==
  Moves(g, "publishing", "failing") /\ UNCHANGED <<requestVars, model, item, detected>>

ServesAnyEpoch(g) == detected[g]
(* A published detection serves the request if none is newer than its frame*)
ServesRequest(g) == detected[g] /\ item[g].epoch = epoch

RecordOutputAgain(g) ==
  /\ Moves(g, "published", "returned")
  /\ pending' = (pending /\ ~ServesRequest(g))
  /\ UNCHANGED <<epoch, requested, served, model, item, detected>>

RecordOutput(g) ==
  /\ Moves(g, "published", "waiting")
  /\ pending' = (pending /\ ~ServesRequest(g))
  /\ UNCHANGED <<epoch, requested, served, model, item, detected>>

(* The except clause: abort, then record the error.                        *)
AbortPipeline(g) ==
  /\ Moves(g, "failing", "reporting")
  /\ StopPipeline(g)
  /\ UNCHANGED <<requestVars, liveVars, item, detected>>

AcceptingAfterError(g) == accepting /\ pipeline # g

ReportError(g) ==
  /\ consumer[g] = "reporting"
  /\ consumer' = [consumer EXCEPT ![g] = "exited"]
  /\ errors' = errors \cup {g}
  /\ accepting' = AcceptingAfterError(g)
  /\ UNCHANGED <<pipeline, generation, endVars, inputVars, requestVars, model,
                 item, detected, controlVars>>

(* A publish callback makes a life-cycle call: it waits for the transition *)
(* lock, and is refused (its thread is the consumer) only once it has it.  *)
PublishCallsBack(g) ==
  /\ ReentrantPublish
  /\ Moves(g, "publishing", "locking")
  /\ UNCHANGED <<requestVars, model, item, detected>>

CallBackRefused(g) ==
  /\ transitionLock = None
  /\ Moves(g, "locking", "failing")
  /\ UNCHANGED <<requestVars, model, item, detected>>

-----------------------------------------------------------------------------
(* Life-cycle calls, serialized by _transition_lock.                       *)

Steps(k, from, to) ==
  /\ control[k] = from
  /\ control' = [control EXCEPT ![k] = to]
  /\ UNCHANGED <<op, transitionLock>>

(* Leave the with block: return, or raise.  Locals die.                    *)
Leaves(k, from) ==
  /\ control[k] = from
  /\ control' = [control EXCEPT ![k] = "idle"]
  /\ transitionLock' = None
  /\ op' = [op EXCEPT ![k] = "none"]
  /\ target' = [target EXCEPT ![k] = None]

Call(k) ==
  /\ control[k] = "idle"
  /\ control' = [control EXCEPT ![k] = "lock"]
  /\ \E o \in Operations : op' = [op EXCEPT ![k] = o]
  /\ UNCHANGED <<node, model, consumeVars, target, transitionLock>>

AcquireTransition(k) ==
  /\ transitionLock = None /\ control[k] = "lock"
  /\ transitionLock' = k
  /\ control' = [control EXCEPT ![k] = "begin"]
  /\ UNCHANGED <<node, model, consumeVars, op, target>>

(* A closed node refuses a reset; a second close has nothing to do; finish *)
(* has nothing to do without a pipeline.                                   *)
BeginRefused(k) ==
  /\ \/ op[k] = "reset" /\ closed
     \/ op[k] = "close" /\ liveClosed
     \/ op[k] = "finish" /\ pipeline = None
  /\ Leaves(k, "begin")
  /\ accepting' = (accepting /\ op[k] # "finish")
  /\ UNCHANGED <<pipeline, generation, errors, endVars, inputVars, requestVars,
                 model, consumeVars>>

(* _detach_generation: callbacks are turned away and the consumer's results*)
(* are no longer current.                                                  *)
Detach(k) ==
  /\ \/ op[k] = "reset" /\ ~closed /\ UNCHANGED closed
     \/ op[k] = "close" /\ ~liveClosed /\ closed' = TRUE
  /\ Steps(k, "begin", IF pipeline = None THEN "mutate" ELSE "stop")
  /\ target' = [target EXCEPT ![k] = pipeline]
  /\ pipeline' = None
  /\ accepting' = FALSE
  /\ UNCHANGED <<generation, errors, liveClosed, inputVars, requestVars, model,
                 consumeVars>>

BeginFinish(k) ==
  /\ op[k] = "finish" /\ pipeline # None
  /\ Steps(k, "begin", "drain")
  /\ target' = [target EXCEPT ![k] = pipeline]
  /\ accepting' = FALSE
  /\ UNCHANGED <<pipeline, generation, errors, endVars, inputVars, requestVars,
                 model, consumeVars>>

FinishByAbort(k) ==
  /\ Steps(k, "drain", "join")
  /\ StopPipeline(target[k])
  /\ UNCHANGED <<node, liveVars, consumeVars, target>>

FinishInput(k) ==
  /\ Steps(k, "drain", "join")
  /\ mode' = [mode EXCEPT ![target[k]] = IF @ = "open" THEN "draining" ELSE @]
  /\ UNCHANGED <<node, slot, latch, accepted, completed, liveVars, consumeVars,
                 target>>

(* pipeline.close: stop, wait for the inference in flight, give up the     *)
(* claim.  finish joins the consumer first, the others afterwards.         *)
ClosePipeline(k) ==
  /\ Steps(k, "stop", "release")
  /\ StopPipeline(target[k])
  /\ UNCHANGED <<node, liveVars, consumeVars, target>>

ClaimKept(g) == claim
ClaimWithout(g) == IF claim = g THEN None ELSE claim

ReleaseClaim(k) ==
  /\ Steps(k, "release", IF op[k] = "finish" THEN "forget" ELSE "join")
  /\ consumer[target[k]] \notin {"inferring", "raising"}
  /\ claim' = ClaimWithout(target[k])
  /\ UNCHANGED <<node, pipeVars, poisoned, session, fresh, inferredIn,
                 consumeVars, target>>

JoinAtOnce(g) == TRUE
JoinReturns(g) == consumer[g] = "exited"

JoinConsumer(k) ==
  /\ Steps(k, "join", IF op[k] = "finish" THEN "stop" ELSE "joined")
  /\ JoinReturns(target[k])
  /\ UNCHANGED <<node, model, consumeVars, target>>

ForgetPipeline(k) ==
  /\ Steps(k, "forget", "joined")
  /\ pipeline' = IF pipeline = target[k] THEN None ELSE pipeline
  /\ UNCHANGED <<generation, accepting, errors, endVars, inputVars,
                 requestVars, model, consumeVars, target>>

(* reset and finish raise the consumer's error, if it had one.             *)
EndCall(k) ==
  /\ op[k] = "finish" \/ (op[k] = "reset" /\ target[k] \in errors)
  /\ Leaves(k, "joined")
  /\ UNCHANGED <<node, model, consumeVars>>

BeginMutation(k) ==
  /\ op[k] = "close" \/ (op[k] = "reset" /\ target[k] \notin errors)
  /\ Steps(k, "joined", "mutate")
  /\ UNCHANGED <<node, model, consumeVars, target>>

(* live.reset_prompts or live.reset_tracking has installed a new session.  *)
ResetModel(k) ==
  /\ op[k] = "reset" /\ claim = None
  /\ session < MaxSession
  /\ Steps(k, "mutate", "request")
  /\ session' = session + 1
  /\ fresh' = TRUE
  /\ UNCHANGED <<node, pipeVars, claim, poisoned, inferredIn, consumeVars,
                 target>>

(* It failed, and left the old session in place and the node without a     *)
(* pipeline.                                                               *)
ResetModelRaises(k) ==
  /\ op[k] = "reset"
  /\ Leaves(k, "mutate")
  /\ UNCHANGED <<node, model, consumeVars>>

(* live.close returns or raises; either way the node is closed for good.   *)
CloseModel(k) ==
  /\ op[k] = "close"
  /\ Leaves(k, "mutate")
  /\ liveClosed' = TRUE
  /\ UNCHANGED <<nodeVars, closed, inputVars, requestVars, model, consumeVars>>

(* The first frame after a reset must be detected and published.           *)
RequestDetection(k) ==
  /\ Steps(k, "request", "create")
  /\ pending' = TRUE
  /\ epoch' = epoch + 1
  /\ requested' = sourceSequence
  /\ UNCHANGED <<nodeVars, endVars, inputVars, served, model, consumeVars,
                 target>>

(* _start_generation: a new pipeline claims the session, ...               *)
StartPipeline(k) ==
  /\ ~poisoned /\ claim = None
  /\ Steps(k, "create", "install")
  /\ claim' = generation + 1
  /\ UNCHANGED <<node, pipeVars, poisoned, session, fresh, inferredIn,
                 consumeVars, target>>

StartRaises(k) ==
  /\ poisoned \/ claim # None
  /\ Leaves(k, "create")
  /\ UNCHANGED <<node, model, consumeVars>>

NextButOne == generation + 2
NextGeneration == generation + 1

(* ... becomes the current one, ...                                        *)
InstallGeneration(k) ==
  /\ Steps(k, "install", "spawn")
  /\ generation' = NextGeneration
  /\ pipeline' = NextGeneration
  /\ accepting' = TRUE
  /\ UNCHANGED <<errors, endVars, inputVars, requestVars, model, consumeVars,
                 target>>

(* ... and its consumer thread is started, or cannot be.                   *)
SpawnConsumer(k) ==
  /\ Leaves(k, "spawn")
  /\ consumer' = [consumer EXCEPT ![generation] = "waiting"]
  /\ UNCHANGED <<node, model, item, detected>>

SpawnRaises(k) ==
  /\ Steps(k, "spawn", "discard")
  /\ pipeline' = None
  /\ accepting' = FALSE
  /\ UNCHANGED <<generation, errors, endVars, inputVars, requestVars, model,
                 consumeVars, target>>

DiscardPipeline(k) ==
  /\ Leaves(k, "discard")
  /\ StopPipeline(generation)
  /\ claim' = ClaimWithout(generation)
  /\ UNCHANGED <<node, poisoned, session, fresh, inferredIn, consumeVars>>

-----------------------------------------------------------------------------
ConsumerStep(g) ==
  \/ TakeFrame(g) \/ ConsumerEnds(g) \/ BeginInference(g)
  \/ InferReturns(g) \/ InferRaises(g) \/ InferFails(g) \/ GateResult(g)
  \/ PublishReturns(g) \/ PublishRaises(g) \/ RecordOutput(g)
  \/ AbortPipeline(g) \/ ReportError(g)
  \/ PublishCallsBack(g) \/ CallBackRefused(g)

TransitionStep(k) ==
  \/ BeginRefused(k) \/ Detach(k) \/ BeginFinish(k) \/ FinishInput(k)
  \/ ClosePipeline(k) \/ ReleaseClaim(k) \/ JoinConsumer(k)
  \/ ForgetPipeline(k) \/ EndCall(k) \/ BeginMutation(k)
  \/ ResetModel(k) \/ ResetModelRaises(k) \/ CloseModel(k)
  \/ RequestDetection(k) \/ StartPipeline(k) \/ StartRaises(k)
  \/ InstallGeneration(k) \/ SpawnConsumer(k) \/ SpawnRaises(k)
  \/ DiscardPipeline(k)

Next ==
  \/ Trigger \/ OnImage
  \/ \E callback \in callbacks : SubmitImage(callback) \/ SubmitRefused(callback)
  \/ \E g \in Generations : ConsumerStep(g)
  \/ \E k \in Controllers : Call(k) \/ AcquireTransition(k) \/ TransitionStep(k)

Spec == Init /\ [][Next]_vars

(* live.infer and the publisher return or raise, and the operating system  *)
(* schedules the consumer and whoever holds the transition lock.  Nothing  *)
(* is assumed of images, of calls, or of the lock's queue.                 *)
Fairness ==
  /\ \A g \in Generations : WF_vars(ConsumerStep(g))
  /\ \A k \in Controllers : WF_vars(TransitionStep(k))

FairSpec == Spec /\ Fairness
-----------------------------------------------------------------------------
ConsumerStates == {"unborn", "waiting", "taken", "inferring", "raising",
                   "returned", "publishing", "published", "locking", "failing",
                   "reporting", "exited"}
Live == ConsumerStates \ {"unborn", "exited"}
Inside == {"begin", "drain", "stop", "release", "join", "forget", "joined",
           "mutate", "request", "create", "install", "spawn", "discard"}

(* Every variable keeps its type.                                          *)
TypeOK ==
  /\ pipeline \in Generations \cup {None} /\ generation \in Generations
  /\ accepting \in BOOLEAN /\ closed \in BOOLEAN /\ liveClosed \in BOOLEAN
  /\ errors \subseteq Generations
  /\ sourceSequence \in 0..MaxSequence + 1 /\ armed \in BOOLEAN
  /\ pending \in BOOLEAN /\ epoch \in Nat
  /\ callbacks \subseteq [to : Generations, frame : Frames]
  /\ mode \in [Generations -> {"open", "draining", "stopped"}]
  /\ slot \in [Generations -> Frames \cup {None}]
  /\ latch \in [Generations -> BOOLEAN]
  /\ claim \in Generations \cup {None} /\ poisoned \in BOOLEAN
  /\ session \in 0..MaxSession /\ fresh \in BOOLEAN
  /\ consumer \in [Generations -> ConsumerStates]
  /\ item \in [Generations -> Frames \cup {None}]
  /\ detected \in [Generations -> BOOLEAN]
  /\ control \in [Controllers -> Inside \cup {"idle", "lock"}]
  /\ op \in [Controllers -> Operations \cup {"none"}]
  /\ target \in [Controllers -> Generations \cup {None}]
  /\ transitionLock \in Controllers \cup {None}
  /\ accepted \in [Generations -> -1..MaxSequence]
  /\ completed \in [Generations -> -1..MaxSequence]
  /\ inferredIn \in [Generations -> 0..MaxSession]
  /\ requested \in 0..MaxSequence + 1 /\ served \in -1..MaxSequence

(* While a life-cycle call changes the model (between the join of the old  *)
(* consumer and the start of the new one) it has the session to itself:    *)
(* nobody infers or publishes, also after the model is closed, and the     *)
(* guards of reset and of a new pipeline find no claim on it.              *)
ModelUntouched ==
  /\ liveClosed \/ (\E k \in Controllers :
                      control[k] \in {"mutate", "request", "create", "install"})
       => \A g \in Generations : consumer[g] \notin Live
  /\ \A k \in Controllers :
       control[k] \in {"mutate", "request", "create"} => claim = None

(* What is being published was inferred in the present session of the      *)
(* model, and no consumer of an older generation is alive: the README's "no*)
(* old-generation result is published after the reset returns".            *)
NoOldPublication ==
  \A g \in Generations :
    /\ consumer[g] \in {"publishing", "published"} => inferredIn[g] = session
    /\ consumer[g] \in Live => g = generation

(* The sticky request is cleared only after a detection was published for  *)
(* an image at least as new as the request: whatever is dropped, stale,    *)
(* superseded or failed in between.  While it is pending, every image that *)
(* could serve it carries it: in a callback, in the slot, and in the       *)
(* consumer's hand until the gate.                                         *)
RequestServed ==
  /\ ~pending => served >= requested
  /\ pending =>
       /\ \A callback \in callbacks :
            callback.frame.epoch = epoch => callback.frame.full
       /\ \A g \in Generations :
            /\ slot[g] # None /\ slot[g].epoch = epoch => slot[g].full
            /\ consumer[g] \in {"inferring", "returned", "publishing"}
                 /\ item[g].epoch = epoch => detected[g]

(* finish drains: when it has joined a consumer that did not fail, the     *)
(* newest image the generation accepted has been inferred.                 *)
FinishDrains ==
  \A k \in Controllers :
    /\ op[k] = "finish"
    /\ control[k] \in {"stop", "release", "forget", "joined"}
    /\ target[k] \notin errors
    => completed[target[k]] = accepted[target[k]]

(* The pipelines assumed here are the FreshFrames queues that LatestFrame  *)
(* implements.                                                             *)
Gen(g) == INSTANCE FreshFrames WITH
  mode <- mode[g],
  next <- accepted[g] + 1,
  pending <- IF slot[g] = None THEN None ELSE slot[g].seq,
  hand <- IF consumer[g] \in {"taken", "inferring"} THEN item[g].seq ELSE None,
  running <- consumer[g] = "inferring",
  delivered <- completed[g]

PipelinesAreFresh ==
  /\ \A g \in Generations : Gen(g)!Init
  /\ [][\A g \in Generations : [Gen(g)!Next]_(Gen(g)!vars)]_vars

(* Whoever is inside a life-cycle call comes out of it again.              *)
TransitionEnds ==
  \A k \in Controllers : control[k] \in Inside ~> control[k] \notin Inside
=============================================================================
