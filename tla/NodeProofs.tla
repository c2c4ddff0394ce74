----------------------------- MODULE NodeProofs -----------------------------
(***************************************************************************)
(* Proofs about the node, for any controllers and bounds, with and without *)
(* a publish callback that makes life-cycle calls: the model is only       *)
(* changed when no consumer is alive and no pipeline claims it, results of *)
(* the session before are not published, a detection request is cleared    *)
(* only once it has been served, every image that could serve it carries   *)
(* it, finish drains the last image, and whatever the node does to one of  *)
(* its pipelines is a step of the queue that FreshFrames promises.         *)
(***************************************************************************)
EXTENDS NodeGenerations, TLAPS

(* How far the life-cycle call has come that holds the transition lock.    *)
Phase == IF transitionLock = None THEN "none" ELSE control[transitionLock]
Doing == op[transitionLock]
Quiet == \A g \in Generations : consumer[g] \notin Live

Typed ==
  /\ generation \in Nat /\ session \in 0..MaxSession /\ generation <= session
  /\ consumer \in [Generations -> ConsumerStates]
  /\ \E S : inferredIn \in [Generations -> S]
  /\ control \in [Controllers -> Inside \cup {"idle", "lock"}]
  /\ op \in [Controllers -> Operations \cup {"none"}]
  /\ target \in [Controllers -> Int \cup {None}]
  /\ transitionLock \in Controllers \cup {None}

LockAgrees == \A k \in Controllers : control[k] \in Inside <=> transitionLock = k

(* The call knows its generation and the way it goes.                      *)
HolderAgrees ==
  /\ Phase \in {"drain", "stop", "release", "join", "forget", "joined"} =>
       target[transitionLock] = generation
  /\ Phase = "drain" => Doing = "finish"
  /\ Phase \in {"request", "create", "install", "spawn", "discard"} => Doing = "reset"
  /\ Phase \in Inside \ {"begin"} =>
       /\ Doing = "reset" => ~closed
       /\ Doing = "close" => closed
  /\ Phase \in {"request", "create", "install"} => generation < session
  /\ Phase = "spawn" => pipeline = generation

(* Without a pipeline there is no consumer, unless it is being joined.     *)
QuietAgrees ==
  /\ Phase \in {"forget", "joined", "mutate", "request", "create", "install", "spawn",
                 "discard"} => Quiet
  /\ Phase \in {"stop", "release"} /\ Doing = "finish" => Quiet
  /\ pipeline = None => Quiet \/ Phase \in {"stop", "release", "join"}
  /\ liveClosed => closed /\ Quiet

(* Nor a claim, unless it is being given up or handed over.                *)
ClaimAgrees ==
  /\ Phase \in {"forget", "joined", "mutate", "request", "create"} => claim = None
  /\ Phase = "join" /\ Doing # "finish" => claim = None
  /\ pipeline = None => claim = None \/ Phase \in {"stop", "release", "install", "discard"}
  /\ claim = None \/ claim = IF Phase = "install" THEN generation + 1 ELSE generation

(* Only the present generation has a consumer, and what it carries was     *)
(* inferred in the present session.                                        *)
ConsumersAgree ==
  /\ pipeline = None \/ pipeline = generation
  /\ \A g \in Generations : consumer[g] \in Live => g = generation
  /\ \A g \in Generations :
       consumer[g] \in {"inferring", "returned", "publishing", "published"} =>
         inferredIn[g] = session

BarrierInv ==
  /\ Typed /\ LockAgrees /\ HolderAgrees /\ QuietAgrees /\ ClaimAgrees
  /\ ConsumersAgree

barrierVars == <<pipeline, generation, closed, liveClosed, claim, session, inferredIn,
                 consumer, control, op, target, transitionLock>>

USE BoundAssumption DEF Generations

LEMMA NoneFact == None \notin Int /\ None \notin Controllers
  BY NoneAssumption

LEMMA BarrierInit == Init => BarrierInv
<1> SUFFICES ASSUME Init PROVE BarrierInv
  OBVIOUS
<1> USE NoneFact DEF Init
<1>1. Phase = "none"
  BY DEF Phase
<1>2. Typed
  <2>1. consumer \in [Generations -> ConsumerStates]
    BY DEF ConsumerStates
  <2>2. inferredIn \in [Generations -> {0}]
    OBVIOUS
  <2>3. \E S : inferredIn \in [Generations -> S]
    BY <2>2
  <2>4. /\ control \in [Controllers -> Inside \cup {"idle", "lock"}]
        /\ op \in [Controllers -> Operations \cup {"none"}]
        /\ target \in [Controllers -> Int \cup {None}]
    OBVIOUS
  <2> QED BY <2>1, <2>3, <2>4 DEF Typed
<1>3. LockAgrees
  BY DEF LockAgrees, Inside
<1>4. \A g \in Generations : consumer[g] \in Live => g = generation
  BY DEF Live, ConsumerStates
<1> QED
  BY <1>1, <1>2, <1>3, <1>4
     DEF BarrierInv, HolderAgrees, QuietAgrees, ClaimAgrees, ConsumersAgree, Inside

(* A step that leaves alone all the invariant speaks of.                   *)
LEMMA BarrierStutter ==
  ASSUME BarrierInv, UNCHANGED barrierVars
  PROVE  BarrierInv'
BY DEF barrierVars, BarrierInv, Typed, LockAgrees, HolderAgrees, QuietAgrees, ClaimAgrees,
       ConsumersAgree, Phase, Doing, Quiet

(* Of a step inside a life-cycle call, and of its last one.                *)
LEMMA StepInside ==
  ASSUME BarrierInv, NEW k \in Controllers, NEW from \in Inside, NEW to \in Inside,
         Steps(k, from, to)
  PROVE  /\ transitionLock = k /\ transitionLock' = k /\ k # None
         /\ Phase = from /\ Phase' = to
         /\ Doing = op[k] /\ Doing' = op[k] /\ op' = op
         /\ LockAgrees'
         /\ control' \in [Controllers -> Inside \cup {"idle", "lock"}]
<1>1. control \in [Controllers -> Inside \cup {"idle", "lock"}] /\ k # None
  BY NoneFact DEF BarrierInv, Typed
<1>2. control[k] = from /\ control' = [control EXCEPT ![k] = to]
      /\ op' = op /\ transitionLock' = transitionLock
  BY DEF Steps
<1>3. transitionLock = k
  BY <1>2 DEF BarrierInv, LockAgrees
<1>4. control' \in [Controllers -> Inside \cup {"idle", "lock"}] /\ control'[k] = to
      /\ \A j \in Controllers \ {k} : control'[j] = control[j]
  BY <1>1, <1>2
<1>5. LockAgrees'
  BY <1>2, <1>3, <1>4 DEF BarrierInv, LockAgrees
<1> QED BY <1>1, <1>2, <1>3, <1>4, <1>5 DEF Phase, Doing

LEMMA StepOut ==
  ASSUME BarrierInv, NEW k \in Controllers, NEW from \in Inside, Leaves(k, from)
  PROVE  /\ transitionLock = k /\ transitionLock' = None /\ k # None
         /\ Phase = from /\ Phase' = "none"
         /\ Doing = op[k]
         /\ LockAgrees'
         /\ control' \in [Controllers -> Inside \cup {"idle", "lock"}]
         /\ op' \in [Controllers -> Operations \cup {"none"}]
         /\ target' \in [Controllers -> Int \cup {None}]
<1>1. control \in [Controllers -> Inside \cup {"idle", "lock"}] /\ k # None
      /\ op \in [Controllers -> Operations \cup {"none"}]
      /\ target \in [Controllers -> Int \cup {None}]
  BY NoneFact DEF BarrierInv, Typed
<1>2. control[k] = from /\ control' = [control EXCEPT ![k] = "idle"]
      /\ transitionLock' = None /\ op' = [op EXCEPT ![k] = "none"]
      /\ target' = [target EXCEPT ![k] = None]
  BY DEF Leaves
<1>3. transitionLock = k
  BY <1>2 DEF BarrierInv, LockAgrees
<1>4. control' \in [Controllers -> Inside \cup {"idle", "lock"}] /\ control'[k] = "idle"
      /\ \A j \in Controllers \ {k} : control'[j] = control[j]
  BY <1>1, <1>2
<1>5. LockAgrees'
  BY NoneFact, <1>2, <1>3, <1>4 DEF BarrierInv, LockAgrees, Inside
<1>6. op' \in [Controllers -> Operations \cup {"none"}]
      /\ target' \in [Controllers -> Int \cup {None}]
  BY <1>1, <1>2
<1> QED BY <1>1, <1>2, <1>3, <1>4, <1>5, <1>6 DEF Phase, Doing

(* Whoever is outside calls, or takes the lock.                            *)
LEMMA CallStep ==
  ASSUME BarrierInv, NEW k \in Controllers, Call(k)
  PROVE  BarrierInv' /\ Phase' = Phase /\ (Phase # "none" => Doing' = Doing)
<1> USE DEF Call, node, model, nodeVars, endVars, pipeVars, liveVars, consumeVars
<1>1. control \in [Controllers -> Inside \cup {"idle", "lock"}]
      /\ op \in [Controllers -> Operations \cup {"none"}]
  BY DEF BarrierInv, Typed
<1>2. /\ control' \in [Controllers -> Inside \cup {"idle", "lock"}]
      /\ control'[k] = "lock" /\ control[k] = "idle"
      /\ \A j \in Controllers \ {k} : control'[j] = control[j] /\ op'[j] = op[j]
      /\ op' \in [Controllers -> Operations \cup {"none"}]
  BY <1>1
<1>3. LockAgrees' /\ transitionLock # k
  BY <1>2 DEF BarrierInv, LockAgrees, Inside
<1>4. transitionLock # None => transitionLock \in Controllers \ {k}
  BY <1>3 DEF BarrierInv, Typed
<1>5. Phase' = Phase /\ (Phase # "none" => Doing' = Doing)
  BY <1>2, <1>4 DEF Phase, Doing
<1>6. Quiet' = Quiet
  BY DEF Quiet
<1> QED
  BY <1>2, <1>3, <1>5, <1>6
     DEF BarrierInv, Typed, HolderAgrees, QuietAgrees, ClaimAgrees, ConsumersAgree, Inside

LEMMA AcquireStep ==
  ASSUME BarrierInv, NEW k \in Controllers, AcquireTransition(k)
  PROVE  BarrierInv' /\ Phase = "none" /\ Phase' = "begin"
<1> USE DEF AcquireTransition, node, model, nodeVars, endVars, pipeVars, liveVars, consumeVars
<1>1. control \in [Controllers -> Inside \cup {"idle", "lock"}]
  BY DEF BarrierInv, Typed
<1>2. /\ control' \in [Controllers -> Inside \cup {"idle", "lock"}] /\ control'[k] = "begin"
      /\ \A j \in Controllers \ {k} : control'[j] = control[j]
  BY <1>1 DEF Inside
<1>3. LockAgrees'
  BY NoneFact, <1>2 DEF BarrierInv, LockAgrees, Inside
<1>4. Phase = "none" /\ Phase' = "begin"
  BY NoneFact, <1>2 DEF Phase
<1>5. Quiet' = Quiet
  BY DEF Quiet
<1> QED
  BY <1>2, <1>3, <1>4, <1>5
     DEF BarrierInv, Typed, HolderAgrees, QuietAgrees, ClaimAgrees, ConsumersAgree, Inside

(* A consumer moves on between two places where it is alive, or ends.      *)
LEMMA ConsumerMoves ==
  ASSUME BarrierInv, NEW g \in Generations, NEW from \in Live, NEW to \in Live \cup {"exited"},
         Moves(g, from, to), UNCHANGED <<claim, session>>,
         to \in {"inferring", "returned", "publishing", "published"} =>
           inferredIn'[g] = session,
         \A h \in Generations \ {g} : inferredIn'[h] = inferredIn[h],
         inferredIn' = inferredIn \/ to = "inferring",
         \E S : inferredIn' \in [Generations -> S]
  PROVE  BarrierInv'
<1> USE DEF Moves, nodeVars, endVars, controlVars
<1>1. consumer \in [Generations -> ConsumerStates]
  BY DEF BarrierInv, Typed
<1>2. /\ consumer' \in [Generations -> ConsumerStates]
      /\ consumer'[g] = to
      /\ \A h \in Generations \ {g} : consumer'[h] = consumer[h]
  BY <1>1 DEF Live, ConsumerStates
<1>3. Phase' = Phase /\ Doing' = Doing
  BY DEF Phase, Doing
<1>4. consumer[g] \in Live
  OBVIOUS
<1>5. ~Quiet
  BY <1>4 DEF Quiet
<1>6. Typed' /\ LockAgrees'
  BY <1>2 DEF BarrierInv, Typed, LockAgrees
<1>7. ConsumersAgree'
  BY <1>2, <1>4 DEF BarrierInv, ConsumersAgree
<1>8. HolderAgrees' /\ ClaimAgrees'
  BY <1>3 DEF BarrierInv, HolderAgrees, ClaimAgrees
<1>9. QuietAgrees'
  BY <1>3, <1>5 DEF BarrierInv, QuietAgrees
<1> QED BY <1>6, <1>7, <1>8, <1>9 DEF BarrierInv

LEMMA ConsumerSteps ==
  ASSUME BarrierInv, NEW g \in Generations, ConsumerStep(g)
  PROVE  BarrierInv'
<1> USE DEF model, pipeVars, liveVars
<1>1. \E S : inferredIn \in [Generations -> S]
  BY DEF BarrierInv, Typed
<1>2. consumer[g] \in {"inferring", "returned", "publishing", "published"} =>
        inferredIn[g] = session
  BY DEF BarrierInv, ConsumersAgree
<1>3. {"waiting", "taken", "inferring", "raising", "returned", "publishing", "published",
       "locking", "failing", "reporting"} \subseteq Live
  BY DEF Live, ConsumerStates
<1>4. CASE TakeFrame(g)
  <2>1. Moves(g, "waiting", "taken") /\ UNCHANGED <<claim, session, inferredIn>>
    BY <1>4 DEF TakeFrame
  <2>2. consumer[g] = "waiting"
    BY <2>1 DEF Moves
  <2> QED BY <1>1, <1>2, <1>3, <2>1, <2>2, ConsumerMoves
<1>5. CASE InferReturns(g)
  <2>1. Moves(g, "inferring", "returned") /\ UNCHANGED <<claim, session, inferredIn>>
    BY <1>5 DEF InferReturns
  <2>2. consumer[g] = "inferring"
    BY <2>1 DEF Moves
  <2> QED BY <1>1, <1>2, <1>3, <2>1, <2>2, ConsumerMoves
<1>6. CASE InferRaises(g)
  <2>1. Moves(g, "inferring", "raising") /\ UNCHANGED <<claim, session, inferredIn>>
    BY <1>6 DEF InferRaises
  <2>2. consumer[g] = "inferring"
    BY <2>1 DEF Moves
  <2> QED BY <1>1, <1>2, <1>3, <2>1, <2>2, ConsumerMoves
<1>7. CASE InferFails(g)
  <2>1. Moves(g, "raising", "failing") /\ UNCHANGED <<claim, session, inferredIn>>
    BY <1>7 DEF InferFails
  <2>2. consumer[g] = "raising"
    BY <2>1 DEF Moves
  <2> QED BY <1>1, <1>2, <1>3, <2>1, <2>2, ConsumerMoves
<1>8. CASE PublishReturns(g)
  <2>1. Moves(g, "publishing", "published") /\ UNCHANGED <<claim, session, inferredIn>>
    BY <1>8 DEF PublishReturns
  <2>2. consumer[g] = "publishing"
    BY <2>1 DEF Moves
  <2> QED BY <1>1, <1>2, <1>3, <2>1, <2>2, ConsumerMoves
<1>9. CASE PublishRaises(g)
  <2>1. Moves(g, "publishing", "failing") /\ UNCHANGED <<claim, session, inferredIn>>
    BY <1>9 DEF PublishRaises
  <2>2. consumer[g] = "publishing"
    BY <2>1 DEF Moves
  <2> QED BY <1>1, <1>2, <1>3, <2>1, <2>2, ConsumerMoves
<1>10. CASE RecordOutput(g)
  <2>1. Moves(g, "published", "waiting") /\ UNCHANGED <<claim, session, inferredIn>>
    BY <1>10 DEF RecordOutput
  <2>2. consumer[g] = "published"
    BY <2>1 DEF Moves
  <2> QED BY <1>1, <1>2, <1>3, <2>1, <2>2, ConsumerMoves
<1>11. CASE AbortPipeline(g)
  <2>1. Moves(g, "failing", "reporting") /\ UNCHANGED <<claim, session, inferredIn>>
    BY <1>11 DEF AbortPipeline
  <2>2. consumer[g] = "failing"
    BY <2>1 DEF Moves
  <2> QED BY <1>1, <1>2, <1>3, <2>1, <2>2, ConsumerMoves
<1>12. CASE PublishCallsBack(g)
  <2>1. Moves(g, "publishing", "locking") /\ UNCHANGED <<claim, session, inferredIn>>
    BY <1>12 DEF PublishCallsBack
  <2>2. consumer[g] = "publishing"
    BY <2>1 DEF Moves
  <2> QED BY <1>1, <1>2, <1>3, <2>1, <2>2, ConsumerMoves
<1>13. CASE CallBackRefused(g)
  <2>1. Moves(g, "locking", "failing") /\ UNCHANGED <<claim, session, inferredIn>>
    BY <1>13 DEF CallBackRefused
  <2>2. consumer[g] = "locking"
    BY <2>1 DEF Moves
  <2> QED BY <1>1, <1>2, <1>3, <2>1, <2>2, ConsumerMoves
<1>14. CASE ConsumerEnds(g)
  <2>1. UNCHANGED <<claim, session, inferredIn>>
    BY <1>14 DEF ConsumerEnds
  <2>2. CASE Moves(g, "waiting", "exited")
    <3>1. consumer[g] = "waiting"
      BY <2>2 DEF Moves
    <3> QED BY <1>1, <1>2, <1>3, <2>1, <2>2, <3>1, ConsumerMoves
  <2>3. CASE Moves(g, "taken", "exited")
    <3>1. consumer[g] = "taken"
      BY <2>3 DEF Moves
    <3> QED BY <1>1, <1>2, <1>3, <2>1, <2>3, <3>1, ConsumerMoves
  <2> QED BY <1>14, <2>2, <2>3 DEF ConsumerEnds
<1>15. CASE GateResult(g)
  <2>1. UNCHANGED <<claim, session, inferredIn>>
    BY <1>15 DEF GateResult
  <2>2. CASE Moves(g, "returned", "publishing")
    <3>1. consumer[g] = "returned"
      BY <2>2 DEF Moves
    <3> QED BY <1>1, <1>2, <1>3, <2>1, <2>2, <3>1, ConsumerMoves
  <2>3. CASE Moves(g, "returned", "waiting")
    <3>1. consumer[g] = "returned"
      BY <2>3 DEF Moves
    <3> QED BY <1>1, <1>2, <1>3, <2>1, <2>3, <3>1, ConsumerMoves
  <2> QED BY <1>15, <2>2, <2>3 DEF GateResult
<1>16. CASE BeginInference(g)
  <2>1. Moves(g, "taken", "inferring") /\ UNCHANGED <<claim, session>>
        /\ inferredIn' = [inferredIn EXCEPT ![g] = session]
    BY <1>16 DEF BeginInference
  <2>2. PICK S : inferredIn \in [Generations -> S]
    BY <1>1
  <2>3. inferredIn' \in [Generations -> S \cup {session}]
    BY <2>1, <2>2
  <2>4. inferredIn'[g] = session /\ \A h \in Generations \ {g} : inferredIn'[h] = inferredIn[h]
    BY <2>1, <2>2
  <2> QED BY <1>3, <2>1, <2>3, <2>4, ConsumerMoves
<1>17. CASE ReportError(g)
  <2> USE DEF ReportError, endVars, controlVars
  <2>1. consumer \in [Generations -> ConsumerStates] /\ consumer[g] \in Live
    BY <1>3, <1>17 DEF BarrierInv, Typed
  <2>2. /\ consumer' \in [Generations -> ConsumerStates] /\ consumer'[g] = "exited"
        /\ \A h \in Generations \ {g} : consumer'[h] = consumer[h]
    BY <1>17, <2>1 DEF ConsumerStates
  <2>3. Phase' = Phase /\ Doing' = Doing /\ ~Quiet
    BY <1>17, <2>1 DEF Phase, Doing, Quiet
  <2>4. Typed' /\ LockAgrees'
    BY <1>17, <2>2 DEF BarrierInv, Typed, LockAgrees
  <2>5. ConsumersAgree'
    BY <1>17, <2>1, <2>2 DEF BarrierInv, ConsumersAgree, Live
  <2>6. HolderAgrees' /\ ClaimAgrees'
    BY <1>17, <2>3 DEF BarrierInv, HolderAgrees, ClaimAgrees
  <2>7. QuietAgrees'
    BY <1>17, <2>3 DEF BarrierInv, QuietAgrees
  <2> QED BY <2>4, <2>5, <2>6, <2>7 DEF BarrierInv
<1> QED
  BY <1>4, <1>5, <1>6, <1>7, <1>8, <1>9, <1>10, <1>11, <1>12, <1>13, <1>14, <1>15, <1>16, <1>17
     DEF ConsumerStep

(* Inside a life-cycle call.  What a step changes besides its place:       *)
LEMMA TransitionSteps ==
  ASSUME BarrierInv, NEW k \in Controllers, TransitionStep(k)
  PROVE  BarrierInv'
<1> USE NoneFact DEF node, nodeVars, endVars, pipeVars, liveVars, consumeVars
<1>0. /\ {"begin", "drain", "stop", "release", "join", "forget", "joined", "mutate", "request",
          "create", "install", "spawn", "discard"} \subseteq Inside
      /\ "none" \notin Inside
  BY DEF Inside
<1>q. UNCHANGED consumer => Quiet' = Quiet
  BY DEF Quiet
<1>1. CASE BeginRefused(k)
  <2>1. Leaves(k, "begin")
    BY <1>1 DEF BeginRefused
  <2>2. /\ transitionLock = k /\ transitionLock' = None /\ Phase = "begin" /\ Phase' = "none"
        /\ Doing = op[k] /\ LockAgrees'
        /\ control' \in [Controllers -> Inside \cup {"idle", "lock"}]
        /\ op' \in [Controllers -> Operations \cup {"none"}]
        /\ target' \in [Controllers -> Int \cup {None}]
    BY ONLY <1>0, <2>1, StepOut, BarrierInv, k \in Controllers
  <2> QED
    BY <1>0, <1>q, <1>1, <2>2
       DEF BeginRefused, model, BarrierInv, Typed, HolderAgrees, QuietAgrees, ClaimAgrees,
           ConsumersAgree, Doing
<1>2. CASE Detach(k)
  <2>1. CASE Steps(k, "begin", "mutate")
    <3>1. /\ transitionLock = k /\ transitionLock' = k /\ Phase = "begin" /\ Phase' = "mutate"
          /\ Doing = op[k] /\ Doing' = op[k] /\ op' = op /\ LockAgrees'
          /\ control' \in [Controllers -> Inside \cup {"idle", "lock"}]
      BY ONLY <1>0, <2>1, StepInside, BarrierInv, k \in Controllers
    <3>2. target' \in [Controllers -> Int \cup {None}] /\ target'[k] = pipeline
      BY <1>2 DEF Detach, BarrierInv, Typed, ConsumersAgree
    <3>3. Phase' = IF pipeline = None THEN "mutate" ELSE "stop"
      <4>1. Steps(k, "begin", IF pipeline = None THEN "mutate" ELSE "stop")
        BY <1>2 DEF Detach
      <4> QED BY ONLY <1>0, <4>1, StepInside, BarrierInv, k \in Controllers
    <3>4. pipeline = None => Quiet /\ claim = None
      BY <3>1 DEF BarrierInv, QuietAgrees, ClaimAgrees
    <3>5. /\ UNCHANGED <<generation, liveClosed, consumer, session, inferredIn, claim>>
          /\ pipeline' = None
          /\ \/ Doing = "reset" /\ ~closed /\ closed' = closed
             \/ Doing = "close" /\ ~liveClosed /\ closed'
      BY <1>2, <3>1 DEF Detach, model
    <3>6. Typed'
      BY <3>1, <3>2, <3>5 DEF BarrierInv, Typed
    <3>7. QuietAgrees' /\ HolderAgrees'
      BY <1>0, <1>q, <3>1, <3>2, <3>3, <3>4, <3>5
         DEF BarrierInv, QuietAgrees, HolderAgrees, ConsumersAgree
    <3>8. ClaimAgrees' /\ ConsumersAgree'
      BY <3>1, <3>3, <3>4, <3>5 DEF BarrierInv, ClaimAgrees, ConsumersAgree
    <3> QED BY <3>1, <3>6, <3>7, <3>8 DEF BarrierInv
  <2>2. CASE Steps(k, "begin", "stop")
    <3>1. /\ transitionLock = k /\ transitionLock' = k /\ Phase = "begin" /\ Phase' = "stop"
          /\ Doing = op[k] /\ Doing' = op[k] /\ op' = op /\ LockAgrees'
          /\ control' \in [Controllers -> Inside \cup {"idle", "lock"}]
      BY ONLY <1>0, <2>2, StepInside, BarrierInv, k \in Controllers
    <3>2. target' \in [Controllers -> Int \cup {None}] /\ target'[k] = pipeline
      BY <1>2 DEF Detach, BarrierInv, Typed, ConsumersAgree
    <3>3. Phase' = IF pipeline = None THEN "mutate" ELSE "stop"
      <4>1. Steps(k, "begin", IF pipeline = None THEN "mutate" ELSE "stop")
        BY <1>2 DEF Detach
      <4> QED BY ONLY <1>0, <4>1, StepInside, BarrierInv, k \in Controllers
    <3>4. pipeline = None => Quiet /\ claim = None
      BY <3>1 DEF BarrierInv, QuietAgrees, ClaimAgrees
    <3>5. /\ UNCHANGED <<generation, liveClosed, consumer, session, inferredIn, claim>>
          /\ pipeline' = None
          /\ \/ Doing = "reset" /\ ~closed /\ closed' = closed
             \/ Doing = "close" /\ ~liveClosed /\ closed'
      BY <1>2, <3>1 DEF Detach, model
    <3>6. Typed'
      BY <3>1, <3>2, <3>5 DEF BarrierInv, Typed
    <3>7. QuietAgrees' /\ HolderAgrees'
      BY <1>0, <1>q, <3>1, <3>2, <3>3, <3>4, <3>5
         DEF BarrierInv, QuietAgrees, HolderAgrees, ConsumersAgree
    <3>8. ClaimAgrees' /\ ConsumersAgree'
      BY <3>1, <3>3, <3>4, <3>5 DEF BarrierInv, ClaimAgrees, ConsumersAgree
    <3> QED BY <3>1, <3>6, <3>7, <3>8 DEF BarrierInv
  <2> QED BY <1>2, <2>1, <2>2 DEF Detach
<1>3. CASE BeginFinish(k)
  <2>1. Steps(k, "begin", "drain")
    BY <1>3 DEF BeginFinish
  <2>2. /\ transitionLock = k /\ transitionLock' = k /\ Phase = "begin" /\ Phase' = "drain"
        /\ Doing = op[k] /\ Doing' = op[k] /\ op' = op /\ LockAgrees'
        /\ control' \in [Controllers -> Inside \cup {"idle", "lock"}]
    BY ONLY <1>0, <2>1, StepInside, BarrierInv, k \in Controllers
  <2>3. target' \in [Controllers -> Int \cup {None}] /\ target'[k] = pipeline
    BY <1>3 DEF BeginFinish, BarrierInv, Typed, ConsumersAgree
  <2> QED
    BY <1>0, <1>q, <1>3, <2>1, <2>2, <2>3
       DEF BeginFinish, model, BarrierInv, Typed, HolderAgrees, QuietAgrees, ClaimAgrees,
           ConsumersAgree, Doing
<1>4. CASE FinishInput(k)
  <2>1. Steps(k, "drain", "join")
    BY <1>4 DEF FinishInput
  <2>2. /\ transitionLock = k /\ transitionLock' = k /\ Phase = "drain" /\ Phase' = "join"
        /\ Doing = op[k] /\ Doing' = op[k] /\ op' = op /\ LockAgrees'
        /\ control' \in [Controllers -> Inside \cup {"idle", "lock"}]
    BY ONLY <1>0, <2>1, StepInside, BarrierInv, k \in Controllers
  <2> QED
    BY <1>0, <1>q, <1>4, <2>1, <2>2
       DEF FinishInput, model, BarrierInv, Typed, HolderAgrees, QuietAgrees, ClaimAgrees,
           ConsumersAgree, Doing
<1>5. CASE ClosePipeline(k)
  <2>1. Steps(k, "stop", "release")
    BY <1>5 DEF ClosePipeline
  <2>2. /\ transitionLock = k /\ transitionLock' = k /\ Phase = "stop" /\ Phase' = "release"
        /\ Doing = op[k] /\ Doing' = op[k] /\ op' = op /\ LockAgrees'
        /\ control' \in [Controllers -> Inside \cup {"idle", "lock"}]
    BY ONLY <1>0, <2>1, StepInside, BarrierInv, k \in Controllers
  <2> QED
    BY <1>0, <1>q, <1>5, <2>1, <2>2
       DEF ClosePipeline, model, BarrierInv, Typed, HolderAgrees, QuietAgrees, ClaimAgrees,
           ConsumersAgree, Doing
<1>6. CASE ReleaseClaim(k)
  <2>1. CASE Steps(k, "release", "forget")
    <3>1. /\ transitionLock = k /\ transitionLock' = k /\ Phase = "release" /\ Phase' = "forget"
          /\ Doing = op[k] /\ Doing' = op[k] /\ op' = op /\ LockAgrees'
          /\ control' \in [Controllers -> Inside \cup {"idle", "lock"}]
      BY ONLY <1>0, <2>1, StepInside, BarrierInv, k \in Controllers
    <3> QED
      BY <1>0, <1>q, <1>6, <2>1, <3>1
         DEF ReleaseClaim, ClaimWithout, model, BarrierInv, Typed, HolderAgrees, QuietAgrees,
             ClaimAgrees, ConsumersAgree, Doing, Steps
  <2>2. CASE Steps(k, "release", "join")
    <3>1. /\ transitionLock = k /\ transitionLock' = k /\ Phase = "release" /\ Phase' = "join"
          /\ Doing = op[k] /\ Doing' = op[k] /\ op' = op /\ LockAgrees'
          /\ control' \in [Controllers -> Inside \cup {"idle", "lock"}]
      BY ONLY <1>0, <2>2, StepInside, BarrierInv, k \in Controllers
    <3> QED
      BY <1>0, <1>q, <1>6, <2>2, <3>1
         DEF ReleaseClaim, ClaimWithout, model, BarrierInv, Typed, HolderAgrees, QuietAgrees,
             ClaimAgrees, ConsumersAgree, Doing, Steps
  <2> QED BY <1>6, <2>1, <2>2 DEF ReleaseClaim
<1>7. CASE JoinConsumer(k)
  <2>1. CASE Steps(k, "join", "stop")
    <3>1. /\ transitionLock = k /\ transitionLock' = k /\ Phase = "join" /\ Phase' = "stop"
          /\ Doing = op[k] /\ Doing' = op[k] /\ op' = op /\ LockAgrees'
          /\ control' \in [Controllers -> Inside \cup {"idle", "lock"}]
      BY ONLY <1>0, <2>1, StepInside, BarrierInv, k \in Controllers
    <3>2. target[k] = generation /\ consumer[generation] = "exited"
      BY <1>7, <3>1 DEF JoinConsumer, JoinReturns, BarrierInv, HolderAgrees
    <3>3. Quiet
      BY <3>2 DEF BarrierInv, ConsumersAgree, Quiet, Live
    <3> QED
      BY <1>0, <1>q, <1>7, <2>1, <3>1, <3>2, <3>3
         DEF JoinConsumer, model, BarrierInv, Typed, HolderAgrees, QuietAgrees, ClaimAgrees,
             ConsumersAgree, Doing, Steps
  <2>2. CASE Steps(k, "join", "joined")
    <3>1. /\ transitionLock = k /\ transitionLock' = k /\ Phase = "join" /\ Phase' = "joined"
          /\ Doing = op[k] /\ Doing' = op[k] /\ op' = op /\ LockAgrees'
          /\ control' \in [Controllers -> Inside \cup {"idle", "lock"}]
      BY ONLY <1>0, <2>2, StepInside, BarrierInv, k \in Controllers
    <3>2. target[k] = generation /\ consumer[generation] = "exited"
      BY <1>7, <3>1 DEF JoinConsumer, JoinReturns, BarrierInv, HolderAgrees
    <3>3. Quiet
      BY <3>2 DEF BarrierInv, ConsumersAgree, Quiet, Live
    <3> QED
      BY <1>0, <1>q, <1>7, <2>2, <3>1, <3>2, <3>3
         DEF JoinConsumer, model, BarrierInv, Typed, HolderAgrees, QuietAgrees, ClaimAgrees,
             ConsumersAgree, Doing, Steps
  <2> QED BY <1>7, <2>1, <2>2 DEF JoinConsumer
<1>8. CASE ForgetPipeline(k)
  <2>1. Steps(k, "forget", "joined")
    BY <1>8 DEF ForgetPipeline
  <2>2. /\ transitionLock = k /\ transitionLock' = k /\ Phase = "forget" /\ Phase' = "joined"
        /\ Doing = op[k] /\ Doing' = op[k] /\ op' = op /\ LockAgrees'
        /\ control' \in [Controllers -> Inside \cup {"idle", "lock"}]
    BY ONLY <1>0, <2>1, StepInside, BarrierInv, k \in Controllers
  <2> QED
    BY <1>0, <1>q, <1>8, <2>1, <2>2
       DEF ForgetPipeline, model, BarrierInv, Typed, HolderAgrees, QuietAgrees, ClaimAgrees,
           ConsumersAgree, Doing
<1>9. CASE EndCall(k)
  <2>1. Leaves(k, "joined")
    BY <1>9 DEF EndCall
  <2>2. /\ transitionLock = k /\ transitionLock' = None /\ Phase = "joined" /\ Phase' = "none"
        /\ Doing = op[k] /\ LockAgrees'
        /\ control' \in [Controllers -> Inside \cup {"idle", "lock"}]
        /\ op' \in [Controllers -> Operations \cup {"none"}]
        /\ target' \in [Controllers -> Int \cup {None}]
    BY ONLY <1>0, <2>1, StepOut, BarrierInv, k \in Controllers
  <2> QED
    BY <1>0, <1>q, <1>9, <2>2
       DEF EndCall, model, BarrierInv, Typed, HolderAgrees, QuietAgrees, ClaimAgrees,
           ConsumersAgree, Doing
<1>10. CASE BeginMutation(k)
  <2>1. Steps(k, "joined", "mutate")
    BY <1>10 DEF BeginMutation
  <2>2. /\ transitionLock = k /\ transitionLock' = k /\ Phase = "joined" /\ Phase' = "mutate"
        /\ Doing = op[k] /\ Doing' = op[k] /\ op' = op /\ LockAgrees'
        /\ control' \in [Controllers -> Inside \cup {"idle", "lock"}]
    BY ONLY <1>0, <2>1, StepInside, BarrierInv, k \in Controllers
  <2> QED
    BY <1>0, <1>q, <1>10, <2>1, <2>2
       DEF BeginMutation, model, BarrierInv, Typed, HolderAgrees, QuietAgrees, ClaimAgrees,
           ConsumersAgree, Doing
<1>11. CASE ResetModel(k)
  <2>1. Steps(k, "mutate", "request")
    BY <1>11 DEF ResetModel
  <2>2. /\ transitionLock = k /\ transitionLock' = k /\ Phase = "mutate" /\ Phase' = "request"
        /\ Doing = op[k] /\ Doing' = op[k] /\ op' = op /\ LockAgrees'
        /\ control' \in [Controllers -> Inside \cup {"idle", "lock"}]
    BY ONLY <1>0, <2>1, StepInside, BarrierInv, k \in Controllers
  <2>3. Quiet /\ claim = None
    BY <2>2 DEF BarrierInv, QuietAgrees, ClaimAgrees
  <2>4. \A g \in Generations : consumer[g] \notin {"inferring", "returned", "publishing", "published"}
    BY <2>3 DEF Quiet, Live, ConsumerStates
  <2>5. session \in Nat /\ session' = session + 1 /\ session' \in 0..MaxSession
    BY <1>11 DEF ResetModel, BarrierInv, Typed
  <2>6. Typed'
    <3>1. UNCHANGED <<generation, consumer, inferredIn, op, target>>
      BY <1>11 DEF ResetModel, Steps
    <3>2. /\ generation \in Nat /\ generation <= session /\ transitionLock' \in Controllers
          /\ consumer \in [Generations -> ConsumerStates]
          /\ op \in [Controllers -> Operations \cup {"none"}]
          /\ target \in [Controllers -> Int \cup {None}]
      BY <2>2 DEF BarrierInv, Typed
    <3>3. \E S : inferredIn' \in [Generations -> S]
      BY <3>1 DEF BarrierInv, Typed
    <3>4. generation' <= session'
      BY <2>5, <3>1, <3>2
    <3> QED BY <2>2, <2>5, <3>1, <3>2, <3>3, <3>4 DEF Typed
  <2>7. ConsumersAgree'
    <3>1. UNCHANGED <<generation, consumer, pipeline>>
      BY <1>11 DEF ResetModel
    <3> QED BY <2>4, <3>1 DEF BarrierInv, ConsumersAgree
  <2>8. QuietAgrees'
    <3>1. UNCHANGED <<consumer, pipeline, closed, liveClosed>>
      BY <1>11 DEF ResetModel
    <3> QED BY <1>q, <2>2, <2>3, <3>1 DEF BarrierInv, QuietAgrees
  <2> QED
    BY <1>0, <1>q, <1>11, <2>1, <2>2, <2>3, <2>5, <2>6, <2>7, <2>8
       DEF ResetModel, model, BarrierInv, Typed, HolderAgrees, QuietAgrees, ClaimAgrees,
           ConsumersAgree, Doing
<1>12. CASE ResetModelRaises(k)
  <2>1. Leaves(k, "mutate")
    BY <1>12 DEF ResetModelRaises
  <2>2. /\ transitionLock = k /\ transitionLock' = None /\ Phase = "mutate" /\ Phase' = "none"
        /\ Doing = op[k] /\ LockAgrees'
        /\ control' \in [Controllers -> Inside \cup {"idle", "lock"}]
        /\ op' \in [Controllers -> Operations \cup {"none"}]
        /\ target' \in [Controllers -> Int \cup {None}]
    BY ONLY <1>0, <2>1, StepOut, BarrierInv, k \in Controllers
  <2> QED
    BY <1>0, <1>q, <1>12, <2>2
       DEF ResetModelRaises, model, BarrierInv, Typed, HolderAgrees, QuietAgrees, ClaimAgrees,
           ConsumersAgree, Doing
<1>13. CASE CloseModel(k)
  <2>1. Leaves(k, "mutate")
    BY <1>13 DEF CloseModel
  <2>2. /\ transitionLock = k /\ transitionLock' = None /\ Phase = "mutate" /\ Phase' = "none"
        /\ Doing = op[k] /\ LockAgrees'
        /\ control' \in [Controllers -> Inside \cup {"idle", "lock"}]
        /\ op' \in [Controllers -> Operations \cup {"none"}]
        /\ target' \in [Controllers -> Int \cup {None}]
    BY ONLY <1>0, <2>1, StepOut, BarrierInv, k \in Controllers
  <2> QED
    BY <1>0, <1>q, <1>13, <2>2
       DEF CloseModel, model, BarrierInv, Typed, HolderAgrees, QuietAgrees, ClaimAgrees,
           ConsumersAgree, Doing
<1>14. CASE RequestDetection(k)
  <2>1. Steps(k, "request", "create")
    BY <1>14 DEF RequestDetection
  <2>2. /\ transitionLock = k /\ transitionLock' = k /\ Phase = "request" /\ Phase' = "create"
        /\ Doing = op[k] /\ Doing' = op[k] /\ op' = op /\ LockAgrees'
        /\ control' \in [Controllers -> Inside \cup {"idle", "lock"}]
    BY ONLY <1>0, <2>1, StepInside, BarrierInv, k \in Controllers
  <2> QED
    BY <1>0, <1>q, <1>14, <2>1, <2>2
       DEF RequestDetection, model, BarrierInv, Typed, HolderAgrees, QuietAgrees, ClaimAgrees,
           ConsumersAgree, Doing
<1>15. CASE StartPipeline(k)
  <2>1. Steps(k, "create", "install")
    BY <1>15 DEF StartPipeline
  <2>2. /\ transitionLock = k /\ transitionLock' = k /\ Phase = "create" /\ Phase' = "install"
        /\ Doing = op[k] /\ Doing' = op[k] /\ op' = op /\ LockAgrees'
        /\ control' \in [Controllers -> Inside \cup {"idle", "lock"}]
    BY ONLY <1>0, <2>1, StepInside, BarrierInv, k \in Controllers
  <2> QED
    BY <1>0, <1>q, <1>15, <2>1, <2>2
       DEF StartPipeline, model, BarrierInv, Typed, HolderAgrees, QuietAgrees, ClaimAgrees,
           ConsumersAgree, Doing
<1>16. CASE StartRaises(k)
  <2>1. Leaves(k, "create")
    BY <1>16 DEF StartRaises
  <2>2. /\ transitionLock = k /\ transitionLock' = None /\ Phase = "create" /\ Phase' = "none"
        /\ Doing = op[k] /\ LockAgrees'
        /\ control' \in [Controllers -> Inside \cup {"idle", "lock"}]
        /\ op' \in [Controllers -> Operations \cup {"none"}]
        /\ target' \in [Controllers -> Int \cup {None}]
    BY ONLY <1>0, <2>1, StepOut, BarrierInv, k \in Controllers
  <2> QED
    BY <1>0, <1>q, <1>16, <2>2
       DEF StartRaises, model, BarrierInv, Typed, HolderAgrees, QuietAgrees, ClaimAgrees,
           ConsumersAgree, Doing
<1>17. CASE InstallGeneration(k)
  <2>1. Steps(k, "install", "spawn")
    BY <1>17 DEF InstallGeneration
  <2>2. /\ transitionLock = k /\ transitionLock' = k /\ Phase = "install" /\ Phase' = "spawn"
        /\ Doing = op[k] /\ Doing' = op[k] /\ op' = op /\ LockAgrees'
        /\ control' \in [Controllers -> Inside \cup {"idle", "lock"}]
    BY ONLY <1>0, <2>1, StepInside, BarrierInv, k \in Controllers
  <2>3. Quiet /\ generation < session /\ generation \in Nat /\ session \in 0..MaxSession
    BY <2>2 DEF BarrierInv, QuietAgrees, HolderAgrees, Typed
  <2>4. generation' = generation + 1 /\ pipeline' = generation + 1 /\ generation' \in Nat
        /\ generation' <= session
    BY <1>17, <2>3 DEF InstallGeneration, NextGeneration
  <2>5. \A g \in Generations : consumer[g] \notin Live
    BY <2>3 DEF Quiet
  <2> QED
    BY <1>0, <1>q, <1>17, <2>1, <2>2, <2>3, <2>4, <2>5
       DEF InstallGeneration, model, BarrierInv, Typed, HolderAgrees, QuietAgrees, ClaimAgrees,
           ConsumersAgree, Doing
<1>18. CASE SpawnConsumer(k)
  <2>1. Leaves(k, "spawn")
    BY <1>18 DEF SpawnConsumer
  <2>2. /\ transitionLock = k /\ transitionLock' = None /\ Phase = "spawn" /\ Phase' = "none"
        /\ Doing = op[k] /\ LockAgrees'
        /\ control' \in [Controllers -> Inside \cup {"idle", "lock"}]
        /\ op' \in [Controllers -> Operations \cup {"none"}]
        /\ target' \in [Controllers -> Int \cup {None}]
    BY ONLY <1>0, <2>1, StepOut, BarrierInv, k \in Controllers
  <2>3. Quiet /\ pipeline = generation /\ generation \in Generations /\ ~closed /\ ~liveClosed
    BY <1>0, <2>2 DEF BarrierInv, QuietAgrees, HolderAgrees, Typed
  <2>4. consumer \in [Generations -> ConsumerStates]
    BY DEF BarrierInv, Typed
  <2>5. /\ consumer' \in [Generations -> ConsumerStates] /\ consumer'[generation] = "waiting"
        /\ \A g \in Generations \ {generation} : consumer'[g] = consumer[g]
    BY <1>18, <2>3, <2>4 DEF SpawnConsumer, ConsumerStates
  <2>6. \A g \in Generations : consumer'[g] \in Live => g = generation
    BY <2>3, <2>5 DEF Quiet
  <2>7. pipeline' # None
    BY <1>18, <2>3 DEF SpawnConsumer
  <2>8. UNCHANGED <<pipeline, generation, closed, liveClosed, claim, session, inferredIn>>
    BY <1>18 DEF SpawnConsumer, model
  <2>9. Typed'
    BY <2>2, <2>5, <2>8 DEF BarrierInv, Typed
  <2>10. HolderAgrees' /\ ClaimAgrees' /\ QuietAgrees'
    BY <1>0, <2>2, <2>3, <2>7, <2>8 DEF BarrierInv, HolderAgrees, ClaimAgrees, QuietAgrees
  <2>11. ConsumersAgree'
    BY <2>3, <2>5, <2>6, <2>8 DEF BarrierInv, ConsumersAgree
  <2> QED BY <2>2, <2>9, <2>10, <2>11 DEF BarrierInv
<1>19. CASE SpawnRaises(k)
  <2>1. Steps(k, "spawn", "discard")
    BY <1>19 DEF SpawnRaises
  <2>2. /\ transitionLock = k /\ transitionLock' = k /\ Phase = "spawn" /\ Phase' = "discard"
        /\ Doing = op[k] /\ Doing' = op[k] /\ op' = op /\ LockAgrees'
        /\ control' \in [Controllers -> Inside \cup {"idle", "lock"}]
    BY ONLY <1>0, <2>1, StepInside, BarrierInv, k \in Controllers
  <2> QED
    BY <1>0, <1>q, <1>19, <2>1, <2>2
       DEF SpawnRaises, model, BarrierInv, Typed, HolderAgrees, QuietAgrees, ClaimAgrees,
           ConsumersAgree, Doing
<1>20. CASE DiscardPipeline(k)
  <2>1. Leaves(k, "discard")
    BY <1>20 DEF DiscardPipeline
  <2>2. /\ transitionLock = k /\ transitionLock' = None /\ Phase = "discard" /\ Phase' = "none"
        /\ Doing = op[k] /\ LockAgrees'
        /\ control' \in [Controllers -> Inside \cup {"idle", "lock"}]
        /\ op' \in [Controllers -> Operations \cup {"none"}]
        /\ target' \in [Controllers -> Int \cup {None}]
    BY ONLY <1>0, <2>1, StepOut, BarrierInv, k \in Controllers
  <2> QED
    BY <1>0, <1>q, <1>20, <2>2
       DEF DiscardPipeline, ClaimWithout, model, BarrierInv, Typed, HolderAgrees, QuietAgrees,
           ClaimAgrees, ConsumersAgree, Doing
<1> QED
  BY <1>1, <1>2, <1>3, <1>4, <1>5, <1>6, <1>7, <1>8, <1>9, <1>10, <1>11, <1>12, <1>13, <1>14,
     <1>15, <1>16, <1>17, <1>18, <1>19, <1>20
     DEF TransitionStep

(* Whoever holds the transition lock has brought the pipeline, the claim   *)
(* and the consumers to where its place in the life-cycle call says.       *)
THEOREM Barrier == Spec => []BarrierInv
<1>1. BarrierInv /\ [Next]_vars => BarrierInv'
  <2> SUFFICES ASSUME BarrierInv, [Next]_vars PROVE BarrierInv'
    OBVIOUS
  <2> USE DEF node, model, nodeVars, endVars, pipeVars, liveVars, consumeVars, controlVars
  <2>1. CASE Trigger \/ OnImage
    BY <2>1, BarrierStutter DEF Trigger, OnImage, barrierVars
  <2>2. ASSUME NEW callback \in callbacks, SubmitImage(callback) \/ SubmitRefused(callback)
        PROVE  BarrierInv'
    BY <2>2, BarrierStutter DEF SubmitImage, SubmitRefused, barrierVars
  <2>3. CASE UNCHANGED vars
    BY <2>3, BarrierStutter DEF vars, barrierVars
  <2> QED
    BY <2>1, <2>2, <2>3, ConsumerSteps, CallStep, AcquireStep, TransitionSteps DEF Next
<1> QED BY <1>1, BarrierInit, PTL DEF Spec

(* While a life-cycle call changes the model it has the session to itself. *)
THEOREM ModelIsUntouched == Spec => []ModelUntouched
<1>1. BarrierInv => ModelUntouched
  <2> SUFFICES ASSUME BarrierInv PROVE ModelUntouched
    OBVIOUS
  <2>1. \A k \in Controllers : control[k] \in Inside => Phase = control[k]
    BY NoneFact DEF BarrierInv, LockAgrees, Phase
  <2>2. {"mutate", "request", "create", "install"} \subseteq Inside
    BY DEF Inside
  <2>3. ASSUME NEW k \in Controllers, control[k] \in {"mutate", "request", "create", "install"}
        PROVE  Quiet /\ (control[k] # "install" => claim = None)
    BY <2>1, <2>2, <2>3 DEF BarrierInv, QuietAgrees, ClaimAgrees
  <2>4. liveClosed => Quiet
    BY DEF BarrierInv, QuietAgrees
  <2> QED BY <2>3, <2>4 DEF ModelUntouched, Quiet
<1> QED BY <1>1, Barrier, PTL

(* What is published was inferred in the present session of the model, and *)
(* only the present generation has a consumer.                             *)
THEOREM NothingOldPublished == Spec => []NoOldPublication
<1>1. BarrierInv => NoOldPublication
  BY DEF BarrierInv, ConsumersAgree, NoOldPublication
<1> QED BY <1>1, Barrier, PTL
-----------------------------------------------------------------------------

USE BoundAssumption DEF Generations

(* A frame of the present request asks for detection while that is due.    *)
Carries(f) ==
  /\ f \in Frames /\ f.epoch <= epoch /\ f.seq < sourceSequence
  /\ f.epoch = epoch => requested <= f.seq /\ (pending => f.full)
InHand == {"taken", "inferring", "returned", "publishing", "published"}
Shut(g) == mode[g] # "open" /\ slot[g] = None

Counted ==
  /\ sourceSequence \in Nat /\ epoch \in Nat /\ requested \in Nat /\ served \in Int
  /\ requested <= sourceSequence /\ served < sourceSequence
  /\ armed \in BOOLEAN /\ pending \in BOOLEAN
  /\ ~pending => requested <= served

Stored ==
  /\ mode \in [Generations -> {"open", "draining", "stopped"}]
  /\ slot \in [Generations -> Frames \cup {None}]
  /\ item \in [Generations -> Frames \cup {None}]
  /\ detected \in [Generations -> BOOLEAN]
  /\ accepted \in [Generations -> Int]
  /\ completed \in [Generations -> Int]

(* One image is on its way to a pipeline, and newer than all before it.    *)
CallbacksAgree ==
  /\ \A g \in Generations : accepted[g] < sourceSequence
  /\ \A c, d \in callbacks : c = d
  /\ \A c \in callbacks :
       /\ c.to \in Generations /\ c.to <= generation
       /\ Carries(c.frame) /\ served < c.frame.seq
       /\ \A g \in Generations : accepted[g] < c.frame.seq

(* A queued frame is newer than whatever was served.                       *)
SlotsAgree ==
  \A g \in Generations : slot[g] # None =>
    /\ g = generation
    /\ Carries(slot[g]) /\ served < slot[g].seq /\ slot[g].seq = accepted[g]

(* So is the one in hand, until it is served itself.                       *)
HandsAgree ==
  \A g \in Generations : consumer[g] \in InHand =>
    /\ Carries(item[g]) /\ item[g].seq <= accepted[g]
    /\ slot[g] # None => item[g].seq < slot[g].seq
    /\ consumer[g] # "published" => served < item[g].seq
    /\ consumer[g] = "published" /\ detected[g] => served = item[g].seq
    /\ consumer[g] \in {"inferring", "returned", "publishing"} /\ pending
         /\ item[g].epoch = epoch => detected[g]

RequestInv == Counted /\ Stored /\ CallbacksAgree /\ SlotsAgree /\ HandsAgree

requestData == <<callbacks, slot, item, detected, mode, accepted, completed, epoch,
                 requested, served, pending, sourceSequence, armed>>

(* Pipelines that are given up take nothing more and hold nothing.         *)
ShutAgrees ==
  /\ \A g \in Generations : g < generation => Shut(g)
  /\ Phase \in {"release", "forget", "joined", "mutate", "request", "create", "install"}
       => Shut(generation)
  /\ Phase = "join" /\ Doing # "finish" => Shut(generation)
  /\ pipeline = None => Shut(generation) \/ Phase \in {"stop", "discard"}

(* What the end of a consumer leaves behind: nothing, unless it failed.    *)
Failed(g) == consumer[g] \in {"failing", "reporting"} \/ g \in errors

EndsAgree ==
  \A g \in Generations :
    /\ consumer[g] = "exited" => Shut(g)
    /\ consumer[g] = "reporting" => mode[g] = "stopped"
    /\ mode[g] = "stopped" => slot[g] = None
    /\ g > generation => mode[g] = "open"
    /\ mode[g] # "stopped" /\ slot[g] = None =>
         /\ consumer[g] \in {"taken", "inferring"} => item[g].seq = accepted[g]
         /\ consumer[g] \notin {"taken", "inferring", "raising"} => completed[g] = accepted[g]

(* The pipeline of a finish stays the current one until it is forgotten.   *)
FinishAgrees ==
  /\ Phase \in {"drain", "join", "stop", "release", "forget"} =>
       pipeline = IF Doing = "finish" THEN generation ELSE None
  /\ Phase = "forget" => Doing = "finish"
  /\ Phase = "discard" => pipeline = None
  /\ pipeline # None /\ mode[pipeline] = "stopped" =>
       Failed(pipeline) \/ Phase \in {"release", "forget"}
  /\ Phase \in {"stop", "release", "forget", "joined"} /\ Doing = "finish"
        /\ generation \notin errors
       => consumer[generation] = "exited" /\ completed[generation] = accepted[generation]

DrainInv == EndsAgree /\ FinishAgrees

LEMMA FramesFact ==
  /\ None \notin Frames
  /\ \A f \in Frames : f.seq \in 0..MaxSequence /\ f.epoch \in Nat /\ f.full \in BOOLEAN
BY FrameAssumption DEF Frames

-----------------------------------------------------------------------------
(* Images.                                                                 *)
LEMMA RequestStutter ==
  ASSUME RequestInv, UNCHANGED <<requestData, consumer, generation>>
  PROVE  RequestInv'
BY DEF requestData, RequestInv, Counted, Stored, CallbacksAgree, SlotsAgree, HandsAgree, Carries

LEMMA OnImageStep ==
  ASSUME BarrierInv, RequestInv, OnImage
  PROVE  RequestInv'
<1> USE FramesFact
<1>1. /\ UNCHANGED <<slot, item, detected, mode, accepted, completed, served, consumer, generation>>
      /\ CallbackFree /\ sourceSequence <= MaxSequence
      /\ sourceSequence' = sourceSequence + 1
  BY DEF OnImage, ApplyPolicy, nodeVars, model, pipeVars, consumeVars, requestVars
<1>2. Stored'
  BY <1>1 DEF RequestInv, Stored
<1>3. sourceSequence \in Nat /\ sourceSequence' \in Nat /\ epoch \in Nat
      /\ requested <= sourceSequence /\ served < sourceSequence /\ served \in Int
      /\ armed \in BOOLEAN /\ pending \in BOOLEAN /\ requested \in Nat
  BY <1>1 DEF RequestInv, Counted
<1>4. CASE UNCHANGED <<armed, callbacks, requestVars>>
  <2>1. \A f \in Frames : Carries(f) => Carries(f)'
    BY <1>1, <1>3, <1>4 DEF Carries, requestVars
  <2>2. UNCHANGED <<pending, epoch, requested>>
    BY <1>4 DEF requestVars
  <2>3. \A f : Carries(f) => f \in Frames
    BY DEF Carries
  <2>4. Counted'
    BY <1>1, <1>3, <1>4, <2>2 DEF RequestInv, Counted
  <2>5. CallbacksAgree'
    BY <1>1, <1>3, <1>4, <2>1, <2>3 DEF RequestInv, CallbacksAgree, CallbackFree, Stored
  <2>6. SlotsAgree'
    BY <1>1, <2>1, <2>3 DEF RequestInv, SlotsAgree
  <2>7. HandsAgree'
    BY <1>1, <2>1, <2>2, <2>3 DEF RequestInv, HandsAgree
  <2> QED BY <1>2, <2>4, <2>5, <2>6, <2>7 DEF RequestInv
<1>5. CASE ~UNCHANGED <<armed, callbacks, requestVars>>
  <2>0. PICK new : new = [seq |-> sourceSequence, full |-> pending', epoch |-> epoch']
    OBVIOUS
  <2>1. /\ pipeline # None
        /\ armed' = FALSE /\ pending' = (pending \/ armed)
        /\ epoch' = IF armed THEN epoch + 1 ELSE epoch
        /\ requested' = IF armed THEN sourceSequence ELSE requested
        /\ callbacks' = callbacks \cup {[to |-> pipeline, frame |-> new]}
    BY <1>5, <2>0 DEF OnImage, ApplyPolicy, DetectionFlag
  <2>2. pipeline = generation /\ generation \in Generations /\ pipeline' = pipeline
    <3>1. pipeline = generation /\ generation \in Nat /\ generation <= session
          /\ session \in 0..MaxSession
      BY <2>1 DEF BarrierInv, ConsumersAgree, Typed
    <3> QED BY <3>1 DEF OnImage, nodeVars
  <2>3. epoch' \in Nat /\ pending' \in BOOLEAN /\ requested' \in Nat /\ armed' \in BOOLEAN
        /\ requested' <= sourceSequence
    <3>1. pending' \in BOOLEAN /\ armed' \in BOOLEAN
      BY <2>1
    <3>2. epoch' \in Nat /\ requested' \in Nat /\ requested' <= sourceSequence
      BY <1>3, <2>1
    <3> QED BY <3>1, <3>2
  <2>4. new \in Frames /\ new.seq = sourceSequence /\ new.epoch = epoch' /\ new.full = pending'
    BY <1>1, <1>3, <2>0, <2>3 DEF Frames
  <2>5. Carries(new)'
    <3>1. pending' => new.full
      BY <2>4
    <3>2. new.epoch <= epoch' /\ new.seq < sourceSequence' /\ requested' <= new.seq
      BY <1>1, <1>3, <2>3, <2>4
    <3> QED BY <2>4, <3>1, <3>2 DEF Carries
  <2>6. \A f \in Frames : Carries(f) => Carries(f)'
    BY <1>1, <1>3, <2>1 DEF Carries
  <2>7. \A f : Carries(f) => f \in Frames
    BY DEF Carries
  <2>8. Counted'
    BY <1>1, <1>3, <2>1, <2>3 DEF RequestInv, Counted
  <2>9. callbacks' = {[to |-> pipeline, frame |-> new]}
    BY <1>1, <2>1 DEF CallbackFree
  <2>10. CallbacksAgree'
    <3>1. \A g \in Generations : accepted'[g] < sourceSequence /\ accepted'[g] < sourceSequence'
      BY <1>1, <1>3 DEF RequestInv, CallbacksAgree, Stored
    <3>2. \A c \in callbacks' : c.to = generation /\ c.frame = new
      BY <2>2, <2>9
    <3>3. served' < sourceSequence /\ generation' = generation /\ generation <= generation
      BY <1>1, <1>3, <2>2
    <3> QED BY <1>1, <2>2, <2>4, <2>5, <2>9, <3>1, <3>2, <3>3 DEF CallbacksAgree
  <2>11. SlotsAgree'
    BY <1>1, <2>6, <2>7 DEF RequestInv, SlotsAgree
  <2>12. HandsAgree'
    <3> SUFFICES ASSUME NEW g \in Generations, consumer'[g] \in InHand,
                        consumer'[g] \in {"inferring", "returned", "publishing"},
                        pending', item'[g].epoch = epoch'
                 PROVE  detected'[g]
      BY <1>1, <2>6, <2>7 DEF RequestInv, HandsAgree
    <3>1. Carries(item[g])
      BY <1>1 DEF RequestInv, HandsAgree
    <3>2. epoch' = epoch /\ ~armed
      BY <1>1, <1>3, <2>1, <3>1 DEF Carries
    <3> QED BY <1>1, <2>1, <3>2 DEF RequestInv, HandsAgree
  <2> QED BY <1>2, <2>8, <2>10, <2>11, <2>12 DEF RequestInv
<1> QED BY <1>4, <1>5

LEMMA SubmitStep ==
  ASSUME BarrierInv, RequestInv, ShutAgrees, NEW c \in callbacks, SubmitImage(c)
  PROVE  RequestInv'
<1> USE FramesFact
<1> DEFINE g == c.to
           f == c.frame
<1>1. /\ mode[g] = "open"
      /\ slot' = [slot EXCEPT ![g] = f] /\ accepted' = [accepted EXCEPT ![g] = f.seq]
      /\ callbacks' = callbacks \ {c}
      /\ UNCHANGED <<item, detected, mode, completed, consumer, generation>>
      /\ UNCHANGED <<epoch, requested, served, pending, sourceSequence, armed>>
  BY DEF SubmitImage, nodeVars, consumeVars, requestVars
<1>2. /\ g \in Generations /\ g <= generation
      /\ Carries(f) /\ served < f.seq
      /\ \A h \in Generations : accepted[h] < f.seq
      /\ \A d \in callbacks : d = c
  BY DEF RequestInv, CallbacksAgree
<1> HIDE DEF g, f
<1>3. f \in Frames /\ f.seq < sourceSequence
  BY <1>2 DEF Carries
<1>4. g = generation
  BY <1>1, <1>2 DEF BarrierInv, Typed, ShutAgrees, Shut
<1>5. callbacks' = {}
  BY <1>1, <1>2
<1>6. Stored'
  BY <1>1, <1>2, <1>3 DEF RequestInv, Stored
<1>7. /\ slot'[g] = f /\ accepted'[g] = f.seq
      /\ \A h \in Generations \ {g} : slot'[h] = slot[h] /\ accepted'[h] = accepted[h]
  BY <1>1, <1>2 DEF RequestInv, Stored
<1>8. Counted'
  BY <1>1 DEF RequestInv, Counted
<1>9. CallbacksAgree'
  BY <1>1, <1>3, <1>5, <1>7 DEF RequestInv, CallbacksAgree
<1>10. \A e : Carries(e)' <=> Carries(e)
  BY <1>1 DEF Carries
<1>11. SlotsAgree'
  BY <1>1, <1>2, <1>4, <1>7, <1>10 DEF RequestInv, SlotsAgree
<1>12. HandsAgree'
  <2>1. \A h \in Generations : consumer[h] \in InHand =>
          item[h].seq \in Int /\ item[h].seq <= accepted'[h]
          /\ (slot'[h] # None => item[h].seq < slot'[h].seq)
    <3> SUFFICES ASSUME NEW h \in Generations, consumer[h] \in InHand
                 PROVE  item[h].seq \in Int /\ item[h].seq <= accepted'[h]
                        /\ (slot'[h] # None => item[h].seq < slot'[h].seq)
      OBVIOUS
    <3>1. item[h] \in Frames /\ item[h].seq <= accepted[h]
          /\ (slot[h] # None => item[h].seq < slot[h].seq)
      BY DEF RequestInv, HandsAgree, Carries
    <3>2. accepted[h] \in Int /\ f.seq \in Int /\ item[h].seq \in Int
      BY <1>3, <3>1 DEF RequestInv, Stored
    <3> QED BY <1>2, <1>7, <3>1, <3>2
  <2> QED BY <1>1, <1>10, <2>1 DEF RequestInv, HandsAgree
<1> QED BY <1>6, <1>8, <1>9, <1>11, <1>12 DEF RequestInv

-----------------------------------------------------------------------------
(* The consumer.  A step from one place to another:                        *)
LEMMA MovesFact ==
  ASSUME BarrierInv, NEW g \in Generations, NEW from \in ConsumerStates,
         NEW to \in ConsumerStates, Moves(g, from, to)
  PROVE  /\ consumer[g] = from /\ consumer'[g] = to
         /\ \A h \in Generations \ {g} : consumer'[h] = consumer[h]
         /\ UNCHANGED <<callbacks, armed, sourceSequence, generation, pipeline, errors>>
         /\ UNCHANGED <<control, op, transitionLock>>
BY DEF Moves, BarrierInv, Typed, nodeVars, endVars, inputVars, controlVars

(* It may lead on with the frame in hand, or drop it.                      *)
LEMMA PlainMove ==
  ASSUME BarrierInv, RequestInv, NEW g \in Generations,
         \A h \in Generations \ {g} : consumer'[h] = consumer[h],
         \/ consumer'[g] \notin InHand
         \/ consumer[g] = "inferring" /\ consumer'[g] = "returned"
         \/ consumer[g] = "returned" /\ consumer'[g] = "publishing",
         UNCHANGED <<callbacks, armed, sourceSequence, generation>>,
         UNCHANGED <<requestVars, mode, slot, item, detected, accepted>>,
         completed' \in [Generations -> Int]
  PROVE  RequestInv'
<1> USE DEF requestVars
<1>1. \A f : Carries(f)' <=> Carries(f)
  BY DEF Carries
<1>2. Counted' /\ Stored'
  BY DEF RequestInv, Counted, Stored
<1>3. CallbacksAgree' /\ SlotsAgree'
  BY <1>1 DEF RequestInv, CallbacksAgree, SlotsAgree
<1>4. HandsAgree'
  BY <1>1 DEF RequestInv, HandsAgree, InHand
<1> QED BY <1>2, <1>3, <1>4 DEF RequestInv

(* Or the pipeline gives up the frame in the slot.                         *)
LEMMA StopsData ==
  ASSUME BarrierInv, RequestInv, NEW g \in Generations, StopPipeline(g),
         \A h \in Generations : consumer'[h] = consumer[h] \/ consumer'[h] \notin InHand,
         UNCHANGED <<callbacks, armed, sourceSequence, generation>>,
         UNCHANGED <<requestVars, item, detected>>
  PROVE  /\ RequestInv'
         /\ \A h \in Generations : Shut(h) => Shut(h)'
         /\ Shut(g)' /\ mode'[g] = "stopped"
<1> USE DEF requestVars, StopPipeline
<1>1. /\ mode' \in [Generations -> {"open", "draining", "stopped"}]
      /\ slot' \in [Generations -> Frames \cup {None}]
      /\ mode'[g] = "stopped" /\ slot'[g] = None
      /\ \A h \in Generations \ {g} : mode'[h] = mode[h] /\ slot'[h] = slot[h]
  BY DEF RequestInv, Stored
<1>2. \A f : Carries(f)' <=> Carries(f)
  BY DEF Carries
<1>3. Counted' /\ Stored'
  BY <1>1 DEF RequestInv, Counted, Stored
<1>4. CallbacksAgree'
  BY <1>2 DEF RequestInv, CallbacksAgree
<1>5. SlotsAgree'
  BY <1>1, <1>2 DEF RequestInv, SlotsAgree
<1>6. HandsAgree'
  BY <1>1, <1>2 DEF RequestInv, HandsAgree
<1>7. (\A h \in Generations : Shut(h) => Shut(h)') /\ Shut(g)'
  BY <1>1 DEF Shut
<1> QED BY <1>1, <1>3, <1>4, <1>5, <1>6, <1>7 DEF RequestInv

LEMMA ConsumerRequest ==
  ASSUME BarrierInv, RequestInv, NEW g \in Generations, ConsumerStep(g)
  PROVE  RequestInv'
<1> USE DEF model, pipeVars, liveVars
<1>0. {"waiting", "taken", "inferring", "raising", "returned", "publishing", "published",
       "locking", "failing", "reporting", "exited"} \subseteq ConsumerStates
      /\ {"waiting", "raising", "locking", "failing", "reporting", "exited"} \cap InHand = {}
      /\ {"taken", "inferring", "returned", "publishing", "published"} \subseteq InHand
  BY DEF ConsumerStates, InHand
<1>c. completed \in [Generations -> Int]
  BY DEF RequestInv, Stored
<1>f. \A f : Carries(f) => f \in Frames /\ f.seq \in Int /\ f.epoch \in Nat /\ f.seq < sourceSequence
  BY FramesFact DEF Carries
<1>1. CASE ConsumerEnds(g) \/ GateResult(g) \/ InferRaises(g) \/ PublishRaises(g)
           \/ PublishCallsBack(g) \/ CallBackRefused(g)
  <2>1. UNCHANGED <<requestVars, mode, slot, item, detected, accepted, completed>>
    BY <1>1 DEF ConsumerEnds, GateResult, InferRaises, PublishRaises, PublishCallsBack,
               CallBackRefused
  <2>2. \/ \E from \in ConsumerStates :
             \E to \in {"exited", "waiting", "raising", "failing", "locking"} : Moves(g, from, to)
        \/ Moves(g, "returned", "publishing")
    BY <1>0, <1>1 DEF ConsumerEnds, GateResult, InferRaises, PublishRaises, PublishCallsBack,
               CallBackRefused
  <2>3. CASE Moves(g, "returned", "publishing")
    BY <1>0, <1>c, <2>1, <2>3, MovesFact, PlainMove
  <2>4. ASSUME NEW from \in ConsumerStates,
               NEW to \in {"exited", "waiting", "raising", "failing", "locking"},
               Moves(g, from, to)
        PROVE  RequestInv'
    BY <1>0, <1>c, <2>1, <2>4, MovesFact, PlainMove
  <2> QED BY <2>2, <2>3, <2>4
<1>2. CASE InferReturns(g)
  <2>1. Moves(g, "inferring", "returned") /\ completed' = [completed EXCEPT ![g] = item[g].seq]
        /\ UNCHANGED <<requestVars, mode, slot, item, detected, accepted>>
    BY <1>2 DEF InferReturns
  <2>2. consumer[g] = "inferring"
    BY <2>1 DEF Moves
  <2>3. Carries(item[g])
    BY <1>0, <2>2 DEF RequestInv, HandsAgree
  <2>4. completed' \in [Generations -> Int]
    BY <1>c, <1>f, <2>1, <2>3
  <2> QED BY <1>0, <2>1, <2>4, MovesFact, PlainMove
<1>3. CASE ReportError(g)
  <2>1. /\ consumer' = [consumer EXCEPT ![g] = "exited"]
        /\ UNCHANGED <<callbacks, armed, sourceSequence, generation>>
        /\ UNCHANGED <<requestVars, mode, slot, item, detected, accepted, completed>>
    BY <1>3 DEF ReportError, inputVars
  <2>2. consumer'[g] = "exited" /\ \A h \in Generations \ {g} : consumer'[h] = consumer[h]
    BY <2>1 DEF BarrierInv, Typed
  <2> QED BY <1>0, <1>c, <2>1, <2>2, PlainMove
<1>4. CASE InferFails(g) \/ AbortPipeline(g)
  <2>1. StopPipeline(g) /\ UNCHANGED <<requestVars, item, detected>>
        /\ (Moves(g, "raising", "failing") \/ Moves(g, "failing", "reporting"))
    BY <1>4 DEF InferFails, AbortPipeline
  <2>2. consumer'[g] \notin InHand /\ (\A h \in Generations \ {g} : consumer'[h] = consumer[h])
        /\ UNCHANGED <<callbacks, armed, sourceSequence, generation>>
    BY <1>0, <2>1, MovesFact
  <2> QED BY <2>1, <2>2, StopsData
<1>5. CASE TakeFrame(g)
  <2>1. /\ slot[g] # None /\ Moves(g, "waiting", "taken")
        /\ item' = [item EXCEPT ![g] = slot[g]] /\ slot' = [slot EXCEPT ![g] = None]
        /\ UNCHANGED <<requestVars, mode, accepted, completed, detected>>
    BY <1>5 DEF TakeFrame
  <2>2. /\ consumer'[g] = "taken" /\ \A h \in Generations \ {g} : consumer'[h] = consumer[h]
        /\ UNCHANGED <<callbacks, armed, sourceSequence, generation>>
    BY <1>0, <2>1, MovesFact
  <2>3. slot[g] \in Frames /\ Carries(slot[g]) /\ served < slot[g].seq
        /\ slot[g].seq = accepted[g] /\ accepted[g] \in Int
    BY <1>f, <2>1 DEF RequestInv, SlotsAgree, Stored
  <2>4. /\ item' \in [Generations -> Frames \cup {None}]
        /\ slot' \in [Generations -> Frames \cup {None}]
        /\ item'[g] = slot[g] /\ slot'[g] = None
        /\ \A h \in Generations \ {g} : item'[h] = item[h] /\ slot'[h] = slot[h]
    BY <2>1, <2>3 DEF RequestInv, Stored
  <2>5. \A f : Carries(f)' <=> Carries(f)
    BY <2>1, <2>2 DEF Carries, requestVars
  <2>6. Counted' /\ Stored' /\ CallbacksAgree'
    BY <2>1, <2>2, <2>4, <2>5 DEF RequestInv, Counted, Stored, CallbacksAgree, requestVars
  <2>7. SlotsAgree'
    BY <2>1, <2>2, <2>4, <2>5 DEF RequestInv, SlotsAgree, requestVars
  <2>8. HandsAgree'
    BY <2>1, <2>2, <2>3, <2>4, <2>5 DEF RequestInv, HandsAgree, requestVars
  <2> QED BY <2>6, <2>7, <2>8 DEF RequestInv
<1>6. CASE BeginInference(g)
  <2>1. /\ Moves(g, "taken", "inferring")
        /\ detected' = [detected EXCEPT ![g] = item[g].full \/ latch[g] \/ fresh]
        /\ UNCHANGED <<requestVars, mode, slot, accepted, completed, item>>
    BY <1>6 DEF BeginInference
  <2>2. /\ consumer[g] = "taken" /\ consumer'[g] = "inferring"
        /\ \A h \in Generations \ {g} : consumer'[h] = consumer[h]
        /\ UNCHANGED <<callbacks, armed, sourceSequence, generation>>
    BY <1>0, <2>1, MovesFact
  <2>3. Carries(item[g]) /\ item[g].seq <= accepted[g] /\ served < item[g].seq
        /\ (slot[g] # None => item[g].seq < slot[g].seq)
    BY <1>0, <2>2 DEF RequestInv, HandsAgree
  <2>4. detected' \in [Generations -> BOOLEAN] /\ (item[g].full => detected'[g])
        /\ \A h \in Generations \ {g} : detected'[h] = detected[h]
    BY <2>1 DEF RequestInv, Stored
  <2>5. \A f : Carries(f)' <=> Carries(f)
    BY <2>1, <2>2 DEF Carries, requestVars
  <2>6. Counted' /\ Stored' /\ CallbacksAgree' /\ SlotsAgree'
    BY <2>1, <2>2, <2>4, <2>5
       DEF RequestInv, Counted, Stored, CallbacksAgree, SlotsAgree, requestVars
  <2>7. HandsAgree'
    <3>1. pending /\ item[g].epoch = epoch => detected'[g]
      BY <2>3, <2>4 DEF Carries
    <3> QED BY <2>1, <2>2, <2>3, <2>4, <2>5, <3>1 DEF RequestInv, HandsAgree, requestVars
  <2> QED BY <2>6, <2>7 DEF RequestInv
<1>7. CASE PublishReturns(g)
  <2>1. /\ Moves(g, "publishing", "published")
        /\ served' = IF detected[g] THEN item[g].seq ELSE served
        /\ UNCHANGED <<pending, epoch, requested, mode, slot, accepted, completed, item, detected>>
    BY <1>7 DEF PublishReturns
  <2>2. /\ consumer[g] = "publishing" /\ consumer'[g] = "published"
        /\ \A h \in Generations \ {g} : consumer'[h] = consumer[h]
        /\ UNCHANGED <<callbacks, armed, sourceSequence, generation>>
    BY <1>0, <2>1, MovesFact
  <2>3. Carries(item[g]) /\ item[g].seq <= accepted[g] /\ served < item[g].seq
        /\ (slot[g] # None => item[g].seq < slot[g].seq)
    BY <1>0, <2>2 DEF RequestInv, HandsAgree
  <2>4. g = generation /\ \A h \in Generations \ {g} : slot[h] = None /\ consumer[h] \notin InHand
    <3>1. InHand \subseteq Live
      BY DEF InHand, Live, ConsumerStates
    <3> QED BY <1>0, <2>2, <3>1 DEF BarrierInv, ConsumersAgree, RequestInv, SlotsAgree
  <2>5. served \in Int /\ item[g].seq \in Int /\ item[g].seq < sourceSequence
        /\ served' \in Int /\ served <= served' /\ served' <= item[g].seq
        /\ served' < sourceSequence /\ accepted[g] \in Int
    BY <1>f, <2>1, <2>3 DEF RequestInv, Counted, Stored
  <2>6. \A f : Carries(f)' <=> Carries(f)
    BY <2>1, <2>2 DEF Carries
  <2>7. Counted' /\ Stored'
    BY <2>1, <2>2, <2>5 DEF RequestInv, Counted, Stored
  <2>8. CallbacksAgree'
    <3>1. \A c \in callbacks : Carries(c.frame) /\ c.frame.seq \in Int /\ accepted[g] < c.frame.seq
      BY <1>f DEF RequestInv, CallbacksAgree
    <3>2. \A c \in callbacks : served' < c.frame.seq
      BY <2>3, <2>5, <3>1
    <3> QED BY <2>1, <2>2, <2>6, <3>2 DEF RequestInv, CallbacksAgree
  <2>9. SlotsAgree'
    <3>1. slot[g] # None => Carries(slot[g]) /\ slot[g].seq \in Int
      BY <1>f DEF RequestInv, SlotsAgree
    <3>2. slot[g] # None => served' < slot[g].seq
      BY <2>3, <2>5, <3>1
    <3> QED BY <2>1, <2>2, <2>4, <2>6, <3>2 DEF RequestInv, SlotsAgree
  <2>10. HandsAgree'
    BY <2>1, <2>2, <2>3, <2>4, <2>6 DEF HandsAgree
  <2> QED BY <2>7, <2>8, <2>9, <2>10 DEF RequestInv
<1>8. CASE RecordOutput(g)
  <2>1. /\ Moves(g, "published", "waiting")
        /\ pending' = (pending /\ ~ServesRequest(g))
        /\ UNCHANGED <<epoch, requested, served, mode, slot, accepted, completed, item, detected>>
    BY <1>8 DEF RecordOutput
  <2>2. /\ consumer[g] = "published" /\ consumer'[g] = "waiting"
        /\ \A h \in Generations \ {g} : consumer'[h] = consumer[h]
        /\ UNCHANGED <<callbacks, armed, sourceSequence, generation>>
    BY <1>0, <2>1, MovesFact
  <2>3. Carries(item[g]) /\ (detected[g] => served = item[g].seq)
    BY <1>0, <2>2 DEF RequestInv, HandsAgree
  <2>4. pending' \in BOOLEAN /\ (pending' => pending)
    BY <2>1
  <2>5. ~pending' => requested <= served
    <3>1. ~pending' => ~pending \/ (detected[g] /\ item[g].epoch = epoch)
      BY <2>1 DEF ServesRequest
    <3> QED BY <2>3, <3>1 DEF RequestInv, Counted, Carries
  <2>6. \A f : Carries(f) => Carries(f)'
    BY <2>1, <2>2, <2>4 DEF Carries
  <2>7. Counted' /\ Stored' /\ CallbacksAgree' /\ SlotsAgree'
    BY <2>1, <2>2, <2>4, <2>5, <2>6
       DEF RequestInv, Counted, Stored, CallbacksAgree, SlotsAgree
  <2>8. HandsAgree'
    BY <1>0, <2>1, <2>2, <2>4, <2>6 DEF RequestInv, HandsAgree
  <2> QED BY <2>7, <2>8 DEF RequestInv
<1> QED
  BY <1>1, <1>2, <1>3, <1>4, <1>5, <1>6, <1>7, <1>8 DEF ConsumerStep

-----------------------------------------------------------------------------
(* Life-cycle calls.                                                       *)
LEMMA PresentGeneration ==
  ASSUME BarrierInv
  PROVE  generation \in Generations
BY DEF BarrierInv, Typed

LEMMA LifeCycle ==
  ASSUME BarrierInv, RequestInv, ShutAgrees, DrainInv, NEW k \in Controllers, TransitionStep(k)
  PROVE  RequestInv' /\ ShutAgrees' /\ DrainInv'
<1> USE NoneFact DEF node, nodeVars, endVars, inputVars, requestVars, pipeVars, liveVars,
                     consumeVars, model
<1>0. /\ {"begin", "drain", "stop", "release", "join", "forget", "joined", "mutate", "request",
          "create", "install", "spawn", "discard"} \subseteq Inside
      /\ "none" \notin Inside
  BY DEF Inside
<1>g. generation \in Generations /\ (pipeline = None \/ pipeline = generation)
  BY PresentGeneration DEF BarrierInv, ConsumersAgree
<1>s. UNCHANGED <<mode, slot>> => \A g \in Generations : Shut(g)' <=> Shut(g)
  BY DEF Shut
<1>r. UNCHANGED <<requestData, consumer, generation>> => RequestInv'
  BY RequestStutter
<1>e. UNCHANGED <<requestData, consumer, generation>> => EndsAgree'
  BY DEF requestData, DrainInv, EndsAgree, Shut
<1>f. UNCHANGED <<consumer, errors>> => \A g \in Generations : Failed(g)' <=> Failed(g)
  BY DEF Failed
<1>1. CASE BeginRefused(k)
  <2>1. Leaves(k, "begin")
    BY <1>1 DEF BeginRefused
  <2>2. /\ transitionLock = k /\ Phase = "begin" /\ Phase' = "none" /\ Doing = op[k]
    BY ONLY <1>0, <2>1, StepOut, BarrierInv, k \in Controllers
  <2>3. UNCHANGED <<requestData, consumer, generation, errors>>
    BY <1>1 DEF BeginRefused, requestData
  <2>4. ShutAgrees'
    BY <1>s, <1>g, <1>1, <2>2, <2>3
       DEF BeginRefused, ShutAgrees, BarrierInv, HolderAgrees, requestData, FinishAgrees, DrainInv
  <2>5. FinishAgrees'
    BY <1>f, <1>g, <1>1, <2>2, <2>3
       DEF BeginRefused, DrainInv, FinishAgrees, BarrierInv, HolderAgrees, requestData
  <2> QED BY <1>r, <1>e, <2>3, <2>4, <2>5 DEF DrainInv
<1>2. CASE Detach(k)
  <2>3. UNCHANGED <<requestData, consumer, generation, errors>>
    BY <1>2 DEF Detach, requestData
  <2>4. CASE Steps(k, "begin", "mutate")
    <3>1. Steps(k, "begin", "mutate")
      BY <2>4
    <3>2. /\ transitionLock = k /\ Phase = "begin" /\ Phase' = "mutate" /\ Doing = op[k]
         /\ transitionLock' = k /\ Doing' = op[k]
      BY ONLY <1>0, <3>1, StepInside, BarrierInv, k \in Controllers
    <3>3. /\ pipeline' = None /\ Doing # "finish"
          /\ Phase' = IF pipeline = None THEN "mutate" ELSE "stop"
      <4>1. Steps(k, "begin", IF pipeline = None THEN "mutate" ELSE "stop")
        BY <1>2 DEF Detach
      <4>2. Phase' = IF pipeline = None THEN "mutate" ELSE "stop"
        BY ONLY <1>0, <4>1, StepInside, BarrierInv, k \in Controllers
      <4> QED BY <1>2, <3>2, <4>2 DEF Detach
    <3>4. ShutAgrees'
      BY <1>s, <1>g, <1>2, <2>3, <3>2, <3>3
         DEF Detach, ShutAgrees, BarrierInv, HolderAgrees, requestData
    <3>5. FinishAgrees'
      BY <1>f, <1>g, <1>2, <2>3, <3>2, <3>3
         DEF Detach, DrainInv, FinishAgrees, BarrierInv, HolderAgrees, requestData
    <3> QED BY <1>r, <1>e, <2>3, <3>4, <3>5 DEF DrainInv
  <2>5. CASE Steps(k, "begin", "stop")
    <3>1. Steps(k, "begin", "stop")
      BY <2>5
    <3>2. /\ transitionLock = k /\ Phase = "begin" /\ Phase' = "stop" /\ Doing = op[k]
         /\ transitionLock' = k /\ Doing' = op[k]
      BY ONLY <1>0, <3>1, StepInside, BarrierInv, k \in Controllers
    <3>3. /\ pipeline' = None /\ Doing # "finish"
          /\ Phase' = IF pipeline = None THEN "mutate" ELSE "stop"
      <4>1. Steps(k, "begin", IF pipeline = None THEN "mutate" ELSE "stop")
        BY <1>2 DEF Detach
      <4>2. Phase' = IF pipeline = None THEN "mutate" ELSE "stop"
        BY ONLY <1>0, <4>1, StepInside, BarrierInv, k \in Controllers
      <4> QED BY <1>2, <3>2, <4>2 DEF Detach
    <3>4. ShutAgrees'
      BY <1>s, <1>g, <1>2, <2>3, <3>2, <3>3
         DEF Detach, ShutAgrees, BarrierInv, HolderAgrees, requestData
    <3>5. FinishAgrees'
      BY <1>f, <1>g, <1>2, <2>3, <3>2, <3>3
         DEF Detach, DrainInv, FinishAgrees, BarrierInv, HolderAgrees, requestData
    <3> QED BY <1>r, <1>e, <2>3, <3>4, <3>5 DEF DrainInv
  <2> QED BY <1>2, <2>4, <2>5 DEF Detach
<1>3. CASE BeginFinish(k)
  <2>1. Steps(k, "begin", "drain")
    BY <1>3 DEF BeginFinish
  <2>2. /\ transitionLock = k /\ Phase = "begin" /\ Phase' = "drain" /\ Doing = op[k]
       /\ transitionLock' = k /\ Doing' = op[k]
    BY ONLY <1>0, <2>1, StepInside, BarrierInv, k \in Controllers
  <2>3. UNCHANGED <<requestData, consumer, generation, errors>>
    BY <1>3 DEF BeginFinish, requestData
  <2>4. ShutAgrees'
    BY <1>s, <1>g, <1>3, <2>2, <2>3
       DEF BeginFinish, ShutAgrees, BarrierInv, HolderAgrees, requestData, FinishAgrees, DrainInv
  <2>5. FinishAgrees'
    BY <1>f, <1>g, <1>3, <2>2, <2>3
       DEF BeginFinish, DrainInv, FinishAgrees, BarrierInv, HolderAgrees, requestData
  <2> QED BY <1>r, <1>e, <2>3, <2>4, <2>5 DEF DrainInv
<1>4. CASE ReleaseClaim(k)
  <2>3. UNCHANGED <<requestData, consumer, generation, errors>>
    BY <1>4 DEF ReleaseClaim, requestData
  <2>4. CASE Steps(k, "release", "forget")
    <3>1. Steps(k, "release", "forget")
      BY <2>4
    <3>2. /\ transitionLock = k /\ Phase = "release" /\ Phase' = "forget" /\ Doing = op[k]
         /\ transitionLock' = k /\ Doing' = op[k]
      BY ONLY <1>0, <3>1, StepInside, BarrierInv, k \in Controllers
    <3>3. Phase' = IF Doing = "finish" THEN "forget" ELSE "join"
      <4>1. Steps(k, "release", IF op[k] = "finish" THEN "forget" ELSE "join")
        BY <1>4 DEF ReleaseClaim
      <4> QED BY ONLY <1>0, <3>2, <4>1, StepInside, BarrierInv, k \in Controllers
    <3>4. ShutAgrees'
      BY <1>s, <1>g, <1>4, <2>3, <3>2, <3>3
         DEF ReleaseClaim, ShutAgrees, BarrierInv, HolderAgrees, requestData
    <3>5. FinishAgrees'
      BY <1>f, <1>g, <1>4, <2>3, <3>2, <3>3
         DEF ReleaseClaim, DrainInv, FinishAgrees, BarrierInv, HolderAgrees, requestData
    <3> QED BY <1>r, <1>e, <2>3, <3>4, <3>5 DEF DrainInv
  <2>5. CASE Steps(k, "release", "join")
    <3>1. Steps(k, "release", "join")
      BY <2>5
    <3>2. /\ transitionLock = k /\ Phase = "release" /\ Phase' = "join" /\ Doing = op[k]
         /\ transitionLock' = k /\ Doing' = op[k]
      BY ONLY <1>0, <3>1, StepInside, BarrierInv, k \in Controllers
    <3>3. Phase' = IF Doing = "finish" THEN "forget" ELSE "join"
      <4>1. Steps(k, "release", IF op[k] = "finish" THEN "forget" ELSE "join")
        BY <1>4 DEF ReleaseClaim
      <4> QED BY ONLY <1>0, <3>2, <4>1, StepInside, BarrierInv, k \in Controllers
    <3>4. ShutAgrees'
      BY <1>s, <1>g, <1>4, <2>3, <3>2, <3>3
         DEF ReleaseClaim, ShutAgrees, BarrierInv, HolderAgrees, requestData
    <3>5. FinishAgrees'
      BY <1>f, <1>g, <1>4, <2>3, <3>2, <3>3
         DEF ReleaseClaim, DrainInv, FinishAgrees, BarrierInv, HolderAgrees, requestData
    <3> QED BY <1>r, <1>e, <2>3, <3>4, <3>5 DEF DrainInv
  <2> QED BY <1>4, <2>4, <2>5 DEF ReleaseClaim
<1>5. CASE JoinConsumer(k)
  <2>3. UNCHANGED <<requestData, consumer, generation, errors>>
    BY <1>5 DEF JoinConsumer, requestData
  <2>4. CASE Steps(k, "join", "stop")
    <3>1. Steps(k, "join", "stop")
      BY <2>4
    <3>2. /\ transitionLock = k /\ Phase = "join" /\ Phase' = "stop" /\ Doing = op[k]
         /\ transitionLock' = k /\ Doing' = op[k]
      BY ONLY <1>0, <3>1, StepInside, BarrierInv, k \in Controllers
    <3>3. /\ Phase' = IF Doing = "finish" THEN "stop" ELSE "joined"
          /\ target[k] = generation /\ consumer[generation] = "exited"
      <4>1. Steps(k, "join", IF op[k] = "finish" THEN "stop" ELSE "joined")
        BY <1>5 DEF JoinConsumer
      <4>2. Phase' = IF Doing = "finish" THEN "stop" ELSE "joined"
        BY ONLY <1>0, <3>2, <4>1, StepInside, BarrierInv, k \in Controllers
      <4> QED BY <1>5, <3>2, <4>2 DEF JoinConsumer, JoinReturns, BarrierInv, HolderAgrees
    <3>6. Doing = "finish" /\ generation \notin errors => completed[generation] = accepted[generation]
      BY <1>g, <3>2, <3>3 DEF DrainInv, FinishAgrees, EndsAgree, Failed, Shut
    <3>4. ShutAgrees'
      BY <1>s, <1>g, <1>5, <2>3, <3>2, <3>3, <3>6
         DEF JoinConsumer, ShutAgrees, BarrierInv, HolderAgrees, requestData
    <3>5. FinishAgrees'
      BY <1>f, <1>g, <1>5, <2>3, <3>2, <3>3, <3>6
         DEF JoinConsumer, DrainInv, FinishAgrees, BarrierInv, HolderAgrees, requestData
    <3> QED BY <1>r, <1>e, <2>3, <3>4, <3>5 DEF DrainInv
  <2>5. CASE Steps(k, "join", "joined")
    <3>1. Steps(k, "join", "joined")
      BY <2>5
    <3>2. /\ transitionLock = k /\ Phase = "join" /\ Phase' = "joined" /\ Doing = op[k]
         /\ transitionLock' = k /\ Doing' = op[k]
      BY ONLY <1>0, <3>1, StepInside, BarrierInv, k \in Controllers
    <3>3. /\ Phase' = IF Doing = "finish" THEN "stop" ELSE "joined"
          /\ target[k] = generation /\ consumer[generation] = "exited"
      <4>1. Steps(k, "join", IF op[k] = "finish" THEN "stop" ELSE "joined")
        BY <1>5 DEF JoinConsumer
      <4>2. Phase' = IF Doing = "finish" THEN "stop" ELSE "joined"
        BY ONLY <1>0, <3>2, <4>1, StepInside, BarrierInv, k \in Controllers
      <4> QED BY <1>5, <3>2, <4>2 DEF JoinConsumer, JoinReturns, BarrierInv, HolderAgrees
    <3>6. Doing = "finish" /\ generation \notin errors => completed[generation] = accepted[generation]
      BY <1>g, <3>2, <3>3 DEF DrainInv, FinishAgrees, EndsAgree, Failed, Shut
    <3>4. ShutAgrees'
      BY <1>s, <1>g, <1>5, <2>3, <3>2, <3>3, <3>6
         DEF JoinConsumer, ShutAgrees, BarrierInv, HolderAgrees, requestData
    <3>5. FinishAgrees'
      BY <1>f, <1>g, <1>5, <2>3, <3>2, <3>3, <3>6
         DEF JoinConsumer, DrainInv, FinishAgrees, BarrierInv, HolderAgrees, requestData
    <3> QED BY <1>r, <1>e, <2>3, <3>4, <3>5 DEF DrainInv
  <2> QED BY <1>5, <2>4, <2>5 DEF JoinConsumer
<1>6. CASE ForgetPipeline(k)
  <2>1. Steps(k, "forget", "joined")
    BY <1>6 DEF ForgetPipeline
  <2>2. /\ transitionLock = k /\ Phase = "forget" /\ Phase' = "joined" /\ Doing = op[k]
       /\ transitionLock' = k /\ Doing' = op[k]
    BY ONLY <1>0, <2>1, StepInside, BarrierInv, k \in Controllers
  <2>3. UNCHANGED <<requestData, consumer, generation, errors>>
    BY <1>6 DEF ForgetPipeline, requestData
  <2>4. ShutAgrees'
    BY <1>s, <1>g, <1>6, <2>2, <2>3
       DEF ForgetPipeline, ShutAgrees, BarrierInv, HolderAgrees, requestData, FinishAgrees,
           DrainInv
  <2>5. FinishAgrees'
    BY <1>f, <1>g, <1>6, <2>2, <2>3
       DEF ForgetPipeline, DrainInv, FinishAgrees, BarrierInv, HolderAgrees, requestData
  <2> QED BY <1>r, <1>e, <2>3, <2>4, <2>5 DEF DrainInv
<1>7. CASE EndCall(k)
  <2>1. Leaves(k, "joined")
    BY <1>7 DEF EndCall
  <2>2. /\ transitionLock = k /\ Phase = "joined" /\ Phase' = "none" /\ Doing = op[k]
    BY ONLY <1>0, <2>1, StepOut, BarrierInv, k \in Controllers
  <2>3. UNCHANGED <<requestData, consumer, generation, errors>>
    BY <1>7 DEF EndCall, requestData
  <2>4. ShutAgrees'
    BY <1>s, <1>g, <1>7, <2>2, <2>3
       DEF EndCall, ShutAgrees, BarrierInv, HolderAgrees, requestData, FinishAgrees, DrainInv
  <2>5. FinishAgrees'
    BY <1>f, <1>g, <1>7, <2>2, <2>3
       DEF EndCall, DrainInv, FinishAgrees, BarrierInv, HolderAgrees, requestData
  <2> QED BY <1>r, <1>e, <2>3, <2>4, <2>5 DEF DrainInv
<1>8. CASE BeginMutation(k)
  <2>1. Steps(k, "joined", "mutate")
    BY <1>8 DEF BeginMutation
  <2>2. /\ transitionLock = k /\ Phase = "joined" /\ Phase' = "mutate" /\ Doing = op[k]
       /\ transitionLock' = k /\ Doing' = op[k]
    BY ONLY <1>0, <2>1, StepInside, BarrierInv, k \in Controllers
  <2>3. UNCHANGED <<requestData, consumer, generation, errors>>
    BY <1>8 DEF BeginMutation, requestData
  <2>4. ShutAgrees'
    BY <1>s, <1>g, <1>8, <2>2, <2>3
       DEF BeginMutation, ShutAgrees, BarrierInv, HolderAgrees, requestData, FinishAgrees,
           DrainInv
  <2>5. FinishAgrees'
    BY <1>f, <1>g, <1>8, <2>2, <2>3
       DEF BeginMutation, DrainInv, FinishAgrees, BarrierInv, HolderAgrees, requestData
  <2> QED BY <1>r, <1>e, <2>3, <2>4, <2>5 DEF DrainInv
<1>9. CASE ResetModel(k)
  <2>1. Steps(k, "mutate", "request")
    BY <1>9 DEF ResetModel
  <2>2. /\ transitionLock = k /\ Phase = "mutate" /\ Phase' = "request" /\ Doing = op[k]
       /\ transitionLock' = k /\ Doing' = op[k]
    BY ONLY <1>0, <2>1, StepInside, BarrierInv, k \in Controllers
  <2>3. UNCHANGED <<requestData, consumer, generation, errors>>
    BY <1>9 DEF ResetModel, requestData
  <2>4. ShutAgrees'
    BY <1>s, <1>g, <1>9, <2>2, <2>3
       DEF ResetModel, ShutAgrees, BarrierInv, HolderAgrees, requestData, FinishAgrees, DrainInv
  <2>5. FinishAgrees'
    BY <1>f, <1>g, <1>9, <2>2, <2>3
       DEF ResetModel, DrainInv, FinishAgrees, BarrierInv, HolderAgrees, requestData
  <2> QED BY <1>r, <1>e, <2>3, <2>4, <2>5 DEF DrainInv
<1>10. CASE ResetModelRaises(k)
  <2>1. Leaves(k, "mutate")
    BY <1>10 DEF ResetModelRaises
  <2>2. /\ transitionLock = k /\ Phase = "mutate" /\ Phase' = "none" /\ Doing = op[k]
    BY ONLY <1>0, <2>1, StepOut, BarrierInv, k \in Controllers
  <2>3. UNCHANGED <<requestData, consumer, generation, errors>>
    BY <1>10 DEF ResetModelRaises, requestData
  <2>4. ShutAgrees'
    BY <1>s, <1>g, <1>10, <2>2, <2>3
       DEF ResetModelRaises, ShutAgrees, BarrierInv, HolderAgrees, requestData, FinishAgrees,
           DrainInv
  <2>5. FinishAgrees'
    BY <1>f, <1>g, <1>10, <2>2, <2>3
       DEF ResetModelRaises, DrainInv, FinishAgrees, BarrierInv, HolderAgrees, requestData
  <2> QED BY <1>r, <1>e, <2>3, <2>4, <2>5 DEF DrainInv
<1>11. CASE CloseModel(k)
  <2>1. Leaves(k, "mutate")
    BY <1>11 DEF CloseModel
  <2>2. /\ transitionLock = k /\ Phase = "mutate" /\ Phase' = "none" /\ Doing = op[k]
    BY ONLY <1>0, <2>1, StepOut, BarrierInv, k \in Controllers
  <2>3. UNCHANGED <<requestData, consumer, generation, errors>>
    BY <1>11 DEF CloseModel, requestData
  <2>4. ShutAgrees'
    BY <1>s, <1>g, <1>11, <2>2, <2>3
       DEF CloseModel, ShutAgrees, BarrierInv, HolderAgrees, requestData, FinishAgrees, DrainInv
  <2>5. FinishAgrees'
    BY <1>f, <1>g, <1>11, <2>2, <2>3
       DEF CloseModel, DrainInv, FinishAgrees, BarrierInv, HolderAgrees, requestData
  <2> QED BY <1>r, <1>e, <2>3, <2>4, <2>5 DEF DrainInv
<1>12. CASE StartPipeline(k)
  <2>1. Steps(k, "create", "install")
    BY <1>12 DEF StartPipeline
  <2>2. /\ transitionLock = k /\ Phase = "create" /\ Phase' = "install" /\ Doing = op[k]
       /\ transitionLock' = k /\ Doing' = op[k]
    BY ONLY <1>0, <2>1, StepInside, BarrierInv, k \in Controllers
  <2>3. UNCHANGED <<requestData, consumer, generation, errors>>
    BY <1>12 DEF StartPipeline, requestData
  <2>4. ShutAgrees'
    BY <1>s, <1>g, <1>12, <2>2, <2>3
       DEF StartPipeline, ShutAgrees, BarrierInv, HolderAgrees, requestData, FinishAgrees,
           DrainInv
  <2>5. FinishAgrees'
    BY <1>f, <1>g, <1>12, <2>2, <2>3
       DEF StartPipeline, DrainInv, FinishAgrees, BarrierInv, HolderAgrees, requestData
  <2> QED BY <1>r, <1>e, <2>3, <2>4, <2>5 DEF DrainInv
<1>13. CASE StartRaises(k)
  <2>1. Leaves(k, "create")
    BY <1>13 DEF StartRaises
  <2>2. /\ transitionLock = k /\ Phase = "create" /\ Phase' = "none" /\ Doing = op[k]
    BY ONLY <1>0, <2>1, StepOut, BarrierInv, k \in Controllers
  <2>3. UNCHANGED <<requestData, consumer, generation, errors>>
    BY <1>13 DEF StartRaises, requestData
  <2>4. ShutAgrees'
    BY <1>s, <1>g, <1>13, <2>2, <2>3
       DEF StartRaises, ShutAgrees, BarrierInv, HolderAgrees, requestData, FinishAgrees, DrainInv
  <2>5. FinishAgrees'
    BY <1>f, <1>g, <1>13, <2>2, <2>3
       DEF StartRaises, DrainInv, FinishAgrees, BarrierInv, HolderAgrees, requestData
  <2> QED BY <1>r, <1>e, <2>3, <2>4, <2>5 DEF DrainInv
<1>14. CASE SpawnRaises(k)
  <2>1. Steps(k, "spawn", "discard")
    BY <1>14 DEF SpawnRaises
  <2>2. /\ transitionLock = k /\ Phase = "spawn" /\ Phase' = "discard" /\ Doing = op[k]
       /\ transitionLock' = k /\ Doing' = op[k]
    BY ONLY <1>0, <2>1, StepInside, BarrierInv, k \in Controllers
  <2>3. UNCHANGED <<requestData, consumer, generation, errors>>
    BY <1>14 DEF SpawnRaises, requestData
  <2>4. ShutAgrees'
    BY <1>s, <1>g, <1>14, <2>2, <2>3
       DEF SpawnRaises, ShutAgrees, BarrierInv, HolderAgrees, requestData, FinishAgrees, DrainInv
  <2>5. FinishAgrees'
    BY <1>f, <1>g, <1>14, <2>2, <2>3
       DEF SpawnRaises, DrainInv, FinishAgrees, BarrierInv, HolderAgrees, requestData
  <2> QED BY <1>r, <1>e, <2>3, <2>4, <2>5 DEF DrainInv
<1>15. CASE FinishInput(k)
  <2>1. Steps(k, "drain", "join")
    BY <1>15 DEF FinishInput
  <2>2. /\ transitionLock = k /\ Phase = "drain" /\ Phase' = "join" /\ Doing = op[k]
       /\ transitionLock' = k /\ Doing' = op[k]
    BY ONLY <1>0, <2>1, StepInside, BarrierInv, k \in Controllers
  <2>3. /\ UNCHANGED <<callbacks, slot, item, detected, accepted, completed, epoch, requested, served,
                      pending, sourceSequence, armed>>
        /\ UNCHANGED <<consumer, generation, pipeline, errors>>
        /\ mode' = [mode EXCEPT ![target[k]] = IF @ = "open" THEN "draining" ELSE @]
    BY <1>15 DEF FinishInput
  <2>4. target[k] = generation /\ Doing = "finish"
    BY <2>2 DEF BarrierInv, HolderAgrees
  <2>5. /\ mode' \in [Generations -> {"open", "draining", "stopped"}]
        /\ \A g \in Generations : (mode'[g] = "stopped" <=> mode[g] = "stopped")
                                 /\ (mode[g] # "open" => mode'[g] # "open")
                                 /\ (g > generation => mode'[g] = mode[g])
    BY <1>g, <2>3, <2>4 DEF RequestInv, Stored
  <2>6. RequestInv'
    BY <2>3, <2>5 DEF RequestInv, Counted, Stored, CallbacksAgree, SlotsAgree, HandsAgree, Carries
  <2>7. ShutAgrees'
    BY <1>g, <2>2, <2>3, <2>4, <2>5 DEF ShutAgrees, Shut, DrainInv, FinishAgrees
  <2>8. EndsAgree'
    BY <2>3, <2>5 DEF DrainInv, EndsAgree, Shut
  <2>9. FinishAgrees'
    BY <1>f, <1>g, <2>2, <2>3, <2>4, <2>5 DEF DrainInv, FinishAgrees
  <2> QED BY <2>6, <2>7, <2>8, <2>9 DEF DrainInv
<1>16. CASE ClosePipeline(k)
  <2>1. Steps(k, "stop", "release")
    BY <1>16 DEF ClosePipeline
  <2>2. /\ transitionLock = k /\ Phase = "stop" /\ Phase' = "release" /\ Doing = op[k]
       /\ transitionLock' = k /\ Doing' = op[k]
    BY ONLY <1>0, <2>1, StepInside, BarrierInv, k \in Controllers
  <2>3. /\ UNCHANGED <<callbacks, armed, sourceSequence, generation>>
        /\ UNCHANGED <<requestVars, item, detected>>
        /\ UNCHANGED <<consumer, pipeline, errors, accepted, completed>>
        /\ StopPipeline(generation)
    BY <1>16, <2>2 DEF ClosePipeline, BarrierInv, HolderAgrees, StopPipeline
  <2>4. RequestInv' /\ (\A h \in Generations : Shut(h) => Shut(h)') /\ Shut(generation)'
        /\ mode'[generation] = "stopped"
    BY <1>g, <2>3, StopsData
  <2>5. \A h \in Generations \ {generation} : mode'[h] = mode[h] /\ slot'[h] = slot[h]
    BY <2>3 DEF StopPipeline, RequestInv, Stored
  <2>6. ShutAgrees'
    BY <1>g, <2>2, <2>3, <2>4 DEF ShutAgrees, Shut
  <2>7. EndsAgree'
    BY <1>g, <2>3, <2>4, <2>5 DEF DrainInv, EndsAgree, Shut
  <2>8. FinishAgrees'
    BY <1>f, <1>g, <2>2, <2>3 DEF DrainInv, FinishAgrees
  <2> QED BY <2>4, <2>6, <2>7, <2>8 DEF DrainInv
<1>17. CASE DiscardPipeline(k)
  <2>1. Leaves(k, "discard")
    BY <1>17 DEF DiscardPipeline
  <2>2. /\ transitionLock = k /\ Phase = "discard" /\ Phase' = "none" /\ Doing = op[k]
    BY ONLY <1>0, <2>1, StepOut, BarrierInv, k \in Controllers
  <2>3. /\ UNCHANGED <<callbacks, armed, sourceSequence, generation>>
        /\ UNCHANGED <<requestVars, item, detected>>
        /\ UNCHANGED <<consumer, pipeline, errors, accepted, completed>>
        /\ StopPipeline(generation)
    BY <1>17, <2>2 DEF DiscardPipeline, BarrierInv, HolderAgrees, StopPipeline
  <2>4. RequestInv' /\ (\A h \in Generations : Shut(h) => Shut(h)') /\ Shut(generation)'
        /\ mode'[generation] = "stopped"
    BY <1>g, <2>3, StopsData
  <2>5. \A h \in Generations \ {generation} : mode'[h] = mode[h] /\ slot'[h] = slot[h]
    BY <2>3 DEF StopPipeline, RequestInv, Stored
  <2>6. ShutAgrees'
    BY <1>g, <2>2, <2>3, <2>4 DEF ShutAgrees, Shut
  <2>7. EndsAgree'
    BY <1>g, <2>3, <2>4, <2>5 DEF DrainInv, EndsAgree, Shut
  <2>8. FinishAgrees'
    BY <1>f, <1>g, <2>2, <2>3 DEF DrainInv, FinishAgrees
  <2> QED BY <2>4, <2>6, <2>7, <2>8 DEF DrainInv
<1>18. CASE RequestDetection(k)
  <2>1. Steps(k, "request", "create")
    BY <1>18 DEF RequestDetection
  <2>2. /\ transitionLock = k /\ Phase = "request" /\ Phase' = "create" /\ Doing = op[k]
       /\ transitionLock' = k /\ Doing' = op[k]
    BY ONLY <1>0, <2>1, StepInside, BarrierInv, k \in Controllers
  <2>3. /\ UNCHANGED <<callbacks, slot, item, detected, mode, accepted, completed, served,
                      sourceSequence, armed>>
        /\ UNCHANGED <<consumer, generation, pipeline, errors>>
        /\ pending' = TRUE /\ epoch' = epoch + 1 /\ requested' = sourceSequence
    BY <1>18 DEF RequestDetection
  <2>4. sourceSequence \in Nat /\ epoch \in Nat
    BY DEF RequestInv, Counted
  <2>5. \A f : Carries(f) => Carries(f)' /\ f.epoch # epoch'
    BY FramesFact, <2>3, <2>4 DEF Carries
  <2>6. Counted' /\ Stored' /\ CallbacksAgree' /\ SlotsAgree'
    BY <2>3, <2>4, <2>5 DEF RequestInv, Counted, Stored, CallbacksAgree, SlotsAgree
  <2>7. HandsAgree'
    BY <2>3, <2>5 DEF RequestInv, HandsAgree
  <2>8. ShutAgrees' /\ FinishAgrees'
    BY <1>f, <1>g, <1>s, <2>2, <2>3 DEF ShutAgrees, DrainInv, FinishAgrees
  <2>9. EndsAgree'
    BY <2>3 DEF DrainInv, EndsAgree, Shut
  <2> QED BY <2>6, <2>7, <2>8, <2>9 DEF RequestInv, DrainInv
<1>19. CASE InstallGeneration(k)
  <2>1. Steps(k, "install", "spawn")
    BY <1>19 DEF InstallGeneration
  <2>2. /\ transitionLock = k /\ Phase = "install" /\ Phase' = "spawn" /\ Doing = op[k]
       /\ transitionLock' = k /\ Doing' = op[k]
    BY ONLY <1>0, <2>1, StepInside, BarrierInv, k \in Controllers
  <2>3. UNCHANGED <<requestData, consumer, errors>>
        /\ generation' = generation + 1 /\ pipeline' = generation + 1
    BY <1>19 DEF InstallGeneration, NextGeneration, requestData
  <2>4. generation \in Nat /\ generation < session /\ session \in 0..MaxSession
        /\ generation + 1 \in Generations
    BY <2>2 DEF BarrierInv, Typed, HolderAgrees
  <2>5. \A g \in Generations : slot[g] = None
    BY <2>2 DEF ShutAgrees, Shut, RequestInv, SlotsAgree
  <2>6. Counted' /\ Stored' /\ HandsAgree'
    BY <2>3 DEF requestData, RequestInv, Counted, Stored, HandsAgree, Carries
  <2>7. CallbacksAgree' /\ SlotsAgree'
    BY <2>3, <2>4, <2>5 DEF requestData, RequestInv, CallbacksAgree, SlotsAgree, Carries
  <2>8. ShutAgrees'
    BY <1>s, <2>2, <2>3, <2>4 DEF requestData, ShutAgrees
  <2>9. EndsAgree'
    BY <2>3, <2>4 DEF requestData, DrainInv, EndsAgree, Shut
  <2>10. FinishAgrees'
    <3>1. mode'[generation + 1] = "open"
      BY <2>3, <2>4 DEF requestData, DrainInv, EndsAgree
    <3> QED BY <2>2, <2>3, <3>1 DEF FinishAgrees
  <2> QED BY <2>6, <2>7, <2>8, <2>9, <2>10 DEF RequestInv, DrainInv
<1>20. CASE SpawnConsumer(k)
  <2>1. Leaves(k, "spawn")
    BY <1>20 DEF SpawnConsumer
  <2>2. /\ transitionLock = k /\ Phase = "spawn" /\ Phase' = "none" /\ Doing = op[k]
    BY ONLY <1>0, <2>1, StepOut, BarrierInv, k \in Controllers
  <2>3. UNCHANGED <<requestData, generation, pipeline, errors>>
        /\ consumer' = [consumer EXCEPT ![generation] = "waiting"]
    BY <1>20 DEF SpawnConsumer, requestData
  <2>4. consumer'[generation] = "waiting"
        /\ \A g \in Generations \ {generation} : consumer'[g] = consumer[g]
    BY <1>g, <2>3 DEF BarrierInv, Typed
  <2>5. consumer[generation] \in {"unborn", "exited"} /\ pipeline = generation
    BY <1>g, <2>2 DEF BarrierInv, QuietAgrees, Quiet, HolderAgrees, Live, Typed
  <2>6. Counted' /\ Stored' /\ CallbacksAgree' /\ SlotsAgree'
    BY <2>3 DEF requestData, RequestInv, Counted, Stored, CallbacksAgree, SlotsAgree, Carries
  <2>7. HandsAgree'
    BY <2>3, <2>4 DEF requestData, RequestInv, HandsAgree, Carries, InHand
  <2>8. ShutAgrees'
    BY <1>g, <1>s, <2>2, <2>3, <2>5 DEF requestData, ShutAgrees
  <2>9. EndsAgree'
    BY <2>3, <2>4, <2>5 DEF requestData, DrainInv, EndsAgree, Shut
  <2>10. FinishAgrees'
    BY <2>2, <2>3, <2>4, <2>5 DEF requestData, DrainInv, FinishAgrees, Failed
  <2> QED BY <2>6, <2>7, <2>8, <2>9, <2>10 DEF RequestInv, DrainInv
<1> QED
  BY <1>1, <1>2, <1>3, <1>4, <1>5, <1>6, <1>7, <1>8, <1>9, <1>10, <1>11, <1>12,
     <1>13, <1>14, <1>15, <1>16, <1>17, <1>18, <1>19, <1>20
     DEF TransitionStep

-----------------------------------------------------------------------------
(* The other steps.                                                        *)
LEMMA ConsumerRest ==
  ASSUME BarrierInv, RequestInv, ShutAgrees, DrainInv, NEW g \in Generations, ConsumerStep(g)
  PROVE  ShutAgrees' /\ DrainInv'
<1> USE DEF model, pipeVars
<1>0. {"waiting", "taken", "inferring", "raising", "returned", "publishing", "published",
       "locking", "failing", "reporting", "exited"} \subseteq ConsumerStates
      /\ {"waiting", "failing", "raising", "reporting", "exited"} \cap InHand = {}
      /\ {"taken", "inferring"} \subseteq InHand
  BY DEF ConsumerStates, InHand
<1>1. (\A h \in Generations : Shut(h) => Shut(h)')
      /\ UNCHANGED <<generation, pipeline, control, op, transitionLock>>
        => ShutAgrees'
  BY PresentGeneration DEF ShutAgrees, Phase, Doing
<1>2. UNCHANGED <<control, op, transitionLock>> => Phase' = Phase /\ Doing' = Doing
  BY DEF Phase, Doing
<1>3. consumer[g] # "unborn" /\ consumer[g] # "exited" => g = generation
  BY DEF BarrierInv, Typed, ConsumersAgree, Live
<1>4. pipeline = None \/ pipeline = generation
  BY DEF BarrierInv, ConsumersAgree
<1>5. CASE ConsumerEnds(g) \/ GateResult(g) \/ InferRaises(g) \/ PublishRaises(g)
           \/ PublishCallsBack(g) \/ CallBackRefused(g) \/ PublishReturns(g) \/ RecordOutput(g)
           \/ BeginInference(g)
  <2>1. UNCHANGED <<mode, slot, item, accepted, completed>>
    BY <1>5 DEF ConsumerEnds, GateResult, InferRaises, PublishRaises, PublishCallsBack,
               CallBackRefused, PublishReturns, RecordOutput, BeginInference
  <2>2. \/ Moves(g, "waiting", "exited") /\ mode[g] # "open" /\ slot[g] = None
        \/ Moves(g, "taken", "exited") /\ mode[g] = "stopped"
        \/ Moves(g, "taken", "inferring") \/ Moves(g, "inferring", "raising")
        \/ \E from \in {"returned", "publishing", "published", "locking"} :
             \E to \in {"publishing", "published", "waiting", "failing", "locking"} : Moves(g, from, to)
    BY <1>5 DEF ConsumerEnds, GateResult, InferRaises, PublishRaises, PublishCallsBack,
               CallBackRefused, PublishReturns, RecordOutput, BeginInference
  <2>3. /\ \A h \in Generations \ {g} : consumer'[h] = consumer[h]
        /\ UNCHANGED <<generation, pipeline, errors, control, op, transitionLock>>
        /\ \/ consumer[g] = "waiting" /\ consumer'[g] = "exited"
              /\ mode[g] # "open" /\ slot[g] = None
           \/ consumer[g] = "taken" /\ consumer'[g] = "exited" /\ mode[g] = "stopped"
           \/ consumer[g] = "taken" /\ consumer'[g] = "inferring"
           \/ consumer[g] = "inferring" /\ consumer'[g] = "raising"
           \/ consumer[g] \in {"returned", "publishing", "published", "locking"}
              /\ consumer'[g] \in {"publishing", "published", "waiting", "failing", "locking"}
    BY <1>0, <2>2, MovesFact
  <2>4. \A h \in Generations : Shut(h)' <=> Shut(h)
    BY <2>1 DEF Shut
  <2>5. mode[g] = "stopped" => slot[g] = None
    BY DEF DrainInv, EndsAgree
  <2>6. consumer'[g] = "exited" => Shut(g)
    BY <2>3, <2>5 DEF Shut
  <2>7. consumer'[g] # "reporting"
    BY <2>3
  <2>8. ASSUME mode[g] # "stopped", slot[g] = None
        PROVE  /\ consumer'[g] \in {"taken", "inferring"} => item[g].seq = accepted[g]
               /\ consumer'[g] \notin {"taken", "inferring", "raising"} =>
                    completed[g] = accepted[g]
    <3>1. /\ consumer[g] \in {"taken", "inferring"} => item[g].seq = accepted[g]
          /\ consumer[g] \notin {"taken", "inferring", "raising"} =>
               completed[g] = accepted[g]
      BY <2>8 DEF DrainInv, EndsAgree
    <3> QED BY <2>3, <2>8, <3>1
  <2>9. EndsAgree'
    BY <2>1, <2>3, <2>4, <2>6, <2>7, <2>8 DEF DrainInv, EndsAgree
  <2>10. FinishAgrees'
    BY <1>2, <1>3, <1>4, <2>1, <2>3, PresentGeneration DEF DrainInv, FinishAgrees, Failed
  <2> QED BY <1>1, <2>3, <2>4, <2>9, <2>10 DEF DrainInv
<1>6. CASE TakeFrame(g)
  <2>1. /\ slot[g] # None /\ Moves(g, "waiting", "taken")
        /\ item' = [item EXCEPT ![g] = slot[g]] /\ slot' = [slot EXCEPT ![g] = None]
        /\ UNCHANGED <<mode, accepted, completed>>
    BY <1>6 DEF TakeFrame
  <2>2. /\ item'[g] = slot[g] /\ slot'[g] = None /\ slot[g].seq = accepted[g]
        /\ \A h \in Generations \ {g} : item'[h] = item[h] /\ slot'[h] = slot[h]
    BY <2>1 DEF RequestInv, Stored, SlotsAgree
  <2>3. /\ consumer[g] = "waiting" /\ consumer'[g] = "taken"
        /\ \A h \in Generations \ {g} : consumer'[h] = consumer[h]
        /\ UNCHANGED <<generation, pipeline, errors, control, op, transitionLock>>
    BY <1>0, <2>1, MovesFact
  <2>4. \A h \in Generations : Shut(h) => Shut(h)'
    BY <2>1, <2>2 DEF Shut
  <2>5. EndsAgree'
    BY <2>1, <2>2, <2>3, <2>4 DEF DrainInv, EndsAgree
  <2>6. FinishAgrees'
    BY <1>2, <1>3, <1>4, <2>1, <2>3, PresentGeneration DEF DrainInv, FinishAgrees, Failed
  <2> QED BY <1>1, <2>3, <2>4, <2>5, <2>6 DEF DrainInv
<1>7. CASE InferReturns(g)
  <2>1. Moves(g, "inferring", "returned") /\ completed' = [completed EXCEPT ![g] = item[g].seq]
        /\ UNCHANGED <<mode, slot, item, accepted>>
    BY <1>7 DEF InferReturns
  <2>2. /\ completed'[g] = item[g].seq
        /\ \A h \in Generations \ {g} : completed'[h] = completed[h]
    BY <2>1 DEF RequestInv, Stored
  <2>3. /\ consumer[g] = "inferring" /\ consumer'[g] = "returned"
        /\ \A h \in Generations \ {g} : consumer'[h] = consumer[h]
        /\ UNCHANGED <<generation, pipeline, errors, control, op, transitionLock>>
    BY <1>0, <2>1, MovesFact
  <2>4. \A h \in Generations : Shut(h) => Shut(h)'
    BY <2>1 DEF Shut
  <2>5. EndsAgree'
    BY <2>1, <2>2, <2>3, <2>4 DEF DrainInv, EndsAgree
  <2>6. FinishAgrees'
    BY <1>2, <1>3, <1>4, <2>1, <2>3, PresentGeneration DEF DrainInv, FinishAgrees, Failed
  <2> QED BY <1>1, <2>3, <2>4, <2>5, <2>6 DEF DrainInv
<1>8. CASE InferFails(g) \/ AbortPipeline(g)
  <2>1. StopPipeline(g) /\ UNCHANGED <<requestVars, item, detected>>
        /\ (Moves(g, "raising", "failing") \/ Moves(g, "failing", "reporting"))
    BY <1>8 DEF InferFails, AbortPipeline
  <2>2. /\ consumer[g] \in {"raising", "failing"} /\ consumer'[g] \in {"failing", "reporting"}
        /\ \A h \in Generations \ {g} : consumer'[h] = consumer[h]
        /\ UNCHANGED <<callbacks, armed, sourceSequence>>
        /\ UNCHANGED <<generation, pipeline, errors, control, op, transitionLock>>
    BY <1>0, <2>1, MovesFact
  <2>3. (\A h \in Generations : Shut(h) => Shut(h)') /\ Shut(g)' /\ mode'[g] = "stopped"
    BY <1>0, <2>1, <2>2, StopsData
  <2>4. UNCHANGED <<accepted, completed>>
        /\ \A h \in Generations \ {g} : mode'[h] = mode[h] /\ slot'[h] = slot[h]
    BY <2>1 DEF StopPipeline, RequestInv, Stored
  <2>5. EndsAgree'
    BY <1>3, <2>1, <2>2, <2>3, <2>4, PresentGeneration DEF DrainInv, EndsAgree, Shut
  <2>6. FinishAgrees'
    BY <1>2, <1>3, <1>4, <2>2, <2>4, PresentGeneration DEF DrainInv, FinishAgrees, Failed
  <2> QED BY <1>1, <2>2, <2>3, <2>5, <2>6 DEF DrainInv
<1>9. CASE ReportError(g)
  <2>1. /\ consumer[g] = "reporting" /\ consumer' = [consumer EXCEPT ![g] = "exited"]
        /\ errors' = errors \cup {g}
        /\ UNCHANGED <<generation, pipeline, control, op, transitionLock>>
        /\ UNCHANGED <<mode, slot, item, accepted, completed>>
    BY <1>9 DEF ReportError, controlVars
  <2>2. consumer'[g] = "exited" /\ \A h \in Generations \ {g} : consumer'[h] = consumer[h]
    BY <2>1 DEF BarrierInv, Typed
  <2>3. \A h \in Generations : Shut(h)' <=> Shut(h)
    BY <2>1 DEF Shut
  <2>4. EndsAgree'
    BY <2>1, <2>2, <2>3 DEF DrainInv, EndsAgree, Shut
  <2>5. FinishAgrees'
    BY <1>2, <1>3, <1>4, <2>1, <2>2, PresentGeneration DEF DrainInv, FinishAgrees, Failed
  <2> QED BY <1>1, <2>1, <2>3, <2>4, <2>5 DEF DrainInv
<1> QED
  BY <1>5, <1>6, <1>7, <1>8, <1>9 DEF ConsumerStep

LEMMA SubmitRest ==
  ASSUME BarrierInv, RequestInv, ShutAgrees, DrainInv, NEW c \in callbacks, SubmitImage(c)
  PROVE  ShutAgrees' /\ DrainInv'
<1>1. /\ c.to \in Generations /\ c.to <= generation /\ c.frame # None
      /\ mode[c.to] = "open"
  BY FramesFact DEF RequestInv, CallbacksAgree, Carries, SubmitImage
<1>2. /\ slot' = [slot EXCEPT ![c.to] = c.frame]
      /\ accepted' = [accepted EXCEPT ![c.to] = c.frame.seq]
      /\ UNCHANGED <<mode, item, completed, consumer, generation, pipeline, errors>>
      /\ UNCHANGED <<control, op, transitionLock>>
  BY DEF SubmitImage, nodeVars, consumeVars, controlVars
<1>3. /\ slot'[c.to] = c.frame
      /\ \A h \in Generations \ {c.to} : slot'[h] = slot[h] /\ accepted'[h] = accepted[h]
  BY <1>1, <1>2 DEF RequestInv, Stored
<1>4. \A h \in Generations : Shut(h) => Shut(h)'
  BY <1>1, <1>2, <1>3 DEF Shut
<1>5. Phase' = Phase /\ Doing' = Doing
  BY <1>2 DEF Phase, Doing
<1>6. ShutAgrees'
  BY <1>2, <1>4, <1>5, PresentGeneration DEF ShutAgrees
<1>7. EndsAgree'
  BY <1>1, <1>2, <1>3, <1>4 DEF DrainInv, EndsAgree
<1>8. consumer[c.to] # "exited"
  BY <1>1 DEF DrainInv, EndsAgree, Shut
<1>9. FinishAgrees'
  BY <1>2, <1>3, <1>5, <1>8, PresentGeneration DEF DrainInv, FinishAgrees, Failed
<1> QED BY <1>6, <1>7, <1>9 DEF DrainInv

(* A step that leaves alone the pipelines and the place of calls.          *)
LEMMA RestStutter ==
  ASSUME BarrierInv, ShutAgrees, DrainInv,
         UNCHANGED <<mode, slot, item, accepted, completed, consumer, generation, pipeline, errors>>,
         Phase' = Phase \/ (Phase = "none" /\ Phase' = "begin"),
         Phase # "none" => Doing' = Doing
  PROVE  ShutAgrees' /\ DrainInv'
<1>1. Phase # "none" => Phase' = Phase
  OBVIOUS
<1>2. ShutAgrees'
  BY <1>1 DEF ShutAgrees, Shut
<1>3. EndsAgree'
  BY DEF DrainInv, EndsAgree, Shut
<1>4. FinishAgrees'
  BY <1>1 DEF DrainInv, FinishAgrees, Failed
<1> QED BY <1>2, <1>3, <1>4 DEF DrainInv

NodeInv == BarrierInv /\ RequestInv /\ ShutAgrees /\ DrainInv

LEMMA NodeInit == Init => NodeInv
<1> SUFFICES ASSUME Init PROVE NodeInv
  OBVIOUS
<1>1. BarrierInv
  BY BarrierInit
<1> USE NoneFact DEF Init
<1>2. Phase = "none"
  BY DEF Phase
<1>3. RequestInv
  <2>1. Counted /\ CallbacksAgree /\ SlotsAgree
    BY DEF Counted, CallbacksAgree, SlotsAgree
  <2>2. Stored
    BY DEF Stored
  <2>3. HandsAgree
    BY DEF HandsAgree, InHand
  <2> QED BY <2>1, <2>2, <2>3 DEF RequestInv
<1>4. ShutAgrees
  BY <1>2 DEF ShutAgrees
<1>5. DrainInv
  BY <1>2 DEF DrainInv, EndsAgree, FinishAgrees
<1> QED BY <1>1, <1>3, <1>4, <1>5 DEF NodeInv

(* The request invariant needs the barrier, the state of pipelines given   *)
(* up and what the end of a consumer leaves behind; together they are      *)
(* inductive.                                                              *)
THEOREM NodeSafety == Spec => []NodeInv
<1>1. NodeInv /\ BarrierInv' /\ [Next]_vars => NodeInv'
  <2> SUFFICES ASSUME NodeInv, BarrierInv', [Next]_vars PROVE NodeInv'
    OBVIOUS
  <2> USE DEF NodeInv
  <2>1. CASE Trigger
    <3>1. UNCHANGED <<mode, slot, item, accepted, completed, consumer, generation, pipeline, errors>>
          /\ UNCHANGED <<control, op, transitionLock>>
      BY <2>1 DEF Trigger, nodeVars, model, pipeVars, consumeVars, controlVars
    <3>2. Phase' = Phase /\ Doing' = Doing
      BY <3>1 DEF Phase, Doing
    <3>3. RequestInv'
      <4>1. UNCHANGED <<callbacks, slot, item, detected, mode, accepted, completed, epoch, requested,
                        served, pending, sourceSequence, consumer, generation>> /\ armed' = TRUE
        BY <2>1 DEF Trigger, nodeVars, model, pipeVars, consumeVars, requestVars
      <4> QED BY <4>1
         DEF RequestInv, Counted, Stored, CallbacksAgree, SlotsAgree, HandsAgree, Carries
    <3> QED BY <3>1, <3>2, <3>3, RestStutter
  <2>2. CASE OnImage
    <3>1. UNCHANGED <<mode, slot, item, accepted, completed, consumer, generation, pipeline, errors>>
          /\ UNCHANGED <<control, op, transitionLock>>
      BY <2>2 DEF OnImage, nodeVars, model, pipeVars, consumeVars, controlVars
    <3>2. Phase' = Phase /\ Doing' = Doing
      BY <3>1 DEF Phase, Doing
    <3> QED BY <2>2, <3>1, <3>2, RestStutter, OnImageStep
  <2>3. ASSUME NEW c \in callbacks, SubmitRefused(c)
        PROVE  NodeInv'
    <3>1. UNCHANGED <<mode, slot, item, accepted, completed, consumer, generation, pipeline, errors>>
          /\ UNCHANGED <<control, op, transitionLock, detected, epoch, requested, served, pending,
                         sourceSequence, armed>>
          /\ callbacks' \subseteq callbacks
      BY <2>3 DEF SubmitRefused, nodeVars, model, pipeVars, consumeVars, controlVars, requestVars
    <3>2. Phase' = Phase /\ Doing' = Doing
      BY <3>1 DEF Phase, Doing
    <3>3. RequestInv'
      BY <3>1 DEF RequestInv, Counted, Stored, CallbacksAgree, SlotsAgree, HandsAgree, Carries
    <3> QED BY <3>1, <3>2, <3>3, RestStutter
  <2>4. ASSUME NEW c \in callbacks, SubmitImage(c)
        PROVE  NodeInv'
    BY <2>4, SubmitStep, SubmitRest
  <2>5. ASSUME NEW k \in Controllers, Call(k) \/ AcquireTransition(k)
        PROVE  NodeInv'
    <3>1. UNCHANGED <<requestData, consumer, generation, pipeline, errors>>
      BY <2>5
         DEF Call, AcquireTransition, node, nodeVars, inputVars, requestVars, model, pipeVars,
                  consumeVars, requestData
    <3>2. \/ Phase' = Phase /\ (Phase # "none" => Doing' = Doing)
          \/ Phase = "none" /\ Phase' = "begin"
      BY <2>5, CallStep, AcquireStep
    <3>3. RequestInv'
      BY <3>1, RequestStutter
    <3>4. UNCHANGED <<mode, slot, item, accepted, completed>>
      BY <3>1 DEF requestData
    <3> QED BY <3>1, <3>2, <3>3, <3>4, RestStutter
  <2>6. CASE UNCHANGED vars
    <3>1. UNCHANGED <<requestData, consumer, generation, pipeline, errors, control, op, transitionLock>>
      BY <2>6 DEF vars, node, nodeVars, inputVars, requestVars, model, pipeVars, consumeVars,
                  controlVars, requestData
    <3>2. Phase' = Phase /\ Doing' = Doing
      BY <3>1 DEF Phase, Doing
    <3>3. RequestInv'
      BY <3>1, RequestStutter
    <3>4. UNCHANGED <<mode, slot, item, accepted, completed>>
      BY <3>1 DEF requestData
    <3> QED BY <3>1, <3>2, <3>3, <3>4, RestStutter
  <2> QED
    BY <2>1, <2>2, <2>3, <2>4, <2>5, <2>6, ConsumerRequest, ConsumerRest, LifeCycle DEF Next
<1> QED BY <1>1, Barrier, NodeInit, PTL DEF Spec

(* The sticky request is cleared only after a detection was published for  *)
(* an image at least as new; while it is pending, every image that could   *)
(* serve it carries it up to the gate.                                     *)
THEOREM RequestIsServed == Spec => []RequestServed
<1>1. NodeInv => RequestServed
  <2> SUFFICES ASSUME NodeInv PROVE RequestServed
    OBVIOUS
  <2>1. ~pending => served >= requested
    BY DEF NodeInv, RequestInv, Counted
  <2>2. pending => \A c \in callbacks : c.frame.epoch = epoch => c.frame.full
    BY DEF NodeInv, RequestInv, CallbacksAgree, Carries
  <2>3. pending => \A g \in Generations : slot[g] # None /\ slot[g].epoch = epoch => slot[g].full
    BY DEF NodeInv, RequestInv, SlotsAgree, Carries
  <2>4. pending => \A g \in Generations :
          consumer[g] \in {"inferring", "returned", "publishing"} /\ item[g].epoch = epoch
            => detected[g]
    BY DEF NodeInv, RequestInv, HandsAgree, InHand
  <2> QED BY <2>1, <2>2, <2>3, <2>4 DEF RequestServed
<1> QED BY <1>1, NodeSafety, PTL

(* When finish has joined a consumer that did not fail, the newest image   *)
(* the generation accepted has been inferred.                              *)
THEOREM FinishIsDrained == Spec => []FinishDrains
<1>1. NodeInv => FinishDrains
  <2> SUFFICES ASSUME NodeInv, NEW k \in Controllers, op[k] = "finish",
                      control[k] \in {"stop", "release", "forget", "joined"},
                      target[k] \notin errors
               PROVE  completed[target[k]] = accepted[target[k]]
    BY DEF FinishDrains
  <2>1. transitionLock = k /\ Phase = control[k] /\ Doing = op[k]
    BY NoneFact DEF NodeInv, BarrierInv, LockAgrees, Inside, Phase, Doing
  <2>2. target[k] = generation
    BY <2>1 DEF NodeInv, BarrierInv, HolderAgrees
  <2> QED BY <2>1, <2>2 DEF NodeInv, DrainInv, FinishAgrees
<1> QED BY <1>1, NodeSafety, PTL

-----------------------------------------------------------------------------
(***************************************************************************)
(* Every pipeline of the node is a FreshFrames queue.                      *)
(***************************************************************************)
FreshStep(g) == [Gen(g)!Next]_(Gen(g)!vars)

LEMMA FreshStutter ==
  ASSUME NEW g \in Generations,
         UNCHANGED <<mode[g], accepted[g], slot[g], completed[g]>>,
         consumer[g] \in {"taken", "inferring"} \/ consumer'[g] \in {"taken", "inferring"} =>
           UNCHANGED <<consumer[g], item[g]>>
  PROVE  FreshStep(g)
<1>1. UNCHANGED Gen(g)!vars
  BY DEF Gen!vars
<1> QED BY <1>1 DEF FreshStep

(* The image is newer than all that the pipeline accepted.                 *)
LEMMA SubmitFresh ==
  ASSUME NodeInv, NEW c \in callbacks, SubmitImage(c), NEW g \in Generations
  PROVE  FreshStep(g)
<1>1. /\ mode[c.to] = "open" /\ c.frame.seq > accepted[c.to]
      /\ slot' = [slot EXCEPT ![c.to] = c.frame]
      /\ accepted' = [accepted EXCEPT ![c.to] = c.frame.seq]
      /\ UNCHANGED <<mode, completed, consumer, item>>
  BY DEF SubmitImage, consumeVars
<1>2. /\ c.frame \in Frames /\ c.frame # None /\ c.frame.seq \in 0..MaxSequence
  BY FramesFact DEF NodeInv, RequestInv, CallbacksAgree, Carries
<1>3. accepted \in [Generations -> Int] /\ slot \in [Generations -> Frames \cup {None}]
  BY DEF NodeInv, RequestInv, Stored
<1>4. CASE g = c.to
  <2>1. slot'[g] = c.frame /\ accepted'[g] = c.frame.seq /\ accepted[g] \in Int
    BY <1>1, <1>3, <1>4
  <2>2. c.frame.seq >= accepted[g] + 1
    BY <1>1, <1>2, <1>4, <2>1
  <2>3. Gen(g)!Accept(c.frame.seq)
    BY <1>1, <1>2, <1>4, <2>1, <2>2 DEF Gen!Accept
  <2>4. Gen(g)!Next
    BY <1>2, <2>3 DEF Gen!Next
  <2> QED BY <2>4 DEF FreshStep
<1>5. CASE g # c.to
  <2>1. UNCHANGED <<mode[g], accepted[g], slot[g], completed[g], consumer[g], item[g]>>
    BY <1>1, <1>3, <1>5
  <2> QED BY <2>1, FreshStutter
<1> QED BY <1>4, <1>5

LEMMA StopFresh ==
  ASSUME NodeInv, NEW g \in Generations, StopPipeline(g), NEW h \in Generations,
         consumer[h] \in {"taken", "inferring"} \/ consumer'[h] \in {"taken", "inferring"} =>
           UNCHANGED <<consumer[h], item[h]>>
  PROVE  FreshStep(h)
<1>1. /\ mode' = [mode EXCEPT ![g] = "stopped"] /\ slot' = [slot EXCEPT ![g] = None]
      /\ UNCHANGED <<accepted, completed>>
      /\ mode \in [Generations -> {"open", "draining", "stopped"}]
      /\ slot \in [Generations -> Frames \cup {None}]
  BY DEF StopPipeline, NodeInv, RequestInv, Stored
<1>2. CASE h = g
  <2>1. mode'[h] = "stopped" /\ slot'[h] = None
    BY <1>1, <1>2
  <2>2. Gen(h)!Stop
    BY <1>1, <2>1 DEF Gen!Stop
  <2> QED BY <2>2 DEF FreshStep, Gen!Next
<1>3. CASE h # g
  <2>1. UNCHANGED <<mode[h], accepted[h], slot[h], completed[h]>>
    BY <1>1, <1>3
  <2> QED BY <2>1, FreshStutter
<1> QED BY <1>2, <1>3

LEMMA ConsumerFresh ==
  ASSUME NodeInv, NEW g \in Generations, ConsumerStep(g), NEW h \in Generations
  PROVE  FreshStep(h)
<1> USE DEF model, pipeVars
<1> DEFINE Hands == {"taken", "inferring"}
<1>0. /\ {"waiting", "taken", "inferring", "raising", "returned", "publishing", "published",
          "locking", "failing", "reporting", "exited"} \subseteq ConsumerStates
      /\ consumer \in [Generations -> ConsumerStates]
      /\ slot \in [Generations -> Frames \cup {None}]
      /\ item \in [Generations -> Frames \cup {None}]
      /\ completed \in [Generations -> Int]
  BY DEF ConsumerStates, NodeInv, BarrierInv, Typed, RequestInv, Stored
<1>n. None \notin Int /\ \A f \in Frames : f # None /\ f.seq \in Int
  BY NoneFact, FramesFact
<1>i. consumer[g] \in Hands => item[g] \in Frames
  BY DEF NodeInv, RequestInv, HandsAgree, InHand, Carries
(* A step that does not touch the queue.                                   *)
<1>1. ASSUME NEW from \in ConsumerStates, NEW to \in ConsumerStates, Moves(g, from, to),
             from \notin Hands, to \notin Hands,
             UNCHANGED <<mode, slot, accepted, completed, item>>
      PROVE  FreshStep(h)
  <2>1. consumer[g] = from /\ consumer'[g] = to /\ (h # g => consumer'[h] = consumer[h])
    BY <1>0, <1>1 DEF Moves
  <2>2. UNCHANGED <<mode[h], accepted[h], slot[h], completed[h], item[h]>>
    BY <1>1
  <2>3. consumer[h] \in Hands \/ consumer'[h] \in Hands => UNCHANGED consumer[h]
    BY <1>1, <2>1
  <2> QED BY <2>2, <2>3, FreshStutter
(* A step of another pipeline's consumer.                                  *)
<1>2. ASSUME NEW from, NEW to, Moves(g, from, to), h # g,
             UNCHANGED <<mode, accepted>>,
             slot'[h] = slot[h], completed'[h] = completed[h], item'[h] = item[h]
      PROVE  FreshStep(h)
  <2>1. consumer'[h] = consumer[h]
    BY <1>0, <1>2 DEF Moves
  <2> QED BY <1>2, <2>1, FreshStutter
<1>3. CASE TakeFrame(g)
  <2>1. /\ slot[g] # None /\ Moves(g, "waiting", "taken")
        /\ item' = [item EXCEPT ![g] = slot[g]] /\ slot' = [slot EXCEPT ![g] = None]
        /\ UNCHANGED <<mode, accepted, completed>>
    BY <1>3 DEF TakeFrame
  <2>2. consumer[g] = "waiting" /\ consumer'[g] = "taken" /\ item'[g] = slot[g] /\ slot'[g] = None
        /\ slot[g].seq # None
    BY <1>0, <1>n, <2>1 DEF Moves
  <2>3. CASE h = g
    <3>1. Gen(g)!Take
      BY <2>1, <2>2 DEF Gen!Take
    <3> QED BY <2>3, <3>1 DEF FreshStep, Gen!Next
  <2>4. CASE h # g
    BY <1>0, <1>2, <2>1, <2>4
  <2> QED BY <2>3, <2>4
<1>4. CASE ConsumerEnds(g)
  <2>1. UNCHANGED <<mode, slot, accepted, completed, item>>
    BY <1>4 DEF ConsumerEnds
  <2>2. CASE Moves(g, "waiting", "exited")
    BY <1>0, <1>1, <2>1, <2>2
  <2>3. CASE mode[g] = "stopped" /\ Moves(g, "taken", "exited")
    <3>1. consumer[g] = "taken" /\ consumer'[g] = "exited"
      BY <1>0, <2>3 DEF Moves
    <3>2. item[g].seq # None
      BY <1>i, <1>n, <3>1
    <3>3. CASE h = g
      <4>1. Gen(g)!Lose
        BY <2>1, <2>3, <3>1, <3>2 DEF Gen!Lose
      <4> QED BY <3>3, <4>1 DEF FreshStep, Gen!Next
    <3>4. CASE h # g
      BY <1>2, <2>1, <2>3, <3>4
    <3> QED BY <3>3, <3>4
  <2> QED BY <1>4, <2>2, <2>3 DEF ConsumerEnds
<1>5. CASE BeginInference(g)
  <2>1. /\ UNCHANGED <<mode, slot, accepted, completed, item>> /\ mode[g] # "stopped"
        /\ Moves(g, "taken", "inferring")
    BY <1>5 DEF BeginInference
  <2>2. consumer[g] = "taken" /\ consumer'[g] = "inferring"
    BY <1>0, <2>1 DEF Moves
  <2>3. item[g].seq # None
    BY <1>i, <1>n, <2>2
  <2>4. CASE h = g
    <3>1. Gen(g)!Run
      BY <2>1, <2>2, <2>3 DEF Gen!Run
    <3> QED BY <2>4, <3>1 DEF FreshStep, Gen!Next
  <2>5. CASE h # g
    BY <1>2, <2>1, <2>5
  <2> QED BY <2>4, <2>5
<1>6. CASE InferReturns(g)
  <2>1. /\ UNCHANGED <<mode, slot, accepted, item>> /\ Moves(g, "inferring", "returned")
        /\ completed' = [completed EXCEPT ![g] = item[g].seq]
    BY <1>6 DEF InferReturns
  <2>2. consumer[g] = "inferring" /\ consumer'[g] = "returned" /\ completed'[g] = item[g].seq
    BY <1>0, <2>1 DEF Moves
  <2>3. CASE h = g
    <3>1. Gen(g)!Deliver
      BY <2>1, <2>2 DEF Gen!Deliver
    <3> QED BY <2>3, <3>1 DEF FreshStep, Gen!Next
  <2>4. CASE h # g
    BY <1>0, <1>2, <2>1, <2>4
  <2> QED BY <2>3, <2>4
<1>7. CASE InferRaises(g)
  <2>1. UNCHANGED <<mode, slot, accepted, completed, item>> /\ Moves(g, "inferring", "raising")
    BY <1>7 DEF InferRaises
  <2>2. consumer[g] = "inferring" /\ consumer'[g] = "raising"
    BY <1>0, <2>1 DEF Moves
  <2>3. item[g].seq # None
    BY <1>i, <1>n, <2>2
  <2>4. CASE h = g
    <3>1. Gen(g)!Lose
      BY <2>1, <2>2, <2>3 DEF Gen!Lose
    <3> QED BY <2>4, <3>1 DEF FreshStep, Gen!Next
  <2>5. CASE h # g
    BY <1>2, <2>1, <2>5
  <2> QED BY <2>4, <2>5
<1>8. ASSUME NEW from \in ConsumerStates, NEW to \in ConsumerStates, Moves(g, from, to),
             from \notin Hands, to \notin Hands, StopPipeline(g), UNCHANGED item
      PROVE  FreshStep(h)
  <2>1. consumer[g] = from /\ consumer'[g] = to /\ (h # g => consumer'[h] = consumer[h])
    BY <1>0, <1>8 DEF Moves
  <2> QED BY <1>8, <2>1, StopFresh
<1>9. CASE InferFails(g)
  BY <1>0, <1>8, <1>9 DEF InferFails
<1>10. CASE AbortPipeline(g)
  BY <1>0, <1>8, <1>10 DEF AbortPipeline
<1>11. CASE GateResult(g)
  BY <1>0, <1>1, <1>11 DEF GateResult
<1>12. CASE PublishReturns(g)
  BY <1>0, <1>1, <1>12 DEF PublishReturns
<1>13. CASE PublishRaises(g)
  BY <1>0, <1>1, <1>13 DEF PublishRaises
<1>14. CASE RecordOutput(g)
  BY <1>0, <1>1, <1>14 DEF RecordOutput
<1>15. CASE PublishCallsBack(g)
  BY <1>0, <1>1, <1>15 DEF PublishCallsBack
<1>16. CASE CallBackRefused(g)
  BY <1>0, <1>1, <1>16 DEF CallBackRefused
<1>17. CASE ReportError(g)
  <2>1. /\ consumer' = [consumer EXCEPT ![g] = "exited"] /\ consumer[g] = "reporting"
        /\ UNCHANGED <<mode, slot, accepted, completed, item>>
    BY <1>17 DEF ReportError
  <2>2. consumer'[h] = consumer[h] \/ (consumer[h] = "reporting" /\ consumer'[h] = "exited")
    BY <1>0, <2>1
  <2> QED BY <2>1, <2>2, FreshStutter
<1> QED BY <1>3, <1>4, <1>5, <1>6, <1>7, <1>9, <1>10, <1>11, <1>12, <1>13, <1>14, <1>15, <1>16,
           <1>17 DEF ConsumerStep

LEMMA LifeCycleFresh ==
  ASSUME NodeInv, NEW k \in Controllers, TransitionStep(k), NEW h \in Generations
  PROVE  FreshStep(h)
<1> USE DEF node, model, pipeVars, consumeVars
<1>0. /\ mode \in [Generations -> {"open", "draining", "stopped"}]
      /\ consumer \in [Generations -> ConsumerStates]
      /\ generation \in Generations
  BY PresentGeneration DEF NodeInv, BarrierInv, Typed, RequestInv, Stored
<1>1. ASSUME UNCHANGED <<mode, slot, accepted, completed, consumer, item>> PROVE FreshStep(h)
  BY <1>1, FreshStutter
<1>t. ASSUME control[k] \in {"drain", "stop"} PROVE target[k] = generation
  <2>1. transitionLock = k /\ Phase = control[k]
    BY <1>t, NoneFact DEF NodeInv, BarrierInv, LockAgrees, Inside, Phase
  <2> QED BY <1>t, <2>1 DEF NodeInv, BarrierInv, HolderAgrees
<1>2. CASE FinishInput(k)
  <2>1. /\ target[k] = generation
        /\ mode' = [mode EXCEPT ![generation] = IF @ = "open" THEN "draining" ELSE @]
        /\ UNCHANGED <<slot, accepted, completed, consumer, item>>
    BY <1>2, <1>t DEF FinishInput, Steps
  <2>2. CASE h = generation /\ mode[h] = "open"
    <3>1. Gen(h)!Finish
      BY <1>0, <2>1, <2>2 DEF Gen!Finish
    <3> QED BY <3>1 DEF FreshStep, Gen!Next
  <2>3. CASE h # generation \/ mode[h] # "open"
    <3>1. mode'[h] = mode[h]
      BY <1>0, <2>1, <2>3
    <3> QED BY <2>1, <3>1, FreshStutter
  <2> QED BY <2>2, <2>3
<1>3. CASE ClosePipeline(k)
  <2>1. target[k] = generation /\ StopPipeline(target[k]) /\ UNCHANGED <<consumer, item>>
    BY <1>3, <1>t DEF ClosePipeline, Steps
  <2> QED BY <1>0, <2>1, StopFresh
<1>4. CASE DiscardPipeline(k)
  <2>1. StopPipeline(generation) /\ UNCHANGED <<consumer, item>>
    BY <1>4 DEF DiscardPipeline
  <2> QED BY <1>0, <2>1, StopFresh
<1>5. CASE SpawnConsumer(k)
  <2>1. /\ control[k] = "spawn" /\ consumer' = [consumer EXCEPT ![generation] = "waiting"]
        /\ UNCHANGED <<mode, slot, accepted, completed, item>>
    BY <1>5 DEF SpawnConsumer, Leaves
  <2>2. transitionLock = k /\ Phase = "spawn"
    BY <2>1, NoneFact DEF NodeInv, BarrierInv, LockAgrees, Inside, Phase
  <2>3. consumer[generation] \notin {"taken", "inferring"}
    BY <1>0, <2>2 DEF NodeInv, BarrierInv, QuietAgrees, Quiet, Live, ConsumerStates
  <2>4. consumer'[h] = consumer[h] \/ (h = generation /\ consumer'[h] = "waiting")
    BY <1>0, <2>1
  <2> QED BY <2>1, <2>3, <2>4, FreshStutter
<1>6. ASSUME \/ BeginRefused(k) \/ Detach(k) \/ BeginFinish(k) \/ ReleaseClaim(k)
             \/ JoinConsumer(k) \/ ForgetPipeline(k) \/ EndCall(k) \/ BeginMutation(k)
             \/ ResetModel(k) \/ ResetModelRaises(k) \/ CloseModel(k)
             \/ RequestDetection(k) \/ StartPipeline(k) \/ StartRaises(k)
             \/ InstallGeneration(k) \/ SpawnRaises(k)
      PROVE  FreshStep(h)
  BY <1>1, <1>6
     DEF BeginRefused, Detach, BeginFinish, ReleaseClaim, JoinConsumer, ForgetPipeline, EndCall,
         BeginMutation, ResetModel, ResetModelRaises, CloseModel, RequestDetection,
         StartPipeline, StartRaises, InstallGeneration, SpawnRaises
<1> QED BY <1>2, <1>3, <1>4, <1>5, <1>6 DEF TransitionStep

LEMMA PipelinesStep ==
  ASSUME NodeInv, [Next]_vars, NEW h \in Generations
  PROVE  FreshStep(h)
<1>1. ASSUME UNCHANGED <<mode, slot, accepted, completed, consumer, item>> PROVE FreshStep(h)
  BY <1>1, FreshStutter
<1>2. CASE Trigger \/ OnImage \/ (\E c \in callbacks : SubmitRefused(c)) \/ UNCHANGED vars
           \/ (\E k \in Controllers : Call(k) \/ AcquireTransition(k))
  BY <1>1, <1>2
     DEF Trigger, OnImage, SubmitRefused, Call, AcquireTransition, vars, model, pipeVars, consumeVars
<1>3. CASE \E c \in callbacks : SubmitImage(c)
  BY <1>3, SubmitFresh
<1>4. CASE \E g \in Generations : ConsumerStep(g)
  BY <1>4, ConsumerFresh
<1>5. CASE \E k \in Controllers : TransitionStep(k)
  BY <1>5, LifeCycleFresh
<1> QED BY <1>2, <1>3, <1>4, <1>5 DEF Next

(* What the node does to the pipeline of each generation (submitting,      *)
(* consuming, finishing, closing, failing, from whatever thread) are steps *)
(* of the queue that FreshFrames promises and LatestFrame implements.      *)
THEOREM PipelinesAreQueues == Spec => PipelinesAreFresh
<1>1. Init => \A g \in Generations : Gen(g)!Init
  BY DEF Init, Gen!Init
<1>2. NodeInv /\ [Next]_vars => [\A g \in Generations : [Gen(g)!Next]_(Gen(g)!vars)]_vars
  BY PipelinesStep DEF FreshStep
<1> QED BY <1>1, <1>2, NodeSafety, PTL DEF Spec, PipelinesAreFresh

-----------------------------------------------------------------------------
(* Types.                                                                  *)
FlagsTyped ==
  /\ accepting \in BOOLEAN /\ closed \in BOOLEAN /\ liveClosed \in BOOLEAN
  /\ poisoned \in BOOLEAN /\ fresh \in BOOLEAN
DataTyped ==
  /\ errors \subseteq Generations
  /\ sourceSequence <= MaxSequence + 1 /\ served >= -1
  /\ callbacks \subseteq [to : Generations, frame : Frames]
  /\ latch \in [Generations -> BOOLEAN]
  /\ inferredIn \in [Generations -> 0..MaxSession]
  /\ accepted \in [Generations -> -1..MaxSequence]
  /\ completed \in [Generations -> -1..MaxSequence]
  /\ target \in [Controllers -> Generations \cup {None}]
RestTyped == FlagsTyped /\ DataTyped

LEMMA FlagsStep ==
  ASSUME NodeInv, FlagsTyped, [Next]_vars
  PROVE  FlagsTyped'
<1> USE DEF FlagsTyped
<1>1. CASE Trigger \/ OnImage \/ UNCHANGED vars
  BY <1>1 DEF Trigger, OnImage, vars, node, nodeVars, endVars, model, liveVars
<1>2. ASSUME NEW c \in callbacks, SubmitImage(c) \/ SubmitRefused(c) PROVE FlagsTyped'
  BY <1>2 DEF SubmitImage, SubmitRefused, nodeVars, endVars, model, liveVars
<1>3. ASSUME NEW g \in Generations, ConsumerStep(g) PROVE FlagsTyped'
  <2> USE DEF Moves, nodeVars, endVars, model, liveVars
  <2>1. CASE ReportError(g)
    BY <2>1 DEF ReportError, AcceptingAfterError
  <2>2. CASE InferFails(g)
    BY <2>2 DEF InferFails
  <2>3. CASE BeginInference(g)
    BY <2>3 DEF BeginInference
  <2>4. CASE \/ TakeFrame(g) \/ ConsumerEnds(g) \/ InferReturns(g) \/ InferRaises(g) \/ GateResult(g)
             \/ PublishReturns(g) \/ PublishRaises(g) \/ RecordOutput(g)
             \/ AbortPipeline(g) \/ PublishCallsBack(g) \/ CallBackRefused(g)
    BY <2>4 DEF TakeFrame, ConsumerEnds, InferReturns, InferRaises, GateResult, PublishReturns,
                PublishRaises, RecordOutput, AbortPipeline, PublishCallsBack, CallBackRefused
  <2> QED BY <1>3, <2>1, <2>2, <2>3, <2>4 DEF ConsumerStep
<1>4. ASSUME NEW k \in Controllers, Call(k) \/ AcquireTransition(k) \/ TransitionStep(k)
      PROVE  FlagsTyped'
  <2> USE DEF node, nodeVars, endVars, model, liveVars
  <2>1. CASE \/ Call(k) \/ AcquireTransition(k) \/ BeginRefused(k) \/ Detach(k) \/ BeginFinish(k)
             \/ FinishInput(k) \/ ClosePipeline(k) \/ ReleaseClaim(k) \/ JoinConsumer(k)
             \/ ForgetPipeline(k) \/ EndCall(k) \/ BeginMutation(k)
    BY <2>1 DEF Call, AcquireTransition, BeginRefused, Detach, BeginFinish, FinishInput,
                ClosePipeline, ReleaseClaim, JoinConsumer, ForgetPipeline, EndCall, BeginMutation
  <2>2. CASE \/ ResetModel(k) \/ ResetModelRaises(k) \/ CloseModel(k)
             \/ RequestDetection(k) \/ StartPipeline(k) \/ StartRaises(k)
             \/ InstallGeneration(k) \/ SpawnConsumer(k) \/ SpawnRaises(k) \/ DiscardPipeline(k)
    BY <2>2 DEF ResetModel, ResetModelRaises, CloseModel, RequestDetection, StartPipeline,
                StartRaises, InstallGeneration, SpawnConsumer, SpawnRaises, DiscardPipeline
  <2> QED BY <1>4, <2>1, <2>2 DEF TransitionStep
<1> QED BY <1>1, <1>2, <1>3, <1>4 DEF Next

LEMMA DataStep ==
  ASSUME NodeInv, DataTyped, [Next]_vars
  PROVE  DataTyped'
<1> USE FramesFact
<1>0. /\ errors \subseteq Generations
      /\ sourceSequence <= MaxSequence + 1 /\ served >= -1
      /\ callbacks \subseteq [to : Generations, frame : Frames]
      /\ latch \in [Generations -> BOOLEAN]
      /\ inferredIn \in [Generations -> 0..MaxSession]
      /\ accepted \in [Generations -> -1..MaxSequence]
      /\ completed \in [Generations -> -1..MaxSequence]
      /\ target \in [Controllers -> Generations \cup {None}]
  BY DEF DataTyped
<1>k. ASSUME UNCHANGED <<errors, sourceSequence, callbacks, served>>,
             UNCHANGED <<latch, inferredIn, accepted, completed, target>>
      PROVE  DataTyped'
  BY <1>0, <1>k DEF DataTyped
<1>p. generation \in Generations /\ pipeline \in Generations \cup {None}
      /\ session \in 0..MaxSession
  BY PresentGeneration DEF NodeInv, BarrierInv, ConsumersAgree, Typed
<1>1. ASSUME Trigger \/ UNCHANGED vars PROVE DataTyped'
  BY <1>k, <1>1 DEF Trigger, vars, node, nodeVars, inputVars, requestVars, model, pipeVars,
                    liveVars, controlVars
<1>2. ASSUME OnImage PROVE DataTyped'
  <2>1. /\ sourceSequence <= MaxSequence /\ sourceSequence' = sourceSequence + 1
        /\ UNCHANGED <<errors, latch, inferredIn, accepted, completed, target>>
    BY <1>2 DEF OnImage, nodeVars, model, pipeVars, liveVars, controlVars
  <2>2. UNCHANGED served
    BY <1>2 DEF OnImage, ApplyPolicy, requestVars
  <2>3. sourceSequence \in Nat /\ epoch \in Nat /\ armed \in BOOLEAN /\ pending \in BOOLEAN
    BY DEF NodeInv, RequestInv, Counted
  <2>4. callbacks' \subseteq [to : Generations, frame : Frames]
    <3>1. CASE UNCHANGED callbacks
      BY <1>0, <3>1
    <3>2. CASE ~UNCHANGED callbacks
      <4>1. PICK new : new = [seq |-> sourceSequence, full |-> pending', epoch |-> epoch']
        OBVIOUS
      <4>2. /\ pipeline # None
            /\ pending' = (pending \/ armed)
            /\ epoch' = IF armed THEN epoch + 1 ELSE epoch
            /\ callbacks' = callbacks \cup {[to |-> pipeline, frame |-> new]}
        BY <1>2, <3>2, <4>1 DEF OnImage, ApplyPolicy, DetectionFlag
      <4>3. pending' \in BOOLEAN
        BY <4>2
      <4>4. new \in Frames
        BY <2>1, <2>3, <4>1, <4>2, <4>3 DEF Frames
      <4>5. pipeline \in Generations
        BY <1>p, <4>2
      <4>6. [to |-> pipeline, frame |-> new] \in [to : Generations, frame : Frames]
        BY <4>4, <4>5
      <4> QED BY <1>0, <4>2, <4>6
    <3> QED BY <3>1, <3>2
  <2>5. sourceSequence' <= MaxSequence + 1
    BY <2>1, <2>3
  <2> QED BY <1>0, <2>1, <2>2, <2>4, <2>5 DEF DataTyped
<1>3. ASSUME NEW c \in callbacks, SubmitImage(c) \/ SubmitRefused(c) PROVE DataTyped'
  <2>1. /\ UNCHANGED <<errors, sourceSequence, served, inferredIn, completed, target>>
        /\ callbacks' \subseteq callbacks
    BY <1>3 DEF SubmitImage, SubmitRefused, nodeVars, requestVars, model, pipeVars, liveVars, controlVars
  <2>2. c.frame.seq \in -1..MaxSequence /\ c.frame.full \in BOOLEAN
    <3>1. c.frame \in Frames
      BY <1>0
    <3> QED BY <3>1
  <2>3. latch' \in [Generations -> BOOLEAN]
    <3>1. UNCHANGED latch \/ latch' = [latch EXCEPT ![c.to] = @ \/ c.frame.full]
      BY <1>3 DEF SubmitImage, SubmitRefused, model, pipeVars
    <3>2. (latch[c.to] \/ c.frame.full) \in BOOLEAN
      BY <2>2
    <3> QED BY <1>0, <3>1, <3>2
  <2>4. accepted' \in [Generations -> -1..MaxSequence]
    <3>1. UNCHANGED accepted \/ accepted' = [accepted EXCEPT ![c.to] = c.frame.seq]
      BY <1>3 DEF SubmitImage, SubmitRefused, model, pipeVars
    <3> QED BY <1>0, <2>2, <3>1
  <2> QED BY <1>0, <2>1, <2>3, <2>4 DEF DataTyped
<1>4. ASSUME NEW g \in Generations, ConsumerStep(g) PROVE DataTyped'
  <2> USE DEF Moves, nodeVars, inputVars, requestVars, model, pipeVars, liveVars, controlVars,
              StopPipeline
  <2>i. consumer[g] \in InHand => item[g].seq \in -1..MaxSequence
    BY DEF NodeInv, RequestInv, HandsAgree, Carries
  <2>1. CASE BeginInference(g)
    <3>1. /\ UNCHANGED <<errors, sourceSequence, callbacks, served, accepted, completed, target>>
          /\ latch' = [latch EXCEPT ![g] = FALSE]
          /\ inferredIn' = [inferredIn EXCEPT ![g] = session]
      BY <2>1 DEF BeginInference
    <3> QED BY <1>0, <1>p, <3>1 DEF DataTyped
  <2>2. CASE InferReturns(g)
    <3>1. /\ UNCHANGED <<errors, sourceSequence, callbacks, served, accepted, latch, inferredIn, target>>
          /\ completed' = [completed EXCEPT ![g] = item[g].seq] /\ consumer[g] = "inferring"
      BY <2>2 DEF InferReturns
    <3> QED BY <1>0, <2>i, <3>1 DEF DataTyped, InHand
  <2>3. CASE PublishReturns(g)
    <3>1. /\ UNCHANGED <<errors, sourceSequence, callbacks, accepted, completed, latch, inferredIn, target>>
          /\ served' \in {served, item[g].seq} /\ consumer[g] = "publishing"
      BY <2>3 DEF PublishReturns
    <3>2. item[g].seq >= -1
      BY <2>i, <3>1 DEF InHand
    <3>3. served' >= -1
      BY <1>0, <3>1, <3>2
    <3> QED BY <1>0, <3>1, <3>3 DEF DataTyped
  <2>4. CASE ReportError(g)
    <3>1. /\ UNCHANGED <<sourceSequence, callbacks, served, accepted, completed, latch, inferredIn, target>>
          /\ errors' = errors \cup {g}
      BY <2>4 DEF ReportError
    <3> QED BY <1>0, <3>1 DEF DataTyped
  <2>5. CASE \/ TakeFrame(g) \/ ConsumerEnds(g) \/ InferRaises(g) \/ InferFails(g) \/ GateResult(g)
             \/ PublishRaises(g) \/ RecordOutput(g)
             \/ AbortPipeline(g) \/ PublishCallsBack(g) \/ CallBackRefused(g)
    BY <1>k, <2>5 DEF TakeFrame, ConsumerEnds, InferRaises, InferFails, GateResult,
                PublishRaises, RecordOutput, AbortPipeline, PublishCallsBack, CallBackRefused
  <2> QED BY <1>4, <2>1, <2>2, <2>3, <2>4, <2>5 DEF ConsumerStep
<1>5. ASSUME NEW k \in Controllers, Call(k) \/ AcquireTransition(k) \/ TransitionStep(k)
      PROVE  DataTyped'
  <2> USE DEF node, nodeVars, inputVars, requestVars, model, pipeVars, liveVars, controlVars,
              StopPipeline, Steps, Leaves
  <2>1. ASSUME \/ Call(k) \/ AcquireTransition(k) \/ BeginRefused(k) \/ Detach(k) \/ BeginFinish(k)
             \/ FinishInput(k) \/ ClosePipeline(k) \/ ReleaseClaim(k) \/ JoinConsumer(k)
             \/ ForgetPipeline(k) \/ EndCall(k) \/ BeginMutation(k)
        PROVE  /\ UNCHANGED <<errors, sourceSequence, callbacks, served>>
               /\ UNCHANGED <<latch, inferredIn, accepted, completed>>
               /\ target' \in {target, [target EXCEPT ![k] = None], [target EXCEPT ![k] = pipeline]}
    BY <2>1 DEF Call, AcquireTransition, BeginRefused, Detach, BeginFinish, FinishInput,
                ClosePipeline, ReleaseClaim, JoinConsumer, ForgetPipeline, EndCall, BeginMutation
  <2>2. ASSUME \/ ResetModel(k) \/ ResetModelRaises(k) \/ CloseModel(k)
             \/ RequestDetection(k) \/ StartPipeline(k) \/ StartRaises(k)
             \/ InstallGeneration(k) \/ SpawnConsumer(k) \/ SpawnRaises(k) \/ DiscardPipeline(k)
        PROVE  /\ UNCHANGED <<errors, sourceSequence, callbacks, served>>
               /\ UNCHANGED <<latch, inferredIn, accepted, completed>>
               /\ target' \in {target, [target EXCEPT ![k] = None], [target EXCEPT ![k] = pipeline]}
    BY <2>2 DEF ResetModel, ResetModelRaises, CloseModel, RequestDetection, StartPipeline,
                StartRaises, InstallGeneration, SpawnConsumer, SpawnRaises, DiscardPipeline
  <2>3. /\ UNCHANGED <<errors, sourceSequence, callbacks, served>>
        /\ UNCHANGED <<latch, inferredIn, accepted, completed>>
        /\ target' \in {target, [target EXCEPT ![k] = None], [target EXCEPT ![k] = pipeline]}
    BY <1>5, <2>1, <2>2 DEF TransitionStep
  <2>4. target' \in [Controllers -> Generations \cup {None}]
    BY <1>0, <1>p, <2>3
  <2> QED BY <1>0, <2>3, <2>4 DEF DataTyped
<1> QED BY <1>1, <1>2, <1>3, <1>4, <1>5 DEF Next

(* The node's variables hold the values of their types.                    *)
THEOREM NodeTypeCorrect == Spec => []TypeOK
<1>1. Init => RestTyped
  <2> SUFFICES ASSUME Init PROVE RestTyped
    OBVIOUS
  <2>1. FlagsTyped
    BY DEF Init, FlagsTyped
  <2>2. /\ errors = {} /\ sourceSequence = 0 /\ served = -1 /\ callbacks = {}
        /\ latch = [g \in Generations |-> FALSE] /\ inferredIn = [g \in Generations |-> 0]
        /\ accepted = [g \in Generations |-> -1] /\ completed = [g \in Generations |-> -1]
        /\ target = [k \in Controllers |-> None]
    BY DEF Init
  <2>3. 0 \in 0..MaxSession /\ -1 \in -1..MaxSequence /\ 0 <= MaxSequence + 1 /\ -1 >= -1
    OBVIOUS
  <2>4. DataTyped
    BY <2>2, <2>3 DEF DataTyped
  <2> QED BY <2>1, <2>4 DEF RestTyped
<1>2. NodeInv /\ RestTyped /\ [Next]_vars => RestTyped'
  BY FlagsStep, DataStep DEF RestTyped
<1>3. NodeInv /\ RestTyped => TypeOK
  <2> SUFFICES ASSUME NodeInv, RestTyped PROVE TypeOK
    OBVIOUS
  <2>1. /\ generation \in Generations /\ pipeline \in Generations \cup {None}
        /\ session \in 0..MaxSession
    BY PresentGeneration DEF NodeInv, BarrierInv, ConsumersAgree, Typed
  <2>2. claim \in Generations \cup {None}
    <3>1. claim = None \/ claim = generation \/ (claim = generation + 1 /\ generation < session)
      BY DEF NodeInv, BarrierInv, ClaimAgrees, HolderAgrees
    <3> QED BY <2>1, <3>1
  <2>3. /\ sourceSequence \in 0..MaxSequence + 1 /\ requested \in 0..MaxSequence + 1
        /\ served \in -1..MaxSequence /\ epoch \in Nat
        /\ armed \in BOOLEAN /\ pending \in BOOLEAN
    <3>1. /\ sourceSequence \in Nat /\ requested \in Nat /\ served \in Int /\ epoch \in Nat
          /\ requested <= sourceSequence /\ served < sourceSequence
          /\ armed \in BOOLEAN /\ pending \in BOOLEAN
      BY DEF NodeInv, RequestInv, Counted
    <3>2. sourceSequence <= MaxSequence + 1 /\ served >= -1
      BY DEF RestTyped, DataTyped
    <3>3. /\ sourceSequence \in 0..MaxSequence + 1 /\ requested \in 0..MaxSequence + 1
          /\ served \in -1..MaxSequence
      BY <3>1, <3>2
    <3> QED BY <3>1, <3>3
  <2> QED BY <2>1, <2>2, <2>3
          DEF NodeInv, BarrierInv, Typed, RequestInv, Stored, RestTyped, FlagsTyped, DataTyped, TypeOK
<1> QED BY <1>1, <1>2, <1>3, NodeSafety, PTL DEF Spec
=============================================================================
