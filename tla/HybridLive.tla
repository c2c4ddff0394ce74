----------------------------- MODULE HybridLive -----------------------------
(***************************************************************************)
(* SAM3HybridLive (src/tracker/hybrid_inference.py): keyframes in a clean  *)
(* tracking session, propagation in between, and public object ids that    *)
(* outlive the session.                                                    *)
(*                                                                         *)
(* The wrapper is called by one thread at a time (LatestFrame is about     *)
(* that), so a call is a step; one that a guard refuses, or that cannot    *)
(* even build the replacement session, changes nothing and is not a step.  *)
(* An object is its inner id and its prompt.  Two masks either overlap     *)
(* enough to be associated or do not: which pairs do is arbitrary.  The    *)
(* output of a frame is its ids with their prompts: every id has both, so  *)
(* the three _previous_ attributes are one function.                       *)
(***************************************************************************)
EXTENDS Integers, FiniteSets

CONSTANTS
  Prompts,
  MaxInner,  \* bound: objects detected in one tracking session
  MaxPublic  \* bound: public ids allocated

ASSUME BoundAssumption == MaxInner \in Nat /\ MaxPublic \in Nat

VARIABLES
  session,        \* SAM3Live: objects, next inner id, _force_detect_next
  era,            \* history: flips whenever a new session is installed
  innerFresh,     \* _inner_session_fresh
  forceKeyframe,  \* _force_keyframe_next
  due,            \* the keyframe interval has elapsed
  mapping,        \* _inner_to_public
  nextPublic,     \* _next_public_object_id
  previous,       \* prompts of the ids in the last output (_previous_...)
  result,         \* detected and lost_object_ids of the last output
  lastPrompt,     \* history: the prompt each id was last published with
  retired,        \* history: ids a clean keyframe or a reset has given up
  stale           \* history: the map is that of an earlier session, and the
                  \* frames that follow may go on with it

idVars == <<mapping, nextPublic, previous, result, lastPrompt, retired>>
vars == <<session, era, innerFresh, forceKeyframe, due, idVars, stale>>

(* A tracking session numbers its objects from 0 and detects on its first  *)
(* frame.                                                                  *)
EmptySession == [objects |-> <<>>, next |-> 0, force |-> TRUE]

Init ==
  /\ session = EmptySession /\ era = FALSE
  /\ innerFresh = TRUE
  /\ forceKeyframe = TRUE
  /\ due = TRUE
  /\ mapping = <<>>
  /\ nextPublic = 0
  /\ previous = <<>>
  /\ result = [detected |-> FALSE, lost |-> {}]
  /\ lastPrompt = <<>>
  /\ retired = {}
  /\ stale = FALSE

Ids(f) == {f[x] : x \in DOMAIN f}

(* What a frame makes of a session: objects disappear, and if it detects   *)
(* new ones are found, under new inner ids.                                *)
After(base, detects) ==
  UNION {LET known == DOMAIN base.objects
             found == base.next..n - 1
         IN  {[objects |-> o, next |-> n, force |-> FALSE] :
                o \in {o \in UNION {[ids -> Prompts] :
                                      ids \in SUBSET (known \cup found)} :
                         \A i \in known \cap DOMAIN o : o[i] = base.objects[i]}} :
         n \in IF detects THEN base.next..MaxInner ELSE {base.next}}

-----------------------------------------------------------------------------
(* The clock passes _last_keyframe_time + keyframe_interval_s.             *)
IntervalElapses ==
  /\ ~due
  /\ due' = TRUE
  /\ UNCHANGED <<session, era, innerFresh, forceKeyframe, idVars, stale>>

Requests == {"schedule", "full", "track"}  \* full_detection = None, True, False

RunsDetection(request) ==
  forceKeyframe \/ request = "full" \/ (request = "schedule" /\ due)

NewSession(run) == run /\ ~innerFresh
(* A keyframe runs in a clean session.                                     *)
Base(run) == IF NewSession(run) THEN EmptySession ELSE session

ExtendOffByOne(known, inner) ==
  [i \in DOMAIN known \cup inner |->
     IF i \in DOMAIN known THEN known[i]
     ELSE nextPublic + Cardinality({j \in inner \ DOMAIN known : j <= i})]

\* Ids for those inner ids of an output that have none yet, in order.
Extend(known, inner) ==
  [i \in DOMAIN known \cup inner |->
     IF i \in DOMAIN known THEN known[i]
     ELSE nextPublic + Cardinality({j \in inner \ DOMAIN known : j < i})]

AssociatesAny(output, match) ==
  \A i, j \in DOMAIN match : match[i] = match[j] => i = j
AssociatesTwice(output, match) ==
  \A i \in DOMAIN match : previous[match[i]] = output[i]

(* Greedy matching by overlap pairs an object with at most one previous id *)
(* of its own prompt, and an id with at most one object.                   *)
Associates(output, match) ==
  /\ \A i \in DOMAIN match : previous[match[i]] = output[i]
  /\ \A i, j \in DOMAIN match : match[i] = match[j] => i = j

(* Ids known before the frame: those a keyframe associates, or all that the*)
(* session has had so far, also of objects that are gone.                  *)
Known(clean, output) ==
  IF clean
  THEN {match \in UNION {[inner -> DOMAIN previous] :
                            inner \in SUBSET DOMAIN output} :
          Associates(output, match)}
  ELSE {mapping}

KeepsForcing(detects, lost) == forceKeyframe /\ ~detects
(* A detection settles every earlier reason; a loss is a new one.  (The    *)
(* model never fails to run a detection it is asked for, so the branch that*)
(* retries is not taken.)                                                  *)
ForcesNext(detects, lost) == (forceKeyframe /\ ~detects) \/ lost # {}

NotFresh == FALSE

Published(output, ids) ==
  [p \in {ids[i] : i \in DOMAIN output} |->
     output[CHOOSE i \in DOMAIN output : ids[i] = p]]

InferReturns(request) ==
  LET run == RunsDetection(request)
      detects == Base(run).force \/ run
  IN
  /\ session' \in After(Base(run), detects)
  /\ era' = (era # NewSession(run))
  /\ \E inner \in SUBSET DOMAIN session'.objects :
       LET output == [i \in inner |-> session'.objects[i]] IN
       /\ \E known \in Known(run, output) :
            /\ mapping' = Extend(known, inner)
            /\ nextPublic' = nextPublic + Cardinality(inner \ DOMAIN known)
       /\ previous' = Published(output, mapping')
  /\ nextPublic' <= MaxPublic
  /\ result' = [detected |-> detects,
                lost |-> IF detects THEN {}
                         ELSE DOMAIN previous \ DOMAIN previous']
  /\ forceKeyframe' = ForcesNext(detects, result'.lost)
  /\ due' = (due /\ ~detects)
  /\ innerFresh' = NotFresh
  /\ lastPrompt' = [p \in DOMAIN lastPrompt \cup DOMAIN previous' |->
                      IF p \in DOMAIN previous' THEN previous'[p]
                      ELSE lastPrompt[p]]
  /\ retired' = IF run THEN 0..nextPublic' - 1 \ DOMAIN previous' ELSE retired
  /\ stale' = (stale /\ ~run)

(* live.infer refuses the frame before it has decided anything, or its     *)
(* model raises with the frame half processed.                             *)
InferRaises(request) ==
  LET run == RunsDetection(request) IN
  /\ \/ session' = Base(run)
     \/ session' \in After(Base(run), Base(run).force \/ run)
  /\ era' = (era # NewSession(run))
  /\ innerFresh' = NotFresh
  /\ stale' = (stale \/ (NewSession(run) /\ ~forceKeyframe))
  /\ UNCHANGED <<forceKeyframe, due, idVars>>

MappingSurvives == mapping
ClearedMapping == <<>>

(* reset_prompts and reset_tracking: a new inner session, and a scheduler  *)
(* that has forgotten everything but the next public id.                   *)
Reset ==
  /\ session' = EmptySession /\ era' = ~era
  /\ innerFresh' = TRUE
  /\ forceKeyframe' = TRUE
  /\ due' = TRUE
  /\ mapping' = ClearedMapping
  /\ previous' = <<>>
  /\ retired' = 0..nextPublic - 1
  /\ stale' = FALSE
  /\ UNCHANGED <<nextPublic, result, lastPrompt>>

Next ==
  \/ IntervalElapses \/ Reset
  \/ \E request \in Requests : InferReturns(request) \/ InferRaises(request)

Spec == Init /\ [][Next]_vars
-----------------------------------------------------------------------------
Partial(S, T) == UNION {[D -> T] : D \in SUBSET S}
InnerIds == 0..MaxInner - 1
PublicIds == 0..MaxPublic - 1

(* Every variable keeps its type.                                          *)
TypeOK ==
  /\ session \in [objects : Partial(InnerIds, Prompts), next : 0..MaxInner,
                  force : BOOLEAN]
  /\ era \in BOOLEAN /\ innerFresh \in BOOLEAN
  /\ forceKeyframe \in BOOLEAN /\ due \in BOOLEAN
  /\ mapping \in Partial(InnerIds, PublicIds)
  /\ nextPublic \in 0..MaxPublic
  /\ previous \in Partial(PublicIds, Prompts)
  /\ result \in [detected : BOOLEAN, lost : SUBSET PublicIds]
  /\ lastPrompt \in Partial(PublicIds, Prompts)
  /\ retired \subseteq PublicIds
  /\ stale \in BOOLEAN

(* Two objects of a session never share a public id, whether their ids were*)
(* inherited by association or allocated, before or after a failed call.   *)
PublicIdsDistinct ==
  \A i, j \in DOMAIN mapping : mapping[i] = mapping[j] => i = j

(* An id that a clean keyframe did not find again, or that was in use at a *)
(* reset, is never published again, nor kept ready for an inner id.        *)
RetiredStayRetired == (Ids(mapping) \cup DOMAIN previous) \cap retired = {}

(* Within one tracking session an object keeps its public id: it is only   *)
(* ever renamed by a keyframe that runs in a new session.                  *)
SessionKeepsId ==
  [][ era' = era =>
        \A i \in DOMAIN mapping \cap DOMAIN session'.objects :
          i \in DOMAIN mapping' /\ mapping'[i] = mapping[i] ]_vars

(* The frame after a reported object loss runs detection, whatever the     *)
(* caller asks for and however many calls fail in between.                 *)
LossForcesDetection ==
  [][ result.lost # {} /\ ~result'.detected =>
        \A request \in Requests : ~InferReturns(request) ]_vars

SamePrompts ==
  \A p \in DOMAIN lastPrompt \cap DOMAIN previous' :
    previous'[p] = lastPrompt[p]

(* A public id never moves to another prompt, also when it was gone for    *)
(* some frames, unless a keyframe that nothing forces has failed and none  *)
(* has succeeded since.                                                    *)
IdKeepsPrompt == [][~stale => SamePrompts]_vars
=============================================================================
