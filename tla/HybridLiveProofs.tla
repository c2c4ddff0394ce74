-------------------------- MODULE HybridLiveProofs --------------------------
(***************************************************************************)
(* Proofs about the public ids of SAM3HybridLive, for any prompts, bounds  *)
(* and failures: two objects of a session never share an id, an id that was*)
(* given up never comes back, and a lost object forces a detection.        *)
(***************************************************************************)
EXTENDS HybridLive, FiniteSetTheorems, TLAPS

IdsBelow(n) == 0..n - 1

LEMMA ProperSubset ==
  ASSUME NEW S, IsFiniteSet(S), NEW T, T \subseteq S, NEW x \in S, x \notin T
  PROVE  /\ IsFiniteSet(T) /\ Cardinality(T) \in Nat
         /\ Cardinality(T) < Cardinality(S)
<1>1. /\ IsFiniteSet(T) /\ Cardinality(T) <= Cardinality(S)
      /\ Cardinality(S) # Cardinality(T)
  BY FS_Subset
<1>2. Cardinality(T) \in Nat /\ Cardinality(S) \in Nat
  BY <1>1, FS_CardinalityType
<1> QED
  BY <1>1, <1>2

(* Extend gives new inner ids fresh, pairwise different public ids.        *)
LEMMA ExtendFresh ==
  ASSUME nextPublic \in Nat,
         NEW known, known \in [DOMAIN known -> IdsBelow(nextPublic)],
         \A i, j \in DOMAIN known : known[i] = known[j] => i = j,
         NEW inner, inner \subseteq Nat, IsFiniteSet(inner)
  PROVE  /\ Cardinality(inner \ DOMAIN known) \in Nat
         /\ Extend(known, inner)
              \in [DOMAIN known \cup inner ->
                    IdsBelow(nextPublic + Cardinality(inner \ DOMAIN known))]
         /\ \A i \in DOMAIN known : Extend(known, inner)[i] = known[i]
         /\ \A i \in inner \ DOMAIN known :
              Extend(known, inner)[i] >= nextPublic
         /\ \A i, j \in DOMAIN known \cup inner :
              Extend(known, inner)[i] = Extend(known, inner)[j] => i = j
<1> DEFINE new == inner \ DOMAIN known
           before(i) == {j \in new : j < i}
           e == Extend(known, inner)
           n == nextPublic + Cardinality(new)
<1>1. IsFiniteSet(new) /\ Cardinality(new) \in Nat
  <2>1. IsFiniteSet(new)
    BY FS_Subset
  <2> QED
    BY <2>1, FS_CardinalityType
<1>2. n \in Nat /\ n >= nextPublic
  BY <1>1
<1>3. \A i \in new : before(i) \subseteq new /\ i \notin before(i)
  OBVIOUS
<1>4. \A i, j \in new :
        i < j => before(i) \subseteq before(j) /\ i \in before(j)
  OBVIOUS
<1>e. \A i \in new : e[i] = nextPublic + Cardinality(before(i))
  BY DEF Extend
<1> HIDE DEF before
<1>r. /\ \A i \in new : Cardinality(before(i)) \in 0..Cardinality(new) - 1
      /\ \A i, j \in new :
           i < j => Cardinality(before(i)) < Cardinality(before(j))
  <2>1. \A i \in new : /\ IsFiniteSet(before(i))
                       /\ Cardinality(before(i)) \in Nat
                       /\ Cardinality(before(i)) < Cardinality(new)
    BY <1>1, <1>3, ProperSubset
  <2>2. \A i, j \in new :
          i < j => Cardinality(before(i)) < Cardinality(before(j))
    BY <1>3, <1>4, <2>1, ProperSubset
  <2> QED
    BY <1>1, <2>1, <2>2
<1> DEFINE rank(i) == Cardinality(before(i))
<1>6. \A i \in new : e[i] = nextPublic + rank(i)
  BY <1>e
<1> DEFINE size == Cardinality(new)
<1>n. size \in Nat /\ n = nextPublic + size
  BY <1>1
<1>7. /\ \A i \in new : rank(i) \in 0..size - 1
      /\ \A i, j \in new : i < j => rank(i) < rank(j)
  BY <1>r
<1> HIDE DEF rank, size
<1>5. \A i \in DOMAIN known : e[i] = known[i]
  BY DEF Extend
<1>k. \A i \in DOMAIN known : e[i] \in IdsBelow(nextPublic)
  BY <1>5
<1>8. \A i \in new : e[i] \in nextPublic..n - 1
  <2> SUFFICES ASSUME NEW i \in new PROVE e[i] \in nextPublic..n - 1
    OBVIOUS
  <2>1. e[i] = nextPublic + rank(i) /\ rank(i) \in 0..size - 1
    BY <1>6, <1>7
  <2> HIDE DEF e
  <2> QED
    BY <1>n, <2>1
<1>9. e \in [DOMAIN known \cup inner -> IdsBelow(n)]
  <2>1. \A i \in DOMAIN known \cup inner : e[i] \in IdsBelow(n)
    BY <1>2, <1>k, <1>8 DEF IdsBelow
  <2>2. e = [i \in DOMAIN known \cup inner |-> e[i]]
    BY DEF Extend
  <2> HIDE DEF e
  <2> QED
    BY <2>1, <2>2
<1>10. \A i, j \in DOMAIN known \cup inner : e[i] = e[j] => i = j
  <2> SUFFICES ASSUME NEW i \in DOMAIN known \cup inner,
                      NEW j \in DOMAIN known \cup inner, e[i] = e[j]
               PROVE  i = j
    OBVIOUS
  <2>1. CASE i \in DOMAIN known /\ j \in DOMAIN known
    BY <1>5, <2>1
  <2>2. CASE i \in new /\ j \in new
    <3>1. rank(i) = rank(j)
      BY <1>6, <1>7, <2>2
    <3>2. ~(i < j) /\ ~(j < i)
      BY <1>7, <2>2, <3>1
    <3> QED
      BY <2>2, <3>2
  <2>3. CASE i \in DOMAIN known /\ j \in new
    BY <1>k, <1>8, <2>3 DEF IdsBelow
  <2>4. CASE i \in new /\ j \in DOMAIN known
    BY <1>k, <1>8, <2>4 DEF IdsBelow
  <2> QED
    BY <2>1, <2>2, <2>3, <2>4
<1>11. \A i \in inner \ DOMAIN known : e[i] >= nextPublic
  <2> HIDE DEF e
  <2> QED
    BY <1>2, <1>8
<1> QED
  BY <1>1, <1>5, <1>9, <1>10, <1>11
-----------------------------------------------------------------------------
SessionOK(s) ==
  s.next \in 0..MaxInner /\ DOMAIN s.objects \subseteq 0..s.next - 1

(* A frame keeps the prompts of the objects it does not lose, and never    *)
(* gives an old inner id to a new object.                                  *)
LEMMA AfterOK ==
  ASSUME NEW base, SessionOK(base), NEW detects,
         NEW s \in After(base, detects)
  PROVE  /\ SessionOK(s)
         /\ s.next >= base.next
         /\ \A i \in DOMAIN s.objects :
              i < base.next => /\ i \in DOMAIN base.objects
                               /\ s.objects[i] = base.objects[i]
<1>1. PICK n \in IF detects THEN base.next..MaxInner ELSE {base.next} :
        s \in {[objects |-> o, next |-> n, force |-> FALSE] :
                 o \in {o \in UNION {[ids -> Prompts] :
                          ids \in SUBSET (DOMAIN base.objects
                                            \cup (base.next..n - 1))} :
                          \A i \in DOMAIN base.objects \cap DOMAIN o :
                             o[i] = base.objects[i]}}
  BY DEF After
<1>2. n \in base.next..MaxInner /\ base.next \in Nat
  BY BoundAssumption DEF SessionOK
<1>3. PICK ids \in SUBSET (DOMAIN base.objects \cup (base.next..n - 1)) :
        /\ s.next = n
        /\ s.objects \in [ids -> Prompts]
        /\ \A i \in DOMAIN base.objects \cap DOMAIN s.objects :
             s.objects[i] = base.objects[i]
  BY <1>1
<1>4. DOMAIN s.objects = ids
  BY <1>3
<1>5. ids \subseteq 0..n - 1
  BY <1>2, BoundAssumption DEF SessionOK
<1>6. \A i \in ids : i < base.next => i \in DOMAIN base.objects
  BY <1>2
<1>7. SessionOK(s)
  <2>1. s.next \in 0..MaxInner
    BY <1>2, <1>3, BoundAssumption
  <2> QED
    BY <1>3, <1>4, <1>5, <2>1 DEF SessionOK
<1>8. s.next >= base.next
  BY <1>2, <1>3, BoundAssumption
<1>9. \A i \in DOMAIN s.objects :
        i < base.next => /\ i \in DOMAIN base.objects
                         /\ s.objects[i] = base.objects[i]
  BY <1>3, <1>4, <1>6
<1> QED
  BY <1>7, <1>8, <1>9

(* Ids are below the next one to allocate, those in use are pairwise       *)
(* different, and those given up are not in use.                           *)
IdInv ==
  /\ SessionOK(session)
  /\ nextPublic \in Nat
  /\ mapping \in [DOMAIN mapping -> IdsBelow(nextPublic)]
  /\ DOMAIN previous \subseteq IdsBelow(nextPublic)
  /\ retired \subseteq IdsBelow(nextPublic)
  /\ PublicIdsDistinct
  /\ RetiredStayRetired

LEMMA IdInit == Init => IdInv
<1> SUFFICES ASSUME Init PROVE IdInv
  OBVIOUS
<1> USE BoundAssumption DEF Init
<1>1. SessionOK(session)
  BY DEF SessionOK, EmptySession
<1>2. mapping \in [DOMAIN mapping -> IdsBelow(nextPublic)]
  OBVIOUS
<1>3. PublicIdsDistinct
  BY DEF PublicIdsDistinct
<1>4. RetiredStayRetired
  BY DEF RetiredStayRetired
<1>5. DOMAIN previous \subseteq IdsBelow(nextPublic) /\ retired = {}
  OBVIOUS
<1> QED
  BY <1>1, <1>2, <1>3, <1>4, <1>5 DEF IdInv

LEMMA BaseOK == ASSUME IdInv, NEW run PROVE SessionOK(Base(run))
  BY BoundAssumption DEF IdInv, Base, EmptySession, SessionOK

(* How a frame names the objects it shows: `known' are the ids from before *)
(* the frame, `inner' the objects shown.                                   *)
Names(run, inner, known) ==
  /\ known \in [DOMAIN known -> IdsBelow(nextPublic)]
  /\ ~run => known = mapping
  /\ run => /\ DOMAIN known \subseteq inner
            /\ \A i \in DOMAIN known : /\ known[i] \in DOMAIN previous
                                       /\ previous[known[i]] = session'.objects[i]
  /\ nextPublic' \in Nat /\ nextPublic' >= nextPublic
  /\ mapping' \in [DOMAIN known \cup inner -> IdsBelow(nextPublic')]
  /\ \A i \in DOMAIN known : mapping'[i] = known[i]
  /\ \A i \in inner \ DOMAIN known : mapping'[i] >= nextPublic
  /\ \A i, j \in DOMAIN known \cup inner : mapping'[i] = mapping'[j] => i = j
  /\ DOMAIN previous' = {mapping'[i] : i \in inner}
  /\ \A i \in inner : previous'[mapping'[i]] = session'.objects[i]

LEMMA ReturnNames ==
  ASSUME IdInv, NEW request \in Requests, InferReturns(request)
  PROVE  /\ SessionOK(session')
         /\ \E inner \in SUBSET DOMAIN session'.objects :
              \E known : Names(RunsDetection(request), inner, known)
<1> DEFINE run == RunsDetection(request)
           detects == Base(run).force \/ run
<1>1. SessionOK(session')
  <2>1. session' \in After(Base(run), detects)
    BY DEF InferReturns
  <2>2. SessionOK(Base(run))
    BY BaseOK
  <2> HIDE DEF run, detects
  <2> QED
    BY <2>1, <2>2, AfterOK
<1>2. PICK inner \in SUBSET DOMAIN session'.objects :
        LET output == [i \in inner |-> session'.objects[i]] IN
        /\ \E known \in Known(run, output) :
             /\ mapping' = Extend(known, inner)
             /\ nextPublic' = nextPublic + Cardinality(inner \ DOMAIN known)
        /\ previous' = Published(output, mapping')
  BY DEF InferReturns
<1> DEFINE output == [i \in inner |-> session'.objects[i]]
<1>3. PICK known \in Known(run, output) :
        /\ mapping' = Extend(known, inner)
        /\ nextPublic' = nextPublic + Cardinality(inner \ DOMAIN known)
  BY <1>2
<1>4. inner \subseteq Nat /\ IsFiniteSet(inner)
  <2>1. inner \subseteq 0..MaxInner - 1
    BY <1>1, BoundAssumption DEF SessionOK
  <2>2. IsFiniteSet(0..MaxInner - 1)
    BY FS_Interval, BoundAssumption
  <2>3. IsFiniteSet(inner)
    BY <2>1, <2>2, FS_Subset
  <2> QED
    BY <2>1, <2>3, BoundAssumption
<1>5. DOMAIN output = inner
  OBVIOUS
<1>6. /\ known \in [DOMAIN known -> IdsBelow(nextPublic)]
      /\ \A i, j \in DOMAIN known : known[i] = known[j] => i = j
      /\ ~run => known = mapping
      /\ run => /\ DOMAIN known \subseteq inner
                /\ \A i \in DOMAIN known :
                     /\ known[i] \in DOMAIN previous
                     /\ previous[known[i]] = session'.objects[i]
  <2>1. CASE run
    <3>1. PICK S \in SUBSET inner : known \in [S -> DOMAIN previous]
      BY <1>3, <1>5, <2>1 DEF Known
    <3>2. Associates(output, known)
      BY <1>3, <2>1 DEF Known
    <3>3. \A i \in DOMAIN known : previous[known[i]] = session'.objects[i]
      BY <3>1, <3>2 DEF Associates
    <3> QED
      BY <2>1, <3>1, <3>2, <3>3 DEF Associates, IdInv
  <2>2. CASE ~run
    BY <1>3, <2>2 DEF Known, IdInv, PublicIdsDistinct
  <2> HIDE DEF run
  <2> QED
    BY <2>1, <2>2
<1>7. /\ nextPublic' \in Nat /\ nextPublic' >= nextPublic
      /\ mapping' \in [DOMAIN known \cup inner -> IdsBelow(nextPublic')]
      /\ \A i \in DOMAIN known : mapping'[i] = known[i]
      /\ \A i \in inner \ DOMAIN known : mapping'[i] >= nextPublic
      /\ \A i, j \in DOMAIN known \cup inner : mapping'[i] = mapping'[j] => i = j
  <2> HIDE DEF run, detects, output
  <2>1. nextPublic \in Nat
    BY DEF IdInv
  <2>2. /\ Cardinality(inner \ DOMAIN known) \in Nat
        /\ Extend(known, inner)
             \in [DOMAIN known \cup inner ->
                   IdsBelow(nextPublic + Cardinality(inner \ DOMAIN known))]
        /\ \A i \in DOMAIN known : Extend(known, inner)[i] = known[i]
        /\ \A i \in inner \ DOMAIN known :
             Extend(known, inner)[i] >= nextPublic
        /\ \A i, j \in DOMAIN known \cup inner :
             Extend(known, inner)[i] = Extend(known, inner)[j] => i = j
    BY <1>4, <1>6, <2>1, ExtendFresh
  <2>3. nextPublic' \in Nat /\ nextPublic' >= nextPublic
    BY <1>3, <2>1, <2>2
  <2>4. mapping' = Extend(known, inner)
    BY <1>3
  <2>5. mapping' \in [DOMAIN known \cup inner -> IdsBelow(nextPublic')]
    BY <1>3, <2>2, Zenon
  <2> QED
    BY <2>2, <2>3, <2>4, <2>5, Zenon
<1>8. previous' = [p \in {mapping'[i] : i \in inner} |->
                     output[CHOOSE i \in inner : mapping'[i] = p]]
  BY <1>2, <1>5 DEF Published
<1>9. \A i \in inner : previous'[mapping'[i]] = session'.objects[i]
  <2> SUFFICES ASSUME NEW i \in inner
               PROVE  previous'[mapping'[i]] = session'.objects[i]
    OBVIOUS
  <2>1. (CHOOSE j \in inner : mapping'[j] = mapping'[i]) = i
    BY <1>7
  <2> QED
    BY <1>8, <2>1
<1>10. DOMAIN previous' = {mapping'[i] : i \in inner}
  BY <1>8
<1>11. Names(run, inner, known)
  <2> HIDE DEF run, detects, output
  <2> QED
    BY <1>6, <1>7, <1>9, <1>10 DEF Names
<1> QED
  BY <1>1, <1>11

LEMMA ReturnKeepsIds ==
  ASSUME IdInv, NEW request \in Requests, InferReturns(request)
  PROVE  IdInv'
<1> DEFINE run == RunsDetection(request)
<1>1. SessionOK(session')
  BY ReturnNames
<1>2. PICK inner \in SUBSET DOMAIN session'.objects :
        \E known : Names(run, inner, known)
  BY ReturnNames
<1>3. PICK known : Names(run, inner, known)
  BY <1>2
<1>4. retired' = IF run THEN 0..nextPublic' - 1 \ DOMAIN previous' ELSE retired
  BY DEF InferReturns
<1> HIDE DEF run
<1> USE <1>3 DEF Names
<1>5. DOMAIN mapping' = DOMAIN known \cup inner
  OBVIOUS
<1>6. DOMAIN previous' \subseteq IdsBelow(nextPublic')
  OBVIOUS
<1>7. retired' \subseteq IdsBelow(nextPublic')
  <2>1. IdsBelow(nextPublic) \subseteq IdsBelow(nextPublic')
    BY DEF IdInv, IdsBelow
  <2> QED
    BY <1>4, <2>1 DEF IdInv, IdsBelow
<1>8. PublicIdsDistinct'
  BY <1>5 DEF PublicIdsDistinct
<1>9. RetiredStayRetired'
  <2>1. CASE run
    BY <1>4, <1>5, <2>1 DEF RetiredStayRetired, Ids
  <2>2. CASE ~run
    <3>1. \A i \in DOMAIN mapping' : mapping'[i] \notin retired
      <4>1. \A i \in DOMAIN known : mapping'[i] \notin retired
        BY <2>2 DEF IdInv, RetiredStayRetired, Ids
      <4>2. \A i \in inner \ DOMAIN known : mapping'[i] \notin retired
        BY DEF IdInv, IdsBelow
      <4> QED
        BY <1>5, <4>1, <4>2
    <3> QED
      BY <1>4, <1>5, <2>2, <3>1 DEF RetiredStayRetired, Ids
  <2> QED
    BY <2>1, <2>2
<1> QED
  BY <1>1, <1>5, <1>6, <1>7, <1>8, <1>9 DEF IdInv

LEMMA IdStep == IdInv /\ [Next]_vars => IdInv'
<1> SUFFICES ASSUME IdInv, [Next]_vars PROVE IdInv'
  OBVIOUS
<1>1. CASE IntervalElapses
  BY <1>1 DEF IntervalElapses, idVars, IdInv, IdsBelow, PublicIdsDistinct,
     RetiredStayRetired, Ids
<1>2. CASE Reset
  <2> USE <1>2 DEF Reset, ClearedMapping
  <2>1. SessionOK(session')
    BY BoundAssumption DEF SessionOK, EmptySession
  <2>2. mapping' \in [DOMAIN mapping' -> IdsBelow(nextPublic')]
    OBVIOUS
  <2>3. PublicIdsDistinct' /\ RetiredStayRetired'
    BY DEF PublicIdsDistinct, RetiredStayRetired, Ids
  <2>4. DOMAIN previous' = {} /\ retired' \subseteq IdsBelow(nextPublic')
    BY DEF IdsBelow
  <2> QED
    BY <2>1, <2>2, <2>3, <2>4 DEF IdInv
<1>3. ASSUME NEW request \in Requests, InferReturns(request) PROVE IdInv'
  BY <1>3, ReturnKeepsIds
<1>4. ASSUME NEW request \in Requests, InferRaises(request) PROVE IdInv'
  <2>1. SessionOK(session')
    <3> DEFINE run == RunsDetection(request)
    <3>1. \/ session' = Base(run)
          \/ session' \in After(Base(run), Base(run).force \/ run)
      BY <1>4 DEF InferRaises
    <3>2. SessionOK(Base(run))
      BY BaseOK
    <3> HIDE DEF run
    <3> QED
      BY <3>1, <3>2, AfterOK
  <2>2. UNCHANGED idVars
    BY <1>4 DEF InferRaises
  <2> QED
    BY <2>1, <2>2 DEF idVars, IdInv, IdsBelow, PublicIdsDistinct,
       RetiredStayRetired, Ids
<1>5. CASE UNCHANGED vars
  BY <1>5 DEF vars, idVars, IdInv, IdsBelow, PublicIdsDistinct,
     RetiredStayRetired, Ids
<1> QED
  BY <1>1, <1>2, <1>3, <1>4, <1>5 DEF Next

LEMMA IdsAgree == Spec => []IdInv
  BY IdInit, IdStep, PTL DEF Spec

(* Two objects of a session never share a public id, whichever calls fail. *)
THEOREM ObjectsHaveTheirOwnIds == Spec => []PublicIdsDistinct
<1>1. IdInv => PublicIdsDistinct
  BY DEF IdInv
<1> QED
  BY <1>1, IdsAgree, PTL

(* An id given up by a clean keyframe or a reset is never used again.      *)
THEOREM RetiredIdsNeverReturn == Spec => []RetiredStayRetired
<1>1. IdInv => RetiredStayRetired
  BY DEF IdInv
<1> QED
  BY <1>1, IdsAgree, PTL

-----------------------------------------------------------------------------
(* A loss stays reported until a detection or a reset has answered it.     *)
LossPending == result.lost # {} => forceKeyframe

LEMMA LossStep == LossPending /\ [Next]_vars => LossPending'
<1> SUFFICES ASSUME LossPending, [Next]_vars PROVE LossPending'
  OBVIOUS
<1>1. CASE IntervalElapses
  BY <1>1 DEF IntervalElapses, idVars, LossPending
<1>2. CASE Reset
  BY <1>2 DEF Reset, LossPending
<1>3. ASSUME NEW request \in Requests, InferReturns(request) PROVE LossPending'
  <2>1. PICK detects : forceKeyframe' = ForcesNext(detects, result'.lost)
    BY <1>3 DEF InferReturns
  <2> QED
    BY <2>1 DEF ForcesNext, LossPending
<1>4. ASSUME NEW request \in Requests, InferRaises(request) PROVE LossPending'
  BY <1>4 DEF InferRaises, idVars, LossPending
<1>5. CASE UNCHANGED vars
  BY <1>5 DEF vars, idVars, LossPending
<1> QED
  BY <1>1, <1>2, <1>3, <1>4, <1>5 DEF Next

(* The next frame that returns after a loss has run detection.             *)
THEOREM LossIsAnswered == Spec => LossForcesDetection
<1>1. Init => LossPending
  BY DEF Init, LossPending
<1>2. ASSUME LossPending
      PROVE  result.lost # {} /\ ~result'.detected =>
               \A request \in Requests : ~InferReturns(request)
  <2> SUFFICES ASSUME result.lost # {},
                      NEW request \in Requests, InferReturns(request)
               PROVE  result'.detected
    OBVIOUS
  <2>1. RunsDetection(request)
    BY <1>2 DEF LossPending, RunsDetection
  <2>2. result'.detected = (Base(RunsDetection(request)).force
                              \/ RunsDetection(request))
    BY DEF InferReturns
  <2> QED
    BY <2>1, <2>2
<1> QED
  BY <1>1, <1>2, LossStep, PTL DEF Spec, LossForcesDetection

-----------------------------------------------------------------------------
(* A fresh session has no id map.                                          *)
FreshIsEmpty == era \in BOOLEAN /\ (innerFresh => DOMAIN mapping = {})

LEMMA FreshStep == FreshIsEmpty /\ [Next]_vars => FreshIsEmpty'
<1> SUFFICES ASSUME FreshIsEmpty, [Next]_vars PROVE FreshIsEmpty'
  OBVIOUS
<1> USE DEF FreshIsEmpty
<1>1. CASE IntervalElapses
  BY <1>1 DEF IntervalElapses, idVars
<1>2. CASE Reset
  BY <1>2 DEF Reset, ClearedMapping
<1>3. ASSUME NEW request \in Requests, InferReturns(request)
      PROVE  FreshIsEmpty'
  BY <1>3 DEF InferReturns, NotFresh
<1>4. ASSUME NEW request \in Requests, InferRaises(request)
      PROVE  FreshIsEmpty'
  BY <1>4 DEF InferRaises, NotFresh
<1>5. CASE UNCHANGED vars
  BY <1>5 DEF vars, idVars
<1> QED
  BY <1>1, <1>2, <1>3, <1>4, <1>5 DEF Next

(* Within a session an object keeps its id.                                *)
THEOREM SessionsKeepIds == Spec => SessionKeepsId
<1> DEFINE Kept == era' = era =>
             \A i \in DOMAIN mapping \cap DOMAIN session'.objects :
               i \in DOMAIN mapping' /\ mapping'[i] = mapping[i]
<1>1. Init => FreshIsEmpty
  <2> SUFFICES ASSUME Init PROVE FreshIsEmpty
    OBVIOUS
  <2>1. era \in BOOLEAN
    BY DEF Init
  <2>2. DOMAIN mapping = {}
    BY DEF Init
  <2> QED
    BY <2>1, <2>2 DEF FreshIsEmpty
<1>2. ASSUME FreshIsEmpty, [Next]_vars PROVE Kept
  <2>1. CASE IntervalElapses
    BY <2>1 DEF IntervalElapses, idVars
  <2>2. CASE Reset
    BY <1>2, <2>2 DEF Reset, FreshIsEmpty
  <2>3. ASSUME NEW request \in Requests, InferReturns(request), era' = era,
               NEW i \in DOMAIN mapping
        PROVE  i \in DOMAIN mapping' /\ mapping'[i] = mapping[i]
    <3> DEFINE run == RunsDetection(request)
    <3>1. ~run
      <4>1. era' = (era # NewSession(run))
        BY <2>3 DEF InferReturns
      <4>2. ~NewSession(run)
        BY <1>2, <2>3, <4>1 DEF FreshIsEmpty, NewSession
      <4> HIDE DEF run
      <4> QED
        BY <1>2, <2>3, <4>2 DEF FreshIsEmpty, NewSession
    <3>2. PICK inner, known : /\ mapping' = Extend(known, inner)
                              /\ known = mapping
      BY <2>3, <3>1 DEF InferReturns, Known
    <3> QED
      BY <2>3, <3>2 DEF Extend
  <2>4. ASSUME NEW request \in Requests, InferRaises(request) PROVE Kept
    BY <2>4 DEF InferRaises, idVars
  <2>5. CASE UNCHANGED vars
    BY <2>5 DEF vars, idVars
  <2> QED
    BY <1>2, <2>1, <2>2, <2>3, <2>4, <2>5 DEF Next
<1> QED
  BY <1>1, <1>2, FreshStep, PTL DEF Spec, SessionKeepsId

-----------------------------------------------------------------------------
(* The last output is what was last published, and no id was published     *)
(* before it was allocated.  Unless the map is stale or the next frame has *)
(* to replace it, it names each object of the session by an id that was    *)
(* last published with the object's prompt, if at all, and names no inner  *)
(* id that is still to be given.                                           *)
PromptInv ==
  /\ DOMAIN lastPrompt \subseteq IdsBelow(nextPublic)
  /\ \A p \in DOMAIN previous :
       p \in DOMAIN lastPrompt /\ previous[p] = lastPrompt[p]
  /\ ~stale /\ ~forceKeyframe =>
       \A i \in DOMAIN mapping :
         /\ i \in 0..session.next - 1
         /\ i \in DOMAIN session.objects /\ mapping[i] \in DOMAIN lastPrompt =>
              lastPrompt[mapping[i]] = session.objects[i]

(* A frame publishes an id with the prompt it was last published with.     *)
LEMMA ReturnSamePrompts ==
  ASSUME IdInv, PromptInv, ~stale, NEW request \in Requests,
         InferReturns(request)
  PROVE  SamePrompts
<1> DEFINE run == RunsDetection(request)
<1>1. PICK inner \in SUBSET DOMAIN session'.objects :
        \E known : Names(run, inner, known)
  BY ReturnNames
<1>2. PICK known : Names(run, inner, known)
  BY <1>1
<1>3. ASSUME ~run
      PROVE  /\ ~forceKeyframe
             /\ \A i \in DOMAIN session'.objects :
                  i < session.next => /\ i \in DOMAIN session.objects
                                      /\ session'.objects[i] = session.objects[i]
  <2>1. Base(run) = session /\ ~forceKeyframe
    BY <1>3 DEF Base, NewSession, RunsDetection
  <2>2. PICK detects : session' \in After(session, detects)
    BY <2>1 DEF InferReturns
  <2> QED
    BY <2>1, <2>2, AfterOK DEF IdInv
<1> HIDE DEF run
<1>4. ASSUME NEW i \in inner, mapping'[i] \in DOMAIN lastPrompt
      PROVE  lastPrompt[mapping'[i]] = session'.objects[i]
  <2>1. i \in DOMAIN known /\ mapping'[i] = known[i]
    BY <1>2, <1>4 DEF Names, PromptInv, IdsBelow, IdInv
  <2>2. CASE run
    BY <1>2, <2>1, <2>2 DEF Names, PromptInv
  <2>3. CASE ~run
    <3>1. i \in DOMAIN mapping /\ mapping'[i] = mapping[i]
      BY <1>2, <2>1, <2>3 DEF Names
    <3>2. i \in 0..session.next - 1
      BY <1>3, <2>3, <3>1 DEF PromptInv
    <3>3. i < session.next
      BY <3>2, BoundAssumption DEF IdInv, SessionOK
    <3>4. i \in DOMAIN session.objects /\ session'.objects[i] = session.objects[i]
      BY <1>3, <2>3, <3>3
    <3> QED
      BY <1>3, <1>4, <2>3, <3>1, <3>4 DEF PromptInv
  <2> QED
    BY <2>2, <2>3
<1>5. \A p \in DOMAIN previous' : \E i \in inner :
        p = mapping'[i] /\ previous'[p] = session'.objects[i]
  BY <1>2 DEF Names
<1> QED
  BY <1>4, <1>5 DEF SamePrompts

LEMMA ReturnKeepsPrompts ==
  ASSUME IdInv, PromptInv, NEW request \in Requests, InferReturns(request)
  PROVE  PromptInv'
<1> DEFINE run == RunsDetection(request)
<1>1. SessionOK(session')
  BY ReturnNames
<1>2. PICK inner \in SUBSET DOMAIN session'.objects :
        \E known : Names(run, inner, known)
  BY ReturnNames
<1>3. PICK known : Names(run, inner, known)
  BY <1>2
<1>4. lastPrompt' = [p \in DOMAIN lastPrompt \cup DOMAIN previous' |->
                       IF p \in DOMAIN previous' THEN previous'[p]
                       ELSE lastPrompt[p]]
  BY DEF InferReturns
<1>5. ~stale' /\ ~run => ~stale
  BY DEF InferReturns
<1>6. ASSUME ~run
      PROVE  /\ ~forceKeyframe
             /\ session'.next >= session.next
             /\ \A i \in DOMAIN session'.objects :
                  i < session.next => /\ i \in DOMAIN session.objects
                                      /\ session'.objects[i] = session.objects[i]
  <2>1. Base(run) = session /\ ~forceKeyframe
    BY <1>6 DEF Base, NewSession, RunsDetection
  <2>2. PICK detects : session' \in After(session, detects)
    BY <2>1 DEF InferReturns
  <2> QED
    BY <2>1, <2>2, AfterOK DEF IdInv
<1> HIDE DEF run
<1>7. DOMAIN lastPrompt' \subseteq IdsBelow(nextPublic')
  <2>1. IdsBelow(nextPublic) \subseteq IdsBelow(nextPublic')
    BY <1>3 DEF Names, IdInv, IdsBelow
  <2>2. DOMAIN previous' \subseteq IdsBelow(nextPublic')
    BY <1>3 DEF Names
  <2> QED
    BY <1>4, <2>1, <2>2 DEF PromptInv
<1>8. \A p \in DOMAIN previous' :
        p \in DOMAIN lastPrompt' /\ previous'[p] = lastPrompt'[p]
  BY <1>4
<1>9. \A i \in inner : lastPrompt'[mapping'[i]] = session'.objects[i]
  BY <1>3, <1>8 DEF Names
<1>10. \A i \in inner : i \in 0..session'.next - 1
  BY <1>1 DEF SessionOK
<1>11. ASSUME ~stale', NEW i \in DOMAIN mapping'
       PROVE  /\ i \in 0..session'.next - 1
              /\ i \in DOMAIN session'.objects
                   /\ mapping'[i] \in DOMAIN lastPrompt' =>
                   lastPrompt'[mapping'[i]] = session'.objects[i]
  <2>1. CASE i \in inner
    BY <1>9, <1>10, <2>1
  <2>2. CASE i \notin inner
    <3>1. i \in DOMAIN known /\ ~run
      BY <1>3, <1>11, <2>2 DEF Names
    <3>2. i \in DOMAIN mapping /\ mapping'[i] = mapping[i]
      BY <1>3, <3>1 DEF Names
    <3>3. /\ i \in 0..session.next - 1
          /\ i \in DOMAIN session.objects /\ mapping[i] \in DOMAIN lastPrompt =>
               lastPrompt[mapping[i]] = session.objects[i]
      BY <1>5, <1>6, <1>11, <3>1, <3>2 DEF PromptInv
    <3>4. i \in 0..session'.next - 1 /\ i < session.next
      BY <1>1, <1>6, <3>1, <3>3, BoundAssumption DEF IdInv, SessionOK
    <3>5. mapping'[i] \notin DOMAIN previous'
      BY <1>3, <2>2, <3>1 DEF Names
    <3>6. ASSUME i \in DOMAIN session'.objects,
                 mapping'[i] \in DOMAIN lastPrompt'
          PROVE  lastPrompt'[mapping'[i]] = session'.objects[i]
      <4>1. /\ mapping[i] \in DOMAIN lastPrompt
            /\ lastPrompt'[mapping'[i]] = lastPrompt[mapping[i]]
        BY <1>4, <3>2, <3>5, <3>6
      <4>2. /\ i \in DOMAIN session.objects
            /\ session'.objects[i] = session.objects[i]
        BY <1>6, <3>1, <3>4, <3>6
      <4> QED
        BY <3>3, <4>1, <4>2
    <3> QED
      BY <3>4, <3>6
  <2> QED
    BY <2>1, <2>2
<1> QED
  BY <1>7, <1>8, <1>11 DEF PromptInv

(* A frame that fails leaves the map alone, and the session too unless the *)
(* frame was forced or has made the map stale.                             *)
LEMMA RaiseKeepsPrompts ==
  ASSUME IdInv, PromptInv, NEW request \in Requests, InferRaises(request)
  PROVE  PromptInv'
<1> DEFINE run == RunsDetection(request)
<1>1. UNCHANGED <<forceKeyframe, idVars>>
  BY DEF InferRaises
<1>2. ASSUME ~stale', ~forceKeyframe'
      PROVE  \A i \in DOMAIN mapping' :
               /\ i \in 0..session'.next - 1
               /\ i \in DOMAIN session'.objects
                    /\ mapping'[i] \in DOMAIN lastPrompt' =>
                    lastPrompt'[mapping'[i]] = session'.objects[i]
  <2>1. ~stale /\ ~forceKeyframe /\ ~NewSession(run)
    <3>1. ~forceKeyframe
      BY <1>1, <1>2
    <3>2. stale' = (stale \/ (NewSession(run) /\ ~forceKeyframe))
      BY DEF InferRaises
    <3> HIDE DEF run
    <3> QED
      BY <1>2, <3>1, <3>2, Zenon
  <2>2. Base(run) = session
    BY <2>1 DEF Base
  <2>3. SessionOK(session) /\ SessionOK(session') /\ session'.next >= session.next
    <3>1. CASE session' = session
      BY <3>1, BoundAssumption DEF IdInv, SessionOK
    <3>2. ASSUME NEW detects, session' \in After(session, detects)
          PROVE  SessionOK(session') /\ session'.next >= session.next
      BY <3>2, AfterOK DEF IdInv
    <3> QED
      BY <2>2, <3>1, <3>2 DEF InferRaises, IdInv
  <2>4. \A i \in DOMAIN session'.objects :
          i < session.next => /\ i \in DOMAIN session.objects
                              /\ session'.objects[i] = session.objects[i]
    <3>1. CASE session' = session
      BY <3>1
    <3>2. ASSUME NEW detects, session' \in After(session, detects)
          PROVE  \A i \in DOMAIN session'.objects :
                   i < session.next =>
                     /\ i \in DOMAIN session.objects
                     /\ session'.objects[i] = session.objects[i]
      BY <3>2, AfterOK DEF IdInv
    <3> QED
      BY <2>2, <3>1, <3>2 DEF InferRaises
  <2>5. ASSUME NEW i \in DOMAIN mapping
        PROVE  i \in 0..session'.next - 1 /\ i < session.next
    BY <2>1, <2>3, <2>5, BoundAssumption DEF PromptInv, SessionOK
  <2> HIDE DEF run
  <2> QED
    BY <1>1, <2>1, <2>4, <2>5 DEF PromptInv, idVars
<1>3. nextPublic' = nextPublic /\ previous' = previous /\ lastPrompt' = lastPrompt
  BY <1>1 DEF idVars
<1> QED
  BY <1>2, <1>3 DEF PromptInv, IdsBelow

LEMMA PromptStep == IdInv /\ PromptInv /\ [Next]_vars => PromptInv'
<1> SUFFICES ASSUME IdInv, PromptInv, [Next]_vars PROVE PromptInv'
  OBVIOUS
<1>1. CASE IntervalElapses
  BY <1>1 DEF IntervalElapses, idVars, PromptInv, IdsBelow
<1>2. CASE Reset
  BY <1>2 DEF Reset, ClearedMapping, PromptInv, IdsBelow
<1>3. ASSUME NEW request \in Requests, InferReturns(request) PROVE PromptInv'
  BY <1>3, ReturnKeepsPrompts
<1>4. ASSUME NEW request \in Requests, InferRaises(request) PROVE PromptInv'
  BY <1>4, RaiseKeepsPrompts
<1>5. CASE UNCHANGED vars
  BY <1>5 DEF vars, idVars, PromptInv, IdsBelow
<1> QED
  BY <1>1, <1>2, <1>3, <1>4, <1>5 DEF Next

(* A public id keeps its prompt while the id map is not stale.             *)
THEOREM IdsKeepPrompts == Spec => IdKeepsPrompt
<1>1. Init => PromptInv
  BY DEF Init, PromptInv, IdsBelow
<1>2. ASSUME IdInv, PromptInv, [Next]_vars PROVE ~stale => SamePrompts
  <2> SUFFICES ASSUME ~stale PROVE SamePrompts
    OBVIOUS
  <2>1. CASE UNCHANGED previous
    BY <1>2, <2>1 DEF PromptInv, SamePrompts
  <2>2. CASE Reset
    BY <2>2 DEF Reset, SamePrompts
  <2>3. ASSUME NEW request \in Requests, InferReturns(request) PROVE SamePrompts
    BY <1>2, <2>3, ReturnSamePrompts
  <2>4. IntervalElapses => UNCHANGED previous
    BY DEF IntervalElapses, idVars
  <2>5. \A request \in Requests : InferRaises(request) => UNCHANGED previous
    BY DEF InferRaises, idVars
  <2>6. UNCHANGED vars => UNCHANGED previous
    BY DEF vars, idVars
  <2> QED
    BY <1>2, <2>1, <2>2, <2>3, <2>4, <2>5, <2>6 DEF Next
<1> QED
  BY <1>1, <1>2, IdsAgree, PromptStep, PTL DEF Spec, IdKeepsPrompt
-----------------------------------------------------------------------------
LEMMA PartialIs ==
  ASSUME NEW S, NEW T, NEW f
  PROVE  f \in Partial(S, T) <=> DOMAIN f \subseteq S /\ f \in [DOMAIN f -> T]
<1>1. ASSUME f \in Partial(S, T)
      PROVE  DOMAIN f \subseteq S /\ f \in [DOMAIN f -> T]
  <2>1. PICK D \in SUBSET S : f \in [D -> T]
    BY <1>1 DEF Partial
  <2> QED
    BY <2>1
<1>2. ASSUME DOMAIN f \subseteq S, f \in [DOMAIN f -> T]
      PROVE  f \in Partial(S, T)
  BY <1>2 DEF Partial
<1> QED
  BY <1>1, <1>2

LEMMA EmptyPartial == ASSUME NEW S, NEW T PROVE <<>> \in Partial(S, T)
<1>1. DOMAIN <<>> = {} /\ <<>> \in [{} -> T]
  OBVIOUS
<1> QED
  BY <1>1 DEF Partial

Sessions == [objects : Partial(InnerIds, Prompts), next : 0..MaxInner,
             force : BOOLEAN]

LEMMA EmptyTyped == EmptySession \in Sessions
<1>1. <<>> \in Partial(InnerIds, Prompts)
  BY EmptyPartial
<1>2. 0 \in 0..MaxInner
  BY BoundAssumption
<1> QED
  BY <1>1, <1>2 DEF EmptySession, Sessions

(* A frame never detects past the bound on inner ids, and gives its new    *)
(* objects prompts of the session.                                         *)
LEMMA AfterTyped ==
  ASSUME NEW base \in Sessions, NEW detects, NEW s \in After(base, detects)
  PROVE  s \in Sessions
<1>1. PICK n \in IF detects THEN base.next..MaxInner ELSE {base.next} :
        s \in {[objects |-> o, next |-> n, force |-> FALSE] :
                 o \in {o \in UNION {[ids -> Prompts] :
                          ids \in SUBSET (DOMAIN base.objects
                                            \cup (base.next..n - 1))} :
                          \A i \in DOMAIN base.objects \cap DOMAIN o :
                             o[i] = base.objects[i]}}
  BY DEF After
<1>2. base.next \in 0..MaxInner /\ n \in 0..MaxInner
  BY <1>1, BoundAssumption DEF Sessions
<1>3. DOMAIN base.objects \subseteq InnerIds
  BY PartialIs DEF Sessions
<1>4. base.next..n - 1 \subseteq InnerIds
  BY <1>2, BoundAssumption DEF InnerIds
<1>5. PICK o : /\ s = [objects |-> o, next |-> n, force |-> FALSE]
               /\ \E ids \in SUBSET (DOMAIN base.objects
                                        \cup (base.next..n - 1)) :
                    o \in [ids -> Prompts]
  BY <1>1
<1>6. DOMAIN o \subseteq InnerIds /\ o \in [DOMAIN o -> Prompts]
  BY <1>3, <1>4, <1>5
<1>7. o \in Partial(InnerIds, Prompts)
  BY <1>6, PartialIs
<1> QED
  BY <1>2, <1>5, <1>7 DEF Sessions

(* The type of the session and its flags.                                  *)
SessionTyped ==
  /\ session \in Sessions
  /\ era \in BOOLEAN /\ innerFresh \in BOOLEAN
  /\ forceKeyframe \in BOOLEAN /\ due \in BOOLEAN
  /\ stale \in BOOLEAN

(* The type of the public ids.                                             *)
IdsTyped ==
  /\ mapping \in Partial(InnerIds, PublicIds)
  /\ nextPublic \in 0..MaxPublic
  /\ previous \in Partial(PublicIds, Prompts)
  /\ result \in [detected : BOOLEAN, lost : SUBSET PublicIds]
  /\ lastPrompt \in Partial(PublicIds, Prompts)
  /\ retired \subseteq PublicIds

LEMMA BaseTyped == ASSUME SessionTyped, NEW run PROVE Base(run) \in Sessions
  BY EmptyTyped DEF SessionTyped, Base

LEMMA RunIsBoolean ==
  ASSUME SessionTyped, NEW request \in Requests
  PROVE  /\ RunsDetection(request) \in BOOLEAN
         /\ NewSession(RunsDetection(request)) \in BOOLEAN
         /\ (Base(RunsDetection(request)).force \/ RunsDetection(request))
              \in BOOLEAN
<1>1. RunsDetection(request) \in BOOLEAN
  BY Zenon DEF RunsDetection
<1>2. NewSession(RunsDetection(request)) \in BOOLEAN
  BY Zenon DEF NewSession
<1> QED
  BY <1>1, <1>2, Zenon

LEMMA ReturnSessionTyped ==
  ASSUME SessionTyped, NEW request \in Requests, InferReturns(request)
  PROVE  SessionTyped'
<1> DEFINE run == RunsDetection(request)
           detects == Base(run).force \/ run
<1>1. /\ session' \in After(Base(run), detects)
      /\ era' = (era # NewSession(run))
      /\ forceKeyframe' = ForcesNext(detects, result'.lost)
      /\ due' = (due /\ ~detects)
      /\ innerFresh' = NotFresh
      /\ stale' = (stale /\ ~run)
  BY DEF InferReturns
<1>2. Base(run) \in Sessions
  BY BaseTyped
<1> HIDE DEF run, detects
<1>3. session' \in Sessions
  BY <1>1, <1>2, AfterTyped
<1>4. era' \in BOOLEAN
  BY <1>1, Zenon
<1>5. forceKeyframe' \in BOOLEAN
  BY <1>1, Zenon DEF ForcesNext
<1>6. due' \in BOOLEAN
  BY <1>1, Zenon
<1>7. innerFresh' \in BOOLEAN
  BY <1>1 DEF NotFresh
<1>8. stale' \in BOOLEAN
  BY <1>1, Zenon
<1> QED
  BY <1>3, <1>4, <1>5, <1>6, <1>7, <1>8 DEF SessionTyped

LEMMA RaiseSessionTyped ==
  ASSUME SessionTyped, NEW request \in Requests, InferRaises(request)
  PROVE  SessionTyped'
<1> DEFINE run == RunsDetection(request)
           detects == Base(run).force \/ run
<1>1. /\ session' = Base(run) \/ session' \in After(Base(run), detects)
      /\ era' = (era # NewSession(run))
      /\ innerFresh' = NotFresh
      /\ stale' = (stale \/ (NewSession(run) /\ ~forceKeyframe))
      /\ UNCHANGED <<forceKeyframe, due>>
  BY DEF InferRaises
<1>2. Base(run) \in Sessions
  BY BaseTyped
<1> HIDE DEF run, detects
<1>3. session' \in Sessions
  BY <1>1, <1>2, AfterTyped
<1>4. era' \in BOOLEAN
  BY <1>1, Zenon
<1>5. innerFresh' \in BOOLEAN
  BY <1>1 DEF NotFresh
<1>6. stale' \in BOOLEAN
  BY <1>1, Zenon
<1> QED
  BY <1>1, <1>3, <1>4, <1>5, <1>6 DEF SessionTyped

LEMMA ReturnIdsTyped ==
  ASSUME IdInv, IdInv', SessionTyped, SessionTyped', IdsTyped,
         NEW request \in Requests, InferReturns(request)
  PROVE  IdsTyped'
<1> DEFINE run == RunsDetection(request)
           detects == Base(run).force \/ run
<1>1. PICK inner \in SUBSET DOMAIN session'.objects :
        \E known : Names(run, inner, known)
  BY ReturnNames
<1>2. PICK known : Names(run, inner, known)
  BY <1>1
<1>3. /\ nextPublic' <= MaxPublic
      /\ result' = [detected |-> detects,
                    lost |-> IF detects THEN {}
                             ELSE DOMAIN previous \ DOMAIN previous']
      /\ lastPrompt' = [p \in DOMAIN lastPrompt \cup DOMAIN previous' |->
                          IF p \in DOMAIN previous' THEN previous'[p]
                          ELSE lastPrompt[p]]
  BY DEF InferReturns
<1>b. detects \in BOOLEAN
  BY Zenon
<1> HIDE DEF run, detects
<1>4. /\ DOMAIN mapping \subseteq InnerIds
      /\ DOMAIN previous \subseteq PublicIds
      /\ DOMAIN lastPrompt \subseteq PublicIds
      /\ lastPrompt \in [DOMAIN lastPrompt -> Prompts]
  BY PartialIs DEF IdsTyped
<1>5. /\ DOMAIN session'.objects \subseteq InnerIds
      /\ session'.objects \in [DOMAIN session'.objects -> Prompts]
  BY PartialIs DEF SessionTyped, Sessions
<1>6. nextPublic' \in 0..MaxPublic
  BY <1>3, BoundAssumption DEF IdInv
<1>7. IdsBelow(nextPublic') \subseteq PublicIds
  <2>1. \A n \in 0..MaxPublic : IdsBelow(n) \subseteq PublicIds
    BY BoundAssumption DEF IdsBelow, PublicIds
  <2> QED
    BY <1>6, <2>1
<1>8. mapping' \in Partial(InnerIds, PublicIds)
  <2>1. DOMAIN mapping' = DOMAIN known \cup inner
    BY <1>2 DEF Names
  <2>2. DOMAIN known \subseteq InnerIds
    BY <1>2, <1>4, <1>5 DEF Names
  <2>3. mapping' \in [DOMAIN mapping' -> PublicIds]
    BY <1>7 DEF IdInv
  <2> QED
    BY <1>5, <2>1, <2>2, <2>3, PartialIs
<1>9. /\ DOMAIN previous' \subseteq PublicIds
      /\ \A p \in DOMAIN previous' : previous'[p] \in Prompts
  BY <1>2, <1>5, <1>7 DEF Names, IdInv
<1>10. previous' \in Partial(PublicIds, Prompts)
  <2>1. previous' = [p \in DOMAIN previous' |-> previous'[p]]
    BY DEF InferReturns, Published
  <2>2. previous' \in [DOMAIN previous' -> Prompts]
    BY <1>9, <2>1
  <2> QED
    BY <1>9, <2>2, PartialIs
<1>11. result' \in [detected : BOOLEAN, lost : SUBSET PublicIds]
  <2>1. (IF detects THEN {} ELSE DOMAIN previous \ DOMAIN previous')
           \in SUBSET PublicIds
    BY <1>4
  <2> QED
    BY <1>3, <1>b, <2>1, Zenon
<1>12. lastPrompt' \in Partial(PublicIds, Prompts)
  <2>1. DOMAIN lastPrompt' \subseteq PublicIds
    BY <1>3, <1>4, <1>9
  <2>2. lastPrompt' \in [DOMAIN lastPrompt' -> Prompts]
    BY <1>3, <1>4, <1>9
  <2> QED
    BY <2>1, <2>2, PartialIs
<1>13. retired' \subseteq PublicIds
  BY <1>7 DEF IdInv
<1> QED
  BY <1>6, <1>8, <1>10, <1>11, <1>12, <1>13 DEF IdsTyped

LEMMA ResetTyped ==
  ASSUME IdInv, SessionTyped, IdsTyped, Reset
  PROVE  SessionTyped' /\ IdsTyped'
<1> USE DEF Reset
<1>1. era' \in BOOLEAN
  BY Zenon
<1>2. SessionTyped'
  BY <1>1, EmptyTyped DEF SessionTyped
<1>3. <<>> \in Partial(InnerIds, PublicIds) /\ <<>> \in Partial(PublicIds, Prompts)
  BY EmptyPartial
<1>4. retired' \subseteq PublicIds
  BY BoundAssumption DEF IdsTyped, PublicIds
<1>5. IdsTyped'
  BY <1>3, <1>4 DEF IdsTyped, ClearedMapping
<1> QED
  BY <1>2, <1>5

TypesAgree == SessionTyped /\ IdsTyped

LEMMA TypeStep ==
  IdInv /\ IdInv' /\ TypesAgree /\ [Next]_vars => TypesAgree'
<1> SUFFICES ASSUME IdInv, IdInv', SessionTyped, IdsTyped, [Next]_vars
             PROVE  SessionTyped' /\ IdsTyped'
  BY DEF TypesAgree
<1>1. CASE IntervalElapses
  BY <1>1 DEF IntervalElapses, idVars, SessionTyped, IdsTyped
<1>2. CASE Reset
  BY <1>2, ResetTyped
<1>3. ASSUME NEW request \in Requests, InferReturns(request)
      PROVE  SessionTyped' /\ IdsTyped'
  BY <1>3, ReturnSessionTyped, ReturnIdsTyped
<1>4. ASSUME NEW request \in Requests, InferRaises(request)
      PROVE  SessionTyped' /\ IdsTyped'
  <2>1. SessionTyped'
    BY <1>4, RaiseSessionTyped
  <2>2. IdsTyped'
    BY <1>4 DEF InferRaises, idVars, IdsTyped
  <2> QED
    BY <2>1, <2>2
<1>5. CASE UNCHANGED vars
  BY <1>5 DEF vars, idVars, SessionTyped, IdsTyped
<1> QED
  BY <1>1, <1>2, <1>3, <1>4, <1>5 DEF Next

(* Every variable keeps its type: no id past the bounds, in the session's  *)
(* tables or in an output.                                                 *)
THEOREM HybridTypeCorrect == Spec => []TypeOK
<1>1. Init => TypesAgree
  <2> SUFFICES ASSUME Init PROVE TypesAgree
    OBVIOUS
  <2>1. SessionTyped
    BY EmptyTyped DEF Init, SessionTyped
  <2>2. /\ <<>> \in Partial(InnerIds, PublicIds)
        /\ <<>> \in Partial(PublicIds, Prompts)
    BY EmptyPartial
  <2>3. IdsTyped
    BY <2>2, BoundAssumption DEF Init, IdsTyped
  <2> QED
    BY <2>1, <2>3 DEF TypesAgree
<1>2. TypesAgree => TypeOK
  BY DEF TypesAgree, SessionTyped, IdsTyped, Sessions, TypeOK
<1> QED
  BY <1>1, <1>2, TypeStep, IdsAgree, PTL DEF Spec
=============================================================================
