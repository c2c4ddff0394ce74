------------------------- MODULE LiveSessionProofs -------------------------
(***************************************************************************)
(* Proofs about the live session, for any texts, intervals and number of   *)
(* prompts: exemplar boxes belong to the prompt that has their id and are  *)
(* only given to the detector for it, and a bootstrap is not begun again   *)
(* before one of its windows has produced an exemplar.                     *)
(***************************************************************************)
EXTENDS LiveSession, SequenceTheorems, TLAPS

PlaceTyped ==
  /\ prompts \in Seq(Texts) /\ Len(prompts) \in 1..MaxPrompts
  /\ at \in 1..MaxPrompts + 1 /\ counter \in Nat
  /\ capture \in Seq(Ids) /\ Len(capture) \in 0..MaxPrompts

FlagsTyped ==
  /\ force \in BOOLEAN /\ pending \in BOOLEAN /\ setbacks \in BOOLEAN
  /\ phase \in {"idle", "detect", "output", "track"}
  /\ timer \in {"off", "running", "elapsed"}

WindowsTyped ==
  /\ remaining \in [Ids -> 0..BootstrapFrames] /\ pool \in [Ids -> SUBSET Texts]
  /\ exemplar \in [Ids -> SUBSET Texts]
  /\ samples \in [Ids -> 0..GraceFrames]

CallsTyped == calls \in 0..Period - 1

(* The detector call counter has the prompt the model is at, and a capture *)
(* with an output for each prompt has them in the order of the ids.        *)
CaptureAgrees ==
  phase = "detect" =>
    /\ counter = at - 1 /\ at <= Len(prompts) + 1
    /\ Len(capture) <= at - 1
    /\ Len(capture) = at - 1 => \A i \in 1..Len(capture) : capture[i] = i

(* What was gathered under an id was gathered for the prompt that has it,  *)
(* and a prompt with an exemplar has no open window.                       *)
BoxesAgree ==
  \A p \in Ids :
    /\ remaining[p] > 0 \/ pool[p] # {} \/ exemplar[p] # {} => Ready(p)
    /\ pool[p] \subseteq {prompts[p]}
    /\ exemplar[p] # {} => exemplar[p] = {prompts[p]} /\ remaining[p] = 0

SessionInv ==
  /\ PlaceTyped /\ FlagsTyped /\ WindowsTyped /\ CallsTyped
  /\ CaptureAgrees /\ BoxesAgree /\ injected = FALSE

USE BoundAssumption DEF Ids

LEMMA NumbersFact ==
  /\ RedetectEvery \in Nat \ {0} /\ BootstrapFrames \in Nat \ {0}
  /\ CheckInterval \in Nat \ {0} /\ GraceFrames \in Nat \ {0}
BY ScheduleAssumption

USE NumbersFact

LEMMA PeriodFact == Period \in Nat \ {0} /\ (\A n \in Nat : n % Period \in 0..Period - 1)
<1>1. \A m, n \in Nat \ {0} : m * n \in Nat \ {0}
  OBVIOUS
<1>2. Period \in Nat \ {0}
  BY <1>1 DEF Period
<1>3. \A m \in Nat \ {0}, n \in Nat : n % m \in 0..m - 1
  OBVIOUS
<1> QED BY <1>2, <1>3

LEMMA OneText ==
  ASSUME NEW t \in Texts
  PROVE  <<t>> \in Seq(Texts) /\ Len(<<t>>) = 1 /\ <<t>>[1] = t
OBVIOUS

LEMMA SessionInit == Init => SessionInv
<1> SUFFICES ASSUME Init PROVE SessionInv
  OBVIOUS
<1>1. PICK t \in Texts : prompts = <<t>>
  BY DEF Init
<1>2. PlaceTyped
  BY <1>1, OneText DEF Init, PlaceTyped
<1>3. FlagsTyped /\ CallsTyped
  <2>1. FlagsTyped
    BY DEF Init, FlagsTyped
  <2>2. 0 \in 0..Period - 1
    BY PeriodFact
  <2> QED BY <2>1, <2>2 DEF Init, CallsTyped
<1>4. WindowsTyped
  BY DEF Init, WindowsTyped, All
<1>5. CaptureAgrees /\ injected = FALSE
  BY DEF Init, CaptureAgrees
<1>6. BoxesAgree
  BY <1>1, OneText DEF Init, BoxesAgree, All, Ready
<1> QED BY <1>2, <1>3, <1>4, <1>5, <1>6 DEF SessionInv

(* The methods that are called between frames.                             *)
LEMMA SetPromptStep ==
  ASSUME SessionInv, NEW text \in Texts, SetPrompt(text)
  PROVE  SessionInv'
<1> USE DEF SetPrompt, scheduleVars, detectVars, historyVars
<1>0. prompts \in Seq(Texts) /\ Len(prompts) \in 1..MaxPrompts - 1
  BY DEF SessionInv, PlaceTyped
<1>1. /\ prompts' \in Seq(Texts) /\ Len(prompts') = Len(prompts) + 1
      /\ \A i \in 1..Len(prompts) : prompts'[i] = prompts[i]
  BY <1>0, AppendProperties
<1>2. PlaceTyped'
  BY <1>0, <1>1 DEF SessionInv, PlaceTyped
<1>3. FlagsTyped' /\ CallsTyped'
  BY DEF SessionInv, FlagsTyped, CallsTyped
<1>4. WindowsTyped'
  BY <1>0 DEF SessionInv, WindowsTyped
<1>5. CaptureAgrees' /\ injected' = FALSE
  BY DEF SessionInv, CaptureAgrees
<1>6. BoxesAgree'
  <2> SUFFICES ASSUME NEW p \in Ids
               PROVE  /\ remaining'[p] > 0 \/ pool[p] # {} \/ exemplar[p] # {} => Ready(p)'
                      /\ pool[p] \subseteq {prompts'[p]}
                      /\ exemplar[p] # {} => exemplar[p] = {prompts'[p]} /\ remaining'[p] = 0
    BY DEF BoxesAgree
  <2>1. /\ remaining[p] > 0 \/ pool[p] # {} \/ exemplar[p] # {} => Ready(p)
        /\ pool[p] \subseteq {prompts[p]}
        /\ exemplar[p] # {} => exemplar[p] = {prompts[p]} /\ remaining[p] = 0
    BY DEF SessionInv, BoxesAgree
  <2>2. CASE p \in 1..Len(prompts)
    <3>1. remaining'[p] = remaining[p] /\ prompts'[p] = prompts[p] /\ Ready(p)'
      BY <1>0, <1>1, <2>2 DEF SessionInv, WindowsTyped, Ready
    <3> QED BY <2>1, <3>1
  <2>3. CASE p \notin 1..Len(prompts)
    <3>1. pool[p] = {} /\ exemplar[p] = {} /\ ~(remaining[p] > 0)
      BY <2>1, <2>3 DEF Ready
    <3>2. p = Len(prompts) + 1 => Ready(p)'
      BY <1>0, <1>1 DEF Ready
    <3>3. p # Len(prompts) + 1 => remaining'[p] = remaining[p]
      BY DEF SessionInv, WindowsTyped
    <3> QED BY <3>1, <3>2, <3>3
  <2> QED BY <2>2, <2>3
<1> QED BY <1>2, <1>3, <1>4, <1>5, <1>6 DEF SessionInv

LEMMA ResetPromptsStep ==
  ASSUME SessionInv, NEW text \in Texts, ResetPrompts(<<text>>)
  PROVE  SessionInv'
<1> USE DEF ResetPrompts, ResetCounters, NoExemplars, All
<1>1. PlaceTyped'
  BY OneText DEF SessionInv, PlaceTyped
<1>2. FlagsTyped' /\ CallsTyped'
  <2>1. FlagsTyped'
    BY DEF SessionInv, FlagsTyped
  <2>2. 0 \in 0..Period - 1
    BY PeriodFact
  <2> QED BY <2>1, <2>2 DEF SessionInv, CallsTyped
<1>3. WindowsTyped'
  BY DEF SessionInv, WindowsTyped
<1>4. CaptureAgrees' /\ injected' = FALSE
  BY DEF SessionInv, CaptureAgrees
<1>5. BoxesAgree'
  BY OneText DEF BoxesAgree, Ready
<1> QED BY <1>1, <1>2, <1>3, <1>4, <1>5 DEF SessionInv

LEMMA ReplaceStep ==
  ASSUME SessionInv, ResetTracking \/ ReplaceSession
  PROVE  SessionInv'
<1> USE DEF ResetTracking, ReplaceSession, ResetCounters, KeptCalls, bootstrapVars, historyVars
<1>1. PlaceTyped' /\ WindowsTyped'
  BY DEF SessionInv, PlaceTyped, WindowsTyped
<1>2. FlagsTyped' /\ CallsTyped'
  <2>1. FlagsTyped'
    BY DEF SessionInv, FlagsTyped
  <2>2. 0 \in 0..Period - 1
    BY PeriodFact
  <2> QED BY <2>1, <2>2 DEF SessionInv, CallsTyped
<1>3. CaptureAgrees' /\ injected' = FALSE
  BY DEF SessionInv, CaptureAgrees
<1>4. BoxesAgree'
  BY DEF SessionInv, BoxesAgree, Ready
<1> QED BY <1>1, <1>2, <1>3, <1>4 DEF SessionInv

(* The steps of a frame.                                                   *)
LEMMA BeginStep ==
  ASSUME SessionInv, NEW request \in Requests, BeginInfer(request)
  PROVE  SessionInv'
<1> USE DEF BeginInfer, CounterRestarted, historyVars
<1>1. PlaceTyped'
  <2>1. <<>> \in Seq(Ids) /\ Len(<<>>) = 0
    OBVIOUS
  <2> QED BY <2>1 DEF SessionInv, PlaceTyped
<1>2. CallsTyped'
  BY PeriodFact DEF SessionInv, CallsTyped
<1>3. CaptureAgrees' /\ injected' = FALSE
  BY DEF SessionInv, PlaceTyped, CaptureAgrees
<1>4. CASE pending
  <2> USE <1>4 DEF Rebootstrap, All
  <2>1. FlagsTyped'
    BY DEF SessionInv, FlagsTyped
  <2>2. WindowsTyped'
    BY DEF WindowsTyped
  <2>3. BoxesAgree'
    BY DEF BoxesAgree, Ready
  <2> QED BY <1>1, <1>2, <1>3, <2>1, <2>2, <2>3 DEF SessionInv
<1>5. CASE ~pending
  <2> USE <1>5 DEF bootstrapVars
  <2>1. FlagsTyped'
    BY DEF SessionInv, FlagsTyped
  <2>2. WindowsTyped'
    BY DEF SessionInv, WindowsTyped
  <2>3. BoxesAgree'
    BY DEF SessionInv, BoxesAgree, Ready
  <2> QED BY <1>1, <1>2, <1>3, <2>1, <2>2, <2>3 DEF SessionInv
<1> QED BY <1>4, <1>5

LEMMA DetectStep ==
  ASSUME SessionInv, DetectPrompt
  PROVE  SessionInv'
<1> USE DEF DetectPrompt, scheduleVars, bootstrapVars
<1>1. /\ at \in 1..Len(prompts) /\ at \in Ids /\ counter + 1 = at
      /\ Len(prompts) \in 1..MaxPrompts
      /\ counter' = at /\ at' = at + 1
  BY DEF SessionInv, PlaceTyped, CaptureAgrees, Ready
<1>2. /\ capture \in Seq(Ids) /\ Len(capture) \in 0..at - 1
      /\ Len(capture) = at - 1 => \A i \in 1..Len(capture) : capture[i] = i
  BY <1>1 DEF SessionInv, PlaceTyped, CaptureAgrees
<1>3. \/ UNCHANGED capture
      \/ /\ capture' \in Seq(Ids) /\ Len(capture') = Len(capture) + 1
         /\ \A i \in 1..Len(capture) : capture'[i] = capture[i]
         /\ capture'[Len(capture) + 1] = at
  <2>1. CASE capture' = Append(capture, at)
    <3>1. capture \in Seq(Ids) /\ at \in Ids
      BY <1>1, <1>2
    <3>2. /\ Append(capture, at) \in Seq(Ids) /\ Len(Append(capture, at)) = Len(capture) + 1
          /\ \A i \in 1..Len(capture) : Append(capture, at)[i] = capture[i]
          /\ Append(capture, at)[Len(capture) + 1] = at
      BY ONLY <3>1, AppendProperties
    <3> QED BY <2>1, <3>2
  <2> QED BY <2>1
<1>4. injected' = FALSE
  BY <1>1 DEF SessionInv
<1>5. PlaceTyped'
  BY <1>1, <1>2, <1>3 DEF SessionInv, PlaceTyped
<1>6. CaptureAgrees'
  <2>1. CASE UNCHANGED capture
    BY <1>1, <1>2, <2>1 DEF CaptureAgrees
  <2>2. CASE /\ capture' \in Seq(Ids) /\ Len(capture') = Len(capture) + 1
             /\ \A i \in 1..Len(capture) : capture'[i] = capture[i]
             /\ capture'[Len(capture) + 1] = at
    <3>1. ASSUME Len(capture') = at' - 1, NEW i \in 1..Len(capture') PROVE capture'[i] = i
      <4>1. CASE i = at
        BY <1>1, <1>2, <2>2, <3>1, <4>1
      <4>2. CASE i # at
        BY <1>1, <1>2, <2>2, <3>1, <4>2
      <4> QED BY <4>1, <4>2
    <3> QED BY <1>1, <1>2, <2>2, <3>1 DEF CaptureAgrees
  <2> QED BY <1>3, <2>1, <2>2
<1>7. BoxesAgree'
  BY DEF SessionInv, BoxesAgree, Ready
<1>8. FlagsTyped' /\ WindowsTyped' /\ CallsTyped'
  BY DEF SessionInv, FlagsTyped, WindowsTyped, CallsTyped
<1> QED BY <1>4, <1>5, <1>6, <1>7, <1>8 DEF SessionInv

(* What one frame's outputs do to the window of a prompt.                  *)
LEMMA ProcessStep ==
  ASSUME SessionInv, phase = "detect", at > Len(prompts), CaptureComplete,
         NEW boxes \in [Ids -> BOOLEAN], ProcessCapture(boxes), UNCHANGED prompts
  PROVE  /\ BoxesAgree' /\ WindowsTyped'
         /\ timer' \in {"off", "running", "elapsed"}
         /\ timer' # timer => \E p \in Ids : exemplar'[p] # {}
         /\ \A p \in Ids : exemplar[p] # {} => exemplar'[p] # {}
<1> DEFINE open == {p \in 1..Len(capture) : WindowOpen(p)}
           filled == [p \in Ids |-> IF p \in open /\ boxes[p]
                              THEN pool[p] \cup {prompts[capture[p]]} ELSE pool[p]]
           done == {p \in open : remaining[p] = 1 /\ filled[p] # {}}
<1>1. /\ remaining' = [p \in Ids |-> IF p \in open THEN remaining[p] - 1
                                 ELSE remaining[p]]
      /\ pool' = [p \in Ids |-> IF p \in done THEN {} ELSE filled[p]]
      /\ exemplar' = [p \in Ids |-> IF p \in done THEN filled[p] ELSE exemplar[p]]
      /\ samples' = [p \in Ids |-> IF p \in done THEN 0 ELSE samples[p]]
      /\ timer' = IF done # {} THEN "running" ELSE timer
  BY DEF ProcessCapture
<1>2. /\ Len(capture) = Len(prompts) /\ Len(prompts) \in 1..MaxPrompts
      /\ \A p \in 1..Len(capture) : capture[p] = p
  BY DEF SessionInv, PlaceTyped, FlagsTyped, WindowsTyped, CaptureAgrees, CaptureComplete
<1>3. \A p \in 1..Len(prompts) : prompts[p] \in Texts
  BY ElementOfSeq DEF SessionInv, PlaceTyped, FlagsTyped, WindowsTyped
<1>4. \A p \in open : p \in 1..Len(prompts) /\ p \in Ids /\ remaining[p] > 0
  BY <1>2 DEF WindowOpen
<1>5. \A p \in Ids : /\ filled[p] \subseteq {prompts[p]} /\ filled[p] \subseteq Texts
                     /\ filled[p] # pool[p] => p \in open
  <2> SUFFICES ASSUME NEW p \in Ids
               PROVE  /\ filled[p] \subseteq {prompts[p]} /\ filled[p] \subseteq Texts
                      /\ filled[p] # pool[p] => p \in open
    OBVIOUS
  <2>1. pool[p] \subseteq {prompts[p]} /\ pool[p] \subseteq Texts
    BY DEF SessionInv, BoxesAgree, WindowsTyped
  <2>2. CASE p \in open
    <3>1. capture[p] = p /\ prompts[p] \in Texts
      BY <1>2, <1>3, <1>4, <2>2
    <3>2. filled[p] = pool[p] \/ filled[p] = pool[p] \cup {prompts[p]}
      BY <2>2, <3>1
    <3> QED BY <2>1, <2>2, <3>1, <3>2
  <2>3. CASE p \notin open
    <3>1. filled[p] = pool[p]
      BY <2>3
    <3> QED BY <2>1, <3>1
  <2> QED BY <2>2, <2>3
<1>6. done \subseteq open /\ \A p \in done : remaining[p] = 1 /\ filled[p] # {}
  OBVIOUS
<1>7. filled \in [Ids -> SUBSET Texts]
  <2>1. filled = [p \in Ids |-> filled[p]]
    OBVIOUS
  <2> HIDE DEF filled
  <2> QED BY <1>5, <2>1
<1> HIDE DEF open, filled, done
<1>8. BoxesAgree'
  <2> SUFFICES ASSUME NEW p \in Ids
               PROVE  /\ remaining'[p] > 0 \/ pool'[p] # {} \/ exemplar'[p] # {} => Ready(p)
                      /\ pool'[p] \subseteq {prompts[p]}
                      /\ exemplar'[p] # {} => exemplar'[p] = {prompts[p]} /\ remaining'[p] = 0
    BY DEF BoxesAgree, Ready
  <2>1. /\ remaining'[p] = IF p \in open THEN remaining[p] - 1 ELSE remaining[p]
        /\ pool'[p] = IF p \in done THEN {} ELSE filled[p]
        /\ exemplar'[p] = IF p \in done THEN filled[p] ELSE exemplar[p]
    BY <1>1
  <2>2. /\ remaining[p] \in Nat
        /\ remaining[p] > 0 \/ pool[p] # {} \/ exemplar[p] # {} => Ready(p)
        /\ exemplar[p] # {} => exemplar[p] = {prompts[p]} /\ remaining[p] = 0
    BY DEF SessionInv, BoxesAgree, PlaceTyped, WindowsTyped
  <2>3. CASE p \in open
    BY <1>4, <1>5, <1>6, <2>1, <2>2, <2>3 DEF Ready
  <2>4. CASE p \notin open
    BY <1>5, <1>6, <2>1, <2>2, <2>4
  <2> QED BY <2>3, <2>4
<1>9. /\ remaining' \in [Ids -> 0..BootstrapFrames]
      /\ samples' \in [Ids -> 0..GraceFrames]
      /\ timer' \in {"off", "running", "elapsed"}
  BY <1>1, <1>4 DEF SessionInv, PlaceTyped, FlagsTyped, WindowsTyped
<1>10. pool' \in [Ids -> SUBSET Texts] /\ exemplar' \in [Ids -> SUBSET Texts]
  BY <1>1, <1>7 DEF SessionInv, PlaceTyped, FlagsTyped, WindowsTyped
<1>11. timer' # timer => \E p \in Ids : exemplar'[p] # {}
  <2>1. \A p \in done : p \in Ids /\ exemplar'[p] = filled[p]
    BY <1>1, <1>4, <1>6
  <2> QED BY <1>1, <1>6, <2>1
<1>12. \A p \in Ids : exemplar[p] # {} => exemplar'[p] # {}
  BY <1>1, <1>6
<1> QED BY <1>8, <1>9, <1>10, <1>11, <1>12 DEF WindowsTyped

LEMMA EndStep ==
  ASSUME SessionInv, EndDetection
  PROVE  SessionInv'
<1> USE DEF EndDetection, scheduleVars, detectVars, historyVars
<1>1. CaptureAgrees' /\ injected' = FALSE /\ PlaceTyped' /\ CallsTyped'
  BY DEF SessionInv, CaptureAgrees, PlaceTyped, CallsTyped
<1>2. CASE CaptureComplete
  <2>1. PICK boxes \in [Ids -> BOOLEAN] : ProcessCapture(boxes)
    BY <1>2
  <2>2. BoxesAgree' /\ WindowsTyped' /\ timer' \in {"off", "running", "elapsed"}
    BY <1>2, <2>1, ProcessStep
  <2>3. FlagsTyped'
    BY <2>2 DEF SessionInv, FlagsTyped
  <2> QED BY <1>1, <2>2, <2>3 DEF SessionInv
<1>3. CASE ~CaptureComplete
  <2>1. UNCHANGED <<remaining, pool, exemplar, samples, timer>>
    BY <1>3
  <2>2. FlagsTyped'
    BY <2>1 DEF SessionInv, FlagsTyped
  <2>3. WindowsTyped' /\ BoxesAgree'
    BY <2>1 DEF SessionInv, WindowsTyped, BoxesAgree, Ready
  <2> QED BY <1>1, <2>2, <2>3 DEF SessionInv
<1> QED BY <1>2, <1>3

(* Steps that leave the prompts, the boxes and the model's loop alone.     *)
LEMMA RestStep ==
  ASSUME SessionInv,
         UNCHANGED <<prompts, force, calls, at, counter, capture, remaining, pool, exemplar,
                     injected>>,
         phase' = phase \/ phase' = "idle",
         samples' = samples \/ \E shown \in SUBSET Ids : samples' = Sampled(shown),
         timer' = timer \/ timer' = "elapsed",
         pending' \in BOOLEAN, setbacks' \in BOOLEAN
  PROVE  SessionInv'
<1>1. FlagsTyped'
  BY DEF SessionInv, FlagsTyped
<1>2. samples' \in [Ids -> 0..GraceFrames]
  <2>1. samples \in [Ids -> 0..GraceFrames]
    BY DEF SessionInv, WindowsTyped
  <2>2. ASSUME NEW shown \in SUBSET Ids PROVE Sampled(shown) \in [Ids -> 0..GraceFrames]
    BY <2>1 DEF Sampled
  <2> QED BY <2>1, <2>2
<1>3. WindowsTyped'
  BY <1>2 DEF SessionInv, WindowsTyped
<1>4. CaptureAgrees' /\ PlaceTyped' /\ CallsTyped'
  BY DEF SessionInv, CaptureAgrees, PlaceTyped, CallsTyped
<1>5. BoxesAgree'
  BY DEF SessionInv, BoxesAgree, Ready
<1> QED BY <1>1, <1>3, <1>4, <1>5 DEF SessionInv

(* The inductive invariant.                                                *)
THEOREM SessionAgrees == Spec => []SessionInv
<1>1. SessionInv /\ [Next]_vars => SessionInv'
  <2> SUFFICES ASSUME SessionInv, [Next]_vars PROVE SessionInv'
    OBVIOUS
  <2> USE DEF scheduleVars, detectVars, bootstrapVars, historyVars, vars
  <2>1. pending \in BOOLEAN /\ setbacks \in BOOLEAN
    BY DEF SessionInv, FlagsTyped
  <2>2. CASE InferReturns
    <3>1. pending' \in BOOLEAN
      BY <2>1, <2>2 DEF InferReturns
    <3> QED BY <2>1, <2>2, <3>1, RestStep DEF InferReturns
  <2>3. CASE InferRaises
    BY <2>1, <2>3, RestStep DEF InferRaises
  <2>4. CASE TimerElapses
    BY <2>1, <2>4, RestStep DEF TimerElapses
  <2>5. CASE UNCHANGED vars
    BY <2>1, <2>5, RestStep
  <2> QED
    BY <2>2, <2>3, <2>4, <2>5, SetPromptStep, ResetPromptsStep, ReplaceStep, BeginStep, DetectStep,
       EndStep DEF Next, Infer
<1> QED BY <1>1, SessionInit, PTL DEF Spec

(* Every variable keeps its type.                                          *)
THEOREM SessionTypeCorrect == Spec => []TypeOK
<1>1. SessionInv => TypeOK
  <2> SUFFICES ASSUME SessionInv PROVE TypeOK
    OBVIOUS
  <2>1. /\ \A p \in DOMAIN prompts : prompts[p] \in Texts
        /\ \A i \in DOMAIN capture : capture[i] \in Ids
    BY DEF SessionInv, PlaceTyped
  <2>2. Len(prompts) <= MaxPrompts /\ Len(capture) <= MaxPrompts
    BY DEF SessionInv, PlaceTyped
  <2> QED
    BY <2>1, <2>2 DEF SessionInv, PlaceTyped, FlagsTyped, WindowsTyped, CallsTyped, TypeOK
<1> QED BY <1>1, SessionAgrees, PTL

(* An exemplar was gathered for the prompt that has its id, and the        *)
(* detector is given no other prompt's boxes, whatever raises and whatever *)
(* the capture misses.                                                     *)
THEOREM ExemplarsAreCurrent == Spec => []ExemplarIsCurrent
<1>1. SessionInv => ExemplarIsCurrent
  BY DEF SessionInv, BoxesAgree, ExemplarIsCurrent
<1> QED BY <1>1, SessionAgrees, PTL

(* While a re-bootstrap is pending or the timer runs there is an exemplar  *)
(* to replace.                                                             *)
THEOREM RebootstrapsOnce == Spec => []RebootstrapOnce
<1>1. Init => RebootstrapOnce
  BY DEF Init, RebootstrapOnce
<1>2. SessionInv /\ RebootstrapOnce /\ [Next]_vars => RebootstrapOnce'
  <2> SUFFICES ASSUME SessionInv, RebootstrapOnce, [Next]_vars PROVE RebootstrapOnce'
    OBVIOUS
  <2>1. ASSUME UNCHANGED <<exemplar, pending, timer>> PROVE RebootstrapOnce'
    BY <2>1 DEF RebootstrapOnce
  <2>2. ASSUME NEW text \in Texts, SetPrompt(text) \/ ResetPrompts(<<text>>)
        PROVE  RebootstrapOnce'
    BY <2>1, <2>2 DEF SetPrompt, ResetPrompts, RebootstrapOnce
  <2>3. CASE ResetTracking \/ ReplaceSession \/ DetectPrompt \/ InferRaises \/ UNCHANGED vars
    BY <2>1, <2>3 DEF ResetTracking, ReplaceSession, DetectPrompt, InferRaises, bootstrapVars, vars
  <2>4. ASSUME NEW request \in Requests, BeginInfer(request) PROVE RebootstrapOnce'
    <3>1. CASE pending
      BY <2>4, <3>1 DEF BeginInfer, Rebootstrap, RebootstrapOnce
    <3>2. CASE ~pending
      BY <2>1, <2>4, <3>2 DEF BeginInfer, bootstrapVars
    <3> QED BY <3>1, <3>2
  <2>5. CASE EndDetection
    <3>1. CASE CaptureComplete
      <4>1. PICK boxes \in [Ids -> BOOLEAN] : ProcessCapture(boxes)
        BY <2>5, <3>1 DEF EndDetection
      <4>2. /\ timer' # timer => \E p \in Ids : exemplar'[p] # {}
            /\ \A p \in Ids : exemplar[p] # {} => exemplar'[p] # {}
        BY <2>5, <3>1, <4>1, ProcessStep DEF EndDetection
      <4> QED BY <2>5, <4>2 DEF EndDetection, RebootstrapOnce
    <3>2. CASE ~CaptureComplete
      BY <2>1, <2>5, <3>2 DEF EndDetection
    <3> QED BY <3>1, <3>2
  <2>6. CASE InferReturns
    BY <2>6 DEF InferReturns, DriftDue, RebootstrapOnce
  <2>7. CASE TimerElapses
    BY <2>7 DEF TimerElapses, RebootstrapOnce
  <2> QED BY <2>2, <2>3, <2>4, <2>5, <2>6, <2>7 DEF Next, Infer
<1> QED BY <1>1, <1>2, SessionAgrees, PTL DEF Spec
=============================================================================
