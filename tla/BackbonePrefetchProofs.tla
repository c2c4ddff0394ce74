----------------------- MODULE BackbonePrefetchProofs -----------------------
(***************************************************************************)
(* Proofs about the backbone prefetch, for any pipelines, iterators, frame *)
(* lists and bounds: whatever raises and whoever leaves early, the buffers *)
(* of a job that the GPU has not finished are referenced, as long as no    *)
(* iterator outlives its context and is resumed in a later one; and, with  *)
(* the same exception, a run is never refused the features of its frame.   *)
(***************************************************************************)
EXTENDS BackbonePrefetch, SequenceTheorems, TLAPS

(* What the GPU side holds.                                                *)
GpuTyped ==
  /\ jobs \in Seq([frame : Nat, stream : Streams]) /\ Len(jobs) \in 0..MaxJobs
  /\ inflight \subseteq 1..Len(jobs) /\ failedKeep \subseteq Jobs
  /\ encoderPoisoned \in BOOLEAN /\ backbonePoisoned \in BOOLEAN

ContextTyped ==
  /\ active \in Streams
  /\ running \in [Pipelines -> BOOLEAN] /\ consumed \in [Pipelines -> BOOLEAN]
  /\ pending \in [Pipelines -> Jobs] /\ consuming \in [Pipelines -> Jobs]
  /\ current \in [Pipelines -> Jobs] /\ entries \in [Pipelines -> 0..MaxEntries]
  /\ undrained \in BOOLEAN /\ stale \in BOOLEAN /\ modelKeep \subseteq Jobs

(* An iterator between its first next() and its end, and the context it    *)
(* runs in; it has frames left.                                            *)
Live == OnHost \cup {"yielded"}
Current(i) ==
  pc[i] \in Live /\ active # None /\ of[i] = active /\ entry[i] = entries[active]

IteratorsTyped ==
  /\ pc \in [Iterators -> Live \cup {"new", "ended"}]
  /\ of \in [Iterators -> Streams] /\ entry \in [Iterators -> 0..MaxEntries]
  /\ todo \in [Iterators -> Seq(Nat)]
  /\ \A i \in Iterators : pc[i] \in Live => todo[i] # <<>> /\ of[i] \in Pipelines
  /\ \A i \in Iterators : pc[i] = "ahead" => Len(todo[i]) # 1

TypeInv == GpuTyped /\ ContextTyped /\ IteratorsTyped

(* The model is entered once at a time, and never again after an exit that *)
(* could not drain; outside a context a pipeline refers to no job.         *)
ContextsAgree ==
  /\ undrained => active = None
  /\ ~undrained => modelKeep = {}
  /\ \A p \in Pipelines : p # active /\ ~undrained =>
       ~running[p] /\ pending[p] = NoJob /\ consuming[p] = NoJob
  /\ \A i \in Iterators : pc[i] \in Live => entry[i] <= entries[of[i]]

(* One iterator at a time works in a context, and what it has come to says *)
(* which of the two references of the pipeline are taken.                  *)
Place(i) ==
  /\ running[active]
  /\ pc[i] = "launch" => pending[active] = NoJob
  /\ pc[i] \in {"launch", "take", "yielded"} => consuming[active] = NoJob
  /\ pc[i] = "ahead" => consuming[active] = pending[active]
  /\ pc[i] \in {"ahead", "forward"} => consuming[active] = current[active]
  /\ pc[i] = "forward" /\ Len(todo[i]) = 1 => pending[active] = NoJob

IteratorsAgree ==
  /\ \A i \in Iterators : pc[i] \in OnHost => Current(i)
  /\ \A i, k \in Iterators : Current(i) /\ Current(k) => i = k
  /\ \A i \in Iterators : Current(i) => Place(i)
  /\ active # None /\ ~running[active] =>
       pending[active] = NoJob /\ consuming[active] = NoJob

(* Who keeps the buffers of a job that the GPU has not finished.           *)
Kept(j) ==
  \/ j \in failedKeep \cup modelKeep
  \/ /\ active # None /\ jobs[j].stream = active
     /\ j \in {pending[active], consuming[active]}

KeptInv ==
  ~stale => ContextsAgree /\ IteratorsAgree /\ \A j \in inflight : Kept(j)

USE PrefetchAssumption DEF Jobs, Streams, NoJob

LEMMA FramesFact ==
  ASSUME NEW frames \in IndexLists
  PROVE  /\ frames \in Seq(Nat)
         /\ frames # <<>> => Head(frames) \in Nat
<1>1. frames \in Seq(Nat)
  OBVIOUS
<1> QED BY <1>1, HeadTailProperties

(* The frames that an iterator still has.                                  *)
LEMMA TodoFact ==
  ASSUME IteratorsTyped, NEW i \in Iterators, pc[i] \in Live
  PROVE  /\ of[i] \in Pipelines /\ todo[i] \in Seq(Nat) /\ Len(todo[i]) \in Nat \ {0}
         /\ Head(todo[i]) \in Nat /\ Tail(todo[i]) \in Seq(Nat)
         /\ Len(todo[i]) # 1 => Tail(todo[i]) # <<>> /\ Head(Tail(todo[i])) \in Nat
<1>1. of[i] \in Pipelines /\ todo[i] \in Seq(Nat) /\ todo[i] # <<>>
  BY DEF IteratorsTyped
<1>2. /\ Head(todo[i]) \in Nat /\ Tail(todo[i]) \in Seq(Nat)
      /\ Len(todo[i]) \in Nat \ {0} /\ Len(Tail(todo[i])) = Len(todo[i]) - 1
  BY <1>1, HeadTailProperties, EmptySeq
<1>3. ASSUME Len(todo[i]) # 1 PROVE Tail(todo[i]) # <<>> /\ Head(Tail(todo[i])) \in Nat
  <2>1. Len(Tail(todo[i])) # 0
    BY <1>2, <1>3
  <2>2. Tail(todo[i]) # <<>>
    BY <2>1, Len(<<>>) = 0
  <2> QED BY <1>2, <2>2, HeadTailProperties
<1> QED BY <1>1, <1>2, <1>3

-----------------------------------------------------------------------------
(* What the jobs on the GPU become, and who keeps what it still reads.     *)
Grown ==
  /\ Len(jobs) <= Len(jobs')
  /\ \A j \in 1..Len(jobs) : jobs'[j] = jobs[j]
  /\ failedKeep \subseteq failedKeep'

LEMMA LaunchedFact ==
  ASSUME GpuTyped, NEW frame \in Nat, NEW stream \in Streams, Launched(frame, stream)
  PROVE  /\ jobs' \in Seq([frame : Nat, stream : Streams])
         /\ Len(jobs') = Len(jobs) + 1 /\ Len(jobs') \in 0..MaxJobs
         /\ NextJob = Len(jobs') /\ NextJob \in Jobs \ {NoJob}
         /\ \A j \in 1..Len(jobs) : jobs'[j] = jobs[j]
         /\ jobs'[NextJob] = [frame |-> frame, stream |-> stream]
<1> DEFINE Job == [frame : Nat, stream : Streams]
           new == [frame |-> frame, stream |-> stream]
<1>1. jobs \in Seq(Job) /\ new \in Job /\ Len(jobs) \in 0..MaxJobs
  BY DEF GpuTyped
<1>2. jobs' = Append(jobs, new) /\ Len(jobs) < MaxJobs
  BY DEF Launched
<1> HIDE DEF Job, new
<1>3. /\ jobs' \in Seq(Job) /\ Len(jobs') = Len(jobs) + 1
      /\ \A j \in 1..Len(jobs) : jobs'[j] = jobs[j]
      /\ jobs'[Len(jobs) + 1] = new
  BY <1>1, <1>2, AppendProperties
<1> QED BY <1>1, <1>2, <1>3 DEF NextJob, Job, new

LEMMA PrefetchOkFact ==
  ASSUME GpuTyped, NEW p \in Pipelines, NEW frame \in Nat, PrefetchOk(p, frame)
  PROVE  /\ GpuTyped' /\ Grown
         /\ NextJob \in Jobs \ {NoJob}
         /\ jobs'[NextJob].stream = p /\ jobs'[NextJob].frame = frame
         /\ inflight' = inflight \cup {NextJob}
<1>1. Launched(frame, p) /\ inflight' = inflight \cup {NextJob}
      /\ UNCHANGED <<failedKeep, encoderPoisoned, backbonePoisoned>>
  BY DEF PrefetchOk
<1>2. /\ jobs' \in Seq([frame : Nat, stream : Streams])
      /\ Len(jobs') = Len(jobs) + 1 /\ Len(jobs') \in 0..MaxJobs
      /\ NextJob = Len(jobs') /\ NextJob \in Jobs \ {NoJob}
      /\ \A j \in 1..Len(jobs) : jobs'[j] = jobs[j]
      /\ jobs'[NextJob] = [frame |-> frame, stream |-> p]
  BY <1>1, LaunchedFact
<1>3. GpuTyped'
  <2>1. inflight \subseteq 1..Len(jobs) /\ Len(jobs) \in Nat
    BY DEF GpuTyped
  <2>2. /\ inflight' = inflight \cup {NextJob} /\ NextJob = Len(jobs')
        /\ Len(jobs') = Len(jobs) + 1
    BY <1>1, <1>2
  <2>3. ASSUME NEW j \in inflight' PROVE j \in 1..Len(jobs')
    BY <2>1, <2>2, <2>3
  <2> QED BY <1>1, <1>2, <2>3 DEF GpuTyped
<1> QED BY <1>1, <1>2, <1>3 DEF Grown

(* A launch that raises, in a prefetch or in a direct call.                *)
LEMMA EnqueueRaisesFact ==
  ASSUME GpuTyped, NEW stream \in Streams, NEW frame \in Nat, NEW busy,
         EnqueueRaises(frame, stream, busy)
  PROVE  /\ jobs' \in Seq([frame : Nat, stream : Streams]) /\ Len(jobs') \in 0..MaxJobs
         /\ busy \subseteq 1..Len(jobs') /\ failedKeep' \subseteq Jobs
         /\ backbonePoisoned' \in BOOLEAN
         /\ Grown /\ busy \subseteq inflight \cup failedKeep'
<1>1. Launched(frame, stream)
  BY DEF EnqueueRaises
<1>2. /\ jobs' \in Seq([frame : Nat, stream : Streams])
      /\ Len(jobs') = Len(jobs) + 1 /\ Len(jobs') \in 0..MaxJobs
      /\ NextJob = Len(jobs') /\ NextJob \in Jobs \ {NoJob}
      /\ \A j \in 1..Len(jobs) : jobs'[j] = jobs[j]
  BY <1>1, LaunchedFact
<1>3. PICK submitted \in BOOLEAN, drained \in BOOLEAN :
       /\ busy = IF drained THEN {}
                 ELSE IF submitted THEN inflight \cup {NextJob} ELSE inflight
       /\ failedKeep' = IF drained THEN failedKeep ELSE failedKeep \cup {NextJob}
       /\ backbonePoisoned' = ~drained
  BY DEF EnqueueRaises
<1>4. busy \subseteq inflight \cup {NextJob} /\ busy \subseteq inflight \cup failedKeep'
      /\ failedKeep' \subseteq failedKeep \cup {NextJob} /\ failedKeep \subseteq failedKeep'
  BY <1>3
<1>5. inflight \subseteq 1..Len(jobs) /\ failedKeep \subseteq Jobs /\ Len(jobs) \in Nat
  BY DEF GpuTyped
<1>6. backbonePoisoned' \in BOOLEAN
  BY <1>3
<1>7. busy \subseteq 1..Len(jobs')
  BY <1>2, <1>4, <1>5
<1> QED BY <1>2, <1>4, <1>5, <1>6, <1>7 DEF Grown

LEMMA DrainStreamFact ==
  ASSUME NEW p, NEW busy, DrainStream(p, busy)
  PROVE  inflight' \subseteq busy /\ encoderPoisoned' \in BOOLEAN
         /\ (encoderPoisoned' \/ inflight' = Other(p, busy))
BY DEF DrainStream, Other

LEMMA PrefetchRaisesFact ==
  ASSUME GpuTyped, NEW p \in Pipelines, NEW frame \in Nat, PrefetchRaises(p, frame)
  PROVE  GpuTyped' /\ Grown /\ inflight' \subseteq inflight \cup failedKeep'
<1>1. CASE UNCHANGED gpuVars
  BY <1>1 DEF gpuVars, GpuTyped, Grown
<1>2. CASE /\ DrainStream(p, inflight)
           /\ UNCHANGED <<jobs, failedKeep, backbonePoisoned>>
  <2>1. inflight' \subseteq inflight /\ encoderPoisoned' \in BOOLEAN
    BY <1>2, DrainStreamFact
  <2>2. GpuTyped'
    BY <1>2, <2>1 DEF GpuTyped
  <2> QED BY <1>2, <2>1, <2>2 DEF GpuTyped, Grown
<1>3. ASSUME NEW busy \in SUBSET (inflight \cup {NextJob}),
             EnqueueRaises(frame, p, busy), DrainStream(p, busy)
      PROVE  GpuTyped' /\ Grown /\ inflight' \subseteq inflight \cup failedKeep'
  <2>1. inflight' \subseteq busy /\ encoderPoisoned' \in BOOLEAN
    BY <1>3, DrainStreamFact
  <2>2. /\ jobs' \in Seq([frame : Nat, stream : Streams]) /\ Len(jobs') \in 0..MaxJobs
        /\ busy \subseteq 1..Len(jobs') /\ failedKeep' \subseteq Jobs
        /\ backbonePoisoned' \in BOOLEAN
        /\ Grown /\ busy \subseteq inflight \cup failedKeep'
    BY <1>3, EnqueueRaisesFact
  <2>3. inflight' \subseteq 1..Len(jobs') /\ inflight' \subseteq inflight \cup failedKeep'
    BY <2>1, <2>2
  <2> QED BY <2>1, <2>2, <2>3 DEF GpuTyped
<1>4. CASE /\ Launched(frame, p)
           /\ DrainStream(p, inflight \cup {NextJob})
           /\ failedKeep' = IF encoderPoisoned' THEN failedKeep \cup {NextJob} ELSE failedKeep
           /\ UNCHANGED backbonePoisoned
  <2>1. /\ jobs' \in Seq([frame : Nat, stream : Streams])
        /\ Len(jobs') = Len(jobs) + 1 /\ Len(jobs') \in 0..MaxJobs
        /\ NextJob = Len(jobs') /\ NextJob \in Jobs \ {NoJob}
        /\ \A j \in 1..Len(jobs) : jobs'[j] = jobs[j]
    BY <1>4, LaunchedFact
  <2>2. /\ inflight' \subseteq inflight \cup {NextJob} /\ encoderPoisoned' \in BOOLEAN
        /\ (encoderPoisoned' \/ inflight' = Other(p, inflight \cup {NextJob}))
    BY <1>4, DrainStreamFact
  <2>3. /\ failedKeep \subseteq failedKeep' /\ failedKeep' \subseteq failedKeep \cup {NextJob}
        /\ encoderPoisoned' => NextJob \in failedKeep'
    BY <1>4
  <2>4. inflight \subseteq 1..Len(jobs) /\ failedKeep \subseteq Jobs /\ Len(jobs) \in Nat
    BY DEF GpuTyped
  <2>5. NextJob \in inflight' => NextJob \in failedKeep'
    <3>1. NextJob \notin Other(p, inflight \cup {NextJob})
      BY <2>1 DEF Other
    <3> QED BY <2>2, <2>3, <3>1
  <2>6. inflight' \subseteq 1..Len(jobs') /\ failedKeep' \subseteq Jobs
    BY <2>1, <2>2, <2>3, <2>4
  <2>7. GpuTyped'
    BY <1>4, <2>1, <2>2, <2>6 DEF GpuTyped
  <2> QED BY <2>1, <2>2, <2>3, <2>5, <2>7 DEF Grown
<1> QED BY <1>1, <1>2, <1>3, <1>4 DEF PrefetchRaises

LEMMA DirectFact ==
  ASSUME GpuTyped, NEW frame \in Nat, DirectForward(frame)
  PROVE  /\ GpuTyped' /\ Grown /\ inflight' \subseteq inflight \cup failedKeep'
         /\ UNCHANGED <<contextVars, iteratorVars, modelVars, stale>>
<1>1. UNCHANGED <<encoderPoisoned, contextVars, iteratorVars, modelVars, stale>>
  BY DEF DirectForward
<1>2. CASE Launched(frame, None) /\ inflight' = {} /\ UNCHANGED <<failedKeep, backbonePoisoned>>
  <2>1. /\ jobs' \in Seq([frame : Nat, stream : Streams])
        /\ Len(jobs') = Len(jobs) + 1 /\ Len(jobs') \in 0..MaxJobs
        /\ \A j \in 1..Len(jobs) : jobs'[j] = jobs[j]
    BY <1>2, LaunchedFact
  <2>2. GpuTyped'
    BY <1>1, <1>2, <2>1 DEF GpuTyped
  <2> QED BY <1>1, <1>2, <2>1, <2>2 DEF Grown, GpuTyped
<1>3. CASE EnqueueRaises(frame, None, inflight')
  <2>1. /\ jobs' \in Seq([frame : Nat, stream : Streams]) /\ Len(jobs') \in 0..MaxJobs
        /\ inflight' \subseteq 1..Len(jobs') /\ failedKeep' \subseteq Jobs
        /\ backbonePoisoned' \in BOOLEAN
        /\ Grown /\ inflight' \subseteq inflight \cup failedKeep'
    BY <1>3, EnqueueRaisesFact
  <2>2. GpuTyped'
    BY <1>1, <2>1 DEF GpuTyped
  <2> QED BY <1>1, <2>1, <2>2
<1> QED BY <1>2, <1>3 DEF DirectForward

-----------------------------------------------------------------------------
(* Types.                                                                  *)
LEMMA TypeInit == Init => TypeInv
<1> SUFFICES ASSUME Init PROVE TypeInv
  OBVIOUS
<1> DEFINE Job == [frame : Nat, stream : Streams]
<1>0. MaxJobs \in Nat /\ MaxEntries \in Nat /\ NoJob \in Jobs /\ 0 \in 0..MaxEntries
  BY SMT
<1>1. GpuTyped
  <2>1. <<>> \in Seq(Job) /\ Len(<<>>) = 0
    BY EmptySeq
  <2>2. jobs = <<>> /\ inflight = {} /\ failedKeep = {}
        /\ encoderPoisoned = FALSE /\ backbonePoisoned = FALSE
    BY DEF Init
  <2>3. jobs \in Seq(Job) /\ Len(jobs) \in 0..MaxJobs
    BY <1>0, <2>1, <2>2
  <2> QED BY <2>2, <2>3 DEF GpuTyped
<1>2. ContextTyped
  <2>1. active \in Streams /\ undrained \in BOOLEAN /\ stale \in BOOLEAN /\ modelKeep = {}
    BY DEF Init
  <2>2. running \in [Pipelines -> BOOLEAN] /\ consumed \in [Pipelines -> BOOLEAN]
    BY DEF Init
  <2>3. /\ pending \in [Pipelines -> Jobs] /\ consuming \in [Pipelines -> Jobs]
        /\ current \in [Pipelines -> Jobs]
    BY <1>0 DEF Init
  <2>4. entries \in [Pipelines -> 0..MaxEntries]
    BY <1>0 DEF Init
  <2> QED BY <2>1, <2>2, <2>3, <2>4 DEF ContextTyped
<1>3. IteratorsTyped
  BY EmptySeq DEF Init, IteratorsTyped, Live, OnHost
<1> QED BY <1>1, <1>2, <1>3 DEF Init, TypeInv

LEMMA PlacesFact ==
  /\ {"launch", "take", "ahead", "forward", "yielded"} \subseteq Live
  /\ {"new", "ended"} \cap Live = {}
  /\ OnHost \subseteq Live
BY DEF Live, OnHost

(* What a Prefetch step does besides the jobs.                             *)
LEMMA PrefetchFact ==
  ASSUME TypeInv, NEW i \in Iterators, PrefetchFirst(i) \/ PrefetchAhead(i)
  PROVE  /\ pc[i] \in {"launch", "ahead"} /\ of[i] \in Pipelines
         /\ GpuTyped' /\ Grown
         /\ UNCHANGED <<active, running, consuming, current, consumed, entries,
                        of, entry, todo, modelVars, stale>>
         /\ \/ /\ pc' = [pc EXCEPT ![i] = IF pc[i] = "launch" THEN "take" ELSE "forward"]
               /\ pending' = [pending EXCEPT ![of[i]] = NextJob]
               /\ NextJob \in Jobs \ {NoJob} /\ jobs'[NextJob].stream = of[i]
               /\ jobs'[NextJob].frame =
                    IF pc[i] = "launch" THEN Head(todo[i]) ELSE Head(Tail(todo[i]))
               /\ inflight' = inflight \cup {NextJob}
            \/ /\ pc' = [pc EXCEPT ![i] = "ended"] /\ UNCHANGED pending
               /\ inflight' \subseteq inflight \cup failedKeep'
<1> DEFINE frame == IF pc[i] = "launch" THEN Head(todo[i]) ELSE Head(Tail(todo[i]))
           to == IF pc[i] = "launch" THEN "take" ELSE "forward"
<1>1. pc[i] \in {"launch", "ahead"} /\ Prefetch(i, pc[i], to, frame)
  BY DEF PrefetchFirst, PrefetchAhead, Prefetch
<1>2. of[i] \in Pipelines /\ frame \in Nat /\ GpuTyped
  <2>1. pc[i] = "ahead" => Len(todo[i]) # 1
    BY DEF TypeInv, IteratorsTyped
  <2> QED BY <1>1, <2>1, TodoFact, PlacesFact DEF TypeInv
<1> HIDE DEF frame, to
<1>3. UNCHANGED <<active, running, consuming, current, consumed, entries,
                  of, entry, todo, modelVars, stale>>
  BY <1>1 DEF Prefetch
<1>4. CASE /\ Goto(i, pc[i], to) /\ PrefetchOk(of[i], frame)
           /\ pending' = [pending EXCEPT ![of[i]] = NextJob]
  <2>1. /\ GpuTyped' /\ Grown
        /\ NextJob \in Jobs \ {NoJob}
        /\ jobs'[NextJob].stream = of[i] /\ jobs'[NextJob].frame = frame
        /\ inflight' = inflight \cup {NextJob}
    BY <1>2, <1>4, PrefetchOkFact
  <2> QED BY <1>1, <1>2, <1>3, <1>4, <2>1 DEF Goto, to, frame
<1>5. CASE Goto(i, pc[i], "ended") /\ PrefetchRaises(of[i], frame) /\ UNCHANGED pending
  <2>1. GpuTyped' /\ Grown /\ inflight' \subseteq inflight \cup failedKeep'
    BY <1>2, <1>5, PrefetchRaisesFact
  <2> QED BY <1>1, <1>2, <1>3, <1>5, <2>1 DEF Goto
<1> QED BY <1>1, <1>4, <1>5 DEF Prefetch

(* An iterator comes to its next place, perhaps to its next frame.         *)
LEMMA IteratorsKept ==
  ASSUME IteratorsTyped, NEW i \in Iterators,
         NEW to \in {"take", "ahead", "forward", "yielded", "ended"},
         pc' = [pc EXCEPT ![i] = to], UNCHANGED <<of, entry>>,
         todo' = todo \/ (todo' = [todo EXCEPT ![i] = Tail(@)] /\ Len(todo[i]) # 1),
         pc[i] \in Live, to = "ahead" => Len(todo[i]) # 1 /\ UNCHANGED todo
  PROVE  IteratorsTyped'
<1>1. /\ of[i] \in Pipelines /\ todo[i] \in Seq(Nat) /\ todo[i] # <<>>
      /\ Tail(todo[i]) \in Seq(Nat)
      /\ Len(todo[i]) # 1 => Tail(todo[i]) # <<>>
  BY TodoFact DEF IteratorsTyped
<1>2. /\ pc \in [Iterators -> Live \cup {"new", "ended"}]
      /\ of \in [Iterators -> Streams] /\ entry \in [Iterators -> 0..MaxEntries]
      /\ todo \in [Iterators -> Seq(Nat)]
      /\ \A k \in Iterators : pc[k] \in Live => todo[k] # <<>> /\ of[k] \in Pipelines
      /\ \A k \in Iterators : pc[k] = "ahead" => Len(todo[k]) # 1
  BY DEF IteratorsTyped
<1>3. to \in Live \cup {"ended"}
  BY PlacesFact
<1>4. /\ pc' \in [Iterators -> Live \cup {"new", "ended"}]
      /\ todo' \in [Iterators -> Seq(Nat)]
  BY <1>1, <1>2, <1>3
<1>5. ASSUME NEW k \in Iterators
      PROVE  /\ pc'[k] \in Live => todo'[k] # <<>> /\ of[k] \in Pipelines
             /\ pc'[k] = "ahead" => Len(todo'[k]) # 1
  <2>1. CASE k = i
    <3>1. pc'[i] = to
      BY <1>2
    <3>2. todo'[i] = todo[i] \/ (todo'[i] = Tail(todo[i]) /\ Len(todo[i]) # 1)
      BY <1>2
    <3> QED BY <1>1, <2>1, <3>1, <3>2
  <2>2. CASE k # i
    <3>1. pc'[k] = pc[k] /\ todo'[k] = todo[k]
      BY <1>2, <2>2
    <3> QED BY <1>2, <3>1
  <2> QED BY <2>1, <2>2
<1> QED BY <1>2, <1>4, <1>5 DEF IteratorsTyped

(* What use_current answers to a call for a frame.                         *)
LEMMA ConsumeFact ==
  ASSUME NEW p \in Pipelines, NEW frame \in Nat,
         ContextTyped, Consume(p, frame) \/ UNCHANGED consumed
  PROVE  consumed' \in [Pipelines -> BOOLEAN]
BY DEF ContextTyped, Consume

LEMMA TypeStep == TypeInv /\ [Next]_vars => TypeInv'
<1> SUFFICES ASSUME TypeInv, [Next]_vars PROVE TypeInv'
  OBVIOUS
<1> USE DEF contextVars, iteratorVars, gpuVars, modelVars
<1>0. /\ GpuTyped /\ ContextTyped /\ IteratorsTyped
  BY DEF TypeInv
<1>g. UNCHANGED gpuVars => GpuTyped'
  BY <1>0 DEF GpuTyped
<1>c. UNCHANGED <<contextVars, modelVars, stale>> => ContextTyped'
  BY <1>0 DEF ContextTyped
<1>i. UNCHANGED iteratorVars => IteratorsTyped'
  BY <1>0 DEF IteratorsTyped
<1>1. ASSUME NEW p \in Pipelines, Enter(p) PROVE TypeInv'
  <2>1. ContextTyped'
    BY <1>0, <1>1 DEF Enter, ContextTyped
  <2> QED BY <1>0, <1>1, <1>g, <1>i, <2>1 DEF Enter, TypeInv
<1>2. ASSUME NEW p \in Pipelines, Exit(p) PROVE TypeInv'
  <2>0. /\ pending \in [Pipelines -> Jobs] /\ consuming \in [Pipelines -> Jobs]
        /\ current \in [Pipelines -> Jobs] /\ NoJob \in Jobs /\ modelKeep \subseteq Jobs
    <3>1. NoJob \in Jobs
      BY SMT
    <3> QED BY <1>0, <3>1 DEF ContextTyped
  <2>1. /\ pending' \in [Pipelines -> Jobs] /\ consuming' \in [Pipelines -> Jobs]
        /\ modelKeep' \subseteq Jobs
    <3>1. \/ /\ pending' = [pending EXCEPT ![p] = NoJob]
             /\ consuming' = [consuming EXCEPT ![p] = NoJob] /\ modelKeep' = modelKeep
          \/ /\ modelKeep' = {pending[p], consuming[p]} \ {NoJob}
             /\ pending' = pending /\ consuming' = consuming
      BY <1>2 DEF Exit
    <3> HIDE DEF Jobs, NoJob
    <3> QED BY <2>0, <3>1
  <2>a. active' \in Streams /\ running' \in [Pipelines -> BOOLEAN]
        /\ consumed' \in [Pipelines -> BOOLEAN]
    BY <1>0, <1>2 DEF Exit, ContextTyped
  <2>b. current' \in [Pipelines -> Jobs]
    <3> HIDE DEF Jobs, NoJob
    <3> QED BY <1>2, <2>0 DEF Exit
  <2>c. entries' \in [Pipelines -> 0..MaxEntries] /\ stale' \in BOOLEAN
    BY <1>0, <1>2 DEF Exit, ContextTyped
  <2>d. undrained' \in BOOLEAN
    BY <1>0, <1>2 DEF Exit, ContextTyped
  <2>2. ContextTyped'
    BY <2>1, <2>a, <2>b, <2>c, <2>d DEF ContextTyped
  <2>3. inflight' \subseteq inflight
    BY <1>2 DEF Exit, Other
  <2>4. GpuTyped'
    BY <1>0, <1>2, <2>3 DEF Exit, GpuTyped
  <2> QED BY <1>0, <1>2, <1>i, <2>2, <2>4 DEF Exit, TypeInv
<1>3. ASSUME NEW i \in Iterators, NEW p \in Pipelines, NEW frames \in IndexLists,
             Begin(i, p, frames)
      PROVE  TypeInv'
  <2>1. ContextTyped'
    BY <1>0, <1>3 DEF Begin, ContextTyped
  <2>2. frames \in Seq(Nat)
    BY FramesFact
  <2>3. \/ pc' = [pc EXCEPT ![i] = "ended"]
        \/ pc' = [pc EXCEPT ![i] = "launch"] /\ frames # <<>>
    BY <1>3 DEF Begin
  <2>4. IteratorsTyped'
    <3>1. /\ of' = [of EXCEPT ![i] = p] /\ entry' = [entry EXCEPT ![i] = entries[p]]
          /\ todo' = [todo EXCEPT ![i] = frames]
      BY <1>3 DEF Begin
    <3>2. entries[p] \in 0..MaxEntries
      BY <1>0 DEF ContextTyped
    <3> QED BY <1>0, <2>2, <2>3, <3>1, <3>2, PlacesFact DEF IteratorsTyped
  <2> QED BY <1>0, <1>3, <1>g, <2>1, <2>4 DEF Begin, TypeInv
<1>4. ASSUME NEW i \in Iterators, PrefetchFirst(i) \/ PrefetchAhead(i) PROVE TypeInv'
  <2>1. /\ GpuTyped' /\ of[i] \in Pipelines /\ pc[i] \in Live
        /\ UNCHANGED <<active, running, consuming, current, consumed, entries,
                       of, entry, todo, modelVars, stale>>
    BY <1>4, PrefetchFact, PlacesFact
  <2>2. pending' \in [Pipelines -> Jobs]
    BY <1>0, <1>4, PrefetchFact DEF ContextTyped
  <2>3. ContextTyped'
    BY <1>0, <2>1, <2>2 DEF ContextTyped
  <2>4. \E to \in {"take", "forward", "ended"} : pc' = [pc EXCEPT ![i] = to]
    BY <1>4, PrefetchFact
  <2>5. IteratorsTyped'
    BY <1>0, <2>1, <2>4, IteratorsKept
  <2> QED BY <1>0, <2>1, <2>3, <2>5 DEF TypeInv
<1>5. ASSUME NEW i \in Iterators, Take(i) PROVE TypeInv'
  <2>1. pc[i] \in Live /\ of[i] \in Pipelines
    BY <1>0, <1>5, TodoFact, PlacesFact DEF Take
  <2>2. ContextTyped'
    <3>1. pending[of[i]] \in Jobs /\ consuming' = [consuming EXCEPT ![of[i]] = pending[of[i]]]
      BY <1>0, <1>5, <2>1 DEF Take, ContextTyped
    <3>2. /\ pending \in [Pipelines -> Jobs] /\ current \in [Pipelines -> Jobs]
          /\ consuming \in [Pipelines -> Jobs] /\ consumed \in [Pipelines -> BOOLEAN]
      BY <1>0 DEF ContextTyped
    <3>3. NoJob \in Jobs
      BY SMT
    <3>4. consumed' \in [Pipelines -> BOOLEAN]
      BY <1>5, <3>2 DEF Take
    <3> HIDE DEF Jobs, NoJob
    <3>5. consuming' \in [Pipelines -> Jobs]
      BY <3>1, <3>2
    <3>6. current' \in [Pipelines -> Jobs]
      BY <1>5, <3>1, <3>2 DEF Take
    <3>7. pending' \in [Pipelines -> Jobs]
      BY <1>5, <3>2, <3>3 DEF Take
    <3>8. UNCHANGED <<active, running, entries, modelVars, stale>>
      BY <1>5 DEF Take
    <3> QED BY <1>0, <3>4, <3>5, <3>6, <3>7, <3>8 DEF ContextTyped
  <2>3. \E to \in {"ahead", "forward", "ended"} :
          pc' = [pc EXCEPT ![i] = to] /\ (to = "ahead" => Len(todo[i]) # 1)
    BY <1>5 DEF Take, Goto
  <2>4. IteratorsTyped'
    BY <1>0, <1>5, <2>1, <2>3, IteratorsKept DEF Take
  <2> QED BY <1>0, <1>5, <1>g, <2>2, <2>4 DEF Take, TypeInv
<1>6. ASSUME NEW i \in Iterators, ForwardReturns(i) \/ ForwardRaises(i) PROVE TypeInv'
  <2>1. pc[i] = "forward" /\ pc[i] \in Live /\ of[i] \in Pipelines /\ Head(todo[i]) \in Nat
    BY <1>0, <1>6, TodoFact, PlacesFact DEF ForwardReturns, ForwardRaises, Goto
  <2>2. consumed' \in [Pipelines -> BOOLEAN]
    <3>1. Consume(of[i], Head(todo[i])) \/ UNCHANGED consumed
      BY <1>6 DEF ForwardReturns, ForwardRaises
    <3> QED BY <1>0, <2>1, <3>1, ConsumeFact
  <2>3. ContextTyped'
    <3>1. /\ consuming \in [Pipelines -> Jobs] /\ running \in [Pipelines -> BOOLEAN]
      BY <1>0 DEF ContextTyped
    <3>2. NoJob \in Jobs
      BY SMT
    <3>3. running' \in [Pipelines -> BOOLEAN]
      <4>1. running' = running \/ \E b \in BOOLEAN : running' = [running EXCEPT ![of[i]] = b]
        BY <1>6 DEF ForwardReturns, ForwardRaises
      <4> QED BY <3>1, <4>1
    <3>4. consuming' \in [Pipelines -> Jobs]
      <4>1. consuming' = consuming \/ consuming' = [consuming EXCEPT ![of[i]] = NoJob]
        BY <1>6 DEF ForwardReturns, ForwardRaises
      <4> HIDE DEF Jobs, NoJob
      <4> QED BY <3>1, <3>2, <4>1
    <3>5. UNCHANGED <<active, pending, current, entries, modelVars, stale>>
      BY <1>6 DEF ForwardReturns, ForwardRaises
    <3> QED BY <1>0, <2>2, <3>3, <3>4, <3>5 DEF ContextTyped
  <2>4. GpuTyped'
    BY <1>0, <1>6, <1>g DEF ForwardReturns, ForwardRaises, GpuTyped, Other
  <2>5. IteratorsTyped'
    <3>1. CASE ForwardRaises(i)
      BY <1>0, <2>1, <3>1, IteratorsKept DEF ForwardRaises, Goto
    <3>2. CASE ForwardReturns(i) /\ Len(todo[i]) # 1
      BY <1>0, <2>1, <3>2, IteratorsKept DEF ForwardReturns, Goto
    <3>3. CASE ForwardReturns(i) /\ Len(todo[i]) = 1
      <4>1. pc' = [pc EXCEPT ![i] = "ended"] /\ todo' = [todo EXCEPT ![i] = Tail(@)]
            /\ UNCHANGED <<of, entry>>
        BY <3>3 DEF ForwardReturns, Goto
      <4>2. Tail(todo[i]) \in Seq(Nat)
        BY <1>0, <2>1, TodoFact
      <4> QED BY <1>0, <4>1, <4>2, PlacesFact DEF IteratorsTyped
    <3> QED BY <1>6, <3>1, <3>2, <3>3
  <2> QED BY <2>2, <2>3, <2>4, <2>5 DEF TypeInv
<1>7. ASSUME NEW i \in Iterators, Resume(i) PROVE TypeInv'
  <2>1. stale' \in BOOLEAN
    BY <1>0, <1>7 DEF Resume, ContextTyped
  <2>2. ContextTyped'
    BY <1>0, <1>7, <2>1 DEF Resume, ContextTyped
  <2>3. pc[i] \in Live /\ \E to \in {"take", "ended"} : pc' = [pc EXCEPT ![i] = to]
    BY <1>7, PlacesFact DEF Resume, Goto
  <2>4. IteratorsTyped'
    BY <1>0, <1>7, <2>3, IteratorsKept DEF Resume
  <2> QED BY <1>0, <1>7, <1>g, <2>2, <2>4 DEF Resume, TypeInv
<1>8. ASSUME NEW frames \in IndexLists, frames # <<>>, DirectForward(Head(frames))
      PROVE  TypeInv'
  <2>1. GpuTyped' /\ UNCHANGED <<contextVars, iteratorVars, modelVars, stale>>
    BY <1>0, <1>8, FramesFact, DirectFact
  <2> QED BY <1>0, <1>c, <1>i, <2>1 DEF TypeInv
<1>9. ASSUME NEW frames \in IndexLists, frames # <<>>, NEW p \in Pipelines,
             ModelCall(p, Head(frames))
      PROVE  TypeInv'
  <2>1. Head(frames) \in Nat
    BY <1>9, FramesFact
  <2>2. consumed' \in [Pipelines -> BOOLEAN]
    BY <1>0, <1>9, <2>1, ConsumeFact DEF ModelCall
  <2>3. ContextTyped'
    BY <1>0, <1>9, <2>2 DEF ModelCall, ContextTyped
  <2> QED BY <1>9, <1>g, <1>i, <2>2, <2>3 DEF ModelCall, TypeInv
<1>10. ASSUME NEW j \in 1..Len(jobs), Finish(j) PROVE TypeInv'
  <2>1. GpuTyped'
    BY <1>0, <1>10 DEF Finish, GpuTyped
  <2> QED BY <1>0, <1>10, <1>c, <1>i, <2>1 DEF Finish, TypeInv
<1>11. CASE UNCHANGED vars
  BY <1>0, <1>11, <1>g, <1>c, <1>i DEF vars, TypeInv
<1> QED
  BY <1>1, <1>2, <1>3, <1>4, <1>5, <1>6, <1>7, <1>8, <1>9, <1>10, <1>11 DEF Next

(* Every variable holds a value of its type.                               *)
THEOREM PrefetchTypeCorrect == Spec => []TypeOK
<1>1. TypeInv => TypeOK
  BY DEF TypeInv, GpuTyped, ContextTyped, IteratorsTyped, TypeOK, Live
<1> QED BY <1>1, TypeInit, TypeStep, PTL DEF Spec

-----------------------------------------------------------------------------
(* Buffers.                                                                *)
LEMMA KeptInit == Init => KeptInv
BY DEF Init, KeptInv, ContextsAgree, IteratorsAgree, Current, Live, OnHost

(* What the types say that the steps below need.                           *)
LEMMA TypesFact ==
  ASSUME TypeInv
  PROVE  /\ running \in [Pipelines -> BOOLEAN]
         /\ pending \in [Pipelines -> Jobs] /\ consuming \in [Pipelines -> Jobs]
         /\ current \in [Pipelines -> Jobs] /\ entries \in [Pipelines -> Nat]
         /\ pc \in [Iterators -> Live \cup {"new", "ended"}]
         /\ of \in [Iterators -> Streams] /\ entry \in [Iterators -> Nat]
         /\ todo \in [Iterators -> Seq(Nat)]
         /\ active \in Streams
         /\ \A i \in Iterators : pc[i] \in Live => of[i] \in Pipelines
         /\ \A i \in Iterators : pc[i] = "ahead" => Len(todo[i]) # 1
         /\ \A j \in inflight : j \in 1..Len(jobs) /\ j # NoJob /\ j \in Nat
<1>1. entries \in [Pipelines -> Nat] /\ entry \in [Iterators -> Nat]
  BY DEF TypeInv, ContextTyped, IteratorsTyped
<1>2. \A j \in inflight : j \in 1..Len(jobs) /\ j # NoJob /\ j \in Nat
  BY DEF TypeInv, GpuTyped
<1> QED BY <1>1, <1>2 DEF TypeInv, ContextTyped, IteratorsTyped

LEMMA CurrentFact ==
  ASSUME TypeInv, NEW p \in Pipelines, NEW j \in inflight, j > current[p]
  PROVE  j # current[p]
BY TypesFact

(* A job stays kept where the references to it stay.                       *)
LEMMA StillKept ==
  ASSUME TypeInv, NEW j \in inflight, Kept(j), UNCHANGED <<active, modelKeep>>, Grown,
         active # None /\ j \in {pending[active], consuming[active]} =>
           j \in {pending'[active], consuming'[active]}
  PROVE  Kept(j)'
<1>1. jobs'[j] = jobs[j]
  BY TypesFact DEF Grown
<1> QED BY <1>1 DEF Kept, Grown

LEMMA UnchangedGrown == TypeInv /\ UNCHANGED <<jobs, failedKeep>> => Grown
BY DEF TypeInv, GpuTyped, Grown

(* The iterator that works in the current context, if any does.            *)
LEMMA WorkingFact ==
  ASSUME IteratorsAgree, TypeInv, NEW i \in Iterators, pc[i] \in OnHost
  PROVE  /\ of[i] = active /\ active \in Pipelines /\ active # None
         /\ entry[i] = entries[active] /\ Place(i)
         /\ \A k \in Iterators : Current(k) => k = i
         /\ \A k \in Iterators : pc[k] \in OnHost => k = i
<1>1. Current(i)
  BY DEF IteratorsAgree
<1>2. of[i] = active /\ active # None /\ entry[i] = entries[active]
  BY <1>1 DEF Current
<1>3. active \in Pipelines
  BY <1>1, <1>2, TypesFact DEF Current
<1> QED BY <1>1, <1>2, <1>3 DEF IteratorsAgree

(* A step of the iterator that works in the context: the others are no     *)
(* part of it, so only what it has come to has to be looked at.            *)
LEMMA WorkingStep ==
  ASSUME IteratorsAgree, TypeInv, NEW i \in Iterators, pc[i] \in OnHost,
         NEW to \in OnHost \cup {"yielded", "ended"},
         pc' = [pc EXCEPT ![i] = to], UNCHANGED <<active, entries, of, entry>>,
         to # "ended" => Place(i)',
         ~running'[active] => pending'[active] = NoJob /\ consuming'[active] = NoJob
  PROVE  IteratorsAgree'
<1>1. /\ of[i] = active /\ active \in Pipelines /\ active # None
      /\ entry[i] = entries[active]
      /\ \A k \in Iterators : Current(k) => k = i
      /\ \A k \in Iterators : pc[k] \in OnHost => k = i
  BY WorkingFact
<1>2. pc'[i] = to /\ \A k \in Iterators : k # i => pc'[k] = pc[k]
  BY TypesFact
<1>3. \A k \in Iterators : Current(k)' => k = i /\ to # "ended"
  BY <1>1, <1>2, PlacesFact DEF Current, Live, OnHost
<1>4. \A k \in Iterators : pc'[k] \in OnHost => k = i /\ Current(k)'
  BY <1>1, <1>2 DEF Current, Live
<1>5. ~running'[active'] => pending'[active'] = NoJob /\ consuming'[active'] = NoJob
  OBVIOUS
<1>6. \A k \in Iterators : Current(k)' => Place(k)'
  BY <1>3
<1> QED BY <1>3, <1>4, <1>5, <1>6 DEF IteratorsAgree

(* The same for the contexts: only those of the other pipelines count.     *)
LEMMA ContextsStep ==
  ASSUME ContextsAgree, TypeInv, NEW i \in Iterators, pc[i] \in Live,
         NEW to \in Live \cup {"ended"},
         pc' = [pc EXCEPT ![i] = to],
         UNCHANGED <<active, entries, of, entry, modelVars>>,
         \A p \in Pipelines : p # active =>
           running'[p] = running[p] /\ pending'[p] = pending[p] /\ consuming'[p] = consuming[p]
  PROVE  ContextsAgree'
<1>1. \A k \in Iterators : pc'[k] \in Live => pc[k] \in Live
  BY TypesFact
<1> QED BY <1>1 DEF ContextsAgree, modelVars

LEMMA EnterKeeps ==
  ASSUME TypeInv, ContextsAgree, IteratorsAgree, \A j \in inflight : Kept(j),
         NEW p \in Pipelines, Enter(p)
  PROVE  ContextsAgree' /\ IteratorsAgree' /\ \A j \in inflight' : Kept(j)'
<1>1. /\ active = None /\ ~undrained /\ active' = p /\ p # None
      /\ entries' = [entries EXCEPT ![p] = @ + 1]
      /\ UNCHANGED <<running, pending, consuming, current, consumed, iteratorVars,
                     gpuVars, modelVars, stale>>
      /\ \A i \in Iterators : pc[i] \notin OnHost
  BY DEF Enter, HostFree
<1>2. UNCHANGED <<pc, of, entry, todo, jobs, inflight, failedKeep, undrained, modelKeep>>
  BY <1>1 DEF iteratorVars, gpuVars, modelVars
<1>3. entries'[p] = entries[p] + 1 /\ \A q \in Pipelines : entries'[q] >= entries[q]
  BY <1>1, TypesFact
<1>4. ContextsAgree'
  <2>1. ASSUME NEW i \in Iterators, pc[i] \in Live PROVE entry[i] <= entries'[of[i]]
    <3>1. of[i] \in Pipelines /\ entry[i] <= entries[of[i]]
      BY <2>1, TypesFact DEF ContextsAgree
    <3>2. entry[i] \in Nat /\ entries[of[i]] \in Nat /\ entries'[of[i]] \in Nat
      BY <1>1, <3>1, TypesFact
    <3> QED BY <1>3, <3>1, <3>2
  <2> QED BY <1>1, <1>2, <2>1 DEF ContextsAgree
<1>5. \A i \in Iterators : ~Current(i)'
  <2>1. ASSUME NEW i \in Iterators, pc[i] \in Live, of[i] = p PROVE entry[i] # entries'[p]
    <3>1. entry[i] <= entries[p] /\ entry[i] \in Nat /\ entries[p] \in Nat
      BY <2>1, TypesFact DEF ContextsAgree
    <3> QED BY <1>3, <3>1
  <2> QED BY <1>1, <1>2, <2>1 DEF Current
<1>6. ~running[p] /\ pending[p] = NoJob /\ consuming[p] = NoJob
  BY <1>1 DEF ContextsAgree
<1>7. IteratorsAgree'
  BY <1>1, <1>2, <1>5, <1>6 DEF IteratorsAgree
<1>8. \A j \in inflight' : Kept(j)'
  BY <1>1, <1>2 DEF Kept
<1> QED BY <1>4, <1>7, <1>8

LEMMA ExitKeeps ==
  ASSUME TypeInv, ContextsAgree, IteratorsAgree, \A j \in inflight : Kept(j),
         NEW p \in Pipelines, Exit(p)
  PROVE  ContextsAgree' /\ IteratorsAgree' /\ \A j \in inflight' : Kept(j)'
<1>1. /\ active = p /\ p # None /\ active' = None /\ ~undrained
      /\ running' = [running EXCEPT ![p] = FALSE]
      /\ UNCHANGED <<entries, pc, of, entry, jobs, failedKeep>>
      /\ \A i \in Iterators : pc[i] \notin OnHost
  BY DEF Exit, HostFree, iteratorVars, ContextsAgree
<1>2. IteratorsAgree'
  BY <1>1 DEF IteratorsAgree, Current
<1>3. \A q \in Pipelines : q # p => ~running[q] /\ pending[q] = NoJob /\ consuming[q] = NoJob
  BY <1>1 DEF ContextsAgree
<1>4. \A q \in Pipelines : ~running'[q]
  BY <1>1, <1>3, TypesFact
<1>5. modelKeep = {} /\ \A i \in Iterators : pc[i] \in Live => entry[i] <= entries[of[i]]
  BY <1>1 DEF ContextsAgree
<1>6. CASE /\ inflight' = Other(p, inflight) /\ UNCHANGED <<undrained, modelKeep>>
           /\ pending' = [pending EXCEPT ![p] = NoJob]
           /\ consuming' = [consuming EXCEPT ![p] = NoJob]
  <2>1. \A q \in Pipelines : pending'[q] = NoJob /\ consuming'[q] = NoJob
    BY <1>3, <1>6, TypesFact
  <2>2. ContextsAgree'
    BY <1>1, <1>4, <1>5, <1>6, <2>1 DEF ContextsAgree
  <2>3. ASSUME NEW j \in inflight' PROVE Kept(j)'
    <3>1. j \in inflight /\ jobs[j].stream # p
      BY <1>6, <2>3 DEF Other
    <3> QED BY <1>1, <1>6, <3>1 DEF Kept
  <2> QED BY <1>2, <2>2, <2>3
<1>7. CASE /\ undrained' = TRUE /\ modelKeep' = {pending[p], consuming[p]} \ {NoJob}
           /\ UNCHANGED <<inflight, pending, consuming>>
  <2>1. ContextsAgree'
    BY <1>1, <1>5, <1>7 DEF ContextsAgree
  <2>2. ASSUME NEW j \in inflight' PROVE Kept(j)'
    BY <1>1, <1>5, <1>7, <2>2, TypesFact DEF Kept
  <2> QED BY <1>2, <2>1, <2>2
<1> QED BY <1>6, <1>7 DEF Exit, modelVars

LEMMA BeginKeeps ==
  ASSUME TypeInv, ContextsAgree, IteratorsAgree, \A j \in inflight : Kept(j),
         NEW i \in Iterators, NEW p \in Pipelines, NEW frames \in IndexLists,
         Begin(i, p, frames)
  PROVE  ContextsAgree' /\ IteratorsAgree' /\ \A j \in inflight' : Kept(j)'
<1>1. /\ pc[i] = "new" /\ p # None
      /\ \A k \in Iterators : pc[k] \notin OnHost
      /\ of' = [of EXCEPT ![i] = p] /\ entry' = [entry EXCEPT ![i] = entries[p]]
      /\ todo' = [todo EXCEPT ![i] = frames]
      /\ UNCHANGED <<active, pending, consuming, current, consumed, entries, gpuVars,
                     modelVars, stale>>
  BY DEF Begin, HostFree
<1>2. \A j \in inflight' : Kept(j)'
  BY <1>1 DEF Kept, gpuVars, modelVars
<1>3. /\ of'[i] = p /\ entry'[i] = entries[p] /\ todo'[i] = frames
      /\ \A k \in Iterators : k # i =>
           of'[k] = of[k] /\ entry'[k] = entry[k] /\ todo'[k] = todo[k]
  BY <1>1, TypesFact
<1>4. entries[p] \in Nat
  BY TypesFact
<1>5. CASE pc' = [pc EXCEPT ![i] = "ended"] /\ UNCHANGED running
  <2>1. pc'[i] = "ended" /\ \A k \in Iterators : k # i => pc'[k] = pc[k]
    BY <1>5, TypesFact
  <2>2. ContextsAgree'
    BY <1>1, <1>3, <1>5, <2>1, PlacesFact DEF ContextsAgree, modelVars
  <2>3. \A k \in Iterators : Current(k)' => k # i /\ Current(k)
    BY <1>1, <1>3, <2>1, PlacesFact DEF Current
  <2>4. \A k \in Iterators : Current(k)' => Place(k)'
    BY <1>1, <1>3, <1>5, <2>1, <2>3 DEF IteratorsAgree, Place
  <2>5. \A k \in Iterators : pc'[k] \notin OnHost
    BY <1>1, <2>1 DEF OnHost
  <2>6. IteratorsAgree'
    BY <1>1, <1>5, <2>3, <2>4, <2>5 DEF IteratorsAgree
  <2> QED BY <1>2, <2>2, <2>6
<1>6. CASE /\ active = p /\ ~running[p]
           /\ pc' = [pc EXCEPT ![i] = "launch"]
           /\ running' = [running EXCEPT ![p] = TRUE]
  <2>1. pc'[i] = "launch" /\ \A k \in Iterators : k # i => pc'[k] = pc[k]
    BY <1>6, TypesFact
  <2>2. running'[p] = TRUE /\ \A q \in Pipelines : q # p => running'[q] = running[q]
    BY <1>6, TypesFact
  <2>3. ContextsAgree'
    <3>1. ASSUME NEW k \in Iterators, pc'[k] \in Live PROVE entry'[k] <= entries[of'[k]]
      <4>1. CASE k = i
        BY <1>3, <1>4, <4>1
      <4>2. CASE k # i
        BY <1>3, <2>1, <3>1, <4>2 DEF ContextsAgree
      <4> QED BY <4>1, <4>2
    <3> QED BY <1>1, <1>6, <2>2, <3>1 DEF ContextsAgree, modelVars
  <2>4. \A k \in Iterators : ~Current(k)
    BY <1>1, <1>6 DEF IteratorsAgree, Place
  <2>5. \A k \in Iterators : Current(k)' => k = i
    BY <1>1, <1>3, <2>1, <2>4 DEF Current
  <2>6. pending[p] = NoJob /\ consuming[p] = NoJob
    BY <1>1, <1>6 DEF IteratorsAgree
  <2>7. Current(i)' /\ Place(i)'
    BY <1>1, <1>3, <1>6, <2>1, <2>2, <2>6, PlacesFact DEF Current, Place
  <2>8. \A k \in Iterators : pc'[k] \in OnHost => k = i
    BY <1>1, <2>1
  <2> HIDE DEF Current, Place
  <2>9. IteratorsAgree'
    BY <1>1, <1>6, <2>2, <2>5, <2>7, <2>8 DEF IteratorsAgree
  <2> QED BY <1>2, <2>3, <2>9
<1> QED BY <1>5, <1>6 DEF Begin

LEMMA PrefetchKeeps ==
  ASSUME TypeInv, ContextsAgree, IteratorsAgree, \A j \in inflight : Kept(j),
         NEW i \in Iterators, PrefetchFirst(i) \/ PrefetchAhead(i)
  PROVE  ContextsAgree' /\ IteratorsAgree' /\ \A j \in inflight' : Kept(j)'
<1>1. /\ pc[i] \in {"launch", "ahead"} /\ pc[i] \in OnHost /\ pc[i] \in Live /\ Grown
      /\ UNCHANGED <<active, running, consuming, current, entries, of, entry, todo,
                     undrained, modelKeep, stale>>
  BY PrefetchFact DEF OnHost, Live, modelVars
<1>2. /\ of[i] = active /\ active \in Pipelines /\ active # None /\ Place(i)
  BY <1>1, WorkingFact
<1>3. CASE /\ pc' = [pc EXCEPT ![i] = IF pc[i] = "launch" THEN "take" ELSE "forward"]
           /\ pending' = [pending EXCEPT ![of[i]] = NextJob]
           /\ NextJob \in Jobs \ {NoJob} /\ jobs'[NextJob].stream = of[i]
           /\ inflight' = inflight \cup {NextJob}
  <2> DEFINE to == IF pc[i] = "launch" THEN "take" ELSE "forward"
  <2>1. /\ pending'[active] = NextJob
        /\ \A q \in Pipelines : q # active => pending'[q] = pending[q]
    BY <1>2, <1>3, TypesFact
  <2>2. /\ pc'[i] = to /\ to \in OnHost \cup {"yielded", "ended"}
        /\ to \in Live \cup {"ended"}
    BY <1>1, <1>3, TypesFact DEF OnHost, Live
  <2>3. Place(i)'
    <3>1. pc[i] = "ahead" => Len(todo[i]) # 1
      BY TypesFact
    <3> QED BY <1>1, <1>2, <2>2, <3>1 DEF Place
  <2>4. running'[active]
    BY <1>1, <1>2 DEF Place
  <2>5. IteratorsAgree'
    BY <1>1, <1>3, <2>2, <2>3, <2>4, WorkingStep
  <2>6. ContextsAgree'
    BY <1>1, <1>3, <2>1, <2>2, ContextsStep DEF modelVars
  <2>7. ASSUME NEW j, j = NextJob PROVE Kept(j)'
    BY <1>1, <1>2, <1>3, <2>1, <2>7 DEF Kept
  <2>8. ASSUME NEW j \in inflight PROVE Kept(j)'
    <3>1. j # NoJob
      BY TypesFact
    <3>2. pending[active] \in {NoJob, consuming[active]}
      BY <1>1, <1>2 DEF Place
    <3>3. j \in {pending[active], consuming[active]} => j = consuming'[active]
      BY <1>1, <3>1, <3>2
    <3> QED BY <1>1, <3>3, StillKept
  <2> QED BY <1>3, <2>5, <2>6, <2>7, <2>8
<1>4. CASE /\ pc' = [pc EXCEPT ![i] = "ended"] /\ UNCHANGED pending
           /\ inflight' \subseteq inflight \cup failedKeep'
  <2>1. running'[active]
    BY <1>1, <1>2 DEF Place
  <2>2. IteratorsAgree'
    BY <1>1, <1>4, <2>1, WorkingStep
  <2>3. ContextsAgree'
    BY <1>1, <1>4, ContextsStep DEF modelVars
  <2>4. ASSUME NEW j \in inflight' PROVE Kept(j)'
    <3>1. CASE j \in inflight
      BY <1>1, <1>4, <3>1, StillKept
    <3>2. CASE j \in failedKeep'
      BY <3>2 DEF Kept
    <3> QED BY <1>4, <3>1, <3>2
  <2> QED BY <2>2, <2>3, <2>4
<1> QED BY <1>3, <1>4, PrefetchFact

LEMMA TakeKeeps ==
  ASSUME TypeInv, ContextsAgree, IteratorsAgree, \A j \in inflight : Kept(j),
         NEW i \in Iterators, Take(i)
  PROVE  ContextsAgree' /\ IteratorsAgree' /\ \A j \in inflight' : Kept(j)'
<1>1. /\ pc[i] = "take" /\ pc[i] \in OnHost /\ pc[i] \in Live
      /\ consuming' = [consuming EXCEPT ![of[i]] = pending[of[i]]]
      /\ UNCHANGED <<active, running, entries, of, entry, todo, jobs, inflight, failedKeep,
                     undrained, modelKeep, stale>>
  BY DEF Take, OnHost, Live, gpuVars, modelVars
<1>2. /\ of[i] = active /\ active \in Pipelines /\ active # None /\ Place(i)
  BY <1>1, WorkingFact
<1>3. /\ consuming'[active] = pending[active]
      /\ \A q \in Pipelines : q # active => consuming'[q] = consuming[q]
  BY <1>1, <1>2, TypesFact
<1>4. running[active] /\ consuming[active] = NoJob
  BY <1>1, <1>2 DEF Place
<1>5. ASSUME NEW to \in {"ahead", "forward", "ended"}, pc' = [pc EXCEPT ![i] = to],
             to # "ended" => Place(i)',
             \A q \in Pipelines : q # active => pending'[q] = pending[q]
      PROVE  ContextsAgree' /\ IteratorsAgree' /\ \A j \in inflight' : Kept(j)'
  <2>1. to \in OnHost \cup {"yielded", "ended"} /\ to \in Live \cup {"ended"}
    BY DEF OnHost, Live
  <2>2. IteratorsAgree'
    BY <1>1, <1>4, <1>5, <2>1, WorkingStep
  <2>3. ContextsAgree'
    BY <1>1, <1>3, <1>5, <2>1, ContextsStep DEF modelVars
  <2>4. ASSUME NEW j \in inflight PROVE Kept(j)'
    <3>1. Grown
      BY <1>1, UnchangedGrown
    <3>2. j \in {pending[active], consuming[active]} => j = consuming'[active]
      BY <1>3, <1>4, TypesFact
    <3> QED BY <1>1, <3>1, <3>2, StillKept
  <2> QED BY <1>1, <2>2, <2>3, <2>4
<1>6. ASSUME NEW to \in {"ahead", "forward"}, NEW rest \in {pending[active], NoJob},
             pc' = [pc EXCEPT ![i] = to],
             current' = [current EXCEPT ![active] = pending[active]],
             pending' = [pending EXCEPT ![active] = rest],
             to = "forward" => rest = NoJob, to = "ahead" => rest = pending[active]
      PROVE  ContextsAgree' /\ IteratorsAgree' /\ \A j \in inflight' : Kept(j)'
  <2>1. /\ pc'[i] = to /\ current'[active] = pending[active] /\ pending'[active] = rest
        /\ \A q \in Pipelines : q # active => pending'[q] = pending[q]
    BY <1>2, <1>6, TypesFact
  <2>2. Place(i)'
    BY <1>1, <1>3, <1>4, <1>6, <2>1 DEF Place
  <2> QED BY <1>5, <1>6, <2>1, <2>2
<1>7. CASE pc' = [pc EXCEPT ![i] = "ended"] /\ UNCHANGED pending
  BY <1>5, <1>7
<1>8. CASE Len(todo[i]) = 1
  BY <1>2, <1>6, <1>7, <1>8 DEF Take, Goto
<1>9. CASE Len(todo[i]) # 1
  BY <1>2, <1>6, <1>7, <1>9 DEF Take, Goto
<1> QED BY <1>8, <1>9

LEMMA ForwardReturnsKeeps ==
  ASSUME TypeInv, ContextsAgree, IteratorsAgree, \A j \in inflight : Kept(j),
         NEW i \in Iterators, ForwardReturns(i)
  PROVE  ContextsAgree' /\ IteratorsAgree' /\ \A j \in inflight' : Kept(j)'
<1> DEFINE last == Len(todo[i]) = 1
           to == IF last THEN "ended" ELSE "yielded"
<1>1. /\ pc[i] = "forward" /\ pc[i] \in OnHost /\ pc[i] \in Live
      /\ pc' = [pc EXCEPT ![i] = to]
      /\ inflight' = Other(of[i], inflight) \cup {j \in inflight : j > current[of[i]]}
      /\ consuming' = [consuming EXCEPT ![of[i]] = NoJob]
      /\ running' = [running EXCEPT ![of[i]] = ~last]
      /\ todo' = [todo EXCEPT ![i] = Tail(@)]
      /\ UNCHANGED <<active, pending, current, entries, of, entry, jobs, failedKeep,
                     undrained, modelKeep, stale>>
  BY DEF ForwardReturns, Goto, OnHost, Live, modelVars
<1>2. /\ of[i] = active /\ active \in Pipelines /\ active # None /\ Place(i)
  BY <1>1, WorkingFact
<1>3. /\ consuming'[active] = NoJob /\ running'[active] = ~last
      /\ \A q \in Pipelines : q # active =>
           consuming'[q] = consuming[q] /\ running'[q] = running[q]
  BY <1>1, <1>2, TypesFact
<1>4. consuming[active] = current[active] /\ (last => pending[active] = NoJob)
  BY <1>1, <1>2 DEF Place
<1>5. pc'[i] = to /\ to \in OnHost \cup {"yielded", "ended"} /\ to \in Live \cup {"ended"}
  BY <1>1, TypesFact DEF Live
<1>6. to # "ended" => Place(i)'
  <2> SUFFICES ASSUME ~last PROVE Place(i)'
    OBVIOUS
  <2>1. /\ pc'[i] = "yielded" /\ active' = active
        /\ running'[active] = TRUE /\ consuming'[active] = NoJob
    BY <1>1, <1>3, <1>5
  <2> QED BY <2>1 DEF Place
<1>7. IteratorsAgree'
  BY <1>1, <1>3, <1>4, <1>5, <1>6, WorkingStep
<1>8. ContextsAgree'
  BY <1>1, <1>3, <1>5, ContextsStep DEF modelVars
<1>9. ASSUME NEW j \in inflight' PROVE Kept(j)'
  <2>1. j \in inflight /\ (jobs[j].stream # active \/ j > current[active])
    BY <1>1, <1>2, <1>9 DEF Other
  <2>2. Grown
    BY <1>1, UnchangedGrown
  <2>3. CASE jobs[j].stream # active
    BY <1>1, <2>1, <2>3 DEF Kept
  <2>4. CASE j > current[active]
    <3>1. j # consuming[active]
      BY <1>2, <1>4, <2>1, <2>4, CurrentFact
    <3> QED BY <1>1, <2>1, <2>2, <3>1, StillKept
  <2> QED BY <2>1, <2>3, <2>4
<1> QED BY <1>7, <1>8, <1>9

LEMMA ForwardRaisesKeeps ==
  ASSUME TypeInv, ContextsAgree, IteratorsAgree, \A j \in inflight : Kept(j),
         NEW i \in Iterators, ForwardRaises(i)
  PROVE  ContextsAgree' /\ IteratorsAgree' /\ \A j \in inflight' : Kept(j)'
<1>1. /\ pc[i] = "forward" /\ pc[i] \in OnHost /\ pc[i] \in Live
      /\ pc' = [pc EXCEPT ![i] = "ended"]
      /\ UNCHANGED <<active, running, pending, consuming, entries, of, entry, jobs, inflight,
                     failedKeep, undrained, modelKeep, stale>>
  BY DEF ForwardRaises, Goto, OnHost, Live, gpuVars, modelVars
<1>2. running'[active]
  BY <1>1, WorkingFact DEF Place
<1>3. IteratorsAgree'
  BY <1>1, <1>2, WorkingStep
<1>4. ContextsAgree'
  BY <1>1, ContextsStep DEF modelVars
<1>5. \A j \in inflight' : Kept(j)'
  BY <1>1 DEF Kept
<1> QED BY <1>3, <1>4, <1>5

LEMMA ResumeKeeps ==
  ASSUME TypeInv, ContextsAgree, IteratorsAgree, \A j \in inflight : Kept(j),
         NEW i \in Iterators, Resume(i), ~stale'
  PROVE  ContextsAgree' /\ IteratorsAgree' /\ \A j \in inflight' : Kept(j)'
<1> DEFINE to == IF active = of[i] THEN "take" ELSE "ended"
<1>1. /\ pc[i] = "yielded" /\ pc[i] \in Live /\ pc' = [pc EXCEPT ![i] = to]
      /\ ~(active = of[i] /\ entry[i] # entries[of[i]])
      /\ UNCHANGED <<active, running, pending, consuming, current, entries, of, entry, todo,
                     jobs, inflight, failedKeep, undrained, modelKeep>>
      /\ \A k \in Iterators : pc[k] \notin OnHost
  BY DEF Resume, Goto, HostFree, Live, contextVars, gpuVars, modelVars
<1>2. /\ pc'[i] = to /\ to \in Live \cup {"ended"}
      /\ \A k \in Iterators : k # i => pc'[k] = pc[k]
  BY <1>1, TypesFact DEF Live, OnHost
<1>3. ContextsAgree'
  BY <1>1, <1>2, ContextsStep DEF modelVars
<1>4. \A j \in inflight' : Kept(j)'
  BY <1>1 DEF Kept
<1>5. of[i] \in Pipelines /\ of[i] # None
  BY <1>1, TypesFact
<1>6. \A k \in Iterators : Current(k)' => Current(k)
  BY <1>1, <1>2, PlacesFact DEF Current
<1>7. to = "take" => Current(i) /\ Current(i)' /\ Place(i)'
  <2>1. SUFFICES ASSUME to = "take" PROVE Current(i) /\ Current(i)' /\ Place(i)'
    OBVIOUS
  <2>2. active = of[i] /\ entry[i] = entries[of[i]]
    BY <1>1, <2>1
  <2>3. Current(i) /\ Current(i)'
    BY <1>1, <1>2, <1>5, <2>1, <2>2, PlacesFact DEF Current
  <2>4. Place(i)
    BY <2>3 DEF IteratorsAgree
  <2> QED BY <1>1, <1>2, <2>1, <2>3, <2>4 DEF Place
<1>8. \A k \in Iterators : Current(k)' => Place(k)'
  <2>1. ASSUME NEW k \in Iterators, Current(k)' PROVE Place(k)'
    <3>1. CASE k = i
      BY <1>2, <1>7, <2>1, <3>1, PlacesFact DEF Current
    <3>2. CASE k # i
      BY <1>1, <1>2, <1>6, <2>1, <3>2 DEF IteratorsAgree, Place
    <3> QED BY <3>1, <3>2
  <2> QED BY <2>1
<1>9. \A k \in Iterators : pc'[k] \in OnHost => Current(k)'
  BY <1>1, <1>2, <1>7 DEF OnHost
<1>10. IteratorsAgree'
  BY <1>1, <1>6, <1>8, <1>9 DEF IteratorsAgree
<1> QED BY <1>3, <1>4, <1>10

LEMMA KeptStep == TypeInv /\ TypeInv' /\ KeptInv /\ [Next]_vars => KeptInv'
<1> SUFFICES ASSUME TypeInv, KeptInv, [Next]_vars, ~stale'
             PROVE  ContextsAgree' /\ IteratorsAgree' /\ \A j \in inflight' : Kept(j)'
  BY DEF KeptInv
<1> USE DEF contextVars, iteratorVars, gpuVars, modelVars
<1>0. ASSUME ~stale
      PROVE  ContextsAgree /\ IteratorsAgree /\ \A j \in inflight : Kept(j)
  BY <1>0 DEF KeptInv
<1>u. ASSUME UNCHANGED <<active, running, pending, consuming, current, entries, iteratorVars,
                         modelVars, stale>>,
             Grown, inflight' \subseteq inflight \cup failedKeep'
      PROVE  ContextsAgree' /\ IteratorsAgree' /\ \A j \in inflight' : Kept(j)'
  <2>1. ContextsAgree /\ IteratorsAgree /\ \A j \in inflight : Kept(j)
    BY <1>0, <1>u
  <2>2. ContextsAgree'
    BY <1>u, <2>1 DEF ContextsAgree
  <2>3. IteratorsAgree'
    BY <1>u, <2>1 DEF IteratorsAgree, Current, Place
  <2>4. ASSUME NEW j \in inflight' PROVE Kept(j)'
    <3>1. CASE j \in inflight
      BY <1>u, <2>1, <3>1, StillKept
    <3>2. CASE j \in failedKeep'
      BY <3>2 DEF Kept
    <3> QED BY <1>u, <3>1, <3>2
  <2> QED BY <2>2, <2>3, <2>4
<1>1. ASSUME NEW p \in Pipelines, Enter(p) \/ Exit(p)
      PROVE  ContextsAgree' /\ IteratorsAgree' /\ \A j \in inflight' : Kept(j)'
  <2>1. ~stale
    BY <1>1 DEF Enter, Exit
  <2> QED BY <1>0, <1>1, <2>1, EnterKeeps, ExitKeeps
<1>2. ASSUME NEW i \in Iterators, NEW p \in Pipelines, NEW frames \in IndexLists,
             Begin(i, p, frames)
      PROVE  ContextsAgree' /\ IteratorsAgree' /\ \A j \in inflight' : Kept(j)'
  <2>1. ~stale
    BY <1>2 DEF Begin
  <2> QED BY <1>0, <1>2, <2>1, BeginKeeps
<1>3. ASSUME NEW i \in Iterators, PrefetchFirst(i) \/ PrefetchAhead(i)
      PROVE  ContextsAgree' /\ IteratorsAgree' /\ \A j \in inflight' : Kept(j)'
  <2>1. ~stale
    BY <1>3, PrefetchFact
  <2> QED BY <1>0, <1>3, <2>1, PrefetchKeeps
<1>4. ASSUME NEW i \in Iterators,
             Take(i) \/ ForwardReturns(i) \/ ForwardRaises(i) \/ Resume(i)
      PROVE  ContextsAgree' /\ IteratorsAgree' /\ \A j \in inflight' : Kept(j)'
  <2>1. ~stale
    BY <1>4 DEF Take, ForwardReturns, ForwardRaises, Resume
  <2> QED
    BY <1>0, <1>4, <2>1, TakeKeeps, ForwardReturnsKeeps, ForwardRaisesKeeps, ResumeKeeps
<1>5. ASSUME NEW frames \in IndexLists, frames # <<>>, DirectForward(Head(frames))
      PROVE  ContextsAgree' /\ IteratorsAgree' /\ \A j \in inflight' : Kept(j)'
  <2>1. GpuTyped /\ Head(frames) \in Nat
    BY <1>5, FramesFact DEF TypeInv
  <2>2. /\ Grown /\ inflight' \subseteq inflight \cup failedKeep'
        /\ UNCHANGED <<contextVars, iteratorVars, modelVars, stale>>
    BY <1>5, <2>1, DirectFact
  <2> QED BY <1>u, <2>2
<1>6. ASSUME NEW frames \in IndexLists, NEW p \in Pipelines, ModelCall(p, Head(frames))
      PROVE  ContextsAgree' /\ IteratorsAgree' /\ \A j \in inflight' : Kept(j)'
  BY <1>6, <1>u, UnchangedGrown DEF ModelCall
<1>7. ASSUME NEW j \in 1..Len(jobs), Finish(j)
      PROVE  ContextsAgree' /\ IteratorsAgree' /\ \A k \in inflight' : Kept(k)'
  BY <1>7, <1>u, UnchangedGrown DEF Finish
<1>8. CASE UNCHANGED vars
  BY <1>8, <1>u, UnchangedGrown DEF vars
<1> QED BY <1>1, <1>2, <1>3, <1>4, <1>5, <1>6, <1>7, <1>8 DEF Next

(* Whatever raises, whoever leaves early: the buffers of a job that the    *)
(* GPU has not finished are referenced, unless an iterator that outlived   *)
(* its context was resumed in a later one.                                 *)
THEOREM BuffersAreHeld == Spec => []BuffersHeld
<1>1. TypeInv /\ KeptInv => BuffersHeld
  <2> SUFFICES ASSUME TypeInv, KeptInv, ~stale, NEW j \in inflight PROVE Held(j)
    BY DEF BuffersHeld
  <2>1. Kept(j) /\ active \in Streams
    BY TypesFact DEF KeptInv
  <2> QED BY <2>1 DEF Kept, Held
<1> QED BY <1>1, TypeInit, TypeStep, KeptInit, KeptStep, PTL DEF Spec

-----------------------------------------------------------------------------
(* Features.                                                               *)
(* A job for a frame, and what the iterator of the context has ready at    *)
(* each place it can be at: the pending job is for the frame it will call  *)
(* the model with next, the current one for the frame it calls it with.    *)
For(j, frame) == j \in 1..Len(jobs) /\ jobs[j].frame = frame

Ready(i) ==
  /\ pc[i] \in {"take", "yielded"} => For(pending[active], Head(todo[i]))
  /\ pc[i] \in {"ahead", "forward"} =>
       For(current[active], Head(todo[i])) /\ ~consumed[active]
  /\ pc[i] = "forward" /\ Len(todo[i]) # 1 =>
       For(pending[active], Head(Tail(todo[i])))

ReadyInv == ~stale => \A i \in Iterators : Current(i) => Ready(i)

LEMMA ForGrown ==
  ASSUME GpuTyped, GpuTyped', Grown, NEW j, NEW frame, For(j, frame)
  PROVE  For(j, frame)'
BY DEF GpuTyped, Grown, For

LEMMA ReadyInit == Init => ReadyInv
BY DEF Init, ReadyInv, Current, Live, OnHost

(* A step that leaves an iterator alone, and what is ready for it too; one *)
(* that is suspended does not mind whether the last features were used.    *)
LEMMA StillReady ==
  ASSUME TypeInv, TypeInv', Grown, NEW i \in Iterators, Ready(i),
         UNCHANGED <<active, pending, current>>,
         pc'[i] = pc[i], todo'[i] = todo[i],
         pc[i] \in OnHost => UNCHANGED consumed
  PROVE  Ready(i)'
<1>1. \A j, frame : For(j, frame) => For(j, frame)'
  BY ForGrown DEF TypeInv
<1> QED BY <1>1 DEF Ready, OnHost

(* A step of the iterator that works in the context.                       *)
LEMMA WorkerReady ==
  ASSUME IteratorsAgree, TypeInv, NEW i \in Iterators, pc[i] \in OnHost,
         NEW to \in Live \cup {"ended"}, pc' = [pc EXCEPT ![i] = to],
         UNCHANGED <<active, entries, of, entry>>, to # "ended" => Ready(i)'
  PROVE  \A k \in Iterators : Current(k)' => Ready(k)'
<1>1. \A k \in Iterators : Current(k) => k = i
  BY WorkingFact
<1>2. pc'[i] = to /\ \A k \in Iterators : k # i => pc'[k] = pc[k]
  BY TypesFact
<1>3. \A k \in Iterators : Current(k)' => k = i /\ to # "ended"
  BY <1>1, <1>2, PlacesFact DEF Current
<1> QED BY <1>3

LEMMA PrefetchReady ==
  ASSUME TypeInv, TypeInv', ContextsAgree, IteratorsAgree,
         \A k \in Iterators : Current(k) => Ready(k),
         NEW i \in Iterators, PrefetchFirst(i) \/ PrefetchAhead(i)
  PROVE  \A k \in Iterators : Current(k)' => Ready(k)'
<1>1. /\ pc[i] \in {"launch", "ahead"} /\ pc[i] \in OnHost /\ Grown /\ Current(i)
      /\ UNCHANGED <<active, running, consuming, current, consumed, entries, of, entry, todo>>
  BY PrefetchFact DEF OnHost, IteratorsAgree
<1>2. of[i] = active /\ active \in Pipelines
  BY <1>1, WorkingFact
<1>3. CASE /\ pc' = [pc EXCEPT ![i] = IF pc[i] = "launch" THEN "take" ELSE "forward"]
           /\ pending' = [pending EXCEPT ![of[i]] = NextJob]
           /\ NextJob \in Jobs \ {NoJob}
           /\ jobs'[NextJob].frame =
                IF pc[i] = "launch" THEN Head(todo[i]) ELSE Head(Tail(todo[i]))
           /\ inflight' = inflight \cup {NextJob}
  <2> DEFINE to == IF pc[i] = "launch" THEN "take" ELSE "forward"
  <2>1. pc'[i] = to /\ pending'[active] = NextJob
    BY <1>2, <1>3, TypesFact
  <2>2. NextJob \in 1..Len(jobs')
    BY <1>3 DEF TypeInv, GpuTyped
  <2>3. /\ pc[i] = "launch" => For(pending[active], Head(todo[i]))'
        /\ pc[i] = "ahead" => For(pending[active], Head(Tail(todo[i])))'
    BY <1>1, <1>3, <2>1, <2>2 DEF For
  <2>4. pc[i] = "ahead" => For(current[active], Head(todo[i]))' /\ ~consumed'[active]
    BY <1>1, ForGrown DEF Ready, TypeInv
  <2>5. Ready(i)'
    BY <1>1, <2>1, <2>3, <2>4 DEF Ready
  <2>6. to \in Live \cup {"ended"}
    BY PlacesFact
  <2> QED BY <1>1, <1>3, <2>5, <2>6, WorkerReady
<1>4. CASE pc' = [pc EXCEPT ![i] = "ended"]
  BY <1>1, <1>4, WorkerReady
<1> QED BY <1>3, <1>4, PrefetchFact

LEMMA TakeReady ==
  ASSUME TypeInv, TypeInv', ContextsAgree, IteratorsAgree,
         \A k \in Iterators : Current(k) => Ready(k),
         NEW i \in Iterators, Take(i)
  PROVE  \A k \in Iterators : Current(k)' => Ready(k)'
<1>1. /\ pc[i] = "take" /\ pc[i] \in OnHost /\ Current(i)
      /\ UNCHANGED <<active, entries, of, entry, todo, jobs>>
  BY DEF Take, OnHost, IteratorsAgree, gpuVars
<1>2. of[i] = active /\ active \in Pipelines
  BY <1>1, WorkingFact
<1>3. For(pending[active], Head(todo[i]))
  BY <1>1 DEF Ready
<1>4. ASSUME NEW to \in {"ahead", "forward"}, pc' = [pc EXCEPT ![i] = to],
             to = "forward" => Len(todo[i]) = 1,
             current' = [current EXCEPT ![active] = pending[active]],
             consumed' = [consumed EXCEPT ![active] = FALSE]
      PROVE  \A k \in Iterators : Current(k)' => Ready(k)'
  <2>1. pc'[i] = to /\ current'[active] = pending[active]
    BY <1>2, <1>4, TypesFact
  <2>2. ~consumed'[active]
    BY <1>2, <1>4 DEF TypeInv, ContextTyped
  <2>3. For(current[active], Head(todo[i]))'
    BY <1>1, <1>3, <2>1 DEF For
  <2>4. Ready(i)'
    BY <1>1, <1>4, <2>1, <2>2, <2>3 DEF Ready
  <2>5. to \in Live \cup {"ended"}
    BY PlacesFact
  <2> QED BY <1>1, <1>4, <2>4, <2>5, WorkerReady
<1>5. CASE pc' = [pc EXCEPT ![i] = "ended"]
  BY <1>1, <1>5, WorkerReady
<1>6. CASE Len(todo[i]) = 1
  BY <1>2, <1>4, <1>5, <1>6 DEF Take, Goto
<1>7. CASE Len(todo[i]) # 1
  BY <1>2, <1>4, <1>5, <1>7 DEF Take, Goto
<1> QED BY <1>6, <1>7

LEMMA ForwardReady ==
  ASSUME TypeInv, TypeInv', ContextsAgree, IteratorsAgree,
         \A k \in Iterators : Current(k) => Ready(k),
         NEW i \in Iterators, ForwardReturns(i) \/ ForwardRaises(i)
  PROVE  \A k \in Iterators : Current(k)' => Ready(k)'
<1>1. /\ pc[i] = "forward" /\ pc[i] \in OnHost /\ pc[i] \in Live /\ Current(i)
      /\ UNCHANGED <<active, entries, of, entry, jobs>>
  BY DEF ForwardReturns, ForwardRaises, Goto, OnHost, Live, IteratorsAgree, gpuVars
<1>2. CASE pc' = [pc EXCEPT ![i] = "ended"]
  BY <1>1, <1>2, WorkerReady
<1>3. CASE /\ Len(todo[i]) # 1 /\ pc' = [pc EXCEPT ![i] = "yielded"]
           /\ todo' = [todo EXCEPT ![i] = Tail(@)] /\ UNCHANGED pending
  <2>1. pc'[i] = "yielded" /\ todo'[i] = Tail(todo[i])
    BY <1>3, TypesFact
  <2>2. For(pending[active], Head(Tail(todo[i])))
    BY <1>1, <1>3 DEF Ready
  <2>3. For(pending[active], Head(todo[i]))'
    BY <1>1, <1>3, <2>1, <2>2 DEF For
  <2>4. Ready(i)'
    BY <2>1, <2>3 DEF Ready
  <2> QED BY <1>1, <1>3, <2>4, WorkerReady, PlacesFact
<1> QED BY <1>2, <1>3 DEF ForwardReturns, ForwardRaises, Goto

LEMMA ResumeReady ==
  ASSUME TypeInv, TypeInv', ContextsAgree, IteratorsAgree,
         \A k \in Iterators : Current(k) => Ready(k),
         NEW i \in Iterators, Resume(i), ~stale'
  PROVE  \A k \in Iterators : Current(k)' => Ready(k)'
<1> DEFINE to == IF active = of[i] THEN "take" ELSE "ended"
<1>1. /\ pc[i] = "yielded" /\ pc[i] \in Live /\ pc' = [pc EXCEPT ![i] = to]
      /\ ~(active = of[i] /\ entry[i] # entries[of[i]])
      /\ UNCHANGED <<active, pending, current, consumed, entries, of, entry, todo, jobs,
                     failedKeep>>
  BY DEF Resume, Goto, Live, contextVars, gpuVars
<1>2. pc'[i] = to /\ \A k \in Iterators : k # i => pc'[k] = pc[k]
  BY <1>1, TypesFact
<1>3. ASSUME NEW k \in Iterators, Current(k)' PROVE Ready(k)'
  <2>1. Current(k)
    BY <1>1, <1>2, <1>3, PlacesFact DEF Current
  <2>2. CASE k = i
    <3>1. pc'[i] = "take" /\ For(pending[active], Head(todo[i]))
      BY <1>1, <1>2, <1>3, <2>1, <2>2, PlacesFact DEF Current, Ready
    <3>2. For(pending[active], Head(todo[i]))'
      BY <1>1, <3>1 DEF For
    <3> QED BY <2>2, <3>1, <3>2 DEF Ready
  <2>3. CASE k # i
    BY <1>1, <1>2, <2>1, <2>3, StillReady, UnchangedGrown
  <2> QED BY <2>2, <2>3
<1> QED BY <1>3

LEMMA ReadyStep ==
  TypeInv /\ TypeInv' /\ KeptInv /\ ReadyInv /\ [Next]_vars => ReadyInv'
<1> SUFFICES ASSUME TypeInv, TypeInv', KeptInv, ReadyInv, [Next]_vars, ~stale'
             PROVE  \A k \in Iterators : Current(k)' => Ready(k)'
  BY DEF ReadyInv
<1> USE DEF contextVars, iteratorVars, gpuVars, modelVars
<1>0. ASSUME ~stale
      PROVE  /\ ContextsAgree /\ IteratorsAgree
             /\ \A k \in Iterators : Current(k) => Ready(k)
  BY <1>0 DEF KeptInv, ReadyInv
<1>u. ASSUME UNCHANGED <<active, pending, current, consumed, entries, iteratorVars, stale>>,
             Grown
      PROVE  \A k \in Iterators : Current(k)' => Ready(k)'
  <2>1. \A k \in Iterators : Current(k)' => Current(k) /\ Ready(k)
    BY <1>0, <1>u DEF Current
  <2> QED BY <1>u, <2>1, StillReady
<1>1. ASSUME NEW p \in Pipelines, Enter(p)
      PROVE  \A k \in Iterators : Current(k)' => Ready(k)'
  <2>1. ASSUME NEW i \in Iterators, pc[i] \in Live, of[i] = p PROVE entry[i] # entries'[p]
    <3>1. entry[i] <= entries[p] /\ entry[i] \in Nat /\ entries[p] \in Nat
      BY <1>0, <1>1, <2>1, TypesFact DEF ContextsAgree, Enter
    <3>2. entries'[p] = entries[p] + 1
      BY <1>1, TypesFact DEF Enter
    <3> QED BY <3>1, <3>2
  <2> QED BY <1>1, <2>1 DEF Enter, Current
<1>2. ASSUME NEW p \in Pipelines, Exit(p)
      PROVE  \A k \in Iterators : Current(k)' => Ready(k)'
  BY <1>2 DEF Exit, Current
<1>3. ASSUME NEW i \in Iterators, NEW p \in Pipelines, NEW frames \in IndexLists,
             Begin(i, p, frames)
      PROVE  \A k \in Iterators : Current(k)' => Ready(k)'
  <2>1. /\ UNCHANGED <<active, pending, current, consumed, entries, jobs, failedKeep, stale>>
        /\ pc'[i] \in {"ended", "launch"}
        /\ \A k \in Iterators : k # i =>
             pc'[k] = pc[k] /\ of'[k] = of[k] /\ entry'[k] = entry[k] /\ todo'[k] = todo[k]
    BY <1>3, TypesFact DEF Begin
  <2>2. Ready(i)'
    BY <2>1 DEF Ready
  <2>3. ASSUME NEW k \in Iterators, k # i, Current(k)' PROVE Ready(k)'
    <3>1. Current(k)
      BY <2>1, <2>3 DEF Current
    <3> QED BY <1>0, <2>1, <2>3, <3>1, StillReady, UnchangedGrown
  <2> QED BY <2>2, <2>3
<1>4. ASSUME NEW i \in Iterators, PrefetchFirst(i) \/ PrefetchAhead(i)
      PROVE  \A k \in Iterators : Current(k)' => Ready(k)'
  <2>1. ~stale
    BY <1>4, PrefetchFact
  <2> QED BY <1>0, <1>4, <2>1, PrefetchReady
<1>5. ASSUME NEW i \in Iterators,
             Take(i) \/ ForwardReturns(i) \/ ForwardRaises(i) \/ Resume(i)
      PROVE  \A k \in Iterators : Current(k)' => Ready(k)'
  <2>1. ~stale
    BY <1>5 DEF Take, ForwardReturns, ForwardRaises, Resume
  <2> QED BY <1>0, <1>5, <2>1, TakeReady, ForwardReady, ResumeReady
<1>6. ASSUME NEW frames \in IndexLists, frames # <<>>, DirectForward(Head(frames))
      PROVE  \A k \in Iterators : Current(k)' => Ready(k)'
  <2>1. GpuTyped /\ Head(frames) \in Nat
    BY <1>6, FramesFact DEF TypeInv
  <2>2. Grown /\ UNCHANGED <<contextVars, iteratorVars, modelVars, stale>>
    BY <1>6, <2>1, DirectFact
  <2> QED BY <1>u, <2>2
<1>7. ASSUME NEW frames \in IndexLists, NEW p \in Pipelines, ModelCall(p, Head(frames))
      PROVE  \A k \in Iterators : Current(k)' => Ready(k)'
  <2>1. /\ UNCHANGED <<active, pending, current, entries, pc, of, entry, todo, jobs,
                       failedKeep, stale>>
        /\ \A k \in Iterators : pc[k] \notin OnHost
    BY <1>7 DEF ModelCall, HostFree
  <2>2. \A k \in Iterators : Current(k)' => Current(k)
    BY <2>1 DEF Current
  <2> QED BY <1>0, <2>1, <2>2, StillReady, UnchangedGrown
<1>8. ASSUME NEW j \in 1..Len(jobs), Finish(j)
      PROVE  \A k \in Iterators : Current(k)' => Ready(k)'
  BY <1>8, <1>u, UnchangedGrown DEF Finish
<1>9. CASE UNCHANGED vars
  BY <1>9, <1>u, UnchangedGrown DEF vars
<1> QED BY <1>1, <1>2, <1>3, <1>4, <1>5, <1>6, <1>7, <1>8, <1>9 DEF Next

(* When run() calls the model, the features at hand are those of the frame *)
(* it calls it with, and unused: whichever launches and waits failed       *)
(* before, and however iterators, contexts and the consumer's own calls    *)
(* are mixed, no refusal of use_current stops a run (with the exception    *)
(* of an iterator that outlived its context and was resumed in a later     *)
(* one).                                                                   *)
THEOREM FeaturesAreReady == Spec => []FeaturesReady
<1>1. TypeInv /\ KeptInv /\ ReadyInv => FeaturesReady
  <2> SUFFICES ASSUME TypeInv, KeptInv, ReadyInv, ~stale,
                      NEW i \in Iterators, pc[i] = "forward"
               PROVE  Granted(of[i], Head(todo[i]))
    BY DEF FeaturesReady
  <2>1. Current(i) /\ of[i] = active
    BY DEF KeptInv, IteratorsAgree, OnHost, Current
  <2>2. For(current[active], Head(todo[i])) /\ ~consumed[active]
    BY <2>1 DEF ReadyInv, Ready
  <2>3. current[active] # NoJob
    BY <2>2 DEF For, TypeInv, GpuTyped
  <2> QED BY <2>1, <2>2, <2>3 DEF For, Granted
<1> QED BY <1>1, TypeInit, TypeStep, KeptInit, KeptStep, ReadyInit, ReadyStep, PTL DEF Spec

=============================================================================
