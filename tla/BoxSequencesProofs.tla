------------------------ MODULE BoxSequencesProofs -------------------------
(***************************************************************************)
(* Proofs about the box tracker and the programs that drive it, for any    *)
(* trackers, bank sizes and numbers of subjects, frames, calls and         *)
(* processes: the attention of a tracker gets the memories it is meant to  *)
(* get, a mask is only made from memories of subjects its own tracker was  *)
(* prompted with, and what a resumed evaluation writes is complete.        *)
(***************************************************************************)
EXTENDS BoxSequences, SequenceTheorems, TLAPS

Memories == [subject : Subjects, from : SUBSET Subjects]
Built == [own : Sizes, slots : Sizes]

FilesTyped ==
  /\ stored \in [Programs -> {"none", "torn", "whole"}]
  /\ launches \in Nat
  /\ partial \in [Paths -> Seq(Subjects) \cup {None, Torn}]
  /\ out \in [Paths -> Seq(Subjects) \cup {None, Torn}]

TrackersTyped ==
  /\ DOMAIN tracker = Trackers
  /\ bank \in [Trackers -> Seq(Memories)] /\ encoded \in [Trackers -> Seq(Memories)]
  /\ \A t \in Trackers :
       /\ tracker[t] = None => bank[t] = <<>> /\ encoded[t] = <<>>
       /\ tracker[t] # None => tracker[t] \in Built

(* A process runs with everything loaded; without one there is no tracker. *)
ProcessAgrees ==
  /\ run = None => misfit = FALSE
  /\ run # None =>
       /\ run \in Processes
       /\ \A p \in Programs : stored[p] = "whole"
       /\ run.kind = "client" => \A t \in Trackers : tracker[t] # None
       /\ run.kind # "client" =>
            /\ tracker[Solo] # None
            /\ run.phase # "next" => run.at[Solo] # 0
            /\ run.phase = "later" => encoded[Solo] # <<>>
            /\ run.phase = "record" => run.kind = "predictions"

(* A bank holds the newest memories, as many as its tracker keeps.         *)
Least(m, n) == IF m > n THEN n ELSE m
Latest(t) ==
  /\ Len(bank[t]) = Least(Len(encoded[t]), tracker[t].own)
  /\ \A i \in 1..Len(bank[t]) : bank[t][i] = encoded[t][i]

SubjectsOf(memories) == {m.subject : m \in ToSet(memories)}

(* Memories were made from subjects the tracker had been prompted with.    *)
BanksAgree ==
  \A t \in Trackers :
    /\ tracker[t] # None => Latest(t)
    /\ \A m \in ToSet(encoded[t]) : m.from \subseteq SubjectsOf(encoded[t])

(* What the last mask was made from is still in the history.               *)
Attended(from, own, seen) ==
  /\ Least(Len(from), own) > 0
  /\ \A i \in 1..Len(seen) :
       seen[i] = IF i <= Least(Len(from), own) THEN from[i] ELSE from[1]
MaskAgrees ==
  mask # None =>
    /\ mask.tracker \in Trackers
    /\ mask.seen # <<>> =>
         Attended(Tail(encoded[mask.tracker]), tracker[mask.tracker].own, mask.seen)
    /\ mask.from \subseteq SubjectsOf(encoded[mask.tracker])

Misfits(t) ==
  tracker[t] # None /\ (tracker[t].slots # Exported \/ tracker[t].own > tracker[t].slots)
MisfitAgrees == misfit => \E t \in Trackers : Misfits(t)

(* The programs that empty the bank, or have one subject, keep to it.      *)
Alone == run # None /\ run.kind \in Resetting \cup {"demo"}
AloneAgrees ==
  Alone =>
    /\ \A m \in ToSet(encoded[Solo]) : m.subject = run.at[Solo] /\ m.from = {run.at[Solo]}
    /\ mask # None => mask.from = {mask.subject}

(* A checkpoint lists the annotations up to one of them, and the process   *)
(* has recorded those before the one that it is at.                        *)
Counted(n) == [i \in 1..n |-> i]
Recorded == run.done = Counted(IF run.phase = "next" THEN run.at[Solo] ELSE run.at[Solo] - 1)
CheckpointsAgree ==
  exact =>
    /\ \A p \in Paths :
         /\ partial[p] = None \/ partial[p] = Torn \/
              \E n \in 0..MaxSubjects : partial[p] = Counted(n)
         /\ out[p] \in {None, Torn, Counted(MaxSubjects)}
    /\ run # None /\ run.kind = "predictions" /\ run.phase # "over" => Recorded

TypeInv == FilesTyped /\ TrackersTyped /\ ProcessAgrees
BoxInv == TypeInv /\ BanksAgree /\ MaskAgrees /\ MisfitAgrees /\ AloneAgrees /\ CheckpointsAgree

-----------------------------------------------------------------------------
(* Constants and loading.                                                  *)
USE TrackerAssumption, SequencesAssumption, ProcessAssumption

LEMMA ConstantsFact ==
  /\ Exported \in Nat \ {0} /\ \A s \in Sizes : s \in Nat \ {0}
  /\ Solo \in Trackers /\ None \notin Built
  /\ MaxSubjects \in Nat \ {0}
BY DEF Solo, Built

Stores == [Programs -> {"none", "torn", "whole"}]

(* A load so far: it goes on only with all of these programs whole.        *)
Loading(o, ps) ==
  /\ o \in [on : BOOLEAN, store : Stores]
  /\ o.on => \A p \in ps : o.store[p] = "whole"

LEMMA FetchedFact ==
  ASSUME NEW p \in Programs, NEW ps, ps \subseteq Programs, NEW store \in Stores,
         \A q \in ps : store[q] = "whole", NEW o \in Fetched(p, store)
  PROVE  Loading(o, ps \cup {p})
<1>1. store[p] \in {"none", "torn", "whole"}
  BY DEF Stores
<1>2. CASE store[p] = "whole"
  <2>1. o = [on |-> TRUE, store |-> store]
    BY <1>2 DEF Fetched
  <2> QED BY <1>2, <2>1 DEF Loading
<1>3. CASE store[p] = "torn"
  <2>1. o = [on |-> FALSE, store |-> store]
    BY <1>3 DEF Fetched
  <2> QED BY <2>1 DEF Loading
<1>4. CASE store[p] = "none"
  <2>1. \/ o = [on |-> TRUE, store |-> [store EXCEPT ![p] = "whole"]]
        \/ o = [on |-> FALSE, store |-> store]
        \/ o = [on |-> FALSE, store |-> [store EXCEPT ![p] = "torn"]]
    BY <1>4 DEF Fetched
  <2>2. /\ [store EXCEPT ![p] = "whole"] \in Stores /\ [store EXCEPT ![p] = "torn"] \in Stores
        /\ \A q \in ps \cup {p} : [store EXCEPT ![p] = "whole"][q] = "whole"
    BY DEF Stores
  <2>3. ASSUME NEW on \in BOOLEAN, NEW after \in Stores, o = [on |-> on, store |-> after],
               on => \A q \in ps \cup {p} : after[q] = "whole"
        PROVE  Loading(o, ps \cup {p})
    BY <2>3 DEF Loading
  <2> QED BY <2>1, <2>2, <2>3
<1> QED BY <1>1, <1>2, <1>3, <1>4

LEMMA ThenFact ==
  ASSUME NEW p \in Programs, NEW ps, ps \subseteq Programs, NEW outcomes,
         \A o \in outcomes : Loading(o, ps), NEW o \in Then(outcomes, p)
  PROVE  Loading(o, ps \cup {p})
<1>1. PICK before \in outcomes : o \in IF before.on THEN Fetched(p, before.store) ELSE {before}
  BY DEF Then
<1>2. before.store \in Stores /\ Loading(before, ps)
  BY DEF Loading
<1>3. CASE before.on
  <2>1. o \in Fetched(p, before.store) /\ \A q \in ps : before.store[q] = "whole"
    BY <1>1, <1>2, <1>3 DEF Loading
  <2> QED BY <1>2, <2>1, FetchedFact
<1>4. CASE ~before.on
  BY <1>1, <1>2, <1>4 DEF Loading
<1> QED BY <1>3, <1>4

LEMMA LoadsFact ==
  ASSUME stored \in Stores, NEW o \in Loads PROVE Loading(o, Programs)
<1> DEFINE backbone == Fetched("tuned", stored)
           initial == Then(backbone, "dec_init")
           decoders == Then(initial, "dec_prop")
           fetched == Then(decoders, "mem_enc")
<1>1. {"tuned", "dec_init", "dec_prop", "mem_enc"} = Programs
  BY DEF Programs
<1>2. \A b \in backbone : Loading(b, {} \cup {"tuned"})
  BY <1>1, FetchedFact
<1>3. \A b \in initial : Loading(b, {"tuned"} \cup {"dec_init"})
  <2> HIDE DEF backbone
  <2> QED BY <1>1, <1>2, ThenFact
<1>4. \A b \in decoders : Loading(b, {"tuned", "dec_init"} \cup {"dec_prop"})
  <2> HIDE DEF initial
  <2>1. \A b \in initial : Loading(b, {"tuned", "dec_init"})
    BY <1>3 DEF Loading
  <2> QED BY <1>1, <2>1, ThenFact
<1>5. \A b \in fetched : Loading(b, {"tuned", "dec_init", "dec_prop"} \cup {"mem_enc"})
  <2> HIDE DEF decoders
  <2>1. \A b \in decoders : Loading(b, {"tuned", "dec_init", "dec_prop"})
    BY <1>4 DEF Loading
  <2> QED BY <1>1, <2>1, ThenFact
<1>6. \A b \in fetched : Loading(b, Programs)
  <2> HIDE DEF fetched
  <2> QED BY <1>1, <1>5 DEF Loading
<1>7. o \in fetched \/ \E b \in fetched : o = [b EXCEPT !.on = FALSE]
  BY DEF Loads
<1> HIDE DEF fetched
<1> QED BY <1>6, <1>7 DEF Loading

LEMMA ObjectsFact ==
  ASSUME NEW kind \in Programmes, NEW objects \in Objects(kind)
  PROVE  /\ DOMAIN objects = Trackers
         /\ \A t \in Trackers : objects[t] # None => objects[t] \in Built
         /\ kind = "client" => \A t \in Trackers : objects[t] # None
         /\ kind # "client" => objects[Solo] # None
<1>1. \A n \in Sizes, m \in Sizes : Sharing(n, m) \in Built /\ Own(n) \in Built
  BY DEF Sharing, Own, Built
<1>2. \A n \in Sizes, m \in Sizes : Sharing(n, m) # None /\ Own(n) # None
  BY <1>1, ConstantsFact
<1>3. CASE kind = "client"
  <2>1. PICK n \in [Trackers -> Sizes], owner \in Sizes :
          objects = [t \in Trackers |-> Sharing(n[t], owner)]
    BY <1>3 DEF Objects, Resetting
  <2>2. \A t \in Trackers : n[t] \in Sizes
    OBVIOUS
  <2> QED BY <1>1, <1>2, <1>3, <2>1, <2>2
<1>4. CASE kind # "client"
  <2>1. PICK n \in Sizes : objects = [Idle EXCEPT ![Solo] = Own(n)]
    BY <1>4 DEF Objects
  <2>2. DOMAIN objects = Trackers /\ objects[Solo] = Own(n)
        /\ \A t \in Trackers : t # Solo => objects[t] = None
    BY <2>1, ConstantsFact DEF Idle
  <2> QED BY <1>1, <1>2, <1>4, <2>2
<1> QED BY <1>3, <1>4

-----------------------------------------------------------------------------
(* A call that returns a mask.                                             *)
LEMMA SubjectsFact ==
  ASSUME NEW memories \in Seq(Memories)
  PROVE  /\ ToSet(memories) = {memories[i] : i \in 1..Len(memories)}
         /\ ToSet(memories) \subseteq Memories
         /\ SubjectsOf(memories) \subseteq Subjects
<1>1. DOMAIN memories = 1..Len(memories) /\ \A i \in 1..Len(memories) : memories[i] \in Memories
  BY LenProperties, ElementOfSeq
<1>2. ToSet(memories) = {memories[i] : i \in 1..Len(memories)}
  BY <1>1 DEF ToSet
<1>3. ToSet(memories) \subseteq Memories
  BY <1>1, <1>2
<1> QED BY <1>2, <1>3 DEF SubjectsOf, Memories

(* A memory is put before others.                                          *)
LEMMA PrefixedFact ==
  ASSUME NEW memory \in Memories, NEW memories \in Seq(Memories)
  PROVE  /\ <<memory>> \o memories \in Seq(Memories)
         /\ Len(<<memory>> \o memories) = Len(memories) + 1
         /\ (<<memory>> \o memories)[1] = memory
         /\ \A i \in 1..Len(memories) : (<<memory>> \o memories)[i + 1] = memories[i]
         /\ <<memory>> \o memories # <<>>
         /\ Tail(<<memory>> \o memories) = memories
         /\ ToSet(<<memory>> \o memories) = ToSet(memories) \cup {memory}
<1> DEFINE longer == <<memory>> \o memories
<1>1. <<memory>> \in Seq(Memories) /\ Len(<<memory>>) = 1 /\ <<memory>>[1] = memory
  OBVIOUS
<1>2. /\ longer \in Seq(Memories) /\ Len(longer) = 1 + Len(memories)
      /\ \A i \in 1..(1 + Len(memories)) :
           longer[i] = IF i <= 1 THEN <<memory>>[i] ELSE memories[i - 1]
  BY <1>1, ConcatProperties
<1>3. Len(memories) \in Nat
  BY LenProperties
<1> HIDE DEF longer
<1>4. Len(longer) = Len(memories) + 1 /\ longer[1] = memory
      /\ \A i \in 1..Len(memories) : longer[i + 1] = memories[i]
  BY <1>1, <1>2, <1>3
<1>5. longer # <<>>
  BY <1>3, <1>4, EmptySeq
<1>6. Tail(longer) = memories
  <2>1. /\ Tail(longer) \in Seq(Memories) /\ Len(Tail(longer)) = Len(longer) - 1
        /\ \A i \in 1..Len(Tail(longer)) : Tail(longer)[i] = longer[i + 1]
    BY <1>2, <1>5, HeadTailProperties
  <2>2. Len(Tail(longer)) = Len(memories)
    BY <1>3, <1>4, <2>1
  <2> QED BY <1>4, <2>1, <2>2, SeqEqual
<1>7. ToSet(longer) = ToSet(memories) \cup {memory}
  <2>1. /\ ToSet(longer) = {longer[i] : i \in 1..Len(longer)}
        /\ ToSet(memories) = {memories[i] : i \in 1..Len(memories)}
    BY <1>2, SubjectsFact
  <2>2. ASSUME NEW m \in ToSet(longer) PROVE m \in ToSet(memories) \cup {memory}
    <3>1. PICK i \in 1..Len(longer) : m = longer[i]
      BY <2>1, <2>2
    <3>2. CASE i = 1
      BY <1>4, <3>1, <3>2
    <3>3. CASE i # 1
      <4>1. i - 1 \in 1..Len(memories) /\ (i - 1) + 1 = i
        BY <1>3, <1>4, <3>3
      <4>2. longer[(i - 1) + 1] = memories[i - 1]
        BY <1>4, <4>1
      <4> QED BY <2>1, <3>1, <4>1, <4>2
    <3> QED BY <3>2, <3>3
  <2>3. ASSUME NEW m \in ToSet(memories) PROVE m \in ToSet(longer)
    <3>1. PICK i \in 1..Len(memories) : m = memories[i]
      BY <2>1, <2>3
    <3>2. i + 1 \in 1..Len(longer)
      BY <1>3, <1>4
    <3> QED BY <1>4, <2>1, <3>1, <3>2
  <2>4. memory \in ToSet(longer)
    <3>1. 1 \in 1..Len(longer)
      BY <1>3, <1>4
    <3> QED BY <1>4, <2>1, <3>1
  <2> QED BY <2>2, <2>3, <2>4
<1> QED BY <1>2, <1>4, <1>5, <1>6, <1>7 DEF longer

(* What push keeps: the newest, as many as the tracker keeps.              *)
LEMMA PushedFact ==
  ASSUME NEW t \in Trackers, NEW memory \in Memories, tracker[t] \in Built,
         bank[t] \in Seq(Memories), encoded[t] \in Seq(Memories), Latest(t)
  PROVE  LET after == <<memory>> \o encoded[t]
         IN /\ Pushed(t, memory) \in Seq(Memories)
            /\ Len(Pushed(t, memory)) = Least(Len(after), tracker[t].own)
            /\ \A i \in 1..Len(Pushed(t, memory)) : Pushed(t, memory)[i] = after[i]
<1> DEFINE after == <<memory>> \o encoded[t]
           entries == <<memory>> \o bank[t]
           own == tracker[t].own
           kept == IF Len(entries) > own THEN own ELSE Len(entries)
<1>1. own \in Nat \ {0}
  BY ConstantsFact DEF Built
<1>2. /\ entries \in Seq(Memories) /\ Len(entries) = Len(bank[t]) + 1 /\ entries[1] = memory
      /\ \A i \in 1..Len(bank[t]) : entries[i + 1] = bank[t][i]
  BY PrefixedFact
<1>3. /\ Len(after) = Len(encoded[t]) + 1 /\ after[1] = memory
      /\ \A i \in 1..Len(encoded[t]) : after[i + 1] = encoded[t][i]
  BY PrefixedFact
<1>4. Pushed(t, memory) = SubSeq(entries, 1, kept)
  BY DEF Pushed
<1>5. Len(bank[t]) \in Nat /\ Len(encoded[t]) \in Nat
  BY LenProperties
<1>6. /\ Len(bank[t]) = Least(Len(encoded[t]), own)
      /\ \A i \in 1..Len(bank[t]) : bank[t][i] = encoded[t][i]
  BY DEF Latest
<1> HIDE DEF after, entries, own
<1>7. kept \in Nat /\ kept >= 1 /\ kept <= Len(entries) /\ kept = Least(Len(after), own)
      /\ kept - 1 <= Len(bank[t])
  BY <1>1, <1>2, <1>3, <1>5, <1>6 DEF Least
<1>8. \A i \in 1..kept : entries[i] \in Memories
  <2>1. \A i \in 1..Len(entries) : entries[i] \in Memories
    BY <1>2, ElementOfSeq
  <2> HIDE DEF kept
  <2> QED BY <1>2, <1>5, <1>7, <2>1
<1> HIDE DEF kept
<1>9. /\ SubSeq(entries, 1, kept) \in Seq(Memories)
      /\ Len(SubSeq(entries, 1, kept)) = kept
      /\ \A i \in 1..kept : SubSeq(entries, 1, kept)[i] = entries[i]
  <2>1. /\ SubSeq(entries, 1, kept) \in Seq(Memories)
        /\ Len(SubSeq(entries, 1, kept)) = IF 1 <= kept THEN kept - 1 + 1 ELSE 0
        /\ \A i \in 1..(kept - 1 + 1) : SubSeq(entries, 1, kept)[i] = entries[1 + i - 1]
    BY <1>7, <1>8, SubSeqProperties
  <2>2. kept - 1 + 1 = kept /\ \A i \in 1..kept : 1 + i - 1 = i
    BY <1>7
  <2> QED BY <1>7, <2>1, <2>2
<1>10. \A i \in 1..kept : entries[i] = after[i]
  <2>1. SUFFICES ASSUME NEW i \in 1..kept PROVE entries[i] = after[i]
    OBVIOUS
  <2>2. CASE i = 1
    BY <1>2, <1>3, <2>2
  <2>3. CASE i # 1
    <3>1. i - 1 \in 1..Len(bank[t]) /\ i - 1 \in 1..Len(encoded[t]) /\ (i - 1) + 1 = i
      BY <1>1, <1>5, <1>6, <1>7, <2>3 DEF Least
    <3>2. entries[(i - 1) + 1] = bank[t][i - 1] /\ after[(i - 1) + 1] = encoded[t][i - 1]
      BY <1>2, <1>3, <3>1
    <3> QED BY <1>6, <3>1, <3>2
  <2> QED BY <2>2, <2>3
<1>11. /\ Pushed(t, memory) \in Seq(Memories)
       /\ Len(Pushed(t, memory)) = Least(Len(after), own)
       /\ \A i \in 1..Len(Pushed(t, memory)) : Pushed(t, memory)[i] = after[i]
  BY <1>4, <1>7, <1>9, <1>10
<1> QED BY <1>11 DEF after, own

(* What the attention of a tracker that does not get a misfit is given.    *)
LEMMA AttendedFact ==
  ASSUME NEW t \in Trackers, tracker[t] \in Built, bank[t] \in Seq(Memories),
         encoded[t] \in Seq(Memories), Latest(t), bank[t] # <<>>
  PROVE  /\ Attended(encoded[t], tracker[t].own, AttentionInputs(t))
         /\ ToSet(AttentionInputs(t)) \subseteq ToSet(encoded[t])
         /\ encoded[t] # <<>>
         /\ ~Misfits(t) => Fits(t)
<1> DEFINE own == tracker[t].own
           slots == tracker[t].slots
           width == IF Len(bank[t]) < slots THEN slots ELSE Len(bank[t])
<1>1. own \in Nat \ {0} /\ slots \in Nat \ {0} /\ tracker[t] # None
  BY ConstantsFact DEF Built
<1>2. Len(bank[t]) \in Nat \ {0} /\ Len(encoded[t]) \in Nat
  BY EmptySeq, LenProperties
<1>3. /\ Len(bank[t]) = Least(Len(encoded[t]), own)
      /\ \A i \in 1..Len(bank[t]) : bank[t][i] = encoded[t][i]
  BY DEF Latest
<1>4. AttentionInputs(t) = [i \in 1..width |-> IF i <= Len(bank[t]) THEN bank[t][i] ELSE bank[t][1]]
  BY DEF AttentionInputs
<1> HIDE DEF own, slots
<1>5. width \in Nat /\ Len(encoded[t]) >= Len(bank[t]) /\ Len(bank[t]) <= own
  BY <1>1, <1>2, <1>3 DEF Least
<1> HIDE DEF width
<1>6. Len(AttentionInputs(t)) = width /\ DOMAIN AttentionInputs(t) = 1..width
  BY <1>4, <1>5
<1>7. \A i \in 1..width :
        AttentionInputs(t)[i] = IF i <= Least(Len(encoded[t]), own) THEN encoded[t][i]
                                                                   ELSE encoded[t][1]
  <2>1. SUFFICES ASSUME NEW i \in 1..width
                 PROVE  AttentionInputs(t)[i] = IF i <= Len(bank[t]) THEN encoded[t][i]
                                                                     ELSE encoded[t][1]
    BY <1>3
  <2>2. AttentionInputs(t)[i] = IF i <= Len(bank[t]) THEN bank[t][i] ELSE bank[t][1]
    BY <1>4
  <2>3. bank[t][1] = encoded[t][1] /\ (i <= Len(bank[t]) => bank[t][i] = encoded[t][i])
    BY <1>2, <1>3, <1>5
  <2> QED BY <2>2, <2>3
<1>8. Attended(encoded[t], own, AttentionInputs(t))
  <2>1. Least(Len(encoded[t]), own) > 0
    BY <1>1, <1>2, <1>3
  <2> QED BY <1>6, <1>7, <2>1 DEF Attended
<1>9. ToSet(AttentionInputs(t)) \subseteq ToSet(encoded[t])
  <2>1. ToSet(encoded[t]) = {encoded[t][i] : i \in 1..Len(encoded[t])}
    BY SubjectsFact
  <2>2. ASSUME NEW i \in 1..width PROVE AttentionInputs(t)[i] \in ToSet(encoded[t])
    <3>1. 1 \in 1..Len(encoded[t]) /\ (i <= Len(bank[t]) => i \in 1..Len(encoded[t]))
      BY <1>2, <1>5
    <3> QED BY <1>3, <1>7, <2>1, <3>1
  <2> QED BY <1>6, <2>2 DEF ToSet
<1>10. encoded[t] # <<>>
  BY <1>2, <1>5, EmptySeq
<1>11. ~Misfits(t) => Fits(t)
  <2>1. SUFFICES ASSUME slots = Exported, own <= slots PROVE Fits(t)
    BY <1>1 DEF Misfits, own, slots
  <2>2. Len(bank[t]) <= Exported /\ width = Exported
    BY <1>1, <1>2, <1>5, <2>1, ConstantsFact DEF width
  <2> QED BY <1>6, <2>2 DEF Fits
<1> QED BY <1>8, <1>9, <1>10, <1>11 DEF own

LEMMA PropagateFact ==
  ASSUME TrackersTyped, BanksAgree, NEW t \in Trackers, tracker[t] # None,
         NEW s \in Subjects, PropagateFrame(t, s)
  PROVE  \E used \in SUBSET ToSet(encoded[t]) : \E seen :
           /\ Returned(t, s, UNION {m.from : m \in used}, seen)
           /\ seen # <<>> => Attended(encoded[t], tracker[t].own, seen)
           /\ encoded[t] # <<>> => used # {}
<1> DEFINE seen == IF bank[t] = <<>> THEN <<>> ELSE AttentionInputs(t)
<1>1. /\ tracker[t] \in Built /\ bank[t] \in Seq(Memories) /\ encoded[t] \in Seq(Memories)
      /\ Latest(t)
  BY DEF TrackersTyped, BanksAgree
<1>2. Returned(t, s, UNION {m.from : m \in ToSet(seen)}, seen)
  BY DEF PropagateFrame
<1>3. CASE bank[t] = <<>>
  <2>1. seen = <<>> /\ ToSet(seen) = {}
    BY <1>3 DEF ToSet
  <2>2. Len(bank[t]) = 0 /\ tracker[t].own \in Nat \ {0} /\ Len(encoded[t]) \in Nat
    BY <1>1, <1>3, ConstantsFact, LenProperties DEF Built
  <2>3. Len(encoded[t]) = 0
    BY <1>1, <2>2 DEF Latest, Least
  <2>4. encoded[t] = <<>>
    BY <1>1, <2>3, EmptySeq
  <2> HIDE DEF seen
  <2> QED BY <1>2, <2>1, <2>4
<1>4. CASE bank[t] # <<>>
  <2>1. seen = AttentionInputs(t)
    BY <1>4
  <2>2. /\ Attended(encoded[t], tracker[t].own, AttentionInputs(t))
        /\ ToSet(AttentionInputs(t)) \subseteq ToSet(encoded[t])
    BY <1>1, <1>4, AttendedFact
  <2>3. ToSet(AttentionInputs(t)) # {}
    <3>1. 1 \in DOMAIN AttentionInputs(t)
      <4>1. Len(bank[t]) \in Nat \ {0} /\ tracker[t].slots \in Nat \ {0}
        BY <1>1, <1>4, EmptySeq, ConstantsFact DEF Built
      <4> QED BY <4>1 DEF AttentionInputs
    <3> QED BY <3>1 DEF ToSet
  <2> HIDE DEF seen
  <2> QED BY <1>2, <2>1, <2>2, <2>3
<1> QED BY <1>3, <1>4

(* A call's memory is the newest of its tracker, and its mask the last.    *)
LEMMA ReturnedStep ==
  ASSUME TrackersTyped, BanksAgree, MisfitAgrees, NEW t \in Trackers, tracker[t] # None,
         NEW s \in Subjects, NEW from, NEW seen, Returned(t, s, from, seen),
         from \subseteq SubjectsOf(encoded[t]) \cup {s},
         seen # <<>> => Attended(encoded[t], tracker[t].own, seen)
  PROVE  /\ TrackersTyped' /\ BanksAgree' /\ MaskAgrees' /\ MisfitAgrees'
         /\ tracker' = tracker /\ stored' = stored /\ misfit' = misfit
         /\ mask'.from = from /\ mask'.subject = s
         /\ encoded'[t] # <<>>
         /\ ToSet(encoded'[t]) = ToSet(encoded[t]) \cup {[subject |-> s, from |-> from]}
         /\ \A u \in Trackers : u # t => encoded'[u] = encoded[u]
<1> DEFINE memory == [subject |-> s, from |-> from]
           after == <<memory>> \o encoded[t]
<1>1. /\ tracker[t] \in Built /\ bank[t] \in Seq(Memories) /\ encoded[t] \in Seq(Memories)
      /\ Latest(t)
      /\ bank \in [Trackers -> Seq(Memories)] /\ encoded \in [Trackers -> Seq(Memories)]
  BY DEF TrackersTyped, BanksAgree
<1>2. SubjectsOf(encoded[t]) \subseteq Subjects /\ from \subseteq Subjects
  BY <1>1, SubjectsFact
<1>3. memory \in Memories /\ memory.subject = s /\ memory.from = from
  BY <1>2 DEF Memories
<1>4. /\ mask' = [tracker |-> t, subject |-> s, from |-> from, seen |-> seen]
      /\ bank' = [bank EXCEPT ![t] = Pushed(t, memory)]
      /\ encoded' = [encoded EXCEPT ![t] = after]
      /\ tracker' = tracker /\ stored' = stored /\ misfit' = misfit
  BY DEF Returned
<1> HIDE DEF memory
<1>5. /\ after \in Seq(Memories) /\ after # <<>> /\ Tail(after) = encoded[t]
      /\ ToSet(after) = ToSet(encoded[t]) \cup {memory}
  BY <1>1, <1>3, PrefixedFact
<1>6. /\ Pushed(t, memory) \in Seq(Memories)
      /\ Len(Pushed(t, memory)) = Least(Len(after), tracker[t].own)
      /\ \A i \in 1..Len(Pushed(t, memory)) : Pushed(t, memory)[i] = after[i]
  BY <1>1, <1>3, PushedFact
<1> HIDE DEF after
<1>7. /\ bank'[t] = Pushed(t, memory) /\ encoded'[t] = after
      /\ \A u \in Trackers : u # t => bank'[u] = bank[u] /\ encoded'[u] = encoded[u]
  BY <1>1, <1>4
<1>8. TrackersTyped'
  <2>1. bank' \in [Trackers -> Seq(Memories)] /\ encoded' \in [Trackers -> Seq(Memories)]
    BY <1>1, <1>4, <1>5, <1>6
  <2>2. \A u \in Trackers : tracker[u] = None => bank'[u] = <<>> /\ encoded'[u] = <<>>
    BY <1>7 DEF TrackersTyped
  <2> QED BY <1>4, <2>1, <2>2 DEF TrackersTyped
<1>9. /\ SubjectsOf(after) = SubjectsOf(encoded[t]) \cup {s}
      /\ SubjectsOf(encoded'[t]) = SubjectsOf(after)
  BY <1>3, <1>5, <1>7 DEF SubjectsOf
<1>10. BanksAgree'
  <2>1. SUFFICES ASSUME NEW u \in Trackers
                 PROVE  /\ tracker'[u] # None => Latest(u)'
                        /\ \A m \in ToSet(encoded'[u]) : m.from \subseteq SubjectsOf(encoded'[u])
    BY DEF BanksAgree, SubjectsOf
  <2>2. CASE u = t
    <3>1. Latest(t)'
      BY <1>4, <1>6, <1>7 DEF Latest
    <3>2. ASSUME NEW m \in ToSet(after) PROVE m.from \subseteq SubjectsOf(after)
      <4>1. m \in ToSet(encoded[t]) => m.from \subseteq SubjectsOf(encoded[t])
        BY DEF BanksAgree
      <4> QED BY <1>3, <1>5, <1>9, <4>1
    <3> QED BY <1>7, <2>2, <3>1, <3>2
  <2>3. CASE u # t
    <3>1. /\ bank'[u] = bank[u] /\ encoded'[u] = encoded[u] /\ tracker' = tracker
          /\ tracker[u] # None => Latest(u)
          /\ \A m \in ToSet(encoded[u]) : m.from \subseteq SubjectsOf(encoded[u])
      BY <1>4, <1>7, <2>3 DEF BanksAgree
    <3> QED BY <3>1 DEF Latest
  <2> QED BY <2>2, <2>3
<1>11. MaskAgrees'
  <2>1. /\ mask'.tracker = t /\ mask'.seen = seen /\ mask'.from = from
    BY <1>4
  <2>2. Tail(encoded'[t]) = encoded[t]
    BY <1>5, <1>7
  <2>3. from \subseteq SubjectsOf(encoded'[t])
    BY <1>9
  <2> QED BY <1>4, <2>1, <2>2, <2>3 DEF MaskAgrees, SubjectsOf
<1>12. MisfitAgrees'
  BY <1>4 DEF MisfitAgrees, Misfits
<1> QED BY <1>4, <1>5, <1>7, <1>8, <1>10, <1>11, <1>12 DEF memory

(* Every step is one of these for the trackers.                            *)
Calls(t, s) == tracker[t] # None /\ (InitFrame(t, s) \/ PropagateFrame(t, s))

LEMMA ProcessFact ==
  ASSUME ProcessAgrees, run # None
  PROVE  /\ run \in Processes /\ run.at \in [Trackers -> 0..MaxSubjects]
         /\ Subject \in 0..MaxSubjects /\ Solo \in Trackers
         /\ run.kind # "client" /\ run.phase # "next" => Subject \in Subjects
<1>1. run \in Processes /\ run.at \in [Trackers -> 0..MaxSubjects] /\ Solo \in Trackers
  BY ConstantsFact DEF ProcessAgrees, Processes
<1> QED BY <1>1 DEF ProcessAgrees, Subject, Subjects

LEMMA StepsFact ==
  ASSUME TypeInv, Next
  PROVE  \/ \E t \in Trackers, s \in Subjects : Calls(t, s)
         \/ \E t \in Trackers : Reset(t)
         \/ \E t \in Trackers : AttentionRefused(t)
         \/ Gone /\ stored' = stored
         \/ \E kind \in Programmes : \E objects \in Objects(kind),
              path \in Paths, start \in 0..MaxSubjects : Launch(kind, objects, path, start)
         \/ UNCHANGED trackerVars
<1> DEFINE Goal == \/ \E t \in Trackers, s \in Subjects : Calls(t, s)
                   \/ \E t \in Trackers : Reset(t)
                   \/ \E t \in Trackers : AttentionRefused(t)
                   \/ Gone /\ stored' = stored
                   \/ UNCHANGED trackerVars
<1>0. ProcessAgrees
  BY DEF TypeInv
<1>1. ASSUME Killed \/ FrameRaises \/ Quit \/ RecordCut \/ Write PROVE Goal
  BY <1>1 DEF Killed, FrameRaises, Quit, RecordCut, Write
<1>2. ASSUME FramePassedOver \/ SubjectOver \/ Record PROVE Goal
  BY <1>2 DEF FramePassedOver, SubjectOver, Record
<1>3. ASSUME NextSubject PROVE Goal
  BY <1>3, ConstantsFact DEF NextSubject
<1>4. ASSUME AttentionRaises PROVE Goal
  BY <1>4, ConstantsFact DEF AttentionRaises
<1>5. ASSUME FirstFrame \/ LaterFrame PROVE Goal
  <2>1. /\ run # None /\ run.kind # "client" /\ run.phase # "next"
        /\ InitFrame(Solo, Subject) \/ PropagateFrame(Solo, Subject)
    BY <1>5 DEF FirstFrame, LaterFrame, Driving
  <2>2. tracker[Solo] # None /\ Subject \in Subjects /\ Solo \in Trackers
    BY <1>0, <2>1, ProcessFact DEF ProcessAgrees
  <2> QED BY <2>1, <2>2 DEF Calls
<1>6. ASSUME NEW t \in Trackers, NEW s \in Subjects, ClientInit(t, s) PROVE Goal
  BY <1>0, <1>6 DEF ClientInit, Calling, Calls, ProcessAgrees
<1>7. ASSUME NEW t \in Trackers, ClientPropagate(t) PROVE Goal
  <2>1. /\ run # None /\ run.kind = "client" /\ run.at[t] # 0
        /\ PropagateFrame(t, run.at[t])
    BY <1>7 DEF ClientPropagate, Calling
  <2>2. tracker[t] # None
    BY <1>0, <2>1 DEF ProcessAgrees
  <2>3. run.at \in [Trackers -> 0..MaxSubjects]
    BY <1>0, <2>1, ProcessFact
  <2>4. run.at[t] \in Subjects
    BY <2>1, <2>3 DEF Subjects
  <2> QED BY <2>1, <2>2, <2>4 DEF Calls
<1>8. ASSUME NEW t \in Trackers, ClientReset(t) \/ ClientRefused(t) PROVE Goal
  BY <1>8 DEF ClientReset, ClientRefused
<1> HIDE DEF Goal
<1>9. \/ \E kind \in Programmes : \E objects \in Objects(kind),
           path \in Paths, start \in 0..MaxSubjects : Launch(kind, objects, path, start)
      \/ Goal
  BY <1>1, <1>2, <1>3, <1>4, <1>5, <1>6, <1>7, <1>8 DEF Next
<1> QED BY <1>9 DEF Goal

-----------------------------------------------------------------------------
(* The trackers, in every step.                                            *)
LEMMA EmptyFact ==
  /\ <<>> \in Seq(Memories) /\ ToSet(<<>>) = {} /\ Len(<<>>) = 0
BY EmptySeq DEF ToSet

(* Trackers whose banks are all empty.                                     *)
LEMMA EmptyBanks ==
  ASSUME bank' = [t \in Trackers |-> <<>>], encoded' = [t \in Trackers |-> <<>>],
         mask' = None, DOMAIN tracker' = Trackers,
         \A t \in Trackers : tracker'[t] # None => tracker'[t] \in Built
  PROVE  TrackersTyped' /\ BanksAgree' /\ MaskAgrees'
<1>1. TrackersTyped'
  BY EmptyFact DEF TrackersTyped
<1>2. BanksAgree'
  <2>1. SUFFICES ASSUME NEW t \in Trackers
                 PROVE  /\ tracker'[t] # None => Latest(t)'
                        /\ \A m \in ToSet(encoded'[t]) : m.from \subseteq SubjectsOf(encoded'[t])
    BY DEF BanksAgree, SubjectsOf
  <2>2. encoded'[t] = <<>> /\ bank'[t] = <<>>
    OBVIOUS
  <2>3. ASSUME tracker'[t] # None PROVE Latest(t)'
    <3>1. tracker'[t].own \in Nat \ {0}
      BY <2>3, ConstantsFact DEF Built
    <3>2. Least(0, tracker'[t].own) = 0
      BY <3>1 DEF Least
    <3> QED BY <2>2, <3>2, EmptyFact DEF Latest
  <2> QED BY <2>2, <2>3, EmptyFact
<1> QED BY <1>1, <1>2 DEF MaskAgrees

LEMMA ResetStep ==
  ASSUME TrackersTyped, BanksAgree, MisfitAgrees, NEW t \in Trackers, Reset(t)
  PROVE  /\ TrackersTyped' /\ BanksAgree' /\ MaskAgrees' /\ MisfitAgrees'
         /\ tracker' = tracker /\ stored' = stored /\ misfit' = misfit
         /\ encoded'[t] = <<>> /\ mask' = None
<1>1. /\ bank' = [bank EXCEPT ![t] = <<>>] /\ encoded' = [encoded EXCEPT ![t] = <<>>]
      /\ mask' = None /\ tracker' = tracker /\ stored' = stored /\ misfit' = misfit
  BY DEF Reset
<1>2. bank \in [Trackers -> Seq(Memories)] /\ encoded \in [Trackers -> Seq(Memories)]
  BY DEF TrackersTyped
<1>3. /\ bank'[t] = <<>> /\ encoded'[t] = <<>>
      /\ \A u \in Trackers : u # t => bank'[u] = bank[u] /\ encoded'[u] = encoded[u]
  BY <1>1, <1>2
<1>4. TrackersTyped'
  <2>1. bank' \in [Trackers -> Seq(Memories)] /\ encoded' \in [Trackers -> Seq(Memories)]
    BY <1>1, <1>2, EmptyFact
  <2> QED BY <1>1, <1>3, <2>1 DEF TrackersTyped
<1>5. BanksAgree'
  <2>1. SUFFICES ASSUME NEW u \in Trackers
                 PROVE  /\ tracker'[u] # None => Latest(u)'
                        /\ \A m \in ToSet(encoded'[u]) : m.from \subseteq SubjectsOf(encoded'[u])
    BY DEF BanksAgree, SubjectsOf
  <2>2. CASE u = t
    <3>1. ASSUME tracker'[t] # None PROVE Latest(t)'
      <4>1. tracker'[t].own \in Nat \ {0}
        BY <1>1, <3>1, ConstantsFact DEF TrackersTyped, Built
      <4>2. Least(0, tracker'[t].own) = 0
        BY <4>1 DEF Least
      <4> QED BY <1>3, <4>2, EmptyFact DEF Latest
    <3> QED BY <1>3, <2>2, <3>1, EmptyFact
  <2>3. CASE u # t
    <3>1. bank'[u] = bank[u] /\ encoded'[u] = encoded[u]
      BY <1>3, <2>3
    <3> QED BY <1>1, <3>1 DEF BanksAgree, Latest
  <2> QED BY <2>2, <2>3
<1>6. MisfitAgrees'
  BY <1>1 DEF MisfitAgrees, Misfits
<1> QED BY <1>1, <1>3, <1>4, <1>5, <1>6 DEF MaskAgrees

LEMMA RefusedStep ==
  ASSUME TrackersTyped, BanksAgree, MaskAgrees, NEW t \in Trackers, AttentionRefused(t)
  PROVE  /\ TrackersTyped' /\ BanksAgree' /\ MaskAgrees' /\ MisfitAgrees'
         /\ UNCHANGED <<stored, tracker, bank, encoded, mask>>
<1>1. UNCHANGED <<stored, tracker, bank, encoded, mask>> /\ bank[t] # <<>> /\ ~Fits(t)
  BY DEF AttentionRefused
<1>2. TrackersTyped' /\ BanksAgree' /\ MaskAgrees'
  BY <1>1 DEF TrackersTyped, BanksAgree, Latest, MaskAgrees
<1>3. Misfits(t)
  <2>1. /\ tracker[t] \in Built /\ bank[t] \in Seq(Memories) /\ encoded[t] \in Seq(Memories)
        /\ Latest(t)
    BY <1>1 DEF TrackersTyped, BanksAgree
  <2> QED BY <1>1, <2>1, AttendedFact
<1>4. MisfitAgrees'
  BY <1>1, <1>3 DEF MisfitAgrees, Misfits
<1> QED BY <1>1, <1>2, <1>4

LEMMA GoneStep ==
  ASSUME Gone
  PROVE  /\ TrackersTyped' /\ BanksAgree' /\ MaskAgrees' /\ MisfitAgrees'
         /\ run' = None /\ mask' = None /\ misfit' = FALSE
<1>1. /\ run' = None /\ tracker' = Idle /\ mask' = None /\ misfit' = FALSE
      /\ bank' = [t \in Trackers |-> <<>>] /\ encoded' = [t \in Trackers |-> <<>>]
  BY DEF Gone
<1>2. DOMAIN tracker' = Trackers /\ \A t \in Trackers : tracker'[t] = None
  BY <1>1 DEF Idle
<1> QED BY <1>1, <1>2, EmptyBanks DEF MisfitAgrees

(* A process starts with its trackers constructed, or does not start.      *)
LEMMA LaunchStep ==
  ASSUME TypeInv, BanksAgree, MaskAgrees, MisfitAgrees,
         NEW kind \in Programmes, NEW objects \in Objects(kind), NEW path \in Paths,
         NEW start \in 0..MaxSubjects, Launch(kind, objects, path, start)
  PROVE  /\ TrackersTyped' /\ BanksAgree' /\ MaskAgrees' /\ MisfitAgrees'
         /\ run = None /\ launches' = launches + 1 /\ UNCHANGED <<misfit, partial, out>>
         /\ stored' \in Stores
         /\ kind # "predictions" => path = Given /\ start = 0
         /\ LET done == Resumes(path, start)
            IN /\ exact' = (exact /\ (done # Torn => Len(done) = start))
               /\ \/ UNCHANGED <<run, tracker, bank, encoded, mask>>
                  \/ /\ done # Torn
                     /\ run' = [kind |-> kind, at |-> [NoSubject EXCEPT ![Solo] = start],
                                phase |-> "next", frame |-> 0, path |-> path, done |-> done]
                     /\ tracker' = objects /\ mask' = None
                     /\ encoded' = [t \in Trackers |-> <<>>]
                     /\ \A p \in Programs : stored'[p] = "whole"
<1> DEFINE done == Resumes(path, start)
           process == [kind |-> kind, at |-> [NoSubject EXCEPT ![Solo] = start],
                       phase |-> "next", frame |-> 0, path |-> path, done |-> done]
<1>1. /\ run = None /\ launches' = launches + 1 /\ UNCHANGED <<misfit, partial, out>>
      /\ kind # "predictions" => path = Given /\ start = 0
      /\ exact' = (exact /\ (done # Torn => Len(done) = start))
  BY DEF Launch
<1>2. PICK loaded \in Loads :
        /\ stored' = loaded.store
        /\ IF loaded.on /\ done # Torn
             THEN Constructed(objects) /\ run' = process
             ELSE UNCHANGED <<run, tracker, bank, encoded, mask>>
  BY DEF Launch
<1>3. stored \in Stores
  BY DEF TypeInv, FilesTyped, Stores
<1>4. stored' \in Stores /\ (loaded.on => \A p \in Programs : stored'[p] = "whole")
  BY <1>2, <1>3, LoadsFact DEF Loading
<1>5. CASE loaded.on /\ done # Torn
  <2>1. /\ tracker' = objects /\ mask' = None /\ run' = process
        /\ bank' = [t \in Trackers |-> <<>>] /\ encoded' = [t \in Trackers |-> <<>>]
    BY <1>2, <1>5 DEF Constructed
  <2>2. TrackersTyped' /\ BanksAgree' /\ MaskAgrees'
    BY <2>1, ObjectsFact, EmptyBanks
  <2>3. MisfitAgrees'
    BY <1>1 DEF MisfitAgrees, TypeInv, ProcessAgrees
  <2> QED BY <1>1, <1>4, <1>5, <2>1, <2>2, <2>3
<1>6. CASE ~(loaded.on /\ done # Torn)
  <2>1. UNCHANGED <<run, tracker, bank, encoded, mask>>
    BY <1>2, <1>6
  <2>2. TrackersTyped' /\ BanksAgree' /\ MaskAgrees' /\ MisfitAgrees'
    BY <1>1, <2>1
    DEF TypeInv, TrackersTyped, BanksAgree, Latest, MaskAgrees, MisfitAgrees, Misfits
  <2> QED BY <1>1, <1>4, <2>1, <2>2
<1> QED BY <1>5, <1>6

LEMMA InitFrameStep ==
  ASSUME TrackersTyped, BanksAgree, MisfitAgrees, NEW t \in Trackers, tracker[t] # None,
         NEW s \in Subjects, InitFrame(t, s)
  PROVE  /\ TrackersTyped' /\ BanksAgree' /\ MaskAgrees' /\ MisfitAgrees'
         /\ tracker' = tracker /\ stored' = stored /\ misfit' = misfit
         /\ encoded'[t] # <<>> /\ mask'.from = {s} /\ mask'.subject = s
         /\ ToSet(encoded'[t]) = ToSet(encoded[t]) \cup {[subject |-> s, from |-> {s}]}
<1>1. Returned(t, s, {s}, <<>>)
  BY DEF InitFrame
<1> QED BY <1>1, ReturnedStep

LEMMA PropagateFrameStep ==
  ASSUME TrackersTyped, BanksAgree, MisfitAgrees, NEW t \in Trackers, tracker[t] # None,
         NEW s \in Subjects, PropagateFrame(t, s)
  PROVE  /\ TrackersTyped' /\ BanksAgree' /\ MaskAgrees' /\ MisfitAgrees'
         /\ tracker' = tracker /\ stored' = stored /\ misfit' = misfit
         /\ encoded'[t] # <<>> /\ mask'.subject = s
         /\ ToSet(encoded'[t]) = ToSet(encoded[t]) \cup {[subject |-> s, from |-> mask'.from]}
         /\ \E used \in SUBSET ToSet(encoded[t]) :
              /\ mask'.from = UNION {m.from : m \in used}
              /\ encoded[t] # <<>> => used # {}
<1>0. PICK used \in SUBSET ToSet(encoded[t]) : \E seen :
        /\ Returned(t, s, UNION {m.from : m \in used}, seen)
        /\ seen # <<>> => Attended(encoded[t], tracker[t].own, seen)
        /\ encoded[t] # <<>> => used # {}
  BY PropagateFact
<1>1. PICK seen :
        /\ Returned(t, s, UNION {m.from : m \in used}, seen)
        /\ seen # <<>> => Attended(encoded[t], tracker[t].own, seen)
        /\ encoded[t] # <<>> => used # {}
  BY <1>0
<1> DEFINE from == UNION {m.from : m \in used}
<1>2. from \subseteq SubjectsOf(encoded[t]) \cup {s}
  BY DEF BanksAgree
<1>3. from = UNION {m.from : m \in used}
  OBVIOUS
<1> HIDE DEF from
<1>4. /\ TrackersTyped' /\ BanksAgree' /\ MaskAgrees' /\ MisfitAgrees'
      /\ tracker' = tracker /\ stored' = stored /\ misfit' = misfit
      /\ mask'.from = from /\ mask'.subject = s
      /\ encoded'[t] # <<>>
      /\ ToSet(encoded'[t]) = ToSet(encoded[t]) \cup {[subject |-> s, from |-> from]}
  BY <1>1, <1>2, <1>3, ReturnedStep
<1> QED BY <1>1, <1>3, <1>4

LEMMA TrackersStep ==
  ASSUME TypeInv, BanksAgree, MaskAgrees, MisfitAgrees, [Next]_vars
  PROVE  TrackersTyped' /\ BanksAgree' /\ MaskAgrees' /\ MisfitAgrees'
<1> DEFINE Goal == TrackersTyped' /\ BanksAgree' /\ MaskAgrees' /\ MisfitAgrees'
<1>0. TrackersTyped
  BY DEF TypeInv
<1>1. ASSUME NEW t \in Trackers, NEW s \in Subjects, Calls(t, s) PROVE Goal
  BY <1>0, <1>1, InitFrameStep, PropagateFrameStep DEF Calls
<1>2. ASSUME NEW t \in Trackers, Reset(t) \/ AttentionRefused(t) PROVE Goal
  BY <1>0, <1>2, ResetStep, RefusedStep
<1>3. ASSUME Gone PROVE Goal
  BY <1>3, GoneStep
<1>4. ASSUME NEW kind \in Programmes, NEW objects \in Objects(kind), NEW path \in Paths,
             NEW start \in 0..MaxSubjects, Launch(kind, objects, path, start)
      PROVE  Goal
  BY <1>4, LaunchStep
<1>5. ASSUME UNCHANGED trackerVars PROVE Goal
  BY <1>5 DEF trackerVars, TypeInv, TrackersTyped, BanksAgree, Latest, MaskAgrees,
              MisfitAgrees, Misfits
<1> HIDE DEF Goal
<1>6. ASSUME Next PROVE Goal
  BY <1>1, <1>2, <1>3, <1>4, <1>5, <1>6, StepsFact
<1>7. ASSUME UNCHANGED vars PROVE Goal
  BY <1>5, <1>7 DEF vars
<1> QED BY <1>6, <1>7 DEF Goal

-----------------------------------------------------------------------------
(* Processes and their files.                                              *)
LEMMA GoesFact ==
  ASSUME run \in Processes, NEW phase \in {"next", "first", "later", "record", "over"},
         NEW frame \in 0..MaxFrames, run' = [run EXCEPT !.phase = phase, !.frame = frame]
  PROVE  /\ run' \in Processes /\ run'.phase = phase
         /\ run'.kind = run.kind /\ run'.at = run.at /\ run'.path = run.path
         /\ run'.done = run.done
BY DEF Processes

LEMMA FrameFact ==
  ASSUME run \in Processes
  PROVE  /\ run.frame \in 0..MaxFrames /\ 0 \in 0..MaxFrames /\ 1 \in 0..MaxFrames
         /\ run.frame < MaxFrames => run.frame + 1 \in 0..MaxFrames
BY DEF Processes

(* What a step inside a process makes of it.                               *)
Moved ==
  /\ run # None /\ run' \in Processes
  /\ run'.kind = run.kind /\ run'.path = run.path /\ stored' = stored /\ tracker' = tracker

LEMMA MovedKeeps ==
  ASSUME ProcessAgrees, Moved,
         run.kind # "client" =>
           /\ run'.phase # "next" => run'.at[Solo] # 0
           /\ run'.phase = "later" => encoded'[Solo] # <<>>
           /\ run'.phase = "record" => run.kind = "predictions"
  PROVE  ProcessAgrees'
<1>1. run' # None
  BY DEF Moved
<1> QED BY <1>1 DEF ProcessAgrees, Moved

LEMMA CallMoves ==
  ASSUME TypeInv, BanksAgree, MisfitAgrees,
         NEW t \in Trackers, NEW s \in Subjects, tracker[t] # None,
         InitFrame(t, s) \/ PropagateFrame(t, s)
  PROVE  stored' = stored /\ tracker' = tracker /\ encoded'[t] # <<>>
BY InitFrameStep, PropagateFrameStep DEF TypeInv

LEMMA FrameSteps ==
  ASSUME TypeInv, BanksAgree, MisfitAgrees, FirstFrame \/ LaterFrame
  PROVE  /\ Moved /\ UNCHANGED <<launches, partial, out, exact>>
         /\ run.kind # "client" /\ run'.phase = "later" /\ encoded'[Solo] # <<>>
         /\ run'.at = run.at /\ run'.done = run.done /\ run.phase \in {"first", "later"}
         /\ Subject \in Subjects /\ Solo \in Trackers /\ tracker[Solo] # None
<1>1. /\ run # None /\ run.kind # "client" /\ run.phase \in {"first", "later"}
      /\ UNCHANGED <<launches, partial, out, exact>>
      /\ InitFrame(Solo, Subject) \/ PropagateFrame(Solo, Subject)
  BY DEF FirstFrame, LaterFrame, Driving, FilesKept
<1>2. ProcessAgrees /\ run \in Processes
  BY <1>1 DEF TypeInv, ProcessAgrees
<1>3. Solo \in Trackers /\ Subject \in Subjects /\ tracker[Solo] # None
  BY <1>1, <1>2, ProcessFact DEF ProcessAgrees
<1>4. stored' = stored /\ tracker' = tracker /\ encoded'[Solo] # <<>>
  BY <1>1, <1>3, CallMoves
<1>5. \E frame \in 0..MaxFrames : Goes("later", frame)
  BY <1>2, FrameFact DEF FirstFrame, LaterFrame
<1>6. run' \in Processes /\ run'.phase = "later"
      /\ run'.kind = run.kind /\ run'.at = run.at /\ run'.path = run.path
      /\ run'.done = run.done
  BY <1>2, <1>5, GoesFact DEF Goes
<1> QED BY <1>1, <1>3, <1>4, <1>6 DEF Moved

LEMMA NextSubjectStep ==
  ASSUME TypeInv, BanksAgree, MisfitAgrees, NextSubject
  PROVE  /\ Moved /\ UNCHANGED <<launches, partial, out, exact>>
         /\ run.kind # "client" /\ run.phase = "next" /\ run'.phase = "first"
         /\ Solo \in Trackers /\ Subject \in Nat
         /\ run'.at[Solo] = run.at[Solo] + 1 /\ run'.done = run.done
         /\ run.kind = "demo" => Subject = 0
         /\ IF run.kind \in Resetting THEN Reset(Solo) ELSE UNCHANGED trackerVars
<1>1. /\ run # None /\ run.kind # "client" /\ run.phase = "next"
      /\ Subject < (IF run.kind = "demo" THEN 1 ELSE MaxSubjects)
      /\ run' = [run EXCEPT !.at[Solo] = Subject + 1, !.phase = "first", !.frame = 0]
      /\ IF run.kind \in Resetting THEN Reset(Solo) ELSE UNCHANGED trackerVars
      /\ UNCHANGED <<launches, partial, out, exact>>
  BY DEF NextSubject, Driving, FilesKept
<1>2. ProcessAgrees /\ run \in Processes /\ Subject \in 0..MaxSubjects /\ Solo \in Trackers
  BY <1>1, ProcessFact DEF TypeInv, ProcessAgrees
<1>3. Subject + 1 \in 0..MaxSubjects /\ Subject \in Nat /\ (run.kind = "demo" => Subject = 0)
  BY <1>1, <1>2, ConstantsFact
<1>4. run.at \in [Trackers -> 0..MaxSubjects] /\ run.at[Solo] = Subject
  BY <1>2 DEF Processes, Subject
<1>5. [run.at EXCEPT ![Solo] = Subject + 1] \in [Trackers -> 0..MaxSubjects]
      /\ [run.at EXCEPT ![Solo] = Subject + 1][Solo] = Subject + 1
  BY <1>2, <1>3, <1>4
<1>6. run' = [run EXCEPT !.at = [run.at EXCEPT ![Solo] = Subject + 1],
                         !.phase = "first", !.frame = 0]
  BY <1>1
<1>7. /\ run' \in Processes /\ run'.phase = "first"
      /\ run'.kind = run.kind /\ run'.path = run.path /\ run'.done = run.done
      /\ run'.at[Solo] = Subject + 1
  BY <1>2, <1>5, <1>6, FrameFact DEF Processes
<1>8. stored' = stored /\ tracker' = tracker
  BY <1>1 DEF Reset, trackerVars
<1> QED BY <1>1, <1>2, <1>3, <1>4, <1>7, <1>8 DEF Moved

(* The steps of a program between its frames.                              *)
LEMMA OverSteps ==
  ASSUME TypeInv, FramePassedOver \/ SubjectOver \/ AttentionRaises
  PROVE  /\ Moved /\ UNCHANGED <<launches, partial, out, exact, bank, encoded, mask>>
         /\ run.kind # "client" /\ run.phase \in {"first", "later"}
         /\ run'.at = run.at /\ run'.done = run.done
         /\ \/ run'.phase = "later" /\ run.phase = "later"
            \/ run'.phase = "over"
            \/ run'.phase = IF run.kind = "predictions" THEN "record" ELSE "next"
<1>1. /\ run # None /\ run.kind # "client" /\ run.phase \in {"first", "later"}
      /\ UNCHANGED <<launches, partial, out, exact, stored, tracker, bank, encoded, mask>>
  BY DEF FramePassedOver, SubjectOver, AttentionRaises, Driving, FilesKept, trackerVars,
         AttentionRefused
<1>2. run \in Processes
  BY <1>1 DEF TypeInv, ProcessAgrees
<1>3. CASE SubjectOver
  <2>1. run' = [run EXCEPT !.phase = IF run.kind = "predictions" THEN "record" ELSE "next"]
    BY <1>3 DEF SubjectOver
  <2>2. /\ run' \in Processes
        /\ run'.phase = IF run.kind = "predictions" THEN "record" ELSE "next"
        /\ run'.kind = run.kind /\ run'.at = run.at /\ run'.path = run.path
        /\ run'.done = run.done
    BY <1>2, <2>1 DEF Processes
  <2> QED BY <1>1, <2>2 DEF Moved
<1>4. CASE FramePassedOver \/ AttentionRaises
  <2>1. \E frame \in 0..MaxFrames :
          (Goes("later", frame) /\ run.phase = "later") \/ Goes("over", frame)
    BY <1>2, <1>4, FrameFact DEF FramePassedOver, AttentionRaises, Driving
  <2>2. PICK frame \in 0..MaxFrames :
          (Goes("later", frame) /\ run.phase = "later") \/ Goes("over", frame)
    BY <2>1
  <2>3. /\ run' \in Processes /\ run'.kind = run.kind /\ run'.at = run.at
        /\ run'.path = run.path /\ run'.done = run.done
        /\ (run'.phase = "later" /\ run.phase = "later") \/ run'.phase = "over"
    BY <1>2, <2>2, GoesFact DEF Goes
  <2> QED BY <1>1, <2>3 DEF Moved
<1> QED BY <1>3, <1>4

LEMMA RecordStep ==
  ASSUME TypeInv, Record
  PROVE  /\ Moved /\ UNCHANGED <<launches, out, exact, trackerVars>>
         /\ run.kind # "client" /\ run.phase = "record" /\ run'.phase = "next"
         /\ run'.at = run.at /\ Subject \in Subjects
         /\ run'.done = Append(run.done, Subject) /\ run'.done \in Seq(Subjects)
         /\ run.path \in Paths
         /\ partial' \in {partial, [partial EXCEPT ![run.path] = run'.done]}
<1> DEFINE done == Append(run.done, Subject)
<1>1. /\ run # None /\ run.kind # "client" /\ run.phase = "record"
      /\ run' = [run EXCEPT !.done = done, !.phase = "next"]
      /\ partial' = IF Checkpoints THEN [partial EXCEPT ![run.path] = done] ELSE partial
      /\ UNCHANGED <<launches, out, exact, trackerVars>>
  BY DEF Record, Driving
<1>2. run \in Processes /\ Subject \in Subjects
  BY <1>1, ProcessFact DEF TypeInv, ProcessAgrees
<1>3. done \in Seq(Subjects)
  BY <1>2, AppendProperties DEF Processes
<1> HIDE DEF done
<1>4. /\ run' \in Processes /\ run'.phase = "next" /\ run'.done = done
      /\ run'.kind = run.kind /\ run'.at = run.at /\ run'.path = run.path
      /\ run.path \in Paths
  BY <1>1, <1>2, <1>3 DEF Processes
<1> QED BY <1>1, <1>2, <1>3, <1>4 DEF Moved, trackerVars, done

LEMMA ClientSteps ==
  ASSUME TypeInv, BanksAgree, MisfitAgrees, NEW t \in Trackers,
         \/ \E subject \in Subjects : ClientInit(t, subject)
         \/ ClientPropagate(t) \/ ClientReset(t) \/ ClientRefused(t)
  PROVE  Moved /\ UNCHANGED <<launches, partial, out, exact>> /\ run.kind = "client"
<1>1. /\ run # None /\ run.kind = "client" /\ UNCHANGED <<launches, partial, out, exact>>
  BY DEF ClientInit, ClientPropagate, ClientReset, ClientRefused, Calling, FilesKept
<1>2. run \in Processes /\ tracker[t] # None
  BY <1>1 DEF TypeInv, ProcessAgrees
<1>3. run.at \in [Trackers -> 0..MaxSubjects]
  BY <1>2 DEF Processes
<1>4. ASSUME NEW s \in Subjects, ClientInit(t, s) PROVE Moved
  <2>1. stored' = stored /\ tracker' = tracker
    BY <1>2, <1>4, CallMoves DEF ClientInit
  <2>2. run' = [run EXCEPT !.at = [run.at EXCEPT ![t] = s]]
    BY <1>4 DEF ClientInit
  <2>3. [run.at EXCEPT ![t] = s] \in [Trackers -> 0..MaxSubjects]
    BY <1>3 DEF Subjects
  <2>4. run' \in Processes /\ run'.kind = run.kind /\ run'.path = run.path
    BY <1>2, <2>2, <2>3 DEF Processes
  <2> QED BY <1>1, <2>1, <2>4 DEF Moved
<1>5. ASSUME ClientPropagate(t) PROVE Moved
  <2>1. run.at[t] \in Subjects
    BY <1>3, <1>5 DEF ClientPropagate, Subjects
  <2>2. stored' = stored /\ tracker' = tracker
    BY <1>2, <1>5, <2>1, CallMoves DEF ClientPropagate
  <2> QED BY <1>1, <1>2, <1>5, <2>2 DEF ClientPropagate, Moved
<1>6. ASSUME ClientReset(t) \/ ClientRefused(t) PROVE Moved
  BY <1>1, <1>2, <1>6 DEF ClientReset, ClientRefused, Reset, AttentionRefused, Moved
<1> QED BY <1>1, <1>4, <1>5, <1>6

(* The process ends, or is killed, and takes its trackers along.           *)
Ends == Killed \/ FrameRaises \/ Quit \/ RecordCut \/ Write

LEMMA EndSteps ==
  ASSUME TypeInv, Ends
  PROVE  /\ Gone /\ stored' = stored /\ UNCHANGED <<launches, exact>>
         /\ run # None /\ run.path \in Paths /\ run.done \in Seq(Subjects)
         /\ \/ partial' = partial
            \/ partial' = [partial EXCEPT ![run.path] = Torn]
            \/ partial' = [partial EXCEPT ![run.path] = None]
         /\ \/ out' = out
            \/ out' = [out EXCEPT ![run.path] = Torn]
            \/ /\ out' = [out EXCEPT ![run.path] = run.done]
               /\ run.kind = "predictions" /\ run.phase = "next" /\ Subject = MaxSubjects
<1>1. run # None /\ Gone /\ stored' = stored /\ UNCHANGED <<launches, exact>>
  BY DEF Ends, Killed, FrameRaises, Quit, RecordCut, Write, Driving, FilesKept
<1>2. run.path \in Paths /\ run.done \in Seq(Subjects)
  BY <1>1 DEF TypeInv, ProcessAgrees, Processes
<1>3. CASE Killed \/ FrameRaises \/ Quit
  BY <1>1, <1>2, <1>3 DEF Killed, FrameRaises, Quit, FilesKept
<1>4. CASE RecordCut
  BY <1>1, <1>2, <1>4 DEF RecordCut
<1>5. CASE Write
  BY <1>1, <1>2, <1>5 DEF Write, Driving
<1> QED BY <1>1, <1>3, <1>4, <1>5 DEF Ends

LEMMA ResumesFact ==
  ASSUME FilesTyped, NEW path \in Paths, NEW start \in 0..MaxSubjects
  PROVE  Resumes(path, start) = Torn \/ Resumes(path, start) \in Seq(Subjects)
<1>1. partial[path] \in Seq(Subjects) \cup {None, Torn}
  BY DEF FilesTyped
<1> QED BY <1>1, EmptySeq DEF Resumes

LEMMA LaunchFact ==
  ASSUME TypeInv, BanksAgree, MaskAgrees, MisfitAgrees,
         NEW kind \in Programmes, NEW objects \in Objects(kind), NEW path \in Paths,
         NEW start \in 0..MaxSubjects, Launch(kind, objects, path, start)
  PROVE  /\ FilesTyped' /\ ProcessAgrees' /\ UNCHANGED <<partial, out>> /\ run = None
         /\ LET done == Resumes(path, start)
            IN /\ exact' = (exact /\ (done # Torn => Len(done) = start))
               /\ \/ run' = None
                  \/ /\ run' # None /\ run'.done = done /\ done # Torn /\ run'.phase = "next"
                     /\ run'.at[Solo] = start
                     /\ encoded'[Solo] = <<>> /\ mask' = None
<1> DEFINE done == Resumes(path, start)
           at == [NoSubject EXCEPT ![Solo] = start]
           process == [kind |-> kind, at |-> at, phase |-> "next", frame |-> 0,
                       path |-> path, done |-> done]
<1>1. /\ run = None /\ launches' = launches + 1 /\ UNCHANGED <<misfit, partial, out>>
      /\ stored' \in Stores
      /\ exact' = (exact /\ (done # Torn => Len(done) = start))
      /\ \/ run' = run /\ tracker' = tracker
         \/ /\ done # Torn /\ run' = process /\ tracker' = objects /\ mask' = None
            /\ encoded' = [t \in Trackers |-> <<>>]
            /\ \A p \in Programs : stored'[p] = "whole"
  BY LaunchStep
<1>2. FilesTyped'
  BY <1>1 DEF TypeInv, FilesTyped, Stores
<1>3. misfit' = FALSE
  BY <1>1 DEF TypeInv, ProcessAgrees
<1>4. CASE run' = run /\ tracker' = tracker
  <2>1. ProcessAgrees'
    BY <1>1, <1>3, <1>4 DEF ProcessAgrees
  <2> QED BY <1>1, <1>2, <1>4, <2>1
<1>5. CASE /\ done # Torn /\ run' = process /\ tracker' = objects /\ mask' = None
           /\ encoded' = [t \in Trackers |-> <<>>]
           /\ \A p \in Programs : stored'[p] = "whole"
  <2>1. done \in Seq(Subjects)
    BY <1>5, ResumesFact DEF TypeInv
  <2>2. at \in [Trackers -> 0..MaxSubjects] /\ at[Solo] = start
    BY ConstantsFact DEF NoSubject
  <2> HIDE DEF done, at
  <2>3. process \in Processes
    BY <2>1, <2>2 DEF Processes
  <2>4. run' \in Processes /\ run' # None
    BY <1>5, <2>3
  <2>5. /\ run'.kind = kind /\ run'.phase = "next" /\ run'.at[Solo] = start
        /\ run'.done = done
    BY <1>5, <2>2
  <2>6. /\ kind = "client" => \A t \in Trackers : tracker'[t] # None
        /\ kind # "client" => tracker'[Solo] # None
    BY <1>5, ObjectsFact
  <2>7. ProcessAgrees'
    BY <1>5, <2>4, <2>5, <2>6 DEF ProcessAgrees
  <2>8. encoded'[Solo] = <<>>
    BY <1>5, ConstantsFact
  <2> QED BY <1>1, <1>2, <1>5, <2>4, <2>5, <2>7, <2>8 DEF done
<1> HIDE DEF process, done
<1> QED BY <1>1, <1>4, <1>5

(* Every step of a process is one of these.                                *)
LEMMA ProcessSteps ==
  ASSUME Next
  PROVE  \/ \E kind \in Programmes : \E objects \in Objects(kind),
              path \in Paths, start \in 0..MaxSubjects : Launch(kind, objects, path, start)
         \/ Ends \/ NextSubject \/ FirstFrame \/ LaterFrame
         \/ FramePassedOver \/ SubjectOver \/ AttentionRaises \/ Record
         \/ \E t \in Trackers :
              \/ \E subject \in Subjects : ClientInit(t, subject)
              \/ ClientPropagate(t) \/ ClientReset(t) \/ ClientRefused(t)
BY DEF Next, Ends

LEMMA TypeStep ==
  ASSUME TypeInv, BanksAgree, MaskAgrees, MisfitAgrees, Next
  PROVE  FilesTyped' /\ ProcessAgrees'
<1> DEFINE Goal == FilesTyped' /\ ProcessAgrees'
<1>0. FilesTyped /\ ProcessAgrees
  BY DEF TypeInv
<1>f. ASSUME stored' = stored, UNCHANGED <<launches, partial, out>> PROVE FilesTyped'
  BY <1>0, <1>f DEF FilesTyped
<1>1. ASSUME NEW kind \in Programmes, NEW objects \in Objects(kind), NEW path \in Paths,
             NEW start \in 0..MaxSubjects, Launch(kind, objects, path, start)
      PROVE  Goal
  BY <1>1, LaunchFact
<1>2. ASSUME Ends PROVE Goal
  <2>1. /\ Gone /\ stored' = stored /\ UNCHANGED <<launches, exact>>
        /\ run # None /\ run.path \in Paths /\ run.done \in Seq(Subjects)
        /\ \/ partial' = partial
           \/ partial' = [partial EXCEPT ![run.path] = Torn]
           \/ partial' = [partial EXCEPT ![run.path] = None]
        /\ \/ out' = out
           \/ out' = [out EXCEPT ![run.path] = Torn]
           \/ out' = [out EXCEPT ![run.path] = run.done]
    BY <1>2, EndSteps
  <2>2. partial' \in [Paths -> Seq(Subjects) \cup {None, Torn}]
    BY <1>0, <2>1 DEF FilesTyped
  <2>3. out' \in [Paths -> Seq(Subjects) \cup {None, Torn}]
    BY <1>0, <2>1 DEF FilesTyped
  <2>4. run' = None /\ misfit' = FALSE
    BY <2>1, GoneStep
  <2> QED BY <1>0, <2>1, <2>2, <2>3, <2>4 DEF FilesTyped, ProcessAgrees
<1>3. ASSUME NextSubject PROVE Goal
  <2>1. /\ Moved /\ UNCHANGED <<launches, partial, out>> /\ run'.phase = "first"
        /\ Subject \in Nat /\ run'.at[Solo] = run.at[Solo] + 1
    BY <1>3, NextSubjectStep
  <2>2. run'.at[Solo] # 0
    BY <2>1 DEF Subject
  <2> QED BY <1>0, <1>f, <2>1, <2>2, MovedKeeps DEF Moved
<1>4. ASSUME FirstFrame \/ LaterFrame PROVE Goal
  <2>1. /\ Moved /\ UNCHANGED <<launches, partial, out>>
        /\ run'.phase = "later" /\ encoded'[Solo] # <<>>
        /\ run'.at = run.at /\ Subject \in Subjects
    BY <1>4, FrameSteps
  <2>2. run'.at[Solo] # 0
    BY <2>1 DEF Subject, Subjects
  <2> QED BY <1>0, <1>f, <2>1, <2>2, MovedKeeps DEF Moved
<1>5. ASSUME FramePassedOver \/ SubjectOver \/ AttentionRaises PROVE Goal
  <2>1. /\ Moved /\ UNCHANGED <<launches, partial, out, encoded>> /\ run # None
        /\ run.kind # "client" /\ run.phase \in {"first", "later"} /\ run'.at = run.at
        /\ run'.phase = "later" => run.phase = "later"
        /\ run'.phase = "record" => run.kind = "predictions"
    BY <1>5, OverSteps DEF Moved
  <2>2. run'.at[Solo] # 0 /\ (run'.phase = "later" => encoded'[Solo] # <<>>)
    BY <1>0, <2>1 DEF ProcessAgrees
  <2> QED BY <1>0, <1>f, <2>1, <2>2, MovedKeeps DEF Moved
<1>6. ASSUME Record PROVE Goal
  <2>1. /\ Moved /\ UNCHANGED <<launches, out>> /\ run'.phase = "next"
        /\ run'.done \in Seq(Subjects) /\ run.path \in Paths
        /\ partial' \in {partial, [partial EXCEPT ![run.path] = run'.done]}
    BY <1>6, RecordStep
  <2>2. partial' \in [Paths -> Seq(Subjects) \cup {None, Torn}]
    BY <1>0, <2>1 DEF FilesTyped
  <2>3. FilesTyped'
    BY <1>0, <2>1, <2>2 DEF FilesTyped, Moved
  <2> QED BY <1>0, <2>1, <2>3, MovedKeeps
<1>7. ASSUME NEW t \in Trackers,
             \/ \E subject \in Subjects : ClientInit(t, subject)
             \/ ClientPropagate(t) \/ ClientReset(t) \/ ClientRefused(t)
      PROVE  Goal
  <2>1. Moved /\ UNCHANGED <<launches, partial, out>> /\ run.kind = "client"
    BY <1>7, ClientSteps
  <2> QED BY <1>0, <1>f, <2>1, MovedKeeps DEF Moved
<1> HIDE DEF Goal
<1>8. Goal
  BY <1>1, <1>2, <1>3, <1>4, <1>5, <1>6, <1>7, ProcessSteps
<1> QED BY <1>8 DEF Goal

LEMMA AloneStep ==
  ASSUME TypeInv, BanksAgree, MaskAgrees, MisfitAgrees, AloneAgrees, Next
  PROVE  AloneAgrees'
<1>0. FilesTyped /\ ProcessAgrees /\ TrackersTyped
  BY DEF TypeInv
<1>1. ASSUME NEW kind \in Programmes, NEW objects \in Objects(kind), NEW path \in Paths,
             NEW start \in 0..MaxSubjects, Launch(kind, objects, path, start)
      PROVE  AloneAgrees'
  <2>1. run' = None \/ (encoded'[Solo] = <<>> /\ mask' = None)
    BY <1>1, LaunchFact
  <2> QED BY <2>1, EmptyFact DEF AloneAgrees, Alone
<1>2. ASSUME Ends PROVE AloneAgrees'
  BY <1>2, EndSteps, GoneStep DEF AloneAgrees, Alone
<1>3. ASSUME NextSubject PROVE AloneAgrees'
  <2>1. /\ Solo \in Trackers /\ run'.kind = run.kind /\ run # None
        /\ run.kind = "demo" => Subject = 0
        /\ IF run.kind \in Resetting THEN Reset(Solo) ELSE UNCHANGED trackerVars
    BY <1>3, NextSubjectStep DEF Moved
  <2>2. CASE run.kind \in Resetting
    <3>1. encoded'[Solo] = <<>> /\ mask' = None
      BY <1>0, <2>1, <2>2, ResetStep
    <3> QED BY <3>1, EmptyFact DEF AloneAgrees
  <2>3. CASE run.kind = "demo"
    <3>1. /\ UNCHANGED <<encoded, mask>> /\ run.at[Solo] = 0
      BY <2>1, <2>3 DEF Resetting, trackerVars, Subject
    <3>2. Alone
      BY <2>1, <2>3 DEF Alone
    <3>3. \A m \in ToSet(encoded[Solo]) : m \in Memories /\ m.subject = 0
      BY <1>0, <2>1, <3>1, <3>2, SubjectsFact DEF AloneAgrees, TrackersTyped
    <3>4. ToSet(encoded[Solo]) = {}
      BY <3>3 DEF Memories, Subjects
    <3> QED BY <3>1, <3>2, <3>4 DEF AloneAgrees
  <2>4. CASE run.kind \notin Resetting \cup {"demo"}
    BY <2>1, <2>4 DEF AloneAgrees, Alone
  <2> QED BY <2>2, <2>3, <2>4
<1>4. ASSUME FirstFrame \/ LaterFrame, Alone' PROVE AloneAgrees'
  <2>1. /\ run'.at = run.at /\ run'.kind = run.kind /\ Solo \in Trackers
        /\ Subject \in Subjects /\ tracker[Solo] # None /\ run # None
        /\ run.kind # "client"
    BY <1>4, FrameSteps DEF Moved
  <2>2. \A m \in ToSet(encoded[Solo]) : m.subject = Subject /\ m.from = {Subject}
    BY <1>4, <2>1 DEF Alone, AloneAgrees, Subject
  <2>3. CASE FirstFrame
    <3>1. InitFrame(Solo, Subject)
      BY <2>3 DEF FirstFrame
    <3>2. /\ mask'.from = {Subject} /\ mask'.subject = Subject
          /\ ToSet(encoded'[Solo]) =
               ToSet(encoded[Solo]) \cup {[subject |-> Subject, from |-> {Subject}]}
      BY <1>0, <2>1, <3>1, InitFrameStep
    <3> QED BY <2>1, <2>2, <3>2 DEF AloneAgrees, Subject
  <2>4. CASE LaterFrame
    <3>1. PropagateFrame(Solo, Subject) /\ run.phase = "later"
      BY <2>4 DEF LaterFrame, Driving
    <3>2. encoded[Solo] # <<>>
      BY <1>0, <2>1, <3>1 DEF ProcessAgrees
    <3>3. /\ mask'.subject = Subject
          /\ ToSet(encoded'[Solo]) =
               ToSet(encoded[Solo]) \cup {[subject |-> Subject, from |-> mask'.from]}
          /\ \E used \in SUBSET ToSet(encoded[Solo]) :
               /\ mask'.from = UNION {m.from : m \in used}
               /\ encoded[Solo] # <<>> => used # {}
      BY <1>0, <2>1, <3>1, PropagateFrameStep
    <3>4. PICK used \in SUBSET ToSet(encoded[Solo]) :
            mask'.from = UNION {m.from : m \in used} /\ used # {}
      BY <3>2, <3>3
    <3>5. mask'.from = {Subject}
      BY <2>2, <3>4
    <3> QED BY <2>1, <2>2, <3>3, <3>5 DEF AloneAgrees, Subject
  <2> QED BY <1>4, <2>3, <2>4
<1>5. ASSUME FramePassedOver \/ SubjectOver \/ AttentionRaises PROVE AloneAgrees'
  <2>1. /\ UNCHANGED <<encoded, mask>> /\ run'.at = run.at /\ run'.kind = run.kind
        /\ run # None
    BY <1>5, OverSteps DEF Moved
  <2> QED BY <2>1 DEF AloneAgrees, Alone
<1>6. ASSUME Record PROVE AloneAgrees'
  <2>1. /\ UNCHANGED <<encoded, mask>> /\ run'.at = run.at /\ run'.kind = run.kind
        /\ run # None
    BY <1>6, RecordStep DEF Moved, trackerVars
  <2> QED BY <2>1 DEF AloneAgrees, Alone
<1>7. ASSUME NEW t \in Trackers,
             \/ \E subject \in Subjects : ClientInit(t, subject)
             \/ ClientPropagate(t) \/ ClientReset(t) \/ ClientRefused(t)
      PROVE  AloneAgrees'
  <2>1. run'.kind = "client"
    BY <1>7, ClientSteps DEF Moved
  <2> QED BY <2>1 DEF AloneAgrees, Alone, Resetting
<1>8. ~Alone' => AloneAgrees'
  BY DEF AloneAgrees, Alone
<1> QED BY <1>1, <1>2, <1>3, <1>4, <1>5, <1>6, <1>7, <1>8, ProcessSteps

LEMMA CountedFact ==
  ASSUME NEW n \in Nat
  PROVE  /\ Counted(n) \in Seq(Nat) /\ Len(Counted(n)) = n
         /\ Append(Counted(n), n + 1) = Counted(n + 1)
<1>1. Counted(n) \in Seq(Nat) /\ Len(Counted(n)) = n /\ \A i \in 1..n : Counted(n)[i] = i
  BY IsASeq DEF Counted
<1>2. /\ Counted(n + 1) \in Seq(Nat) /\ Len(Counted(n + 1)) = n + 1
      /\ \A i \in 1..(n + 1) : Counted(n + 1)[i] = i
  BY IsASeq DEF Counted
<1> DEFINE longer == Append(Counted(n), n + 1)
<1>3. /\ longer \in Seq(Nat) /\ Len(longer) = n + 1
      /\ \A i \in 1..n : longer[i] = Counted(n)[i] /\ longer[n + 1] = n + 1
  BY <1>1, AppendProperties
<1>4. longer[n + 1] = n + 1
  BY <1>1, AppendProperties
<1> HIDE DEF longer
<1>5. \A i \in 1..(n + 1) : longer[i] = Counted(n + 1)[i]
  BY <1>1, <1>2, <1>3, <1>4
<1>6. longer = Counted(n + 1)
  BY <1>2, <1>3, <1>5, SeqEqual
<1> QED BY <1>1, <1>6 DEF longer

LEMMA CheckpointsStep ==
  ASSUME TypeInv, BanksAgree, MaskAgrees, MisfitAgrees, CheckpointsAgree, Next
  PROVE  CheckpointsAgree'
<1>0. FilesTyped /\ ProcessAgrees
  BY DEF TypeInv
<1> DEFINE Listed(list) ==
             list = None \/ list = Torn \/ \E n \in 0..MaxSubjects : list = Counted(n)
           Whole(list) == list \in {None, Torn, Counted(MaxSubjects)}
<1>k. ASSUME exact' = exact, UNCHANGED <<partial, out>>,
             exact /\ run' # None /\ run'.kind = "predictions" /\ run'.phase # "over"
               => Recorded'
      PROVE  CheckpointsAgree'
  BY <1>k DEF CheckpointsAgree, Counted
<1>r. ASSUME exact, run # None, run.kind = "predictions", run.phase # "over"
      PROVE  Recorded
  BY <1>r DEF CheckpointsAgree
<1>1. ASSUME NEW kind \in Programmes, NEW objects \in Objects(kind), NEW path \in Paths,
             NEW start \in 0..MaxSubjects, Launch(kind, objects, path, start)
      PROVE  CheckpointsAgree'
  <2> DEFINE done == Resumes(path, start)
  <2>1. /\ UNCHANGED <<partial, out>>
        /\ exact' = (exact /\ (done # Torn => Len(done) = start))
        /\ \/ run' = None
           \/ /\ run' # None /\ run'.done = done /\ done # Torn /\ run'.phase = "next"
              /\ run'.at[Solo] = start
    BY <1>1, LaunchFact
  <2>2. ASSUME exact', run' # None PROVE Recorded'
    <3>1. exact /\ Len(done) = start /\ done # Torn
      BY <2>1, <2>2
    <3>2. start \in Nat
      OBVIOUS
    <3>3. \E n \in Nat : done = Counted(n)
      <4>1. partial[path] = None \/ partial[path] = Torn
            \/ \E n \in 0..MaxSubjects : partial[path] = Counted(n)
        BY <3>1 DEF CheckpointsAgree
      <4>2. CASE done = partial[path] /\ partial[path] # None
        BY <3>1, <4>1, <4>2
      <4>3. CASE done = <<>>
        <5>1. Counted(0) \in Seq(Nat) /\ Len(Counted(0)) = 0
          BY CountedFact
        <5>2. Counted(0) = <<>>
          BY <5>1, EmptySeq
        <5> HIDE DEF done
        <5> QED BY <4>3, <5>2
      <4> QED BY <4>2, <4>3 DEF Resumes
    <3>4. PICK n \in Nat : done = Counted(n)
      BY <3>3
    <3> HIDE DEF done
    <3>5. n = start
      BY <3>1, <3>4, CountedFact
    <3>6. run'.done = Counted(start)
      BY <2>1, <2>2, <3>4, <3>5
    <3> QED BY <2>1, <2>2, <3>6 DEF Recorded, Counted
  <2>3. exact' => exact
    BY <2>1
  <2> QED BY <2>1, <2>2, <2>3 DEF CheckpointsAgree, Counted
<1>2. ASSUME Ends PROVE CheckpointsAgree'
  <2>1. /\ Gone /\ exact' = exact
        /\ run # None /\ run.path \in Paths
        /\ \/ partial' = partial
           \/ partial' = [partial EXCEPT ![run.path] = Torn]
           \/ partial' = [partial EXCEPT ![run.path] = None]
        /\ \/ out' = out
           \/ out' = [out EXCEPT ![run.path] = Torn]
           \/ /\ out' = [out EXCEPT ![run.path] = run.done]
              /\ run.kind = "predictions" /\ run.phase = "next" /\ Subject = MaxSubjects
    BY <1>2, EndSteps
  <2>2. run' = None
    BY <2>1, GoneStep
  <2>3. DOMAIN partial = Paths /\ DOMAIN out = Paths
    BY <1>0 DEF FilesTyped
  <2>4. ASSUME exact, NEW p \in Paths PROVE Listed(partial'[p]) /\ Whole(out'[p])
    <3>1. Listed(partial[p]) /\ Whole(out[p])
      BY <2>4 DEF CheckpointsAgree
    <3>2. ASSUME run.kind = "predictions", run.phase = "next", Subject = MaxSubjects
          PROVE  run.done = Counted(MaxSubjects)
      BY <1>r, <2>1, <2>4, <3>2 DEF Recorded, Subject
    <3>3. partial'[p] \in {partial[p], None, Torn}
      BY <2>1, <2>3
    <3>4. out'[p] \in {out[p], Torn, Counted(MaxSubjects)}
      BY <2>1, <2>3, <3>2
    <3> QED BY <3>1, <3>3, <3>4
  <2> QED BY <2>1, <2>2, <2>4 DEF CheckpointsAgree, Counted
<1>3. ASSUME NextSubject PROVE CheckpointsAgree'
  <2>1. /\ UNCHANGED <<partial, out, exact>> /\ run # None /\ run'.kind = run.kind
        /\ run.phase = "next" /\ run'.phase = "first" /\ Subject \in Nat
        /\ run'.at[Solo] = run.at[Solo] + 1 /\ run'.done = run.done
    BY <1>3, NextSubjectStep DEF Moved
  <2>2. ASSUME exact, run'.kind = "predictions" PROVE Recorded'
    <3>1. run.done = Counted(run.at[Solo])
      BY <1>r, <2>1, <2>2 DEF Recorded
    <3>2. run'.at[Solo] - 1 = run.at[Solo]
      BY <2>1 DEF Subject
    <3> QED BY <2>1, <3>1, <3>2 DEF Recorded, Counted
  <2> QED BY <1>k, <2>1, <2>2
<1>4. ASSUME FirstFrame \/ LaterFrame PROVE CheckpointsAgree'
  <2>1. /\ UNCHANGED <<partial, out, exact>> /\ run # None /\ run'.kind = run.kind
        /\ run.phase \in {"first", "later"} /\ run'.phase = "later"
        /\ run'.at = run.at /\ run'.done = run.done
    BY <1>4, FrameSteps DEF Moved
  <2>2. ASSUME exact, run'.kind = "predictions" PROVE Recorded'
    BY <1>r, <2>1, <2>2 DEF Recorded, Counted
  <2> QED BY <1>k, <2>1, <2>2
<1>5. ASSUME FramePassedOver \/ SubjectOver \/ AttentionRaises PROVE CheckpointsAgree'
  <2>1. /\ UNCHANGED <<partial, out, exact>> /\ run # None /\ run'.kind = run.kind
        /\ run.phase \in {"first", "later"} /\ run'.at = run.at /\ run'.done = run.done
        /\ run.kind = "predictions" => run'.phase \in {"later", "over", "record"}
    BY <1>5, OverSteps DEF Moved
  <2>2. ASSUME exact, run'.kind = "predictions", run'.phase # "over" PROVE Recorded'
    BY <1>r, <2>1, <2>2 DEF Recorded, Counted
  <2> QED BY <1>k, <2>1, <2>2
<1>6. ASSUME Record PROVE CheckpointsAgree'
  <2>1. /\ UNCHANGED <<out, exact>> /\ run # None /\ run'.kind = run.kind
        /\ run.phase = "record" /\ run'.phase = "next" /\ run'.at = run.at
        /\ Subject \in Subjects /\ run'.done = Append(run.done, Subject)
        /\ run.path \in Paths
        /\ partial' \in {partial, [partial EXCEPT ![run.path] = run'.done]}
    BY <1>6, RecordStep DEF Moved
  <2>2. run.kind = "predictions" /\ run.kind # "client"
    BY <1>6, <2>1, RecordStep DEF TypeInv, ProcessAgrees
  <2> DEFINE n == Subject - 1
  <2>3. n \in Nat /\ n + 1 = Subject /\ Subject \in 0..MaxSubjects /\ run.at[Solo] = Subject
    BY <2>1 DEF Subjects, Subject
  <2> HIDE DEF n
  <2>4. ASSUME exact PROVE run'.done = Counted(Subject)
    <3>1. run.done = Counted(n)
      BY <1>r, <2>1, <2>2, <2>3, <2>4 DEF Recorded, n
    <3> QED BY <2>1, <2>3, <3>1, CountedFact
  <2>5. run'.at[Solo] = Subject
    BY <2>1, <2>3
  <2>6. ASSUME exact PROVE Recorded'
    BY <2>1, <2>4, <2>5, <2>6 DEF Recorded, Counted
  <2>7. ASSUME NEW p \in Paths, exact
        PROVE  /\ partial'[p] = None \/ partial'[p] = Torn \/
                    \E m \in 0..MaxSubjects : partial'[p] = Counted(m)
               /\ out'[p] \in {None, Torn, Counted(MaxSubjects)}
    <3>1. /\ partial[p] = None \/ partial[p] = Torn \/
               \E m \in 0..MaxSubjects : partial[p] = Counted(m)
          /\ out[p] \in {None, Torn, Counted(MaxSubjects)}
      BY <2>7 DEF CheckpointsAgree
    <3>2. partial'[p] = partial[p] \/ partial'[p] = run'.done
      BY <1>0, <2>1, <2>7 DEF FilesTyped
    <3> QED BY <2>1, <2>3, <2>4, <2>7, <3>1, <3>2
  <2> QED BY <2>1, <2>6, <2>7 DEF CheckpointsAgree, Counted
<1>7. ASSUME NEW t \in Trackers,
             \/ \E subject \in Subjects : ClientInit(t, subject)
             \/ ClientPropagate(t) \/ ClientReset(t) \/ ClientRefused(t)
      PROVE  CheckpointsAgree'
  <2>1. run'.kind = "client" /\ UNCHANGED <<partial, out, exact>>
    BY <1>7, ClientSteps DEF Moved
  <2> QED BY <1>k, <2>1
<1> QED BY <1>1, <1>2, <1>3, <1>4, <1>5, <1>6, <1>7, ProcessSteps


-----------------------------------------------------------------------------
(* The invariant of all of it, and what it implies.                        *)
LEMMA BoxInit == Init => BoxInv
<1> SUFFICES ASSUME Init PROVE BoxInv
  OBVIOUS
<1>1. /\ stored \in [Programs -> {"none", "whole"}] /\ tracker = [t \in Trackers |-> None]
      /\ bank = [t \in Trackers |-> <<>>] /\ encoded = [t \in Trackers |-> <<>>]
      /\ mask = None /\ misfit = FALSE /\ run = None /\ launches = 0
      /\ partial = [p \in Paths |-> None] /\ out = [p \in Paths |-> None]
  BY DEF Init, TrackerInit
<1>2. FilesTyped
  BY <1>1 DEF FilesTyped
<1>3. TrackersTyped
  BY <1>1, EmptyFact DEF TrackersTyped
<1>4. ProcessAgrees
  BY <1>1 DEF ProcessAgrees
<1>5. BanksAgree
  BY <1>1, EmptyFact DEF BanksAgree
<1>6. MaskAgrees /\ MisfitAgrees /\ AloneAgrees
  BY <1>1 DEF MaskAgrees, MisfitAgrees, AloneAgrees, Alone
<1>7. CheckpointsAgree
  BY <1>1 DEF CheckpointsAgree
<1> QED BY <1>2, <1>3, <1>4, <1>5, <1>6, <1>7 DEF BoxInv, TypeInv

LEMMA BoxStep == BoxInv /\ [Next]_vars => BoxInv'
<1> SUFFICES ASSUME BoxInv, [Next]_vars PROVE BoxInv'
  OBVIOUS
<1>0. /\ TypeInv /\ BanksAgree /\ MaskAgrees /\ MisfitAgrees
      /\ AloneAgrees /\ CheckpointsAgree
  BY DEF BoxInv
<1>1. TrackersTyped' /\ BanksAgree' /\ MaskAgrees' /\ MisfitAgrees'
  BY <1>0, TrackersStep
<1>2. CASE Next
  <2>1. FilesTyped' /\ ProcessAgrees'
    BY <1>0, <1>2, TypeStep
  <2>2. AloneAgrees'
    BY <1>0, <1>2, AloneStep
  <2>3. CheckpointsAgree'
    BY <1>0, <1>2, CheckpointsStep
  <2> QED BY <1>1, <2>1, <2>2, <2>3 DEF BoxInv, TypeInv
<1>3. CASE UNCHANGED vars
  <2>1. UNCHANGED <<stored, tracker, bank, encoded, mask, misfit,
                    run, launches, partial, out, exact>>
    BY <1>3 DEF vars, trackerVars, runVars
  <2>2. FilesTyped' /\ ProcessAgrees'
    BY <1>0, <2>1 DEF TypeInv, FilesTyped, ProcessAgrees
  <2>3. AloneAgrees'
    BY <1>0, <2>1 DEF AloneAgrees, Alone
  <2>4. CheckpointsAgree'
    BY <1>0, <2>1 DEF CheckpointsAgree, Counted, Recorded
  <2> QED BY <1>1, <2>2, <2>3, <2>4 DEF BoxInv, TypeInv
<1> QED BY <1>2, <1>3

LEMMA BoxInvariant == Spec => []BoxInv
BY BoxInit, BoxStep, PTL DEF Spec

(* The variables keep their shape: every tracker object a process has was  *)
(* built with all its compiled programs whole on disk, and a bank never    *)
(* holds more memories than its tracker keeps, whatever is called on it.   *)
THEOREM BoxTypeCorrect == Spec => []TypeOK
<1>1. ASSUME BoxInv PROVE TypeOK
  <2>1. FilesTyped /\ TrackersTyped /\ ProcessAgrees /\ BanksAgree
    BY <1>1 DEF BoxInv, TypeInv
  <2>2. ASSUME NEW t \in Trackers
        PROVE  /\ tracker[t] = None => bank[t] = <<>> /\ encoded[t] = <<>>
               /\ tracker[t] # None =>
                    /\ tracker[t] \in [own : Sizes, slots : Sizes]
                    /\ Len(bank[t]) <= tracker[t].own
               /\ ToSet(encoded[t]) \subseteq [subject : Subjects, from : SUBSET Subjects]
    <3>1. bank[t] \in Seq(Memories) /\ encoded[t] \in Seq(Memories)
      BY <2>1 DEF TrackersTyped
    <3>2. ASSUME tracker[t] # None
          PROVE  /\ tracker[t] \in [own : Sizes, slots : Sizes]
                 /\ Len(bank[t]) <= tracker[t].own
      <4>1. tracker[t] \in Built /\ Latest(t)
        BY <2>1, <3>2 DEF TrackersTyped, BanksAgree
      <4>2. tracker[t].own \in Nat
        BY <4>1, ConstantsFact DEF Built
      <4>3. Len(bank[t]) = Least(Len(encoded[t]), tracker[t].own)
        BY <4>1 DEF Latest
      <4>4. Len(encoded[t]) \in Nat
        BY <3>1, LenProperties
      <4> QED BY <4>1, <4>2, <4>3, <4>4 DEF Least, Built
    <3>3. ToSet(encoded[t]) \subseteq Memories
      BY <3>1, SubjectsFact
    <3> QED BY <2>1, <3>2, <3>3 DEF TrackersTyped, Memories
  <2> QED BY <2>1, <2>2 DEF TypeOK, FilesTyped, ProcessAgrees
<1> QED BY <1>1, BoxInvariant, PTL

(* MemoryBank.build_attention_inputs: each mask attends to the most recent *)
(* memories of its tracker, newest first, none left out, as many as the    *)
(* tracker keeps; and the attention only ever refuses its input when a     *)
(* tracker was loaded for other than the exported number of memories.      *)
THEOREM AttentionIsRight == Spec => []AttentionInputRight
<1>1. BoxInv => AttentionInputRight
  BY DEF BoxInv, MaskAgrees, Attended, Least, MisfitAgrees, Misfits, AttentionInputRight
<1> QED BY <1>1, BoxInvariant, PTL

(* Trackers that share resources do not mix: what a mask was made from was *)
(* prompted on its own tracker since reset(); and in the programs that     *)
(* call reset() before each subject, or have one, it is its own subject.   *)
THEOREM MasksAreOwn == Spec => []OwnMemories
<1>1. BoxInv => OwnMemories
  BY DEF BoxInv, MaskAgrees, SubjectsOf, AloneAgrees, Alone, OwnMemories
<1> QED BY <1>1, BoxInvariant, PTL

(* The predictions that generate_preds writes out whole list every         *)
(* annotation in order, however often it was killed (also while it wrote   *)
(* a checkpoint) and resumed from the length of the checkpoint it found.   *)
THEOREM ResumedAreComplete == Spec => []ResumedIsComplete
<1>1. BoxInv => ResumedIsComplete
  BY DEF BoxInv, CheckpointsAgree, Counted, ResumedIsComplete, Subjects
<1> QED BY <1>1, BoxInvariant, PTL

=============================================================================
