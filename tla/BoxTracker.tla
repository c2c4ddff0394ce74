----------------------------- MODULE BoxTracker -----------------------------
(***************************************************************************)
(* The box-prompted tracker (tracker/sam3_onnx_tracker.py) and its memory  *)
(* bank (tracker/migraphx_runtime.py).                                     *)
(*                                                                         *)
(* A tracker is prompted once with the box of a subject and then follows   *)
(* it from frame to frame: each frame is conditioned by an attention over  *)
(* a bank of memories, and its mask is encoded into a new memory.  A       *)
(* memory remembers here which subject it was encoded for and which        *)
(* subjects its mask was made from; pictures and features are abstracted.  *)
(* The compiled programs a tracker runs are files: loaded when they exist, *)
(* else compiled and saved in place.                                       *)
(***************************************************************************)
EXTENDS Integers, Sequences, FiniteSets, SequencesExt

CONSTANTS
  Trackers,  \* SAM3OnnxTracker objects of a process
  Exported,  \* memories the exported fixed attention takes (the N of fixed_N7)
  Sizes,     \* values of num_maskmem
  None

ASSUME TrackerAssumption ==
  /\ Sizes \subseteq Nat \ {0} /\ Exported \in Sizes
  /\ Trackers # {}
  /\ None \notin Sizes \cup [own : Sizes, slots : Sizes]

VARIABLES
  stored,    \* the compiled programs on disk
  tracker,   \* per object: its num_maskmem and the slots of its attention
  bank,      \* per object: its memories, newest first
  encoded,   \* per object: every memory encoded since its last reset
  mask,      \* the last mask returned, and what it was made from; None after a reset
  misfit     \* an attention was called with what it was not exported for

trackerVars == <<stored, tracker, bank, encoded, mask, misfit>>

-----------------------------------------------------------------------------
(***************************************************************************)
(* Loading                                                                 *)
(***************************************************************************)

\* What the constructor asks for; memory attention is cached by its
\* execution provider.
Programs == {"tuned", "dec_init", "dec_prop", "mem_enc"}

\* MIGraphXSession and MIGraphXBackbone: what the store may be after the
\* program, and whether the constructor goes on.  A file that is there is
\* loaded, so one cut short stops every load; else the program is compiled
\* and written in place.
Fetched(p, store) ==
  CASE store[p] = "whole" -> {[on |-> TRUE, store |-> store]}
    [] store[p] = "torn"  -> {[on |-> FALSE, store |-> store]}
    [] store[p] = "none"  ->
         {[on |-> TRUE,  store |-> [store EXCEPT ![p] = "whole"]],
          [on |-> FALSE, store |-> store],
          [on |-> FALSE, store |-> [store EXCEPT ![p] = "torn"]]}

Then(outcomes, p) == UNION {IF o.on THEN Fetched(p, o.store) ELSE {o} : o \in outcomes}

\* SAM3OnnxTracker.__init__ without shared resources: one program after the
\* other, then the attention (which may be refused), the first failure ends it.
Loads ==
  LET backbone == Fetched("tuned", stored)
      decoders == Then(Then(backbone, "dec_init"), "dec_prop")
      fetched == Then(decoders, "mem_enc")
  IN fetched \cup {[o EXCEPT !.on = FALSE] : o \in fetched}

\* A tracker of its own: the attention is taken to have as many slots as the
\* bank, whatever the fixed_N7 file was exported for.
Own(size) == [own |-> size, slots |-> size]

\* SharedTrackerResources: the slots are those of the owner the resources
\* were loaded with, the bank has the size the tracker asks for.
Sharing(size, ownerSize) == [own |-> size, slots |-> ownerSize]

\* A fresh object has an empty MemoryBank.
Constructed(objects) ==
  /\ tracker' = objects
  /\ bank' = [t \in Trackers |-> <<>>]
  /\ encoded' = [t \in Trackers |-> <<>>]
  /\ mask' = None

-----------------------------------------------------------------------------
(***************************************************************************)
(* The memory bank                                                         *)
(***************************************************************************)

\* (Mutations of push: no maxlen; append instead of appendleft.)
PushedUnbounded(t, memory) == <<memory>> \o bank[t]
PushedLast(t, memory) ==
  LET entries == Append(bank[t], memory)
  IN SubSeq(entries, IF Len(entries) > tracker[t].own THEN 2 ELSE 1, Len(entries))

\* MemoryBank.push: appendleft on a deque that drops its other end.
Pushed(t, memory) ==
  LET entries == <<memory>> \o bank[t]
  IN SubSeq(entries, 1,
            IF Len(entries) > tracker[t].own THEN tracker[t].own ELSE Len(entries))

\* MemoryBank.build_attention_inputs: newest first, filled up with the newest.
AttentionInputs(t) ==
  [i \in 1..(IF Len(bank[t]) < tracker[t].slots THEN tracker[t].slots ELSE Len(bank[t]))
     |-> IF i <= Len(bank[t]) THEN bank[t][i] ELSE bank[t][1]]

\* The temporal encoding has a row for each exported memory, and the
\* attention takes exactly that many.
Fits(t) == Len(bank[t]) <= Exported /\ Len(AttentionInputs(t)) = Exported

\* (Mutation: only the frame index is set back.)
ResetIndexOnly(t) ==
  /\ encoded' = [encoded EXCEPT ![t] = <<>>]
  /\ mask' = None
  /\ UNCHANGED <<stored, tracker, bank, misfit>>

\* SAM3OnnxTracker.reset.
Reset(t) ==
  /\ bank' = [bank EXCEPT ![t] = <<>>]
  /\ encoded' = [encoded EXCEPT ![t] = <<>>]
  /\ mask' = None
  /\ UNCHANGED <<stored, tracker, misfit>>

-----------------------------------------------------------------------------
(***************************************************************************)
(* Inference.  Whatever raises, backbone, decoder or encoder, does so      *)
(* before the memory is pushed.                                            *)
(***************************************************************************)

\* _encode_memory, the last step of every call that returns a mask.
Returned(t, subject, from, seen) ==
  /\ mask' = [tracker |-> t, subject |-> subject, from |-> from, seen |-> seen]
  /\ LET memory == [subject |-> subject, from |-> from]
     IN /\ bank' = [bank EXCEPT ![t] = Pushed(t, memory)]
        /\ encoded' = [encoded EXCEPT ![t] = <<memory>> \o @]
  /\ UNCHANGED <<stored, tracker, misfit>>

\* init_frame and init_with_features: the box alone; the bank is left alone.
InitFrame(t, subject) == Returned(t, subject, {subject}, <<>>)

\* propagate_frame and propagate_with_features: an empty bank passes the
\* features on unconditioned.
PropagateFrame(t, subject) ==
  /\ bank[t] # <<>> => Fits(t)
  /\ LET seen == IF bank[t] = <<>> THEN <<>> ELSE AttentionInputs(t)
     IN Returned(t, subject, UNION {m.from : m \in ToSet(seen)}, seen)

\* The attention raises whenever its input does not fit.
AttentionRefused(t) ==
  /\ bank[t] # <<>> /\ ~Fits(t)
  /\ misfit' = TRUE
  /\ UNCHANGED <<stored, tracker, bank, encoded, mask>>

TrackerInit ==
  /\ stored \in [Programs -> {"none", "whole"}]
  /\ tracker = [t \in Trackers |-> None]
  /\ bank = [t \in Trackers |-> <<>>]
  /\ encoded = [t \in Trackers |-> <<>>]
  /\ mask = None
  /\ misfit = FALSE

-----------------------------------------------------------------------------
\* The attention of a tracker gets what it is meant to get.  It is never
\* called with what it was not exported for, provided the tracker was loaded
\* for the exported number of memories and, sharing the resources of another,
\* does not keep more memories than those have slots (the first frame after
\* the prompt refuses too few; a larger bank is only refused when it is full).
\* And mask by mask it attends to the most recent memories encoded since the
\* reset, newest first and none left out, as many as the tracker keeps; what
\* fills the other slots repeats the newest.
AttentionInputRight ==
  /\ misfit => \E t \in Trackers :
       /\ tracker[t] # None
       /\ tracker[t].slots # Exported \/ tracker[t].own > tracker[t].slots
  /\ mask # None /\ mask.seen # <<>> =>
       LET before == Tail(encoded[mask.tracker])
           kept == IF Len(before) > tracker[mask.tracker].own
                   THEN tracker[mask.tracker].own ELSE Len(before)
       IN /\ kept > 0
          /\ \A i \in 1..Len(mask.seen) :
               mask.seen[i] = IF i <= kept THEN before[i] ELSE before[1]
=============================================================================
