---------------------------- MODULE FreshFrames ----------------------------
(***************************************************************************)
(* What a latest-frame pipeline promises its caller, without threads,      *)
(* locks or counters: one pending frame that newer ones replace, one frame *)
(* in hand, results in source order, and no inference that begins after a  *)
(* stop.  LatestFrame implements it.                                       *)
(***************************************************************************)
EXTENDS Integers

CONSTANTS MaxSequence, None

VARIABLES
  mode,       \* "open": accepts frames; "draining": no more; "stopped"
  next,       \* the smallest source sequence still acceptable
  pending,    \* the newest accepted frame, or None
  hand,       \* the frame the consumer took, or None
  running,    \* is hand being inferred?
  delivered   \* the newest delivered frame, or -1

vars == <<mode, next, pending, hand, running, delivered>>

Init ==
  /\ mode = "open" /\ next = 0
  /\ pending = None /\ hand = None /\ running = FALSE /\ delivered = -1

Accept(s) ==
  /\ mode = "open"
  /\ s >= next
  /\ next' = s + 1
  /\ pending' = s
  /\ UNCHANGED <<mode, hand, running, delivered>>

Take ==
  /\ hand = None /\ pending # None
  /\ hand' = pending
  /\ pending' = None
  /\ UNCHANGED <<mode, next, running, delivered>>

Run ==
  /\ mode # "stopped"
  /\ hand # None /\ ~running
  /\ running' = TRUE
  /\ UNCHANGED <<mode, next, pending, hand, delivered>>

Deliver ==
  /\ running
  /\ delivered' = hand
  /\ hand' = None /\ running' = FALSE
  /\ UNCHANGED <<mode, next, pending>>

(* The frame in hand failed, or a stop overtook it before it ran.          *)
Lose ==
  /\ hand # None
  /\ running \/ mode = "stopped"
  /\ hand' = None /\ running' = FALSE
  /\ UNCHANGED <<mode, next, pending, delivered>>

(* End of input: the pending frame stays to be drained.                    *)
Finish ==
  /\ mode = "open"
  /\ mode' = "draining"
  /\ UNCHANGED <<next, pending, hand, running, delivered>>

(* Abort or close: the pending frame is thrown away.                       *)
Stop ==
  /\ mode' = "stopped"
  /\ pending' = None
  /\ UNCHANGED <<next, hand, running, delivered>>

Next ==
  \/ \E s \in 0..MaxSequence : Accept(s)
  \/ Take \/ Run \/ Deliver \/ Lose \/ Finish \/ Stop

Spec == Init /\ [][Next]_vars
=============================================================================
