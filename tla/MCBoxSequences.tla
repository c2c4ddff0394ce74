--------------------------- MODULE MCBoxSequences ---------------------------
(***************************************************************************)
(* Two trackers of a library client for model-checking BoxSequences.       *)
(***************************************************************************)
EXTENDS BoxSequences, TLC

CONSTANTS t1, t2

\* A client neither reads nor writes the files of the evaluations: it is
\* enough to look at one in the first process.
ClientsFirst == run # None /\ run.kind = "client" => launches = 1
=============================================================================
