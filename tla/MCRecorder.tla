----------------------------- MODULE MCRecorder -----------------------------
(* Model-checking instances of Recorder.                                   *)
EXTENDS Recorder, TLC

BufferSymmetry == Permutations(Buf)

(***************************************************************************)
(* Symmetry cannot be used with liveness.  With numbers for buffers calloc *)
(* may return the least free one instead: whatever another choice leads to *)
(* is such a behavior with the buffers renamed as they are allocated.      *)
(***************************************************************************)
LeastFree == \A b \in live' \ live, other \in Buf \ live : b <= other
\* Bound: a session follows only one that wrote and left behind nothing.
FreshStart == c = "idle" /\ c' # "idle" => live = {} /\ written = None
LiveSpec ==
  /\ Init /\ [][Next /\ LeastFree /\ FreshStart]_vars
  /\ SF_vars(Running /\ Producer) /\ SF_vars(Running /\ Consumer) /\ WF_vars(Running /\ Deliver)
=============================================================================
