----------------------------- MODULE FrameQueue -----------------------------
(***************************************************************************)
(* What the recorder promises about the transport-stream half-buffers it   *)
(* copies out of the FPGA memory: they leave memory in the order in which  *)
(* they entered it, and each of them at most once.  A half-buffer (a       *)
(* frame) is handed to write(), or the oldest ones are dropped, but a      *)
(* younger frame never overtakes an older one.                             *)
(***************************************************************************)
EXTENDS Naturals, Sequences

CONSTANT Frame, None

VARIABLES
  queue,    \* captured frames that have not been written or dropped
  written   \* the frame most recently handed to write()

vars == <<queue, written>>

Init == queue = <<>> /\ written = None

Capture(f) ==
  /\ f \notin {queue[k] : k \in DOMAIN queue}
  /\ queue' = Append(queue, f)
  /\ UNCHANGED written

Record ==
  /\ queue # <<>>
  /\ written' = Head(queue)
  /\ queue' = Tail(queue)

\* The n oldest frames are given up (end of a single recording, cleaning).
Drop(n) ==
  /\ queue' = SubSeq(queue, n + 1, Len(queue))
  /\ UNCHANGED written

Next ==
  \/ \E f \in Frame : Capture(f)
  \/ Record
  \/ \E n \in 1 .. Len(queue) : Drop(n)

Spec == Init /\ [][Next]_vars
=============================================================================
