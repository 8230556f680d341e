----------------------------- MODULE SampleFifo -----------------------------
(***************************************************************************)
(* What the PDM microphone driver promises to a sketch: the captured       *)
(* samples come out of a bounded first-in first-out queue.  Samples are    *)
(* lost only from the end of a block that does not fit, never from the     *)
(* middle of the stream, and none is delivered twice or out of order.      *)
(* Pdm.tla implements this module with the driver's ring buffer.           *)
(***************************************************************************)
EXTENDS Integers, Sequences

CONSTANTS
  Samples,   \* the values a sample can have
  DmaLen     \* samples the hardware hands over at a time

VARIABLES
  room,      \* how many samples the queue may hold
  queue,     \* the captured samples that were not read yet
  out        \* the last sample the sketch received

vars == <<room, queue, out>>

Min2(a, b) == IF a <= b THEN a ELSE b

Init ==
  /\ room  = 0
  /\ queue = <<>>
  /\ out   \in Samples

\* A queue is set up, or given up: what it held is gone.
Resize ==
  /\ room'  \in Nat
  /\ queue' = <<>>
  /\ UNCHANGED out

\* The hardware hands over a block; what does not fit is dropped.
Offer(block) ==
  /\ queue' = queue \o SubSeq(block, 1, Min2(DmaLen, room - Len(queue)))
  /\ UNCHANGED <<room, out>>

\* The sketch receives the oldest sample.
Take ==
  /\ queue # <<>>
  /\ out'   = Head(queue)
  /\ queue' = Tail(queue)
  /\ UNCHANGED room

Next ==
  \/ Resize
  \/ \E block \in [1 .. DmaLen -> Samples] : Offer(block)
  \/ Take

Spec == Init /\ [][Next]_vars
=============================================================================
