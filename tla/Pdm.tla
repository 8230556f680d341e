-------------------------------- MODULE Pdm ---------------------------------
(***************************************************************************)
(* The PDM microphone driver (libraries/PDM/src/PDM.cpp).                  *)
(*                                                                         *)
(* Two parties share the ring buffer.  The DMA-complete interrupt runs     *)
(* onReceiveService(): on this single core it runs from start to end       *)
(* before the sketch continues, so it is one action, Isr, that may happen  *)
(* between any two memory accesses of the sketch.  The sketch calls the    *)
(* public methods one after the other; available() and read() are split    *)
(* at their accesses to the volatile indices and to the slots.             *)
(***************************************************************************)
EXTENDS Integers, Sequences

CONSTANTS
  Samples,      \* the values a captured sample can have
  Garbage,      \* what malloc() leaves in a slot
  DmaLen,       \* SIZEOF_DMA_BUFFER
  BufferSizes,  \* the arguments of setBufferSize()
  ReadSizes     \* the size arguments of read()

ASSUME PdmAssumption ==
  /\ DmaLen \in Nat \ {0}
  /\ BufferSizes \subseteq Nat
  /\ ReadSizes \subseteq Nat
  /\ Garbage \notin Samples
  /\ Samples # {}

VARIABLES
  ringBuffer,         \* _ringBuffer, a function on 0 .. ringCapacity - 1
  ringHead,           \* _ringHead, written by the interrupt
  ringTail,           \* _ringTail, written by the sketch
  ringCapacity,       \* _ringCapacity
  initialized,        \* _initialized
  bufferInitialized,  \* _bufferInitialized
  halHeld,            \* the HAL object is between its init and its free
  dma,                \* an asynchronous read is pending
  ended,              \* end() was called, and neither setBufferSize() nor begin() since
  pc,                 \* where the sketch is
  head,               \* the local copy of _ringHead in _ringAvailable()
  want,               \* the size argument of read()
  left,               \* samples this read() still has to copy
  promised,           \* the last result of available() not used up by a read()
  sample,             \* data[i]: the sample being copied
  out                 \* the last sample a read() delivered

ringVars == <<ringBuffer, ringHead, ringTail, ringCapacity>>
lifeVars == <<initialized, bufferInitialized, halHeld, ended>>
callVars == <<pc, head, want, left, promised, sample, out>>
vars == <<ringVars, lifeVars, dma, callVars>>

Min2(a, b) == IF a <= b THEN a ELSE b

-----------------------------------------------------------------------------
(* The ring buffer's helpers.                                              *)

\* _ringAvailable(), of the values it has loaded.
Distance(tail, hd) ==
  IF hd >= tail THEN hd - tail ELSE ringCapacity - tail + hd

RingAvailable == Distance(ringTail, ringHead)

\* Mutant of RingFree: no slot is kept free to tell full from empty.
RingFree_NoGap == ringCapacity - RingAvailable

\* _ringFree()
RingFree == ringCapacity - RingAvailable - 1

\* (x + 1) % _ringCapacity
NextIndex(x) == (x + 1) % ringCapacity

NoRing == [p \in {} |-> Garbage]

\* _ringWrite(): the loop puts data[i] in the i-th slot from the head.
RingWrite(data) ==
  LET count == Min2(DmaLen, RingFree)
      pos(p) == Distance(ringHead, p)
  IN  /\ ringBuffer' = [p \in DOMAIN ringBuffer |->
                          IF pos(p) < count THEN data[pos(p) + 1] ELSE ringBuffer[p]]
      /\ ringHead' = (ringHead + count) % ringCapacity
      /\ UNCHANGED <<ringTail, ringCapacity>>

-----------------------------------------------------------------------------
(* The interrupt.                                                          *)

\* onReceiveService(): store the block, run the sketch's callback (which
\* touches no state of the driver), start the next asynchronous read.  Its
\* result is not looked at: the read may not start.
Isr ==
  /\ dma
  /\ \E block \in [1 .. DmaLen -> Samples] : RingWrite(block)
  /\ dma' \in BOOLEAN
  /\ UNCHANGED <<lifeVars, callVars>>

-----------------------------------------------------------------------------
(* The sketch's calls.                                                     *)

\* setBufferSize(); PDM.h demands the call before begin().  malloc() may fail.
SetBufferSize(size) ==
  /\ pc = "idle"
  /\ ~initialized
  /\ \/ /\ ringCapacity' = size + 1
        /\ ringBuffer' = [p \in 0 .. size |-> Garbage]
        /\ ringHead' = 0
        /\ ringTail' = 0
        /\ bufferInitialized' = TRUE
     \/ /\ ringCapacity' = 0
        /\ ringBuffer' = NoRing
        /\ bufferInitialized' = FALSE
        /\ UNCHANGED <<ringHead, ringTail>>
  /\ ended' = FALSE
  /\ promised' = 0
  /\ UNCHANGED <<initialized, halHeld, dma, pc, head, want, left, sample, out>>

\* begin(): it returns at once without a buffer or when already started.
\* Otherwise it gives up at the first HAL call that fails (init, start,
\* read_async) without undoing the earlier ones; the clock setup's result is
\* ignored.  The first block may complete before _initialized is set.
Begin ==
  /\ pc = "idle"
  /\ ended' = FALSE
  /\ \/ /\ ~bufferInitialized \/ initialized
        /\ UNCHANGED <<halHeld, dma, pc>>
     \/ /\ bufferInitialized /\ ~initialized
        /\ \/ UNCHANGED <<halHeld, dma, pc>>      \* init failed
           \/ /\ halHeld' = TRUE                  \* start or read_async failed
              /\ UNCHANGED <<dma, pc>>
           \/ /\ halHeld' = TRUE
              /\ dma' = TRUE
              /\ pc' = "begin"
  /\ UNCHANGED <<ringVars, initialized, bufferInitialized, head, want, left,
                 promised, sample, out>>

BeginDone ==
  /\ pc = "begin"
  /\ initialized' = TRUE
  /\ pc' = "idle"
  /\ UNCHANGED <<ringVars, bufferInitialized, halHeld, ended, dma, head, want,
                 left, promised, sample, out>>

\* end(), also the destructor: nothing to do ...
EndNotStarted ==
  /\ pc = "idle"
  /\ ~initialized
  /\ ended' = TRUE
  /\ UNCHANGED <<ringVars, initialized, bufferInitialized, halHeld, dma, callVars>>

\* Mutant of EndAbort: the ring goes before the read is aborted.
EndAbort_ReleaseFirst ==
  /\ pc = "idle"
  /\ initialized
  /\ ringBuffer' = NoRing
  /\ ringHead' = 0
  /\ ringTail' = 0
  /\ ringCapacity' = 0
  /\ pc' = "end"
  /\ UNCHANGED <<dma, lifeVars, head, want, left, promised, sample, out>>

\* ... or first abort the pending read, stop, clear and free the HAL object ...
EndAbort ==
  /\ pc = "idle"
  /\ initialized
  /\ dma' = FALSE
  /\ halHeld' = FALSE
  /\ pc' = "end"
  /\ UNCHANGED <<ringVars, initialized, bufferInitialized, ended, head, want,
                 left, promised, sample, out>>

\* ... and then free the ring.
EndRelease ==
  /\ pc = "end"
  /\ ringBuffer' = NoRing
  /\ ringHead' = 0
  /\ ringTail' = 0
  /\ ringCapacity' = 0
  /\ initialized' = FALSE
  /\ bufferInitialized' = FALSE
  /\ ended' = TRUE
  /\ promised' = 0
  /\ pc' = "idle"
  /\ UNCHANGED <<halHeld, dma, head, want, left, sample, out>>

\* available(): _ringAvailable() loads _ringHead ...
Available ==
  /\ pc = "idle"
  /\ head' = ringHead
  /\ pc' = "available"
  /\ UNCHANGED <<ringVars, lifeVars, dma, want, left, promised, sample, out>>

\* ... and then _ringTail.
AvailableReturn ==
  /\ pc = "available"
  /\ promised' = Distance(ringTail, head)
  /\ pc' = "idle"
  /\ UNCHANGED <<ringVars, lifeVars, dma, head, want, left, sample, out>>

\* read(buffer, size): _ringRead() begins with _ringAvailable().
Read(size) ==
  /\ pc = "idle"
  /\ want' = size
  /\ head' = ringHead
  /\ pc' = "read"
  /\ UNCHANGED <<ringVars, lifeVars, dma, left, promised, sample, out>>

\* The number of samples to copy is settled from the loaded indices.
ReadCount ==
  /\ pc = "read"
  /\ LET count == Min2(want, Distance(ringTail, head))
     IN  /\ left' = count
         /\ pc' = IF count = 0 THEN "idle" ELSE "copy"
  /\ promised' = IF want = 0 THEN promised ELSE 0
  /\ UNCHANGED <<ringVars, lifeVars, dma, head, want, sample, out>>

\* data[i] = _ringBuffer[_ringTail]
CopySample ==
  /\ pc = "copy"
  /\ sample' = ringBuffer[ringTail]
  /\ pc' = "advance"
  /\ UNCHANGED <<ringVars, lifeVars, dma, head, want, left, promised, out>>

\* Mutant of AdvanceTail: the read leaves the tail at the head it saw.
AdvanceTail_ToHead ==
  /\ pc = "advance"
  /\ ringTail' = IF left = 1 THEN head ELSE NextIndex(ringTail)
  /\ out' = sample
  /\ left' = left - 1
  /\ pc' = IF left = 1 THEN "idle" ELSE "copy"
  /\ UNCHANGED <<ringBuffer, ringHead, ringCapacity, lifeVars, dma, head, want,
                 promised, sample>>

\* _ringTail = (_ringTail + 1) % _ringCapacity, and the loop's test.
AdvanceTail ==
  /\ pc = "advance"
  /\ ringTail' = NextIndex(ringTail)
  /\ out' = sample
  /\ left' = left - 1
  /\ pc' = IF left = 1 THEN "idle" ELSE "copy"
  /\ UNCHANGED <<ringBuffer, ringHead, ringCapacity, lifeVars, dma, head, want,
                 promised, sample>>

Sketch ==
  \/ \E size \in BufferSizes : SetBufferSize(size)
  \/ Begin
  \/ BeginDone
  \/ EndNotStarted
  \/ EndAbort
  \/ EndRelease
  \/ Available
  \/ AvailableReturn
  \/ \E size \in ReadSizes \cup {promised} : Read(size)
  \/ ReadCount
  \/ CopySample
  \/ AdvanceTail

Init ==
  /\ ringBuffer = NoRing
  /\ ringHead = 0
  /\ ringTail = 0
  /\ ringCapacity = 0
  /\ initialized = FALSE
  /\ bufferInitialized = FALSE
  /\ halHeld = FALSE
  /\ dma = FALSE
  /\ ended = FALSE
  /\ pc = "idle"
  /\ head = 0
  /\ want = 0
  /\ left = 0
  /\ promised = 0
  /\ sample \in Samples
  /\ out = sample

Next == Isr \/ Sketch

Spec == Init /\ [][Next]_vars

-----------------------------------------------------------------------------
(* Properties.                                                             *)

\* Every variable has a value of its type in the code.
TypeOK ==
  /\ ringCapacity \in Nat
  /\ ringBuffer \in [0 .. ringCapacity - 1 -> Samples \cup {Garbage}]
  /\ ringHead \in Nat /\ ringTail \in Nat
  /\ {initialized, bufferInitialized, halHeld, dma, ended} \subseteq BOOLEAN
  /\ pc \in {"idle", "begin", "end", "available", "read", "copy", "advance"}
  /\ head \in Nat /\ want \in Nat /\ left \in Nat /\ promised \in Nat
  /\ sample \in Samples \cup {Garbage}
  /\ out \in Samples \cup {Garbage}

\* The interrupt can come whenever an asynchronous read is pending, in the
\* middle of begin() and end() too: it must always find a buffer and indices
\* inside it (_ringWrite divides by the capacity and writes through the
\* pointer without a check).
InterruptFindsRing ==
  dma => ringCapacity > 0 /\ {ringHead, ringTail} \subseteq DOMAIN ringBuffer

\* available() and read() load the head before the tail.  However many
\* interrupts come between the loads, during the copy or between two calls,
\* the count they derive never exceeds what the ring holds.
ReaderStaysBehindWriter ==
  /\ pc \in {"available", "read"} => Distance(ringTail, head) <= RingAvailable
  /\ pc \in {"copy", "advance"} => left \in 1 .. RingAvailable

\* The slot being copied is not overwritten before the tail moves past it,
\* although the interrupt writes to the ring meanwhile.
CopyNotOverwritten == pc = "advance" => sample = ringBuffer[ringTail]

\* A sketch only ever receives samples the hardware captured, never the
\* uninitialized contents of the freshly allocated ring.
OnlyCapturedSamples == out \in Samples

\* read() of the number available() just returned delivers all of it, as the
\* example sketches rely on, whatever the interrupt does in between.
AvailableIsKept == [][ReadCount /\ want <= promised => left' = want]_vars

\* The inductive invariant behind these: where the indices are, ...
IndicesInRing ==
  /\ ringCapacity > 0 => ringHead < ringCapacity /\ ringTail < ringCapacity
  /\ ringCapacity = 0 => ringHead = 0 /\ ringTail = 0
  /\ ~initialized /\ pc # "begin" => ringHead = 0 /\ ringTail = 0

\* ... how the flags go together, ...
LifeCycle ==
  /\ bufferInitialized <=> ringCapacity > 0
  /\ initialized => bufferInitialized
  /\ pc = "begin" => bufferInitialized /\ ~initialized
  /\ pc = "end" => initialized /\ ~dma
  /\ dma => initialized \/ pc = "begin"

\* ... that the unread slots hold captured samples, ...
UnreadAreCaptured ==
  \A p \in 0 .. ringCapacity - 1 :
    Distance(ringTail, p) < RingAvailable => ringBuffer[p] \in Samples

\* ... and that the sketch's counts are backed by unread slots.
CountsAreBacked ==
  /\ pc \in {"available", "read"} /\ ringCapacity > 0 => head < ringCapacity
  /\ pc \in {"available", "read"} /\ ringCapacity = 0 => head = 0
  /\ promised <= RingAvailable
  /\ pc = "read" => promised <= Distance(ringTail, head)
  /\ pc \in {"copy", "advance"} => promised = 0

\* The driver's state is consistent in all of these ways at every step.
IInv ==
  /\ TypeOK
  /\ IndicesInRing
  /\ LifeCycle
  /\ UnreadAreCaptured
  /\ CountsAreBacked
  /\ ReaderStaysBehindWriter
  /\ CopyNotOverwritten
  /\ OnlyCapturedSamples

\* The ring buffer is a bounded queue that loses samples only at its end.
Room == IF ringCapacity = 0 THEN 0 ELSE ringCapacity - 1

Unread == [k \in 1 .. RingAvailable |-> ringBuffer[(ringTail + k - 1) % ringCapacity]]

Fifo == INSTANCE SampleFifo WITH room <- Room, queue <- Unread

FifoSpec == Fifo!Spec

\* PDM.h says of the destructor, which calls end(): "release all resources".
EndReleasesAll == ended => ~halHeld /\ ringCapacity = 0
=============================================================================
