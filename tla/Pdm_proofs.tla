----------------------------- MODULE Pdm_proofs -----------------------------
(***************************************************************************)
(* Proofs about the PDM driver: its invariant IInv holds for every size of *)
(* DMA block, every ring and every interleaving of the interrupt with the  *)
(* sketch, and with it the safety properties of Pdm.                       *)
(***************************************************************************)
EXTENDS PdmSketch, PdmExpand, SequenceTheorems, TLAPS

\* An index at most once around the ring wraps by one subtraction.
LEMMA ModWrap ==
  ASSUME NEW n \in Nat \ {0}, NEW x \in 0 .. 2 * n - 1
  PROVE  (x < n => x % n = x) /\ (x >= n => x % n = x - n)
BY Z3

\* The count of unread samples lies within the ring.
LEMMA AvailableRange ==
  ASSUME TypeOK, IndicesInRing
  PROVE  /\ RingAvailable \in Nat
         /\ ringCapacity > 0 => RingAvailable < ringCapacity
         /\ ringCapacity = 0 => RingAvailable = 0
BY DEF TypeOK, IndicesInRing, RingAvailable, Distance

\* What one interrupt does to the ring: it appends count samples.
LEMMA IsrAppends ==
  ASSUME IInv, dma, NEW block \in [1 .. DmaLen -> Samples], RingWrite(block),
         NEW count, count = Min2(DmaLen, RingFree)
  PROVE  /\ ringCapacity \in Nat \ {0}
         /\ count \in Nat /\ count <= DmaLen
         /\ RingAvailable + count < ringCapacity
         /\ ringHead' = IF ringHead + count < ringCapacity
                        THEN ringHead + count ELSE ringHead + count - ringCapacity
         /\ RingAvailable' = RingAvailable + count
         /\ \A p \in 0 .. ringCapacity - 1 :
              /\ Distance(ringTail, p) < RingAvailable =>
                   ringBuffer'[p] = ringBuffer[p]
              /\ /\ Distance(ringTail, p) >= RingAvailable
                 /\ Distance(ringTail, p) < RingAvailable + count
                 => /\ Distance(ringTail, p) - RingAvailable + 1 \in 1 .. DmaLen
                    /\ ringBuffer'[p] =
                         block[Distance(ringTail, p) - RingAvailable + 1]
<1>1. /\ ringCapacity \in Nat \ {0}
      /\ ringHead \in 0 .. ringCapacity - 1
      /\ ringTail \in 0 .. ringCapacity - 1
      /\ DOMAIN ringBuffer = 0 .. ringCapacity - 1
  BY DEF IInv, TypeOK, IndicesInRing, LifeCycle
<1>2. /\ count \in Nat /\ count <= DmaLen
      /\ RingAvailable + count < ringCapacity
      /\ RingAvailable \in Nat
  BY <1>1, PdmAssumption DEF Min2, RingFree, RingAvailable, Distance
<1>3. ringHead' = IF ringHead + count < ringCapacity
                  THEN ringHead + count ELSE ringHead + count - ringCapacity
  <2>1. PICK z : z = ringHead + count
    OBVIOUS
  <2>2. z \in 0 .. 2 * ringCapacity - 1
    BY <1>1, <1>2, <2>1
  <2>3. ringHead' = z % ringCapacity
    BY <2>1 DEF RingWrite
  <2>4. /\ z < ringCapacity => z % ringCapacity = z
        /\ z >= ringCapacity => z % ringCapacity = z - ringCapacity
    BY <1>1, <2>2, ModWrap
  <2>5. CASE z < ringCapacity
    <3>1. ringHead' = z
      BY <2>3, <2>4, <2>5, Zenon
    <3>2. QED BY <1>1, <1>2, <2>1, <2>5, <3>1
  <2>6. CASE z >= ringCapacity
    <3>1. ringHead' = z - ringCapacity
      BY <2>3, <2>4, <2>6, Zenon
    <3>2. QED BY <1>1, <1>2, <2>1, <2>6, <3>1
  <2>7. QED BY <1>1, <2>2, <2>5, <2>6
<1>4. ringTail' = ringTail /\ ringCapacity' = ringCapacity
  BY DEF RingWrite
<1>5. RingAvailable' = RingAvailable + count
  BY <1>1, <1>2, <1>3, <1>4 DEF RingAvailable, Distance
<1>6. ASSUME NEW p \in 0 .. ringCapacity - 1,
             NEW d, d = Distance(ringTail, p),
             NEW e, e = Distance(ringHead, p)
      PROVE  /\ d < RingAvailable => ringBuffer'[p] = ringBuffer[p]
             /\ d >= RingAvailable /\ d < RingAvailable + count =>
                  /\ d - RingAvailable + 1 \in 1 .. DmaLen
                  /\ ringBuffer'[p] = block[d - RingAvailable + 1]
  <2>1. ringBuffer'[p] = IF e < count THEN block[e + 1] ELSE ringBuffer[p]
    BY <1>1, <1>6 DEF RingWrite
  <2>2. d \in Nat /\ e \in Nat
    BY <1>1, <1>6 DEF Distance
  <2>3. e = IF d < RingAvailable THEN ringCapacity - RingAvailable + d
                                 ELSE d - RingAvailable
    BY <1>1, <1>6 DEF RingAvailable, Distance
  <2>4. CASE d < RingAvailable
    <3>1. ~(e < count)
      BY <1>1, <1>2, <2>2, <2>3, <2>4
    <3>2. QED BY <1>2, <2>1, <2>2, <2>4, <3>1
  <2>5. CASE d >= RingAvailable
    <3>1. e = d - RingAvailable
      BY <1>2, <2>2, <2>3, <2>5
    <3>2. QED BY <1>2, <2>1, <2>2, <2>5, <3>1, PdmAssumption
  <2>6. QED BY <1>2, <2>2, <2>4, <2>5
<1>7. QED BY <1>1, <1>2, <1>3, <1>5, <1>6

\* The tail moves one slot on, or back to slot 0.
LEMMA NextIndexWraps ==
  ASSUME TypeOK, IndicesInRing, ringCapacity > 0
  PROVE  NextIndex(ringTail) =
           IF ringTail + 1 < ringCapacity THEN ringTail + 1 ELSE 0
<1>1. PICK z : z = ringTail + 1
  OBVIOUS
<1>2. /\ ringCapacity \in Nat \ {0}
      /\ ringTail \in 0 .. ringCapacity - 1
      /\ z \in 0 .. 2 * ringCapacity - 1
  BY <1>1 DEF TypeOK, IndicesInRing
<1>3. /\ z < ringCapacity => z % ringCapacity = z
      /\ z >= ringCapacity => z % ringCapacity = z - ringCapacity
  BY <1>2, ModWrap
<1>4. NextIndex(ringTail) = z % ringCapacity
  BY <1>1 DEF NextIndex
<1>5. CASE z < ringCapacity
  <2>1. NextIndex(ringTail) = z
    BY <1>3, <1>4, <1>5, Zenon
  <2>2. QED BY <1>1, <1>2, <1>5, <2>1
<1>6. CASE z >= ringCapacity
  <2>1. NextIndex(ringTail) = z - ringCapacity
    BY <1>3, <1>4, <1>6, Zenon
  <2>2. QED BY <1>1, <1>2, <1>6, <2>1
<1>7. QED BY <1>2, <1>5, <1>6

\* An interrupt, whenever it comes, preserves the invariant.
LEMMA IsrStep ==
  ASSUME IInv, Isr
  PROVE  IInv'
<1>1. PICK block \in [1 .. DmaLen -> Samples] : RingWrite(block)
  BY DEF Isr
<1>2. PICK count : count = Min2(DmaLen, RingFree)
  OBVIOUS
<1>3. /\ dma /\ dma' \in BOOLEAN
      /\ ringTail' = ringTail /\ ringCapacity' = ringCapacity
      /\ UNCHANGED <<lifeVars, callVars>>
  BY <1>1 DEF Isr, RingWrite
<1>4. /\ ringCapacity \in Nat \ {0}
      /\ count \in Nat /\ count <= DmaLen
      /\ RingAvailable + count < ringCapacity
      /\ ringHead' = IF ringHead + count < ringCapacity
                     THEN ringHead + count ELSE ringHead + count - ringCapacity
      /\ RingAvailable' = RingAvailable + count
  BY <1>1, <1>2, <1>3, IsrAppends
<1>5. ASSUME NEW p \in 0 .. ringCapacity - 1
      PROVE  /\ Distance(ringTail, p) < RingAvailable =>
                  ringBuffer'[p] = ringBuffer[p]
             /\ /\ Distance(ringTail, p) >= RingAvailable
                /\ Distance(ringTail, p) < RingAvailable + count
                => /\ Distance(ringTail, p) - RingAvailable + 1 \in 1 .. DmaLen
                   /\ ringBuffer'[p] =
                        block[Distance(ringTail, p) - RingAvailable + 1]
  BY <1>1, <1>2, <1>3, <1>5, IsrAppends
<1>6. /\ ringHead \in 0 .. ringCapacity - 1
      /\ ringTail \in 0 .. ringCapacity - 1
      /\ RingAvailable \in Nat
  BY <1>4, AvailableRange DEF IInv, TypeOK, IndicesInRing
<1>7. TypeOK'
  <2>1. ringBuffer' \in [0 .. ringCapacity - 1 -> Samples \cup {Garbage}]
    <3> DEFINE n == Min2(DmaLen, RingFree)
    <3>1. ringBuffer' = [p \in DOMAIN ringBuffer |->
                           IF Distance(ringHead, p) < n
                           THEN block[Distance(ringHead, p) + 1] ELSE ringBuffer[p]]
      BY <1>1 DEF RingWrite
    <3>2. n = count
      BY <1>2
    <3>3. ringBuffer \in [0 .. ringCapacity - 1 -> Samples \cup {Garbage}]
      BY DEF IInv, TypeOK
    <3>4. ASSUME NEW p \in 0 .. ringCapacity - 1, Distance(ringHead, p) < n
          PROVE  Distance(ringHead, p) + 1 \in 1 .. DmaLen
      BY <1>4, <1>6, <3>2, <3>4, PdmAssumption DEF Distance
    <3> HIDE DEF n
    <3>5. QED BY <3>1, <3>3, <3>4
  <2>2. ringHead' \in Nat
    BY <1>4, <1>6
  <2>3. QED BY <1>3, <2>1, <2>2 DEF IInv, TypeOK, lifeVars, callVars
<1>8. IndicesInRing'
  BY <1>3, <1>4, <1>6 DEF IInv, IndicesInRing, LifeCycle, lifeVars, callVars
<1>9. LifeCycle'
  BY <1>3 DEF IInv, LifeCycle, lifeVars, callVars
<1>10. UnreadAreCaptured'
  <2>1. SUFFICES ASSUME NEW p \in 0 .. ringCapacity - 1,
                        Distance(ringTail, p) < RingAvailable + count
                 PROVE  ringBuffer'[p] \in Samples
    BY <1>3, <1>4 DEF UnreadAreCaptured, Distance
  <2>2. Distance(ringTail, p) \in Nat
    BY <1>4, <1>6 DEF Distance
  <2>3. CASE Distance(ringTail, p) < RingAvailable
    BY <1>5, <2>3 DEF IInv, UnreadAreCaptured
  <2>4. CASE Distance(ringTail, p) >= RingAvailable
    BY <1>5, <2>1, <2>4
  <2>5. QED BY <1>6, <2>2, <2>3, <2>4
<1>11. CountsAreBacked'
  <2>1. Distance(ringTail, head)' = Distance(ringTail, head)
    BY <1>3 DEF Distance, callVars
  <2>2. QED
    BY <1>3, <1>4, <1>6, <2>1 DEF IInv, TypeOK, CountsAreBacked, callVars
<1>12. ReaderStaysBehindWriter'
  <2>1. pc \in {"available", "read"} =>
          Distance(ringTail, head)' = Distance(ringTail, head)
    BY <1>3 DEF Distance, callVars
  <2>2. pc \in {"available", "read"} => Distance(ringTail, head) \in Nat
    BY <1>4, <1>6 DEF IInv, TypeOK, CountsAreBacked, Distance
  <2>3. QED
    BY <1>3, <1>4, <1>6, <2>1, <2>2 DEF IInv, TypeOK, ReaderStaysBehindWriter, callVars
<1>13. CopyNotOverwritten'
  <2>1. SUFFICES ASSUME pc = "advance"
                 PROVE  ringBuffer'[ringTail] = ringBuffer[ringTail]
    BY <1>3 DEF IInv, CopyNotOverwritten, callVars
  <2>2. Distance(ringTail, ringTail) = 0 /\ RingAvailable > 0
    BY <1>4, <1>6, <2>1 DEF IInv, TypeOK, ReaderStaysBehindWriter, Distance
  <2>3. QED BY <1>5, <1>6, <2>2
<1>14. OnlyCapturedSamples'
  BY <1>3 DEF IInv, OnlyCapturedSamples, callVars
<1>15. QED
  BY <1>7, <1>8, <1>9, <1>10, <1>11, <1>12, <1>13, <1>14 DEF IInv

\* A step that leaves the ring, its indices and the flags alone keeps what
\* the invariant says of them.
LEMMA RingUnchanged ==
  ASSUME IInv, UNCHANGED <<ringVars, bufferInitialized>>
  PROVE  /\ RingAvailable' = RingAvailable
         /\ UnreadAreCaptured'
BY DEF IInv, UnreadAreCaptured, RingAvailable, Distance, ringVars

\* The calls that set the driver up and take it down preserve the invariant.
LEMMA LifeStep ==
  ASSUME IInv,
         \/ \E size \in BufferSizes : SetBufferSize(size)
         \/ Begin \/ BeginDone \/ EndNotStarted \/ EndAbort \/ EndRelease
  PROVE  IInv'
<1>1. ASSUME NEW size \in BufferSizes, SetBufferSize(size)
      PROVE  IInv'
  <2>1. size \in Nat
    BY PdmAssumption
  <2>2. ~dma /\ ringHead = 0 /\ ringTail = 0
    BY <1>1 DEF IInv, SetBufferSize, IndicesInRing, LifeCycle
  <2>3. /\ pc = "idle" /\ pc' = "idle" /\ promised' = 0 /\ ended' = FALSE
        /\ UNCHANGED <<initialized, halHeld, dma, head, want, left, sample, out>>
        /\ ~initialized
    BY <1>1 DEF SetBufferSize
  <2>4. /\ ringHead' = 0 /\ ringTail' = 0
        /\ ringCapacity' \in Nat
        /\ ringBuffer' \in [0 .. ringCapacity' - 1 -> Samples \cup {Garbage}]
        /\ bufferInitialized' \in BOOLEAN
        /\ bufferInitialized' <=> ringCapacity' > 0
    <3>1. CASE /\ ringCapacity' = size + 1
               /\ ringBuffer' = [p \in 0 .. size |-> Garbage]
               /\ ringHead' = 0
               /\ ringTail' = 0
               /\ bufferInitialized' = TRUE
      <4>1. ringBuffer' \in [0 .. ringCapacity' - 1 -> Samples \cup {Garbage}]
        BY <2>1, <3>1
      <4>2. QED BY <2>1, <3>1, <4>1
    <3>2. CASE /\ ringCapacity' = 0
               /\ ringBuffer' = NoRing
               /\ bufferInitialized' = FALSE
               /\ UNCHANGED <<ringHead, ringTail>>
      <4>1. ringBuffer' \in [0 .. ringCapacity' - 1 -> Samples \cup {Garbage}]
        BY <3>2 DEF NoRing
      <4>2. ~(ringCapacity' > 0)
        BY <3>2
      <4>3. bufferInitialized' \in BOOLEAN /\ (bufferInitialized' <=> ringCapacity' > 0)
        BY <3>2, <4>2, Zenon
      <4>4. ringHead' = 0 /\ ringTail' = 0 /\ ringCapacity' \in Nat
        BY <2>2, <3>2
      <4>5. QED BY <4>1, <4>3, <4>4
    <3>3. QED BY <1>1, <3>1, <3>2 DEF SetBufferSize
  <2>5. RingAvailable' = 0
    BY <2>4 DEF RingAvailable, Distance
  <2>6. TypeOK'
    BY <2>3, <2>4 DEF IInv, TypeOK
  <2>7. IndicesInRing' /\ LifeCycle'
    BY <2>2, <2>3, <2>4 DEF IInv, IndicesInRing, LifeCycle
  <2>8. UnreadAreCaptured'
    BY <2>4, <2>5 DEF UnreadAreCaptured, Distance
  <2>9. CountsAreBacked' /\ ReaderStaysBehindWriter' /\ CopyNotOverwritten'
    BY <2>3, <2>5
       DEF CountsAreBacked, ReaderStaysBehindWriter, CopyNotOverwritten
  <2>10. OnlyCapturedSamples'
    BY <2>3 DEF IInv, OnlyCapturedSamples
  <2>11. QED BY <2>6, <2>7, <2>8, <2>9, <2>10 DEF IInv
<1>2. CASE Begin
  <2>1. /\ UNCHANGED <<ringVars, initialized, bufferInitialized, head, want, left,
                       promised, sample, out>>
        /\ pc = "idle" /\ pc' \in {"idle", "begin"}
        /\ pc' = "begin" => bufferInitialized /\ ~initialized
        /\ dma' => dma \/ pc' = "begin"
        /\ pc' = "begin" \/ dma' = dma
    BY <1>2 DEF Begin
  <2>2. RingAvailable' = RingAvailable /\ UnreadAreCaptured'
    BY <2>1, RingUnchanged
  <2>3. TypeOK'
    <3>1. {halHeld', dma', ended'} \subseteq BOOLEAN
      BY <1>2 DEF Begin, IInv, TypeOK
    <3>2. QED BY <2>1, <3>1 DEF IInv, TypeOK, ringVars
  <2>4. IndicesInRing' /\ LifeCycle'
    BY <2>1 DEF IInv, IndicesInRing, LifeCycle, ringVars
  <2>5. CountsAreBacked' /\ ReaderStaysBehindWriter' /\ CopyNotOverwritten'
    BY <2>1, <2>2
       DEF IInv, CountsAreBacked, ReaderStaysBehindWriter, CopyNotOverwritten
  <2>6. QED BY <2>1, <2>2, <2>3, <2>4, <2>5 DEF IInv, OnlyCapturedSamples
<1>3. CASE BeginDone
  <2>1. RingAvailable' = RingAvailable /\ UnreadAreCaptured'
    BY <1>3, RingUnchanged DEF BeginDone
  <2>2. TypeOK' /\ IndicesInRing' /\ LifeCycle'
    BY <1>3 DEF BeginDone, IInv, TypeOK, IndicesInRing, LifeCycle, ringVars
  <2>3. CountsAreBacked' /\ ReaderStaysBehindWriter' /\ CopyNotOverwritten'
    BY <1>3, <2>1 DEF BeginDone, IInv, CountsAreBacked, ReaderStaysBehindWriter,
                      CopyNotOverwritten
  <2>4. QED BY <1>3, <2>1, <2>2, <2>3 DEF BeginDone, IInv, OnlyCapturedSamples
<1>4. CASE EndNotStarted
  <2>1. RingAvailable' = RingAvailable /\ UnreadAreCaptured'
    BY <1>4, RingUnchanged DEF EndNotStarted
  <2>2. TypeOK' /\ IndicesInRing' /\ LifeCycle'
    BY <1>4 DEF EndNotStarted, IInv, TypeOK, IndicesInRing, LifeCycle, ringVars,
                callVars
  <2>3. CountsAreBacked' /\ ReaderStaysBehindWriter' /\ CopyNotOverwritten'
    BY <1>4, <2>1 DEF EndNotStarted, IInv, CountsAreBacked, callVars,
                      ReaderStaysBehindWriter, CopyNotOverwritten
  <2>4. QED BY <1>4, <2>1, <2>2, <2>3
          DEF EndNotStarted, IInv, OnlyCapturedSamples, callVars
<1>5. CASE EndAbort
  <2>1. RingAvailable' = RingAvailable /\ UnreadAreCaptured'
    BY <1>5, RingUnchanged DEF EndAbort
  <2>2. TypeOK' /\ IndicesInRing' /\ LifeCycle'
    BY <1>5 DEF EndAbort, IInv, TypeOK, IndicesInRing, LifeCycle, ringVars
  <2>3. CountsAreBacked' /\ ReaderStaysBehindWriter' /\ CopyNotOverwritten'
    BY <1>5, <2>1 DEF EndAbort, IInv, CountsAreBacked, ReaderStaysBehindWriter,
                      CopyNotOverwritten
  <2>4. QED BY <1>5, <2>1, <2>2, <2>3 DEF EndAbort, IInv, OnlyCapturedSamples
<1>6. CASE EndRelease
  <2>1. RingAvailable' = 0
    BY <1>6 DEF EndRelease, RingAvailable, Distance
  <2>2. TypeOK'
    <3>1. ringBuffer' \in [0 .. ringCapacity' - 1 -> Samples \cup {Garbage}]
      BY <1>6 DEF EndRelease, NoRing
    <3>2. {initialized', bufferInitialized', halHeld', dma', ended'} \subseteq BOOLEAN
      BY <1>6 DEF EndRelease, IInv, TypeOK
    <3>3. QED BY <1>6, <3>1, <3>2 DEF EndRelease, IInv, TypeOK
  <2>3. IndicesInRing' /\ LifeCycle' /\ UnreadAreCaptured'
    BY <1>6 DEF EndRelease, IInv, IndicesInRing, LifeCycle, UnreadAreCaptured
  <2>4. CountsAreBacked' /\ ReaderStaysBehindWriter' /\ CopyNotOverwritten'
    BY <1>6, <2>1 DEF EndRelease, CountsAreBacked, ReaderStaysBehindWriter,
                      CopyNotOverwritten
  <2>5. QED BY <1>6, <2>2, <2>3, <2>4 DEF EndRelease, IInv, OnlyCapturedSamples
<1>7. QED BY <1>1, <1>2, <1>3, <1>4, <1>5, <1>6

\* The steps of available() and read() preserve the invariant.
LEMMA CallStep ==
  ASSUME IInv,
         \/ Available \/ AvailableReturn
         \/ \E size \in ReadSizes \cup {promised} : Read(size)
         \/ ReadCount \/ CopySample \/ AdvanceTail
  PROVE  IInv'
<1>1. /\ RingAvailable \in Nat
      /\ ringCapacity > 0 => RingAvailable < ringCapacity
      /\ ringCapacity = 0 => RingAvailable = 0
  BY AvailableRange DEF IInv
<1>2. CASE Available
  <2>1. RingAvailable' = RingAvailable /\ UnreadAreCaptured'
    BY <1>2, RingUnchanged DEF Available, lifeVars
  <2>2. TypeOK' /\ IndicesInRing' /\ LifeCycle'
    BY <1>2 DEF Available, IInv, TypeOK, IndicesInRing, LifeCycle, ringVars, lifeVars
  <2>3. CountsAreBacked'
    BY <1>2, <2>1 DEF Available, IInv, TypeOK, IndicesInRing, CountsAreBacked, ringVars
  <2>4. ReaderStaysBehindWriter'
    BY <1>1, <1>2, <2>1 DEF Available, ReaderStaysBehindWriter, RingAvailable,
                            Distance, ringVars
  <2>5. CopyNotOverwritten' /\ OnlyCapturedSamples'
    BY <1>2 DEF Available, IInv, CopyNotOverwritten, OnlyCapturedSamples
  <2>6. QED BY <2>1, <2>2, <2>3, <2>4, <2>5 DEF IInv
<1>3. CASE AvailableReturn
  <2>1. RingAvailable' = RingAvailable /\ UnreadAreCaptured'
    BY <1>3, RingUnchanged DEF AvailableReturn, lifeVars
  <2>2. Distance(ringTail, head) \in Nat
    BY <1>3 DEF AvailableReturn, IInv, TypeOK, IndicesInRing, CountsAreBacked, Distance
  <2>3. TypeOK' /\ IndicesInRing' /\ LifeCycle'
    BY <1>3, <2>2 DEF AvailableReturn, IInv, TypeOK, IndicesInRing, LifeCycle,
                      ringVars, lifeVars
  <2>4. CountsAreBacked'
    BY <1>3, <2>1 DEF AvailableReturn, IInv, ReaderStaysBehindWriter, CountsAreBacked
  <2>5. ReaderStaysBehindWriter' /\ CopyNotOverwritten' /\ OnlyCapturedSamples'
    BY <1>3 DEF AvailableReturn, IInv, ReaderStaysBehindWriter, CopyNotOverwritten,
                OnlyCapturedSamples
  <2>6. QED BY <2>1, <2>3, <2>4, <2>5 DEF IInv
<1>4. ASSUME NEW size \in ReadSizes \cup {promised}, Read(size)
      PROVE  IInv'
  <2>1. RingAvailable' = RingAvailable /\ UnreadAreCaptured'
    BY <1>4, RingUnchanged DEF Read, lifeVars
  <2>2. size \in Nat
    BY PdmAssumption DEF IInv, TypeOK
  <2>3. TypeOK' /\ IndicesInRing' /\ LifeCycle'
    BY <1>4, <2>2 DEF Read, IInv, TypeOK, IndicesInRing, LifeCycle, ringVars, lifeVars
  <2>4. CountsAreBacked'
    <3>1. Distance(ringTail, head)' = RingAvailable
      BY <1>4 DEF Read, RingAvailable, Distance, ringVars
    <3>2. QED
      BY <1>4, <2>1, <3>1
         DEF Read, IInv, TypeOK, IndicesInRing, CountsAreBacked, ringVars
  <2>5. ReaderStaysBehindWriter'
    BY <1>1, <1>4, <2>1 DEF Read, ReaderStaysBehindWriter, RingAvailable,
                            Distance, ringVars
  <2>6. CopyNotOverwritten' /\ OnlyCapturedSamples'
    BY <1>4 DEF Read, IInv, CopyNotOverwritten, OnlyCapturedSamples
  <2>7. QED BY <2>1, <2>3, <2>4, <2>5, <2>6 DEF IInv
<1>5. CASE ReadCount
  <2>1. RingAvailable' = RingAvailable /\ UnreadAreCaptured'
    BY <1>5, RingUnchanged DEF ReadCount, lifeVars
  <2>2. PICK n : n = Distance(ringTail, head)
    OBVIOUS
  <2>3. n \in 0 .. RingAvailable
    <3>1. n \in Nat
      BY <1>5, <2>2 DEF ReadCount, IInv, TypeOK, IndicesInRing, CountsAreBacked, Distance
    <3>2. n <= RingAvailable
      BY <1>5, <2>2 DEF ReadCount, IInv, ReaderStaysBehindWriter
    <3>3. QED BY <1>1, <3>1, <3>2
  <2>4. /\ left' = IF want <= n THEN want ELSE n
        /\ pc' = IF left' = 0 THEN "idle" ELSE "copy"
    BY <1>5, <2>2 DEF ReadCount, Min2
  <2>5. left' \in 0 .. RingAvailable
    BY <1>1, <2>3, <2>4 DEF IInv, TypeOK
  <2>6. promised' \in {0, promised} /\ (want # 0 => promised' = 0)
    BY <1>5 DEF ReadCount
  <2>7. TypeOK' /\ IndicesInRing' /\ LifeCycle'
    BY <1>5, <2>4, <2>5, <2>6 DEF ReadCount, IInv, TypeOK, IndicesInRing, LifeCycle,
                                  ringVars, lifeVars
  <2>8. CountsAreBacked' /\ ReaderStaysBehindWriter'
    BY <1>1, <2>1, <2>3, <2>4, <2>5, <2>6
       DEF IInv, TypeOK, CountsAreBacked, ReaderStaysBehindWriter
  <2>9. CopyNotOverwritten' /\ OnlyCapturedSamples'
    BY <1>5, <2>4 DEF ReadCount, IInv, CopyNotOverwritten, OnlyCapturedSamples
  <2>10. QED BY <2>1, <2>7, <2>8, <2>9 DEF IInv
<1>6. CASE CopySample
  <2>1. RingAvailable' = RingAvailable /\ UnreadAreCaptured'
    BY <1>6, RingUnchanged DEF CopySample, lifeVars
  <2>2. ringTail \in 0 .. ringCapacity - 1
    BY <1>1, <1>6 DEF CopySample, IInv, TypeOK, IndicesInRing, ReaderStaysBehindWriter
  <2>3. ringBuffer[ringTail] \in Samples \cup {Garbage}
    BY <2>2 DEF IInv, TypeOK
  <2>4. TypeOK' /\ IndicesInRing' /\ LifeCycle'
    BY <1>6, <2>3 DEF CopySample, IInv, TypeOK, IndicesInRing, LifeCycle,
                      ringVars, lifeVars
  <2>5. CountsAreBacked' /\ ReaderStaysBehindWriter'
    BY <1>6, <2>1 DEF CopySample, IInv, CountsAreBacked, ReaderStaysBehindWriter
  <2>6. CopyNotOverwritten' /\ OnlyCapturedSamples'
    BY <1>6 DEF CopySample, IInv, CopyNotOverwritten, OnlyCapturedSamples, ringVars
  <2>7. QED BY <2>1, <2>4, <2>5, <2>6 DEF IInv
<1>7. CASE AdvanceTail
  <2>1. left \in 1 .. RingAvailable
    BY <1>7 DEF AdvanceTail, IInv, ReaderStaysBehindWriter
  <2>2. /\ ringCapacity \in Nat \ {0}
        /\ ringHead \in 0 .. ringCapacity - 1
        /\ ringTail \in 0 .. ringCapacity - 1
    BY <1>1, <2>1 DEF IInv, TypeOK, IndicesInRing
  <2>3. ringTail' = IF ringTail + 1 < ringCapacity THEN ringTail + 1 ELSE 0
    BY <1>7, <2>2, NextIndexWraps DEF AdvanceTail, IInv
  <2>4. RingAvailable' = RingAvailable - 1
    BY <1>7, <2>1, <2>2, <2>3 DEF AdvanceTail, RingAvailable, Distance
  <2>5. sample \in Samples
    <3>1. Distance(ringTail, ringTail) = 0
      BY <2>2 DEF Distance
    <3>2. ringBuffer[ringTail] \in Samples
      BY <1>1, <2>1, <2>2, <3>1 DEF IInv, UnreadAreCaptured
    <3>3. QED BY <1>7, <3>2 DEF AdvanceTail, IInv, CopyNotOverwritten
  <2>6. /\ pc = "advance" /\ promised = 0
        /\ pc' = IF left = 1 THEN "idle" ELSE "copy"
        /\ left' = left - 1 /\ out' = sample
        /\ UNCHANGED <<ringBuffer, ringHead, ringCapacity, lifeVars, dma, head, want,
                       promised, sample>>
    BY <1>1, <1>7, <2>1 DEF AdvanceTail, IInv, CountsAreBacked
  <2>7. TypeOK'
    BY <2>1, <2>2, <2>3, <2>5, <2>6 DEF IInv, TypeOK, lifeVars
  <2>8. IndicesInRing' /\ LifeCycle'
    <3>1. initialized
      BY <1>1, <2>1, <2>6 DEF IInv, IndicesInRing, RingAvailable, Distance
    <3>2. QED BY <2>2, <2>3, <2>6, <3>1 DEF IInv, IndicesInRing, LifeCycle, lifeVars
  <2>9. UnreadAreCaptured'
    <3>1. SUFFICES ASSUME NEW p \in 0 .. ringCapacity - 1,
                          Distance(ringTail, p)' < RingAvailable'
                   PROVE  ringBuffer[p] \in Samples
      BY <2>6 DEF UnreadAreCaptured
    <3>2. Distance(ringTail, p) < RingAvailable
      BY <1>1, <2>2, <2>3, <2>4, <2>6, <3>1 DEF Distance
    <3>3. QED BY <3>2 DEF IInv, UnreadAreCaptured
  <2>10. CountsAreBacked' /\ ReaderStaysBehindWriter'
    BY <1>1, <2>1, <2>4, <2>6 DEF CountsAreBacked, ReaderStaysBehindWriter
  <2>11. CopyNotOverwritten' /\ OnlyCapturedSamples'
    BY <2>5, <2>6 DEF CopyNotOverwritten, OnlyCapturedSamples
  <2>12. QED BY <2>7, <2>8, <2>9, <2>10, <2>11 DEF IInv
<1>8. QED BY <1>2, <1>3, <1>4, <1>5, <1>6, <1>7

\* The invariant of the driver.
LEMMA Invariant == Spec => []IInv
<1>1. Init => IInv
  <2> SUFFICES ASSUME Init PROVE IInv
    OBVIOUS
  <2>1. RingAvailable = 0
    BY DEF Init, RingAvailable, Distance
  <2>2. ringBuffer \in [0 .. ringCapacity - 1 -> Samples \cup {Garbage}]
    BY DEF Init, NoRing
  <2>3. TypeOK
    BY <2>2 DEF Init, TypeOK
  <2>4. IndicesInRing /\ LifeCycle /\ UnreadAreCaptured
    BY DEF Init, IndicesInRing, LifeCycle, UnreadAreCaptured
  <2>5. CountsAreBacked /\ ReaderStaysBehindWriter
    BY <2>1 DEF Init, CountsAreBacked, ReaderStaysBehindWriter
  <2>6. QED BY <2>3, <2>4, <2>5 DEF Init, IInv, CopyNotOverwritten, OnlyCapturedSamples
<1>2. IInv /\ [Next]_vars => IInv'
  <2> SUFFICES ASSUME IInv, [Next]_vars PROVE IInv'
    OBVIOUS
  <2>2. CASE Isr
    BY <2>2, IsrStep
  <2>3. CASE Sketch
    BY <2>3, LifeStep, CallStep DEF Sketch
  <2>4. CASE UNCHANGED vars
    <3>1. RingAvailable' = RingAvailable /\ UnreadAreCaptured'
      BY <2>4, RingUnchanged DEF vars, lifeVars
    <3>2. Distance(ringTail, head)' = Distance(ringTail, head)
      BY <2>4 DEF vars, ringVars, callVars, Distance
    <3>3. TypeOK' /\ IndicesInRing' /\ LifeCycle'
      BY <2>4 DEF vars, ringVars, lifeVars, callVars, IInv, TypeOK, IndicesInRing,
                  LifeCycle
    <3>4. /\ CountsAreBacked' /\ ReaderStaysBehindWriter'
          /\ CopyNotOverwritten' /\ OnlyCapturedSamples'
      BY <2>4, <3>1, <3>2
         DEF vars, ringVars, callVars, IInv, CountsAreBacked, ReaderStaysBehindWriter,
             CopyNotOverwritten, OnlyCapturedSamples
    <3>5. QED BY <3>1, <3>3, <3>4 DEF IInv
  <2>5. QED BY <2>2, <2>3, <2>4 DEF Next
<1>3. QED BY <1>1, <1>2, PTL DEF Spec

\* Every variable keeps its type, for every block size and every buffer size.
THEOREM Typing == Spec => []TypeOK
BY Invariant, PTL DEF IInv

\* The interrupt never finds the driver without a ring to write to.
THEOREM InterruptSafety == Spec => []InterruptFindsRing
<1>1. IInv => InterruptFindsRing
  BY DEF IInv, TypeOK, IndicesInRing, LifeCycle, InterruptFindsRing
<1>2. QED BY <1>1, Invariant, PTL

\* What available() and read() count is in the ring.
THEOREM ReaderSafety == Spec => []ReaderStaysBehindWriter
BY Invariant, PTL DEF IInv

\* The slot being copied keeps its sample until the tail passes it, and the
\* sketch receives only captured samples.
THEOREM CopySafety == Spec => []CopyNotOverwritten /\ []OnlyCapturedSamples
BY Invariant, PTL DEF IInv

\* read() of what available() returned delivers it all.
THEOREM AvailableKept == Spec => AvailableIsKept
<1>1. IInv /\ [Next]_vars => [ReadCount /\ want <= promised => left' = want]_vars
  <2> SUFFICES ASSUME IInv, ReadCount, want <= promised
               PROVE  left' = want
    OBVIOUS
  <2>1. PICK n : n = Distance(ringTail, head)
    OBVIOUS
  <2>2. n \in Nat /\ want <= n
    BY <2>1 DEF ReadCount, IInv, TypeOK, IndicesInRing, CountsAreBacked, Distance
  <2>3. QED BY <2>1, <2>2 DEF ReadCount, Min2
<1>2. QED BY <1>1, Invariant, PTL DEF Spec, AvailableIsKept

-----------------------------------------------------------------------------
(* The ring implements the bounded queue of SampleFifo.                    *)

\* The k-th unread sample lies in the ring, k - 1 slots from the tail.
LEMMA UnreadSlot ==
  ASSUME IInv, ringCapacity > 0, NEW k \in 1 .. ringCapacity
  PROVE  /\ (ringTail + k - 1) % ringCapacity \in 0 .. ringCapacity - 1
         /\ Distance(ringTail, (ringTail + k - 1) % ringCapacity) = k - 1
<1>1. PICK z : z = ringTail + k - 1
  OBVIOUS
<1>2. /\ ringCapacity \in Nat \ {0}
      /\ ringTail \in 0 .. ringCapacity - 1
      /\ z \in 0 .. 2 * ringCapacity - 1
  BY <1>1 DEF IInv, TypeOK, IndicesInRing
<1>3. /\ z < ringCapacity => z % ringCapacity = z
      /\ z >= ringCapacity => z % ringCapacity = z - ringCapacity
  BY <1>2, ModWrap
<1>4. PICK p : p = z % ringCapacity
  OBVIOUS
<1>5. (ringTail + k - 1) % ringCapacity = p
  BY <1>1, <1>4, Zenon
<1>6. /\ p \in 0 .. ringCapacity - 1
      /\ Distance(ringTail, p) = k - 1
  <2>1. CASE z < ringCapacity
    <3>1. p = z
      BY <1>3, <1>4, <2>1, Zenon
    <3>2. QED BY <1>1, <1>2, <2>1, <3>1 DEF Distance
  <2>2. CASE z >= ringCapacity
    <3>1. p = z - ringCapacity
      BY <1>3, <1>4, <2>2, Zenon
    <3>2. QED BY <1>1, <1>2, <2>2, <3>1 DEF Distance
  <2>3. QED BY <1>2, <2>1, <2>2
<1>7. QED BY <1>5, <1>6, Zenon

\* The queue has as many elements as there are unread samples.
LEMMA UnreadLength ==
  ASSUME IInv
  PROVE  /\ Unread \in Seq(Samples \cup {Garbage})
         /\ Len(Unread) = RingAvailable
<1>1. /\ RingAvailable \in Nat
      /\ ringCapacity > 0 => RingAvailable < ringCapacity
      /\ ringCapacity = 0 => RingAvailable = 0
      /\ ringCapacity \in Nat
  BY AvailableRange DEF IInv, TypeOK
<1>2. ASSUME NEW k \in 1 .. RingAvailable
      PROVE  ringBuffer[(ringTail + k - 1) % ringCapacity] \in Samples \cup {Garbage}
  <2>1. ringCapacity > 0 /\ k \in 1 .. ringCapacity
    BY <1>1
  <2>2. (ringTail + k - 1) % ringCapacity \in 0 .. ringCapacity - 1
    BY <2>1, UnreadSlot
  <2>3. QED BY <2>2 DEF IInv, TypeOK
<1>3. QED BY <1>1, <1>2 DEF Unread

\* An interrupt offers its block to the queue.
LEMMA IsrOffers ==
  ASSUME IInv, Isr
  PROVE  Fifo!Next
<1>1. PICK block \in [1 .. DmaLen -> Samples] : RingWrite(block)
  BY DEF Isr
<1>2. PICK count : count = Min2(DmaLen, RingFree)
  OBVIOUS
<1>3. /\ dma
      /\ ringTail' = ringTail /\ ringCapacity' = ringCapacity
      /\ out' = out
  BY <1>1 DEF Isr, RingWrite, callVars
<1>4. /\ ringCapacity \in Nat \ {0}
      /\ count \in Nat /\ count <= DmaLen
      /\ RingAvailable + count < ringCapacity
      /\ RingAvailable' = RingAvailable + count
  BY <1>1, <1>2, <1>3, IsrAppends
<1>5. RingAvailable \in Nat
  BY AvailableRange DEF IInv
<1>6. ASSUME NEW k \in 1 .. RingAvailable + count
      PROVE  ringBuffer'[(ringTail + k - 1) % ringCapacity] =
               IF k <= RingAvailable THEN Unread[k] ELSE block[k - RingAvailable]
  <2>1. PICK p : p = (ringTail + k - 1) % ringCapacity
    OBVIOUS
  <2>2. k \in 1 .. ringCapacity
    BY <1>4, <1>5
  <2>3. p \in 0 .. ringCapacity - 1 /\ Distance(ringTail, p) = k - 1
    BY <1>4, <2>1, <2>2, UnreadSlot
  <2>4. CASE k <= RingAvailable
    <3>1. ringBuffer'[p] = ringBuffer[p]
      BY <1>1, <1>2, <1>3, <1>5, <2>3, <2>4, IsrAppends
    <3>2. Unread[k] = ringBuffer[p]
      BY <1>5, <2>1, <2>4 DEF Unread
    <3>3. QED BY <2>1, <2>4, <3>1, <3>2
  <2>5. CASE k > RingAvailable
    <3>1. ringBuffer'[p] = block[k - 1 - RingAvailable + 1]
      <4>1. /\ Distance(ringTail, p) >= RingAvailable
            /\ Distance(ringTail, p) < RingAvailable + count
        BY <1>4, <1>5, <2>3, <2>5
      <4>2. ringBuffer'[p] = block[Distance(ringTail, p) - RingAvailable + 1]
        BY <1>1, <1>2, <1>3, <2>3, <4>1, IsrAppends
      <4>3. QED BY <2>3, <4>2
    <3>2. k - 1 - RingAvailable + 1 = k - RingAvailable
      BY <1>5
    <3>3. QED BY <1>5, <2>1, <2>5, <3>1, <3>2
  <2>6. QED BY <1>5, <2>4, <2>5
<1>7. Unread' = Unread \o SubSeq(block, 1, count)
  <2>1. Unread' = [k \in 1 .. RingAvailable + count |->
                     IF k <= RingAvailable THEN Unread[k] ELSE block[k - RingAvailable]]
    BY <1>3, <1>4, <1>6 DEF Unread
  <2>2. block \in Seq(Samples) /\ Len(block) = DmaLen
    BY PdmAssumption
  <2>3. /\ SubSeq(block, 1, count) \in Seq(Samples)
        /\ Len(SubSeq(block, 1, count)) = count
        /\ \A j \in 1 .. count : SubSeq(block, 1, count)[j] = block[j]
    BY <1>4, <2>2, PdmAssumption
  <2>4. Unread \in Seq(Samples \cup {Garbage}) /\ Len(Unread) = RingAvailable
    BY UnreadLength
  <2>5. QED BY <1>4, <1>5, <2>1, <2>3, <2>4
<1>8. count = Fifo!Min2(DmaLen, Room - Len(Unread)) /\ Room' = Room
  BY <1>2, <1>3, <1>4, UnreadLength DEF Room, RingFree, Min2, Fifo!Min2
<1>9. Fifo!Offer(block)
  BY <1>3, <1>7, <1>8 DEF Fifo!Offer
<1>10. QED BY <1>9 DEF Fifo!Next

\* A step that leaves the ring alone leaves the queue alone.
LEMMA QueueUnchanged ==
  ASSUME UNCHANGED ringVars
  PROVE  UNCHANGED <<Room, Unread>>
BY DEF ringVars, Room, Unread, RingAvailable, Distance

\* Delivering a sample takes the oldest one from the queue.
LEMMA AdvanceTailTakes ==
  ASSUME IInv, AdvanceTail
  PROVE  Fifo!Take
<1>1. left \in 1 .. RingAvailable /\ RingAvailable \in Nat
  BY AvailableRange DEF AdvanceTail, IInv, ReaderStaysBehindWriter
<1>2. /\ RingAvailable < ringCapacity
      /\ ringCapacity \in Nat \ {0}
      /\ ringHead \in 0 .. ringCapacity - 1
      /\ ringTail \in 0 .. ringCapacity - 1
  BY <1>1, AvailableRange DEF IInv, TypeOK, IndicesInRing
<1>3. ringTail' = IF ringTail + 1 < ringCapacity THEN ringTail + 1 ELSE 0
  BY <1>2, NextIndexWraps DEF AdvanceTail, IInv
<1>4. RingAvailable' = RingAvailable - 1
  BY <1>1, <1>2, <1>3 DEF AdvanceTail, RingAvailable, Distance
<1>5. IInv'
  BY CallStep
<1>6. Unread \in Seq(Samples \cup {Garbage}) /\ Len(Unread) = RingAvailable
  BY UnreadLength
<1>7. Unread # <<>>
  BY <1>1, <1>6
<1>8. Head(Unread) = sample
  <2>1. (ringTail + 1 - 1) % ringCapacity = ringTail
    <3>1. PICK z : z = ringTail + 1 - 1
      OBVIOUS
    <3>2. z \in 0 .. 2 * ringCapacity - 1 /\ z < ringCapacity /\ z = ringTail
      BY <1>2, <3>1
    <3>3. z % ringCapacity = z
      BY <1>2, <3>2, ModWrap
    <3>4. QED BY <3>1, <3>2, <3>3, Zenon
  <2>2. Unread[1] = ringBuffer[ringTail]
    BY <1>1, <2>1 DEF Unread
  <2>3. QED BY <1>1, <1>6, <2>2 DEF AdvanceTail, IInv, CopyNotOverwritten
<1>9. ASSUME NEW k \in 1 .. RingAvailable - 1
      PROVE  (ringTail' + k - 1) % ringCapacity = (ringTail + (k + 1) - 1) % ringCapacity
  <2>1. PICK z : z = ringTail + (k + 1) - 1
    OBVIOUS
  <2>2. PICK y : y = ringTail' + k - 1
    OBVIOUS
  <2>3. /\ z \in 0 .. 2 * ringCapacity - 1
        /\ y \in 0 .. 2 * ringCapacity - 1
        /\ y = z \/ (y = z - ringCapacity /\ y < ringCapacity /\ z >= ringCapacity)
    BY <1>1, <1>2, <1>3, <2>1, <2>2
  <2>4. y % ringCapacity = z % ringCapacity
    <3>1. CASE y = z
      BY <3>1
    <3>2. CASE y = z - ringCapacity /\ y < ringCapacity /\ z >= ringCapacity
      <4>1. z % ringCapacity = z - ringCapacity
        BY <1>2, <2>3, <3>2, ModWrap
      <4>2. y % ringCapacity = y
        BY <1>2, <2>3, <3>2, ModWrap
      <4>3. QED BY <3>2, <4>1, <4>2, Zenon
    <3>3. QED BY <2>3, <3>1, <3>2
  <2>5. QED BY <2>1, <2>2, <2>4, Zenon
<1>10. Unread' = Tail(Unread)
  <2>1. Unread' = [k \in 1 .. RingAvailable - 1 |->
                     ringBuffer[(ringTail' + k - 1) % ringCapacity]]
    BY <1>4 DEF AdvanceTail, Unread
  <2>2. ASSUME NEW k \in 1 .. RingAvailable - 1
        PROVE  ringBuffer[(ringTail' + k - 1) % ringCapacity] = Unread[k + 1]
    <3>1. k + 1 \in 1 .. RingAvailable
      BY <1>1
    <3>2. Unread[k + 1] = ringBuffer[(ringTail + (k + 1) - 1) % ringCapacity]
      BY <3>1 DEF Unread
    <3>3. QED BY <1>9, <3>2, Zenon
  <2>3. Unread' = [k \in 1 .. RingAvailable - 1 |-> Unread[k + 1]]
    BY <2>1, <2>2, Zenon
  <2>4. /\ Tail(Unread) \in Seq(Samples \cup {Garbage})
        /\ Len(Tail(Unread)) = RingAvailable - 1
        /\ \A k \in 1 .. RingAvailable - 1 : Tail(Unread)[k] = Unread[k + 1]
    BY <1>6, <1>7, HeadTailProperties
  <2>5. /\ Unread' \in Seq(Samples \cup {Garbage})
        /\ Len(Unread') = RingAvailable - 1
        /\ \A k \in 1 .. RingAvailable - 1 : Unread'[k] = Unread[k + 1]
    BY <1>1, <1>6, <2>3
  <2>6. QED BY <2>4, <2>5, SeqEqual
<1>11. Room' = Room
  BY DEF AdvanceTail, Room
<1>12. QED BY <1>7, <1>8, <1>10, <1>11 DEF AdvanceTail, Fifo!Take

\* An unallocated or freshly allocated ring is an empty queue.
LEMMA EmptyQueue ==
  ASSUME RingAvailable = 0
  PROVE  Unread = <<>>
BY DEF Unread

\* Setting up and releasing the ring are resizings of the queue.
LEMMA RingResized ==
  ASSUME IInv, (\E size \in BufferSizes : SetBufferSize(size)) \/ EndRelease
  PROVE  Fifo!Resize
<1>1. IInv'
  BY LifeStep
<1>2. ringHead' = 0 /\ ringTail' = 0 /\ out' = out
  BY DEF SetBufferSize, EndRelease, IInv, IndicesInRing, LifeCycle
<1>3. RingAvailable' = 0
  BY <1>1, <1>2 DEF RingAvailable, Distance
<1>4. Unread' = <<>>
  BY <1>2, <1>3 DEF Unread
<1>5. Room' \in Nat
  <2>1. ringCapacity' \in Nat
    BY <1>1 DEF IInv, TypeOK
  <2>2. PICK n \in Nat : n = ringCapacity'
    BY <2>1
  <2>3. CASE n = 0
    BY <2>2, <2>3 DEF Room
  <2>4. CASE n # 0
    <3>1. n - 1 \in Nat
      BY <2>4
    <3>2. Room' = n - 1
      BY <2>2, <2>4 DEF Room
    <3>3. QED BY <3>1, <3>2
  <2>5. QED BY <2>3, <2>4
<1>6. QED BY <1>2, <1>4, <1>5 DEF Fifo!Resize

\* The driver implements the bounded queue: no sample is duplicated,
\* reordered or lost from the middle of the stream, for every size of block
\* and ring and every interleaving of the interrupt with the sketch.
THEOREM Refinement == Spec => FifoSpec
<1>1. Init => Fifo!Init
  <2> SUFFICES ASSUME Init PROVE Fifo!Init
    OBVIOUS
  <2>1. Unread = <<>>
    BY EmptyQueue DEF Init, RingAvailable, Distance
  <2>2. Room = 0
    BY DEF Init, Room
  <2>3. QED BY <2>1, <2>2 DEF Init, Fifo!Init
<1>2. IInv /\ [Next]_vars => [Fifo!Next]_Fifo!vars
  <2> SUFFICES ASSUME IInv, [Next]_vars
               PROVE  Fifo!Next \/ UNCHANGED Fifo!vars
    OBVIOUS
  <2>1. CASE Isr
    BY <2>1, IsrOffers
  <2>2. CASE (\E size \in BufferSizes : SetBufferSize(size)) \/ EndRelease
    BY <2>2, RingResized DEF Fifo!Next
  <2>3. CASE AdvanceTail
    BY <2>3, AdvanceTailTakes DEF Fifo!Next
  <2>4. CASE \/ Begin \/ BeginDone \/ EndNotStarted \/ EndAbort
             \/ Available \/ AvailableReturn
             \/ \E size \in ReadSizes \cup {promised} : Read(size)
             \/ ReadCount \/ CopySample \/ UNCHANGED vars
    <3>1. UNCHANGED ringVars /\ out' = out
      BY <2>4 DEF Begin, BeginDone, EndNotStarted, EndAbort, Available,
                  AvailableReturn, Read, ReadCount, CopySample, vars, callVars
    <3>2. QED BY <3>1, QueueUnchanged DEF Fifo!vars
  <2>5. QED BY <2>1, <2>2, <2>3, <2>4 DEF Next, Sketch
<1>3. QED BY <1>1, <1>2, Invariant, PTL DEF Spec, FifoSpec, Fifo!Spec

-----------------------------------------------------------------------------
(* The expansion of a block in place.                                      *)

\* The block size is a natural number.
LEMMA BlockLenNat == BlockLen \in Nat
BY BlockLenAssumption

\* The high halfword is a halfword.
LEMMA SignIsHalfword == \A h : Sign(h) \in Halfwords
<1>1. {-1, 0} \subseteq Halfwords
  BY HalfwordsAssumption DEF HalfwordsAssumption
<1>2. QED BY <1>1 DEF Sign

\* A halfword and its sign make up the 32-bit word of the same value.
LEMMA SignExtends ==
  \A h \in Halfwords : (h % Int16Count) + Int16Count * Sign(h) = h
<1>1. TAKE h \in Halfwords
<1>2. h \in MinInt16 .. MaxInt16
  BY HalfwordsAssumption DEF HalfwordsAssumption
<1>3. h \in Int /\ -32768 <= h /\ h <= 32767
  <2>1. MinInt16 \in Int /\ MaxInt16 \in Int
    BY DEF MinInt16, MaxInt16
  <2>2. h \in Int /\ MinInt16 <= h /\ h <= MaxInt16
    BY <1>2, <2>1
  <2>3. QED BY <2>2 DEF MinInt16, MaxInt16
<1>4. CASE h < 0
  <2>1. h % 65536 = h + 65536
    BY <1>3, <1>4, Z3
  <2>2. QED BY <1>3, <1>4, <2>1 DEF Sign, Int16Count
<1>5. CASE h >= 0
  <2>1. h % 65536 = h
    BY <1>3, <1>5, Z3
  <2>2. QED BY <1>3, <1>5, <2>1 DEF Sign, Int16Count
<1>6. QED BY <1>3, <1>4, <1>5

\* One iteration keeps what LoopInvariant says, with sample i now widened.
LEMMA WidenStep ==
  ASSUME ExpandTypeOK, LoopInvariant, Widen
  PROVE  ExpandTypeOK' /\ LoopInvariant'
<1>1. i \in 0 .. BlockLen - 1 /\ i' = i - 1 /\ captured' = captured
  <2>1. i \in Int /\ i <= BlockLen - 1
    BY BlockLenNat DEF ExpandTypeOK
  <2>2. QED BY <2>1, BlockLenNat DEF Widen
<1>2. /\ 2 * i \in 0 .. 2 * BlockLen - 1
      /\ 2 * i + 1 \in 0 .. 2 * BlockLen - 1
      /\ 2 * i # 2 * i + 1
      /\ i \in 0 .. 2 * BlockLen - 1
  BY <1>1, BlockLenNat
<1>3. DOMAIN dmaBuffer = 0 .. 2 * BlockLen - 1
  BY DEF ExpandTypeOK
<1>4. dmaBuffer'[2 * i] = dmaBuffer[i] /\ dmaBuffer'[2 * i + 1] = Sign(dmaBuffer[i])
  BY <1>2, <1>3 DEF Widen
<1>5. \A k \in 0 .. 2 * BlockLen - 1 :
        k # 2 * i /\ k # 2 * i + 1 => dmaBuffer'[k] = dmaBuffer[k]
  BY <1>2, <1>3 DEF Widen
<1>6. dmaBuffer[i] = captured[i]
  BY <1>1 DEF LoopInvariant
<1>7. dmaBuffer' \in [0 .. 2 * BlockLen - 1 -> Halfwords]
  <2>1. dmaBuffer[i] \in Halfwords /\ Sign(dmaBuffer[i]) \in Halfwords
    BY <1>2, SignIsHalfword DEF ExpandTypeOK
  <2>2. QED BY <1>2, <2>1 DEF ExpandTypeOK, Widen
<1>8. ExpandTypeOK'
  <2>1. i' \in (-1) .. BlockLen - 1
    BY <1>1, BlockLenNat
  <2>2. QED BY <1>1, <1>7, <2>1 DEF ExpandTypeOK
<1>9. ASSUME NEW k \in 0 .. i - 1
      PROVE  dmaBuffer'[k] = captured[k]
  <2>1. k \in 0 .. 2 * BlockLen - 1 /\ k # 2 * i /\ k # 2 * i + 1 /\ k \in 0 .. i
    BY <1>1, BlockLenNat
  <2>2. QED BY <1>5, <2>1 DEF LoopInvariant
<1>10. ASSUME NEW k \in i .. BlockLen - 1
       PROVE  dmaBuffer'[2 * k] = captured[k] /\ dmaBuffer'[2 * k + 1] = Sign(captured[k])
  <2>1. CASE k = i
    BY <1>4, <1>6, <2>1
  <2>2. CASE k > i
    <3>1. /\ k \in i + 1 .. BlockLen - 1
          /\ 2 * k \in 0 .. 2 * BlockLen - 1 /\ 2 * k + 1 \in 0 .. 2 * BlockLen - 1
          /\ 2 * k # 2 * i /\ 2 * k # 2 * i + 1
          /\ 2 * k + 1 # 2 * i /\ 2 * k + 1 # 2 * i + 1
      BY <1>1, <2>2, BlockLenNat
    <3>2. QED BY <1>5, <3>1 DEF LoopInvariant
  <2>3. QED BY <1>1, <2>1, <2>2, BlockLenNat
<1>11. LoopInvariant'
  <2>1. i' + 1 = i
    BY <1>1
  <2>2. QED BY <1>1, <1>9, <1>10, <2>1 DEF LoopInvariant
<1>12. QED BY <1>8, <1>11

\* Where the loop stands holds at every iteration.
LEMMA ExpandInvariant == ExpandSpec => [](ExpandTypeOK /\ LoopInvariant)
<1>1. ExpandInit => ExpandTypeOK /\ LoopInvariant
  <2> SUFFICES ASSUME ExpandInit PROVE ExpandTypeOK /\ LoopInvariant
    OBVIOUS
  <2>1. i = BlockLen - 1 /\ i \in (-1) .. BlockLen - 1
    BY BlockLenNat DEF ExpandInit
  <2>2. \A k \in 0 .. BlockLen - 1 : k \in 0 .. 2 * BlockLen - 1
    BY BlockLenNat
  <2>3. captured \in [Slots -> Halfwords]
    BY <2>2 DEF ExpandInit, Slots
  <2>4. \A k \in 0 .. i : dmaBuffer[k] = captured[k]
    BY <2>1 DEF ExpandInit, Slots
  <2>5. \A k \in i + 1 .. BlockLen - 1 : FALSE
    BY <2>1, BlockLenNat
  <2>6. QED BY <2>1, <2>3, <2>4, <2>5 DEF ExpandInit, ExpandTypeOK, LoopInvariant
<1>2. ExpandTypeOK /\ LoopInvariant /\ [ExpandNext]_expandVars =>
        (ExpandTypeOK /\ LoopInvariant)'
  <2> SUFFICES ASSUME ExpandTypeOK, LoopInvariant, [ExpandNext]_expandVars
               PROVE  (ExpandTypeOK /\ LoopInvariant)'
    OBVIOUS
  <2>1. CASE Widen
    BY <2>1, WidenStep
  <2>2. CASE UNCHANGED expandVars
    BY <2>2 DEF expandVars, ExpandTypeOK, LoopInvariant
  <2>3. QED BY <2>1, <2>2 DEF ExpandNext
<1>3. QED BY <1>1, <1>2, PTL DEF ExpandSpec

\* No sample is overwritten before it is widened, and each gets its value.
THEOREM Widening == ExpandSpec => []WidenedInPlace
<1>1. ExpandTypeOK /\ LoopInvariant => WidenedInPlace
  <2> SUFFICES ASSUME ExpandTypeOK, LoopInvariant, i = -1, NEW k \in Slots
               PROVE  Word(k) = captured[k]
    BY DEF WidenedInPlace
  <2>1. captured[k] \in Halfwords
    BY DEF ExpandTypeOK
  <2>2. k \in i + 1 .. BlockLen - 1
    BY BlockLenNat DEF Slots
  <2>3. dmaBuffer[2 * k] = captured[k] /\ dmaBuffer[2 * k + 1] = Sign(captured[k])
    BY <2>2 DEF LoopInvariant
  <2>4. (captured[k] % Int16Count) + Int16Count * Sign(captured[k]) = captured[k]
    BY <2>1, SignExtends, Zenon
  <2>5. Word(k) = (captured[k] % Int16Count) + Int16Count * Sign(captured[k])
    BY <2>3, Zenon DEF Word
  <2>6. QED BY <2>4, <2>5, Zenon
<1>2. QED BY <1>1, ExpandInvariant, PTL

-----------------------------------------------------------------------------
(* The sketch: what it has not read since it lowered its flag is what it   *)
(* is about to read, because any interrupt since has raised the flag.      *)

\* Where the sketch is in the driver, and what the flag stands for.
SketchPlaces ==
  /\ at \in {"buffer", "begin", "started", "onReceive", "poll", "available", "read", "failed"}
  /\ at \in {"buffer", "begin", "onReceive", "poll"} => pc = "idle"
  /\ at = "available" => pc \in {"idle", "available"}
  /\ at = "read" => pc \in {"idle", "read", "copy", "advance"}
  /\ onReceive <=> at \in {"poll", "available", "read"}
  /\ notified => onReceive

FlagInv == ~dataReady =>
  /\ at = "poll" /\ notified => RingAvailable = 0
  /\ at = "available" /\ pc = "available" => Distance(ringTail, head) = RingAvailable
  /\ at = "read" /\ pc = "idle" => promised = RingAvailable
  /\ at = "read" /\ pc = "read" => want = RingAvailable /\ Distance(ringTail, head) = RingAvailable
  /\ at = "read" /\ pc \in {"copy", "advance"} => left = RingAvailable

\* The sketch only calls the driver's methods.
LEMMA SketchUsesDriver == ASSUME [SketchNext]_allVars PROVE [Next]_vars
<1>1. FrameSize \in BufferSizes
  BY PdmSketchAssumption
<1>2. CASE LoopAvailable \/ LoopRead
  BY <1>2 DEF Next, Sketch, LoopAvailable, LoopRead
<1>3. CASE IsrAndCallback \/ SetupBuffer \/ SetupBegin \/ SetupStarted
  BY <1>1, <1>3 DEF Next, Sketch, IsrAndCallback, SetupBuffer, SetupBegin, SetupStarted
<1>4. CASE SetupCallback \/ LoopPoll \/ UNCHANGED allVars
  BY <1>4 DEF SetupCallback, LoopPoll, allVars
<1> QED  BY <1>2, <1>3, <1>4 DEF SketchNext, SketchStep

\* The places follow one another.
LEMMA PlacesStep ==
  ASSUME SketchPlaces, [SketchNext]_allVars
  PROVE  SketchPlaces'
<1>1. CASE IsrAndCallback
  BY <1>1 DEF IsrAndCallback, Isr, callVars, SketchPlaces
<1>2. CASE SetupBuffer \/ SetupBegin \/ SetupStarted
  BY <1>2 DEF SetupBuffer, SetupBegin, SetupStarted, SetBufferSize, Begin, BeginDone,
              SketchPlaces
<1>3. CASE SetupCallback \/ LoopPoll
  BY <1>3 DEF SetupCallback, LoopPoll, vars, callVars, SketchPlaces
<1>4. CASE LoopAvailable
  BY <1>4 DEF LoopAvailable, Available, AvailableReturn, SketchPlaces
<1>5. CASE LoopRead
  <2>1. pc' \in {"idle", "read", "copy", "advance"}
    BY <1>5 DEF LoopRead, Read, ReadCount, CopySample, AdvanceTail
  <2> QED  BY <1>5, <2>1 DEF LoopRead, SketchPlaces
<1>6. CASE UNCHANGED allVars
  BY <1>6 DEF allVars, vars, callVars, sketchVars, SketchPlaces
<1> QED  BY <1>1, <1>2, <1>3, <1>4, <1>5, <1>6 DEF SketchNext, SketchStep

\* Moving the tail leaves one unread sample less.
LEMMA TailTakesOne ==
  ASSUME IInv, AdvanceTail
  PROVE  RingAvailable' = RingAvailable - 1
<1>1. left \in 1 .. RingAvailable /\ RingAvailable \in Nat
  BY AvailableRange DEF AdvanceTail, IInv, ReaderStaysBehindWriter
<1>2. /\ RingAvailable < ringCapacity /\ ringCapacity \in Nat \ {0}
      /\ ringHead \in 0 .. ringCapacity - 1 /\ ringTail \in 0 .. ringCapacity - 1
  BY <1>1, AvailableRange DEF IInv, TypeOK, IndicesInRing
<1>3. ringTail' = IF ringTail + 1 < ringCapacity THEN ringTail + 1 ELSE 0
  BY <1>2, NextIndexWraps DEF AdvanceTail, IInv
<1> QED  BY <1>1, <1>2, <1>3 DEF RingAvailable, Distance, AdvanceTail

\* What the flag stands for is kept: an interrupt raises it, and the rest of the sketch
\* takes every sample it counted.
LEMMA FlagStep ==
  ASSUME IInv, SketchPlaces, FlagInv, [SketchNext]_allVars
  PROVE  FlagInv'
<1> SUFFICES ASSUME ~dataReady'  PROVE FlagInv'
  BY DEF FlagInv
<1>1. CASE IsrAndCallback
  BY <1>1 DEF IsrAndCallback, SketchPlaces, FlagInv
<1>2. CASE SetupBuffer \/ SetupBegin \/ SetupStarted \/ SetupCallback \/ LoopPoll
  <2>1. ~(at' = "poll" /\ notified') /\ at' # "read" /\ ~(at' = "available" /\ pc' = "available")
    BY <1>2 DEF SetupBuffer, SetupBegin, SetupStarted, SetupCallback, LoopPoll, SketchPlaces,
                vars, callVars
  <2> QED  BY <2>1 DEF FlagInv
<1>3. ASSUME UNCHANGED ringVars
      PROVE  /\ RingAvailable' = RingAvailable
             /\ \A h : Distance(ringTail, h)' = Distance(ringTail, h)
  BY <1>3 DEF ringVars, RingAvailable, Distance
<1>4. RingAvailable \in Nat
  BY AvailableRange DEF IInv
<1>5. CASE LoopAvailable
  <2>1. UNCHANGED ringVars /\ ~dataReady /\ at = "available"
    BY <1>5 DEF LoopAvailable, Available, AvailableReturn
  <2>2. CASE Available /\ at' = at
    <3>1. pc' = "available" /\ Distance(ringTail, head)' = RingAvailable
      BY <2>1, <2>2 DEF Available, RingAvailable, Distance, ringVars
    <3> QED  BY <1>3, <2>1, <2>2, <3>1 DEF FlagInv
  <2>3. CASE AvailableReturn /\ at' = "read"
    <3>1. pc = "available" /\ pc' = "idle" /\ promised' = Distance(ringTail, head)
      BY <2>3 DEF AvailableReturn
    <3> QED  BY <1>3, <2>1, <2>3, <3>1 DEF FlagInv
  <2> QED  BY <1>5, <2>2, <2>3 DEF LoopAvailable
<1>6. CASE LoopRead
  <2>1. at = "read" /\ ~dataReady /\ at' = IF pc' = "idle" THEN "poll" ELSE "read"
    BY <1>6 DEF LoopRead
  <2>2. CASE Read(promised)
    <3>1. /\ UNCHANGED ringVars /\ pc = "idle" /\ pc' = "read" /\ want' = promised
          /\ Distance(ringTail, head)' = RingAvailable
      BY <2>2 DEF Read, RingAvailable, Distance, ringVars
    <3> QED  BY <1>3, <2>1, <3>1 DEF FlagInv
  <2>3. CASE ReadCount
    <3>1. /\ UNCHANGED ringVars /\ pc = "read" /\ left' = Min2(want, Distance(ringTail, head))
          /\ pc' = IF left' = 0 THEN "idle" ELSE "copy"
      BY <2>3 DEF ReadCount
    <3>2. left' = RingAvailable
      BY <1>4, <2>1, <3>1 DEF FlagInv, Min2
    <3> QED  BY <1>3, <2>1, <3>1, <3>2 DEF FlagInv
  <2>4. CASE CopySample
    <3>1. UNCHANGED ringVars /\ pc = "copy" /\ pc' = "advance" /\ left' = left
      BY <2>4 DEF CopySample
    <3> QED  BY <1>3, <2>1, <3>1 DEF FlagInv
  <2>5. CASE AdvanceTail
    <3>1. pc = "advance" /\ pc' = (IF left = 1 THEN "idle" ELSE "copy") /\ left' = left - 1
      BY <2>5 DEF AdvanceTail
    <3>2. left = RingAvailable /\ RingAvailable' = RingAvailable - 1
      BY <2>1, <2>5, <3>1, TailTakesOne DEF FlagInv
    <3> QED  BY <1>4, <2>1, <3>1, <3>2 DEF FlagInv
  <2> QED  BY <1>6, <2>2, <2>3, <2>4, <2>5 DEF LoopRead
<1>7. CASE UNCHANGED allVars
  <2>1. UNCHANGED <<ringVars, at, pc, head, want, left, promised, dataReady, notified>>
    BY <1>7 DEF allVars, vars, callVars, sketchVars
  <2>2. Distance(ringTail, head)' = Distance(ringTail, head) /\ RingAvailable' = RingAvailable
    BY <2>1 DEF ringVars, RingAvailable, Distance
  <2> QED  BY <2>1, <2>2 DEF FlagInv
<1> QED  BY <1>1, <1>2, <1>5, <1>6, <1>7 DEF SketchNext, SketchStep

\* No wakeup is lost: once the callback has run, the sketch never polls a lowered flag over
\* unread samples, wherever the interrupts fall between its steps.
THEOREM WakeupSafety == SketchSpec => []NoLostWakeup
<1>1. SketchInit => SketchPlaces /\ FlagInv
  BY DEF SketchInit, Init, SketchPlaces, FlagInv
<1>2. SketchPlaces /\ FlagInv /\ IInv /\ [SketchNext]_allVars => (SketchPlaces /\ FlagInv)'
  BY PlacesStep, FlagStep
<1>3. IInv => RingAvailable \in Nat
  BY AvailableRange DEF IInv
<1>4. SketchPlaces /\ FlagInv /\ IInv => NoLostWakeup
  BY <1>3 DEF FlagInv, NoLostWakeup
<1>5. SketchInit => Init
  BY DEF SketchInit
<1>6. [SketchNext]_allVars => [Next]_vars
  BY SketchUsesDriver
<1>7. Init /\ [][Next]_vars => []IInv
  BY Invariant DEF Spec
<1> QED  BY <1>1, <1>2, <1>4, <1>5, <1>6, <1>7, PTL DEF SketchSpec
=============================================================================
