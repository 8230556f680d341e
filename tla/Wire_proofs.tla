----------------------------- MODULE Wire_proofs ----------------------------
(***************************************************************************)
(* Proofs about the I2C driver: for every length of its buffers and every  *)
(* order of calls and interrupts, what comes in keeps its order, what goes *)
(* out is what write() accepted, and the interrupt's loop stores half of   *)
(* the free part of the ring at most.                                      *)
(***************************************************************************)
EXTENDS Wire, SequenceTheorems, TLAPS

\* A larger number behind an increasing sequence.
LEMMA IncreasingAppend ==
  ASSUME NEW seq \in Seq(Nat), Increasing(seq), NEW x \in Nat,
         \A k \in 1 .. Len(seq) : seq[k] < x
  PROVE  /\ Append(seq, x) \in Seq(Nat)
         /\ Len(seq) \in Nat /\ Len(Append(seq, x)) = Len(seq) + 1
         /\ \A k \in 1 .. Len(seq) : Append(seq, x)[k] = seq[k]
         /\ Append(seq, x)[Len(seq) + 1] = x
         /\ Increasing(Append(seq, x))
<1>1. /\ Append(seq, x) \in Seq(Nat)
      /\ Len(seq) \in Nat /\ Len(Append(seq, x)) = Len(seq) + 1
      /\ \A k \in 1 .. Len(seq) : Append(seq, x)[k] = seq[k]
      /\ Append(seq, x)[Len(seq) + 1] = x
  BY AppendProperties, LenProperties
<1>2. ASSUME NEW j \in 1 .. Len(seq) + 1, NEW k \in 1 .. Len(seq) + 1, j < k
      PROVE  Append(seq, x)[j] < Append(seq, x)[k]
  <2>1. CASE k = Len(seq) + 1
    BY <1>1, <1>2, <2>1
  <2>2. CASE k # Len(seq) + 1
    BY <1>1, <1>2, <2>2 DEF Increasing
  <2> QED
    BY <2>1, <2>2
<1> QED
  BY <1>1, <1>2 DEF Increasing

\* What remains of an increasing sequence when the first b elements are gone.
LEMMA IncreasingCut ==
  ASSUME NEW seq \in Seq(Nat), Increasing(seq), NEW b \in 0 .. Len(seq)
  PROVE  LET cut == SubSeq(seq, b + 1, Len(seq)) IN
         /\ cut \in Seq(Nat)
         /\ Len(seq) \in Nat /\ Len(cut) = Len(seq) - b
         /\ \A k \in 1 .. Len(cut) : cut[k] = seq[b + k]
         /\ Increasing(cut)
<1> DEFINE cut == SubSeq(seq, b + 1, Len(seq))
<1>1. Len(seq) \in Nat /\ \A k \in 1 .. Len(seq) : seq[k] \in Nat
  BY LenProperties, ElementOfSeq
<1>2. /\ cut \in Seq(Nat)
      /\ Len(cut) = IF b + 1 <= Len(seq) THEN Len(seq) - (b + 1) + 1 ELSE 0
      /\ \A k \in 1 .. Len(seq) - (b + 1) + 1 : cut[k] = seq[b + 1 + k - 1]
  <2>1. \A k \in b + 1 .. Len(seq) : seq[k] \in Nat
    BY <1>1
  <2> QED
    BY <1>1, <2>1, SubSeqProperties
<1> HIDE DEF cut
<1>3. Len(cut) = Len(seq) - b /\ \A k \in 1 .. Len(cut) : cut[k] = seq[b + k]
  BY <1>1, <1>2
<1>4. Increasing(cut)
  <2> SUFFICES ASSUME NEW j \in 1 .. Len(cut), NEW k \in 1 .. Len(cut), j < k
               PROVE  cut[j] < cut[k]
    BY DEF Increasing
  <2>1. b + j \in 1 .. Len(seq) /\ b + k \in 1 .. Len(seq) /\ b + j < b + k
    BY <1>1, <1>3
  <2> QED
    BY <1>3, <2>1 DEF Increasing
<1> QED
  BY <1>1, <1>2, <1>3, <1>4 DEF cut

\* The next n numbers behind a sequence that holds no larger ones.
LEMMA IncreasingConcat ==
  ASSUME NEW seq \in Seq(Nat), Increasing(seq), NEW m \in Nat, NEW n \in Nat,
         \A k \in 1 .. Len(seq) : seq[k] <= m
  PROVE  LET new == [k \in 1 .. n |-> m + k] IN
         /\ seq \o new \in Seq(Nat)
         /\ Len(seq) \in Nat /\ Len(seq \o new) = Len(seq) + n
         /\ Increasing(seq \o new)
         /\ \A k \in 1 .. Len(seq \o new) : (seq \o new)[k] <= m + n
<1> DEFINE new == [k \in 1 .. n |-> m + k]
           all == seq \o new
<1>1. new \in Seq(Nat) /\ Len(new) = n /\ \A k \in 1 .. n : new[k] = m + k
  OBVIOUS
<1> HIDE DEF new
<1>2. /\ all \in Seq(Nat)
      /\ Len(seq) \in Nat /\ Len(all) = Len(seq) + n
      /\ \A k \in 1 .. Len(seq) + n :
           all[k] = IF k <= Len(seq) THEN seq[k] ELSE new[k - Len(seq)]
  BY <1>1, ConcatProperties, LenProperties
<1> HIDE DEF all
<1>3. \A k \in 1 .. Len(seq) : all[k] = seq[k] /\ seq[k] \in Nat
  BY <1>2, ElementOfSeq
<1>4. \A k \in Len(seq) + 1 .. Len(seq) + n : all[k] = m + (k - Len(seq))
  <2> SUFFICES ASSUME NEW k \in Len(seq) + 1 .. Len(seq) + n
               PROVE  all[k] = m + (k - Len(seq))
    OBVIOUS
  <2>1. k - Len(seq) \in 1 .. n /\ k \in 1 .. Len(seq) + n /\ ~(k <= Len(seq))
    BY <1>2
  <2> QED
    BY <1>1, <1>2, <2>1
<1>5. ASSUME NEW j \in 1 .. Len(seq) + n, NEW k \in 1 .. Len(seq) + n, j < k
      PROVE  all[j] < all[k]
  <2>1. CASE k <= Len(seq)
    <3>1. j \in 1 .. Len(seq) /\ k \in 1 .. Len(seq)
      BY <1>2, <1>5, <2>1
    <3>2. seq[j] < seq[k]
      BY <1>5, <3>1 DEF Increasing
    <3> QED
      BY <1>3, <3>1, <3>2
  <2>2. CASE j <= Len(seq) /\ k > Len(seq)
    <3>1. j \in 1 .. Len(seq) /\ k \in Len(seq) + 1 .. Len(seq) + n
      BY <1>2, <2>2
    <3>2. all[j] \in Nat /\ all[j] <= m /\ all[k] = m + (k - Len(seq))
      BY <1>3, <1>4, <3>1
    <3> QED
      BY <1>2, <3>1, <3>2
  <2>3. CASE j > Len(seq)
    <3>1. j \in Len(seq) + 1 .. Len(seq) + n /\ k \in Len(seq) + 1 .. Len(seq) + n
      BY <1>2, <1>5, <2>3
    <3>2. all[j] = m + (j - Len(seq)) /\ all[k] = m + (k - Len(seq))
      BY <1>4, <3>1
    <3> QED
      BY <1>2, <1>5, <3>1, <3>2
  <2> QED
    BY <1>2, <2>1, <2>2, <2>3
<1>6. ASSUME NEW k \in 1 .. Len(seq) + n
      PROVE  all[k] <= m + n
  <2>1. CASE k <= Len(seq)
    <3>1. k \in 1 .. Len(seq)
      BY <1>2, <2>1
    <3>2. all[k] \in Nat /\ all[k] <= m
      BY <1>3, <3>1
    <3> QED
      BY <3>2
  <2>2. CASE k > Len(seq)
    <3>1. k \in Len(seq) + 1 .. Len(seq) + n
      BY <1>2, <2>2
    <3> QED
      BY <1>2, <1>4, <3>1
  <2> QED
    BY <1>2, <2>1, <2>2
<1> QED
  BY <1>2, <1>5, <1>6 DEF Increasing, new, all

-----------------------------------------------------------------------------
(* The inductive invariant.                                                *)

LEMMA InitIInv == Init => IInv
<1> SUFFICES ASSUME Init
             PROVE  IInv
  OBVIOUS
<1>1. <<>> \in Seq(Nat) /\ Len(<<>>) = 0
  BY EmptySeq
<1>2. ModeTypeOK
  BY DEF Init, ModeTypeOK
<1>3. RxTypeOK /\ LoopInvariant
  BY <1>1, WireAssumption DEF Init, RxTypeOK, LoopInvariant, StoredIsHalf
<1>4. InOrder /\ TxInv
  BY <1>1, WireAssumption DEF Init, InOrder, Increasing, TxInv, TxTypeOK, TransmissionIsExact
<1> QED
  BY <1>2, <1>3, <1>4 DEF IInv, RxInv

\* Steps that leave a half of the driver alone.
LEMMA RxFrame ==
  ASSUME RxInv, UNCHANGED rxVars,
         (service = "store") = (service' = "store"),
         service' = "told" => service = "told"
  PROVE  RxInv'
<1>1. UNCHANGED <<rxBuffer, in, numBytes, i, free, stored>>
  BY DEF rxVars, loopVars
<1>2. RxTypeOK'
  BY <1>1 DEF RxInv, RxTypeOK
<1>3. LoopInvariant'
  BY <1>1 DEF RxInv, LoopInvariant, StoredIsHalf, Stored
<1>4. InOrder'
  BY <1>1 DEF RxInv, InOrder, Increasing, Received
<1> QED
  BY <1>2, <1>3, <1>4 DEF RxInv

LEMMA TxFrame ==
  ASSUME TxInv, UNCHANGED txVars
  PROVE  TxInv'
BY DEF TxInv, TxTypeOK, TransmissionIsExact, Increasing, txVars

-----------------------------------------------------------------------------
(* The steps on the way out.                                               *)

\* txBuffer is emptied.
LEMMA ClearTx ==
  ASSUME TxInv, txBuffer' = <<>>, since' = out, refused' = {}, out' = out
  PROVE  TxInv'
<1>1. <<>> \in Seq(Nat) /\ Len(<<>>) = 0
  BY EmptySeq
<1>2. out \in Nat /\ out \in 0 .. MaxOut /\ BufferLength \in Nat
  BY WireAssumption DEF TxInv, TxTypeOK
<1>3. TxTypeOK'
  BY <1>1, <1>2 DEF TxTypeOK
<1>4. TransmissionIsExact'
  <2>1. (out + 1 .. out) = {}
    BY <1>2
  <2> QED
    BY <1>1, <2>1 DEF TransmissionIsExact, Increasing
<1> QED
  BY <1>3, <1>4 DEF TxInv

LEMMA WriteTx ==
  ASSUME TxInv, Write
  PROVE  TxInv'
<1>1. /\ txBuffer \in Seq(Nat) /\ Len(txBuffer) \in Nat /\ Len(txBuffer) <= BufferLength
      /\ out \in 0 .. MaxOut /\ since \in 0 .. out /\ refused \in SUBSET (1 .. out)
      /\ out < MaxOut /\ out' = out + 1 /\ since' = since
      /\ MaxOut \in Nat /\ BufferLength \in Nat
  BY WireAssumption, LenProperties DEF TxInv, TxTypeOK, Write
<1>2. {txBuffer[k] : k \in 1 .. Len(txBuffer)} = (since + 1 .. out) \ refused
  BY DEF TxInv, TransmissionIsExact
<1>3. \A k \in 1 .. Len(txBuffer) : txBuffer[k] \in since + 1 .. out
  BY <1>2
<1>4. Increasing(txBuffer)
  BY DEF TxInv, TransmissionIsExact
<1>5. (since + 1 .. out + 1) = (since + 1 .. out) \cup {out + 1}
  BY <1>1
<1>6. CASE /\ Len(txBuffer) = BufferLength
           /\ refused' = refused \cup {out + 1} /\ txBuffer' = txBuffer
  <2>1. TxTypeOK'
    BY <1>1, <1>6 DEF TxTypeOK
  <2>2. (since' + 1 .. out') \ refused' = (since + 1 .. out) \ refused
    <3>1. out + 1 \notin since + 1 .. out
      BY <1>1
    <3> QED
      BY <1>1, <1>5, <1>6, <3>1
  <2> QED
    BY <1>2, <1>4, <1>6, <2>1, <2>2 DEF TxInv, TransmissionIsExact
<1>7. CASE /\ Len(txBuffer) < BufferLength
           /\ txBuffer' = Append(txBuffer, out + 1) /\ refused' = refused
  <2>1. \A k \in 1 .. Len(txBuffer) : txBuffer[k] < out + 1
    BY <1>1, <1>3
  <2>2. /\ txBuffer' \in Seq(Nat)
        /\ Len(txBuffer') = Len(txBuffer) + 1
        /\ \A k \in 1 .. Len(txBuffer) : txBuffer'[k] = txBuffer[k]
        /\ txBuffer'[Len(txBuffer) + 1] = out + 1
        /\ Increasing(txBuffer')
    <3>1. out + 1 \in Nat
      BY <1>1
    <3> QED
      BY <1>1, <1>4, <1>7, <2>1, <3>1, IncreasingAppend
  <2>3. TxTypeOK'
    BY <1>1, <1>7, <2>2 DEF TxTypeOK
  <2>4. {txBuffer'[k] : k \in 1 .. Len(txBuffer')} =
          {txBuffer[k] : k \in 1 .. Len(txBuffer)} \cup {out + 1}
    <3> DEFINE new == txBuffer'
    <3>1. 1 .. Len(new) = 1 .. Len(txBuffer) \cup {Len(txBuffer) + 1}
      BY <1>1, <2>2
    <3>2. \A k \in 1 .. Len(txBuffer) : new[k] = txBuffer[k]
      BY <2>2
    <3>3. new[Len(txBuffer) + 1] = out + 1
      BY <2>2
    <3> HIDE DEF new
    <3>4. {new[k] : k \in 1 .. Len(new)} =
            {txBuffer[k] : k \in 1 .. Len(txBuffer)} \cup {out + 1}
      BY <3>1, <3>2, <3>3
    <3> QED
      BY <3>4 DEF new
  <2>5. (since' + 1 .. out') \ refused' = ((since + 1 .. out) \ refused) \cup {out + 1}
    <3>1. out + 1 \notin refused
      BY <1>1
    <3> QED
      BY <1>1, <1>5, <1>7, <3>1
  <2> QED
    BY <1>2, <2>2, <2>3, <2>4, <2>5 DEF TxInv, TransmissionIsExact
<1> QED
  BY <1>6, <1>7 DEF Write

\* Respond: the part of txBuffer that was handed over is gone, and with it
\* what was written before it.
LEMMA RespondTx ==
  ASSUME TxInv, Respond
  PROVE  TxInv'
<1>1. /\ txBuffer \in Seq(Nat) /\ Len(txBuffer) \in Nat /\ Len(txBuffer) <= BufferLength
      /\ out \in 0 .. MaxOut /\ since \in 0 .. out /\ refused \in SUBSET (1 .. out)
      /\ out' = out /\ MaxOut \in Nat /\ BufferLength \in Nat
  BY WireAssumption, LenProperties DEF TxInv, TxTypeOK, Respond
<1>2. {txBuffer[k] : k \in 1 .. Len(txBuffer)} = (since + 1 .. out) \ refused
  BY DEF TxInv, TransmissionIsExact
<1>3. \A k \in 1 .. Len(txBuffer) : txBuffer[k] \in since + 1 .. out
  BY <1>2
<1>4. Increasing(txBuffer)
  BY DEF TxInv, TransmissionIsExact
<1>5. PICK writable \in 0 .. BufferLength :
        /\ txBuffer' = SubSeq(txBuffer, Min2(writable, Len(txBuffer)) + 1, Len(txBuffer))
        /\ since' = IF Min2(writable, Len(txBuffer)) = 0 THEN since
                    ELSE txBuffer[Min2(writable, Len(txBuffer))]
  BY DEF Respond
<1>6. PICK b \in 0 .. Len(txBuffer) : b = Min2(writable, Len(txBuffer))
  BY <1>1 DEF Min2
<1>7. refused' = {x \in refused : x > since'}
  BY DEF Respond
<1>8. /\ txBuffer' \in Seq(Nat)
      /\ Len(txBuffer') = Len(txBuffer) - b
      /\ \A k \in 1 .. Len(txBuffer') : txBuffer'[k] = txBuffer[b + k]
      /\ Increasing(txBuffer')
  BY <1>1, <1>4, <1>5, <1>6, IncreasingCut
<1>9. CASE b = 0
  <2>1. since' = since /\ Len(txBuffer') = Len(txBuffer)
    BY <1>1, <1>5, <1>6, <1>8, <1>9
  <2>2. \A k \in 1 .. Len(txBuffer) : txBuffer'[k] = txBuffer[k]
    BY <1>1, <1>8, <1>9
  <2>3. {txBuffer'[k] : k \in 1 .. Len(txBuffer')} = {txBuffer[k] : k \in 1 .. Len(txBuffer)}
    BY <2>1, <2>2
  <2>4. (since' + 1 .. out') \ refused' = (since + 1 .. out) \ refused
    BY <1>1, <1>7, <2>1
  <2>5. TxTypeOK'
    BY <1>1, <1>7, <1>8, <2>1 DEF TxTypeOK
  <2> QED
    BY <1>2, <1>8, <2>3, <2>4, <2>5 DEF TxInv, TransmissionIsExact
<1>10. CASE b # 0
  <2>1. b \in 1 .. Len(txBuffer) /\ since' = txBuffer[b] /\ since' \in since + 1 .. out
    BY <1>1, <1>3, <1>5, <1>6, <1>10
  <2>2. TxTypeOK'
    <3>1. Len(txBuffer') <= BufferLength
      BY <1>1, <1>8, <2>1
    <3>2. since' \in 0 .. out'
      BY <1>1, <2>1
    <3>3. refused' \in SUBSET (1 .. out')
      BY <1>1, <1>7
    <3> QED
      BY <1>1, <1>8, <3>1, <3>2, <3>3 DEF TxTypeOK
  <2>3. ASSUME NEW x \in {txBuffer'[k] : k \in 1 .. Len(txBuffer')}
        PROVE  x \in (since' + 1 .. out') \ refused'
    <3>1. PICK k \in 1 .. Len(txBuffer') : x = txBuffer'[k]
      BY <2>3
    <3>2. b + k \in 1 .. Len(txBuffer) /\ b < b + k /\ x = txBuffer[b + k]
      BY <1>1, <1>8, <2>1, <3>1
    <3>3. since' < x
      BY <1>4, <2>1, <3>2 DEF Increasing
    <3>4. x \in (since + 1 .. out) \ refused
      BY <1>2, <3>2
    <3> QED
      BY <1>1, <1>7, <2>1, <3>3, <3>4
  <2>4. ASSUME NEW x \in (since' + 1 .. out') \ refused'
        PROVE  x \in {txBuffer'[k] : k \in 1 .. Len(txBuffer')}
    <3>1. x \in (since + 1 .. out) \ refused /\ x > since'
      BY <1>1, <1>7, <2>1, <2>4
    <3>2. PICK j \in 1 .. Len(txBuffer) : x = txBuffer[j]
      BY <1>2, <3>1
    <3>3. j > b
      <4>1. CASE j = b
        BY <1>1, <2>1, <3>1, <3>2, <4>1
      <4>2. CASE j < b
        <5>1. x < since'
          BY <1>4, <2>1, <3>2, <4>2 DEF Increasing
        <5> QED
          BY <1>1, <2>1, <3>1, <5>1
      <4> QED
        BY <1>1, <2>1, <3>2, <4>1, <4>2
    <3>4. j - b \in 1 .. Len(txBuffer') /\ b + (j - b) = j
      BY <1>1, <1>8, <2>1, <3>2, <3>3
    <3>5. txBuffer'[j - b] = x
      BY <1>8, <3>2, <3>4
    <3> QED
      BY <3>4, <3>5
  <2> QED
    BY <1>8, <2>2, <2>3, <2>4 DEF TxInv, TransmissionIsExact
<1> QED
  BY <1>9, <1>10

-----------------------------------------------------------------------------
(* The steps on the way in.                                                *)

LEMMA RxFacts ==
  ASSUME RxInv
  PROVE  /\ rxBuffer \in Seq(Nat) /\ Len(rxBuffer) \in Nat /\ Len(rxBuffer) <= BufferLength
         /\ \A k \in 1 .. Len(rxBuffer) : rxBuffer[k] \in Nat
         /\ in \in 0 .. MaxIn /\ numBytes \in 0 .. BufferLength /\ i \in Nat
         /\ free \in 0 .. BufferLength /\ stored \in 0 .. BufferLength
         /\ MaxIn \in Nat /\ BufferLength \in Nat \ {0}
         /\ IndexModulus \in Nat /\ IndexModulus >= 2 /\ BufferLength <= IndexModulus
BY WireAssumption, LenProperties, ElementOfSeq DEF RxInv, RxTypeOK

\* requestFrom(): the next bytes behind what rxBuffer holds.
LEMMA RequestRx ==
  ASSUME RxInv, NEW quantity \in 0 .. BufferLength + 1, RequestFrom(quantity)
  PROVE  RxInv'
<1>1. service # "store" /\ UNCHANGED <<service, numBytes, i, free, stored>>
  BY DEF RequestFrom, SketchRuns, loopVars
<1>2. CASE UNCHANGED <<in, rxBuffer>>
  BY <1>1, <1>2, RxFrame DEF rxVars, loopVars
<1>3. CASE ~UNCHANGED <<in, rxBuffer>>
  <2>1. PICK n \in Nat : n = Min2(quantity, BufferLength)
    BY WireAssumption DEF Min2
  <2>2. in + n <= MaxIn /\ StoreNext(n) /\ in' = in + n
    BY <1>3, <2>1 DEF RequestFrom
  <2>3. PICK m \in Nat : m = Min2(n, BufferLength - Len(rxBuffer))
    BY RxFacts DEF Min2
  <2>4. m <= n /\ m <= BufferLength - Len(rxBuffer)
    BY <2>3, RxFacts DEF Min2
  <2>5. rxBuffer' = rxBuffer \o [k \in 1 .. m |-> in + k]
    BY <2>2, <2>3 DEF StoreNext
  <2>6. Increasing(rxBuffer) /\ in \in Nat /\ \A k \in 1 .. Len(rxBuffer) : rxBuffer[k] <= in
    BY <1>1, RxFacts DEF RxInv, InOrder, Received
  <2>7. /\ rxBuffer' \in Seq(Nat) /\ Len(rxBuffer') = Len(rxBuffer) + m
        /\ Increasing(rxBuffer') /\ \A k \in 1 .. Len(rxBuffer') : rxBuffer'[k] <= in + m
    BY <2>5, <2>6, RxFacts, IncreasingConcat
  <2>8. RxTypeOK'
    BY <1>1, <2>2, <2>4, <2>7, RxFacts DEF RxTypeOK
  <2>9. LoopInvariant'
    BY <1>1 DEF RxInv, LoopInvariant, StoredIsHalf, Stored
  <2>10. InOrder'
    <3>1. Received' = in + n
      BY <1>1, <2>2 DEF Received
    <3>2. rxBuffer' \in Seq(Nat) /\ \A k \in 1 .. Len(rxBuffer') : rxBuffer'[k] \in Nat
      BY <2>7, ElementOfSeq
    <3>3. \A k \in 1 .. Len(rxBuffer') : rxBuffer'[k] <= in + n
      BY <2>4, <2>6, <2>7, <3>2
    <3> QED
      BY <2>7, <3>1, <3>3 DEF InOrder
  <2> QED
    BY <2>8, <2>9, <2>10 DEF RxInv
<1> QED
  BY <1>2, <1>3

LEMMA ReadRx ==
  ASSUME RxInv, Read
  PROVE  RxInv'
<1>1. /\ service # "store" /\ UNCHANGED <<service, in, numBytes, i, free, stored>>
      /\ rxBuffer # <<>> /\ rxBuffer' = Tail(rxBuffer)
  BY DEF Read, SketchRuns, loopVars
<1>2. Len(rxBuffer) \in Nat \ {0}
  BY <1>1, RxFacts, EmptySeq
<1>3. /\ rxBuffer' \in Seq(Nat) /\ Len(rxBuffer') = Len(rxBuffer) - 1
      /\ \A k \in 1 .. Len(rxBuffer') : rxBuffer'[k] = rxBuffer[k + 1]
  BY <1>1, <1>2, RxFacts, HeadTailProperties
<1>4. RxTypeOK'
  BY <1>1, <1>2, <1>3, RxFacts DEF RxTypeOK
<1>5. LoopInvariant'
  BY <1>1 DEF RxInv, LoopInvariant, StoredIsHalf, Stored
<1>6. InOrder'
  <2>1. Received' = Received
    BY <1>1 DEF Received
  <2>2. \A k \in 1 .. Len(rxBuffer') : k + 1 \in 1 .. Len(rxBuffer)
    BY <1>2, <1>3
  <2>3. Increasing(rxBuffer')
    <3> SUFFICES ASSUME NEW j \in 1 .. Len(rxBuffer'), NEW k \in 1 .. Len(rxBuffer'), j < k
                 PROVE  rxBuffer'[j] < rxBuffer'[k]
      BY DEF Increasing
    <3>1. j + 1 \in 1 .. Len(rxBuffer) /\ k + 1 \in 1 .. Len(rxBuffer) /\ j + 1 < k + 1
      BY <1>2, <1>3
    <3> QED
      BY <1>3, <3>1 DEF RxInv, InOrder, Increasing
  <2> QED
    BY <1>3, <2>1, <2>2, <2>3 DEF RxInv, InOrder
<1> QED
  BY <1>4, <1>5, <1>6 DEF RxInv

LEMMA OnReceiveRx ==
  ASSUME RxInv, OnReceive
  PROVE  RxInv'
<1>1. /\ service = "none" /\ service' = "store" /\ rxBuffer' = rxBuffer
      /\ in' <= MaxIn /\ i' = 0 /\ stored' = 0 /\ free' = BufferLength - Len(rxBuffer)
  BY DEF OnReceive
<1>2. numBytes' \in 0 .. BufferLength /\ in' = in + numBytes'
  BY RxFacts DEF OnReceive, Min2
<1>3. RxTypeOK'
  BY <1>1, <1>2, RxFacts DEF RxTypeOK
<1>4. LoopInvariant'
  BY <1>1, <1>2, RxFacts DEF LoopInvariant, StoredIsHalf
<1>5. InOrder'
  <2>1. Received = in /\ Received' = in
    BY <1>1, <1>2, RxFacts DEF Received
  <2> QED
    BY <1>1, <2>1 DEF RxInv, InOrder, Increasing
<1> QED
  BY <1>3, <1>4, <1>5 DEF RxInv

\* A turn of the loop: the index is still small enough not to wrap around.
LEMMA StoreByteRx ==
  ASSUME RxInv, StoreByte
  PROVE  RxInv'
<1>1. /\ service = "store" /\ i < numBytes /\ i < BufferLength - Len(rxBuffer)
      /\ rxBuffer' = Append(rxBuffer, in - numBytes + i + 1)
      /\ stored' = stored + 1 /\ i' = (i + 1) % IndexModulus
      /\ UNCHANGED <<service, in, numBytes, free>>
  BY DEF StoreByte
<1>2. /\ i = stored /\ stored <= numBytes /\ 2 * stored <= free + 1
      /\ Len(rxBuffer) = BufferLength - free + stored /\ numBytes <= in
  BY <1>1 DEF RxInv, LoopInvariant
<1>0. /\ rxBuffer \in Seq(Nat) /\ Len(rxBuffer) \in Nat /\ Len(rxBuffer) <= BufferLength
      /\ \A k \in 1 .. Len(rxBuffer) : rxBuffer[k] \in Nat
      /\ in \in Nat /\ numBytes \in 0 .. BufferLength /\ i \in Nat
      /\ free \in 0 .. BufferLength /\ stored \in 0 .. BufferLength
      /\ BufferLength \in Nat \ {0}
      /\ IndexModulus \in Nat \ {0} /\ IndexModulus >= 2 /\ BufferLength <= IndexModulus
  BY RxFacts
<1>3. 2 * i < free /\ i + 1 \in 0 .. IndexModulus - 1
  <2>1. i \in Nat /\ free \in Nat /\ BufferLength \in Nat /\ IndexModulus \in Nat
    BY <1>0
  <2>2. Len(rxBuffer) = BufferLength - free + i
    BY <1>2
  <2>3. 2 * i < free
    BY <1>0, <1>1, <2>1, <2>2
  <2>4. free <= IndexModulus /\ IndexModulus >= 2
    BY <1>0, <2>1
  <2> QED
    BY <2>1, <2>3, <2>4
<1>4. i' = i + 1
  <2>1. PICK m \in Nat \ {0} : m = IndexModulus
    BY <1>0
  <2>2. PICK x \in 0 .. m - 1 : x = i + 1
    BY <1>3, <2>1
  <2>3. x % m = x
    BY Z3
  <2> QED
    BY <1>1, <2>1, <2>2, <2>3
<1>5. PICK next \in Nat : next = in - numBytes + i + 1
  BY <1>0, <1>2
<1>6. Increasing(rxBuffer) /\ \A k \in 1 .. Len(rxBuffer) : rxBuffer[k] < next
  <2>1. Received = in - numBytes + i
    BY <1>1 DEF Received
  <2>2. Increasing(rxBuffer) /\ \A k \in 1 .. Len(rxBuffer) : rxBuffer[k] <= in - numBytes + i
    BY <2>1 DEF RxInv, InOrder
  <2>3. in \in Nat /\ numBytes \in Nat /\ i \in Nat
    BY <1>0
  <2> QED
    BY <1>0, <1>5, <2>2, <2>3
<1>7. /\ rxBuffer' \in Seq(Nat) /\ Len(rxBuffer') = Len(rxBuffer) + 1
      /\ \A k \in 1 .. Len(rxBuffer) : rxBuffer'[k] = rxBuffer[k]
      /\ rxBuffer'[Len(rxBuffer) + 1] = next
      /\ Increasing(rxBuffer')
  BY <1>0, <1>1, <1>5, <1>6, IncreasingAppend
<1>8. RxTypeOK'
  <2>1. Len(rxBuffer') <= BufferLength /\ stored' \in 0 .. BufferLength
    BY <1>0, <1>1, <1>2, <1>7
  <2>2. i' \in Nat
    BY <1>0, <1>4
  <2>3. in \in 0 .. MaxIn
    BY RxFacts
  <2> QED
    BY <1>0, <1>1, <1>7, <2>1, <2>2, <2>3 DEF RxTypeOK
<1>9. LoopInvariant'
  <2>1. i' = stored' /\ stored' <= numBytes' /\ 2 * stored' <= free' + 1
    BY <1>0, <1>1, <1>2, <1>3, <1>4
  <2>2. Len(rxBuffer') = BufferLength - free' + stored' /\ numBytes' <= in'
    BY <1>0, <1>1, <1>2, <1>7
  <2> QED
    BY <1>1, <2>1, <2>2 DEF LoopInvariant, StoredIsHalf
<1>10. InOrder'
  <2>1. Received' = next
    <3>1. Received' = in - numBytes + (i + 1)
      BY <1>1, <1>4 DEF Received
    <3> QED
      BY <1>0, <1>5, <3>1
  <2>2. \A k \in 1 .. Len(rxBuffer') : rxBuffer'[k] <= next
    <3> SUFFICES ASSUME NEW k \in 1 .. Len(rxBuffer')
                 PROVE  rxBuffer'[k] <= next
      OBVIOUS
    <3>1. CASE k \in 1 .. Len(rxBuffer)
      <4>1. rxBuffer'[k] = rxBuffer[k] /\ rxBuffer[k] \in Nat /\ rxBuffer[k] < next
        BY <1>0, <1>6, <1>7, <3>1
      <4> QED
        BY <4>1
    <3>2. CASE k = Len(rxBuffer) + 1
      BY <1>7, <3>2
    <3> QED
      BY <1>0, <1>7, <3>1, <3>2
  <2> QED
    BY <1>7, <2>1, <2>2 DEF InOrder
<1> QED
  BY <1>8, <1>9, <1>10 DEF RxInv

\* The end of the loop: what is stored is all, or half of the free part.
LEMMA LeaveLoopRx ==
  ASSUME RxInv, LeaveLoop
  PROVE  RxInv'
<1>1. /\ service = "store" /\ service' = "told"
      /\ i >= numBytes \/ i >= BufferLength - Len(rxBuffer)
      /\ UNCHANGED <<rxBuffer, in, numBytes, i, free, stored>>
  BY DEF LeaveLoop, rxVars, loopVars
<1>2. /\ i = stored /\ stored <= numBytes /\ 2 * stored <= free + 1
      /\ Len(rxBuffer) = BufferLength - free + stored /\ numBytes <= in
  BY <1>1 DEF RxInv, LoopInvariant
<1>3. stored = Stored(numBytes, free)
  <2>1. CASE 2 * numBytes <= free + 1
    BY <1>1, <1>2, <2>1, RxFacts DEF Stored
  <2>2. CASE 2 * numBytes > free + 1
    <3>1. 2 * stored >= free /\ 2 * stored <= free + 1
      BY <1>1, <1>2, <2>2, RxFacts
    <3>2. PICK s \in Nat, f \in Nat : s = stored /\ f = free
      BY RxFacts
    <3>3. 2 * s >= f /\ 2 * s <= f + 1
      BY <3>1, <3>2
    <3>4. (f + 1) \div 2 = s
      BY <3>3, Z3
    <3> QED
      BY <2>2, <3>2, <3>4, RxFacts DEF Stored
  <2> QED
    BY <2>1, <2>2, RxFacts
<1>4. RxTypeOK'
  BY <1>1 DEF RxInv, RxTypeOK
<1>5. LoopInvariant'
  BY <1>1, <1>3 DEF LoopInvariant, StoredIsHalf, Stored
<1>6. InOrder'
  <2>1. Received \in Int /\ Received' \in Int /\ Received <= Received'
    BY <1>1, <1>2, RxFacts DEF Received
  <2> QED
    BY <1>1, <2>1, RxFacts DEF RxInv, InOrder, Increasing
<1> QED
  BY <1>4, <1>5, <1>6 DEF RxInv

-----------------------------------------------------------------------------
(* Every step.                                                             *)

LEMMA ModeStep ==
  ASSUME ModeTypeOK, [Next]_vars
  PROVE  ModeTypeOK'
<1>1. CASE \E r \in Roles, a \in Addresses : Begin(r, a)
  <2>1. PICK r \in Roles, a \in Addresses : Begin(r, a)
    BY <1>1
  <2>2. r \in {"master", "slave"}
    BY WireAssumption
  <2> QED
    BY <2>1, <2>2 DEF Begin, ModeTypeOK
<1>2. CASE End
  BY <1>2 DEF End, ModeTypeOK
<1>3. CASE SetClock
  BY <1>3 DEF SetClock, ModeTypeOK
<1>4. CASE \E a \in Addresses : BeginTransmission(a)
  BY <1>4 DEF BeginTransmission, ModeTypeOK
<1>5. CASE Write \/ EndTransmission \/ Read
           \/ \E quantity \in 0 .. BufferLength + 1 : RequestFrom(quantity)
  BY <1>5 DEF Write, EndTransmission, Read, RequestFrom, ModeTypeOK, modeVars
<1>6. CASE Interrupt
  BY <1>6 DEF Interrupt, OnReceive, StoreByte, LeaveLoop, ReceiveDone, OnRequest, Respond,
              ModeTypeOK, modeVars
<1>7. CASE UNCHANGED vars
  BY <1>7 DEF vars, modeVars, ModeTypeOK
<1> QED
  BY <1>1, <1>2, <1>3, <1>4, <1>5, <1>6, <1>7 DEF Next

LEMMA RxStep ==
  ASSUME RxInv, [Next]_vars
  PROVE  RxInv'
<1>1. CASE \/ (\E r \in Roles, a \in Addresses : Begin(r, a)) \/ End \/ SetClock
           \/ (\E a \in Addresses : BeginTransmission(a)) \/ Write \/ EndTransmission
  <2>1. UNCHANGED rxVars /\ service' = service
    BY <1>1 DEF Begin, End, SetClock, BeginTransmission, Write, EndTransmission
  <2> QED
    BY <2>1, RxFrame
<1>2. CASE \E quantity \in 0 .. BufferLength + 1 : RequestFrom(quantity)
  BY <1>2, RequestRx
<1>3. CASE Read
  BY <1>3, ReadRx
<1>4. CASE OnReceive
  BY <1>4, OnReceiveRx
<1>5. CASE StoreByte
  BY <1>5, StoreByteRx
<1>6. CASE LeaveLoop
  BY <1>6, LeaveLoopRx
<1>7. CASE ReceiveDone \/ OnRequest \/ Respond
  <2>1. UNCHANGED rxVars /\ service # "store" /\ service' \notin {"store", "told"}
    BY <1>7 DEF ReceiveDone, OnRequest, Respond
  <2> QED
    BY <2>1, RxFrame
<1>8. CASE UNCHANGED vars
  <2>1. UNCHANGED rxVars /\ service' = service
    BY <1>8 DEF vars
  <2> QED
    BY <2>1, RxFrame
<1> QED
  BY <1>1, <1>2, <1>3, <1>4, <1>5, <1>6, <1>7, <1>8 DEF Next, Interrupt

LEMMA TxStep ==
  ASSUME TxInv, [Next]_vars
  PROVE  TxInv'
<1>1. CASE (\E a \in Addresses : BeginTransmission(a)) \/ EndTransmission
  BY <1>1, ClearTx DEF BeginTransmission, EndTransmission
<1>2. CASE Write
  BY <1>2, WriteTx
<1>3. CASE Respond
  BY <1>3, RespondTx
<1>4. CASE \/ (\E r \in Roles, a \in Addresses : Begin(r, a)) \/ End \/ SetClock
           \/ (\E quantity \in 0 .. BufferLength + 1 : RequestFrom(quantity)) \/ Read
           \/ OnReceive \/ StoreByte \/ LeaveLoop \/ ReceiveDone \/ OnRequest
           \/ UNCHANGED vars
  <2>1. UNCHANGED txVars
    BY <1>4 DEF Begin, End, SetClock, RequestFrom, Read, OnReceive, StoreByte, LeaveLoop,
                ReceiveDone, OnRequest, vars
  <2> QED
    BY <2>1, TxFrame
<1> QED
  BY <1>1, <1>2, <1>3, <1>4 DEF Next, Interrupt

THEOREM Invariance == Spec => []IInv
<1>1. IInv /\ [Next]_vars => IInv'
  BY ModeStep, RxStep, TxStep DEF IInv
<1> QED
  BY <1>1, InitIInv, PTL DEF Spec

-----------------------------------------------------------------------------
(* The properties.                                                         *)

\* Neither ring is ever overfull, and every variable keeps its type.
THEOREM Typing == Spec => []TypeOK
<1>1. IInv => TypeOK
  BY DEF IInv, RxInv, TxInv, TypeOK
<1> QED
  BY <1>1, Invariance, PTL

\* What comes in is read in order, without doubles.
THEOREM Order == Spec => []InOrder
<1>1. IInv => InOrder
  BY DEF IInv, RxInv
<1> QED
  BY <1>1, Invariance, PTL

\* A transmission carries exactly what write() has accepted for it.
THEOREM Exactness == Spec => []TransmissionIsExact
<1>1. IInv => TransmissionIsExact
  BY DEF IInv, TxInv
<1> QED
  BY <1>1, Invariance, PTL

\* What onReceiveService()'s loop stores, in closed form.
THEOREM ClosedForm == Spec => []StoredIsHalf
<1>1. IInv => StoredIsHalf
  BY DEF IInv, RxInv, LoopInvariant
<1> QED
  BY <1>1, Invariance, PTL

=============================================================================
