--------------------------- MODULE SocketRx_proofs --------------------------
(***************************************************************************)
(* Proofs about the receive path of a Socket: for every size of the ring,  *)
(* every length of the stream and every interleaving of the worker with    *)
(* the sketch no byte is lost between the stack and the sketch.            *)
(***************************************************************************)
EXTENDS SocketRx, SequenceTheorems, TLAPS

\* The first byte of a piece of the stream, and the piece that remains.
LEMMA FollowsTail ==
  ASSUME NEW S, NEW seq \in Seq(S), seq # <<>>, NEW n \in Int, Follows(seq, n)
  PROVE  /\ Head(seq) \in S /\ Head(seq) = n + 1
         /\ Tail(seq) \in Seq(S)
         /\ Len(seq) \in Nat \ {0} /\ Len(Tail(seq)) = Len(seq) - 1
         /\ Follows(Tail(seq), n + 1)
<1>1. Len(seq) \in Nat \ {0}
  BY EmptySeq
<1>2. /\ Head(seq) \in S
      /\ Tail(seq) \in Seq(S)
      /\ Len(Tail(seq)) = Len(seq) - 1
      /\ \A i \in 1 .. Len(Tail(seq)) : Tail(seq)[i] = seq[i + 1]
  BY HeadTailProperties
<1>3. Head(seq) = seq[1]
  OBVIOUS
<1>4. Follows(Tail(seq), n + 1)
  <2>1. SUFFICES ASSUME NEW i \in 1 .. Len(seq) - 1
                 PROVE  Tail(seq)[i] = n + 1 + i
    BY <1>2 DEF Follows
  <2>2. i + 1 \in 1 .. Len(seq) /\ Tail(seq)[i] = seq[i + 1]
    BY <1>1, <1>2, <2>1
  <2>3. seq[i + 1] = n + (i + 1)
    BY <2>2 DEF Follows
  <2> QED
    BY <2>2, <2>3
<1> QED
  BY <1>1, <1>2, <1>3, <1>4 DEF Follows

\* A piece of the stream, with the next byte appended.
LEMMA FollowsAppend ==
  ASSUME NEW S, NEW seq \in Seq(S), NEW n \in Int, Follows(seq, n),
         NEW x \in S, x = n + Len(seq) + 1
  PROVE  /\ Append(seq, x) \in Seq(S)
         /\ Len(seq) \in Nat /\ Len(Append(seq, x)) = Len(seq) + 1
         /\ Follows(Append(seq, x), n)
<1>1. /\ Append(seq, x) \in Seq(S)
      /\ Len(seq) \in Nat /\ Len(Append(seq, x)) = Len(seq) + 1
      /\ \A i \in 1 .. Len(seq) : Append(seq, x)[i] = seq[i]
      /\ Append(seq, x)[Len(seq) + 1] = x
  BY AppendProperties, LenProperties
<1>2. ASSUME NEW i \in 1 .. Len(seq) + 1
      PROVE  Append(seq, x)[i] = n + i
  BY <1>1, <1>2 DEF Follows
<1> QED
  BY <1>1, <1>2 DEF Follows

\* A piece of the stream, cut in two.
LEMMA FollowsCut ==
  ASSUME NEW seq \in Seq(1 .. StreamLen), NEW n \in Int, Follows(seq, n),
         NEW k \in 0 .. Len(seq)
  PROVE  /\ SubSeq(seq, 1, k) \in Seq(1 .. StreamLen)
         /\ SubSeq(seq, k + 1, Len(seq)) \in Seq(1 .. StreamLen)
         /\ Len(SubSeq(seq, 1, k)) = k
         /\ Len(SubSeq(seq, k + 1, Len(seq))) = Len(seq) - k
         /\ Follows(SubSeq(seq, 1, k), n)
         /\ Follows(SubSeq(seq, k + 1, Len(seq)), n + k)
<1>1. Len(seq) \in Nat /\ \A i \in 1 .. Len(seq) : seq[i] \in 1 .. StreamLen
  BY LenProperties, ElementOfSeq
<1>2. /\ SubSeq(seq, 1, k) \in Seq(1 .. StreamLen)
      /\ Len(SubSeq(seq, 1, k)) = IF 1 <= k THEN k - 1 + 1 ELSE 0
      /\ \A i \in 1 .. k - 1 + 1 : SubSeq(seq, 1, k)[i] = seq[1 + i - 1]
  <2>1. \A i \in 1 .. k : seq[i] \in 1 .. StreamLen
    BY <1>1
  <2> QED
    BY <1>1, <2>1, SubSeqProperties
<1>3. /\ SubSeq(seq, k + 1, Len(seq)) \in Seq(1 .. StreamLen)
      /\ Len(SubSeq(seq, k + 1, Len(seq))) =
           IF k + 1 <= Len(seq) THEN Len(seq) - (k + 1) + 1 ELSE 0
      /\ \A i \in 1 .. Len(seq) - (k + 1) + 1 :
           SubSeq(seq, k + 1, Len(seq))[i] = seq[k + 1 + i - 1]
  <2>1. \A i \in k + 1 .. Len(seq) : seq[i] \in 1 .. StreamLen
    BY <1>1
  <2> QED
    BY <1>1, <2>1, SubSeqProperties
<1>4. Follows(SubSeq(seq, 1, k), n)
  BY <1>1, <1>2 DEF Follows
<1>5. Follows(SubSeq(seq, k + 1, Len(seq)), n + k)
  BY <1>1, <1>3 DEF Follows
<1> QED
  BY <1>1, <1>2, <1>3, <1>4, <1>5

\* New bytes of the stream, behind those the stack holds.
LEMMA FollowsConcat ==
  ASSUME NEW seq \in Seq(1 .. StreamLen), NEW n \in Int, Follows(seq, n),
         NEW from \in Nat, from = n + Len(seq), NEW to \in from + 1 .. StreamLen
  PROVE  /\ seq \o Bytes(from, to) \in Seq(1 .. StreamLen)
         /\ Len(seq) \in Nat
         /\ Len(seq \o Bytes(from, to)) = Len(seq) + to - from
         /\ Follows(seq \o Bytes(from, to), n)
<1> DEFINE new == Bytes(from, to)
<1>1. new \in Seq(1 .. StreamLen) /\ Len(new) = to - from
  BY SocketRxAssumption DEF Bytes
<1>2. /\ seq \o new \in Seq(1 .. StreamLen)
      /\ Len(seq) \in Nat
      /\ Len(seq \o new) = Len(seq) + Len(new)
      /\ \A i \in 1 .. Len(seq) + Len(new) :
           (seq \o new)[i] = IF i <= Len(seq) THEN seq[i] ELSE new[i - Len(seq)]
  BY <1>1, ConcatProperties, LenProperties
<1>3. ASSUME NEW i \in 1 .. Len(seq) + (to - from)
      PROVE  (seq \o new)[i] = n + i
  <2>1. CASE i <= Len(seq)
    BY <1>1, <1>2, <2>1 DEF Follows
  <2>2. CASE i > Len(seq)
    <3>1. i - Len(seq) \in 1 .. to - from
      BY <1>2, <2>2
    <3>2. new[i - Len(seq)] = from + (i - Len(seq))
      BY <3>1 DEF Bytes
    <3> QED
      BY <1>1, <1>2, <2>2, <3>2
  <2> QED
    BY <1>1, <1>2, <2>1, <2>2
<1> QED
  BY <1>1, <1>2, <1>3 DEF Follows

-----------------------------------------------------------------------------
(* The inductive invariant.                                                *)

LEMMA InitIInv == Init => IInv
<1> SUFFICES ASSUME Init
             PROVE  IInv
  OBVIOUS
<1>1. \A S : <<>> \in Seq(S) /\ Len(<<>>) = 0
  BY EmptySeq
<1>2. TypeOK
  BY <1>1, SocketRxAssumption DEF Init, TypeOK
<1>3. ChunkFits /\ NoByteLost /\ ReceiveIsBacked
  BY <1>1 DEF Init, ChunkFits, NoByteLost, ReceiveIsBacked, Follows
<1> QED
  BY <1>2, <1>3 DEF Init, IInv

\* The facts about the lengths every step needs.
LEMMA Lengths ==
  ASSUME TypeOK
  PROVE  /\ Len(rxBuf) \in 0 .. RxBufferSize
         /\ Len(chunk) \in Nat /\ Len(wire) \in Nat /\ Len(data) \in Nat
         /\ RxBufferSize \in Nat \ {0} /\ StreamLen \in Nat /\ ReadLens \subseteq Nat
         /\ chunk = <<>> <=> Len(chunk) = 0
         /\ wire = <<>> <=> Len(wire) = 0
         /\ rxBuf = <<>> <=> Len(rxBuf) = 0
BY SocketRxAssumption, EmptySeq DEF TypeOK

LEMMA ArriveStep ==
  ASSUME IInv, Arrive
  PROVE  IInv'
<1>1. PICK to \in arrived + 1 .. StreamLen :
        arrived' = to /\ wire' = wire \o Bytes(arrived, to)
  BY DEF Arrive
<1>2. /\ wire \in Seq(1 .. StreamLen) /\ arrived \in Nat
      /\ Len(rxBuf) \in Nat /\ Len(chunk) \in Nat /\ taken \in Nat
  BY Lengths DEF IInv, TypeOK
<1>3. /\ wire' \in Seq(1 .. StreamLen)
      /\ Len(wire') = Len(wire) + to - arrived
      /\ Follows(wire', taken + Len(rxBuf) + Len(chunk))
      /\ Len(wire) \in Nat
  <2> DEFINE n == taken + Len(rxBuf) + Len(chunk)
  <2>1. n \in Int /\ arrived = n + Len(wire) /\ Follows(wire, n)
    BY <1>2, Lengths DEF IInv, NoByteLost
  <2> QED
    BY <1>1, <1>2, <2>1, FollowsConcat
<1>4. TypeOK'
  <2>1. arrived' \in 0 .. StreamLen
    BY <1>1, <1>2, SocketRxAssumption
  <2>2. events' \in Nat
    BY DEF Arrive, IInv, TypeOK
  <2> QED
    BY <1>3, <2>1, <2>2 DEF Arrive, IInv, TypeOK, workerVars, sketchVars
<1>5. ChunkFits' /\ ReceiveIsBacked'
  BY DEF Arrive, IInv, ChunkFits, ReceiveIsBacked, workerVars, sketchVars
<1>6. NoByteLost'
  <2>1. arrived' = taken' + Len(rxBuf') + Len(chunk') + Len(wire')
    BY <1>1, <1>2, <1>3 DEF Arrive, IInv, NoByteLost, workerVars, sketchVars
  <2> QED
    BY <1>3, <2>1 DEF Arrive, IInv, NoByteLost, Follows, workerVars, sketchVars
<1>7. events' # 0
  BY DEF Arrive, IInv, TypeOK
<1> QED
  BY <1>4, <1>5, <1>6, <1>7 DEF IInv, Arrive, sketchVars

LEMMA CallbackStep ==
  ASSUME IInv, CallbackFull \/ CallbackStart \/ RecvFails
  PROVE  IInv'
<1>1. /\ Len(rxBuf) \in 0 .. RxBufferSize /\ RxBufferSize \in Nat
      /\ events \in Nat
  BY Lengths DEF IInv, TypeOK
<1>2. UNCHANGED <<arrived, wire, chunk, rxBuf, sketchVars>>
  BY DEF CallbackFull, CallbackStart, RecvFails, stackVars
<1>3. CASE CallbackFull
  <2>1. TypeOK'
    BY <1>1, <1>2, <1>3 DEF IInv, TypeOK, CallbackFull, sketchVars
  <2>2. ChunkFits'
    BY <1>3 DEF IInv, ChunkFits, CallbackFull
  <2> QED
    BY <1>2, <1>3, <2>1, <2>2 DEF IInv, NoByteLost, ReceiveIsBacked, Follows,
       CallbackFull, sketchVars
<1>4. CASE CallbackStart
  <2>1. request' \in 1 .. RxBufferSize - Len(rxBuf) /\ room' = request'
    BY <1>1, <1>4 DEF CallbackStart
  <2>2. events' \in Nat /\ room' \in 0 .. RxBufferSize /\ 0 \in 0 .. room'
    BY <1>1, <1>4 DEF CallbackStart
  <2>3. TypeOK'
    BY <1>1, <1>2, <1>4, <2>1, <2>2 DEF IInv, TypeOK, CallbackStart, sketchVars
  <2>4. ChunkFits'
    BY <1>2, <1>4, <2>1 DEF IInv, ChunkFits, CallbackStart
  <2> QED
    BY <1>2, <1>4, <2>3, <2>4 DEF IInv, NoByteLost, ReceiveIsBacked, Follows,
       CallbackStart, sketchVars
<1>5. CASE RecvFails
  <2>1. TypeOK'
    BY <1>2, <1>5 DEF IInv, TypeOK, RecvFails, stackVars, sketchVars
  <2>2. ChunkFits'
    BY <1>2, <1>5 DEF IInv, ChunkFits, RecvFails
  <2> QED
    BY <1>2, <1>5, <2>1, <2>2 DEF IInv, NoByteLost, ReceiveIsBacked, Follows,
       RecvFails, stackVars, sketchVars
<1> QED
  BY <1>3, <1>4, <1>5

LEMMA RecvStep ==
  ASSUME IInv, Recv
  PROVE  IInv'
<1> DEFINE n == taken + Len(rxBuf)
<1>1. /\ n \in Nat /\ wire \in Seq(1 .. StreamLen)
      /\ Len(wire) \in Nat \ {0}
      /\ request = room /\ request \in 1 .. RxBufferSize - Len(rxBuf)
      /\ chunk = <<>> /\ Len(chunk) = 0
  BY Lengths DEF IInv, TypeOK, ChunkFits, Recv
<1>2. Follows(wire, n) /\ arrived = n + Len(wire)
  BY <1>1 DEF IInv, NoByteLost
<1>3. /\ got' \in 1 .. Len(wire) /\ got' \in 1 .. request
      /\ got' # request => got' = Len(wire)
  BY <1>1, Lengths DEF Recv, IInv, TypeOK
<1>4. PICK k \in 0 .. Len(wire) : k = got'
  BY <1>1, <1>3
<1>5. /\ chunk' = SubSeq(wire, 1, k)
      /\ wire' = SubSeq(wire, k + 1, Len(wire))
  BY <1>4 DEF Recv
<1>6. /\ chunk' \in Seq(1 .. StreamLen) /\ wire' \in Seq(1 .. StreamLen)
      /\ Len(chunk') = k /\ Len(wire') = Len(wire) - k
      /\ Follows(chunk', n) /\ Follows(wire', n + k)
  <2> HIDE DEF n
  <2>1. n \in Int
    BY <1>1
  <2>2. /\ SubSeq(wire, 1, k) \in Seq(1 .. StreamLen)
        /\ SubSeq(wire, k + 1, Len(wire)) \in Seq(1 .. StreamLen)
        /\ Len(SubSeq(wire, 1, k)) = k
        /\ Len(SubSeq(wire, k + 1, Len(wire))) = Len(wire) - k
        /\ Follows(SubSeq(wire, 1, k), n)
        /\ Follows(SubSeq(wire, k + 1, Len(wire)), n + k)
    BY <1>1, <1>2, <2>1, FollowsCut
  <2> QED
    BY <1>5, <2>2
<1>7. TypeOK'
  <2>1. got' \in 0 .. room' /\ UNCHANGED <<request, room, sketchVars>>
    BY <1>1, <1>3 DEF Recv
  <2> QED
    BY <1>6, <2>1 DEF IInv, TypeOK, Recv, sketchVars
<1>8. ChunkFits'
  <2>1. Len(chunk') \in 1 .. RxBufferSize - Len(rxBuf)
    BY <1>1, <1>3, <1>4, <1>6, Lengths DEF IInv
  <2> QED
    BY <2>1 DEF ChunkFits, Recv
<1>9. NoByteLost'
  <2>1. UNCHANGED <<arrived, rxBuf, sketchVars>>
    BY DEF Recv
  <2>2. arrived' = taken' + Len(rxBuf') + Len(chunk') + Len(wire')
    BY <1>1, <1>2, <1>4, <1>6, <2>1 DEF sketchVars
  <2> QED
    BY <1>6, <2>1, <2>2 DEF IInv, NoByteLost, Follows, sketchVars
<1>10. ReceiveIsBacked'
  BY DEF IInv, ReceiveIsBacked, Recv, sketchVars
<1>11. wire' # <<>> => got' = room'
  <2>1. wire' # <<>> => Len(wire') # 0
    BY <1>6, EmptySeq
  <2>2. got' = request \/ Len(wire') = 0
    BY <1>3, <1>4, <1>6
  <2> QED
    BY <1>1, <2>1, <2>2 DEF Recv
<1> QED
  BY <1>7, <1>8, <1>9, <1>10, <1>11 DEF IInv, Recv, sketchVars

LEMMA StoreStep ==
  ASSUME IInv, Store
  PROVE  IInv'
<1>1. /\ taken \in Nat /\ Len(rxBuf) \in Nat /\ Len(wire) \in Nat
      /\ rxBuf \in Seq(1 .. StreamLen) /\ chunk \in Seq(1 .. StreamLen)
      /\ Len(chunk) \in 1 .. RxBufferSize - Len(rxBuf) /\ chunk # <<>>
      /\ RxBufferSize \in Nat
  BY Lengths DEF IInv, TypeOK, ChunkFits, Store
<1>2. rxBuf' = Append(rxBuf, Head(chunk)) /\ chunk' = Tail(chunk)
  BY <1>1 DEF Store
<1> DEFINE n == taken + Len(rxBuf)
<1>3. /\ Head(chunk) \in 1 .. StreamLen /\ Head(chunk) = n + 1
      /\ chunk' \in Seq(1 .. StreamLen)
      /\ Len(chunk) \in Nat \ {0} /\ Len(chunk') = Len(chunk) - 1
      /\ Follows(chunk', n + 1)
  <2>1. n \in Int /\ Follows(chunk, n)
    BY <1>1 DEF IInv, NoByteLost
  <2> QED
    BY <1>1, <1>2, <2>1, FollowsTail
<1>4. /\ rxBuf' \in Seq(1 .. StreamLen)
      /\ Len(rxBuf') = Len(rxBuf) + 1
      /\ Follows(rxBuf', taken)
  BY <1>1, <1>2, <1>3, FollowsAppend DEF IInv, NoByteLost
<1>5. TypeOK'
  BY <1>1, <1>3, <1>4 DEF IInv, TypeOK, Store, stackVars, sketchVars
<1>6. ChunkFits'
  <2>1. wpc' = "store" => Len(chunk') \in 1 .. RxBufferSize - Len(rxBuf')
    BY <1>1, <1>3, <1>4 DEF Store
  <2>2. wpc' = "idle" => chunk' = <<>>
    BY <1>1, <1>3, EmptySeq DEF Store
  <2> QED
    BY <2>1, <2>2 DEF ChunkFits, Store
<1>7. NoByteLost'
  <2>1. UNCHANGED <<stackVars, sketchVars>>
    BY DEF Store
  <2>2. arrived' = taken' + Len(rxBuf') + Len(chunk') + Len(wire')
    BY <1>1, <1>3, <1>4, <2>1 DEF IInv, NoByteLost, stackVars, sketchVars
  <2>3. taken' + Len(rxBuf') = n + 1
    BY <1>1, <1>4, <2>1 DEF sketchVars
  <2>4. taken' + Len(rxBuf') + Len(chunk') = taken + Len(rxBuf) + Len(chunk)
    BY <1>1, <1>3, <1>4, <2>1 DEF sketchVars
  <2> QED
    BY <1>3, <1>4, <2>1, <2>2, <2>3, <2>4
    DEF IInv, NoByteLost, Follows, stackVars, sketchVars
<1>8. ReceiveIsBacked'
  BY <1>1, <1>4, Lengths DEF IInv, TypeOK, ReceiveIsBacked, Store, sketchVars
<1>9. wire' # <<>> /\ events' = 0 => got' = room'
  BY DEF IInv, Store, stackVars
<1> QED
  BY <1>5, <1>6, <1>7, <1>8, <1>9 DEF IInv, Store, sketchVars

LEMMA ReceiveCallStep ==
  ASSUME IInv, (\E l \in ReadLens : ReceiveBegin(l)) \/ ReceiveAvailable \/ ReceiveReturn
  PROVE  IInv'
<1>1. /\ Len(rxBuf) \in Nat /\ ReadLens \subseteq Nat
      /\ <<>> \in Seq({NoByte} \cup 1 .. StreamLen) /\ Len(<<>>) = 0
      /\ taken \in Nat /\ toRead \in Nat
  BY Lengths, EmptySeq DEF IInv, TypeOK
<1>2. UNCHANGED <<stackVars, workerVars, rxBuf, status, taken>>
  BY DEF ReceiveBegin, ReceiveAvailable, ReceiveReturn
<1>3. CASE \E l \in ReadLens : ReceiveBegin(l)
  <2>1. PICK l \in ReadLens : ReceiveBegin(l)
    BY <1>3
  <2>2. /\ len' = l /\ data' = <<>> /\ Len(data') = 0
        /\ \/ spc' = "copy" /\ toRead' = l /\ Len(rxBuf) > l
           \/ spc' = "available" /\ toRead' = toRead
    BY <1>1, <2>1 DEF ReceiveBegin
  <2>3. toRead' \in Nat /\ Len(data') <= toRead'
    BY <1>1, <2>2
  <2>4. TypeOK'
    BY <1>1, <1>2, <2>2, <2>3 DEF IInv, TypeOK, stackVars, workerVars
  <2>5. NoByteLost'
    BY <1>2, <2>2 DEF IInv, NoByteLost, Follows, stackVars, workerVars
  <2>6. ReceiveIsBacked'
    BY <1>1, <1>2, <2>2 DEF ReceiveIsBacked
  <2> QED
    BY <1>2, <2>2, <2>4, <2>5, <2>6 DEF IInv, ChunkFits, stackVars, workerVars
<1>4. CASE ReceiveAvailable
  <2>1. toRead' = Len(rxBuf) /\ UNCHANGED data /\ data = <<>> /\ Len(data') = 0
    BY <1>1, <1>4 DEF IInv, ReceiveAvailable
  <2>2. TypeOK'
    BY <1>1, <1>2, <1>4, <2>1 DEF IInv, TypeOK, ReceiveAvailable, stackVars, workerVars
  <2>3. NoByteLost'
    BY <1>2, <2>1 DEF IInv, NoByteLost, Follows, stackVars, workerVars
  <2>4. ReceiveIsBacked'
    BY <1>1, <1>2, <2>1 DEF ReceiveIsBacked
  <2> QED
    BY <1>2, <1>4, <2>2, <2>3, <2>4 DEF IInv, ChunkFits, ReceiveAvailable, stackVars,
       workerVars
<1>5. CASE ReceiveReturn
  BY <1>2, <1>5 DEF IInv, TypeOK, ChunkFits, NoByteLost, ReceiveIsBacked, Follows,
     ReceiveReturn, stackVars, workerVars
<1> QED
  BY <1>3, <1>4, <1>5

LEMMA ReceiveByteStep ==
  ASSUME IInv, ReceiveByte
  PROVE  IInv'
<1>1. /\ Len(data) \in Nat /\ toRead \in Nat /\ Len(data) < toRead
      /\ Len(rxBuf) \in Nat \ {0} /\ rxBuf # <<>> /\ rxBuf \in Seq(1 .. StreamLen)
      /\ taken \in Nat /\ RxBufferSize \in Nat /\ Len(rxBuf) <= RxBufferSize
      /\ Len(chunk) \in Nat /\ Len(wire) \in Nat
  BY Lengths DEF IInv, TypeOK, ReceiveIsBacked, ReceiveByte
<1>2. /\ rxBuf' = Tail(rxBuf) /\ taken' = taken + 1
      /\ data' = Append(data, Head(rxBuf))
      /\ UNCHANGED <<stackVars, workerVars, status, spc, len, toRead>>
      /\ spc = "copy"
  BY <1>1 DEF ReceiveByte
<1>3. /\ Head(rxBuf) \in 1 .. StreamLen /\ Head(rxBuf) = taken + 1
      /\ rxBuf' \in Seq(1 .. StreamLen) /\ Len(rxBuf') = Len(rxBuf) - 1
      /\ Follows(rxBuf', taken')
  <2>1. taken \in Int /\ Follows(rxBuf, taken)
    BY <1>1 DEF IInv, NoByteLost
  <2> QED
    BY <1>1, <1>2, <2>1, FollowsTail
<1>4. /\ data' \in Seq({NoByte} \cup 1 .. StreamLen)
      /\ Len(data') = Len(data) + 1
      /\ Follows(data', taken' - Len(data'))
  <2>1. /\ data \in Seq({NoByte} \cup 1 .. StreamLen)
        /\ Head(rxBuf) \in {NoByte} \cup 1 .. StreamLen
        /\ Follows(data, taken - Len(data)) /\ taken - Len(data) \in Int
        /\ Head(rxBuf) = (taken - Len(data)) + Len(data) + 1
    BY <1>1, <1>2, <1>3 DEF IInv, TypeOK, NoByteLost
  <2>2. /\ data' \in Seq({NoByte} \cup 1 .. StreamLen)
        /\ Len(data') = Len(data) + 1
        /\ Follows(data', taken - Len(data))
    BY <1>2, <2>1, FollowsAppend
  <2>3. taken' - Len(data') = taken - Len(data)
    BY <1>1, <1>2, <2>2
  <2> QED
    BY <2>2, <2>3
<1>5. TypeOK'
  <2>1. /\ taken' \in Nat /\ Len(data') <= toRead'
        /\ Len(rxBuf') <= RxBufferSize
    BY <1>1, <1>2, <1>3, <1>4
  <2> QED
    BY <1>2, <1>3, <1>4, <2>1 DEF IInv, TypeOK, stackVars, workerVars
<1>6. ChunkFits'
  <2>1. Len(rxBuf') <= Len(rxBuf)
    BY <1>1, <1>3
  <2> QED
    BY <1>1, <1>2, <1>3, <2>1 DEF IInv, TypeOK, ChunkFits, workerVars
<1>7. NoByteLost'
  <2>1. /\ taken' + Len(rxBuf') = taken + Len(rxBuf)
        /\ taken' + Len(rxBuf') + Len(chunk') = taken + Len(rxBuf) + Len(chunk)
        /\ taken' + Len(rxBuf') + Len(chunk') + Len(wire')
             = taken + Len(rxBuf) + Len(chunk) + Len(wire)
    BY <1>1, <1>2, <1>3 DEF stackVars, workerVars
  <2> QED
    BY <1>2, <1>3, <1>4, <2>1 DEF IInv, NoByteLost, stackVars, workerVars
<1>8. ReceiveIsBacked'
  BY <1>1, <1>2, <1>3, <1>4 DEF IInv, ReceiveIsBacked
<1> QED
  BY <1>2, <1>5, <1>6, <1>7, <1>8 DEF IInv, stackVars, workerVars

LEMMA FlushStep ==
  ASSUME IInv, Flush
  PROVE  IInv'
<1>1. /\ taken \in Nat /\ Len(rxBuf) \in 0 .. RxBufferSize
      /\ Len(chunk) \in Nat /\ Len(wire) \in Nat /\ RxBufferSize \in Nat
      /\ toRead \in Nat
  BY Lengths DEF IInv, TypeOK
<1>2. /\ taken' = taken + Len(rxBuf) /\ rxBuf' = <<>> /\ data' = <<>>
      /\ spc = "idle"
      /\ UNCHANGED <<stackVars, workerVars, status, spc, len, toRead>>
  BY DEF Flush
<1>3. \A S : <<>> \in Seq(S) /\ Len(<<>>) = 0
  BY EmptySeq
<1>4. Len(rxBuf') = 0 /\ Len(data') = 0 /\ taken' \in Nat
  BY <1>1, <1>2, <1>3
<1>5. TypeOK'
  BY <1>1, <1>2, <1>3, <1>4 DEF IInv, TypeOK, stackVars, workerVars
<1>6. ChunkFits'
  BY <1>1, <1>2, <1>4 DEF IInv, TypeOK, ChunkFits, workerVars
<1>7. NoByteLost'
  <2>1. taken' + Len(rxBuf') = taken + Len(rxBuf)
    BY <1>1, <1>2, <1>4
  <2>2. Follows(rxBuf', taken')
    BY <1>4 DEF Follows
  <2> QED
    BY <1>2, <2>1, <2>2 DEF IInv, NoByteLost, stackVars, workerVars
<1>8. ReceiveIsBacked'
  BY <1>2 DEF ReceiveIsBacked
<1> QED
  BY <1>2, <1>5, <1>6, <1>7, <1>8 DEF IInv, stackVars, workerVars

LEMMA StutterStep ==
  ASSUME IInv, UNCHANGED vars
  PROVE  IInv'
BY DEF IInv, TypeOK, ChunkFits, NoByteLost, ReceiveIsBacked, Follows, vars, stackVars,
   workerVars, sketchVars

THEOREM Invariance == Spec => []IInv
<1>1. IInv /\ [Next]_vars => IInv'
  <2> SUFFICES ASSUME IInv, [Next]_vars
               PROVE  IInv'
    OBVIOUS
  <2>1. CASE Arrive
    BY <2>1, ArriveStep
  <2>2. CASE CallbackFull \/ CallbackStart \/ RecvFails
    BY <2>2, CallbackStep
  <2>3. CASE Recv
    BY <2>3, RecvStep
  <2>4. CASE Store
    BY <2>4, StoreStep
  <2>5. CASE (\E l \in ReadLens : ReceiveBegin(l)) \/ ReceiveAvailable \/ ReceiveReturn
    BY <2>5, ReceiveCallStep
  <2>6. CASE ReceiveByte
    BY <2>6, ReceiveByteStep
  <2>7. CASE Flush
    BY <2>7, FlushStep
  <2>8. CASE UNCHANGED vars
    BY <2>8, StutterStep
  <2> QED
    BY <2>1, <2>2, <2>3, <2>4, <2>5, <2>6, <2>7, <2>8 DEF Next, Worker, Receive
<1> QED
  BY InitIInv, <1>1, PTL DEF Spec

-----------------------------------------------------------------------------
(* The theorems.                                                           *)

\* Every variable of the receive path keeps its type, and the ring is never
\* overfull, for every size of ring and every length of stream.
THEOREM Typing == Spec => []TypeOK
<1>1. IInv => TypeOK
  BY DEF IInv
<1> QED
  BY Invariance, <1>1, PTL

\* receiveCallback() and receive() lose, double and reorder no byte.
THEOREM Delivery == Spec => []NoByteLost
<1>1. IInv => NoByteLost
  BY DEF IInv
<1> QED
  BY Invariance, <1>1, PTL

\* receive() never runs the ring empty.
THEOREM Backing == Spec => []ReceiveIsBacked
<1>1. IInv => ReceiveIsBacked
  BY DEF IInv
<1> QED
  BY Invariance, <1>1, PTL

\* Only a full ring leaves bytes in the stack without an event.
THEOREM LeftBehind == Spec => []LeftBehindOnlyWhenFull
<1>1. IInv => LeftBehindOnlyWhenFull
  BY DEF IInv, LeftBehindOnlyWhenFull
<1> QED
  BY Invariance, <1>1, PTL

=============================================================================
