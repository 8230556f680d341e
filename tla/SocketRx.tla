------------------------------ MODULE SocketRx ------------------------------
(***************************************************************************)
(* The receive path of a connected TCP Socket (libraries/WiFi/src/         *)
(* SecSocket.cpp), which WiFiClient and WiFiServer share.                  *)
(*                                                                         *)
(* Two threads meet in the ring rx_buf.  The worker of the secure sockets  *)
(* library runs receiveCallback() once per receive event and moves bytes   *)
(* from the stack into the ring; the sketch takes them out with receive()  *)
(* or discards them with flush().  The threads preempt each other, so both *)
(* sides are split at their accesses to the ring.  The bytes of the stream *)
(* are numbered 1, 2, 3, ...                                               *)
(***************************************************************************)
EXTENDS Integers, Sequences

CONSTANTS
  RxBufferSize,  \* RX_BUFFER_SIZE
  StreamLen,     \* bound: the bytes the peer sends
  ReadLens       \* the len arguments of receive()

ASSUME SocketRxAssumption ==
  /\ RxBufferSize \in Nat \ {0}
  /\ StreamLen \in Nat
  /\ ReadLens \subseteq Nat

VARIABLES
  arrived,   \* bytes the stack has received so far
  wire,      \* bytes the stack holds, not yet taken by cy_socket_recv
  events,    \* receive events the worker has not yet handled
  wpc,       \* where the worker is in receiveCallback()
  request,   \* bytes_rcvd_request
  chunk,     \* what is left of temp_rx_buff
  rxBuf,     \* rx_buf
  status,    \* _status
  spc,       \* where the sketch is
  len,       \* the len argument of receive()
  toRead,    \* bytes_to_read
  data,      \* data[0 .. i - 1]
  taken,     \* bytes the sketch has taken from the ring, or discarded
  room,      \* free bytes the last callback found in the ring
  got        \* bytes the last callback took from the stack

stackVars == <<arrived, wire, events>>
workerVars == <<wpc, request, chunk, room, got>>
sketchVars == <<spc, len, toRead, data, taken>>
vars == <<stackVars, workerVars, rxBuf, status, sketchVars>>

\* What read_char() returns of an empty ring.
NoByte == -1

\* The bytes from + 1 .. to of the stream.
Bytes(from, to) == [i \in 1 .. to - from |-> from + i]

\* A freshly connected socket.
Init ==
  /\ arrived = 0
  /\ wire = <<>>
  /\ events = 0
  /\ wpc = "idle"
  /\ request = 0
  /\ chunk = <<>>
  /\ rxBuf = <<>>
  /\ status = "CONNECTED"
  /\ spc = "idle"
  /\ len = 0
  /\ toRead = 0
  /\ data = <<>>
  /\ taken = 0
  /\ room = RxBufferSize
  /\ got = 0

-----------------------------------------------------------------------------
(* The stack.                                                              *)

\* A segment arrives and raises an event, which may coalesce with one that
\* still waits for the worker.
Arrive ==
  /\ \E to \in arrived + 1 .. StreamLen :
       /\ arrived' = to
       /\ wire' = wire \o Bytes(arrived, to)
  /\ events' \in {events + 1} \cup (IF events > 0 THEN {events} ELSE {})
  /\ UNCHANGED <<workerVars, rxBuf, status, sketchVars>>

-----------------------------------------------------------------------------
(* The worker: receiveCallback().                                          *)

\* The event is used up even when the ring is full.
CallbackFull ==
  /\ wpc = "idle"
  /\ events > 0
  /\ Len(rxBuf) = RxBufferSize
  /\ events' = events - 1
  /\ room' = 0
  /\ got' = 0
  /\ UNCHANGED <<arrived, wire, wpc, request, chunk, rxBuf, status, sketchVars>>

\* Mutant of CallbackStart: the whole ring is requested, not its free part.
CallbackStart_WholeRing ==
  /\ wpc = "idle"
  /\ events > 0
  /\ Len(rxBuf) < RxBufferSize
  /\ events' = events - 1
  /\ room' = RxBufferSize - Len(rxBuf)
  /\ request' = RxBufferSize
  /\ got' = 0
  /\ wpc' = "recv"
  /\ UNCHANGED <<arrived, wire, chunk, rxBuf, status, sketchVars>>

\* Mutant of CallbackStart: at most one byte is requested per event.
CallbackStart_OneByte ==
  /\ wpc = "idle"
  /\ events > 0
  /\ Len(rxBuf) < RxBufferSize
  /\ events' = events - 1
  /\ room' = RxBufferSize - Len(rxBuf)
  /\ request' = 1
  /\ got' = 0
  /\ wpc' = "recv"
  /\ UNCHANGED <<arrived, wire, chunk, rxBuf, status, sketchVars>>

\* availableForStore() is taken before cy_socket_recv blocks; the sketch may
\* free more of the ring meanwhile.
CallbackStart ==
  /\ wpc = "idle"
  /\ events > 0
  /\ Len(rxBuf) < RxBufferSize
  /\ events' = events - 1
  /\ room' = RxBufferSize - Len(rxBuf)
  /\ request' = RxBufferSize - Len(rxBuf)
  /\ got' = 0
  /\ wpc' = "recv"
  /\ UNCHANGED <<arrived, wire, chunk, rxBuf, status, sketchVars>>

\* cy_socket_recv returns what the stack holds, up to the request.
Recv ==
  /\ wpc = "recv"
  /\ wire # <<>>
  /\ got' = IF request <= Len(wire) THEN request ELSE Len(wire)
  /\ chunk' = SubSeq(wire, 1, got')
  /\ wire' = SubSeq(wire, got' + 1, Len(wire))
  /\ wpc' = "store"
  /\ UNCHANGED <<arrived, events, request, room, rxBuf, status, sketchVars>>

\* With nothing to receive (an earlier callback took this event's bytes) it
\* times out, and socket_assert() marks the socket.
RecvFails ==
  /\ wpc = "recv"
  /\ wire = <<>>
  /\ status' = "ERROR"
  /\ wpc' = "idle"
  /\ UNCHANGED <<stackVars, request, chunk, room, got, rxBuf, sketchVars>>

\* rx_buf.store_char(), which drops the byte when the ring is full.
Store ==
  /\ wpc = "store"
  /\ rxBuf' = IF Len(rxBuf) < RxBufferSize THEN Append(rxBuf, Head(chunk)) ELSE rxBuf
  /\ chunk' = Tail(chunk)
  /\ wpc' = IF Len(chunk) = 1 THEN "idle" ELSE "store"
  /\ UNCHANGED <<stackVars, request, room, got, status, sketchVars>>

Worker == CallbackFull \/ CallbackStart \/ Recv \/ RecvFails \/ Store

-----------------------------------------------------------------------------
(* The sketch.                                                             *)

\* Mutant of ReceiveBegin: the comparison is the wrong way round.
ReceiveBegin_Reversed(l) ==
  /\ spc = "idle"
  /\ len' = l
  /\ data' = <<>>
  /\ \/ /\ Len(rxBuf) < l
        /\ toRead' = l
        /\ spc' = "copy"
     \/ /\ Len(rxBuf) >= l
        /\ spc' = "available"
        /\ UNCHANGED toRead
  /\ UNCHANGED <<stackVars, workerVars, rxBuf, status, taken>>

\* Mutant of ReceiveBegin: nothing is read while less than len is there.
ReceiveBegin_WholeOnly(l) ==
  /\ spc = "idle"
  /\ len' = l
  /\ data' = <<>>
  /\ toRead' = IF Len(rxBuf) > l THEN l ELSE 0
  /\ spc' = "copy"
  /\ UNCHANGED <<stackVars, workerVars, rxBuf, status, taken>>

\* receive(): the first call of available() in the conditional expression.
ReceiveBegin(l) ==
  /\ spc = "idle"
  /\ len' = l
  /\ data' = <<>>
  /\ \/ /\ Len(rxBuf) > l
        /\ toRead' = l
        /\ spc' = "copy"
     \/ /\ Len(rxBuf) <= l
        /\ spc' = "available"
        /\ UNCHANGED toRead
  /\ UNCHANGED <<stackVars, workerVars, rxBuf, status, taken>>

\* Its second call, which the worker may have made larger than len.
ReceiveAvailable ==
  /\ spc = "available"
  /\ toRead' = Len(rxBuf)
  /\ spc' = "copy"
  /\ UNCHANGED <<stackVars, workerVars, rxBuf, status, len, data, taken>>

\* data[i] = rx_buf.read_char()
ReceiveByte ==
  /\ spc = "copy"
  /\ Len(data) < toRead
  /\ data' = Append(data, IF rxBuf = <<>> THEN NoByte ELSE Head(rxBuf))
  /\ rxBuf' = IF rxBuf = <<>> THEN rxBuf ELSE Tail(rxBuf)
  /\ taken' = IF rxBuf = <<>> THEN taken ELSE taken + 1
  /\ UNCHANGED <<stackVars, workerVars, status, spc, len, toRead>>

ReceiveReturn ==
  /\ spc = "copy"
  /\ Len(data) = toRead
  /\ spc' = "idle"
  /\ UNCHANGED <<stackVars, workerVars, rxBuf, status, len, toRead, data, taken>>

\* flush()
Flush ==
  /\ spc = "idle"
  /\ taken' = taken + Len(rxBuf)
  /\ rxBuf' = <<>>
  /\ data' = <<>>
  /\ UNCHANGED <<stackVars, workerVars, status, spc, len, toRead>>

Receive ==
  \/ \E l \in ReadLens : ReceiveBegin(l)
  \/ ReceiveAvailable
  \/ ReceiveByte
  \/ ReceiveReturn

Next == Arrive \/ Worker \/ Receive \/ Flush

Spec == Init /\ [][Next]_vars

\* The threads are scheduled preemptively: each gets its turns.  A sketch that
\* polls its connection, as the examples' loop() does, reads again and again.
FairSpec == Spec /\ WF_vars(Worker) /\ WF_vars(Receive)

-----------------------------------------------------------------------------
(* Properties.                                                             *)

\* The type invariant: the ring is never overfull, and a call's chunk and
\* data are pieces of the stream.
TypeOK ==
  /\ arrived \in 0 .. StreamLen
  /\ wire \in Seq(1 .. StreamLen)
  /\ events \in Nat
  /\ wpc \in {"idle", "recv", "store"}
  /\ request \in 0 .. RxBufferSize
  /\ chunk \in Seq(1 .. StreamLen)
  /\ rxBuf \in Seq(1 .. StreamLen) /\ Len(rxBuf) <= RxBufferSize
  /\ status \in {"CONNECTED", "ERROR"}
  /\ spc \in {"idle", "available", "copy"}
  /\ len \in {0} \cup ReadLens
  /\ toRead \in Nat
  /\ data \in Seq({NoByte} \cup 1 .. StreamLen) /\ Len(data) <= toRead
  /\ taken \in Nat
  /\ room \in 0 .. RxBufferSize
  /\ got \in 0 .. room

\* The sequence holds the bytes of the stream that follow the first n.
Follows(seq, n) == \A i \in 1 .. Len(seq) : seq[i] = n + i

\* No byte is lost, doubled or reordered on its way through the stack, the
\* worker's temporary buffer and the ring, although the worker sized its
\* request before it blocked and store_char() silently drops what does not
\* fit; and what receive() has copied is the piece of the stream it removed.
NoByteLost ==
  /\ Follows(rxBuf, taken)
  /\ Follows(chunk, taken + Len(rxBuf))
  /\ Follows(wire, taken + Len(rxBuf) + Len(chunk))
  /\ arrived = taken + Len(rxBuf) + Len(chunk) + Len(wire)
  /\ Follows(data, taken - Len(data)) \/ spc = "idle"

\* receive() never asks the ring for a byte it does not hold: the worker only
\* adds to what available() saw.
ReceiveIsBacked ==
  spc = "copy" => toRead - Len(data) <= Len(rxBuf)

\* Bytes are left behind in the stack without an event to fetch them only
\* when the last callback took as much as it had found room for.
LeftBehindOnlyWhenFull ==
  wire # <<>> /\ events = 0 /\ wpc = "idle" => got = room

\* What the worker has asked for, or holds, fits the ring.
ChunkFits ==
  /\ wpc = "recv" => request = room /\ request \in 1 .. RxBufferSize - Len(rxBuf)
  /\ wpc = "store" => Len(chunk) \in 1 .. RxBufferSize - Len(rxBuf)
  /\ wpc # "store" => chunk = <<>>

\* The inductive invariant: the properties above, together with the room that
\* is reserved for the worker from its request to its last store_char().
IInv ==
  /\ TypeOK
  /\ ChunkFits
  /\ NoByteLost
  /\ ReceiveIsBacked
  /\ spc = "available" => data = <<>>
  /\ wire # <<>> /\ events = 0 /\ wpc # "recv" => got = room

\* Every byte that arrives is eventually taken by the sketch, unless it is left
\* behind in the stack without an event: no byte is stuck in the ring or in the
\* worker, however reads, flushes and events interleave.
EveryByteTaken ==
  \A n \in 1 .. StreamLen :
    arrived >= n ~> \/ taken >= n
                    \/ events = 0 /\ wpc = "idle" /\ n > taken + Len(rxBuf)

=============================================================================
