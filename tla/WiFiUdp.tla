------------------------------- MODULE WiFiUdp ------------------------------
(***************************************************************************)
(* WiFiUDP (libraries/WiFi/src/WiFiUdp.cpp) and the datagram side of its   *)
(* Socket.  The worker thread of the secure sockets library runs           *)
(* receiveCallback() for each datagram: it receives it into the socket's   *)
(* ring, makes a packet of what is in the ring and appends that to the     *)
(* vector rx_packets, from which the sketch's parsePacket() copies and     *)
(* then erases the first.  Nothing locks; an update of the vector is one   *)
(* step here.                                                              *)
(*                                                                         *)
(* Datagrams are numbered in the order they arrive, and stand for their    *)
(* senders.  A byte is <<d, k>>: the k-th of datagram d.  What the sketch  *)
(* passes to write() is numbered 1, 2, 3, ...  Addresses, ports and status *)
(* values, which no step depends on, are left out.                         *)
(***************************************************************************)
EXTENDS Integers, Sequences

CONSTANTS
  RxBufferSize,  \* RX_BUFFER_SIZE of the socket
  PacketSize,    \* WIFI_UDP_BUFFER_SIZE
  Length,        \* the lengths of the datagrams that arrive, a finite sequence
  ReadLens,      \* the len arguments of read()
  WriteLens,     \* the size arguments of write()
  MaxOut,        \* bound: the bytes passed to write()
  MaxBegins      \* bound: calls of begin()

ASSUME WiFiUdpAssumption ==
  /\ RxBufferSize \in Nat /\ PacketSize \in Nat \ {0}
  /\ RxBufferSize >= PacketSize
  /\ Length \in Seq(Nat) /\ ReadLens \subseteq Nat /\ WriteLens \subseteq Nat
  /\ MaxOut \in Nat /\ MaxBegins \in Nat

VARIABLES
  handle,      \* the socket in the library: "none", "created", "bound"
  registered,  \* its receive callback is registered
  begins,      \* calls of begin() so far
  arrived,     \* datagrams that have arrived
  stack,       \* those the library holds
  events,      \* receive events the worker has not yet handled
  wpc,         \* the worker: "idle", or after receiving: "got", "none"
  rxBuf,       \* socket.rx_buf
  sender,      \* peer_addr
  rxPackets,   \* rx_packets
  current,     \* current_packet
  delivered,   \* the last datagram that was made a packet
  failed,      \* a datagram was not received, or the socket was stopped
  spc,         \* where the sketch is
  txBuf,       \* txBuffer
  out,         \* bytes passed to write()
  since        \* out at the last beginPacket() or endPacket()

MaxDatagrams == Len(Length)

lifeVars == <<handle, registered, begins>>
stackVars == <<arrived, stack, events>>
workerVars == <<wpc, rxBuf, sender, delivered>>
packetVars == <<rxPackets, current>>
txVars == <<txBuf, out, since>>
udpVars == <<lifeVars, stackVars, workerVars, packetVars, failed, spc, txVars>>

Min2(a, b) == IF a <= b THEN a ELSE b

Bytes(d, n) == [k \in 1 .. n |-> <<d, k>>]

NoPacket == [sender |-> 0, bytes |-> Bytes(0, 0)]

UdpInit ==
  /\ handle = "none"
  /\ registered = FALSE
  /\ begins = 0
  /\ arrived = 0
  /\ stack = <<>>
  /\ events = 0
  /\ wpc = "idle"
  /\ rxBuf = <<>>
  /\ sender = 0
  /\ rxPackets = <<>>
  /\ current = NoPacket
  /\ delivered = 0
  /\ failed = FALSE
  /\ spc = "idle"
  /\ txBuf = <<>>
  /\ out = 0
  /\ since = 0

-----------------------------------------------------------------------------
(* The life of the socket.                                                 *)

\* begin() and beginMulticast(), of a socket that is not bound: the library may
\* refuse to create it, to register the callback (which is not noticed) and to
\* bind it.  What joinMulticastGroup() does changes nothing here.
UdpBegin ==
  /\ spc = "idle" /\ handle # "bound"
  /\ begins < MaxBegins
  /\ begins' = begins + 1
  /\ \/ UNCHANGED <<handle, registered>>
     \/ /\ handle' \in {"created", "bound"}
        /\ registered' \in BOOLEAN
  /\ UNCHANGED <<stackVars, workerVars, packetVars, failed, spc, txVars>>

\* stop(), unless the library refuses, which changes nothing: what it still holds
\* is gone; an event may be under way.
Stop ==
  /\ spc = "idle"
  /\ handle # "none"
  /\ handle' = "none"
  /\ registered' = FALSE
  /\ stack' = <<>>
  /\ failed' = TRUE
  /\ UNCHANGED <<begins, arrived, events, workerVars, packetVars, spc, txVars>>

-----------------------------------------------------------------------------
(* Receiving.                                                              *)

Arrive ==
  /\ handle = "bound"
  /\ arrived < MaxDatagrams
  /\ arrived' = arrived + 1
  /\ stack' = Append(stack, arrived + 1)
  /\ events' = IF registered THEN events + 1 ELSE events
  /\ failed' = (failed \/ ~registered)
  /\ UNCHANGED <<lifeVars, workerVars, packetVars, spc, txVars>>

\* receiveCallback(): cy_socket_recvfrom, up to the room in the socket's ring;
\* the rest of the datagram is discarded.
Receive ==
  /\ wpc = "idle" /\ events > 0
  /\ handle = "bound" /\ stack # <<>>
  /\ Len(rxBuf) < RxBufferSize
  /\ LET d == Head(stack)
     IN  /\ rxBuf' = rxBuf \o Bytes(d, Min2(Length[d], RxBufferSize - Len(rxBuf)))
         /\ sender' = d
  /\ stack' = Tail(stack)
  /\ events' = events - 1
  /\ wpc' = "got"
  /\ UNCHANGED <<lifeVars, arrived, delivered, packetVars, failed, spc, txVars>>

\* It may fail, find nothing in time or be left out for a full ring: the callback
\* goes on all the same, with what the stack held in the place of peer_addr.
ReceiveFails ==
  /\ wpc = "idle" /\ events > 0
  /\ sender' \in 0 .. arrived
  /\ events' = events - 1
  /\ wpc' = "none"
  /\ failed' = TRUE
  /\ UNCHANGED <<lifeVars, arrived, stack, rxBuf, delivered, packetVars, spc, txVars>>

\* Mutant of Push: only what the packet has room for is taken from the ring.
Push_LeaveRest ==
  /\ wpc # "idle"
  /\ LET n == Min2(Len(rxBuf), PacketSize) IN
       /\ rxPackets' = Append(rxPackets, [sender |-> sender, bytes |-> SubSeq(rxBuf, 1, n)])
       /\ rxBuf' = SubSeq(rxBuf, n + 1, Len(rxBuf))
  /\ delivered' = IF wpc = "got" THEN sender ELSE delivered
  /\ wpc' = "idle"
  /\ UNCHANGED <<lifeVars, stackVars, sender, current, failed, spc, txVars>>

\* The ring is emptied into a new packet, whose own ring drops what it has no
\* room for, and that is appended.
Push ==
  /\ wpc # "idle"
  /\ LET n == Min2(Len(rxBuf), PacketSize) IN
       rxPackets' = Append(rxPackets, [sender |-> sender, bytes |-> SubSeq(rxBuf, 1, n)])
  /\ rxBuf' = <<>>
  /\ delivered' = IF wpc = "got" THEN sender ELSE delivered
  /\ wpc' = "idle"
  /\ UNCHANGED <<lifeVars, stackVars, sender, current, failed, spc, txVars>>

Worker == Receive \/ ReceiveFails \/ Push

-----------------------------------------------------------------------------
(* parsePacket() and reading.                                              *)

ParseNone ==
  /\ spc = "idle"
  /\ rxPackets = <<>>
  /\ current' = NoPacket
  /\ UNCHANGED <<lifeVars, stackVars, workerVars, rxPackets, failed, spc, txVars>>

\* parsePacket(): the first packet is copied ...
ParseFront ==
  /\ spc = "idle"
  /\ rxPackets # <<>>
  /\ current' = Head(rxPackets)
  /\ spc' = "erase"
  /\ UNCHANGED <<lifeVars, stackVars, workerVars, rxPackets, failed, txVars>>

\* Mutant of ParseErase: the packet stays.
ParseErase_Keep ==
  /\ spc = "erase"
  /\ spc' = "idle"
  /\ UNCHANGED <<lifeVars, stackVars, workerVars, packetVars, failed, txVars>>

\* ... and erased.
ParseErase ==
  /\ spc = "erase"
  /\ rxPackets' = Tail(rxPackets)
  /\ spc' = "idle"
  /\ UNCHANGED <<lifeVars, stackVars, workerVars, current, failed, txVars>>

\* read(), of up to len bytes, or flush().
Consume(n) ==
  /\ spc = "idle"
  /\ current' = [current EXCEPT !.bytes = SubSeq(@, n + 1, Len(@))]
  /\ UNCHANGED <<lifeVars, stackVars, workerVars, rxPackets, failed, spc, txVars>>

Read ==
  /\ current.bytes # <<>>
  /\ \E len \in ReadLens : Consume(Min2(len, Len(current.bytes)))

Flush == Consume(Len(current.bytes))

-----------------------------------------------------------------------------
(* Sending.                                                                *)

\* Mutant of BeginPacket: the buffer is not cleared.
BeginPacket_Keep ==
  /\ spc = "idle"
  /\ since' = out
  /\ UNCHANGED <<lifeVars, stackVars, workerVars, packetVars, failed, spc, txBuf, out>>

\* beginPacket(); the one with a host name comes here even when the lookup of
\* the name has failed.
BeginPacket ==
  /\ spc = "idle"
  /\ txBuf' = <<>>
  /\ since' = out
  /\ UNCHANGED <<lifeVars, stackVars, workerVars, packetVars, failed, spc, out>>

\* write(): the bytes that find room.
Write ==
  /\ spc = "idle"
  /\ \E size \in WriteLens :
       LET n == Min2(size, PacketSize - Len(txBuf)) IN
       /\ out + size <= MaxOut
       /\ out' = out + size
       /\ txBuf' = txBuf \o [k \in 1 .. n |-> out + k]
  /\ UNCHANGED <<lifeVars, stackVars, workerVars, packetVars, failed, spc, since>>

\* endPacket(): the buffer is emptied and handed to cy_socket_sendto, whether
\* that sends it or not.
EndPacket ==
  /\ spc = "idle"
  /\ txBuf' = <<>>
  /\ since' = out
  /\ UNCHANGED <<lifeVars, stackVars, workerVars, packetVars, failed, spc, out>>

-----------------------------------------------------------------------------

Parse == ParseNone \/ ParseFront \/ ParseErase

UdpNext ==
  \/ UdpBegin
  \/ Stop
  \/ Arrive
  \/ Worker
  \/ Parse
  \/ Read
  \/ Flush
  \/ BeginPacket
  \/ Write
  \/ EndPacket

UdpSpec == UdpInit /\ [][UdpNext]_udpVars

\* Both threads are scheduled, and the sketch's loop() parses, as all examples
\* do.
FairUdpSpec == UdpSpec /\ WF_udpVars(Worker) /\ WF_udpVars(ParseFront \/ ParseErase)

-----------------------------------------------------------------------------
(* Properties.                                                             *)

\* rx_packets with the packet that has been copied already out of it, and the
\* rest of that packet, are the queue of datagrams of the abstract specification:
\* no datagram is lost or comes twice between push_back() and erase(), none shares
\* a packet with another or gets another's sender, and they keep their order.
Queue == INSTANCE DatagramQueue WITH
  last <- delivered,
  queue <- IF spc = "erase" THEN Tail(rxPackets) ELSE rxPackets,
  current <- current

QueueSpec == Queue!Spec

\* What endPacket() sends is what was written since the last beginPacket() or
\* endPacket(), cut off at the end: a datagram that was given up leaves nothing
\* to the next.
SentIsWritten == txBuf = [k \in 1 .. Min2(out - since, PacketSize) |-> since + k]

\* Each datagram that arrives becomes a packet and is taken off the vector,
\* unless a receive fails or the socket was not registered or was stopped.
EveryDatagramParsed == \A d \in 1 .. MaxDatagrams :
  arrived >= d
  ~> \/ failed
     \/ delivered >= d /\ \A k \in DOMAIN rxPackets : rxPackets[k].sender # d
=============================================================================
