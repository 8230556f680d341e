---------------------------- MODULE DatagramQueue ---------------------------
(***************************************************************************)
(* What WiFiUDP promises to a sketch: datagrams come out of a queue as     *)
(* packets of their own, in the order they came in, each at most once and  *)
(* with its own sender; what a packet has no room for is cut off at its    *)
(* end.  A datagram that could not be received leaves an empty packet.     *)
(* WiFiUdp.tla implements this module.                                     *)
(***************************************************************************)
EXTENDS Integers, Sequences

CONSTANTS
  Length,      \* the lengths of the datagrams, in the order they come in
  PacketSize   \* the bytes a packet has room for

VARIABLES
  last,      \* the last datagram that became a packet
  queue,     \* the packets the sketch has not parsed yet
  current    \* what is left of the packet it has parsed last

vars == <<last, queue, current>>

Datagrams == DOMAIN Length

\* The first n bytes of datagram d, and the packet it becomes.
Bytes(d, n) == [k \in 1 .. n |-> <<d, k>>]

Packet(d) ==
  [sender |-> d,
   bytes |-> Bytes(d, IF Length[d] <= PacketSize THEN Length[d] ELSE PacketSize)]

EmptyPacket(d) == [sender |-> d, bytes |-> Bytes(d, 0)]

NoPacket == EmptyPacket(0)

Init ==
  /\ last = 0
  /\ queue = <<>>
  /\ current = NoPacket

Deliver ==
  /\ \E d \in Datagrams :
       d > last /\ last' = d /\ queue' = Append(queue, Packet(d))
  /\ UNCHANGED current

\* Such a packet names any sender.
Fail ==
  /\ \E d \in Datagrams \union {0} : queue' = Append(queue, EmptyPacket(d))
  /\ UNCHANGED <<last, current>>

Parse ==
  /\ queue # <<>>
  /\ current' = Head(queue)
  /\ queue' = Tail(queue)
  /\ UNCHANGED last

ParseNone ==
  /\ queue = <<>>
  /\ current' = NoPacket
  /\ UNCHANGED <<last, queue>>

\* The sketch reads n bytes, or all with flush().
Consume(n) ==
  /\ current' = [current EXCEPT !.bytes = SubSeq(@, n + 1, Len(@))]
  /\ UNCHANGED <<last, queue>>

Next ==
  \/ Deliver
  \/ Fail
  \/ Parse
  \/ ParseNone
  \/ \E n \in 0 .. Len(current.bytes) : Consume(n)

Spec == Init /\ [][Next]_vars
=============================================================================
