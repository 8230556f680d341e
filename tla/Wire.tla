-------------------------------- MODULE Wire --------------------------------
(***************************************************************************)
(* The I2C driver TwoWire (libraries/Wire/src/Wire.cpp), as master and as  *)
(* slave.  A slave's two services run in the interrupt, between any two    *)
(* calls of the sketch, and run the sketch's onReceive() and onRequest()   *)
(* callbacks, which may use the driver like any other part of the sketch.  *)
(* The loop that stores what a master has written is modelled turn by turn *)
(* with its 8-bit index.                                                   *)
(*                                                                         *)
(* Bytes are numbered: those that come in over the bus 1, 2, ... in the    *)
(* order the master sends them or the slave delivers them, those the       *)
(* sketch passes to write() 1, 2, ... in the order of the calls.           *)
(***************************************************************************)
EXTENDS Integers, Sequences

CONSTANTS
  BufferLength,  \* BUFFER_LENGTH
  IndexModulus,  \* 256, the values of the loop's uint8_t index
  Addresses,     \* I2C addresses
  Roles,         \* the modes the sketch begins: "master", "slave"
  MaxIn,         \* bound: the bytes that come in
  MaxOut         \* bound: the bytes passed to write()

ASSUME WireAssumption ==
  /\ BufferLength \in Nat \ {0}
  /\ IndexModulus \in Nat /\ IndexModulus >= 2
  /\ BufferLength <= IndexModulus
  /\ Roles \subseteq {"master", "slave"}
  /\ MaxIn \in Nat
  /\ MaxOut \in Nat

VARIABLES
  role,          \* is_master
  slaveAddress,  \* slave_address
  address,       \* the address the peripheral is configured with
  held,          \* the peripheral is between its init and its free
  events,        \* the slave's event callback is registered
  service,       \* where the interrupt is: "none" when it is not running
  rxBuffer,
  in,            \* bytes that have come in
  numBytes,      \* of onReceiveService(): bytes the master wrote,
  i,             \* ... the loop index,
  free,          \* ... rxBuffer.availableForStore() before the loop,
  stored,        \* ... and the bytes the loop has stored
  txBuffer,
  out,           \* bytes passed to write()
  since,         \* out at the last beginTransmission(), or drain of txBuffer
  refused        \* bytes write() has refused since

modeVars == <<role, slaveAddress, address, held, events>>
loopVars == <<numBytes, i, free, stored>>
rxVars == <<rxBuffer, in, loopVars>>
txVars == <<txBuffer, out, since, refused>>
vars == <<modeVars, service, rxVars, txVars>>

Init ==
  /\ role = "slave"   \* a global object is zeroed
  /\ slaveAddress = 0
  /\ address = 0
  /\ held = FALSE
  /\ events = FALSE
  /\ service = "none"
  /\ rxBuffer = <<>>
  /\ in = 0
  /\ numBytes = 0
  /\ i = 0
  /\ free = 0
  /\ stored = 0
  /\ txBuffer = <<>>
  /\ out = 0
  /\ since = 0
  /\ refused = {}

Min2(a, b) == IF a <= b THEN a ELSE b

\* Up to the ring's capacity, rxBuffer.store_char() of the next n bytes to
\* come in.
StoreNext(n) ==
  rxBuffer' = rxBuffer \o [k \in 1 .. Min2(n, BufferLength - Len(rxBuffer)) |-> in + k]

\* The sketch runs: its own code, or one of its callbacks.
SketchRuns == service # "store"

-----------------------------------------------------------------------------
(* Setting up.                                                             *)

\* begin() and begin(address): initialise and configure, and for a slave
\* register the event callback; each may fail, and ends the method.  Nothing
\* keeps a sketch from a second begin() without an end(): the role and the
\* address change all the same, and where the initialisation then fails the
\* peripheral stays as it was.
Begin(r, a) ==
  /\ service = "none"
  /\ role' = r
  /\ slaveAddress' = IF r = "slave" THEN a ELSE slaveAddress
  /\ \/ UNCHANGED <<held, address, events>>
     \/ \E reached \in {"init", "configure", "callback"} :
          /\ held' = TRUE
          /\ address' = IF reached = "init" THEN address
                        ELSE IF r = "slave" THEN a ELSE 0
          /\ events' = (r = "slave" /\ reached = "callback")
  /\ UNCHANGED <<service, rxVars, txVars>>

\* end()
End ==
  /\ service = "none" /\ held
  /\ held' = FALSE
  /\ events' = FALSE
  /\ UNCHANGED <<role, slaveAddress, address, service, rxVars, txVars>>

\* setClock() configures the address again.
SetClock ==
  /\ service = "none" /\ held
  /\ address' = IF role = "master" THEN 0 ELSE slaveAddress
  /\ UNCHANGED <<role, slaveAddress, held, events, service, rxVars, txVars>>

-----------------------------------------------------------------------------
(* The sketch's calls.  None of them looks at the mode: on a slave, or     *)
(* before begin(), only the HAL's part of the call fails.                  *)

\* Mutant of BeginTransmission: txBuffer keeps what was there.
BeginTransmission_Keep(a) ==
  /\ SketchRuns
  /\ slaveAddress' = a
  /\ since' = out
  /\ refused' = {}
  /\ UNCHANGED <<role, address, held, events, service, rxVars, txBuffer, out>>

\* beginTransmission()
BeginTransmission(a) ==
  /\ SketchRuns
  /\ slaveAddress' = a
  /\ txBuffer' = <<>>
  /\ since' = out
  /\ refused' = {}
  /\ UNCHANGED <<role, address, held, events, service, rxVars, out>>

\* write(): 0 when txBuffer is full, else 1.
Write ==
  /\ SketchRuns
  /\ out < MaxOut
  /\ out' = out + 1
  /\ \/ /\ Len(txBuffer) = BufferLength
        /\ refused' = refused \cup {out + 1}
        /\ UNCHANGED txBuffer
     \/ /\ Len(txBuffer) < BufferLength
        /\ txBuffer' = Append(txBuffer, out + 1)
        /\ UNCHANGED refused
  /\ UNCHANGED <<modeVars, service, rxVars, since>>

\* endTransmission(): txBuffer is emptied, whatever cyhal_i2c_master_write
\* then returns.
EndTransmission ==
  /\ SketchRuns
  /\ txBuffer' = <<>>
  /\ since' = out
  /\ refused' = {}
  /\ UNCHANGED <<modeVars, service, rxVars, out>>

\* Mutant of RequestFrom: a failed read stores what temp_rx_buff held.
RequestFrom_StoreAlways(quantity) ==
  /\ SketchRuns
  /\ LET n == Min2(quantity, BufferLength) IN
       \/ /\ role = "master" /\ held
          /\ in + n <= MaxIn
          /\ StoreNext(n)
          /\ in' = in + n
       \/ /\ rxBuffer' = IF Len(rxBuffer) < BufferLength /\ in > 0
                          THEN Append(rxBuffer, in) ELSE rxBuffer
          /\ UNCHANGED in
  /\ UNCHANGED <<modeVars, service, loopVars, txVars>>

\* requestFrom(): what is read goes behind what rxBuffer still holds, as far
\* as there is room; a failed read stores nothing.
RequestFrom(quantity) ==
  /\ SketchRuns
  /\ LET n == Min2(quantity, BufferLength) IN
       \/ /\ role = "master" /\ held
          /\ in + n <= MaxIn
          /\ StoreNext(n)
          /\ in' = in + n
       \/ UNCHANGED <<in, rxBuffer>>
  /\ UNCHANGED <<modeVars, service, loopVars, txVars>>

\* read(), when something is available.
Read ==
  /\ SketchRuns
  /\ rxBuffer # <<>>
  /\ rxBuffer' = Tail(rxBuffer)
  /\ UNCHANGED <<modeVars, service, in, loopVars, txVars>>

-----------------------------------------------------------------------------
(* The slave's interrupt: a master has written.                            *)

\* onReceiveService() begins: cyhal_i2c_slave_readable.
OnReceive ==
  /\ service = "none" /\ events
  /\ \E readable \in 0 .. BufferLength + 1 :
       /\ numBytes' = Min2(readable, BufferLength)
       /\ in' = in + numBytes'
  /\ in' <= MaxIn
  /\ i' = 0
  /\ free' = BufferLength - Len(rxBuffer)
  /\ stored' = 0
  /\ service' = "store"
  /\ UNCHANGED <<modeVars, rxBuffer, txVars>>

\* A turn of the loop: i < rxBuffer.availableForStore().
StoreByte ==
  /\ service = "store"
  /\ i < numBytes /\ i < BufferLength - Len(rxBuffer)
  /\ rxBuffer' = Append(rxBuffer, in - numBytes + i + 1)
  /\ stored' = stored + 1
  /\ i' = (i + 1) % IndexModulus
  /\ UNCHANGED <<modeVars, service, in, numBytes, free, txVars>>

\* Mutant of LeaveLoop: there is no break, a byte without room is skipped.
LeaveLoop_NoBreak ==
  /\ service = "store"
  /\ \/ /\ i >= numBytes
        /\ service' = "told"
        /\ UNCHANGED i
     \/ /\ i < numBytes /\ i >= BufferLength - Len(rxBuffer)
        /\ i' = (i + 1) % IndexModulus
        /\ UNCHANGED service
  /\ UNCHANGED <<modeVars, rxBuffer, in, numBytes, free, stored, txVars>>

\* The end of the loop, or its break: user_onReceive(numBytes) begins.
LeaveLoop ==
  /\ service = "store"
  /\ i >= numBytes \/ i >= BufferLength - Len(rxBuffer)
  /\ service' = "told"
  /\ UNCHANGED <<modeVars, rxVars, txVars>>

\* The callback has returned.
ReceiveDone ==
  /\ service = "told"
  /\ service' = "none"
  /\ UNCHANGED <<modeVars, rxVars, txVars>>

-----------------------------------------------------------------------------
(* The slave's interrupt: a master wants to read.                          *)

\* onRequestService() begins with user_onRequest().
OnRequest ==
  /\ service = "none" /\ events
  /\ service' = "asked"
  /\ UNCHANGED <<modeVars, rxVars, txVars>>

\* The callback has returned: what the peripheral has room for is handed to
\* it, the rest stays in txBuffer.
Respond ==
  /\ service = "asked"
  /\ \E writable \in 0 .. BufferLength :
       LET bytesToSend == Min2(writable, Len(txBuffer)) IN
         /\ txBuffer' = SubSeq(txBuffer, bytesToSend + 1, Len(txBuffer))
         /\ since' = IF bytesToSend = 0 THEN since ELSE txBuffer[bytesToSend]
  /\ refused' = {x \in refused : x > since'}
  /\ service' = "none"
  /\ UNCHANGED <<modeVars, rxVars, out>>

-----------------------------------------------------------------------------

Interrupt == OnReceive \/ StoreByte \/ LeaveLoop \/ ReceiveDone \/ OnRequest \/ Respond

Next ==
  \/ \E r \in Roles, a \in Addresses : Begin(r, a)
  \/ End
  \/ SetClock
  \/ \E a \in Addresses : BeginTransmission(a)
  \/ Write
  \/ EndTransmission
  \/ \E quantity \in 0 .. BufferLength + 1 : RequestFrom(quantity)
  \/ Read
  \/ Interrupt

Spec == Init /\ [][Next]_vars

\* The interrupt goes on until its loop is left.
FairSpec == Spec /\ WF_vars(StoreByte \/ LeaveLoop)

-----------------------------------------------------------------------------
(* Properties.                                                             *)

ModeTypeOK ==
  /\ role \in {"master", "slave"} /\ held \in BOOLEAN /\ events \in BOOLEAN
  /\ slaveAddress \in Addresses \cup {0} /\ address \in Addresses \cup {0}
  /\ service \in {"none", "store", "told", "asked"}

RxTypeOK ==
  /\ rxBuffer \in Seq(Nat) /\ Len(rxBuffer) <= BufferLength
  /\ in \in 0 .. MaxIn
  /\ numBytes \in 0 .. BufferLength /\ i \in Nat
  /\ free \in 0 .. BufferLength /\ stored \in 0 .. BufferLength

TxTypeOK ==
  /\ txBuffer \in Seq(Nat) /\ Len(txBuffer) <= BufferLength
  /\ out \in 0 .. MaxOut /\ since \in 0 .. out
  /\ refused \in SUBSET (1 .. out)

\* The type invariant: neither ring is ever overfull.
TypeOK == ModeTypeOK /\ RxTypeOK /\ TxTypeOK

Increasing(seq) == \A j, k \in 1 .. Len(seq) : j < k => seq[j] < seq[k]

\* The bytes of what comes in that may be in rxBuffer.
Received == IF service = "store" THEN in - numBytes + i ELSE in

\* What came in is read in order, without doubles: bytes may be dropped for
\* want of room, also in the middle of what is read, but never reordered.
InOrder ==
  /\ Increasing(rxBuffer)
  /\ \A k \in 1 .. Len(rxBuffer) : rxBuffer[k] <= Received

\* txBuffer holds exactly the bytes write() has accepted since the last
\* beginTransmission(), or since the bytes handed to the peripheral: whatever
\* the order of the calls and interrupts, a transmission never carries bytes
\* of another one and never misses a byte that write() said it took.
TransmissionIsExact ==
  /\ {txBuffer[k] : k \in 1 .. Len(txBuffer)} = (since + 1 .. out) \ refused
  /\ Increasing(txBuffer)

\* How many of n bytes a ring with f free bytes gets.
Stored(n, f) == IF 2 * n <= f + 1 THEN n ELSE (f + 1) \div 2

\* What the callback finds in the ring of the n bytes it is told of: all of
\* them when they fill at most half of the free part, else only that half.
StoredIsHalf == service = "told" => stored = Stored(numBytes, free)

\* The loop's invariant: the index has not wrapped around, and no more than
\* half of the free part is filled.
LoopInvariant ==
  /\ service = "store" =>
       /\ i = stored /\ stored <= numBytes /\ 2 * stored <= free + 1
       /\ Len(rxBuffer) = BufferLength - free + stored
       /\ numBytes <= in
  /\ StoredIsHalf

\* The inductive invariant.
RxInv == RxTypeOK /\ LoopInvariant /\ InOrder
TxInv == TxTypeOK /\ TransmissionIsExact
IInv == ModeTypeOK /\ RxInv /\ TxInv

\* The loop ends, although its bound moves towards its index and may be as
\* large as the index has values.
LoopEnds == service = "store" ~> service = "told"

\* "Manually update rxBuffer to reflect the number of bytes received": the
\* ring, when it was empty, holds all the bytes the callback is told of.
AnnouncedArePresent ==
  service = "told" /\ free = BufferLength => stored = numBytes

=============================================================================
