-------------------------------- MODULE Uart --------------------------------
(***************************************************************************)
(* Uart.cpp: the receive interrupt fills a ring of bytes that the sketch   *)
(* reads; begin(), end(), write() and flush() are split at their calls of  *)
(* the hardware library (HAL), because the interrupt comes between them.   *)
(*                                                                         *)
(* The received bytes are numbered.  A call of the ring buffer is atomic,  *)
(* and a cyhal_uart_init() that fails leaves the object as it was.  The    *)
(* sketch calls end(), write() and flush() on an object that is allocated. *)
(***************************************************************************)
EXTENDS Naturals, Sequences

CONSTANTS
  BufferLength,   \* BUFFER_LENGTH, 512
  FifoLength,     \* the bytes the receiver's FIFO holds
  TxLength,       \* the bytes the transmitter's FIFO holds
  MaxReceived,    \* bound: the bytes received
  WriteSizes      \* the sizes given to write()

ASSUME UartAssumption ==
  /\ {BufferLength, FifoLength, TxLength} \subseteq Nat \ {0}
  /\ MaxReceived \in Nat /\ WriteSizes \subseteq Nat

VARIABLES
  uartHal,       \* uart_obj: "free", "init" (allocated) or "irq" (event enabled)
  serialReady,   \* serial_ready
  rxFifo,        \* the bytes in the receiver, oldest first
  rxBuffer,      \* rx_buffer
  txFifo,        \* how many bytes the transmitter holds
  uartPc,        \* where the sketch is
  left,          \* left_to_write
  late,          \* the time-out of the call has passed
  received,      \* the number of the last byte received
  lastRead,      \* ... and of the last one read() returned
  discarded,     \* ... and of the last one end() gave up
  overflown      \* a byte found the FIFO or the ring full since

uartVars == <<uartHal, serialReady, rxFifo, rxBuffer, txFifo, uartPc, left, late,
              received, lastRead, discarded, overflown>>
sending == <<txFifo, left, late>>
history == <<received, lastRead, discarded, overflown>>

UartInit ==
  /\ uartHal = "free" /\ serialReady = FALSE
  /\ rxFifo = <<>> /\ rxBuffer = <<>> /\ txFifo = 0
  /\ uartPc = "idle" /\ left = 0 /\ late = FALSE
  /\ received = 0 /\ lastRead = 0 /\ discarded = 0 /\ overflown = FALSE

-----------------------------------------------------------------------------
(* The hardware and the interrupt.                                         *)

Receive ==
  /\ uartHal # "free" /\ received < MaxReceived
  /\ received' = received + 1
  /\ IF Len(rxFifo) < FifoLength
       THEN rxFifo' = Append(rxFifo, received') /\ UNCHANGED overflown
       ELSE overflown' = TRUE /\ UNCHANGED rxFifo
  /\ UNCHANGED <<uartHal, serialReady, rxBuffer, uartPc, sending, lastRead, discarded>>

\* The peer may stop the transmitter by its flow control for as long as it likes.
Send ==
  /\ txFifo > 0
  /\ txFifo' = txFifo - 1
  /\ UNCHANGED <<uartHal, serialReady, rxFifo, rxBuffer, uartPc, left, late, history>>

\* The interrupt takes everything from the FIFO, and drops what the ring cannot hold.
IrqHandler ==
  /\ uartHal = "irq" /\ rxFifo # <<>>
  /\ LET fits == {k \in 0 .. Len(rxFifo) : Len(rxBuffer) + k <= BufferLength}
         kept == CHOOSE k \in fits : k + 1 \notin fits
     IN  /\ rxBuffer' = rxBuffer \o SubSeq(rxFifo, 1, kept)
         /\ overflown' = (overflown \/ kept < Len(rxFifo))
  /\ rxFifo' = <<>>
  /\ UNCHANGED <<uartHal, serialReady, uartPc, sending, received, lastRead, discarded>>

-----------------------------------------------------------------------------
(* begin() and end()                                                       *)

\* The sketch goes from one place to the next.
Step(from, to) == uartPc = from /\ uartPc' = to

BeginInit ==
  /\ \/ Step("idle", "baud") /\ uartHal = "free" /\ uartHal' = "init"
     \/ Step("idle", "idle") /\ UNCHANGED uartHal
  /\ UNCHANGED <<serialReady, rxFifo, rxBuffer, sending, history>>

BeginBaud ==
  /\ Step("baud", "event") \/ Step("baud", "idle")
  /\ UNCHANGED <<uartHal, serialReady, rxFifo, rxBuffer, sending, history>>

BeginReady ==
  /\ Step("event", "idle")
  /\ uartHal' = "irq" /\ serialReady' = TRUE
  /\ UNCHANGED <<rxFifo, rxBuffer, sending, history>>

EndClear ==
  /\ Step("idle", "free") /\ uartHal # "free"
  /\ rxFifo' = <<>> /\ txFifo' = 0
  /\ UNCHANGED <<uartHal, serialReady, rxBuffer, left, late, history>>

EndFree ==
  /\ Step("free", "clear")
  /\ uartHal' = "free" /\ rxFifo' = <<>> /\ txFifo' = 0
  /\ UNCHANGED <<serialReady, rxBuffer, left, late, history>>

\* Mutant of EndRing: rx_buffer is not cleared.
EndRing_Kept ==
  /\ Step("clear", "idle")
  /\ serialReady' = FALSE
  /\ discarded' = received /\ overflown' = FALSE
  /\ UNCHANGED <<uartHal, rxFifo, rxBuffer, sending, received, lastRead>>

\* Mutant of EndRing: serial_ready stays.
EndRing_Ready ==
  /\ Step("clear", "idle")
  /\ rxBuffer' = <<>>
  /\ discarded' = received /\ overflown' = FALSE
  /\ UNCHANGED <<uartHal, serialReady, rxFifo, sending, received, lastRead>>

EndRing ==
  /\ Step("clear", "idle")
  /\ rxBuffer' = <<>> /\ serialReady' = FALSE
  /\ discarded' = received /\ overflown' = FALSE
  /\ UNCHANGED <<uartHal, rxFifo, sending, received, lastRead>>

-----------------------------------------------------------------------------
(* read(), write() and flush()                                             *)

Read ==
  /\ Step("idle", "idle") /\ rxBuffer # <<>>
  /\ lastRead' = Head(rxBuffer) /\ rxBuffer' = Tail(rxBuffer)
  /\ UNCHANGED <<uartHal, serialReady, rxFifo, sending, received, discarded, overflown>>

WriteBegin ==
  /\ Step("idle", "write") /\ uartHal # "free"
  /\ left' \in WriteSizes /\ late' = FALSE
  /\ UNCHANGED <<uartHal, serialReady, rxFifo, rxBuffer, txFifo, history>>

\* Mutant of WriteTurn: the loop waits until everything is written.
WriteTurn_Patient ==
  /\ uartPc = "write"
  /\ LET now == {left, TxLength - txFifo}
         n == CHOOSE m \in now : \A k \in now : m <= k
     IN  \/ /\ left' = left - n /\ txFifo' = txFifo + n
            /\ uartPc' = IF left' > 0 THEN "write" ELSE "idle"
         \/ n > 0 /\ uartPc' = "idle" /\ UNCHANGED <<left, txFifo>>
  /\ UNCHANGED <<uartHal, serialReady, rxFifo, rxBuffer, late, history>>

\* One turn of the loop; cyhal_uart_write() may fail.
WriteTurn ==
  /\ uartPc = "write"
  /\ LET now == {left, TxLength - txFifo}
         n == CHOOSE m \in now : \A k \in now : m <= k
     IN  \/ /\ left' = left - n /\ txFifo' = txFifo + n
            /\ uartPc' = IF left' > 0 /\ ~late THEN "write" ELSE "idle"
         \/ n > 0 /\ uartPc' = "idle" /\ UNCHANGED <<left, txFifo>>
  /\ UNCHANGED <<uartHal, serialReady, rxFifo, rxBuffer, late, history>>

FlushBegin ==
  /\ Step("idle", "flush") /\ uartHal # "free"
  /\ late' = FALSE
  /\ UNCHANGED <<uartHal, serialReady, rxFifo, rxBuffer, txFifo, left, history>>

FlushTurn ==
  /\ uartPc = "flush"
  /\ uartPc' = IF txFifo > 0 /\ ~late THEN "flush" ELSE "idle"
  /\ UNCHANGED <<uartHal, serialReady, rxFifo, rxBuffer, sending, history>>

\* 500 or 1000 milliseconds are over.
TimeOut ==
  /\ uartPc \in {"write", "flush"} /\ ~late
  /\ late' = TRUE
  /\ UNCHANGED <<uartHal, serialReady, rxFifo, rxBuffer, txFifo, uartPc, left, history>>

-----------------------------------------------------------------------------

UartTurn == WriteTurn \/ FlushTurn

UartNext ==
  \/ Receive \/ Send \/ IrqHandler
  \/ BeginInit \/ BeginBaud \/ BeginReady
  \/ EndClear \/ EndFree \/ EndRing
  \/ Read \/ WriteBegin \/ FlushBegin \/ UartTurn \/ TimeOut

\* A loop goes on, and time passes; that the transmitter ever sends is not assumed.
UartFairness == WF_uartVars(UartTurn) /\ WF_uartVars(TimeOut)

UartSpec == UartInit /\ [][UartNext]_uartVars /\ UartFairness

-----------------------------------------------------------------------------
(* Properties.                                                             *)

UartTypeOK ==
  /\ uartHal \in {"free", "init", "irq"} /\ serialReady \in BOOLEAN
  /\ rxFifo \in Seq(1 .. received) /\ Len(rxFifo) <= FifoLength
  /\ rxBuffer \in Seq(1 .. received) /\ Len(rxBuffer) <= BufferLength
  /\ txFifo \in 0 .. TxLength /\ left \in Nat /\ late \in BOOLEAN
  /\ uartPc \in {"idle", "baud", "event", "free", "clear", "write", "flush"}
  /\ received \in Nat /\ lastRead \in Nat /\ discarded \in Nat /\ overflown \in BOOLEAN

\* The bytes the sketch has read and may yet read.
Stream == <<lastRead>> \o rxBuffer \o rxFifo

\* read() returns bytes in the order of their arrival, each once, and after end()
\* none of those received before; without an overflow none is missing.
ReceivedInOrder ==
  /\ \A k \in 1 .. Len(Stream) - 1 : Stream[k] < Stream[k + 1]
  /\ uartPc \notin {"free", "clear"} =>
       /\ Len(Stream) > 1 => Stream[2] > discarded
       /\ ~overflown =>
            Len(Stream) - 1 = received - (IF lastRead > discarded THEN lastRead ELSE discarded)

\* Between two calls a Serial that says it is ready receives, and one that does not
\* holds no byte of an earlier begin(), although begin() fails anywhere.
ReadyReceives ==
  uartPc = "idle" => (serialReady <=> uartHal = "irq") /\ (~serialReady => rxBuffer = <<>>)

\* write() and flush() return although the peer stops the transmitter for good.
CallsReturn == uartPc \in {"write", "flush"} ~> uartPc = "idle"
=============================================================================
