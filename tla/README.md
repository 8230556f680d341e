# A formal model of the Arduino core for PSOC™ 6

This directory holds TLA+ modules about the Arduino core for Infineon PSOC 6
boards: models of its drivers and of its Wi-Fi library that TLC checks on small
instances, and theorems about them that TLAPS proves for every value of the
constants. `PROJECT.json` lists components, runs, hazards and theorems, and
names for each definition the lines of code it stands for.

Contents: [the system](#1-the-system) · [modules](#2-the-modules-and-the-code)
· [runs](#3-what-tlc-checks) · [fairness](#4-fairness) · [proofs](#5-what-is-proved)
· [assumptions about external code](#6-what-is-assumed-of-code-outside-the-repository)
· [findings](#7-what-the-work-has-found) · [plan](#8-the-plan)
· [running it](#9-running-it)

## 1. The system

An Arduino sketch is `setup()` and a `loop()` that `main.cpp` calls for ever, in
one FreeRTOS task. Beside it run

- **interrupts**: the PDM/PCM block's DMA completion, the I2C slave's events, the
  UART's receive interrupt, timers (Tone), pins; on the single core an interrupt
  runs from start to end between two instructions of the sketch;
- **library threads**: the worker of the secure sockets library, which runs the
  connection, receive and disconnection callbacks of the WiFi library, and the
  thread of the Wi-Fi connection manager (WCM), which runs the scan callback.
  They preempt the sketch and are preempted by it.

The code takes no lock anywhere: what the parties share, they share as plain or
`volatile` variables, ring buffers, vectors and static counters. That is where
nearly all the hazards are.

| component | state | operations | who meets whom | what makes it correct |
|---|---|---|---|---|
| **PDM** (`PDM.cpp`) | ring of samples with head and tail, capacity, flags, HAL object | `setBufferSize`, `begin`, `end`, `available`, `read`, the DMA interrupt | the interrupt writes the ring while the sketch reads; the user's callback wakes the sketch | first in first out, lost only at the end of a block that does not fit; nothing read twice or before it is captured; the interrupt never meets a freed ring; no lost wakeup |
| **Socket** (`SecSocket.cpp`) | handle, status, receive ring of each object; static socket count and "initialised" | `begin`, `connect`, `accept`, `receive`, `receiveCallback`, `flush`, `end` | worker thread and sketch, on the ring, the status and the count | no byte lost, doubled or reordered; the count matches the handles the library holds; the library is up while a socket exists |
| **WiFiClient** | a shared `Socket` | `connect`, `connected`, `read`, `stop`, two callbacks | the disconnection callback ends the socket under the sketch | looks connected only while it is; ended once; the sketch notices the end |
| **WiFiServer** | listening socket, vector of clients, index of the last one | `begin`, `available`, `write`, `end`, three callbacks | the worker appends to and erases from the vector the sketch walks | bytes reach the right client; the vector holds exactly the open clients, but those that could not be stopped |
| **WiFiClass** (`WiFi.cpp`) | mode, status, scan results | `begin`, `beginAP`, `disconnect`, `end`, `scanNetworks`, scan callback | the scan callback fills the list while the sketch waits | mode and status agree with the WCM through all failures; results belong to the last scan; a scan returns |
| **WiFiUdp** | socket, vector of received packets, the packet being read, transmit ring | `begin`, `stop`, `parsePacket`, `read`, `flush`, `beginPacket`, `write`, `endPacket`, callback | worker and sketch on the vector | a queue of datagrams: each a packet of its own, in order, once; a datagram sent is what was written for it |
| **Wire** (`Wire.cpp`) | receive and transmit rings, mode, addresses | `begin`, `end`, `beginTransmission`, `write`, `endTransmission`, `requestFrom`, `read`, the slave's two services | the services run the sketch's callbacks inside the interrupt, between calls of the sketch | a transmission carries exactly what `write` took; bytes come out in order; the receive loop ends, and stores what it should |
| **SPI** (`SPI.cpp`) | HAL object, settings, `_is_initialized` | `begin`, `end`, `beginTransaction`, `endTransaction`, transfers | the sketch alone; the HAL may refuse any call | the hardware works with the settings of the last transaction, on an object that is allocated (`usingInterrupt` and `endTransaction` do nothing) |
| **Uart** (`Uart.cpp`) | receive ring, HAL object, `serial_ready` | `begin`, `end`, `read`, `write`, `flush`, receive interrupt | the interrupt fills the ring between any two calls; the peer stops the transmitter | bytes in order, each once, none of before `end()`; ready means receiving, though `begin()` fails anywhere; `write` and `flush` return |
| **Tone** (`Tone.cpp`) | one PWM and one timer object, two flags, the pin | `tone`, `noTone`, timer interrupt | the timer stops the tone between any two calls of the HAL | flags tell what is allocated; a tone with a duration has its own timer, and ends |
| **interrupts** (`interrupts.c`) | one callback structure | `attachInterrupt`, `detachInterrupt` | all pins share the structure; edges come inside a call | the pin attached last never runs the callback of another |
| **analog I/O** (`analog_io.c`) | tables of ADC channels and PWM objects, resolution | `analogRead`, `analogWrite`, resolution and frequency | shares the pins, which the hardware manager reserves, with digital I/O | one slot per pin, reserved for it; an output has what was asked for last |
| **time, Pulse** | microsecond timers | `millis`, `micros`, `delay`, `delayMicroseconds`, `pulseIn` | other threads take the processor between two readings of the timer | waits are kept, and end, across the wrap-around of the timer |
| **Shift, itoa, Random** | – | `shiftIn`, `shiftOut`, `itoa` and relatives, `random` | – | bits and digits stand for the number; results in range |
| **digital I/O** (`digital_io.c`) | two values per pin | `pinMode`, `digitalRead`, `digitalWrite` | `digitalRead` overwrites what `pinMode` decides by | `pinMode` sets the level of its mode, whatever came before |
| **main.cpp, yield.c** | – | start-up | – | – (gives the schedule) |

Behaviours that are hard to test, and what the models do about them: callbacks
between any two memory accesses (PDM, Socket), requests sized before a blocking
call and used after it (Socket), counters that are a load and a store (Socket),
indices found before and used after a call (WiFiServer), a vector that one thread
extends and another shortens (WiFiUdp, WiFiServer), calls of the library
that fail in any order (all Wi-Fi parts, PDM), full and empty buffers
everywhere, an 8-bit index beside a 9-bit bound (Wire), a 16-bit intermediate
(WiFiServer), handles that come back (WiFiServer), answers that never come
(WiFiClass), timers that wrap around (time), a timer left over from an earlier call
(Tone), an initialisation that fails half way (Uart, SPI, analog I/O), one
remembered value with two meanings (digital I/O). The hazards are listed one by one,
at their lines, in `PROJECT.json`.

## 2. The modules and the code

| module | models | how |
|---|---|---|
| `SampleFifo` | what PDM promises | abstract specification: a bounded queue with `Resize`, `Offer`, `Take` |
| `Pdm` | `PDM.cpp` | `Isr` is one step, the sketch's `available()` and `read()` are split at their accesses to the indices and slots |
| `PdmSketch` | the example `raw_data_output.ino` on `Pdm` | composes: adds the flag `dataReady` and the sketch's program counter to `Pdm`'s actions |
| `PdmExpand` | the widening loop of the interrupt | the memory as a function of halfwords, one turn a step |
| `SocketRx` | `receiveCallback`, `receive`, `flush` | both threads split at their accesses to the ring; the TCP stream is numbered |
| `SecSocket` | `begin`, `accept`, `end`, count and initialisation | steps of methods for any thread, split at the calls of the library (each may fail) and at the accesses to the static flag and count; no specification of its own |
| `WiFiClient` | `connect`, `stop`, both callbacks, under `WiFiWebClient.ino` | composes `SecSocket` for two threads and one object |
| `WiFiServer` | the server with the sockets of its clients | composes `SecSocket` for the listening object and one object per connection; both threads walk the list entry by entry |
| `ServerWrite` | the loop of `WiFiServer::write()` | one client a step |
| `WiFiClass` | `begin`, `beginAP`, `disconnect`, `end`, `scanNetworks`, scan callback | the WCM as two variables, `wcm` and `link`, beside the driver's `mode` and `status`; `scanNetworks` and the callback step by step |
| `Wire` | both rings, both modes, both services | a call of the sketch is one step, the receive service is modelled turn by turn |
| `DatagramQueue` | what WiFiUDP promises | abstract specification: a queue of packets, each with its sender |
| `WiFiUdp` | `WiFiUdp.cpp` with the datagram side of `SecSocket.cpp` | the worker receives, then appends; the sketch copies, then erases; sending is one step a call |
| `Waits` | `time.c`, `Pulse.cpp` | a turn of a waiting loop is a step that takes some microseconds |
| `Uart` | `Uart.cpp` | the interrupt is one step; `begin`, `end`, `write`, `flush` are split at their calls of the HAL; received bytes are numbered |
| `Tone` | `Tone.cpp` | `tone` and `noTone` split at their calls of the HAL, the timer's interrupt in between |
| `ExternalInterrupts` | `interrupts.c` | both calls line by line; what an edge would run is a function of the state, `Runs` |
| `DigitalIo` | `digital_io.c` | a step is a call |
| `AnalogIo` | `analog_io.c` | composes: the tables of slots, on the pins of `DigitalIo`, tied by `pinOwner` |
| `Spi` | `SPI.cpp` | a step is a call; the HAL's refusals are alternatives |
| `Conversions` | `itoa.c`, `Shift.cpp`, `Random.cpp`, the 16-bit transfer of `SPI.cpp`, the mapping of `analogRead` | a step is a call; the loops are recursive functions or functions on the bits |
| `*_proofs` | theorems | extend the modules they are about: `Pdm_proofs` the three of PDM, `WiFi_proofs` `WiFiClass`, `ServerWrite` and `WiFiUdp`, `Drivers_proofs` the drivers of the core, `Waits` and `Conversions`, the others the module of that name |
| `MC*` | instances for TLC | constants only; `MCParts` puts the drivers of the core and the modules about one algorithm side by side, and a behaviour executes one of them, the `task` |

State corresponds by name: `ringHead` is `_ringHead`, `rxBuf` is `rx_buf`,
`count` is `global_socket_count`, and so on; the comment at each VARIABLE says
which. Variables with no counterpart record history or the outside world, and no
guard of the program's own steps depends on the history: `promised`, `want`,
`out` and `ended` (Pdm), `arrived`, `wire`, `events`, `taken`, `room`, `got`
(SocketRx), `stack`, `up`, `leaks` (SecSocket), `owner`, `closed`, `unread`, `events`
(WiFiServer), `overtaken`, `peer`, `event` (WiFiClient), `wcm`, `link`, `scan`,
`stray` (WiFiClass), `in`, `out`, `since`, `refused` (Wire), `arrived`, `stack`,
`events`, `delivered`, `failed`, `out`, `since` (WiFiUdp), `elapsed`, `seen`,
`wrapped` (Waits), `received`, `lastRead`, `discarded`, `overflown` (Uart),
`request`, `ownTimer`, `toneCalls`, `exited` (Tone), `latest` (ExternalInterrupts),
`drive`, `latch`, `pinOwner`, `touched` (DigitalIo), `pwmOutput`, `wanted` (AnalogIo),
`spiHal`, `spiAllocated`, `spiAsked` (Spi). Of these `request` holds the arguments of
a call that is under way, and `drive`, `latch`, `pinOwner`, `pwmOutput`, `spiHal` and
`spiAllocated` are the hardware.

Some definitions are followed by the word *Mutant* in their comment: they are the
definition below them with a plausible bug, used to confirm that the property
they are listed with in `PROJECT.json` is able to fail.

### Granularity

- *PDM*: the indices are machine words (`size_t`), read and written at once, so an
  access is a step. The interrupt cannot be interrupted by the sketch: one step.
- *SocketRx*: one step per access to the ring, because worker and sketch preempt
  each other. `receive()` calls `available()` twice, and so does the model.
- *SecSocket*: every call of the library and every access to the static flag and
  count is a step of its own; `++` and `--` are a load and a store, and the test
  for zero reads the count again.
- *WiFiServer*: an update of the vector is one step, and so is each turn of a method
  or callback that walks it; what a callback then does with the entry it found is
  a later step. The vector's memory (dangling references and iterators) is outside of
  the model: in particular the `for` of `receiveCallback()` ends where the list ended
  when it began, and may read behind a list that the sketch's `end()` has shortened
  since; the model's walk ends where the list ends now.
- *Wire*: a call of the sketch is one step against the interrupt; inside, the
  driver only touches a ring through atomic operations and its own variables.
- *WiFiUdp*: receiving and appending are two steps of the worker, copying and
  erasing two of the sketch. The ring of the socket is the worker's alone here,
  and calls for sending touch nothing that is shared: each is one step.
- *Waits*: a turn of a loop reads pin and timer at the same moment; what the
  processor does meanwhile is in the time the turn takes.
- *Uart*, *Tone*, *ExternalInterrupts*: an interrupt runs from start to end between
  two calls of the HAL, or between a call and an assignment to a flag.
- *DigitalIo*, *AnalogIo*, *Spi*: no interrupt and no thread touches their state, so
  a call is one step, with every outcome of the calls it makes.
- *WiFiClass*: the places between the calls of `scanNetworks()` are separate
  steps; the callback is three: it copies a result, counts it, and sets the status
  the sketch waits for. A reset of the count between the first two is possible only
  after a `cy_wcm_stop_scan` that failed (section 6).

## 3. What TLC checks

| run | question | instance |
|---|---|---|
| `pdm` | is the ring safe between interrupt and sketch, and does it implement `SampleFifo`? | rings for 0, 1 and 3 samples, blocks of 2: a block fits, fits in part, or not at all; reads of 1 and of more than there can be |
| `pdm_end` *(violation)* | does `end()` release everything? | as `pdm` |
| `pdm_sketch` | does the sketch lose a wakeup, and is everything captured read? | a ring of 3, blocks of 2 |
| `socket_rx` | does the stream survive two threads in one ring? | ring of 3, stream of 5 (so the ring fills and bytes stay in the stack), reads of 1 and 2 |
| `wifi_client` | `stop()`, `connect()` and the disconnection callback on one socket | 1 client, 2 handles (a handle that is reused, and one that is not), 1 failed create, 2 empty receive events |
| `wifi_server` | are bytes, list, handles and count in step? | 3 handles and four worlds: 3 connections and handles that come back, with a sketch that polls and reads; 2 connections, with a sketch that also stops clients, or ends the server; 1 connection, with a sketch that does both |
| `wifi_server_reuse` *(violation)* | the same with a sketch that stops clients, on a stack that reuses handles | 2 connections, 2 handles |
| `wifi_class` | do mode, status and scan results stay right whatever fails? | a list of 2, a time-out of 2 turns, 3 scans |
| `wire` | are the transmissions and the received bytes right with interrupts in between? | rings of 3, an index with 3 values (the bound reaches the number of values, as 256 does for the 8-bit index), 5 bytes in, 4 out |
| `wifi_udp` | is the vector of packets a queue of datagrams, and is what is sent what was written? | a ring of 3, packets of 2; three datagrams: one that does not fit the ring, an empty one, one that fits; 2 calls of `begin()`, 4 bytes written |
| `parts` | are the drivers of the core and the algorithms right, each by itself? | *widening*: 4 samples with the extreme 16-bit values, -1 and 0; *minimum of `write()`*: modulus 4 instead of 65536, sizes below, at and above it, 0 to 3 clients, every combination of partial sends; *conversions*: longs of 5 bits in 6 bases and two that are refused, every byte, every random number, readings at both ends and in the middle; *waits*: a timer with 16 values, 4 microseconds to the millisecond, turns of 1 to 3; *Uart*: ring and FIFOs of 2, 5 bytes in, writes of 0, 1 and 3; *Tone*: 2 pins, 4 calls; *interrupts*: 2 pins, 2 callbacks; *digital*: 2 pins; *analog*: 2 pins for 1 ADC channel and 2 PWM objects; *SPI*: 2 clocks, 5 modes, 2 bit orders |
| `wire_receive` *(violation)* | does the ring hold the bytes the callback is told of? | ring of 3, slave |

What the properties say, per run:

- `pdm`: `InterruptFindsRing` (a pending capture always has a ring),
  `CopyNotOverwritten` (the slot being copied is not written), `FifoSpec`
  (refinement: `Pdm` implements `SampleFifo`). `Resize` empties the abstract queue and
  may come at any moment, so the refinement speaks of the samples between two calls of
  `begin()`, `end()` or `setBufferSize()`, and not of when these are made.
- `pdm_sketch`: `NoLostWakeup`, `SamplesAreRead`.
- `socket_rx`: `NoByteLost`, `ReceiveIsBacked`, `LeftBehindOnlyWhenFull`, and
  `EveryByteTaken`: every byte is taken by a sketch that keeps reading, or stays
  in the stack with no event to fetch it, which only happens after a callback
  that had no room for it.
- `wifi_client`: `ConnectedIsOpen`, `EndedOnce`, `SketchStops`. The first and last
  leave out one case that the model contains and the code does not handle: the
  disconnection callback overtaking `connect()` (`overtaken`).
- `wifi_server`: `ReceivedByOwner` in all worlds; `ListIsExact`,
  `WorkerCountIsExact`, `LibraryStaysUp` in the one whose sketch neither stops
  nor ends anything, since with that the code breaks them (see hazards).
  `ListIsExact` speaks of the moments between callbacks: every entry has an open
  handle, and every client the library holds has one entry. Its one exception is what
  the code leaves behind when a `stop()` fails in the disconnection callback, which
  erases the entry all the same: a handle without an entry, whose peer has closed and
  whose object is in `ERROR`. Any other handle without an entry, or two entries for
  one, would violate it.
- `wifi_class`: `Agreement`, `ResultsAreOfLastScan` (only the last scan's, and no
  more than the list holds), `ScanReturns`.
- `wire`: `InOrder`, `TransmissionIsExact`, `LoopEnds`.
- `wifi_udp`: `QueueSpec` (refinement: `WiFiUdp` implements `DatagramQueue`),
  `SentIsWritten`, and `EveryDatagramParsed`: a datagram becomes a packet and
  leaves the vector, unless a receive failed, the callback was not registered, or
  the socket was stopped.
- `parts`, algorithms: `WidenedInPlace` (no sample is overwritten that is still
  needed); `EqualMeansAll`, for all sizes; `ResultsAreRight`, which puts each
  conversion beside a definition of its own of what the result stands for;
  `WaitsAreKept`, which leaves out `delay()` across the wrap-around, where it ends
  early; `WaitEnds`, for waits that fit the timer.
- `parts`, Uart: `ReceivedInOrder`, `ReadyReceives`, `CallsReturn`.
- `parts`, Tone: `ToneAgrees` (between two calls, wherever the interrupt came, the
  flags tell what is allocated and a timed tone has a timer started for it),
  `TimedToneEnds`. A tone *without* a duration may be ended by the timer of an
  earlier one, which `noTone()` leaves running; no property excludes that.
- `parts`, interrupts: `OwnCallback`, which speaks of the pin attached last; the
  pins attached before it do run its callback.
- `parts`, digital and analog: `ModeSetsLevel`, unless a `digitalRead()` has put a
  level from outside into the value `pinMode()` decides by; `SlotPerPin`, `PwmFollows`.
- `parts`, SPI: `SettingsAreApplied`.

The types of the variables and the inductive invariants are proved (section 5) and not
checked again; `Conversions`, whose one variable is the last call, has none of its own.

**Why the bounds are enough.** The buffers are the smallest that can be empty,
partly full, full, and have a wrapped-around content; the streams are longer than
the buffers, so that every one of these is met more than once. Three connections
are one to erase from the middle of the list with a neighbour on each side, and
more than one handle is needed for a stale entry to meet a new one; with three, one
may be held for good by a failed `stop()` while the listener and a client go on. Three scans
are one before, one stray and one after. The timer of 16 values lets a wait meet
its wrap-around at every phase, and a turn of 3 can pass over the last 2 of them.
Five bytes overflow the UART's ring and FIFO, together 4, and leave one to come
after `end()`. Four tones are one whose timer is left over, one it meets, one with a
timer of its own and one after. Two pins for one ADC channel, and two for two PWM
objects, are a table that runs out and one that does not.
Everything that is proved in section 5 holds for all of these constants; there
the instances only served to find the invariants.

**Deadlock** is checked for `socket_rx`, `wire`, `wifi_class` and `wifi_udp` (no state
is without a successor). In the others a state may have none for a reason: the
example sketch has come to its end (`wifi_client`), the loop is done, the program
has exited or the bound on calls is reached (`parts`), the driver or server was given
up or never set up (`pdm*`, `wifi_server*`).

## 4. Fairness

Liveness is only stated where the schedule of the system gives it.

- `PdmSketch`: `WF(SketchStep)`. `loop()` is called for ever (`main.cpp`) and an
  interrupt always ends. Nothing is assumed of the interrupt: it may be
  arbitrarily fast and may cease for good.
- `SocketRx`: `WF(Worker)`, `WF(Receive)`: both threads are scheduled
  preemptively (`FreeRTOSConfig.h`), and the sketch polls, as the examples do.
  Arrivals and `flush()` are not fair.
- `WiFiClient`: weak fairness of each thread; the peer may never close.
- `WiFiClass`: `WF(ScanStep)`, the sketch's own steps. The callback is not fair:
  the WCM may never answer, and the loop's time-out must be enough.
- `WiFiUdp`: `WF(Worker)`, and `WF(ParseFront \/ ParseErase)`: the sketch parses
  when there is a packet, as the examples' `loop()` does. The two are the
  consecutive steps of one call.
- `Waits`: `WF(Turn)`: a loop of the one sketch goes on.
- `Uart`: `WF(UartTurn)`, the turns of the loop of `write()` or of `flush()`, of which
  the sketch is in one at a time, and `WF(TimeOut)`: the time of `millis()` passes.
  The transmitter is not fair: the peer may hold it for ever.
- `Tone`: `WF(ToneStep)`, the consecutive steps of one call, and
  `WF(HandleTimerEvent)`: a running timer runs out.
- `Wire`: `WF(StoreByte \/ LeaveLoop)`: a loop inside an interrupt service runs
  on.

There is no strong fairness and no fairness of a disjunction that hides the
starvation of one of its parts.

## 5. What is proved

TLAPS checks, for all values of the constants that satisfy the module's ASSUME
(sizes are natural numbers; what must not be zero is not zero):

| module | theorems | from |
|---|---|---|
| `Pdm_proofs` | `Typing`, `InterruptSafety`, `ReaderSafety`, `CopySafety`, `AvailableKept`, `Refinement` | `Pdm!IInv` |
| | `Widening` | `LoopInvariant` |
| | `WakeupSafety` | `SketchPlaces`, `FlagInv` |
| `SocketRx_proofs` | `Typing`, `Delivery`, `Backing`, `LeftBehind` | `SocketRx!IInv` |
| `SecSocket_proofs` | lemmas about the steps of a socket's methods | – |
| `WiFiClient_proofs` | `TypeCorrect`, `ConnectedOnlyOpen`, `SocketEndedOnce`, `LibraryUpForClient` | `IInv`, `LibraryInv` |
| `WiFiServer_proofs` | `TypeCorrect`, `BytesReachTheirOwner`, `ListIsTheOpenClients`, `CountIsTheWorkers`, `LibraryUpForServer` | `IInv` |
| `WiFi_proofs` | `Typing`, `InAgreement`, `LastScan`, `Reported` | `ModeInv`, `ScanInv`, `ReportInv` |
| | `Smallest`, `EqualTellsAll` | `WriteIInv` |
| | `SentAsWritten`, `UdpIsAQueue` | `SendInv`, `UdpInv` |
| `Wire_proofs` | `Typing`, `Order`, `Exactness`, `ClosedForm` | `RxInv`, `TxInv` |
| `Drivers_proofs` | `UartTyping`, `UartOrder`, `ReadySafety` | `UartIInv` |
| | `ToneTyping`, `ToneSafety` | `ToneIInv` |
| | `InterruptTyping`, `CallbackSafety` | `IntIInv` |
| | `AnalogIoTyping`, `PinSafety`, `SlotSafety`, `PwmSafety` | `PinIInv`, `SlotIInv`, `PwmIInv` |
| | `SpiTyping`, `SpiSafety` | `SpiIInv` |
| | `WaitsTakeTheirTime` | `WaitIInv` |
| | `ConversionsAreRight` | – |

**Pdm.** `CopyNotOverwritten` is not inductive: that the interrupt does not
reach the slot being copied follows from the free slot `_ringFree()` keeps, and
needs that both indices are inside the ring (`IndicesInRing`), that the flags and
the ring go together (`LifeCycle`), that unread slots hold samples
(`UnreadAreCaptured`) and that the counts the sketch holds are backed
(`CountsAreBacked`). The heart is the arithmetic of circular distances: lemmas
say how `Distance` changes when either index moves on, and the interrupt's step
is one lemma about the whole of `RingWrite`, with one clause for each part of the
invariant. *Refinement* maps `room` to the capacity less one and `queue` to the
slots from tail to head; `Isr` maps to `Offer`, `AdvanceTail` to `Take`, set-up
and tear-down to `Resize`, the rest to stuttering. *The sketch*: each of its steps is
one of the driver's or none, so `Pdm!IInv` holds of the composition too; what is added
(`FlagInv`) says, for each place of `loop()` at which the flag is down, that the number
the sketch holds there is all the ring has: an interrupt after that sets the flag.

**SocketRx.** What makes delivery hold is that the room the worker found is
*reserved*: from its request to its last `store_char()` only the sketch touches
the ring, and the sketch only makes room. `ChunkFits` says so. `Follows(seq, n)`,
"`seq` continues the stream after byte `n`", gives the lemmas about appending,
removing the head and cutting.

**WiFiClient.** What the theorems rest on is who can be inside a method while what
changes. Nothing can close the socket before the sketch is past the `begin()` that
`connect()` calls, so that part runs alone, and what it leaves is known exactly
(`SketchInv`). After it the sketch and the worker may both be in `end()`, for the same
handle: the second of them to disconnect fails and leaves, so the other is alone with
the handle and the count (`WorkerInv`, `HandleInv`, `CountInv`); a disconnect or delete
that fails for a reason of its own leaves the handle with the library, and counted. That the library is up
as long as the client has a socket is `LibraryUpForClient`, which no run states.

**WiFiServer.** The entries of the list are connections in the order in which they were
made, and those whose callback is still queued come after them (`OrderInv`): so an entry
occurs once, and erasing one leaves the others apart. An entry is *settled* when its
object has been accepted and is not being ended; unless the sketch stops a client, each
settled entry is open and has a handle that no other settled entry, nor the listener,
has (`EntriesInv`), and the object that the worker ends has it until it is deleted
(`EndedInv`). A connection has one disconnection, which finds its handle still open
(`ClosedInv`). After one `begin()`, the library holds only sockets that the server
knows or that a failed `stop()` has left behind: those have no entry, and none is on
its way to them (`HoldInv`, with `Abandoned` and `Gone`), so they are not mistaken for a
client again. And at most one thread is inside a method (`OnceInv`).
`BytesReachTheirOwner` supposes that the sketch stops no client, or that the library
does not reuse handles (`OwnerInv`); the run `wifi_server_reuse` shows why. The three
about list, count and library suppose `begins <= 1`: a second `begin()` replaces the
listener's handle without closing it, and they then are false. The runs have
`MaxBegins = 1`.

**WiFiUdp.** `SendInv` says that the buffer is as long as what has been written since it was
empty, up to the size of a packet. For the received packets, `UdpInv` says that the socket's ring is empty
unless the worker has just received a datagram, that the stack holds later datagrams
than what the worker has taken, in increasing order, and that there is a packet when
`parsePacket()` comes to erase one. *Refinement* of `DatagramQueue`: the callback's push maps to `Deliver` or, when
no datagram was there, to `Fail`; taking the front maps to `Parse`, and erasing it,
which comes later, to a stutter.

**ServerWrite.** The invariant is the loop's: the result so far is a lower bound
of what passed through the intermediate and is one of the values. The theorems
differ in how they get from there past `Modulus`.

**WiFiClass.** `Agreement` needs what `begin()` and `beginAP()` have tested when
they come to connect. `ScanInv` says that, unless a scan could not be stopped, no
scan runs outside of the waiting loop, and a callback that has copied a network
counts it at the place of the copy, so it never adds to a list that was reset for
another scan; `ReportInv` that the list only shrinks inside
`scanNetworks()`.

**Wire.** The receiving and the transmitting half do not disturb each other, so
their invariants are proved apart. For the receiving half the loop keeps
`2 * stored <= free + 1`, from which the index cannot wrap around and the number
stored has a closed form: the smaller of what the master wrote and half of the
free part, rounded up. For the transmitting half the ring is, as a set, what was
written since the last begin or drain less what was refused, in increasing order.

**Drivers.** *UART*: the pending bytes, ring and FIFO as one sequence, are in order
between the last byte that is gone and the last one received, and unless a byte was
dropped, the *i*-th of them is the *i*-th after it: put like this the fact is
inductive, where a count of them is not. *Tone*: flag and PWM object differ at two
places only; while the tone plays, its timer cannot have run out before it was
started. *Interrupts*: the structure holds the last pin's callback, and a pin without
one has no events. *Pins*: a step of `analog_io.c` changes the pins by reserving one or
not at all, so what `pinMode()` guarantees is proved once and holds in the composition;
the slots are unique because `pwm_alloc()` looks for the pin's first, and because the
channels are taken from the first on; a slot agrees with what was asked of its pin even
after a failed call, which is why the next call that succeeds puts everything right.
*Waits*: the difference of two readings of the timer is the time that has passed, until
more has passed than the timer counts; so a loop that leaves because of the difference
has waited at least that long, and one that goes on has not waited so long before
its last turn. `delay()` reads milliseconds: its call came within the one that `start`
names. Both waits of `pulseIn()` are within one time-out. The module assumes that its
bound `MaxElapsed` is not below the timer's range, and that a turn is shorter than it.
*Conversions*: a step is a call and there is one, so the property is inductive as it is,
and the work is in the operators. `Digits` is a recursive function over the unsigned
numbers; that the recursion defines one, and what it gives, is shown each by the least
number for which it would fail, since a quotient is smaller than its number. That the
digits are not more than `Bits` needs the powers of two to double at each step, which
the provers do not know of their `^`: the lemma derives it from counting subsets
(`FS_SUBSET`). Shifts are the eight quotients of a byte, one after the other.

Some theorems state more than a run checks: the types, `ReaderSafety` (the count the
sketch works with is backed by unread slots), `AvailableKept` (a `read()` of what
`available()` returned delivers it all), `Smallest` (`write()` returns the least that
any client took), `Reported` (a network that was reported stays in the list) and
`ClosedForm`.

**Only model-checked**: every liveness property (`SamplesAreRead`,
`EveryByteTaken`, `SketchStops`, `ScanReturns`, `LoopEnds`, `EveryDatagramParsed`,
`WaitEnds`, `CallsReturn`, `TimedToneEnds`): liveness under fairness and ENABLED are
outside of the prover's reach. Besides these the three violations, for which a
counterexample is the point. Every safety property of a passing run is a theorem.

## 6. What is assumed of code outside the repository

The HAL, the ArduinoCore-API and the secure sockets and WCM libraries are not
part of the repository. The models take of them what the code relies on:

- a `RingBuffer` operation is atomic, drops what does not fit and yields -1 when
  empty (its element count is in fact an increment on one side and a decrement on
  the other; a lost update of it is outside of the models);
- `cy_socket_recv` returns what there is, up to the size asked for, and fails
  after a time-out when there is nothing; every arrival raises an event, which
  may coalesce with one that waits;
- every datagram raises an event of its own; `cy_socket_recvfrom` takes one
  datagram, discards what there is no room for, and fails without storing a sender
  when there is none;
- the worker runs one callback at a time, in the order of the events;
- a handle is open until `cy_socket_disconnect`, which fails on one that is not,
  and gone after `cy_socket_delete`; whether its value comes back for a new
  socket is left open (`reuse`) where it makes a difference;
- any call of these libraries may fail, without effect: a disconnect or delete of an
  open handle too, after which the library still holds the socket;
- a peer that closes raises one disconnection event, and may leave bytes unread;
- `cy_wcm_start_scan` fails while a scan runs, and a callback that has copied a
  network has counted it when `cy_wcm_stop_scan` or `cy_wcm_deinit` returns with
  success (`CallbackHasCounted`);
- `cyhal_i2c_init` leaves the object as it was when it fails, as it may on one that is
  in use: `begin()` of Wire may be called again without an `end()`;
- an asynchronous PDM read raises one interrupt, and none after its abort;
- `cyhal_uart_init` and `cyhal_spi_init` leave the object as it was when they fail,
  and fail on one that is allocated; a call on a freed object fails or does nothing;
- the hardware manager gives a pin to one user at a time: the `init` of a second one
  fails until the pin is freed;
- the interrupt of a registered pin runs the callback that the shared structure holds
  at that moment, and `cyhal_gpio_enable_event` replaces the events of the pin;
- sketches call `end`, `write` and `flush` of a `Serial` that was begun, give pin
  numbers that exist, and frequencies of at least 1 Hz.

## 7. What the work has found

Three disagreements with what the repository says of itself, each a run that TLC
answers with a counterexample:

1. `pdm_end`: `PDM.h:28` says of the destructor "release all resources". It calls
   `end()`, which does nothing unless `begin()` has succeeded: after
   `setBufferSize()` alone the ring stays allocated, after a `begin()` that failed
   late the HAL object does.
2. `wire_receive`: `Wire.cpp:194`, "update rxBuffer to reflect the number of bytes
   received". The loop compares its growing index with the shrinking room and
   breaks half way; the callback is told the full number.
3. `wifi_server_reuse`: `WiFiServer.cpp:130`, "find the client which has triggered
   the callback". A client the sketch has stopped stays in the list with its
   handle; when the stack reuses the handle, the stale object gets the bytes.

Weaknesses no document of the repository contradicts are not reported as
findings. They are in the models, and in the hazards with a note where a property
had to leave them out: `receive()` that calls `available()` twice and may copy
past its `len`; a receive event used up by a full ring; `connect()` overwriting
the status of a socket that is already gone; the static count shared without a
lock; `end()` of the server skipping every second client; a failed scan that
leaves the driver in a mode no `begin` accepts.

## 8. The plan

In order of importance; what is done is on disk.

1. `SampleFifo`, `Pdm`, `Pdm_proofs`: the ring between interrupt and sketch, with
   refinement. **done**
2. `PdmSketch`, `PdmExpand`: the sketch's flag; the widening. **done**
3. `SocketRx`, `SocketRx_proofs`: the receive path. **done**
4. `SecSocket`: life and count of the sockets. **done**
5. `WiFiServer`: composition with its clients. **done**
6. `ServerWrite`: the minimum of partial writes. **done**
7. `Wire`, `Wire_proofs`: both modes. **done**
8. `WiFiClient`: `connect()` and the callbacks. **done**
9. `WiFiClass`, `WiFi_proofs`: mode, status and scan. **done**
10. `WiFiServer` begun or ended more than once; `ServerWrite` composed with a list
    that changes under the loop.
11. `DatagramQueue`, `WiFiUdp`: the vector of packets between the callback and
    `parsePacket()`. **done**
12. `Waits`, `Conversions`: the functions of the core without a driver. **done**
13. `Uart`: the receive ring, and the loops that wait for the transmitter. **done**
14. `Tone` with its timer; `ExternalInterrupts`, the structure all pins share; `Spi`,
    the settings and the HAL's refusals. **done**
15. `DigitalIo`, `AnalogIo`: `pinMode`; the allocation of channels and PWM objects on
    the pins they share. **done**
16. `Drivers_proofs`: the safety of items 12 to 15. **done**
17. The safety of `PdmSketch`, `WiFiClient`, `WiFiServer` and `WiFiUdp`, and that
    `WiFiUdp` implements `DatagramQueue`. **done**
18. `ResultsAreRight` of `Conversions`. **done**

**Not modelled**, and why:

- `main.cpp` and `yield.c` have no state beyond the schedule that section 4 uses;
- the board variants (`src/variants/*`) are pin tables, and start-up code and
  configuration that the vendor's tools have generated: register values and macros,
  written once before `main()`. They are by far the most lines of the repository; the
  program's own code, in `cores/psoc6/` and `libraries/`, is a fifth of it, and what
  the models cover is to be measured against that fifth;
- `setGain`, clock set-up, addresses, credentials, ping and queries only pass values
  on; so do the frame format of the UART and the SPI transfers but the 16-bit one;
- the tools, examples (but for two) and workflows do not run on the board;
- item 10 of the plan is open; what `write()` does with a list that changes under its
  loop depends on the memory of the vector, of which the models only have the content.

## 9. Running it

    tlc -config MCPdm.cfg MCPdm.tla
    tlapm Pdm_proofs.tla

and likewise for the other configurations and `*_proofs` modules. Each run of TLC
ends within a minute or two on two workers.
