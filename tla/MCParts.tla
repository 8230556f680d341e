------------------------------- MODULE MCParts ------------------------------
(* Instances for TLC of the drivers of the core and of single algorithms.  A   *)
(* behaviour is one of them, the task; the others keep an initial state.       *)
EXTENDS PdmExpand, ServerWrite, Conversions, Waits,
        Uart, Tone, ExternalInterrupts, AnalogIo, Spi

CONSTANTS p1, p2

MCHalfwords == {-32768, -1, 0, 32767}
MCSizes == {0, 1, 3, 4, 5}
MCLongs == -16 .. 15
MCRadices == {-1, 1, 2, 8, 10, 16, 36, 37}
MCReadings == {0, 1, 2, 1023, 1024, 2046, 2047}
MCBytes == {0, 1, 128, 255}
MCDelays == {0, 1, 2, 3, 4, 7, 15}
MCMicroDelays == {0, 1, 7, 13, 14, 15}
MCTimeouts == {0, 2, 9, 10, 12, 13, 15}
MCWriteSizes == {0, 1, 3}
MCWriteValues == {300}
MCPinModes == {"INPUT", "INPUT_PULLUP", "OUTPUT"}

VARIABLE task

algorithms == <<expandVars, writeVars, call, waitVars>>
drivers == <<uartVars, toneVars, intVars, analogVars, spiVars>>
vars == <<algorithms, drivers, task>>

Tasks == {"expand", "write", "convert", "wait", "uart", "tone", "interrupt", "digital",
          "analog", "spi"}

Init ==
  /\ task \in Tasks
  /\ ExpandInit /\ (task # "expand" => \A h \in DOMAIN dmaBuffer : dmaBuffer[h] = 0)
  /\ WriteInit /\ (task # "write" => size = 0 /\ clients = 0)
  /\ ConversionsInit
  /\ WaitsInit /\ (task # "wait" => timer = 0)
  /\ UartInit
  /\ ToneInit /\ (task # "tone" => tonePin = p1)
  /\ ExternalInterruptsInit /\ (task # "interrupt" => latest.pin = p1)
  /\ AnalogIoInit
  /\ SpiInit /\ (task # "spi" => \A c \in Clocks : spiSettings.clock <= c)

Algorithm ==
  \/ task = "expand" /\ ExpandNext /\ UNCHANGED <<writeVars, call, waitVars>>
  \/ task = "write" /\ WriteClient /\ UNCHANGED <<expandVars, call, waitVars>>
  \/ task = "convert" /\ ConversionsNext /\ UNCHANGED <<expandVars, writeVars, waitVars>>
  \/ task = "wait" /\ WaitsNext /\ UNCHANGED <<expandVars, writeVars, call>>

\* The levels of the pins are the digital task's alone, and pinMode() meets the
\* peripherals on one pin.
MCAnalogIoNext ==
  /\ task = "analog" /\ AnalogIoNext
  /\ touched' = touched /\ ~gpioInitialized'[p2]

Driver ==
  \/ task = "uart" /\ UartNext /\ UNCHANGED <<toneVars, intVars, analogVars, spiVars>>
  \/ task = "tone" /\ ToneNext /\ UNCHANGED <<uartVars, intVars, analogVars, spiVars>>
  \/ task = "interrupt" /\ ExternalInterruptsNext
       /\ UNCHANGED <<uartVars, toneVars, analogVars, spiVars>>
  \/ task = "digital" /\ DigitalIoNext
       /\ UNCHANGED <<uartVars, toneVars, intVars, adcVars, pwmTable, spiVars>>
  \/ MCAnalogIoNext /\ UNCHANGED <<uartVars, toneVars, intVars, spiVars>>
  \/ task = "spi" /\ SpiNext /\ UNCHANGED <<uartVars, toneVars, intVars, analogVars>>

Next ==
  /\ (Algorithm /\ UNCHANGED drivers) \/ (Driver /\ UNCHANGED algorithms)
  /\ UNCHANGED task

Spec == Init /\ [][Next]_vars /\ WF_waitVars(Turn) /\ UartFairness /\ ToneFairness
=============================================================================
