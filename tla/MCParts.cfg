SPECIFICATION Spec
CONSTANTS
  BlockLen = 4
  Halfwords <- MCHalfwords
  Modulus = 4
  MaxWritten = 15
  Sizes <- MCSizes
  MinClients = 0
  MaxClients = 3
  Bits = 5
  Longs <- MCLongs
  Radices <- MCRadices
  Readings <- MCReadings
  Bytes <- MCBytes
  TimerCount = 16
  MicrosPerMilli = 4
  MaxTurn = 3
  MaxElapsed = 20
  Delays <- MCDelays
  MicroDelays <- MCMicroDelays
  Timeouts <- MCTimeouts
  BufferLength = 2
  FifoLength = 2
  TxLength = 2
  MaxReceived = 5
  WriteSizes <- MCWriteSizes
  p1 = p1
  p2 = p2
  TonePins = {p1, p2}
  MaxToneCalls = 4
  InterruptPins = {p1, p2}
  Callbacks = {f, g}
  NoCallback = none
  GpioPins = {p1, p2}
  PinModes <- MCPinModes
  AdcHowMany = 1
  PwmHowMany = 2
  WriteValues <- MCWriteValues
  Frequencies = {50}
  DefaultFrequency = 1
  NoPin = noPin
  Clocks = {1, 4}
INVARIANTS
  WidenedInPlace
  EqualMeansAll
  ResultsAreRight
  WaitsAreKept
  ReceivedInOrder
  ReadyReceives
  ToneAgrees
  OwnCallback
  ModeSetsLevel
  SlotPerPin
  PwmFollows
  SettingsAreApplied
PROPERTIES
  WaitEnds
  CallsReturn
  TimedToneEnds
CHECK_DEADLOCK FALSE
