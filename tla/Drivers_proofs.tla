--------------------------- MODULE Drivers_proofs ---------------------------
(***************************************************************************)
(* Theorems about the drivers of the core: SPI, tone, external interrupts, *)
(* digital and analog pins, the UART, the functions that wait, and those   *)
(* that keep no state.  Each driver has an inductive invariant of its own, *)
(* defined in front of its proof.                                          *)
(***************************************************************************)
EXTENDS Spi, Tone, ExternalInterrupts, AnalogIo, Uart, Waits, Conversions,
        SequenceTheorems, FiniteSetTheorems, WellFoundedInduction, TLAPS

-----------------------------------------------------------------------------
(* SPI.                                                                    *)

\* The settings are those asked for last, and those the hardware has.
SpiIInv == spiAsked = spiSettings /\ SettingsAreApplied

\* begin() leaves the SPI either not initialised or with the settings given.
LEMMA InitializeApplies ==
  ASSUME NEW settings, NEW allocated, Initialize(settings, allocated)
  PROVE  spiInitialized' =>
           /\ spiAllocated'
           /\ spiHal'.clock = settings.clock
           /\ settings.dataMode \in 0 .. 3 =>
                spiHal'.mode = <<settings.dataMode, settings.order>>
<1> SUFFICES ASSUME spiInitialized' = TRUE
             PROVE  /\ spiAllocated' = TRUE
                    /\ spiHal' = [mode |-> GetSpiMode(settings), clock |-> settings.clock]
  BY DEF GetSpiMode, Initialize
<1> QED  BY DEF Initialize

\* The hardware works with the settings of the last transaction.
THEOREM SpiSafety == SpiSpec => []SettingsAreApplied
<1>1. SpiInit => SpiIInv
  BY DEF SpiInit, SpiIInv, SettingsAreApplied
<1>2. SpiIInv /\ [SpiNext]_spiVars => SpiIInv'
  <2> SUFFICES ASSUME SpiIInv, [SpiNext]_spiVars  PROVE SpiIInv'
    OBVIOUS
  <2>1. CASE SpiBegin
    <3>1. spiAsked' = spiSettings' /\ spiSettings' = spiSettings
      BY <2>1 DEF SpiBegin, SpiIInv
    <3> QED  BY <2>1, <3>1, InitializeApplies DEF SpiBegin, SpiIInv, SettingsAreApplied
  <2>2. CASE SpiEnd
    BY <2>2 DEF SpiEnd, SpiIInv, SettingsAreApplied
  <2>3. CASE SpiTransaction
    <3>1. PICK settings \in SpiSettings :
            /\ spiSettings' = settings /\ spiAsked' = settings
            /\ IF spiInitialized /\ settings = spiSettings
                 THEN UNCHANGED <<spiInitialized, spiHal, spiAllocated>>
                 ELSE Initialize(settings, ~spiInitialized /\ spiAllocated)
      BY <2>3 DEF SpiTransaction
    <3>2. CASE spiInitialized /\ settings = spiSettings
      BY <3>1, <3>2 DEF SpiIInv, SettingsAreApplied
    <3>3. CASE ~(spiInitialized /\ settings = spiSettings)
      BY <3>1, <3>3, InitializeApplies DEF SpiIInv, SettingsAreApplied
    <3> QED  BY <3>2, <3>3
  <2>4. CASE UNCHANGED spiVars
    BY <2>4 DEF spiVars, SpiIInv, SettingsAreApplied
  <2> QED  BY <2>1, <2>2, <2>3, <2>4 DEF SpiNext
<1>3. SpiIInv => SettingsAreApplied
  BY DEF SpiIInv
<1> QED  BY <1>1, <1>2, <1>3, PTL DEF SpiSpec

\* The types of SPI.
THEOREM SpiTyping == SpiSpec => []SpiTypeOK
<1>1. SpiInit => SpiTypeOK
  BY DEF SpiInit, SpiTypeOK
<1>2. SpiTypeOK /\ [SpiNext]_spiVars => SpiTypeOK'
  <2> SUFFICES ASSUME SpiTypeOK, [SpiNext]_spiVars  PROVE SpiTypeOK'
    OBVIOUS
  <2>1. ASSUME NEW settings, NEW allocated \in BOOLEAN, Initialize(settings, allocated)
        PROVE  spiInitialized' \in BOOLEAN /\ spiAllocated' \in BOOLEAN
    BY <2>1 DEF Initialize
  <2>2. CASE SpiBegin
    BY <2>1, <2>2 DEF SpiBegin, SpiTypeOK
  <2>3. CASE SpiEnd
    BY <2>3 DEF SpiEnd, SpiTypeOK
  <2>4. CASE SpiTransaction
    <3>1. PICK settings \in SpiSettings :
            /\ spiSettings' = settings /\ spiAsked' = settings
            /\ \/ UNCHANGED <<spiInitialized, spiHal, spiAllocated>>
               \/ Initialize(settings, ~spiInitialized /\ spiAllocated)
      BY <2>4 DEF SpiTransaction
    <3>2. (~spiInitialized /\ spiAllocated) \in BOOLEAN
      BY Zenon
    <3> QED  BY <2>1, <3>1, <3>2 DEF SpiTypeOK
  <2>5. CASE UNCHANGED spiVars
    BY <2>5 DEF spiVars, SpiTypeOK
  <2> QED  BY <2>2, <2>3, <2>4, <2>5 DEF SpiNext
<1> QED  BY <1>1, <1>2, PTL DEF SpiSpec

-----------------------------------------------------------------------------
(* Tone.                                                                   *)

\* The flag and the timer object go together.
TimerAgrees == timerInitialized <=> timerHal # "free"

\* The flag and the PWM object go together, but for the two places between a call of
\* the hardware library and the assignment to the flag.
PwmAgrees == ~exited =>
  /\ tonePc = "initialized" => ~initialized /\ pwmHal # "free"
  /\ tonePc = "stopped" => pwmHal = "free"
  /\ tonePc \notin {"initialized", "stopped"} => (initialized <=> pwmHal # "free")

\* While the tone plays, its timer cannot have run out before it was started.
TimerIsOwn == ~exited /\ initialized =>
  /\ tonePc = "configure" => timerHal # "free"
  /\ tonePc = "startTimer" => timerHal # "free"
  /\ tonePc = "idle" /\ request.timed => timerHal = "running" /\ ownTimer

ToneIInv == TimerAgrees /\ PwmAgrees /\ TimerIsOwn

\* Between two calls of a sketch the flags of Tone.cpp tell which objects are allocated,
\* and a tone with a duration has a timer started for it, wherever the timer of an
\* earlier tone has interrupted.
THEOREM ToneSafety == ToneSpec => []ToneAgrees
<1>1. ToneInit => ToneIInv
  BY DEF ToneInit, ToneIInv, TimerAgrees, PwmAgrees, TimerIsOwn
<1>2. ToneIInv /\ [ToneNext]_toneVars => ToneIInv'
  <2> SUFFICES ASSUME ToneIInv, [ToneNext]_toneVars  PROVE ToneIInv'
    OBVIOUS
  <2> USE DEF ToneIInv, TimerAgrees, PwmAgrees, TimerIsOwn, pwmVars, timerVars, Goes
  <2>1. CASE Play
    BY <2>1 DEF Play
  <2>2. CASE NoTone
    BY <2>2 DEF NoTone
  <2>3. CASE PlayAgain
    BY <2>3 DEF PlayAgain
  <2>4. CASE InitializePwm
    BY <2>4 DEF InitializePwm
  <2>5. CASE SetInitialized
    BY <2>5 DEF SetInitialized
  <2>6. CASE StartPwm
    BY <2>6 DEF StartPwm
  <2>7. CASE SetDutyCycle
    BY <2>7 DEF SetDutyCycle
  <2>8. CASE InitTimer
    BY <2>8 DEF InitTimer
  <2>9. CASE ConfigureTimer
    BY <2>9 DEF ConfigureTimer
  <2>10. CASE StartTimer
    BY <2>10 DEF StartTimer
  <2>11. CASE StopPwm
    BY <2>11 DEF StopPwm
  <2>12. CASE FreePwm
    BY <2>12 DEF FreePwm
  <2>13. CASE Stopped
    BY <2>13 DEF Stopped
  <2>14. CASE HandleTimerEvent
    BY <2>14 DEF HandleTimerEvent
  <2>15. CASE ToneFails
    BY <2>15 DEF ToneFails, Fail
  <2>16. CASE UNCHANGED toneVars
    BY <2>16 DEF toneVars
  <2> QED
    BY <2>1, <2>2, <2>3, <2>4, <2>5, <2>6, <2>7, <2>8, <2>9, <2>10, <2>11, <2>12,
       <2>13, <2>14, <2>15, <2>16 DEF ToneNext, ToneStep
<1>3. ToneIInv => ToneAgrees
  BY DEF ToneIInv, TimerAgrees, PwmAgrees, TimerIsOwn, ToneAgrees, Playing
<1> QED  BY <1>1, <1>2, <1>3, PTL DEF ToneSpec

\* The types of Tone.cpp.
THEOREM ToneTyping == ToneSpec => []ToneTypeOK
<1>1. ToneInit => ToneTypeOK
  <2> SUFFICES ASSUME ToneInit  PROVE ToneTypeOK
    OBVIOUS
  <2>1. request \in [pin : TonePins, timed : BOOLEAN]
    <3>1. request = [pin |-> tonePin, timed |-> FALSE] /\ tonePin \in TonePins
      BY DEF ToneInit
    <3>2. [pin |-> tonePin, timed |-> FALSE] \in [pin : TonePins, timed : BOOLEAN]
      BY <3>1
    <3> QED  BY <3>1, <3>2, Zenon
  <2>2. toneCalls \in Nat
    BY DEF ToneInit
  <2> QED  BY <2>1, <2>2, Zenon DEF ToneInit, ToneTypeOK
<1>2. ToneTypeOK /\ [ToneNext]_toneVars => ToneTypeOK'
  <2> SUFFICES ASSUME ToneTypeOK, [ToneNext]_toneVars  PROVE ToneTypeOK'
    OBVIOUS
  <2> USE DEF ToneTypeOK, pwmVars, timerVars, Goes
  <2>1. CASE Play
    <3>1. toneCalls' \in Nat
      BY <2>1 DEF Play
    <3>2. PICK p \in TonePins, timed \in BOOLEAN :
            /\ IF initialized /\ p # tonePin THEN UNCHANGED <<tonePc, request, ownTimer>>
               ELSE /\ tonePc' = "play"
                    /\ request' = [pin |-> p, timed |-> timed]
                    /\ ownTimer' = FALSE
            /\ UNCHANGED <<pwmVars, timerHal, timerInitialized, exited>>
      BY <2>1, Zenon DEF Play
    <3>3. [pin |-> p, timed |-> timed] \in [pin : TonePins, timed : BOOLEAN]
      OBVIOUS
    <3>4. /\ request' \in [pin : TonePins, timed : BOOLEAN]
          /\ tonePc' \in {"play", tonePc} /\ ownTimer' \in BOOLEAN
      BY <3>2, <3>3, Zenon
    <3> QED  BY <3>1, <3>2, <3>4
  <2>2. CASE NoTone
    BY <2>2 DEF NoTone
  <2>3. CASE PlayAgain \/ InitializePwm \/ StartPwm \/ SetDutyCycle
    BY <2>3 DEF PlayAgain, InitializePwm, StartPwm, SetDutyCycle
  <2>4. CASE SetInitialized
    BY <2>4 DEF SetInitialized
  <2>5. CASE InitTimer \/ ConfigureTimer \/ StartTimer
    BY <2>5 DEF InitTimer, ConfigureTimer, StartTimer
  <2>6. CASE StopPwm \/ FreePwm \/ Stopped
    BY <2>6 DEF StopPwm, FreePwm, Stopped
  <2>7. CASE HandleTimerEvent
    BY <2>7 DEF HandleTimerEvent
  <2>8. CASE ToneFails
    BY <2>8 DEF ToneFails, Fail
  <2>9. CASE UNCHANGED toneVars
    BY <2>9 DEF toneVars
  <2> QED
    BY <2>1, <2>2, <2>3, <2>4, <2>5, <2>6, <2>7, <2>8, <2>9 DEF ToneNext, ToneStep
<1> QED  BY <1>1, <1>2, PTL DEF ToneSpec

-----------------------------------------------------------------------------
(* External interrupts.                                                    *)

\* The call under way, place by place.
CallUnderWay ==
  /\ intPc \in {"store", "register", "enable"} => attaching.callback \in Callbacks
  /\ intPc \in {"register", "enable"} => latest = attaching
  /\ intPc = "enable" => attaching.pin \in registered
  /\ intPc = "unregister" => latest.pin # attaching.pin \/ latest.callback = NoCallback

\* The structure holds the callback attached last; a pin without one has no events.
StructureIsLatest ==
  IF latest.callback = NoCallback THEN pinEvents[latest.pin] = {}
  ELSE gpioCallback = latest.callback

\* Where no attachInterrupt() is half done, the last pin has the edges of its mode.
PinIsArmed ==
  intPc \notin {"register", "enable"} /\ latest.callback # NoCallback =>
    latest.pin \in registered /\ pinEvents[latest.pin] = EventOf(latest.mode)

IntIInv ==
  /\ pinEvents \in [InterruptPins -> SUBSET {"rise", "fall"}]
  /\ latest.pin \in InterruptPins /\ attaching.pin \in InterruptPins
  /\ CallUnderWay /\ StructureIsLatest /\ PinIsArmed

\* The pin attached last never runs the callback of another pin, and runs its own at the
\* edges of its mode.
THEOREM CallbackSafety == ExternalInterruptsSpec => []OwnCallback
<1> USE DEF IntIInv, CallUnderWay, StructureIsLatest, PinIsArmed, NothingAttached
<1>1. ExternalInterruptsInit => IntIInv
  BY DEF ExternalInterruptsInit
<1>2. IntIInv /\ [ExternalInterruptsNext]_intVars => IntIInv'
  <2> SUFFICES ASSUME IntIInv, [ExternalInterruptsNext]_intVars  PROVE IntIInv'
    OBVIOUS
  <2>1. CASE AttachInterrupt
    BY <2>1 DEF AttachInterrupt
  <2>2. CASE StoreCallback
    BY <2>2, ExternalInterruptsAssumption DEF StoreCallback
  <2>3. CASE RegisterCallback
    BY <2>3 DEF RegisterCallback
  <2>4. CASE EnableEvent
    <3>1. EventOf(attaching.mode) \subseteq {"rise", "fall"}
      BY DEF EventOf
    <3> QED  BY <2>4, <3>1, ExternalInterruptsAssumption DEF EnableEvent
  <2>5. CASE DetachInterrupt
    BY <2>5 DEF DetachInterrupt
  <2>6. CASE Unregister
    BY <2>6 DEF Unregister
  <2>7. CASE UNCHANGED intVars
    BY <2>7 DEF intVars
  <2> QED
    BY <2>1, <2>2, <2>3, <2>4, <2>5, <2>6, <2>7 DEF ExternalInterruptsNext
<1>3. IntIInv => OwnCallback
  BY DEF OwnCallback, Runs, EventOf
<1> QED  BY <1>1, <1>2, <1>3, PTL DEF ExternalInterruptsSpec

\* The types of interrupts.c.
THEOREM InterruptTyping == ExternalInterruptsSpec => []ExternalInterruptsTypeOK
<1> USE DEF ExternalInterruptsTypeOK, NothingAttached, Modes
<1>1. ExternalInterruptsInit => ExternalInterruptsTypeOK
  BY DEF ExternalInterruptsInit
<1>2. ExternalInterruptsTypeOK /\ [ExternalInterruptsNext]_intVars
        => ExternalInterruptsTypeOK'
  <2> SUFFICES ASSUME ExternalInterruptsTypeOK, [ExternalInterruptsNext]_intVars
               PROVE  ExternalInterruptsTypeOK'
    OBVIOUS
  <2>1. CASE AttachInterrupt \/ StoreCallback \/ RegisterCallback
    BY <2>1 DEF AttachInterrupt, StoreCallback, RegisterCallback
  <2>2. CASE EnableEvent
    <3>1. EventOf(attaching.mode) \in SUBSET {"rise", "fall"}
      BY DEF EventOf
    <3> QED  BY <2>2, <3>1 DEF EnableEvent
  <2>3. CASE DetachInterrupt \/ Unregister
    BY <2>3 DEF DetachInterrupt, Unregister
  <2>4. CASE UNCHANGED intVars
    BY <2>4 DEF intVars
  <2> QED  BY <2>1, <2>2, <2>3, <2>4 DEF ExternalInterruptsNext
<1> QED  BY <1>1, <1>2, PTL DEF ExternalInterruptsSpec

-----------------------------------------------------------------------------
(* Digital and analog pins.                                                *)

\* The value pinMode() decides by is the level of the pin's mode, unless something came
\* between, and then it is the level of the pin, or a digitalRead() has spoilt it.
ValueRemembered == \A p \in GpioPins : pinOwner[p] = "gpio" =>
  /\ gpioInitialized[p]
  /\ touched[p] = "no" => latch[p] = InitialLevel(drive[p])
  /\ touched[p] # "misread" => gpioCurrent[p] = latch[p]

PinIInv == DigitalIoTypeOK /\ ValueRemembered

\* A pin that is reserved for a peripheral leaves the invariant of the pins alone.
LEMMA ReserveKeepsPins ==
  ASSUME PinIInv, NEW p \in GpioPins, NEW user \in {"pwm", "adc"}, Reserve(p, user)
  PROVE  PinIInv'
<1> USE DEF Reserve, PinIInv
<1>1. DigitalIoTypeOK'
  BY DEF DigitalIoTypeOK
<1>2. ValueRemembered'
  BY DEF DigitalIoTypeOK, ValueRemembered
<1> QED  BY <1>1, <1>2

\* So does every call of digital_io.c.
LEMMA DigitalStepKeepsPins ==
  ASSUME PinIInv, DigitalIoNext
  PROVE  PinIInv'
<1> USE DEF PinIInv
<1>1. PICK p \in GpioPins : \/ \E mode \in PinModes : PinMode(p, mode)
                            \/ DigitalRead(p)
                            \/ \E status \in BOOLEAN : DigitalWrite(p, status)
  BY DEF DigitalIoNext
<1>2. ASSUME NEW mode \in PinModes, PinMode(p, mode)  PROVE PinIInv'
  <2>1. InitialLevel(mode) \in BOOLEAN
    BY DEF InitialLevel
  <2>2. DigitalIoTypeOK'
    BY <1>2, <2>1 DEF PinMode, GpioInit, DigitalIoTypeOK
  <2>3. ValueRemembered'
    <3> SUFFICES ASSUME NEW q \in GpioPins, pinOwner'[q] = "gpio"
                 PROVE  /\ gpioInitialized'[q]
                        /\ touched'[q] = "no" => latch'[q] = InitialLevel(drive'[q])
                        /\ touched'[q] # "misread" => gpioCurrent'[q] = latch'[q]
      BY DEF ValueRemembered, InitialLevel
    <3>1. CASE q # p
      <4>1. /\ pinOwner'[q] = pinOwner[q] /\ gpioInitialized'[q] = gpioInitialized[q]
            /\ touched'[q] = touched[q] /\ latch'[q] = latch[q]
            /\ drive'[q] = drive[q] /\ gpioCurrent'[q] = gpioCurrent[q]
        BY <1>2, <3>1 DEF PinMode, GpioInit, DigitalIoTypeOK
      <4> QED  BY <4>1 DEF ValueRemembered
    <3>2. CASE q = p /\ gpioInitialized[p] /\ gpioCurrent[p] = InitialLevel(mode)
      BY <1>2, <3>2, <2>1 DEF PinMode, DigitalIoTypeOK, ValueRemembered
    <3>3. CASE q = p /\ ~(gpioInitialized[p] /\ gpioCurrent[p] = InitialLevel(mode))
      <4>1. pinOwner[p] = "gpio" => gpioInitialized[p]
        BY DEF ValueRemembered
      <4>2. gpioInitialized'[p] /\ gpioCurrent'[p] = InitialLevel(mode)
        BY <1>2, <2>1 DEF PinMode, DigitalIoTypeOK
      <4>3. drive'[p] = mode /\ latch'[p] = InitialLevel(mode)
        BY <1>2, <2>1, <3>3, <4>1 DEF PinMode, GpioInit, DigitalIoTypeOK
      <4> QED  BY <4>2, <4>3, <3>3
    <3> QED  BY <3>1, <3>2, <3>3
  <2> QED  BY <2>2, <2>3
<1>3. CASE DigitalRead(p)
  <2>1. DigitalIoTypeOK'
    BY <1>3 DEF DigitalRead, DigitalIoTypeOK
  <2>2. ValueRemembered'
    BY <1>3 DEF DigitalRead, DigitalIoTypeOK, ValueRemembered
  <2> QED  BY <2>1, <2>2
<1>4. ASSUME NEW status \in BOOLEAN, DigitalWrite(p, status)  PROVE PinIInv'
  <2>1. DigitalIoTypeOK'
    BY <1>4 DEF DigitalWrite, DigitalIoTypeOK
  <2>2. ValueRemembered'
    BY <1>4 DEF DigitalWrite, DigitalIoTypeOK, ValueRemembered
  <2> QED  BY <2>1, <2>2
<1> QED  BY <1>1, <1>2, <1>3, <1>4

\* analog_io.c touches the state of the pins only by reserving one.
LEMMA AnalogStepReserves ==
  ASSUME AnalogIoNext
  PROVE  \/ DigitalIoNext
         \/ \E p \in GpioPins, user \in {"pwm", "adc"} : Reserve(p, user)
         \/ UNCHANGED gpioVars
<1>1. ASSUME NEW p \in GpioPins, AnalogRead(p)
      PROVE  Reserve(p, "adc") \/ UNCHANGED gpioVars
  BY <1>1 DEF AnalogRead, InitializeChannel
<1>2. ASSUME NEW p \in GpioPins, NEW value \in WriteValues, AnalogWrite(p, value)
      PROVE  Reserve(p, "pwm") \/ UNCHANGED gpioVars
  BY <1>2 DEF AnalogWrite, PwmInit
<1>3. ASSUME NEW p \in GpioPins, NEW frequency \in Frequencies,
             SetAnalogWriteFrequency(p, frequency)
      PROVE  UNCHANGED gpioVars
  BY <1>3 DEF SetAnalogWriteFrequency
<1> QED  BY <1>1, <1>2, <1>3 DEF AnalogIoNext, AnalogWriteResolution

\* After pinMode() a pin has the level of its mode, also beside the peripherals.
THEOREM PinSafety == AnalogIoSpec => []ModeSetsLevel
<1>1. AnalogIoInit => PinIInv
  BY DEF AnalogIoInit, DigitalIoInit, PinIInv, DigitalIoTypeOK, ValueRemembered
<1>2. PinIInv /\ [AnalogIoNext]_analogVars => PinIInv'
  <2> SUFFICES ASSUME PinIInv, [AnalogIoNext]_analogVars  PROVE PinIInv'
    OBVIOUS
  <2>1. CASE DigitalIoNext
    BY <2>1, DigitalStepKeepsPins
  <2>2. CASE \E p \in GpioPins, user \in {"pwm", "adc"} : Reserve(p, user)
    BY <2>2, ReserveKeepsPins
  <2>3. CASE UNCHANGED gpioVars
    BY <2>3 DEF gpioVars, PinIInv, DigitalIoTypeOK, ValueRemembered, InitialLevel
  <2> QED  BY <2>1, <2>2, <2>3, AnalogStepReserves DEF analogVars
<1>3. PinIInv => ModeSetsLevel
  BY DEF PinIInv, ValueRemembered, ModeSetsLevel
<1> QED  BY <1>1, <1>2, <1>3, PTL DEF AnalogIoSpec

\* A slot, and one that pwm_alloc() has given to the pin.
IsSlot(x) ==
  x = [pin |-> x.pin, used |-> x.used, initialized |-> x.initialized,
       duty |-> x.duty, frequency |-> x.frequency]
SlotOf(x, p) == IsSlot(x) /\ x.used = TRUE /\ x.pin = p /\ x.initialized \in BOOLEAN

\* The tables: what is not used is not initialised, the channels are taken from the
\* first on.
SlotsTyped ==
  /\ adcChannel \in [AdcSlots -> GpioPins \cup {NoPin}]
  /\ pwm = [s \in PwmSlots |-> pwm[s]]
  /\ \A s \in PwmSlots :
       IF pwm[s].used THEN SlotOf(pwm[s], pwm[s].pin) /\ pwm[s].pin \in GpioPins
       ELSE pwm[s] = EmptySlot
  /\ \A s, t \in AdcSlots :
       s < t /\ adcChannel[t] # NoPin => adcChannel[s] # NoPin

\* A pin that is reserved, or has been given to pinMode().
Held(p, user) == pinOwner[p] = user \/ gpioInitialized[p]
StaysHeld(p, user) == pinOwner'[p] = user \/ gpioInitialized'[p]

SlotIInv == DigitalIoTypeOK /\ SlotsTyped /\ SlotPerPin

\* A step of the pins that gives none of them away, but by pinMode(), loses no slot.
LEMMA HeldStaysHeld ==
  ASSUME DigitalIoTypeOK, NEW user \in {"pwm", "adc"}, NEW q \in GpioPins, Held(q, user),
         \/ DigitalIoNext
         \/ \E p \in GpioPins, other \in {"pwm", "adc"} : Reserve(p, other)
         \/ UNCHANGED gpioVars
  PROVE  StaysHeld(q, user)
<1>1. ASSUME NEW p \in GpioPins, NEW mode \in PinModes, PinMode(p, mode)
      PROVE  StaysHeld(q, user)
  <2>1. CASE q = p
    BY <1>1, <2>1 DEF PinMode, DigitalIoTypeOK, Held, StaysHeld
  <2>2. CASE q # p
    BY <1>1, <2>2 DEF PinMode, GpioInit, DigitalIoTypeOK, Held, StaysHeld
  <2> QED  BY <2>1, <2>2
<1>2. ASSUME NEW p \in GpioPins, NEW other \in {"pwm", "adc"}, Reserve(p, other)
      PROVE  StaysHeld(q, user)
  BY <1>2 DEF Reserve, DigitalIoTypeOK, Held, StaysHeld
<1>3. CASE UNCHANGED <<gpioInitialized, pinOwner>>
  BY <1>3 DEF Held, StaysHeld
<1> QED
  BY <1>1, <1>2, <1>3 DEF DigitalIoNext, DigitalRead, DigitalWrite, gpioVars

\* pwm_alloc() yields the slot of the pin, and there is no other.
LEMMA PwmAllocIsOwn ==
  ASSUME SlotsTyped, SlotPerPin, NEW p \in GpioPins, NEW s \in PwmAlloc(p)
  PROVE  /\ s \in PwmSlots
         /\ SlotOf(SlotFor(p, s), p)
         /\ \A t \in UsedPwm : pwm[t].pin = p => t = s
         /\ SlotFor(p, s).initialized => pwm[s].used /\ pwm[s].initialized
<1> DEFINE own == {t \in PwmSlots : pwm[t].used /\ pwm[t].pin = p}
<1>1. CASE own # {}
  <2>1. s \in own
    BY <1>1 DEF PwmAlloc, FirstOf
  <2>2. SlotFor(p, s) = pwm[s]
    BY <2>1 DEF SlotFor
  <2>3. \A t \in UsedPwm : pwm[t].pin = p => t = s
    BY <2>1 DEF SlotPerPin, UsedPwm
  <2> QED  BY <2>1, <2>2, <2>3 DEF SlotsTyped
<1>2. CASE own = {}
  <2>1. s \in PwmSlots /\ ~pwm[s].used
    BY <1>2 DEF PwmAlloc, FirstOf
  <2>2. SlotFor(p, s) = [pin |-> p, used |-> TRUE, initialized |-> FALSE,
                         duty |-> <<0, 1>>, frequency |-> 0]
    BY <2>1 DEF SlotFor, EmptySlot
  <2>3. \A t \in UsedPwm : pwm[t].pin # p
    BY <1>2 DEF UsedPwm
  <2> QED  BY <2>1, <2>2, <2>3 DEF SlotOf, IsSlot
<1> QED  BY <1>1, <1>2

\* analogWrite() leaves the slot the pin's, and initialised.
LEMMA WrittenIsSlot ==
  ASSUME NEW x, NEW p, NEW duty, SlotOf(x, p)
  PROVE  SlotOf(WrittenSlot(x, duty), p)
<1> DEFINE f == IF x.frequency = 0 THEN DefaultFrequency ELSE x.frequency
<1>1. WrittenSlot(x, duty) = [pin |-> x.pin, used |-> x.used, initialized |-> TRUE,
                              duty |-> duty, frequency |-> f]
  <2>1. WrittenSlot(x, duty) = [x EXCEPT !.initialized = TRUE, !.duty = duty, !.frequency = f]
    BY DEF WrittenSlot
  <2> HIDE DEF f
  <2> QED  BY <2>1 DEF SlotOf, IsSlot
<1> HIDE DEF f
<1> QED  BY <1>1 DEF SlotOf, IsSlot

\* Filling in the slot of a pin keeps the tables, when an initialised one is held.
LEMMA FillingKeepsSlots ==
  ASSUME SlotIInv, NEW p \in GpioPins, NEW s \in PwmAlloc(p), NEW x, SlotOf(x, p),
         pwm' = [pwm EXCEPT ![s] = x], UNCHANGED adcVars,
         x.initialized => StaysHeld(p, "pwm"),
         \A q \in GpioPins, user \in {"pwm", "adc"} : Held(q, user) => StaysHeld(q, user)
  PROVE  SlotsTyped' /\ SlotPerPin'
<1> USE DEF SlotIInv
<1>1. s \in PwmSlots /\ \A t \in UsedPwm : pwm[t].pin = p => t = s
  BY PwmAllocIsOwn
<1>2. \A t \in PwmSlots : pwm'[t] = IF t = s THEN x ELSE pwm[t]
  BY <1>1 DEF SlotsTyped
<1>3. adcChannel' = adcChannel
  BY DEF adcVars
<1>4. SlotsTyped'
  <2>1. pwm' = [t \in PwmSlots |-> pwm'[t]]
    BY <1>1 DEF SlotsTyped
  <2>2. x.pin = p /\ x.used = TRUE
    BY DEF SlotOf
  <2>3. \A t \in PwmSlots : IF pwm'[t].used
                            THEN SlotOf(pwm'[t], pwm'[t].pin) /\ pwm'[t].pin \in GpioPins
                            ELSE pwm'[t] = EmptySlot
    BY <1>2, <2>2 DEF SlotsTyped
  <2> QED  BY <1>3, <2>1, <2>3 DEF SlotsTyped, AdcSlots
<1>5. UsedPwm' = UsedPwm \cup {s} /\ \A t \in UsedPwm' : t # s => t \in UsedPwm
  BY <1>1, <1>2 DEF UsedPwm, SlotOf
<1>6. \A t, u \in UsedPwm' : pwm'[t].pin = pwm'[u].pin => t = u
  BY <1>1, <1>2, <1>5 DEF SlotPerPin, SlotOf, UsedPwm
<1>7. \A t \in UsedPwm' : pwm'[t].initialized => StaysHeld(pwm'[t].pin, "pwm")
  <2> SUFFICES ASSUME NEW t \in UsedPwm', pwm'[t].initialized
               PROVE  StaysHeld(pwm'[t].pin, "pwm")
    OBVIOUS
  <2>1. CASE t = s
    BY <1>1, <1>2, <2>1 DEF SlotOf
  <2>2. CASE t # s
    <3>1. t \in UsedPwm /\ pwm'[t] = pwm[t] /\ pwm[t].pin \in GpioPins
      BY <1>2, <1>5, <2>2 DEF UsedPwm, SlotsTyped
    <3>2. Held(pwm[t].pin, "pwm")
      BY <3>1 DEF SlotPerPin, Held
    <3>3. StaysHeld(pwm[t].pin, "pwm")
      BY <3>1, <3>2
    <3> QED  BY <3>1, <3>3
  <2> QED  BY <2>1, <2>2
<1>8. \A t \in AdcSlots : adcChannel'[t] # NoPin => StaysHeld(adcChannel'[t], "adc")
  <2> SUFFICES ASSUME NEW t \in AdcSlots, adcChannel[t] # NoPin
               PROVE  StaysHeld(adcChannel[t], "adc")
    BY <1>3
  <2> QED  BY <1>3 DEF SlotPerPin, SlotsTyped, Held
<1>9. SlotPerPin'
  BY <1>3, <1>6, <1>7, <1>8 DEF SlotPerPin, StaysHeld, AdcSlots
<1> QED  BY <1>4, <1>9

\* Each step of the hardware manager keeps the pins' types and what is held.
LEMMA StepKeepsPins ==
  ASSUME DigitalIoTypeOK, [AnalogIoNext]_analogVars
  PROVE  /\ DigitalIoTypeOK'
         /\ \A q \in GpioPins, user \in {"pwm", "adc"} : Held(q, user) => StaysHeld(q, user)
<1>1. \/ DigitalIoNext
      \/ \E p \in GpioPins, user \in {"pwm", "adc"} : Reserve(p, user)
      \/ UNCHANGED gpioVars
  BY AnalogStepReserves DEF analogVars
<1>2. ASSUME NEW p \in GpioPins, NEW mode \in PinModes, PinMode(p, mode)
      PROVE  DigitalIoTypeOK'
  <2>1. InitialLevel(mode) \in BOOLEAN
    BY DEF InitialLevel
  <2> QED  BY <1>2, <2>1 DEF PinMode, GpioInit, DigitalIoTypeOK
<1>3. ASSUME NEW p \in GpioPins, DigitalRead(p)  PROVE DigitalIoTypeOK'
  BY <1>3 DEF DigitalRead, DigitalIoTypeOK
<1>4. ASSUME NEW p \in GpioPins, NEW status \in BOOLEAN, DigitalWrite(p, status)
      PROVE  DigitalIoTypeOK'
  BY <1>4 DEF DigitalWrite, DigitalIoTypeOK
<1>5. ASSUME NEW p \in GpioPins, NEW user \in {"pwm", "adc"}, Reserve(p, user)
      PROVE  DigitalIoTypeOK'
  BY <1>5 DEF Reserve, DigitalIoTypeOK
<1>6. ASSUME UNCHANGED gpioVars  PROVE DigitalIoTypeOK'
  BY <1>6 DEF gpioVars, DigitalIoTypeOK
<1>7. DigitalIoTypeOK'
  BY <1>1, <1>2, <1>3, <1>4, <1>5, <1>6 DEF DigitalIoNext
<1>8. ASSUME NEW q \in GpioPins, NEW user \in {"pwm", "adc"}, Held(q, user)
      PROVE  StaysHeld(q, user)
  BY <1>1, <1>8, HeldStaysHeld
<1> QED  BY <1>7, <1>8

\* The tables of analog_io.c and the pins they have reserved are in step.
THEOREM SlotInvariant == AnalogIoSpec => []SlotIInv
<1>1. AnalogIoInit => SlotIInv
  <2> SUFFICES ASSUME AnalogIoInit  PROVE SlotIInv
    OBVIOUS
  <2>1. DigitalIoTypeOK
    BY DEF AnalogIoInit, DigitalIoInit, DigitalIoTypeOK
  <2>2. SlotsTyped
    BY DEF AnalogIoInit, SlotsTyped, EmptySlot
  <2>3. SlotPerPin
    BY DEF AnalogIoInit, SlotPerPin, UsedPwm, EmptySlot
  <2> QED  BY <2>1, <2>2, <2>3 DEF SlotIInv
<1>2. SlotIInv /\ [AnalogIoNext]_analogVars => SlotIInv'
  <2> SUFFICES ASSUME SlotIInv, [AnalogIoNext]_analogVars  PROVE SlotIInv'
    OBVIOUS
  <2>1. DigitalIoTypeOK' /\ \A q \in GpioPins, user \in {"pwm", "adc"} :
                         Held(q, user) => StaysHeld(q, user)
    BY StepKeepsPins DEF SlotIInv
  <2>2. ASSUME UNCHANGED <<pwm, adcChannel>>  PROVE SlotsTyped' /\ SlotPerPin'
    <3>1. SlotsTyped'
      BY <2>2 DEF SlotIInv, SlotsTyped
    <3>2. SlotPerPin'
      <4>1. UsedPwm' = UsedPwm
        BY <2>2 DEF UsedPwm
      <4>2. \A s \in UsedPwm : pwm[s].initialized => StaysHeld(pwm[s].pin, "pwm")
        BY <2>1 DEF SlotIInv, SlotPerPin, SlotsTyped, UsedPwm, Held
      <4>3. \A s \in AdcSlots : adcChannel[s] # NoPin => StaysHeld(adcChannel[s], "adc")
        BY <2>1 DEF SlotIInv, SlotPerPin, SlotsTyped, Held
      <4> QED  BY <2>2, <4>1, <4>2, <4>3 DEF SlotIInv, SlotPerPin, StaysHeld
    <3> QED  BY <3>1, <3>2
  <2>3. ASSUME NEW p \in GpioPins, AnalogRead(p)  PROVE SlotsTyped' /\ SlotPerPin'
    <3>1. PICK s \in ChannelFor(p) : adcChannel[s] = NoPin /\ InitializeChannel(p, s)
      BY <2>3 DEF AnalogRead
    <3>2. pwm' = pwm
      BY <2>3 DEF AnalogRead, pwmTable
    <3>3. CASE adcChannel' = adcChannel
      BY <2>2, <3>2, <3>3
    <3>4. CASE adcChannel' = [adcChannel EXCEPT ![s] = p] /\ Reserve(p, "adc")
      <4>1. s \in AdcSlots /\ \A t \in 1 .. s - 1 : adcChannel[t] \notin {p, NoPin}
        BY DEF ChannelFor
      <4>2. \A t \in AdcSlots : adcChannel'[t] = IF t = s THEN p ELSE adcChannel[t]
        BY <3>4, <4>1 DEF SlotIInv, SlotsTyped
      <4>3. \A t \in AdcSlots : t # s /\ adcChannel[t] # NoPin => t < s
        BY <3>1, <4>1 DEF SlotIInv, SlotsTyped, AdcSlots
      <4>4. \A t \in AdcSlots : t # s => adcChannel[t] # p
        BY <4>1, <4>3, AnalogIoAssumption DEF AdcSlots
      <4>5. SlotsTyped'
        <5>1. adcChannel' \in [AdcSlots -> GpioPins \cup {NoPin}]
          BY <3>4 DEF SlotIInv, SlotsTyped
        <5>2. \A t, u \in AdcSlots : t < u /\ adcChannel'[u] # NoPin => adcChannel'[t] # NoPin
          BY <4>1, <4>2, <4>3, AnalogIoAssumption DEF SlotIInv, SlotsTyped, AdcSlots
        <5> QED  BY <3>2, <5>1, <5>2 DEF SlotIInv, SlotsTyped
      <4>6. SlotPerPin'
        <5>1. \A t, u \in AdcSlots :
                adcChannel'[t] = adcChannel'[u] /\ adcChannel'[t] # NoPin => t = u
          BY <4>2, <4>4 DEF SlotIInv, SlotPerPin
        <5>2. UsedPwm' = UsedPwm
          BY <3>2 DEF UsedPwm
        <5>3. \A t \in UsedPwm : pwm[t].initialized => StaysHeld(pwm[t].pin, "pwm")
          BY <2>1 DEF SlotIInv, SlotPerPin, SlotsTyped, UsedPwm, Held
        <5>4. StaysHeld(p, "adc")
          BY <3>4 DEF Reserve, StaysHeld, SlotIInv, DigitalIoTypeOK
        <5>5. \A t \in AdcSlots : adcChannel[t] # NoPin => StaysHeld(adcChannel[t], "adc")
          BY <2>1 DEF SlotIInv, SlotPerPin, SlotsTyped, Held
        <5>6. \A t \in AdcSlots : adcChannel'[t] # NoPin => StaysHeld(adcChannel'[t], "adc")
          BY <4>2, <5>4, <5>5
        <5> QED  BY <3>2, <5>1, <5>2, <5>3, <5>6 DEF SlotIInv, SlotPerPin, StaysHeld
      <4> QED  BY <4>5, <4>6
    <3> QED  BY <3>1, <3>3, <3>4 DEF InitializeChannel
  <2>4. ASSUME NEW p \in GpioPins, NEW value \in WriteValues, AnalogWrite(p, value)
        PROVE  SlotsTyped' /\ SlotPerPin'
    <3> DEFINE duty == <<Limited(value), writeResolution>>
    <3>1. PICK s \in PwmAlloc(p) :
            /\ UNCHANGED adcVars
            /\ \/ /\ ~SlotFor(p, s).initialized
                  /\ pwm' = [pwm EXCEPT ![s] = SlotFor(p, s)]
               \/ /\ PwmInit(p, s)
                  /\ pwm' = [pwm EXCEPT ![s] = WrittenSlot(SlotFor(p, s), duty)]
      BY <2>4 DEF AnalogWrite
    <3> HIDE DEF duty
    <3>2. /\ SlotOf(SlotFor(p, s), p)
          /\ SlotFor(p, s).initialized => s \in UsedPwm /\ pwm[s].initialized /\ pwm[s].pin = p
      <4>1. s \in PwmSlots /\ SlotOf(SlotFor(p, s), p)
        BY PwmAllocIsOwn DEF SlotIInv
      <4>2. SlotFor(p, s).initialized => pwm[s].used /\ pwm[s].initialized
        BY PwmAllocIsOwn DEF SlotIInv
      <4>3. pwm[s].used => SlotFor(p, s) = pwm[s]
        BY DEF SlotFor
      <4> QED  BY <4>1, <4>2, <4>3 DEF UsedPwm, SlotOf
    <3>3. CASE ~SlotFor(p, s).initialized /\ pwm' = [pwm EXCEPT ![s] = SlotFor(p, s)]
      BY <2>1, <3>1, <3>2, <3>3, FillingKeepsSlots
    <3>4. CASE PwmInit(p, s) /\ pwm' = [pwm EXCEPT ![s] = WrittenSlot(SlotFor(p, s), duty)]
      <4>1. SlotOf(WrittenSlot(SlotFor(p, s), duty), p)
        BY <3>2, WrittenIsSlot
      <4>2. StaysHeld(p, "pwm")
        <5>1. CASE SlotFor(p, s).initialized
          <6>1. Held(p, "pwm")
            BY <3>2, <5>1 DEF SlotIInv, SlotPerPin, Held
          <6> QED  BY <2>1, <6>1
        <5>2. CASE ~SlotFor(p, s).initialized
          BY <3>4, <5>2 DEF PwmInit, Reserve, StaysHeld, SlotIInv, DigitalIoTypeOK
        <5> QED  BY <5>1, <5>2
      <4> QED  BY <2>1, <3>1, <3>4, <4>1, <4>2, FillingKeepsSlots
    <3> QED  BY <3>1, <3>3, <3>4
  <2>5. ASSUME NEW p \in GpioPins, NEW frequency \in Frequencies,
               SetAnalogWriteFrequency(p, frequency)
        PROVE  SlotsTyped' /\ SlotPerPin'
    <3>1. PICK s \in PwmAlloc(p) :
            /\ UNCHANGED adcVars
            /\ pwm' = [pwm EXCEPT ![s] = [SlotFor(p, s) EXCEPT !.frequency = frequency]]
      BY <2>5 DEF SetAnalogWriteFrequency, adcVars
    <3> DEFINE x == [SlotFor(p, s) EXCEPT !.frequency = frequency]
    <3>2. /\ s \in PwmSlots /\ SlotOf(SlotFor(p, s), p)
          /\ SlotFor(p, s).initialized => pwm[s].used /\ pwm[s].initialized
      BY PwmAllocIsOwn DEF SlotIInv
    <3>3. SlotOf(x, p) /\ x.initialized = SlotFor(p, s).initialized
      BY <3>2 DEF SlotOf, IsSlot
    <3>4. x.initialized => StaysHeld(p, "pwm")
      <4>1. pwm[s].used => SlotFor(p, s) = pwm[s]
        BY DEF SlotFor
      <4>2. x.initialized => s \in UsedPwm /\ pwm[s].initialized /\ pwm[s].pin = p
        BY <3>2, <3>3, <4>1 DEF UsedPwm, SlotOf
      <4>3. x.initialized => Held(p, "pwm")
        BY <4>2 DEF SlotIInv, SlotPerPin, Held
      <4> QED  BY <2>1, <4>3
    <3>5. pwm' = [pwm EXCEPT ![s] = x]
      BY <3>1
    <3> HIDE DEF x
    <3> QED  BY <2>1, <3>1, <3>3, <3>4, <3>5, FillingKeepsSlots
  <2>6. CASE UNCHANGED <<pwm, adcChannel>>
    BY <2>1, <2>2, <2>6 DEF SlotIInv
  <2>7. SlotsTyped' /\ SlotPerPin'
    BY <2>2, <2>3, <2>4, <2>5
    DEF AnalogIoNext, AnalogWriteResolution, analogVars, adcVars, pwmTable
  <2> QED  BY <2>1, <2>7 DEF SlotIInv
<1> QED  BY <1>1, <1>2, PTL DEF AnalogIoSpec

AdcTyped == adcInitialized \in BOOLEAN

\* The types of analog_io.c.
THEOREM AnalogIoTyping == AnalogIoSpec => []AnalogIoTypeOK
<1>1. AnalogIoInit => AdcTyped
  BY DEF AnalogIoInit, AdcTyped
<1>2. AdcTyped /\ [AnalogIoNext]_analogVars => AdcTyped'
  <2> SUFFICES ASSUME adcInitialized \in BOOLEAN, [AnalogIoNext]_analogVars
               PROVE  adcInitialized' \in BOOLEAN
    BY DEF AdcTyped
  <2>1. ASSUME NEW p, AnalogRead(p)  PROVE adcInitialized' \in BOOLEAN
    BY <2>1, Zenon DEF AnalogRead, InitializeChannel, adcVars
  <2>2. ASSUME NEW p, NEW value, AnalogWrite(p, value)  PROVE adcInitialized' \in BOOLEAN
    BY <2>2, Zenon DEF AnalogWrite, adcVars
  <2>3. ASSUME NEW p, NEW frequency, SetAnalogWriteFrequency(p, frequency)
        PROVE  adcInitialized' \in BOOLEAN
    BY <2>3, Zenon DEF SetAnalogWriteFrequency, adcVars
  <2>4. ASSUME NEW res, AnalogWriteResolution(res)  PROVE adcInitialized' \in BOOLEAN
    BY <2>4 DEF AnalogWriteResolution, adcVars
  <2>5. CASE UNCHANGED <<adcVars, pwmTable>>
    BY <2>5, Zenon DEF adcVars
  <2>6. CASE UNCHANGED analogVars
    BY <2>6, Zenon DEF analogVars, adcVars
  <2> QED  BY <2>1, <2>2, <2>3, <2>4, <2>5, <2>6, Zenon DEF AnalogIoNext
<1>3. SlotIInv /\ AdcTyped => AnalogIoTypeOK
  <2> SUFFICES ASSUME SlotIInv, AdcTyped, NEW s \in PwmSlots
               PROVE  /\ DOMAIN pwm[s] = DOMAIN EmptySlot
                      /\ IF pwm[s].used THEN pwm[s].pin \in GpioPins
                         ELSE pwm[s] = EmptySlot
    BY Zenon DEF SlotIInv, SlotsTyped, AdcTyped, AnalogIoTypeOK
  <2>1. IF pwm[s].used THEN SlotOf(pwm[s], pwm[s].pin) /\ pwm[s].pin \in GpioPins
        ELSE pwm[s] = EmptySlot
    BY Zenon DEF SlotIInv, SlotsTyped
  <2>2. ASSUME NEW x, IsSlot(x)  PROVE DOMAIN x = DOMAIN EmptySlot
    BY <2>2 DEF IsSlot, EmptySlot
  <2> QED  BY <2>1, <2>2, Zenon DEF SlotOf
<1> QED  BY <1>1, <1>2, <1>3, SlotInvariant, PTL DEF AnalogIoSpec

\* A pin has one PWM slot and one ADC channel at most, and they are reserved for it.
THEOREM SlotSafety == AnalogIoSpec => []SlotPerPin
<1>1. SlotIInv => SlotPerPin
  BY DEF SlotIInv
<1> QED  BY <1>1, SlotInvariant, PTL

\* The frequency an output must have.
AskedFrequency(want) == IF want.frequency = 0 THEN DefaultFrequency ELSE want.frequency

WantsTyped ==
  /\ wanted = [p \in GpioPins |-> wanted[p]] /\ pwmOutput = [s \in PwmSlots |-> pwmOutput[s]]
  /\ \A p \in GpioPins :
       /\ wanted[p] = [duty |-> wanted[p].duty, frequency |-> wanted[p].frequency,
                       failed |-> wanted[p].failed]
       /\ wanted[p].failed \in BOOLEAN

\* What a slot x of a pin holds is what is wanted of the pin; and so is its output.
HoldsWanted(x, want) ==
  IF x.initialized THEN x.duty = want.duty /\ x.frequency = AskedFrequency(want)
  ELSE x.frequency = want.frequency
Outputs(x, output, want) ==
  x.initialized /\ ~want.failed =>
    output = [duty |-> want.duty, frequency |-> AskedFrequency(want)]

SlotsHoldWanted == \A s \in UsedPwm :
  /\ HoldsWanted(pwm[s], wanted[pwm[s].pin])
  /\ Outputs(pwm[s], pwmOutput[s], wanted[pwm[s].pin])

\* Without a slot no frequency has been asked for.
NoSlotNoFrequency == \A p \in GpioPins :
  (\A s \in UsedPwm : pwm[s].pin # p) => wanted[p].frequency = 0

PwmIInv == WantsTyped /\ SlotsHoldWanted /\ NoSlotNoFrequency

\* The slot pwm_alloc() gives to a pin holds what is wanted of the pin so far.
LEMMA AllocatedHoldsWanted ==
  ASSUME SlotIInv, PwmIInv, NEW p \in GpioPins, NEW s \in PwmAlloc(p)
  PROVE  HoldsWanted(SlotFor(p, s), wanted[p])
<1>1. /\ s \in PwmSlots /\ SlotOf(SlotFor(p, s), p)
      /\ \A t \in UsedPwm : pwm[t].pin = p => t = s
      /\ SlotFor(p, s).initialized => pwm[s].used
  BY PwmAllocIsOwn DEF SlotIInv
<1>2. CASE pwm[s].used
  BY <1>1, <1>2 DEF SlotFor, SlotOf, UsedPwm, PwmIInv, SlotsHoldWanted
<1>3. CASE ~pwm[s].used
  <2>1. wanted[p].frequency = 0
    BY <1>1, <1>3 DEF UsedPwm, PwmIInv, NoSlotNoFrequency
  <2>2. SlotFor(p, s).frequency = 0 /\ ~SlotFor(p, s).initialized
    BY <1>1, <1>3 DEF SlotFor, EmptySlot
  <2> QED  BY <2>1, <2>2 DEF HoldsWanted
<1> QED  BY <1>2, <1>3

\* A call that gives slot, output and wish of one pin values that agree keeps the
\* agreement of all.
LEMMA AgreementStays ==
  ASSUME SlotIInv, PwmIInv, NEW p \in GpioPins, NEW s \in PwmAlloc(p),
         NEW x, NEW want, NEW output,
         SlotOf(x, p), HoldsWanted(x, want), Outputs(x, output, want),
         want = [duty |-> want.duty, frequency |-> want.frequency, failed |-> want.failed],
         want.failed \in BOOLEAN,
         pwm' = [pwm EXCEPT ![s] = x], wanted' = [wanted EXCEPT ![p] = want],
         pwmOutput' = [pwmOutput EXCEPT ![s] = output]
  PROVE  PwmIInv'
<1> USE DEF PwmIInv
<1>1. s \in PwmSlots /\ \A t \in UsedPwm : pwm[t].pin = p => t = s
  BY PwmAllocIsOwn DEF SlotIInv
<1>2. \A t \in PwmSlots : /\ pwm'[t] = IF t = s THEN x ELSE pwm[t]
                          /\ pwmOutput'[t] = IF t = s THEN output ELSE pwmOutput[t]
  BY <1>1 DEF SlotIInv, SlotsTyped, WantsTyped
<1>3. \A q \in GpioPins : wanted'[q] = IF q = p THEN want ELSE wanted[q]
  BY DEF WantsTyped
<1>4. WantsTyped'
  <2>1. wanted' = [q \in GpioPins |-> wanted'[q]]
    BY DEF WantsTyped
  <2>2. pwmOutput' = [t \in PwmSlots |-> pwmOutput'[t]]
    BY <1>1 DEF WantsTyped
  <2>3. \A q \in GpioPins :
          /\ wanted'[q] = [duty |-> wanted'[q].duty, frequency |-> wanted'[q].frequency,
                           failed |-> wanted'[q].failed]
          /\ wanted'[q].failed \in BOOLEAN
    BY <1>3 DEF WantsTyped
  <2> QED  BY <2>1, <2>2, <2>3 DEF WantsTyped
<1>5. /\ x.pin = p /\ s \in UsedPwm'
      /\ \A t \in UsedPwm' : t # s =>
           t \in UsedPwm /\ pwm[t].pin # p /\ pwm[t].pin \in GpioPins
  BY <1>1, <1>2 DEF UsedPwm, SlotOf, SlotIInv, SlotsTyped
<1>6. SlotsHoldWanted'
  <2> SUFFICES ASSUME NEW t \in UsedPwm'
               PROVE  /\ HoldsWanted(pwm'[t], wanted'[pwm'[t].pin])
                      /\ Outputs(pwm'[t], pwmOutput'[t], wanted'[pwm'[t].pin])
    BY DEF SlotsHoldWanted, HoldsWanted, Outputs, AskedFrequency
  <2>0. t \in PwmSlots
    BY DEF UsedPwm
  <2>1. CASE t = s
    <3>1. pwm'[t] = x /\ pwmOutput'[t] = output /\ wanted'[pwm'[t].pin] = want
      BY <1>1, <1>2, <1>3, <1>5, <2>1
    <3> QED  BY <3>1
  <2>2. CASE t # s
    <3>1. t \in UsedPwm /\ pwm[t].pin # p /\ pwm[t].pin \in GpioPins
      BY <1>5, <2>2
    <3>2. /\ pwm'[t] = pwm[t] /\ pwmOutput'[t] = pwmOutput[t]
          /\ wanted'[pwm'[t].pin] = wanted[pwm[t].pin]
      BY <1>2, <1>3, <2>0, <2>2, <3>1
    <3> QED  BY <3>1, <3>2 DEF SlotsHoldWanted
  <2> QED  BY <2>1, <2>2
<1>7. NoSlotNoFrequency'
  <2> SUFFICES ASSUME NEW q \in GpioPins, \A t \in UsedPwm' : pwm'[t].pin # q
               PROVE  wanted'[q].frequency = 0
    BY DEF NoSlotNoFrequency
  <2>1. q # p
    BY <1>1, <1>2, <1>5
  <2>2. \A t \in UsedPwm : pwm[t].pin # q
    <3> SUFFICES ASSUME NEW t \in UsedPwm, pwm[t].pin = q  PROVE FALSE
      OBVIOUS
    <3>1. CASE t = s
      <4>1. pwm[s].used /\ pwm[s].pin # p
        BY <2>1, <3>1 DEF UsedPwm
      <4>2. SlotFor(p, s) = pwm[s]
        BY <4>1 DEF SlotFor
      <4>3. SlotFor(p, s).pin = p
        BY PwmAllocIsOwn DEF SlotIInv, SlotOf
      <4> QED  BY <4>1, <4>2, <4>3
    <3>2. CASE t # s
      BY <1>2, <3>2 DEF UsedPwm
    <3> QED  BY <3>1, <3>2
  <2> QED  BY <1>3, <2>1, <2>2 DEF NoSlotNoFrequency
<1> QED  BY <1>4, <1>6, <1>7

\* Changing what is wanted of a pin, one field and then the failure.
LEMMA DutyChanged ==
  ASSUME NEW w, w = [duty |-> w.duty, frequency |-> w.frequency, failed |-> w.failed],
         NEW d, NEW b
  PROVE  [w EXCEPT !.duty = d, !.failed = b] =
           [duty |-> d, frequency |-> w.frequency, failed |-> b]
<1> DEFINE v == [w EXCEPT !.duty = d]
<1>1. v = [duty |-> d, frequency |-> w.frequency, failed |-> w.failed]
  OBVIOUS
<1>2. /\ v = [duty |-> v.duty, frequency |-> v.frequency, failed |-> v.failed]
      /\ v.duty = d /\ v.frequency = w.frequency
  BY <1>1
<1>3. [w EXCEPT !.duty = d, !.failed = b] = [v EXCEPT !.failed = b]
  BY Zenon
<1> HIDE DEF v
<1>4. [v EXCEPT !.failed = b] = [duty |-> v.duty, frequency |-> v.frequency, failed |-> b]
  BY <1>2
<1> QED  BY <1>2, <1>3, <1>4

\* The same for the frequency.
LEMMA FrequencyChanged ==
  ASSUME NEW w, w = [duty |-> w.duty, frequency |-> w.frequency, failed |-> w.failed],
         NEW f, NEW b
  PROVE  [w EXCEPT !.frequency = f, !.failed = b] =
           [duty |-> w.duty, frequency |-> f, failed |-> b]
<1> DEFINE v == [w EXCEPT !.frequency = f]
<1>1. v = [duty |-> w.duty, frequency |-> f, failed |-> w.failed]
  OBVIOUS
<1>2. /\ v = [duty |-> v.duty, frequency |-> v.frequency, failed |-> v.failed]
      /\ v.duty = w.duty /\ v.frequency = f
  BY <1>1
<1>3. [w EXCEPT !.frequency = f, !.failed = b] = [v EXCEPT !.failed = b]
  BY Zenon
<1> HIDE DEF v
<1>4. [v EXCEPT !.failed = b] = [duty |-> v.duty, frequency |-> v.frequency, failed |-> b]
  BY <1>2
<1> QED  BY <1>2, <1>3, <1>4

\* analogWrite() keeps what is wanted, held and put out in agreement.
LEMMA WriteAgrees ==
  ASSUME SlotIInv, PwmIInv, NEW p \in GpioPins, NEW value \in WriteValues,
         AnalogWrite(p, value)
  PROVE  PwmIInv'
<1> DEFINE duty == <<Limited(value), writeResolution>>
           Want(failed) == [wanted[p] EXCEPT !.duty = duty, !.failed = failed]
<1>1. PICK s \in PwmAlloc(p) :
        \/ /\ ~SlotFor(p, s).initialized /\ wanted' = [wanted EXCEPT ![p] = Want(TRUE)]
           /\ pwm' = [pwm EXCEPT ![s] = SlotFor(p, s)]
           /\ pwmOutput' = pwmOutput
        \/ /\ pwm' = [pwm EXCEPT ![s] = WrittenSlot(SlotFor(p, s), duty)]
           /\ \E ok \in BOOLEAN :
                /\ wanted' = [wanted EXCEPT ![p] = Want(~ok)]
                /\ \/ pwmOutput' = [pwmOutput EXCEPT ![s] =
                         [duty |-> duty,
                          frequency |-> WrittenSlot(SlotFor(p, s), duty).frequency]]
                   \/ ~ok /\ pwmOutput' = pwmOutput
  BY DEF AnalogWrite
<1> HIDE DEF duty
<1>2. s \in PwmSlots /\ SlotOf(SlotFor(p, s), p)
  BY PwmAllocIsOwn DEF SlotIInv
<1>3. HoldsWanted(SlotFor(p, s), wanted[p])
  BY AllocatedHoldsWanted
<1>4. pwmOutput = [pwmOutput EXCEPT ![s] = pwmOutput[s]]
  BY <1>2 DEF PwmIInv, WantsTyped
<1>5. ASSUME NEW failed
      PROVE  Want(failed) =
               [duty |-> duty, frequency |-> wanted[p].frequency, failed |-> failed]
  <2> DEFINE w == wanted[p]
  <2>1. w = [duty |-> w.duty, frequency |-> w.frequency, failed |-> w.failed]
    BY DEF PwmIInv, WantsTyped
  <2> HIDE DEF w
  <2>2. [w EXCEPT !.duty = duty, !.failed = failed] =
          [duty |-> duty, frequency |-> w.frequency, failed |-> failed]
    BY <2>1, DutyChanged
  <2> QED  BY <2>2 DEF w
<1> HIDE DEF Want
<1>6. CASE /\ ~SlotFor(p, s).initialized /\ wanted' = [wanted EXCEPT ![p] = Want(TRUE)]
           /\ pwm' = [pwm EXCEPT ![s] = SlotFor(p, s)]
           /\ pwmOutput' = pwmOutput
  <2>1. /\ HoldsWanted(SlotFor(p, s), Want(TRUE))
        /\ Outputs(SlotFor(p, s), pwmOutput[s], Want(TRUE))
    BY <1>3, <1>5, <1>6 DEF HoldsWanted, Outputs
  <2>2. /\ Want(TRUE) = [duty |-> Want(TRUE).duty, frequency |-> Want(TRUE).frequency,
                         failed |-> Want(TRUE).failed]
        /\ Want(TRUE).failed \in BOOLEAN
    BY <1>5
  <2>3. pwmOutput' = [pwmOutput EXCEPT ![s] = pwmOutput[s]]
    BY <1>4, <1>6
  <2> QED  BY <1>2, <1>6, <2>1, <2>2, <2>3, AgreementStays
<1>7. ASSUME NEW ok \in BOOLEAN, NEW output,
             pwm' = [pwm EXCEPT ![s] = WrittenSlot(SlotFor(p, s), duty)],
             wanted' = [wanted EXCEPT ![p] = Want(~ok)],
             pwmOutput' = [pwmOutput EXCEPT ![s] = output],
             \/ output = [duty |-> duty,
                          frequency |-> WrittenSlot(SlotFor(p, s), duty).frequency]
             \/ ~ok
      PROVE  PwmIInv'
  <2> DEFINE x == WrittenSlot(SlotFor(p, s), duty)
             want == Want(~ok)
  <2>1. /\ want = [duty |-> duty, frequency |-> wanted[p].frequency, failed |-> ~ok]
        /\ want.failed \in BOOLEAN
    BY <1>5
  <2>2. SlotOf(x, p)
    BY <1>2, WrittenIsSlot
  <2>3. /\ x.initialized /\ x.duty = duty
        /\ x.frequency = IF SlotFor(p, s).frequency = 0 THEN DefaultFrequency
                         ELSE SlotFor(p, s).frequency
    BY <1>2 DEF SlotOf, IsSlot, WrittenSlot
  <2>4. AskedFrequency(want) = AskedFrequency(wanted[p])
    BY <2>1 DEF AskedFrequency
  <2>5. x.frequency = AskedFrequency(want)
    BY <1>3, <2>3, <2>4 DEF HoldsWanted, AskedFrequency
  <2>6. HoldsWanted(x, want) /\ Outputs(x, output, want)
    BY <1>7, <2>1, <2>3, <2>5 DEF HoldsWanted, Outputs
  <2>7. want = [duty |-> want.duty, frequency |-> want.frequency, failed |-> want.failed]
    BY <2>1
  <2>8. pwm' = [pwm EXCEPT ![s] = x] /\ wanted' = [wanted EXCEPT ![p] = want]
    BY <1>7
  <2> HIDE DEF x, want
  <2> QED  BY <1>7, <2>1, <2>2, <2>6, <2>7, <2>8, AgreementStays
<1> QED  BY <1>1, <1>4, <1>6, <1>7

\* setAnalogWriteFrequency() does too.
LEMMA FrequencyAgrees ==
  ASSUME SlotIInv, PwmIInv, NEW p \in GpioPins, NEW frequency \in Frequencies,
         SetAnalogWriteFrequency(p, frequency)
  PROVE  PwmIInv'
<1> DEFINE X(s) == [SlotFor(p, s) EXCEPT !.frequency = frequency]
           Want(failed) == [wanted[p] EXCEPT !.frequency = frequency, !.failed = failed]
<1>0. PICK s \in PwmAlloc(p) :
        /\ pwm' = [pwm EXCEPT ![s] = X(s)]
        /\ \E ok \in BOOLEAN :
             /\ wanted' = [wanted EXCEPT ![p].frequency = frequency,
                              ![p].failed = IF X(s).initialized THEN ~ok ELSE @]
             /\ pwmOutput' = IF X(s).initialized /\ ok
                               THEN [pwmOutput EXCEPT ![s] =
                                       [duty |-> X(s).duty, frequency |-> frequency]]
                               ELSE pwmOutput
  BY DEF SetAnalogWriteFrequency
<1>1. PICK ok \in BOOLEAN :
        /\ wanted' = [wanted EXCEPT ![p].frequency = frequency,
                         ![p].failed = IF X(s).initialized THEN ~ok ELSE @]
        /\ pwmOutput' = IF X(s).initialized /\ ok
                          THEN [pwmOutput EXCEPT ![s] =
                                  [duty |-> X(s).duty, frequency |-> frequency]]
                          ELSE pwmOutput
  BY <1>0
<1> DEFINE x == X(s)
           failed == IF x.initialized THEN ~ok ELSE wanted[p].failed
           want == Want(failed)
           output == IF x.initialized /\ ok THEN [duty |-> x.duty, frequency |-> frequency]
                     ELSE pwmOutput[s]
<1>2. s \in PwmSlots /\ SlotOf(SlotFor(p, s), p) /\ HoldsWanted(SlotFor(p, s), wanted[p])
  BY PwmAllocIsOwn, AllocatedHoldsWanted DEF SlotIInv
<1>3. /\ SlotOf(x, p) /\ x.frequency = frequency
      /\ x.initialized = SlotFor(p, s).initialized /\ x.duty = SlotFor(p, s).duty
  BY <1>2 DEF SlotOf, IsSlot
<1>4. failed \in BOOLEAN
  <2>1. wanted[p].failed \in BOOLEAN
    BY DEF PwmIInv, WantsTyped
  <2>2. (~ok) \in BOOLEAN
    BY Zenon
  <2> QED  BY <2>1, <2>2, Zenon
<1>5. pwm' = [pwm EXCEPT ![s] = x] /\ wanted' = [wanted EXCEPT ![p] = want]
  BY <1>0, <1>1 DEF PwmIInv, WantsTyped
<1>6. pwmOutput' = [pwmOutput EXCEPT ![s] = output]
  <2>1. pwmOutput = [pwmOutput EXCEPT ![s] = pwmOutput[s]]
    BY <1>2 DEF PwmIInv, WantsTyped
  <2> QED  BY <1>1, <2>1
<1>7. x.initialized /\ ~failed => output = [duty |-> x.duty, frequency |-> frequency]
  BY <1>1
<1> HIDE DEF x, failed, output
<1>8. want = [duty |-> wanted[p].duty, frequency |-> frequency, failed |-> failed]
  <2> DEFINE w == wanted[p]
  <2>1. w = [duty |-> w.duty, frequency |-> w.frequency, failed |-> w.failed]
    BY DEF PwmIInv, WantsTyped
  <2> HIDE DEF w
  <2>2. [w EXCEPT !.frequency = frequency, !.failed = failed] =
          [duty |-> w.duty, frequency |-> frequency, failed |-> failed]
    BY <2>1, FrequencyChanged
  <2> QED  BY <2>2 DEF w
<1>9. frequency # 0
  BY AnalogIoAssumption
<1> HIDE DEF want
<1>10. HoldsWanted(x, want)
  BY <1>2, <1>3, <1>8, <1>9 DEF HoldsWanted, AskedFrequency
<1>11. Outputs(x, output, want)
  BY <1>2, <1>3, <1>7, <1>8, <1>9 DEF HoldsWanted, Outputs, AskedFrequency
<1>12. /\ want = [duty |-> want.duty, frequency |-> want.frequency, failed |-> want.failed]
       /\ want.failed \in BOOLEAN
  BY <1>4, <1>8
<1> QED  BY <1>3, <1>5, <1>6, <1>10, <1>11, <1>12, AgreementStays

\* An output has the last duty cycle and the last frequency asked for.
THEOREM PwmSafety == AnalogIoSpec => []PwmFollows
<1>1. AnalogIoInit => PwmIInv
  <2> SUFFICES ASSUME AnalogIoInit  PROVE PwmIInv
    OBVIOUS
  <2>1. WantsTyped
    BY DEF AnalogIoInit, WantsTyped
  <2>2. UsedPwm = {}
    BY DEF AnalogIoInit, EmptySlot, UsedPwm
  <2>3. NoSlotNoFrequency
    BY DEF AnalogIoInit, NoSlotNoFrequency
  <2> QED  BY <2>1, <2>2, <2>3 DEF PwmIInv, SlotsHoldWanted
<1>2. SlotIInv /\ PwmIInv /\ [AnalogIoNext]_analogVars => PwmIInv'
  <2> SUFFICES ASSUME SlotIInv, PwmIInv, [AnalogIoNext]_analogVars  PROVE PwmIInv'
    OBVIOUS
  <2>1. CASE UNCHANGED <<pwm, pwmOutput, wanted>>
    BY <2>1 DEF PwmIInv, WantsTyped, SlotsHoldWanted, NoSlotNoFrequency, UsedPwm,
                HoldsWanted, Outputs, AskedFrequency
  <2> QED
    BY <2>1, WriteAgrees, FrequencyAgrees
    DEF AnalogIoNext, AnalogRead, AnalogWriteResolution, analogVars, pwmTable
<1>3. PwmIInv => PwmFollows
  BY DEF PwmIInv, SlotsHoldWanted, Outputs, AskedFrequency, PwmFollows
<1> QED  BY <1>1, <1>2, <1>3, SlotInvariant, PTL DEF AnalogIoSpec

-----------------------------------------------------------------------------
(* UART.                                                                   *)

\* The bytes that are received and not read, oldest first.
Pending == rxBuffer \o rxFifo

UartTyped ==
  /\ rxFifo \in Seq(Nat) /\ rxBuffer \in Seq(Nat)
  /\ Len(rxBuffer) <= BufferLength
  /\ received \in Nat /\ lastRead \in Nat /\ discarded \in Nat
  /\ lastRead <= received /\ discarded <= received
  /\ overflown \in BOOLEAN

\* Bytes q that are in order, and come after byte m and up to byte n.
InOrderBetween(q, m, n) ==
  \A i \in 1 .. Len(q) : /\ m < q[i] /\ q[i] <= n
                         /\ \A j \in 1 .. Len(q) : i < j => q[i] < q[j]

\* The last byte that was read or given up.
LastGone == IF lastRead > discarded THEN lastRead ELSE discarded

\* Nothing is missing between it and the last one received.
Complete ==
  /\ received = LastGone + Len(Pending)
  /\ \A i \in 1 .. Len(Pending) : Pending[i] = LastGone + i

\* Where the flag, the object and the ring stand at each place of the sketch.
UartLife ==
  /\ uartPc \in {"idle", "write", "flush"} =>
       (serialReady <=> uartHal = "irq") /\ (~serialReady => rxBuffer = <<>>)
  /\ uartPc \in {"baud", "event"} => uartHal = "init" /\ ~serialReady /\ rxBuffer = <<>>
  /\ uartPc = "clear" => uartHal = "free" /\ rxFifo = <<>>

UartIInv ==
  /\ UartTyped /\ UartLife
  /\ InOrderBetween(Pending, LastGone, received)
  /\ uartPc \notin {"free", "clear"} /\ ~overflown => Complete

\* BUFFER_LENGTH is a positive number.
LEMMA RingHasRoom == BufferLength \in Nat \ {0}
  BY UartAssumption, Zenon

\* Two sequences put together, place by place.
LEMMA Joined ==
  ASSUME NEW s \in Seq(Nat), NEW t \in Seq(Nat)
  PROVE  /\ s \o t \in Seq(Nat) /\ Len(s \o t) = Len(s) + Len(t)
         /\ \A i \in 1 .. Len(s) : (s \o t)[i] = s[i]
         /\ \A i \in 1 .. Len(t) : (s \o t)[Len(s) + i] = t[i]
  OBVIOUS

\* The receive interrupt takes what fits: the pending bytes become their beginning, all
\* of them unless a byte was dropped.
LEMMA IrqTakesPrefix ==
  ASSUME UartTyped, IrqHandler
  PROVE  /\ rxFifo' = <<>> /\ rxBuffer' \in Seq(Nat) /\ Len(rxBuffer') <= BufferLength
         /\ overflown' \in BOOLEAN /\ (overflown => overflown')
         /\ Len(Pending') <= Len(Pending)
         /\ \A i \in 1 .. Len(Pending') : Pending'[i] = Pending[i]
         /\ ~overflown' => Len(Pending') = Len(Pending)
<1> DEFINE fits == {k \in 0 .. Len(rxFifo) : Len(rxBuffer) + k <= BufferLength}
           kept == CHOOSE k \in fits : k + 1 \notin fits
<1>1. \E k \in fits : k + 1 \notin fits
  <2> DEFINE room == BufferLength - Len(rxBuffer)
             most == IF room <= Len(rxFifo) THEN room ELSE Len(rxFifo)
  <2>1. most \in fits /\ most + 1 \notin fits
    BY RingHasRoom DEF UartTyped
  <2> QED  BY <2>1
<1>2. kept \in 0 .. Len(rxFifo) /\ Len(rxBuffer) + kept <= BufferLength
  BY <1>1
<1>3. /\ rxBuffer' = rxBuffer \o SubSeq(rxFifo, 1, kept) /\ rxFifo' = <<>>
      /\ overflown' = (overflown \/ kept < Len(rxFifo))
  BY DEF IrqHandler
<1> HIDE DEF fits, kept
<1>4. /\ SubSeq(rxFifo, 1, kept) \in Seq(Nat) /\ Len(SubSeq(rxFifo, 1, kept)) = kept
      /\ \A i \in 1 .. kept : SubSeq(rxFifo, 1, kept)[i] = rxFifo[i]
  BY <1>2 DEF UartTyped
<1>5. /\ rxBuffer' \in Seq(Nat) /\ Len(rxBuffer') = Len(rxBuffer) + kept
      /\ \A i \in 1 .. Len(rxBuffer) : rxBuffer'[i] = rxBuffer[i]
      /\ \A i \in 1 .. kept : rxBuffer'[Len(rxBuffer) + i] = rxFifo[i]
  BY <1>3, <1>4, Joined DEF UartTyped
<1>6. Pending' = rxBuffer'
  BY <1>3, <1>5 DEF Pending
<1>7. /\ Len(Pending) = Len(rxBuffer) + Len(rxFifo)
      /\ \A i \in 1 .. Len(rxBuffer) : Pending[i] = rxBuffer[i]
      /\ \A i \in 1 .. Len(rxFifo) : Pending[Len(rxBuffer) + i] = rxFifo[i]
  BY Joined DEF Pending, UartTyped
<1>8. \A i \in 1 .. Len(Pending') : Pending'[i] = Pending[i]
  <2> SUFFICES ASSUME NEW i \in 1 .. Len(rxBuffer) + kept
               PROVE  rxBuffer'[i] = Pending[i]
    BY <1>5, <1>6
  <2>1. CASE i <= Len(rxBuffer)
    BY <1>2, <1>5, <1>7, <2>1 DEF UartTyped
  <2>2. CASE i > Len(rxBuffer)
    <3>1. PICK k \in 1 .. kept : i = Len(rxBuffer) + k
      <4>1. i - Len(rxBuffer) \in 1 .. kept
        BY <1>2, <2>2 DEF UartTyped
      <4> QED  BY <4>1 DEF UartTyped
    <3>2. k \in 1 .. Len(rxFifo)
      BY <1>2 DEF UartTyped
    <3> QED  BY <1>5, <1>7, <3>1, <3>2
  <2> QED  BY <1>2, <2>1, <2>2 DEF UartTyped
<1>9. Len(rxBuffer) \in Nat /\ Len(rxFifo) \in Nat
  BY DEF UartTyped
<1>10. Len(Pending') = Len(rxBuffer) + kept
  BY <1>5, <1>6
<1>11. Len(rxBuffer') <= BufferLength
  BY <1>2, <1>5
<1>12. Len(Pending') <= Len(Pending)
  BY <1>2, <1>7, <1>9, <1>10
<1>13. /\ overflown' \in BOOLEAN /\ (overflown => overflown')
       /\ ~overflown' => ~(kept < Len(rxFifo))
  <2> DEFINE dropped == kept < Len(rxFifo)
  <2>1. overflown' = (overflown \/ dropped)
    BY <1>3
  <2> HIDE DEF dropped
  <2>2. overflown' \in BOOLEAN /\ (overflown => overflown') /\ (~overflown' => ~dropped)
    BY <2>1, Zenon
  <2> QED  BY <2>2 DEF dropped
<1>14. ~overflown' => Len(Pending') = Len(Pending)
  <2>1. ~(kept < Len(rxFifo)) => kept = Len(rxFifo)
    BY <1>2, <1>9
  <2>2. kept = Len(rxFifo) => Len(Pending') = Len(Pending)
    BY <1>7, <1>10
  <2> QED  BY <1>13, <2>1, <2>2
<1> QED  BY <1>3, <1>5, <1>8, <1>11, <1>12, <1>13, <1>14

\* A beginning of bytes in order is in order.
LEMMA PrefixInOrder ==
  ASSUME NEW q \in Seq(Nat), NEW r \in Seq(Nat), NEW m \in Nat, NEW n \in Nat,
         InOrderBetween(q, m, n), Len(r) <= Len(q), \A i \in 1 .. Len(r) : r[i] = q[i]
  PROVE  InOrderBetween(r, m, n)
<1>1. Len(q) \in Nat /\ Len(r) \in Nat
  OBVIOUS
<1>2. \A i \in 1 .. Len(r) : i \in 1 .. Len(q)
  BY <1>1
<1>3. \A i \in 1 .. Len(r) : /\ m < r[i] /\ r[i] <= n
                            /\ \A j \in 1 .. Len(r) : i < j => r[i] < r[j]
  BY <1>2 DEF InOrderBetween
<1> QED  BY <1>3 DEF InOrderBetween

\* A step that changes none of the bytes keeps what is said of them.
LEMMA SameBytes ==
  ASSUME UartTyped, UNCHANGED <<rxFifo, rxBuffer, received, lastRead, discarded, overflown>>
  PROVE  /\ UartTyped' /\ Pending' = Pending /\ LastGone' = LastGone
         /\ Complete' = Complete
<1>1. UartTyped'
  BY DEF UartTyped
<1>2. Pending' = Pending /\ LastGone' = LastGone
  BY DEF Pending, LastGone
<1>3. Complete' = Complete
  BY <1>2 DEF Complete
<1> QED  BY <1>1, <1>2, <1>3

\* The types of what the invariant speaks of.
LEMMA PendingTyped ==
  ASSUME UartTyped
  PROVE  /\ Pending \in Seq(Nat) /\ Len(Pending) = Len(rxBuffer) + Len(rxFifo)
         /\ LastGone \in Nat /\ LastGone <= received
         /\ lastRead <= LastGone /\ discarded <= LastGone
<1>1. Pending \in Seq(Nat) /\ Len(Pending) = Len(rxBuffer) + Len(rxFifo)
  BY Joined DEF UartTyped, Pending
<1>2. /\ LastGone \in Nat /\ LastGone <= received
      /\ lastRead <= LastGone /\ discarded <= LastGone
  BY DEF UartTyped, LastGone
<1> QED  BY <1>1, <1>2

\* A byte that comes in is the last one pending, or it is lost and overflown tells.
LEMMA ReceiveStep ==
  ASSUME UartIInv, Receive
  PROVE  UartIInv'
<1> USE DEF UartIInv
<1>1. /\ received' = received + 1 /\ uartHal # "free"
      /\ UNCHANGED <<uartHal, serialReady, rxBuffer, uartPc, lastRead, discarded>>
  BY DEF Receive, sending
<1>2. LastGone' = LastGone
  BY <1>1 DEF LastGone
<1>4. CASE Len(rxFifo) < FifoLength
  <2>1. rxFifo' = Append(rxFifo, received + 1) /\ overflown' = overflown
    BY <1>1, <1>4 DEF Receive
  <2>2. /\ rxFifo' \in Seq(Nat) /\ Len(rxFifo') = Len(rxFifo) + 1
        /\ rxFifo'[Len(rxFifo) + 1] = received + 1
        /\ \A i \in 1 .. Len(rxFifo) : rxFifo'[i] = rxFifo[i]
    BY <2>1 DEF UartTyped
  <2>3. UartTyped'
    BY <1>1, <2>1, <2>2 DEF UartTyped
  <2>4. Pending' = Append(Pending, received + 1)
    BY <1>1, <2>1 DEF Pending, UartTyped
  <2>5. /\ Len(Pending') = Len(Pending) + 1 /\ Pending'[Len(Pending) + 1] = received + 1
        /\ \A i \in 1 .. Len(Pending) : Pending'[i] = Pending[i]
    BY <2>4, PendingTyped DEF UartTyped
  <2>6. Len(Pending) \in Nat /\ LastGone \in Nat /\ LastGone <= received /\ received \in Nat
    BY PendingTyped DEF UartTyped
  <2>7. InOrderBetween(Pending', LastGone', received')
    <3>1. ASSUME NEW i \in 1 .. Len(Pending) + 1
          PROVE  /\ LastGone < Pending'[i] /\ Pending'[i] <= received + 1
                 /\ \A j \in 1 .. Len(Pending) + 1 : i < j => Pending'[i] < Pending'[j]
      <4>1. CASE i = Len(Pending) + 1
        BY <2>5, <2>6, <4>1
      <4>2. CASE i \in 1 .. Len(Pending)
        <5>1. Pending'[i] = Pending[i] /\ Pending[i] \in Nat
          BY <2>5, <4>2, PendingTyped
        <5>2. /\ LastGone < Pending[i] /\ Pending[i] <= received
              /\ \A j \in 1 .. Len(Pending) : i < j => Pending[i] < Pending[j]
          BY <4>2 DEF InOrderBetween
        <5>3. ASSUME NEW j \in 1 .. Len(Pending) + 1, i < j
              PROVE  Pending'[i] < Pending'[j]
          BY <2>5, <2>6, <4>2, <5>1, <5>2, <5>3
        <5> QED  BY <2>6, <5>1, <5>2, <5>3
      <4> QED  BY <2>6, <4>1, <4>2
    <3> QED  BY <1>1, <1>2, <2>5, <3>1 DEF InOrderBetween
  <2>8. uartPc' \notin {"free", "clear"} /\ ~overflown' => Complete'
    <3> SUFFICES ASSUME Complete  PROVE Complete'
      BY <1>1, <2>1
    <3>1. received' = LastGone' + Len(Pending')
      BY <1>1, <1>2, <2>5, <2>6 DEF Complete
    <3>2. ASSUME NEW i \in 1 .. Len(Pending) + 1  PROVE Pending'[i] = LastGone + i
      <4>1. CASE i = Len(Pending) + 1
        <5>1. received + 1 = LastGone + i
          BY <2>6, <4>1 DEF Complete
        <5> QED  BY <2>5, <4>1, <5>1
      <4>2. CASE i \in 1 .. Len(Pending)
        BY <2>5, <4>2 DEF Complete
      <4> QED  BY <2>6, <4>1, <4>2
    <3>3. \A i \in 1 .. Len(Pending') : Pending'[i] = LastGone' + i
      <4>1. Len(Pending') = Len(Pending) + 1
        BY <2>5
      <4> QED  BY <1>2, <3>2, <4>1
    <3> QED  BY <3>1, <3>3 DEF Complete
  <2>9. UartLife'
    BY <1>1, <2>1 DEF UartLife
  <2> QED  BY <2>3, <2>7, <2>8, <2>9
<1>5. CASE ~(Len(rxFifo) < FifoLength)
  <2>1. rxFifo' = rxFifo /\ overflown' = TRUE
    BY <1>1, <1>5 DEF Receive
  <2>2. UartTyped' /\ UartLife'
    BY <1>1, <2>1 DEF UartTyped, UartLife
  <2>3. Pending' = Pending /\ received \in Nat
    BY <1>1, <2>1 DEF Pending, UartTyped
  <2>4. InOrderBetween(Pending', LastGone', received')
    BY <1>1, <1>2, <2>3, PendingTyped DEF InOrderBetween
  <2> QED  BY <2>1, <2>2, <2>4
<1> QED  BY <1>4, <1>5

\* A byte that is read is the first one pending.
LEMMA ReadStep ==
  ASSUME UartIInv, Read
  PROVE  UartIInv'
<1> USE DEF UartIInv
<1>1. /\ uartPc = "idle" /\ rxBuffer # <<>>
      /\ lastRead' = Head(rxBuffer) /\ rxBuffer' = Tail(rxBuffer)
      /\ UNCHANGED <<uartHal, serialReady, rxFifo, uartPc, received, discarded, overflown>>
  BY DEF Read, Step
<1>2. /\ Len(rxBuffer) \in Nat \ {0} /\ rxBuffer[1] \in Nat /\ rxBuffer' \in Seq(Nat)
      /\ Len(rxBuffer') = Len(rxBuffer) - 1 /\ lastRead' = rxBuffer[1]
      /\ \A i \in 1 .. Len(rxBuffer) - 1 : rxBuffer'[i] = rxBuffer[i + 1]
  BY <1>1 DEF UartTyped
<1>3. /\ Pending \in Seq(Nat) /\ Len(Pending) = Len(rxBuffer) + Len(rxFifo)
      /\ \A i \in 1 .. Len(rxBuffer) : Pending[i] = rxBuffer[i]
      /\ \A i \in 1 .. Len(rxFifo) : Pending[Len(rxBuffer) + i] = rxFifo[i]
      /\ Len(rxFifo) \in Nat
  BY Joined DEF Pending, UartTyped
<1>4. /\ Pending' = rxBuffer' \o rxFifo
      /\ Len(rxBuffer' \o rxFifo) = Len(rxBuffer') + Len(rxFifo)
      /\ \A i \in 1 .. Len(rxBuffer') : (rxBuffer' \o rxFifo)[i] = rxBuffer'[i]
      /\ \A i \in 1 .. Len(rxFifo) : (rxBuffer' \o rxFifo)[Len(rxBuffer') + i] = rxFifo[i]
  BY <1>1, <1>2, Joined DEF Pending, UartTyped
<1>5. Len(Pending') = Len(Pending) - 1 /\ Len(Pending) \in Nat \ {0}
  BY <1>2, <1>3, <1>4
<1>6. ASSUME NEW i \in 1 .. Len(Pending) - 1  PROVE Pending'[i] = Pending[i + 1]
  <2>1. CASE i <= Len(rxBuffer) - 1
    <3>1. /\ i \in 1 .. Len(rxBuffer') /\ i \in 1 .. Len(rxBuffer) - 1
          /\ i + 1 \in 1 .. Len(rxBuffer)
      BY <1>2, <2>1
    <3> QED  BY <1>2, <1>3, <1>4, <3>1
  <2>2. CASE i > Len(rxBuffer) - 1
    <3>1. PICK k \in 1 .. Len(rxFifo) : i = Len(rxBuffer') + k
      <4>1. i - Len(rxBuffer') \in 1 .. Len(rxFifo)
        BY <1>2, <1>3, <2>2
      <4>2. i = Len(rxBuffer') + (i - Len(rxBuffer'))
        BY <1>2, <1>5
      <4> QED  BY <4>1, <4>2
    <3>2. i + 1 = Len(rxBuffer) + k
      BY <1>2, <3>1
    <3> QED  BY <1>3, <1>4, <3>1, <3>2
  <2> QED  BY <1>2, <2>1, <2>2
<1>7. /\ LastGone < Pending[1] /\ Pending[1] <= received /\ lastRead' = Pending[1]
      /\ LastGone \in Nat /\ discarded <= LastGone /\ received \in Nat /\ discarded \in Nat
  <2>1. LastGone < Pending[1] /\ Pending[1] <= received
    BY <1>5 DEF InOrderBetween
  <2> QED  BY <1>2, <1>3, <2>1, PendingTyped DEF UartTyped
<1>8. LastGone' = Pending[1]
  BY <1>1, <1>2, <1>7 DEF LastGone
<1>9. UartTyped'
  <2>2. Len(rxBuffer') <= BufferLength
    BY <1>2, RingHasRoom DEF UartTyped
  <2> QED  BY <1>1, <1>2, <1>7, <2>2 DEF UartTyped
<1>10. UartLife'
  <2>1. rxBuffer = <<>> => rxBuffer' = <<>>
    BY <1>1
  <2> QED  BY <1>1, <2>1 DEF UartLife
<1>11. InOrderBetween(Pending', LastGone', received')
  <2>1. ASSUME NEW i \in 1 .. Len(Pending) - 1
        PROVE  /\ Pending[1] < Pending'[i] /\ Pending'[i] <= received
               /\ \A j \in 1 .. Len(Pending) - 1 : i < j => Pending'[i] < Pending'[j]
    <3>1. i + 1 \in 1 .. Len(Pending) /\ 1 \in 1 .. Len(Pending) /\ 1 < i + 1
      BY <1>5
    <3>2. Pending[1] < Pending[i + 1] /\ Pending[i + 1] <= received
      BY <3>1 DEF InOrderBetween
    <3>3. ASSUME NEW j \in 1 .. Len(Pending) - 1, i < j  PROVE Pending'[i] < Pending'[j]
      <4>1. j + 1 \in 1 .. Len(Pending) /\ i + 1 < j + 1
        BY <1>5, <3>3
      <4>2. Pending[i + 1] < Pending[j + 1]
        BY <3>1, <4>1 DEF InOrderBetween
      <4> QED  BY <1>6, <4>2
    <3> QED  BY <1>6, <3>2, <3>3
  <2> QED  BY <1>1, <1>5, <1>8, <2>1 DEF InOrderBetween
<1>12. uartPc' \notin {"free", "clear"} /\ ~overflown' => Complete'
  <2> SUFFICES ASSUME Complete  PROVE Complete'
    BY <1>1
  <2>1. Pending[1] = LastGone + 1
    BY <1>5 DEF Complete
  <2>2. received' = LastGone' + Len(Pending')
    BY <1>1, <1>5, <1>7, <1>8, <2>1 DEF Complete
  <2>3. ASSUME NEW i \in 1 .. Len(Pending')  PROVE Pending'[i] = LastGone' + i
    <3>1. i \in 1 .. Len(Pending) - 1 /\ i + 1 \in 1 .. Len(Pending)
      BY <1>5
    <3>2. Pending[i + 1] = LastGone + (i + 1)
      BY <3>1 DEF Complete
    <3> QED  BY <1>6, <1>7, <1>8, <2>1, <3>1, <3>2
  <2> QED  BY <2>2, <2>3 DEF Complete
<1> QED  BY <1>9, <1>10, <1>11, <1>12

\* The three steps of end(): the two that empty the hardware leave the ring, the last one
\* gives up what there is.
LEMMA EndStep ==
  ASSUME UartIInv, EndClear \/ EndFree \/ EndRing
  PROVE  UartIInv'
<1> USE DEF UartIInv
<1>1. CASE EndClear \/ EndFree
  <2>1. /\ rxFifo' = <<>> /\ uartPc' \in {"free", "clear"}
        /\ uartPc' = "clear" => uartHal' = "free"
        /\ UNCHANGED <<rxBuffer, received, lastRead, discarded, overflown>>
    BY <1>1 DEF EndClear, EndFree, Step, history
  <2>2. UartTyped'
    BY <2>1 DEF UartTyped
  <2>3. UartLife'
    BY <2>1 DEF UartLife
  <2>4. /\ Pending' = rxBuffer /\ LastGone' = LastGone
        /\ rxBuffer \in Seq(Nat) /\ Len(rxBuffer) <= Len(Pending)
        /\ \A i \in 1 .. Len(rxBuffer) : rxBuffer[i] = Pending[i]
    <3>1. Len(Pending) = Len(rxBuffer) + Len(rxFifo) /\ Len(rxFifo) \in Nat
      BY PendingTyped DEF UartTyped
    <3>2. \A i \in 1 .. Len(rxBuffer) : rxBuffer[i] = Pending[i]
      BY Joined DEF UartTyped, Pending
    <3>3. Pending' = rxBuffer /\ rxBuffer \in Seq(Nat) /\ Len(rxBuffer) \in Nat
      BY <2>1 DEF Pending, UartTyped
    <3>4. LastGone' = LastGone
      BY <2>1 DEF LastGone
    <3> QED  BY <3>1, <3>2, <3>3, <3>4
  <2>5. InOrderBetween(rxBuffer, LastGone, received)
    BY <2>4, PendingTyped, PrefixInOrder DEF UartTyped
  <2> QED  BY <2>1, <2>2, <2>3, <2>4, <2>5
<1>2. CASE EndRing
  <2>1. /\ uartPc = "clear" /\ uartPc' = "idle" /\ rxBuffer' = <<>> /\ serialReady' = FALSE
        /\ discarded' = received /\ overflown' = FALSE
        /\ UNCHANGED <<uartHal, rxFifo, received, lastRead>>
    BY <1>2 DEF EndRing, Step
  <2>2. uartHal = "free" /\ rxFifo = <<>>
    BY <2>1 DEF UartLife
  <2>3. UartTyped'
    <3>1. rxBuffer' \in Seq(Nat) /\ Len(rxBuffer') <= BufferLength
      BY <2>1, RingHasRoom
    <3>2. rxFifo' \in Seq(Nat) /\ overflown' \in BOOLEAN
      BY <2>1 DEF UartTyped
    <3>3. /\ received' \in Nat /\ lastRead' \in Nat /\ discarded' \in Nat
          /\ lastRead' <= received' /\ discarded' <= received'
      BY <2>1 DEF UartTyped
    <3> QED  BY <3>1, <3>2, <3>3 DEF UartTyped
  <2>4. UartLife'
    BY <2>1, <2>2 DEF UartLife
  <2>5. Pending' = <<>> /\ LastGone' = received /\ received \in Nat
    BY <2>1, <2>2 DEF Pending, LastGone, UartTyped
  <2> QED  BY <2>1, <2>3, <2>4, <2>5 DEF InOrderBetween, Complete
<1> QED  BY <1>1, <1>2

\* The interrupt keeps the order, and all bytes unless one was dropped.
LEMMA IrqStep ==
  ASSUME UartIInv, IrqHandler
  PROVE  UartIInv'
<1> USE DEF UartIInv
<1>1. /\ uartHal = "irq"
      /\ UNCHANGED <<uartHal, serialReady, uartPc, received, lastRead, discarded>>
  BY DEF IrqHandler
<1>2. /\ rxFifo' = <<>> /\ rxBuffer' \in Seq(Nat) /\ Len(rxBuffer') <= BufferLength
      /\ overflown' \in BOOLEAN /\ (overflown => overflown')
      /\ Len(Pending') <= Len(Pending)
      /\ \A i \in 1 .. Len(Pending') : Pending'[i] = Pending[i]
      /\ ~overflown' => Len(Pending') = Len(Pending)
  BY IrqTakesPrefix
<1>3. UartTyped'
  <2>1. rxFifo' \in Seq(Nat)
    BY <1>2
  <2>2. /\ received' \in Nat /\ lastRead' \in Nat /\ discarded' \in Nat
        /\ lastRead' <= received' /\ discarded' <= received'
    BY <1>1 DEF UartTyped
  <2> QED  BY <1>2, <2>1, <2>2, Zenon DEF UartTyped
<1>4. UartLife'
  BY <1>1, <1>2 DEF UartLife
<1>5. LastGone' = LastGone
  BY <1>1 DEF LastGone
<1>6. Pending' \in Seq(Nat)
  BY <1>2 DEF Pending
<1>7. InOrderBetween(Pending', LastGone, received)
  BY <1>2, <1>6, PendingTyped, PrefixInOrder DEF UartTyped
<1>8. uartPc' \notin {"free", "clear"} /\ ~overflown' => Complete'
  <2>1. uartPc' = uartPc /\ received' = received
    BY <1>1
  <2>2. ASSUME Complete, ~overflown'  PROVE Complete'
    BY <1>2, <1>5, <2>1, <2>2 DEF Complete
  <2> QED  BY <1>2, <2>1, <2>2, Zenon
<1> QED  BY <1>1, <1>3, <1>4, <1>5, <1>7, <1>8

\* The steps that leave every byte where it is.
LEMMA OtherUartStep ==
  ASSUME UartIInv,
         \/ BeginInit \/ BeginBaud \/ BeginReady
         \/ Send \/ WriteBegin \/ FlushBegin \/ UartTurn \/ TimeOut
         \/ UNCHANGED uartVars
  PROVE  UartIInv'
<1> USE DEF UartIInv
<1>1. /\ UNCHANGED <<rxFifo, rxBuffer, received, lastRead, discarded, overflown>>
      /\ uartPc' \notin {"free", "clear"} => uartPc \notin {"free", "clear"}
  BY DEF BeginInit, BeginBaud, BeginReady, Send, WriteBegin, FlushBegin, UartTurn,
         WriteTurn, FlushTurn, TimeOut, Step, uartVars, sending, history
<1>2. UartLife'
  BY <1>1 DEF UartLife, BeginInit, BeginBaud, BeginReady, Send, WriteBegin, FlushBegin,
              UartTurn, WriteTurn, FlushTurn, TimeOut, Step, uartVars, sending, history
<1> QED  BY <1>1, <1>2, SameBytes

\* The bytes between the interrupt and read(), and the life of the object, are in step.
THEOREM UartInvariant == UartSpec => []UartIInv
<1>1. UartInit => UartIInv
  <2> SUFFICES ASSUME UartInit  PROVE UartIInv
    OBVIOUS
  <2>1. UartLife
    BY DEF UartInit, UartLife
  <2>3. UartTyped
    <3>1. rxBuffer \in Seq(Nat) /\ Len(rxBuffer) <= BufferLength /\ rxFifo \in Seq(Nat)
      BY RingHasRoom DEF UartInit
    <3>2. /\ received \in Nat /\ lastRead \in Nat /\ discarded \in Nat
          /\ lastRead <= received /\ discarded <= received
      BY DEF UartInit
    <3>3. overflown \in BOOLEAN
      BY DEF UartInit
    <3> QED  BY <3>1, <3>2, <3>3 DEF UartTyped
  <2>2. Pending = <<>> /\ LastGone = 0 /\ received = 0
    BY DEF UartInit, Pending, LastGone
  <2> QED  BY <2>1, <2>2, <2>3 DEF UartIInv, InOrderBetween, Complete
<1>2. UartIInv /\ [UartNext]_uartVars => UartIInv'
  BY ReceiveStep, IrqStep, EndStep, ReadStep, OtherUartStep DEF UartNext
<1> QED  BY <1>1, <1>2, PTL DEF UartSpec

\* The types of Uart.cpp: the sketch's side, and the receiver's.
UartControl ==
  /\ uartHal \in {"free", "init", "irq"} /\ serialReady \in BOOLEAN
  /\ uartPc \in {"idle", "baud", "event", "free", "clear", "write", "flush"}
  /\ late \in BOOLEAN

UartCounters == txFifo \in 0 .. TxLength /\ left \in Nat /\ Len(rxFifo) <= FifoLength

\* A turn of write()'s loop writes what is left or what fits, whichever is less.
LEMMA WriteTurnFits ==
  ASSUME UartCounters, WriteTurn
  PROVE  txFifo' \in 0 .. TxLength /\ left' \in Nat
<1> DEFINE now == {left, TxLength - txFifo}
           n == CHOOSE m \in now : \A k \in now : m <= k
<1>1. TxLength \in Nat
  BY UartAssumption, Zenon
<1>2. \E m \in now : \A k \in now : m <= k
  BY <1>1 DEF UartCounters
<1>3. n \in now /\ \A k \in now : n <= k
  BY <1>2
<1> HIDE DEF n
<1>4. n \in Nat /\ n <= left /\ n <= TxLength - txFifo
  <2>1. (n = left \/ n = TxLength - txFifo) /\ n <= left /\ n <= TxLength - txFifo
    BY <1>3
  <2> QED  BY <1>1, <2>1 DEF UartCounters
<1>5. (left' = left - n /\ txFifo' = txFifo + n) \/ (left' = left /\ txFifo' = txFifo)
  BY DEF WriteTurn, n
<1> QED  BY <1>1, <1>4, <1>5 DEF UartCounters

\* A function on the first n numbers into a set is a sequence over it.
LEMMA OverASet ==
  ASSUME NEW S, NEW n \in Nat, NEW q \in [1 .. n -> S]
  PROVE  q \in Seq(S)
<1>1. Seq(S) = UNION {[1 .. m -> S] : m \in Nat}
  BY SeqDef, Zenon
<1>2. [1 .. n -> S] \in {[1 .. m -> S] : m \in Nat}
  BY Zenon
<1> QED  BY <1>1, <1>2, Zenon

\* The types of Uart.cpp.
THEOREM UartTyping == UartSpec => []UartTypeOK
<1>1. UartInit => UartControl /\ UartCounters
  <2> SUFFICES ASSUME UartInit  PROVE UartControl /\ UartCounters
    OBVIOUS
  <2>1. UartControl
    BY DEF UartInit, UartControl
  <2>2. TxLength \in Nat /\ FifoLength \in Nat
    BY UartAssumption, Zenon
  <2> QED  BY <2>1, <2>2 DEF UartInit, UartCounters
<1>2. UartControl /\ [UartNext]_uartVars => UartControl'
  BY DEF UartControl, UartNext, uartVars, sending, history, Receive, Send, IrqHandler,
         BeginInit, BeginBaud, BeginReady, EndClear, EndFree, EndRing, Read, WriteBegin,
         FlushBegin, UartTurn, WriteTurn, FlushTurn, TimeOut, Step
<1>3. UartIInv /\ UartCounters /\ [UartNext]_uartVars => UartCounters'
  <2> SUFFICES ASSUME UartTyped, UartCounters, [UartNext]_uartVars  PROVE UartCounters'
    BY DEF UartIInv
  <2>1. TxLength \in Nat /\ FifoLength \in Nat /\ WriteSizes \subseteq Nat
    BY UartAssumption, Zenon
  <2>2. CASE Receive
    BY <2>1, <2>2 DEF Receive, sending, UartCounters, UartTyped
  <2>3. CASE Send
    BY <2>1, <2>3 DEF Send, UartCounters
  <2>4. CASE IrqHandler \/ EndClear \/ EndFree
    BY <2>1, <2>4 DEF IrqHandler, EndClear, EndFree, sending, UartCounters
  <2>5. CASE BeginInit \/ BeginBaud \/ BeginReady \/ EndRing \/ Read \/ FlushTurn
    BY <2>5 DEF BeginInit, BeginBaud, BeginReady, EndRing, Read, FlushTurn, sending,
                UartCounters
  <2>6. CASE WriteBegin \/ FlushBegin \/ TimeOut
    BY <2>1, <2>6 DEF WriteBegin, FlushBegin, TimeOut, UartCounters
  <2>7. CASE WriteTurn
    <3>1. rxFifo' = rxFifo
      BY <2>7 DEF WriteTurn
    <3> QED  BY <2>7, <3>1, WriteTurnFits DEF UartCounters
  <2>8. CASE UNCHANGED uartVars
    BY <2>8 DEF uartVars, UartCounters
  <2> QED
    BY <2>2, <2>3, <2>4, <2>5, <2>6, <2>7, <2>8 DEF UartNext, UartTurn
<1>4. UartIInv /\ UartControl /\ UartCounters => UartTypeOK
  <2> SUFFICES ASSUME UartIInv, UartControl, UartCounters  PROVE UartTypeOK
    OBVIOUS
  <2>1. UartTyped /\ Pending = rxBuffer \o rxFifo
    BY DEF UartIInv, Pending
  <2>2. \A k \in 1 .. Len(Pending) : LastGone < Pending[k] /\ Pending[k] <= received
    BY DEF UartIInv, InOrderBetween
  <2>3. \A k \in 1 .. Len(rxBuffer) : rxBuffer[k] \in 1 .. received
    BY <2>1, <2>2, Joined, PendingTyped DEF UartTyped
  <2>4. \A k \in 1 .. Len(rxFifo) : rxFifo[k] \in 1 .. received
    <3> SUFFICES ASSUME NEW k \in 1 .. Len(rxFifo)  PROVE rxFifo[k] \in 1 .. received
      OBVIOUS
    <3>1. /\ rxFifo \in Seq(Nat) /\ rxBuffer \in Seq(Nat)
          /\ received \in Nat /\ LastGone \in Nat
      BY <2>1, PendingTyped DEF UartTyped
    <3>2. Len(rxBuffer) + k \in 1 .. Len(Pending)
      BY <2>1, <3>1, PendingTyped
    <3>3. Pending[Len(rxBuffer) + k] = rxFifo[k]
      BY <2>1, <3>1, Joined
    <3> QED  BY <2>2, <3>1, <3>2, <3>3
  <2>5. ASSUME NEW q \in Seq(Nat), \A k \in 1 .. Len(q) : q[k] \in 1 .. received
        PROVE  q \in Seq(1 .. received)
    <3>1. q \in [1 .. Len(q) -> Nat] /\ Len(q) \in Nat
      BY LenProperties
    <3>2. q \in [1 .. Len(q) -> 1 .. received]
      BY <2>5, <3>1
    <3> QED  BY <3>1, <3>2, OverASet
  <2>6. rxFifo \in Seq(1 .. received) /\ rxBuffer \in Seq(1 .. received)
    BY <2>1, <2>3, <2>4, <2>5 DEF UartTyped
  <2> QED  BY <2>1, <2>6 DEF UartTyped, UartControl, UartCounters, UartTypeOK
<1> QED  BY <1>1, <1>2, <1>3, <1>4, UartInvariant, PTL DEF UartSpec

\* A Serial that says it is ready receives; one that does not holds no earlier byte.
THEOREM ReadySafety == UartSpec => []ReadyReceives
<1>1. UartIInv => ReadyReceives
  BY DEF UartIInv, UartLife, ReadyReceives
<1> QED  BY <1>1, UartInvariant, PTL

\* The bytes read and pending as one sequence: the last one read, then the others.
LEMMA StreamIsPending ==
  ASSUME UartTyped
  PROVE  /\ Len(Stream) = Len(Pending) + 1 /\ Stream[1] = lastRead
         /\ \A i \in 1 .. Len(Pending) : Stream[i + 1] = Pending[i]
<1> DEFINE read == <<lastRead>>
<1>1. read \in Seq(Nat) /\ Len(read) = 1 /\ read[1] = lastRead
  BY DEF UartTyped
<1> HIDE DEF read
<1>2. /\ rxBuffer \in Seq(Nat) /\ rxFifo \in Seq(Nat)
      /\ Len(rxBuffer) \in Nat /\ Len(rxFifo) \in Nat
  BY DEF UartTyped
<1>3. /\ read \o rxBuffer \in Seq(Nat) /\ Len(read \o rxBuffer) = 1 + Len(rxBuffer)
      /\ (read \o rxBuffer)[1] = lastRead
      /\ \A i \in 1 .. Len(rxBuffer) : (read \o rxBuffer)[1 + i] = rxBuffer[i]
  <2>1. /\ read \o rxBuffer \in Seq(Nat) /\ Len(read \o rxBuffer) = Len(read) + Len(rxBuffer)
        /\ \A i \in 1 .. Len(read) : (read \o rxBuffer)[i] = read[i]
        /\ \A i \in 1 .. Len(rxBuffer) : (read \o rxBuffer)[Len(read) + i] = rxBuffer[i]
    BY <1>1, <1>2, Joined
  <2>2. 1 \in 1 .. Len(read)
    BY <1>1
  <2> QED  BY <1>1, <2>1, <2>2
<1>4. /\ Stream = (read \o rxBuffer) \o rxFifo
      /\ Len(Stream) = 1 + Len(rxBuffer) + Len(rxFifo)
      /\ \A i \in 1 .. 1 + Len(rxBuffer) : Stream[i] = (read \o rxBuffer)[i]
      /\ \A i \in 1 .. Len(rxFifo) : Stream[1 + Len(rxBuffer) + i] = rxFifo[i]
  <2>1. Stream = (read \o rxBuffer) \o rxFifo
    BY DEF Stream, read
  <2> DEFINE front == read \o rxBuffer
  <2>2. front \in Seq(Nat) /\ Len(front) = 1 + Len(rxBuffer)
    BY <1>3
  <2> HIDE DEF front
  <2>3. /\ Len(front \o rxFifo) = Len(front) + Len(rxFifo)
        /\ \A i \in 1 .. Len(front) : (front \o rxFifo)[i] = front[i]
        /\ \A i \in 1 .. Len(rxFifo) : (front \o rxFifo)[Len(front) + i] = rxFifo[i]
    BY <1>2, <2>2, Joined
  <2>4. Stream = front \o rxFifo
    BY <2>1 DEF front
  <2>5. /\ Len(Stream) = 1 + Len(rxBuffer) + Len(rxFifo)
        /\ \A i \in 1 .. 1 + Len(rxBuffer) : Stream[i] = front[i]
        /\ \A i \in 1 .. Len(rxFifo) : Stream[1 + Len(rxBuffer) + i] = rxFifo[i]
    BY <2>2, <2>3, <2>4
  <2> QED  BY <2>1, <2>5 DEF front
<1>5. /\ Len(Pending) = Len(rxBuffer) + Len(rxFifo)
      /\ \A i \in 1 .. Len(rxBuffer) : Pending[i] = rxBuffer[i]
      /\ \A i \in 1 .. Len(rxFifo) : Pending[Len(rxBuffer) + i] = rxFifo[i]
  BY <1>2, Joined DEF Pending
<1>6. ASSUME NEW i \in 1 .. Len(Pending)  PROVE Stream[i + 1] = Pending[i]
  <2>1. CASE i \in 1 .. Len(rxBuffer)
    <3>1. i + 1 \in 1 .. 1 + Len(rxBuffer) /\ i + 1 = 1 + i
      BY <1>2, <2>1
    <3> QED  BY <1>3, <1>4, <1>5, <2>1, <3>1
  <2>2. CASE i > Len(rxBuffer)
    <3>1. i - Len(rxBuffer) \in 1 .. Len(rxFifo)
      BY <1>2, <1>5, <2>2
    <3>2. /\ i + 1 = 1 + Len(rxBuffer) + (i - Len(rxBuffer))
          /\ i = Len(rxBuffer) + (i - Len(rxBuffer))
      BY <1>2, <1>5
    <3>3. Stream[1 + Len(rxBuffer) + (i - Len(rxBuffer))] = rxFifo[i - Len(rxBuffer)]
      BY <1>4, <3>1
    <3>4. Pending[Len(rxBuffer) + (i - Len(rxBuffer))] = rxFifo[i - Len(rxBuffer)]
      BY <1>5, <3>1
    <3> QED  BY <3>2, <3>3, <3>4
  <2> QED  BY <1>2, <1>5, <2>1, <2>2
<1>7. 1 \in 1 .. 1 + Len(rxBuffer)
  BY <1>2
<1>8. Stream[1] = lastRead
  BY <1>3, <1>4, <1>7
<1>9. Len(Stream) = Len(Pending) + 1
  BY <1>2, <1>4, <1>5
<1> QED  BY <1>6, <1>8, <1>9

\* read() returns the bytes in their order, each once, none of before end(), and none
\* is missing unless the FIFO or the ring has overflown.
THEOREM UartOrder == UartSpec => []ReceivedInOrder
<1>1. UartIInv => ReceivedInOrder
  <2> SUFFICES ASSUME UartIInv  PROVE ReceivedInOrder
    OBVIOUS
  <2> USE DEF UartIInv
  <2>1. /\ Len(Stream) = Len(Pending) + 1 /\ Stream[1] = lastRead
        /\ \A i \in 1 .. Len(Pending) : Stream[i + 1] = Pending[i]
    BY StreamIsPending
  <2>2. /\ Pending \in Seq(Nat) /\ LastGone \in Nat /\ lastRead <= LastGone
        /\ discarded <= LastGone /\ Len(Pending) \in Nat
        /\ received \in Nat /\ lastRead \in Nat /\ discarded \in Nat
    BY PendingTyped DEF UartTyped
  <2>3. ASSUME NEW k \in 1 .. Len(Stream) - 1  PROVE Stream[k] < Stream[k + 1]
    <3>1. k \in 1 .. Len(Pending) /\ Stream[k + 1] = Pending[k] /\ Pending[k] \in Nat
      BY <2>1, <2>2
    <3>2. CASE k = 1
      <4>1. LastGone < Pending[1]
        BY <3>1, <3>2 DEF InOrderBetween
      <4> QED  BY <2>1, <2>2, <3>1, <3>2, <4>1
    <3>3. CASE k # 1
      <4>1. k - 1 \in 1 .. Len(Pending) /\ k - 1 < k /\ (k - 1) + 1 = k
        BY <2>2, <3>1, <3>3
      <4>2. Pending[k - 1] < Pending[k]
        BY <3>1, <4>1 DEF InOrderBetween
      <4>3. Stream[k] = Pending[k - 1]
        BY <2>1, <4>1
      <4> QED  BY <3>1, <4>2, <4>3
    <3> QED  BY <3>2, <3>3
  <2>4. Len(Stream) > 1 => Stream[2] > discarded
    <3> SUFFICES ASSUME Len(Stream) > 1  PROVE Stream[2] > discarded
      OBVIOUS
    <3>1. 1 \in 1 .. Len(Pending) /\ 1 + 1 = 2
      BY <2>1, <2>2
    <3>2. Stream[2] = Pending[1] /\ LastGone < Pending[1] /\ Pending[1] \in Nat
      BY <2>1, <2>2, <3>1 DEF InOrderBetween
    <3> QED  BY <2>2, <3>2
  <2>5. uartPc \notin {"free", "clear"} /\ ~overflown =>
          Len(Stream) - 1 = received - (IF lastRead > discarded THEN lastRead ELSE discarded)
    <3>1. Complete => Len(Stream) - 1 = received - LastGone
      BY <2>1, <2>2 DEF Complete
    <3> QED  BY <3>1 DEF LastGone
  <2> QED  BY <2>3, <2>4, <2>5 DEF ReceivedInOrder
<1> QED  BY <1>1, UartInvariant, PTL

-----------------------------------------------------------------------------
(* Waiting.                                                                *)

\* The values of the timer, of the arguments and of what was read.
WaitTypeOK ==
  /\ timer \in 0 .. TimerCount - 1
  /\ limit \in 0 .. TimerCount - 1
  /\ start \in 0 .. TimerCount - 1
  /\ pulseAt \in 0 .. TimerCount - 1
  /\ elapsed \in Nat /\ seen \in Nat

\* The loops of delayMicroseconds() and pulseIn(): what the timer shows is the time
\* that has passed, until that is more than the timer can count.
Exact ==
  at \in {"delayMicroseconds", "waitPulse", "waitEnd"} /\ elapsed < TimerCount =>
    Since(timer, start) = elapsed

\* delay(): the call came during the millisecond start.
Began ==
  at = "delay" /\ ~wrapped =>
    /\ elapsed <= timer
    /\ start * MicrosPerMilli <= timer - elapsed
    /\ timer - elapsed < (start + 1) * MicrosPerMilli

\* pulseIn(): the time-out has not come yet, or has come in the turn that saw
\* the pulse begin.
InTime ==
  limit + 2 * MaxTurn < TimerCount =>
    /\ at = "waitPulse" => elapsed <= limit
    /\ at = "waitEnd" =>
         /\ elapsed <= limit + MaxTurn
         /\ seen <= elapsed
         /\ Since(timer, pulseAt) = elapsed - seen

WaitIInv ==
  /\ WaitTypeOK
  /\ at = "idle" => elapsed = 0 /\ ~wrapped
  /\ Exact /\ Began /\ InTime
  /\ WaitsAreKept

\* The constants, in the form the arithmetic needs.
LEMMA WaitConstants ==
  /\ TimerCount \in Nat \ {0} /\ MicrosPerMilli \in Nat \ {0}
  /\ MaxTurn \in Nat /\ 0 < MaxTurn /\ MaxTurn < TimerCount
  /\ MaxElapsed \in Nat /\ TimerCount <= MaxElapsed
  /\ Delays \subseteq 0 .. TimerCount - 1
  /\ MicroDelays \subseteq 0 .. TimerCount - 1
  /\ Timeouts \subseteq 0 .. TimerCount - 1
BY WaitsAssumption

\* The timer's values, and those that have wrapped around once.
LEMMA TimerWraps ==
  ASSUME NEW k \in Int
  PROVE  /\ k % TimerCount \in 0 .. TimerCount - 1
         /\ k \in 0 .. TimerCount - 1 => k % TimerCount = k
         /\ k \in TimerCount .. 2 * TimerCount - 1 => k % TimerCount = k - TimerCount
         /\ k \in 1 - TimerCount .. -1 => k % TimerCount = k + TimerCount
<1>1. PICK m \in Nat \ {0} : m = TimerCount
  BY WaitConstants
<1>2. /\ k % m \in 0 .. m - 1
      /\ k \in 0 .. m - 1 => k % m = k
      /\ k \in m .. 2 * m - 1 => k % m = k - m
      /\ k \in 1 - m .. -1 => k % m = k + m
  BY Z3
<1> QED
  BY <1>1, <1>2

\* The difference of two readings, less than a turn of the timer apart.
LEMMA SinceIs ==
  ASSUME NEW now \in 0 .. TimerCount - 1, NEW then \in 0 .. TimerCount - 1
  PROVE  /\ Since(now, then) = IF now >= then THEN now - then ELSE now - then + TimerCount
         /\ Since(now, then) \in 0 .. TimerCount - 1
<1> DEFINE k == now - then
<1>1. k \in Int /\ TimerCount \in Nat /\ (now >= then => k \in 0 .. TimerCount - 1)
      /\ (~(now >= then) => k \in 1 - TimerCount .. -1)
  BY WaitConstants
<1>2. Since(now, then) = k % TimerCount
  BY DEF Since
<1> HIDE DEF k
<1>3. Since(now, then) = IF now >= then THEN k ELSE k + TimerCount
  BY <1>1, <1>2, TimerWraps
<1> QED
  BY <1>1, <1>2, <1>3, TimerWraps DEF k

\* Time that passes shows on the timer, as long as the timer can count it.
LEMMA TimePasses ==
  ASSUME NEW now \in 0 .. TimerCount - 1, NEW then \in 0 .. TimerCount - 1, NEW n \in Nat,
         Since(now, then) + n < TimerCount
  PROVE  Since((now + n) % TimerCount, then) = Since(now, then) + n
<1>1. Since(now, then) = IF now >= then THEN now - then ELSE now - then + TimerCount
  BY SinceIs
<1>2. TimerCount \in Nat /\ now \in Nat /\ then \in Nat /\ then < TimerCount
      /\ now < TimerCount /\ now + n \in Int
  BY WaitConstants
<1>3. PICK k \in 0 .. TimerCount - 1 : k = (now + n) % TimerCount
  BY <1>2, TimerWraps
<1>4. Since(k, then) = IF k >= then THEN k - then ELSE k - then + TimerCount
  BY SinceIs
<1>5. CASE now + n < TimerCount
  <2>1. k = now + n
    BY <1>2, <1>3, <1>5, TimerWraps
  <2> QED
    BY <1>1, <1>2, <1>3, <1>4, <2>1
<1>6. CASE ~(now + n < TimerCount)
  <2>1. n < TimerCount
    BY <1>1, <1>2
  <2>2. k = now + n - TimerCount
    <3>1. now + n \in TimerCount .. 2 * TimerCount - 1
      BY <1>2, <1>6, <2>1
    <3> QED
      <4>1. PICK j \in Int : j = now + n
        BY <1>2
      <4>2. j % TimerCount = j - TimerCount
        BY <3>1, <4>1, TimerWraps
      <4> QED
        BY <1>2, <1>3, <4>1, <4>2
  <2> QED
    BY <1>1, <1>2, <1>3, <1>4, <2>1, <2>2
<1> QED
  BY <1>5, <1>6

\* The milliseconds of a counter.
LEMMA MillisIs ==
  ASSUME NEW k \in Nat
  PROVE  /\ Millis(k) \in 0 .. k
         /\ Millis(k) * MicrosPerMilli <= k
         /\ k < (Millis(k) + 1) * MicrosPerMilli
<1>1. PICK m \in Nat \ {0} : m = MicrosPerMilli
  BY WaitConstants
<1>2. k \div m \in 0 .. k /\ (k \div m) * m <= k /\ k < (k \div m + 1) * m
  BY Z3
<1> QED
  BY <1>1, <1>2 DEF Millis

\* What Pass does, the types assumed.
LEMMA PassIs ==
  ASSUME WaitTypeOK, NEW n \in 1 .. MaxTurn, Pass(n)
  PROVE  /\ timer' \in 0 .. TimerCount - 1
         /\ elapsed' \in Nat
         /\ elapsed' < TimerCount => elapsed' = elapsed + n
         /\ elapsed + n < TimerCount => elapsed' = elapsed + n
         /\ timer' = (timer + n) % TimerCount
         /\ elapsed' <= elapsed + n
<1>1. /\ timer \in Int /\ n \in Nat /\ timer + n \in Int /\ elapsed \in Nat
      /\ TimerCount \in Nat /\ MaxElapsed \in Nat /\ TimerCount <= MaxElapsed
  BY WaitConstants DEF WaitTypeOK
<1>2. /\ timer' = (timer + n) % TimerCount
      /\ elapsed' = IF elapsed + n > MaxElapsed THEN MaxElapsed ELSE elapsed + n
  BY DEF Pass
<1>3. timer' \in 0 .. TimerCount - 1
  BY <1>1, <1>2, TimerWraps
<1> QED
  BY <1>1, <1>2, <1>3

\* The invariant holds before a call.
LEMMA WaitInit == WaitsInit => WaitIInv
<1> SUFFICES ASSUME WaitsInit PROVE WaitIInv
  OBVIOUS
<1>1. WaitTypeOK
  BY WaitConstants DEF WaitsInit, WaitTypeOK
<1>2. at = "idle" /\ elapsed = 0 /\ wrapped = FALSE
  BY DEF WaitsInit
<1> QED
  BY <1>1, <1>2 DEF WaitIInv, Exact, Began, InTime, WaitsAreKept, DelayIsKept, PulseInTime

\* A call begins.
LEMMA WaitCalls ==
  ASSUME WaitIInv, Delay \/ DelayMicroseconds \/ PulseIn
  PROVE  WaitIInv'
<1>1. /\ at = "idle" /\ elapsed = 0 /\ wrapped = FALSE
      /\ UNCHANGED <<pulseAt, elapsed, seen, wrapped>>
  BY DEF WaitIInv, Delay, DelayMicroseconds, Call, PulseIn
<1>2. /\ timer \in 0 .. TimerCount - 1 /\ pulseAt \in 0 .. TimerCount - 1
      /\ start \in 0 .. TimerCount - 1 /\ TimerCount \in Nat /\ MaxTurn \in Nat
      /\ seen \in Nat
  BY WaitConstants DEF WaitIInv, WaitTypeOK
<1>3. limit' \in 0 .. TimerCount - 1
  BY WaitConstants DEF Delay, DelayMicroseconds, Call, PulseIn
<1>4. at' \in {"delay", "delayMicroseconds", "waitPulse", "noTimer"}
  BY DEF Delay, DelayMicroseconds, Call, PulseIn
<1>5. ASSUME Delay
      PROVE  /\ timer' = timer /\ start' \in 0 .. TimerCount - 1 /\ at' = "delay"
             /\ start' * MicrosPerMilli <= timer /\ timer < (start' + 1) * MicrosPerMilli
  <2>1. timer' = timer /\ start' = Millis(timer) /\ at' = "delay"
    BY <1>5 DEF Delay, Call
  <2>2. Millis(timer) \in 0 .. timer
    BY <1>2, MillisIs
  <2>3. timer \in Nat
    BY <1>2
  <2> QED
    BY <1>2, <2>1, <2>2, <2>3, MillisIs
<1>6. ASSUME DelayMicroseconds \/ PulseIn
      PROVE  /\ timer' \in 0 .. TimerCount - 1 /\ start' \in 0 .. TimerCount - 1
             /\ at' # "delay"
             /\ at' \in {"delayMicroseconds", "waitPulse"} => Since(timer', start') = 0
  <2>1. timer' \in 0 .. TimerCount - 1
    BY <1>2, <1>6, WaitConstants DEF DelayMicroseconds, Call, PulseIn
  <2>2. start' \in {timer', start} /\ at' # "delay"
        /\ (at' \in {"delayMicroseconds", "waitPulse"} => start' = timer')
    BY <1>6 DEF DelayMicroseconds, Call, PulseIn
  <2>3. PICK t \in 0 .. TimerCount - 1 : t = timer'
    BY <2>1
  <2>4. Since(t, t) = 0
    BY <1>2, SinceIs
  <2> QED
    BY <1>2, <2>1, <2>2, <2>3, <2>4
<1>7. WaitTypeOK'
  BY <1>1, <1>2, <1>3, <1>5, <1>6 DEF WaitTypeOK
<1>8. Exact'
  BY <1>1, <1>4, <1>5, <1>6 DEF Exact
<1>9. Began'
  BY <1>1, <1>2, <1>5, <1>6 DEF Began
<1>10. InTime' /\ WaitsAreKept'
  BY <1>1, <1>3, <1>4 DEF InTime, WaitsAreKept, DelayIsKept, PulseInTime
<1>11. at' # "idle"
  BY <1>4
<1> QED
  BY <1>7, <1>8, <1>9, <1>10, <1>11 DEF WaitIInv

\* What every turn of the exact loops does to the time since start.
LEMMA StartIsExact ==
  ASSUME WaitIInv, NEW n \in 1 .. MaxTurn, Pass(n), start' = start,
         at \in {"delayMicroseconds", "waitPulse", "waitEnd"}
  PROVE  elapsed' < TimerCount => Since(timer', start') = elapsed'
<1> SUFFICES ASSUME elapsed' < TimerCount
             PROVE  Since(timer', start') = elapsed'
  OBVIOUS
<1>1. /\ timer \in 0 .. TimerCount - 1 /\ start \in 0 .. TimerCount - 1
      /\ elapsed \in Nat /\ n \in Nat /\ TimerCount \in Nat
  BY WaitConstants DEF WaitIInv, WaitTypeOK
<1>2. elapsed' = elapsed + n /\ timer' = (timer + n) % TimerCount
  BY PassIs DEF WaitIInv
<1>3. Since(timer, start) = elapsed
  BY <1>1, <1>2 DEF WaitIInv, Exact
<1>4. Since((timer + n) % TimerCount, start) = Since(timer, start) + n
  BY <1>1, <1>2, <1>3, TimePasses
<1> QED
  BY <1>2, <1>3, <1>4

\* The numbers after a turn.
LEMMA TurnTyped ==
  ASSUME WaitTypeOK, Turn
  PROVE  WaitTypeOK' /\ at' # "idle" /\ UNCHANGED <<limit, start>>
<1>1. PICK n \in 1 .. MaxTurn : Pass(n)
  BY DEF Turn, DelayTurn, DelayMicrosecondsTurn, PinDiffers, PulseBegins, PulseEnds
<1>2. timer' \in 0 .. TimerCount - 1 /\ elapsed' \in Nat
  BY <1>1, PassIs
<1>3. /\ pulseAt' \in {pulseAt, timer'} /\ seen' \in {seen, elapsed'}
      /\ UNCHANGED <<limit, start>>
  BY DEF Turn, DelayTurn, DelayMicrosecondsTurn, PinDiffers, PulseBegins, PulseEnds
<1>4. at' # "idle"
  BY DEF Turn, DelayTurn, DelayMicrosecondsTurn, PinDiffers, PulseBegins, PulseEnds
<1> QED
  BY <1>2, <1>3, <1>4 DEF WaitTypeOK

\* delay(): a millisecond is counted when it ends, and the first one had begun
\* before the call.
LEMMA DelayStep == ASSUME WaitIInv, DelayTurn PROVE WaitIInv'
<1>1. PICK n \in 1 .. MaxTurn :
        /\ at = "delay" /\ Pass(n)
        /\ at' = IF Since(Millis(timer'), start) < limit THEN at ELSE "delayed"
        /\ UNCHANGED <<limit, start, pulseAt, result, seen>>
  BY DEF DelayTurn
<1>2. /\ timer \in 0 .. TimerCount - 1 /\ start \in 0 .. TimerCount - 1
      /\ limit \in 0 .. TimerCount - 1 /\ elapsed \in Nat /\ TimerCount \in Nat
      /\ MicrosPerMilli \in Nat \ {0} /\ n \in Nat
  BY <1>1, WaitConstants DEF WaitIInv, WaitTypeOK
<1>3. WaitTypeOK'
  BY TurnTyped DEF WaitIInv, Turn
<1>4. ASSUME ~wrapped'
      PROVE  /\ elapsed' <= timer'
             /\ start * MicrosPerMilli <= timer' - elapsed'
             /\ timer' - elapsed' < (start + 1) * MicrosPerMilli
  <2>1. ~wrapped /\ timer + n < TimerCount
    <3>1. wrapped' = (wrapped \/ timer + n >= TimerCount)
      BY <1>1 DEF Pass
    <3>2. ~wrapped /\ ~(timer + n >= TimerCount)
      BY <1>4, <3>1, Zenon
    <3> QED
      BY <1>2, <3>2
  <2>2. PICK k \in 0 .. TimerCount - 1 : k = timer + n
    BY <1>2, <2>1
  <2>3. timer' = timer + n
    BY <1>1, <2>2, TimerWraps DEF Pass
  <2>4. /\ elapsed <= timer
        /\ start * MicrosPerMilli <= timer - elapsed
        /\ timer - elapsed < (start + 1) * MicrosPerMilli
    BY <1>1, <2>1 DEF WaitIInv, Began
  <2>5. elapsed + n < TimerCount
    BY <1>2, <2>1, <2>4
  <2>6. elapsed' = elapsed + n
    BY <1>1, <2>5, PassIs DEF WaitIInv
  <2>7. timer' - elapsed' = timer - elapsed
    BY <1>2, <2>3, <2>6
  <2> QED
    BY <1>2, <2>3, <2>4, <2>6, <2>7
<1>5. ASSUME at' = "delayed", ~wrapped'
      PROVE  elapsed' > (limit - 1) * MicrosPerMilli
  <2>1. PICK now \in Nat : now = timer' /\ now < TimerCount
    BY <1>2, <1>3 DEF WaitTypeOK
  <2>2. PICK past \in Nat : past = elapsed'
    BY <1>3 DEF WaitTypeOK
  <2>3. PICK m \in Nat : m = Millis(now)
    BY <1>2, MillisIs
  <2>4. PICK first \in Int, second \in Int, called \in Int :
          /\ first = start * MicrosPerMilli
          /\ second = (start + 1) * MicrosPerMilli
          /\ called = (start + limit) * MicrosPerMilli
    BY <1>2
  <2>5. past <= now /\ first <= now - past /\ now - past < second
    BY <1>4, <1>5, <2>1, <2>2, <2>4
  <2>6. PICK low \in Int, high \in Int :
          low = m * MicrosPerMilli /\ high = (m + 1) * MicrosPerMilli
    BY <1>2, <2>3
  <2>7. m \in 0 .. now /\ low <= now /\ now < high
    BY <1>2, <2>1, <2>3, <2>6, MillisIs
  <2>8. m >= start
    <3>1. first < high
      BY <2>1, <2>2, <2>4, <2>5, <2>6, <2>7
    <3>2. start < m + 1
      BY <1>2, <2>3, <2>4, <2>6, <3>1
    <3> QED
      BY <1>2, <2>3, <3>2
  <2>9. m - start >= limit
    <3>1. m \in 0 .. TimerCount - 1
      BY <1>2, <2>1, <2>7
    <3>2. ~(Since(m, start) < limit)
      BY <1>1, <1>5, <2>1, <2>3
    <3>3. Since(m, start) = m - start
      BY <1>2, <2>8, <3>1, SinceIs
    <3> QED
      BY <1>2, <2>3, <3>2, <3>3
  <2>10. called <= low
    BY <1>2, <2>3, <2>4, <2>6, <2>9
  <2>11. past > called - second
    BY <2>1, <2>2, <2>4, <2>5, <2>6, <2>7, <2>10
  <2>12. called - second = (limit - 1) * MicrosPerMilli
    BY <1>2, <2>4
  <2> QED
    BY <2>2, <2>11, <2>12
<1>6. at' \in {"delay", "delayed"} /\ UNCHANGED <<limit, start>>
  BY <1>1
<1>7. Began'
  BY <1>4, <1>6 DEF Began
<1>8. Exact' /\ InTime'
  BY <1>6 DEF Exact, InTime
<1>9. WaitsAreKept'
  BY <1>5, <1>6 DEF WaitsAreKept, DelayIsKept, PulseInTime
<1> QED
  BY <1>3, <1>6, <1>7, <1>8, <1>9 DEF WaitIInv

\* delayMicroseconds(): the timer shows how long it has waited.
LEMMA DelayMicrosecondsStep == ASSUME WaitIInv, DelayMicrosecondsTurn PROVE WaitIInv'
<1>1. PICK n \in 1 .. MaxTurn :
        /\ at = "delayMicroseconds" /\ Pass(n)
        /\ at' = IF Since(timer', start) < limit THEN at ELSE "delayedMicroseconds"
        /\ UNCHANGED <<limit, start, pulseAt, result, seen>>
  BY DEF DelayMicrosecondsTurn
<1>2. WaitTypeOK'
  BY TurnTyped DEF WaitIInv, Turn
<1>3. elapsed' < TimerCount => Since(timer', start') = elapsed'
  BY <1>1, StartIsExact
<1>4. at' \in {"delayMicroseconds", "delayedMicroseconds"}
  BY <1>1
<1>5. ASSUME at' = "delayedMicroseconds"
      PROVE  elapsed' >= limit'
  <2>1. Since(timer', start') >= limit' /\ limit' < TimerCount
    <3>1. /\ timer' \in 0 .. TimerCount - 1 /\ start' \in 0 .. TimerCount - 1
          /\ limit' \in 0 .. TimerCount - 1 /\ TimerCount \in Nat
      BY <1>2, WaitConstants DEF WaitTypeOK
    <3>2. Since(timer', start') \in 0 .. TimerCount - 1
      BY <3>1, SinceIs
    <3>3. start' = start /\ limit' = limit
      BY <1>1
    <3>4. ~(Since(timer', start') < limit')
      BY <1>1, <1>5, <3>3
    <3> QED
      BY <3>1, <3>2, <3>4
  <2>2. elapsed' \in Nat /\ limit' \in Nat /\ TimerCount \in Nat
    BY <1>2, WaitConstants DEF WaitTypeOK
  <2> QED
    BY <1>3, <2>1, <2>2
<1>6. Exact'
  BY <1>3 DEF Exact
<1>7. Began' /\ InTime'
  BY <1>4 DEF Began, InTime
<1>8. WaitsAreKept'
  BY <1>4, <1>5 DEF WaitsAreKept, DelayIsKept, PulseInTime
<1> QED
  BY <1>2, <1>4, <1>6, <1>7, <1>8 DEF WaitIInv

\* The time since the pulse was seen to begin.
LEMMA PulseIsExact ==
  ASSUME WaitIInv, NEW n \in 1 .. MaxTurn, Pass(n), at = "waitEnd",
         limit + 2 * MaxTurn < TimerCount, UNCHANGED <<pulseAt, seen>>
  PROVE  /\ seen' <= elapsed' /\ elapsed' <= limit + 2 * MaxTurn
         /\ Since(timer', pulseAt') = elapsed' - seen'
<1>1. /\ timer \in 0 .. TimerCount - 1 /\ pulseAt \in 0 .. TimerCount - 1
      /\ elapsed \in Nat /\ seen \in Nat /\ n \in Nat /\ n <= MaxTurn /\ limit \in Nat
      /\ TimerCount \in Nat /\ MaxTurn \in Nat
  BY WaitConstants DEF WaitIInv, WaitTypeOK
<1>2. /\ elapsed <= limit + MaxTurn /\ seen <= elapsed
      /\ Since(timer, pulseAt) = elapsed - seen
  BY DEF WaitIInv, InTime
<1>3. elapsed' = elapsed + n /\ timer' = (timer + n) % TimerCount
  <2>1. elapsed + n < TimerCount
    BY <1>1, <1>2
  <2> QED
    BY <2>1, PassIs DEF WaitIInv
<1>4. Since((timer + n) % TimerCount, pulseAt) = Since(timer, pulseAt) + n
  <2>1. Since(timer, pulseAt) + n < TimerCount
    BY <1>1, <1>2
  <2> QED
    BY <1>1, <2>1, TimePasses
<1> QED
  BY <1>1, <1>2, <1>3, <1>4

\* A turn that waits: it ends the call when the time-out is over.
LEMMA DiffersStep ==
  ASSUME WaitIInv, PinDiffers("waitPulse") \/ PinDiffers("waitEnd")
  PROVE  WaitIInv'
<1>1. PICK n \in 1 .. MaxTurn :
        /\ at \in {"waitPulse", "waitEnd"} /\ Pass(n)
        /\ IF Since(timer', start) > limit THEN at' = "pulseDone" /\ result' = -1
           ELSE UNCHANGED <<at, result>>
        /\ UNCHANGED <<limit, start, pulseAt, seen>>
  BY DEF PinDiffers
<1>2. WaitTypeOK'
  BY TurnTyped DEF WaitIInv, Turn
<1>3. elapsed' < TimerCount => Since(timer', start') = elapsed'
  BY <1>1, StartIsExact
<1>4. at' \in {"waitPulse", "waitEnd", "pulseDone"}
  BY <1>1
<1>5. /\ limit \in Nat /\ elapsed \in Nat /\ TimerCount \in Nat /\ MaxTurn \in Nat
      /\ n \in Nat /\ n <= MaxTurn /\ elapsed' \in Nat
  BY <1>1, <1>2, WaitConstants DEF WaitIInv, WaitTypeOK
<1>6. ASSUME limit + 2 * MaxTurn < TimerCount
      PROVE  /\ elapsed' <= limit + 2 * MaxTurn
             /\ Since(timer', start) = elapsed'
             /\ at = "waitEnd" => /\ seen' <= elapsed'
                                  /\ Since(timer', pulseAt') = elapsed' - seen'
  <2>1. elapsed' <= elapsed + n
    BY <1>1, PassIs DEF WaitIInv
  <2>2. elapsed <= limit + MaxTurn
    BY <1>1, <1>5, <1>6 DEF WaitIInv, InTime
  <2>3. elapsed' <= limit + 2 * MaxTurn
    BY <1>5, <2>1, <2>2
  <2>4. Since(timer', start) = elapsed'
    BY <1>1, <1>3, <1>5, <1>6, <2>3
  <2> QED
    BY <1>1, <1>6, <2>3, <2>4, PulseIsExact
<1>7. InTime'
  <2> SUFFICES ASSUME limit + 2 * MaxTurn < TimerCount, at' \in {"waitPulse", "waitEnd"}
               PROVE  /\ elapsed' <= limit
                      /\ at' = "waitEnd" =>
                           /\ seen' <= elapsed'
                           /\ Since(timer', pulseAt') = elapsed' - seen'
    BY <1>1, <1>5 DEF InTime
  <2>1. ~(Since(timer', start) > limit) /\ at' = at
    BY <1>1
  <2> QED
    BY <1>5, <1>6, <2>1
<1>8. WaitsAreKept'
  <2> SUFFICES ASSUME at' = "pulseDone", limit + 2 * MaxTurn < TimerCount
               PROVE  elapsed' <= limit + 2 * MaxTurn /\ result' = -1 /\ elapsed' > limit
    BY <1>1, <1>4 DEF WaitsAreKept, DelayIsKept, PulseInTime
  <2>1. Since(timer', start) > limit /\ result' = -1
    BY <1>1
  <2> QED
    BY <1>6, <2>1
<1>9. Exact' /\ Began'
  BY <1>3, <1>4 DEF Exact, Began
<1> QED
  BY <1>2, <1>4, <1>7, <1>8, <1>9 DEF WaitIInv

\* Subtraction of what is no larger.
LEMMA Differences ==
  \A a, b \in Nat : a - a = 0 /\ (b <= a => a - b # -1)
OBVIOUS

\* The pulse's two ends.
LEMMA BeginsStep == ASSUME WaitIInv, PulseBegins PROVE WaitIInv'
<1>1. PICK n \in 1 .. MaxTurn :
        /\ at = "waitPulse" /\ Pass(n) /\ at' = "waitEnd"
        /\ pulseAt' = timer' /\ seen' = elapsed'
        /\ UNCHANGED <<limit, start, result>>
  BY DEF PulseBegins
<1>2. WaitTypeOK'
  BY TurnTyped DEF WaitIInv, Turn
<1>3. elapsed' < TimerCount => Since(timer', start') = elapsed'
  BY <1>1, StartIsExact
<1>4. InTime'
  <2> SUFFICES ASSUME limit + 2 * MaxTurn < TimerCount
               PROVE  /\ elapsed' <= limit + MaxTurn /\ seen' <= elapsed'
                      /\ Since(timer', pulseAt') = elapsed' - seen'
    BY <1>1 DEF InTime
  <2>1. elapsed' <= elapsed + n /\ elapsed' \in Nat
    BY <1>1, PassIs DEF WaitIInv
  <2>2. elapsed <= limit
    BY <1>1 DEF WaitIInv, InTime
  <2>3. limit \in Nat /\ n \in Nat /\ n <= MaxTurn /\ MaxTurn \in Nat /\ elapsed \in Nat
        /\ TimerCount \in Nat
    BY <1>1, WaitConstants DEF WaitIInv, WaitTypeOK
  <2>4. PICK t \in 0 .. TimerCount - 1 : t = timer'
    BY <1>2 DEF WaitTypeOK
  <2>5. Since(t, t) = 0
    BY <2>3, <2>4, SinceIs
  <2> QED
    <3>1. seen' = elapsed' /\ pulseAt' = t /\ timer' = t
      BY <1>1, <2>4
    <3>2. Since(timer', pulseAt') = 0
      BY <2>5, <3>1, Zenon
    <3>3. elapsed' <= limit + MaxTurn
      BY <2>1, <2>2, <2>3
    <3>4. elapsed' - elapsed' = 0
      BY <2>1, Differences, Zenon
    <3>5. elapsed' - seen' = 0
      BY <3>1, <3>4, Zenon
    <3>6. seen' <= elapsed'
      BY <2>1, <3>1
    <3> QED
      BY <3>2, <3>3, <3>5, <3>6
<1>5. Exact' /\ Began' /\ WaitsAreKept'
  BY <1>1, <1>3 DEF Exact, Began, WaitsAreKept, DelayIsKept, PulseInTime
<1> QED
  BY <1>1, <1>2, <1>4, <1>5 DEF WaitIInv

\* The time between the ends is what is returned.
LEMMA EndsStep == ASSUME WaitIInv, PulseEnds PROVE WaitIInv'
<1>1. PICK n \in 1 .. MaxTurn :
        /\ at = "waitEnd" /\ Pass(n) /\ at' = "pulseDone"
        /\ result' = Since(timer', pulseAt)
        /\ UNCHANGED <<limit, start, pulseAt, seen>>
  BY DEF PulseEnds
<1>2. WaitTypeOK'
  BY TurnTyped DEF WaitIInv, Turn
<1>3. WaitsAreKept'
  <2> SUFFICES ASSUME limit + 2 * MaxTurn < TimerCount
               PROVE  /\ elapsed' <= limit + 2 * MaxTurn
                      /\ result' # -1 /\ result' = elapsed' - seen'
    BY <1>1 DEF WaitsAreKept, DelayIsKept, PulseInTime
  <2>1. /\ seen' <= elapsed' /\ elapsed' <= limit + 2 * MaxTurn
        /\ Since(timer', pulseAt') = elapsed' - seen'
    BY <1>1, PulseIsExact
  <2>2. elapsed' \in Nat /\ seen' \in Nat
    BY <1>2 DEF WaitTypeOK
  <2>3. result' = Since(timer', pulseAt) /\ pulseAt' = pulseAt
    BY <1>1
  <2>4. result' = elapsed' - seen'
    BY <2>1, <2>3
  <2>5. seen' <= elapsed'
    BY <2>1
  <2>6. result' # -1
    BY <2>2, <2>4, <2>5, Differences
  <2> QED
    BY <2>1, <2>4, <2>6
<1>4. Exact' /\ Began' /\ InTime'
  BY <1>1 DEF Exact, Began, InTime
<1> QED
  BY <1>1, <1>2, <1>3, <1>4 DEF WaitIInv

\* delay(), delayMicroseconds() and pulseIn() take the time they should, whatever the
\* width of the timer, its value at the call, and the length of the turns.
THEOREM WaitsTakeTheirTime == WaitsSpec => []WaitsAreKept
<1>1. WaitIInv /\ [WaitsNext]_waitVars => WaitIInv'
  <2> SUFFICES ASSUME WaitIInv, [WaitsNext]_waitVars PROVE WaitIInv'
    OBVIOUS
  <2>1. CASE UNCHANGED waitVars
    BY <2>1 DEF waitVars, WaitIInv, WaitTypeOK, Exact, Began, InTime, WaitsAreKept,
                DelayIsKept, PulseInTime
  <2> QED
    BY <2>1, WaitCalls, DelayStep, DelayMicrosecondsStep, DiffersStep, BeginsStep, EndsStep
       DEF WaitsNext, Turn
<1>2. WaitIInv => WaitsAreKept
  BY DEF WaitIInv
<1> QED
  BY <1>1, <1>2, WaitInit, PTL DEF WaitsSpec

-----------------------------------------------------------------------------
(* Conversions.  A call stands alone, so the property is inductive as it   *)
(* is; the work is in the recursive definitions.  That those define a      *)
(* function, and what it computes, is shown by the least number for which  *)
(* it would not be so.                                                     *)

\* A set of natural numbers has a smallest.
LEMMA SmallestOf ==
  ASSUME NEW S \in SUBSET Nat, S # {}
  PROVE  \E k \in S : \A m \in S : k <= m
<1> DEFINE R == OpToRel(<, Nat)
<1>1. IsWellFoundedOn(R, Nat)
  BY NatLessThanWellFounded
<1>2. \A m, k \in Nat : <<m, k>> \in R <=> m < k
  BY DEF OpToRel
<1> HIDE DEF R
<1>3. \E k \in S : \A m \in S : ~(<<m, k>> \in R)
  BY <1>1, WFMin
<1>4. \A m, k \in Nat : ~(m < k) => k <= m
  OBVIOUS
<1> QED  BY <1>2, <1>3, <1>4

\* Powers of two are the numbers of subsets: with a further element there are as many that
\* have it as that have it not.
LEMMA PowerStep ==
  ASSUME NEW n \in Nat
  PROVE  /\ 2 ^ n \in Nat \ {0}
         /\ 2 ^ (n + 1) = 2 * 2 ^ n
<1> DEFINE S == SUBSET (1 .. n)
           T == SUBSET (1 .. n + 1)
           U == T \ S
           f == [x \in S |-> x \cup {n + 1}]
<1>1. /\ IsFiniteSet(1 .. n) /\ Cardinality(1 .. n) = n
      /\ IsFiniteSet(1 .. n + 1) /\ Cardinality(1 .. n + 1) = n + 1
  BY FS_Interval
<1>2. IsFiniteSet(S) /\ Cardinality(S) = 2 ^ n
  BY <1>1, FS_SUBSET
<1>3. IsFiniteSet(T) /\ Cardinality(T) = 2 ^ (n + 1)
  BY <1>1, FS_SUBSET
<1>4. f \in Bijection(S, U)
  <2>1. 1 .. n + 1 = (1 .. n) \cup {n + 1} /\ n + 1 \notin 1 .. n
    OBVIOUS
  <2>2. f \in [S -> U]
    BY <2>1
  <2>3. ASSUME NEW x \in S, NEW y \in S, f[x] = f[y]  PROVE x = y
    BY <2>1, <2>3
  <2>4. ASSUME NEW z \in U  PROVE \E x \in S : f[x] = z
    <3>1. z \ {n + 1} \in S /\ n + 1 \in z
      BY <2>1, <2>4
    <3>2. f[z \ {n + 1}] = z
      BY <3>1
    <3> QED  BY <3>1, <3>2
  <2> QED
    BY <2>2, <2>3, <2>4 DEF Bijection, Injection, Surjection, IsInjective
<1>5. IsFiniteSet(U) /\ Cardinality(U) = Cardinality(S)
  BY <1>2, <1>4, FS_Bijection DEF ExistsBijection
<1>6. T = S \cup U /\ S \cap U = {}
  <2>1. 1 .. n \subseteq 1 .. n + 1
    OBVIOUS
  <2> QED  BY <2>1
<1>7. Cardinality(T) = Cardinality(S) + Cardinality(U)
  <2>1. Cardinality(T) = Cardinality(S) + Cardinality(U) - Cardinality({})
    <3> HIDE DEF S, T, U
    <3> QED  BY <1>2, <1>5, <1>6, FS_Union
  <2>2. Cardinality({}) = 0
    BY FS_EmptySet
  <2>3. Cardinality(S) \in Nat
    BY <1>2, FS_CardinalityType
  <2> HIDE DEF S, T, U
  <2> QED  BY <1>5, <2>1, <2>2, <2>3
<1>8. Cardinality(S) \in Nat \ {0}
  <2>1. {} \in S
    OBVIOUS
  <2> HIDE DEF S
  <2> QED  BY <1>2, <2>1, FS_CardinalityType, FS_EmptySet
<1> HIDE DEF S, T, U
<1> QED  BY <1>2, <1>3, <1>5, <1>7, <1>8

\* Numbers that have not left their range, and those that have left it once.
LEMMA Wraps ==
  ASSUME NEW m \in Nat \ {0}, NEW k \in Int
  PROVE  /\ k % m \in 0 .. m - 1
         /\ k \in 0 .. m - 1 => k % m = k
         /\ k \in m .. 2 * m - 1 => k % m = k - m
         /\ k \in -m .. -1 => k % m = k + m
BY Z3

\* The ranges of the integers.
LEMMA Width ==
  /\ MaxLong \in Nat /\ Count \in Nat \ {0} /\ Count = 2 * MaxLong + 2
  /\ Longs \subseteq -MaxLong - 1 .. MaxLong
  /\ Bits \in Nat \ {0} /\ Count = 2 ^ Bits
<1>1. PICK n \in Nat : n = Bits - 1
  BY ConversionsAssumption
<1>2. Bits = n + 1
  BY <1>1, ConversionsAssumption
<1>3. PICK p \in Nat \ {0} : p = 2 ^ n
  BY PowerStep
<1>4. 2 ^ (n + 1) = 2 * p
  BY <1>3, PowerStep
<1>5. Count = 2 * p /\ Count = 2 ^ Bits
  BY <1>2, <1>4 DEF Count
<1>6. MaxLong = p - 1
  BY <1>1, <1>3 DEF MaxLong
<1>7. Longs \subseteq -p .. p - 1
  BY <1>1, <1>3, ConversionsAssumption
<1> QED  BY <1>2, <1>5, <1>6, <1>7

LEMMA UnsignedIs ==
  ASSUME NEW n \in Int
  PROVE  /\ AsUnsigned(n) \in ULongs
         /\ n \in ULongs => AsUnsigned(n) = n
<1>1. PICK m \in Nat \ {0} : m = Count
  BY Width
<1>2. n % m \in 0 .. m - 1 /\ (n \in 0 .. m - 1 => n % m = n)
  BY Wraps
<1> QED  BY <1>1, <1>2 DEF AsUnsigned, ULongs

LEMMA SignedIs ==
  ASSUME NEW n \in Int
  PROVE  /\ n \in -MaxLong - 1 .. MaxLong => AsSigned(n) = n
         /\ n \in MaxLong + 1 .. 2 * MaxLong + 1 => AsSigned(n) = n - Count
<1>1. PICK m \in Nat \ {0}, b \in Nat : m = Count /\ b = MaxLong /\ m = 2 * b + 2
  BY Width
<1>2. PICK r \in Int : r = n % m
  BY Wraps
<1>3. AsSigned(n) = IF r > b THEN r - m ELSE r
  BY <1>1, <1>2 DEF AsSigned
<1>4. /\ n \in 0 .. m - 1 => r = n
      /\ n \in -m .. -1 => r = n + m
  BY <1>2, Wraps
<1>5. n \in -b - 1 .. b => AsSigned(n) = n
  BY <1>1, <1>3, <1>4
<1>6. n \in b + 1 .. 2 * b + 1 => AsSigned(n) = n - m
  BY <1>1, <1>3, <1>4
<1> QED  BY <1>1, <1>5, <1>6

\* The range of a remainder.
LEMMA RemainderIs ==
  ASSUME NEW rnd \in ULongs, NEW max \in 1 .. Count - 1
  PROVE  Remainder(rnd, max) \in 0 .. max - 1
<1>1. max \in ULongs /\ max \in Nat \ {0} /\ rnd \in Int
  BY Width DEF ULongs
<1>2. AsUnsigned(max) = max
  BY <1>1, UnsignedIs
<1> QED  BY <1>1, <1>2, Wraps DEF Remainder

LEMMA RandomStep ==
  ASSUME Random \/ RandomBetween
  PROVE  RandomInRange' /\ call'.fun = "random"
<1>1. CASE Random
  <2>1. PICK max \in Longs : \E r \in Randoms(max) :
          call' = [fun |-> "random", min |-> 0, max |-> max, result |-> r]
    BY <1>1 DEF Random
  <2> PICK r \in Randoms(max) :
          call' = [fun |-> "random", min |-> 0, max |-> max, result |-> r]
    BY <2>1
  <2>2. max \in Int /\ max <= MaxLong
    BY Width
  <2>3. r = 0 \/ (max > 0 /\ \E rnd \in ULongs : r = Remainder(rnd, max))
    BY <2>2 DEF Randoms
  <2>4. max > 0 => r \in 0 .. max - 1
    BY <2>2, <2>3, RemainderIs, Width
  <2> QED  BY <2>1, <2>2, <2>3, <2>4 DEF RandomInRange
<1>2. CASE RandomBetween
  <2>1. PICK min \in Longs, max \in Longs :
          \E r \in IF min >= max THEN {min}
                   ELSE {AsSigned(min + n) :
                           n \in Randoms(AsSigned(max - min))
                                 \union {Remainder(rnd, max - min) : rnd \in ULongs}} :
            call' = [fun |-> "random", min |-> min, max |-> max, result |-> r]
    BY <1>2 DEF RandomBetween
  <2>2. min \in -MaxLong - 1 .. MaxLong /\ max \in -MaxLong - 1 .. MaxLong
        /\ MaxLong \in Nat /\ Count = 2 * MaxLong + 2
    BY Width
  <2>3. CASE min >= max
    BY <2>1, <2>2, <2>3 DEF RandomInRange
  <2>4. CASE ~(min >= max)
    <3>1. PICK span \in 1 .. 2 * MaxLong + 1 : span = max - min
      BY <2>2, <2>4
    <3>2. PICK n \in Randoms(AsSigned(span)) \cup {Remainder(rnd, span) : rnd \in ULongs} :
            call' = [fun |-> "random", min |-> min, max |-> max, result |-> AsSigned(min + n)]
      BY <2>1, <2>4, <3>1
    <3>3. span \in 1 .. Count - 1 /\ span \in Int
      BY <2>2, <3>1
    <3>4. \A rnd \in ULongs : Remainder(rnd, span) \in 0 .. span - 1
      BY <3>3, RemainderIs
    <3>5. AsSigned(span) = span \/ AsSigned(span) = span - Count
      BY <2>2, <3>1, <3>3, SignedIs
    <3>6. n \in 0 .. span - 1
      BY <2>2, <3>2, <3>3, <3>4, <3>5 DEF Randoms
    <3>7. min + n \in -MaxLong - 1 .. MaxLong /\ min + n \in min .. max - 1 /\ min + n \in Int
      BY <2>2, <3>1, <3>6
    <3>8. AsSigned(min + n) = min + n
      BY <3>7, SignedIs
    <3> QED  BY <2>2, <2>4, <3>2, <3>7, <3>8 DEF RandomInRange
  <2> QED  BY <2>3, <2>4
<1> QED  BY <1>1, <1>2

LEMMA TransferStep ==
  ASSUME Transfer16
  PROVE  HalvesInOrder' /\ call'.fun = "transfer16"
BY DEF Transfer16, HalvesInOrder, Orders

\* Division by a positive number.
LEMMA DivIs ==
  ASSUME NEW v \in Nat, NEW m \in Nat \ {0}
  PROVE  \E d \in Nat, r \in 0 .. m - 1 :
           d = v \div m /\ r = v % m /\ v = d * m + r
<1>1. v \div m \in Nat
  BY Z3
<1>2. v % m \in 0 .. m - 1
  BY Z3
<1>3. v = (v \div m) * m + (v % m)
  BY Z3
<1> QED  BY <1>1, <1>2, <1>3

LEMMA PowerSum ==
  ASSUME NEW m \in Nat, NEW n \in Nat
  PROVE  2 ^ (m + n) = 2 ^ m * 2 ^ n
<1> DEFINE Bad == {k \in Nat : 2 ^ (k + n) # 2 ^ k * 2 ^ n}
<1>1. SUFFICES Bad = {}
  BY <1>1
<1> SUFFICES ASSUME Bad # {}  PROVE FALSE
  OBVIOUS
<1>2. PICK k \in Bad : \A j \in Bad : k <= j
  BY SmallestOf
<1>3. k # 0
  <2>1. 2 ^ 0 = 1
    OBVIOUS
  <2>2. PICK q \in Nat : q = 2 ^ n
    BY PowerStep
  <2>3. 0 + n = n /\ 1 * q = q
    OBVIOUS
  <2>4. 2 ^ (0 + n) = 2 ^ 0 * 2 ^ n
    BY <2>1, <2>2, <2>3
  <2> QED  BY <2>4
<1>4. PICK j \in Nat : k = j + 1 /\ j \notin Bad
  <2>1. k - 1 \in Nat /\ k = (k - 1) + 1 /\ k - 1 \notin Bad
    BY <1>2, <1>3
  <2> QED  BY <2>1
<1>5. PICK p \in Nat, q \in Nat : p = 2 ^ j /\ q = 2 ^ n
  BY PowerStep
<1>6. 2 ^ k = 2 * p
  BY <1>4, <1>5, PowerStep
<1>7. 2 ^ (k + n) = 2 * (p * q)
  <2>1. k + n = (j + n) + 1 /\ j + n \in Nat
    BY <1>4
  <2>2. 2 ^ ((j + n) + 1) = 2 * 2 ^ (j + n)
    BY <2>1, PowerStep
  <2>3. 2 ^ (j + n) = p * q
    BY <1>4, <1>5
  <2> QED  BY <2>1, <2>2, <2>3
<1>8. 2 * (p * q) = (2 * p) * q
  BY <1>5
<1> QED  BY <1>2, <1>5, <1>6, <1>7, <1>8

\* Products, as they are needed below.
LEMMA Products ==
  ASSUME NEW p \in Nat, NEW q \in Nat, NEW d \in Nat, NEW r \in Nat
  PROVE  /\ (d * p + r) * q = d * (p * q) + r * q
         /\ (d + 1) * (p * q) = d * (p * q) + p * q
         /\ (d * p) * q = d * (p * q) /\ d * p \in Nat
         /\ r * q >= 0 /\ (r < p /\ q # 0 => r * q < p * q)
<1>1. (d * p + r) * q = d * (p * q) + r * q
  BY Z3
<1>2. (d + 1) * (p * q) = d * (p * q) + p * q
  BY Z3
<1>3. (d * p) * q = d * (p * q) /\ d * p \in Nat
  BY Z3
<1>4. r * q >= 0 /\ (r < p /\ q # 0 => r * q < p * q)
  BY Z3
<1> QED  BY <1>1, <1>2, <1>3, <1>4

\* Dividing by one of two factors, against multiplying by the other.
LEMMA Scaling ==
  ASSUME NEW p \in Nat \ {0}, NEW q \in Nat \ {0}, NEW v \in Nat
  PROVE  /\ (v \div p) * (p * q) <= v * q
         /\ (v \div p + 1) * (p * q) > v * q
<1>1. PICK d \in Nat, r \in 0 .. p - 1 : d = v \div p /\ v = d * p + r
  BY DivIs
<1>2. v * q = d * (p * q) + r * q
  BY <1>1, Products
<1>3. r * q >= 0 /\ r * q < p * q
  BY <1>1, Products
<1>4. (d + 1) * (p * q) = d * (p * q) + p * q
  BY <1>1, Products
<1> QED  BY <1>1, <1>2, <1>3, <1>4

\* The scaling of a reading to less than its 11 bits, and to more.
LEMMA ReadingScaled ==
  ASSUME NEW value \in Nat, NEW bits \in 1 .. 16
  PROVE  InProportion(MapAdcValue(value, bits), bits, value)
<1>1. 2 ^ 11 = 2048
  OBVIOUS
<1>2. PICK q \in Nat \ {0} : q = 2 ^ bits
  BY PowerStep
<1>3. CASE bits < 11
  <2>1. PICK n \in Nat : n = 11 - bits /\ n + bits = 11
    BY <1>3
  <2>2. PICK p \in Nat \ {0} : p = 2 ^ n
    BY PowerStep
  <2>3. 2 ^ (n + bits) = 2 ^ n * 2 ^ bits
    BY PowerSum
  <2>4. p * q = 2048
    BY <1>1, <1>2, <2>1, <2>2, <2>3
  <2>5. MapAdcValue(value, bits) = value \div p
    BY <1>3, <2>1, <2>2 DEF MapAdcValue
  <2>6. /\ (value \div p) * (p * q) <= value * q
        /\ (value \div p + 1) * (p * q) > value * q
    BY Scaling
  <2> QED  BY <1>2, <2>4, <2>5, <2>6 DEF InProportion
<1>4. CASE ~(bits < 11)
  <2>1. PICK n \in Nat : n = bits - 11 /\ n + 11 = bits
    BY <1>4
  <2>2. PICK p \in Nat \ {0} : p = 2 ^ n
    BY PowerStep
  <2>3. 2 ^ (n + 11) = 2 ^ n * 2 ^ 11
    BY PowerSum
  <2>4. q = p * 2048
    BY <1>1, <1>2, <2>1, <2>2, <2>3
  <2>5. MapAdcValue(value, bits) = value * p
    BY <1>4, <2>1, <2>2 DEF MapAdcValue
  <2>6. (value * p) * 2048 = value * (p * 2048) /\ value * p \in Int
    BY <2>2, Products
  <2> QED  BY <1>2, <2>2, <2>4, <2>5, <2>6 DEF InProportion
<1> QED  BY <1>3, <1>4

LEMMA ReadingStep ==
  ASSUME ScaledReading
  PROVE  ReadingIsScaled' /\ call'.fun = "analogRead"
<1>1. PICK value \in Readings, bits \in 1 .. 16 :
        call' = [fun |-> "analogRead", value |-> value, bits |-> bits,
                 result |-> MapAdcValue(value, bits)]
  BY DEF ScaledReading
<1>2. value \in Nat
  BY ConversionsAssumption
<1>3. InProportion(MapAdcValue(value, bits), bits, value)
  BY <1>1, <1>2, ReadingScaled
<1> QED  BY <1>1, <1>3 DEF ReadingIsScaled

\* A recursion over the first numbers has a result.
LEMMA Recursion ==
  ASSUME NEW n \in Nat, NEW step \in [1 .. n -> [Nat -> Nat]]
  PROVE  \E f \in [0 .. n -> Nat] :
           f[0] = 0 /\ \A k \in 1 .. n : f[k] = step[k][f[k - 1]]
<1> DEFINE Good(m) == \E f \in [0 .. m -> Nat] :
                        f[0] = 0 /\ \A k \in 1 .. m : f[k] = step[k][f[k - 1]]
           Bad == {m \in 0 .. n : ~Good(m)}
<1>1. SUFFICES ASSUME Bad # {}  PROVE FALSE
  <2> HIDE DEF Good
  <2>1. n \in 0 .. n /\ (n \notin Bad => Good(n))
    OBVIOUS
  <2> QED  BY <2>1 DEF Good
<1>2. PICK m \in Bad : \A j \in Bad : m <= j
  <2>1. Bad \in SUBSET Nat
    OBVIOUS
  <2> HIDE DEF Bad
  <2> QED  BY <1>1, <2>1, SmallestOf
<1>3. CASE m = 0
  <2> DEFINE z == [k \in 0 .. 0 |-> 0]
  <2>1. z \in [0 .. 0 -> Nat] /\ z[0] = 0
    OBVIOUS
  <2>2. \A k \in 1 .. 0 : z[k] = step[k][z[k - 1]]
    OBVIOUS
  <2>3. Good(0)
    <3> HIDE DEF z
    <3> QED  BY <2>1, <2>2
  <2> HIDE DEF Good
  <2> QED  BY <1>2, <1>3, <2>3
<1>4. CASE m # 0
  <2>1. m - 1 \in 0 .. n /\ m \in 1 .. n /\ Good(m - 1)
    <3> HIDE DEF Good
    <3>1. m \in 0 .. n /\ ~(m <= m - 1)
      BY <1>2
    <3> QED  BY <1>2, <1>4, <3>1
  <2>2. PICK f \in [0 .. m - 1 -> Nat] :
          f[0] = 0 /\ \A k \in 1 .. m - 1 : f[k] = step[k][f[k - 1]]
    BY <2>1
  <2> DEFINE g == [k \in 0 .. m |-> IF k < m THEN f[k] ELSE step[m][f[m - 1]]]
  <2> HIDE DEF Good
  <2>3. f[m - 1] \in Nat /\ step[m] \in [Nat -> Nat]
    <3>1. m - 1 \in 0 .. m - 1
      BY <2>1
    <3> QED  BY <2>1, <2>2, <3>1
  <2>4. \A k \in 0 .. m : k < m => k \in 0 .. m - 1 /\ f[k] \in Nat
    <3>1. \A k \in 0 .. m : k < m => k \in 0 .. m - 1
      BY <2>1
    <3> QED  BY <2>2, <3>1
  <2>5. g \in [0 .. m -> Nat]
    BY <2>3, <2>4
  <2>6. g[0] = 0 /\ \A k \in 1 .. m : g[k] = step[k][g[k - 1]]
    <3>1. g[0] = 0
      BY <2>1, <2>2
    <3>2. ASSUME NEW k \in 1 .. m  PROVE g[k] = step[k][g[k - 1]]
      <4>1. g[k - 1] = f[k - 1]
        BY <2>1
      <4>2. CASE k < m
        <5>1. k \in 1 .. m - 1 /\ g[k] = f[k]
          BY <2>1, <4>2
        <5> QED  BY <2>2, <4>1, <5>1
      <4>3. CASE k = m
        BY <2>1, <4>1, <4>3
      <4> QED  BY <2>1, <4>2, <4>3
    <3> QED  BY <3>1, <3>2
  <2>7. Good(m)
    <3> HIDE DEF g
    <3> QED  BY <2>5, <2>6 DEF Good
  <2> QED  BY <1>2, <2>7
<1> QED  BY <1>3, <1>4

\* ... and no other.
LEMMA OneResult ==
  ASSUME NEW n \in Nat, NEW f, NEW g, f[0] = g[0],
         \A k \in 1 .. n : f[k - 1] = g[k - 1] => f[k] = g[k]
  PROVE  f[n] = g[n]
<1> DEFINE Bad == {k \in 0 .. n : f[k] # g[k]}
<1>1. SUFFICES ASSUME Bad # {}  PROVE FALSE
  OBVIOUS
<1>2. PICK k \in Bad : \A j \in Bad : k <= j
  <2>1. Bad \in SUBSET Nat
    OBVIOUS
  <2> HIDE DEF Bad
  <2> QED  BY <1>1, <2>1, SmallestOf
<1>3. k # 0 /\ k \in 1 .. n /\ k - 1 \in 0 .. n /\ k - 1 \notin Bad
  BY <1>2
<1> QED  BY <1>2, <1>3

\* What a string of digits stands for, digit by digit.
LEMMA NumberOf ==
  ASSUME NEW s \in Seq(Nat), NEW radix \in Nat
  PROVE  \E f \in [0 .. Len(s) -> Nat] :
           /\ f[0] = 0
           /\ \A k \in 1 .. Len(s) : f[k] = radix * f[k - 1] + s[k]
           /\ Number(s, radix) = f[Len(s)]
<1> DEFINE n == Len(s)
           Fill(g) == [k \in 0 .. n |-> IF k = 0 THEN 0 ELSE radix * g[k - 1] + s[k]]
           step == [k \in 1 .. n |-> [x \in Nat |-> radix * x + s[k]]]
           value == CHOOSE g : g = Fill(g)
<1>1. n \in Nat /\ \A k \in 1 .. n : s[k] \in Nat
  BY LenProperties, ElementOfSeq
<1>2. Number(s, radix) = value[n]
  BY DEF Number
<1>3. step \in [1 .. n -> [Nat -> Nat]]
  BY <1>1, Products
<1>4. \A k \in 1 .. n, x \in Nat : step[k][x] = radix * x + s[k]
  OBVIOUS
<1> HIDE DEF step
<1>5. PICK f \in [0 .. n -> Nat] : f[0] = 0 /\ \A k \in 1 .. n : f[k] = step[k][f[k - 1]]
  <2> HIDE DEF n
  <2> QED  BY <1>1, <1>3, Recursion
<1>6. \A k \in 1 .. n : f[k - 1] \in Nat /\ f[k] = radix * f[k - 1] + s[k]
  <2> HIDE DEF n
  <2>1. \A k \in 1 .. n : k - 1 \in 0 .. n
    BY <1>1
  <2>2. \A k \in 1 .. n : f[k - 1] \in Nat
    BY <1>5, <2>1
  <2> QED  BY <1>4, <1>5, <2>2
<1>7. f = Fill(f)
  <2>1. \A k \in 0 .. n : f[k] = Fill(f)[k]
    BY <1>1, <1>5, <1>6
  <2> QED  BY <1>5, <2>1
<1>8. value = Fill(value)
  <2> HIDE DEF Fill
  <2> QED  BY <1>7
<1>9. value[0] = 0 /\ \A k \in 1 .. n : value[k] = radix * value[k - 1] + s[k]
  <2> HIDE DEF value
  <2>1. \A k \in 0 .. n : value[k] = Fill(value)[k]
    BY <1>8
  <2> QED  BY <1>1, <2>1
<1>10. value[n] = f[n]
  <2> HIDE DEF value, n
  <2>1. value[0] = f[0]
    BY <1>5, <1>9
  <2>2. \A k \in 1 .. n : value[k - 1] = f[k - 1] => value[k] = f[k]
    BY <1>6, <1>9
  <2> QED  BY <1>1, <2>1, <2>2, OneResult
<1> QED  BY <1>2, <1>5, <1>6, <1>10

\* A digit more.
LEMMA NumberAppend ==
  ASSUME NEW s \in Seq(Nat), NEW digit \in Nat, NEW radix \in Nat
  PROVE  Number(Append(s, digit), radix) = radix * Number(s, radix) + digit
<1> DEFINE n == Len(s)
           a == Append(s, digit)
<1>1. n \in Nat /\ a \in Seq(Nat) /\ Len(a) = n + 1 /\ a[n + 1] = digit
      /\ \A k \in 1 .. n : a[k] = s[k]
  BY LenProperties, AppendProperties
<1> HIDE DEF n, a
<1>2. PICK f \in [0 .. Len(a) -> Nat] :
        /\ f[0] = 0
        /\ \A k \in 1 .. Len(a) : f[k] = radix * f[k - 1] + a[k]
        /\ Number(a, radix) = f[Len(a)]
  BY <1>1, NumberOf
<1>3. PICK g \in [0 .. Len(s) -> Nat] :
        /\ g[0] = 0
        /\ \A k \in 1 .. Len(s) : g[k] = radix * g[k - 1] + s[k]
        /\ Number(s, radix) = g[Len(s)]
  BY NumberOf
<1>4. Number(a, radix) = radix * f[n] + digit
  <2>1. n + 1 \in 1 .. Len(a) /\ (n + 1) - 1 = n
    BY <1>1
  <2> QED  BY <1>1, <1>2, <2>1
<1>5. f[n] = g[n]
  <2>1. \A k \in 1 .. n : f[k] = radix * f[k - 1] + s[k]
    BY <1>1, <1>2
  <2>2. \A k \in 1 .. n : g[k] = radix * g[k - 1] + s[k]
    BY <1>3 DEF n
  <2>3. \A k \in 1 .. n : f[k - 1] = g[k - 1] => f[k] = g[k]
    BY <2>1, <2>2
  <2>4. f[0] = g[0]
    BY <1>2, <1>3
  <2> QED  BY <1>1, <2>3, <2>4, OneResult
<1>6. Number(s, radix) = g[n]
  BY <1>3 DEF n
<1> QED  BY <1>4, <1>5, <1>6 DEF a

\* A string of one digit.
LEMMA NumberOne ==
  ASSUME NEW digit \in Nat, NEW radix \in Nat
  PROVE  Number(<<digit>>, radix) = digit
<1>1. <<digit>> \in Seq(Nat) /\ Len(<<digit>>) = 1 /\ <<digit>>[1] = digit
  OBVIOUS
<1>2. PICK f \in [0 .. 1 -> Nat] :
        /\ f[0] = 0
        /\ \A k \in 1 .. 1 : f[k] = radix * f[k - 1] + <<digit>>[k]
        /\ Number(<<digit>>, radix) = f[1]
  BY <1>1, NumberOf
<1>3. f[1] = radix * 0 + digit
  BY <1>1, <1>2
<1> QED  BY <1>2, <1>3

\* The digits of a number, and the loop that takes them.
Took(digits, radix) ==
  /\ digits \in [ULongs -> Seq(Nat)]
  /\ \A v \in ULongs :
       digits[v] = IF v < radix THEN <<v>> ELSE Append(digits[v \div radix], v % radix)

\* A quotient is smaller than the number.
LEMMA Quotient ==
  ASSUME NEW v \in Nat, NEW radix \in Nat, radix > 1, ~(v < radix)
  PROVE  \E q \in Nat \ {0}, r \in 0 .. radix - 1 :
           /\ q = v \div radix /\ r = v % radix
           /\ v = radix * q + r /\ q < v /\ 2 * q <= v
<1>1. PICK q \in Nat, r \in 0 .. radix - 1 :
        q = v \div radix /\ r = v % radix /\ v = q * radix + r
  BY DivIs
<1>2. q # 0
  <2>1. CASE q = 0
    <3>1. q * radix = 0
      BY <2>1
    <3> QED  BY <1>1, <3>1
  <2> QED  BY <2>1
<1>3. 2 * q <= q * radix /\ q * radix = radix * q
  <2>1. \A x, y \in Nat : y > 1 => 2 * x <= x * y /\ x * y = y * x
    BY Z3
  <2> QED  BY <1>1, <2>1
<1>4. PICK p \in Nat : p = q * radix
  BY <1>1, Products
<1>5. v = p + r /\ 2 * q <= p
  BY <1>1, <1>3, <1>4
<1>6. q < v /\ 2 * q <= v
  BY <1>1, <1>2, <1>5
<1>7. v = radix * q + r
  BY <1>3, <1>4, <1>5
<1> QED  BY <1>1, <1>2, <1>6, <1>7

\* The digits of the numbers up to n.
LEMMA DigitsUpTo ==
  ASSUME NEW radix \in Nat, radix > 1, NEW n \in Nat
  PROVE  \E f \in [0 .. n -> Seq(Nat)] : \A v \in 0 .. n :
           f[v] = IF v < radix THEN <<v>> ELSE Append(f[v \div radix], v % radix)
<1> DEFINE Good(m) == \E f \in [0 .. m -> Seq(Nat)] : \A v \in 0 .. m :
                        f[v] = IF v < radix THEN <<v>> ELSE Append(f[v \div radix], v % radix)
           Bad == {m \in Nat : ~Good(m)}
<1>1. SUFFICES ASSUME Bad # {}  PROVE FALSE
  <2> HIDE DEF Good
  <2>1. n \notin Bad => Good(n)
    OBVIOUS
  <2> QED  BY <2>1 DEF Good
<1>2. PICK m \in Bad : \A j \in Bad : m <= j
  <2>1. Bad \in SUBSET Nat
    OBVIOUS
  <2> HIDE DEF Bad
  <2> QED  BY <1>1, <2>1, SmallestOf
<1>3. CASE m = 0
  <2> DEFINE z == [v \in 0 .. 0 |-> <<v>>]
  <2>1. z \in [0 .. 0 -> Seq(Nat)] /\ \A v \in 0 .. 0 : z[v] = <<v>> /\ v < radix
    OBVIOUS
  <2>2. Good(0)
    <3> HIDE DEF z
    <3> QED  BY <2>1
  <2> HIDE DEF Good
  <2> QED  BY <1>2, <1>3, <2>2
<1>4. CASE m # 0
  <2>1. m - 1 \in Nat /\ m \in Nat /\ Good(m - 1)
    <3> HIDE DEF Good
    <3>1. m \in Nat /\ ~(m <= m - 1)
      BY <1>2
    <3> QED  BY <1>2, <1>4, <3>1
  <2>2. PICK f \in [0 .. m - 1 -> Seq(Nat)] : \A v \in 0 .. m - 1 :
          f[v] = IF v < radix THEN <<v>> ELSE Append(f[v \div radix], v % radix)
    BY <2>1
  <2> HIDE DEF Good
  <2> DEFINE last == IF m < radix THEN <<m>> ELSE Append(f[m \div radix], m % radix)
             g == [v \in 0 .. m |-> IF v < m THEN f[v] ELSE last]
  <2>3. last \in Seq(Nat)
    <3>1. CASE m < radix
      BY <2>1, <3>1
    <3>2. CASE ~(m < radix)
      <4>1. PICK q \in Nat \ {0}, r \in 0 .. radix - 1 :
              q = m \div radix /\ r = m % radix /\ q < m
        BY <2>1, <3>2, Quotient
      <4>2. q \in 0 .. m - 1 /\ r \in Nat
        BY <2>1, <4>1
      <4> f[q] \in Seq(Nat)
        BY <2>2, <4>2
      <4>3. Append(f[q], r) \in Seq(Nat)
        BY <4>2, AppendProperties
      <4> QED  BY <3>2, <4>1, <4>3
    <3> QED  BY <3>1, <3>2
  <2>4. \A v \in 0 .. m : v < m => v \in 0 .. m - 1 /\ f[v] \in Seq(Nat)
    <3>1. \A v \in 0 .. m : v < m => v \in 0 .. m - 1
      BY <2>1
    <3> QED  BY <2>2, <3>1
  <2>5. g \in [0 .. m -> Seq(Nat)]
    <3> HIDE DEF last
    <3> QED  BY <2>3, <2>4
  <2>6. ASSUME NEW v \in 0 .. m
        PROVE  g[v] = IF v < radix THEN <<v>> ELSE Append(g[v \div radix], v % radix)
    <3>1. g[v] = IF v < radix THEN <<v>> ELSE Append(f[v \div radix], v % radix)
      <4>1. CASE v < m
        BY <2>2, <2>4, <4>1
      <4>2. CASE v = m
        BY <2>1, <4>2
      <4> QED  BY <2>1, <4>1, <4>2
    <3>2. CASE v < radix
      BY <3>1, <3>2
    <3>3. CASE ~(v < radix)
      <4> v \in Nat
        BY <2>1
      <4>1. PICK q \in Nat \ {0} : q = v \div radix /\ q < v
        BY <3>3, Quotient
      <4>2. g[q] = f[q]
        BY <2>1, <4>1
      <4> QED  BY <3>1, <3>3, <4>1, <4>2
    <3> QED  BY <3>2, <3>3
  <2>7. Good(m)
    <3> HIDE DEF g
    <3> QED  BY <2>5, <2>6 DEF Good
  <2> QED  BY <1>2, <2>7
<1> QED  BY <1>3, <1>4

\* The loop of itoa.c has a result: each number's digits are its quotient's and one more.
LEMMA DigitsOf ==
  ASSUME NEW radix \in Nat, radix > 1
  PROVE  \E digits : Took(digits, radix) /\ \A v \in ULongs : Digits(v, radix) = digits[v]
<1> DEFINE Fill(g) == [v \in ULongs |-> IF v < radix THEN <<v>>
                                        ELSE Append(g[v \div radix], v % radix)]
           digits == CHOOSE g : g = Fill(g)
<1>1. \A v : Digits(v, radix) = digits[v]
  BY DEF Digits
<1>2. PICK n \in Nat : ULongs = 0 .. n
  BY Width DEF ULongs
<1>3. PICK f \in [0 .. n -> Seq(Nat)] : \A v \in 0 .. n :
        f[v] = IF v < radix THEN <<v>> ELSE Append(f[v \div radix], v % radix)
  BY DigitsUpTo
<1>4. f = Fill(f)
  BY <1>2, <1>3
<1>5. digits = Fill(digits)
  <2> HIDE DEF Fill
  <2> QED  BY <1>4
<1> HIDE DEF digits
<1>6. \A v \in ULongs :
        digits[v] = IF v < radix THEN <<v>> ELSE Append(digits[v \div radix], v % radix)
  <2>1. \A v \in ULongs : digits[v] = Fill(digits)[v]
    BY <1>5
  <2>2. \A v \in ULongs : Fill(digits)[v] =
          IF v < radix THEN <<v>> ELSE Append(digits[v \div radix], v % radix)
    OBVIOUS
  <2> HIDE DEF Fill
  <2> QED  BY <2>1, <2>2
<1>7. \A v \in 0 .. n : digits[v] = f[v]
  <2> DEFINE Bad == {v \in 0 .. n : digits[v] # f[v]}
  <2>1. SUFFICES ASSUME Bad # {}  PROVE FALSE
    OBVIOUS
  <2>2. PICK v \in Bad : \A j \in Bad : v <= j
    <3>1. Bad \in SUBSET Nat
      OBVIOUS
    <3> HIDE DEF Bad
    <3> QED  BY <2>1, <3>1, SmallestOf
  <2>3. v \in 0 .. n /\ v \in Nat /\ digits[v] # f[v]
    BY <2>2
  <2>4. ~(v < radix)
    BY <1>2, <1>3, <1>6, <2>3
  <2>5. PICK q \in Nat \ {0} : q = v \div radix /\ q < v
    BY <2>3, <2>4, Quotient
  <2>6. digits[q] = f[q]
    BY <1>2, <2>2, <2>3, <2>5
  <2>7. digits[v] = Append(digits[q], v % radix)
    BY <1>2, <1>6, <2>3, <2>4, <2>5
  <2>8. f[v] = Append(f[q], v % radix)
    BY <1>3, <2>3, <2>4, <2>5
  <2> QED  BY <2>3, <2>6, <2>7, <2>8
<1>8. digits \in [ULongs -> Seq(Nat)]
  <2>1. DOMAIN digits = ULongs /\ digits = [v \in DOMAIN digits |-> digits[v]]
    BY <1>5
  <2>2. \A v \in ULongs : digits[v] \in Seq(Nat)
    BY <1>2, <1>3, <1>7
  <2> QED  BY <2>1, <2>2
<1> QED  BY <1>1, <1>6, <1>8 DEF Took

\* The digits are right: by the least number for which they would not be.
LEMMA DigitsAreRight ==
  ASSUME NEW radix \in Nat, radix > 1, NEW number \in ULongs
  PROVE  LET s == Digits(number, radix)
         IN  /\ Len(s) \in 1 .. Bits
             /\ \A k \in DOMAIN s : s[k] \in 0 .. radix - 1
             /\ s[1] = 0 => Len(s) = 1
             /\ Number(s, radix) = number
<1>1. PICK d : Took(d, radix) /\ \A v \in ULongs : Digits(v, radix) = d[v]
  BY DigitsOf
<1> DEFINE Good(v) ==
      /\ Len(d[v]) > 0
      /\ \A k \in 1 .. Len(d[v]) : d[v][k] \in 0 .. radix - 1
      /\ v # 0 => d[v][1] # 0
      /\ v = 0 => Len(d[v]) = 1
      /\ Number(d[v], radix) = v
      /\ \A k \in Nat \ {0} : v < 2 ^ k => Len(d[v]) <= k
    Bad == {v \in ULongs : ~Good(v)}
<1>2. \A v \in ULongs : d[v] \in Seq(Nat) /\ Len(d[v]) \in Nat
  <2>1. \A v \in ULongs : d[v] \in Seq(Nat)
    BY <1>1 DEF Took
  <2> QED  BY <2>1, LenProperties
<1>3. ULongs \subseteq Nat /\ \A v \in ULongs, q \in Nat : q < v => q \in ULongs
  <2>1. PICK m \in Nat \ {0} : m = Count
    BY Width
  <2> QED  BY <2>1 DEF ULongs
<1>4. ASSUME NEW v \in ULongs, v < radix  PROVE Good(v)
  <2>1. d[v] = <<v>> /\ v \in Nat
    BY <1>1, <1>3, <1>4 DEF Took
  <2>2. Len(<<v>>) = 1 /\ <<v>>[1] = v
    OBVIOUS
  <2>3. Number(<<v>>, radix) = v
    BY <2>1, NumberOne
  <2>4. \A k \in 1 .. Len(d[v]) : d[v][k] \in 0 .. radix - 1
    BY <1>4, <2>1, <2>2
  <2> QED  BY <2>1, <2>2, <2>3, <2>4
<1>5. ASSUME NEW v \in ULongs, ~(v < radix), \A q \in ULongs : q < v => Good(q)
      PROVE  Good(v)
  <2>1. PICK q \in Nat \ {0}, r \in 0 .. radix - 1 :
          /\ q = v \div radix /\ r = v % radix
          /\ v = radix * q + r /\ q < v /\ 2 * q <= v
    BY <1>3, <1>5, Quotient
  <2>2. q \in ULongs /\ Good(q)
    <3> HIDE DEF Good
    <3> QED  BY <1>3, <1>5, <2>1
  <2>3. d[v] = Append(d[q], r)
    BY <1>1, <1>5, <2>1 DEF Took
  <2> DEFINE n == Len(d[q])
  <2>4. n \in Nat /\ n > 0 /\ d[q] \in Seq(Nat) /\ r \in Nat
    <3>1. n \in Nat /\ d[q] \in Seq(Nat)
      <4> HIDE DEF Good
      <4> QED  BY <1>2, <2>2
    <3>2. n > 0
      BY <2>2
    <3>3. r \in Nat
      <4> HIDE DEF Good
      <4> QED  BY <2>1
    <3> QED  BY <3>1, <3>2, <3>3
  <2>5. /\ Len(d[v]) = n + 1 /\ d[v][n + 1] = r
        /\ \A k \in 1 .. n : d[v][k] = d[q][k]
    BY <2>3, <2>4, AppendProperties
  <2>6. Number(d[v], radix) = v
    <3>1. Number(d[v], radix) = radix * Number(d[q], radix) + r
      BY <2>3, <2>4, NumberAppend
    <3> QED  BY <2>1, <2>2, <3>1
  <2>7. \A k \in 1 .. Len(d[v]) : d[v][k] \in 0 .. radix - 1
    <3>1. \A k \in 1 .. n : d[q][k] \in 0 .. radix - 1
      BY <2>2
    <3>2. \A k \in 1 .. n + 1 : k \in 1 .. n \/ k = n + 1
      BY <2>4
    <3> HIDE DEF n
    <3> QED  BY <2>1, <2>5, <3>1, <3>2
  <2>8. v # 0 /\ d[v][1] # 0
    <3>1. d[q][1] # 0
      BY <2>1, <2>2
    <3>2. 1 \in 1 .. n
      BY <2>4
    <3> HIDE DEF n
    <3> QED  BY <1>3, <2>1, <2>5, <3>1, <3>2
  <2>9. ASSUME NEW k \in Nat \ {0}, v < 2 ^ k  PROVE Len(d[v]) <= k
    <3>1. PICK j \in Nat : k = j + 1
      <4>1. k - 1 \in Nat /\ k = (k - 1) + 1
        OBVIOUS
      <4> QED  BY <4>1
    <3>2. PICK p \in Nat \ {0} : p = 2 ^ j /\ 2 ^ k = 2 * p
      BY <3>1, PowerStep
    <3>3. q < p
      BY <1>3, <2>1, <2>9, <3>2
    <3>4. j # 0
      <4>1. 2 ^ 0 = 1
        OBVIOUS
      <4>2. p > 1
        BY <2>1, <3>2, <3>3
      <4>3. j = 0 => p = 1
        BY <3>2, <4>1
      <4> QED  BY <4>2, <4>3
    <3>5. n <= j
      BY <2>2, <3>1, <3>2, <3>3, <3>4
    <3> QED  BY <2>4, <2>5, <3>1, <3>5
  <2> QED  BY <2>4, <2>5, <2>6, <2>7, <2>8, <2>9
<1>6. Good(number)
  <2> HIDE DEF Good
  <2>1. SUFFICES ASSUME Bad # {}  PROVE FALSE
    OBVIOUS
  <2>2. PICK v \in Bad : \A j \in Bad : v <= j
    <3>1. Bad \in SUBSET Nat
      BY <1>3
    <3> HIDE DEF Bad
    <3> QED  BY <2>1, <3>1, SmallestOf
  <2>3. \A q \in ULongs : q < v => Good(q)
    <3>1. v \in Nat
      BY <1>3, <2>2
    <3> QED  BY <1>3, <2>2, <3>1
  <2> QED  BY <1>4, <1>5, <2>2, <2>3
<1>7. number < 2 ^ Bits /\ Bits \in Nat \ {0}
  BY Width DEF ULongs
<1>8. DOMAIN d[number] = 1 .. Len(d[number])
  BY <1>2, LenProperties
<1>9. Len(d[number]) = 1 \/ number # 0
  BY <1>6
<1> QED  BY <1>1, <1>2, <1>6, <1>7, <1>8, <1>9

\* A string of itoa.c reads back as the number.
LEMMA StringReadsBack ==
  ASSUME NEW value \in Int, NEW number \in ULongs, NEW radix \in 2 .. 36, NEW minus \in BOOLEAN,
         number = (IF minus THEN -value
                   ELSE IF radix = 10 THEN value ELSE AsUnsigned(value)),
         minus => radix = 10,
         NEW fun, fun \in {"ltoa", "ultoa"},
         call' = [fun |-> fun, value |-> value, radix |-> radix,
                  result |-> [minus |-> minus, digits |-> Digits(number, radix)]]
  PROVE  DigitsReadBack'
<1> DEFINE s == Digits(number, radix)
<1>1. /\ Len(s) \in 1 .. Bits
      /\ \A k \in DOMAIN s : s[k] \in 0 .. radix - 1
      /\ s[1] = 0 => Len(s) = 1
      /\ Number(s, radix) = number
  BY DigitsAreRight
<1> HIDE DEF s
<1>2. /\ call'.radix = radix /\ call'.value = value
      /\ call'.result.digits = s /\ call'.result.minus = minus
  BY DEF s
<1>3. ReadBack(call'.result, radix) = IF radix = 10 THEN value ELSE AsUnsigned(value)
  BY <1>1, <1>2 DEF ReadBack
<1> QED  BY <1>1, <1>2, <1>3 DEF DigitsReadBack

LEMMA LtoaStep ==
  ASSUME Ltoa
  PROVE  DigitsReadBack' /\ call'.fun = "ltoa"
<1>1. PICK value \in Longs, radix \in Radices :
        call' = [fun |-> "ltoa", value |-> value, radix |-> radix,
                 result |-> LtoaString(value, radix)]
  BY DEF Ltoa
<1>2. value \in Int /\ radix \in Int
  BY Width, ConversionsAssumption
<1>3. CASE radix \in 2 .. 36
  <2> DEFINE minus == radix = 10 /\ value < 0
             number == AsUnsigned(IF minus THEN -value ELSE value)
  <2>1. LtoaString(value, radix) = [minus |-> minus, digits |-> Digits(number, radix)]
    BY <1>3 DEF LtoaString
  <2>2. number \in ULongs
    BY <1>2, UnsignedIs
  <2>3. number = (IF minus THEN -value
                  ELSE IF radix = 10 THEN value ELSE AsUnsigned(value))
    <3>1. value >= 0 => value \in ULongs
      BY <1>2, Width DEF ULongs
    <3>2. value < 0 => -value \in ULongs
      BY <1>2, Width DEF ULongs
    <3> QED  BY <1>2, <3>1, <3>2, UnsignedIs
  <2>4. minus \in BOOLEAN /\ (minus => radix = 10)
    OBVIOUS
  <2> HIDE DEF minus, number
  <2> QED  BY <1>1, <1>2, <1>3, <2>1, <2>2, <2>3, <2>4, StringReadsBack
<1>4. CASE radix \notin 2 .. 36
  BY <1>1, <1>4 DEF DigitsReadBack
<1> QED  BY <1>1, <1>3, <1>4

LEMMA UltoaStep ==
  ASSUME Ultoa
  PROVE  DigitsReadBack' /\ call'.fun = "ultoa"
<1>1. PICK value \in Longs, radix \in Radices :
        call' = [fun |-> "ultoa", value |-> AsUnsigned(value), radix |-> radix,
                 result |-> IF radix > 36 \/ radix <= 1 THEN NullString
                            ELSE [minus |-> FALSE, digits |-> Digits(AsUnsigned(value), radix)]]
  BY DEF Ultoa
<1>2. value \in Int /\ radix \in Int
  BY Width, ConversionsAssumption
<1>3. PICK number \in ULongs : number = AsUnsigned(value)
  BY <1>2, UnsignedIs
<1>4. number \in Int /\ AsUnsigned(number) = number
  BY <1>3, Width, UnsignedIs DEF ULongs
<1>5. CASE radix \in 2 .. 36
  <2>1. call' = [fun |-> "ultoa", value |-> number, radix |-> radix,
                 result |-> [minus |-> FALSE, digits |-> Digits(number, radix)]]
    <3>1. ~(radix > 36 \/ radix <= 1)
      BY <1>5
    <3>2. call' = [fun |-> "ultoa", value |-> AsUnsigned(value), radix |-> radix,
                   result |-> [minus |-> FALSE, digits |-> Digits(AsUnsigned(value), radix)]]
      BY <1>1, <3>1
    <3> QED  BY <1>3, <3>2
  <2>2. PICK minus \in BOOLEAN : minus = FALSE
    OBVIOUS
  <2>3. number = (IF minus THEN -number
                  ELSE IF radix = 10 THEN number ELSE AsUnsigned(number))
    BY <1>4, <2>2
  <2>4. call' = [fun |-> "ultoa", value |-> number, radix |-> radix,
                 result |-> [minus |-> minus, digits |-> Digits(number, radix)]]
    BY <2>1, <2>2
  <2>5. DigitsReadBack'
    BY <1>3, <1>4, <1>5, <2>2, <2>3, <2>4, StringReadsBack
  <2> QED  BY <2>1, <2>5
<1>6. CASE radix \notin 2 .. 36
  BY <1>1, <1>6 DEF DigitsReadBack
<1> QED  BY <1>1, <1>5, <1>6

\* Eight bits from the left.
LEMMA Binary ==
  ASSUME NEW b \in [1 .. 8 -> 0 .. 1]
  PROVE  Number(b, 2) = 128 * b[1] + 64 * b[2] + 32 * b[3] + 16 * b[4]
                        + 8 * b[5] + 4 * b[6] + 2 * b[7] + b[8]
<1>1. b \in Seq(Nat) /\ Len(b) = 8
  <2>1. b \in [1 .. 8 -> Nat]
    OBVIOUS
  <2>2. b \in Seq(Nat)
    BY <2>1, SeqDef
  <2> QED  BY <2>2, LenProperties
<1>2. PICK f \in [0 .. 8 -> Nat] :
        /\ f[0] = 0
        /\ \A k \in 1 .. 8 : f[k] = 2 * f[k - 1] + b[k]
        /\ Number(b, 2) = f[8]
  BY <1>1, NumberOf
<1>3. /\ f[1] = 2 * f[0] + b[1] /\ f[2] = 2 * f[1] + b[2]
      /\ f[3] = 2 * f[2] + b[3] /\ f[4] = 2 * f[3] + b[4]
      /\ f[5] = 2 * f[4] + b[5] /\ f[6] = 2 * f[5] + b[6]
      /\ f[7] = 2 * f[6] + b[7] /\ f[8] = 2 * f[7] + b[8]
  BY <1>2
<1>4. \A k \in 1 .. 8 : b[k] \in 0 .. 1
  OBVIOUS
<1>5. /\ b[1] \in Int /\ b[2] \in Int /\ b[3] \in Int /\ b[4] \in Int
      /\ b[5] \in Int /\ b[6] \in Int /\ b[7] \in Int /\ b[8] \in Int
  BY <1>4
<1> QED  BY <1>2, <1>3, <1>5

\* Quotients are unique.
LEMMA OneQuotient ==
  ASSUME NEW m \in Nat \ {0}, NEW d \in Nat, NEW e \in Nat,
         NEW r \in 0 .. m - 1, NEW x \in 0 .. m - 1,
         NEW v \in Nat, v = d * m + r, v = e * m + x
  PROVE  d = e
<1>1. \A a, b \in Nat : a < b => a * m + m <= b * m
  BY Z3
<1>2. d * m \in Nat /\ e * m \in Nat
  BY Products
<1>3. ~(d < e)
  BY <1>1, <1>2
<1>4. ~(e < d)
  BY <1>1, <1>2
<1> QED  BY <1>3, <1>4

\* A bit is what dividing on by two leaves.
LEMMA Halved ==
  ASSUME NEW v \in Nat, NEW p \in Nat \ {0}, NEW p2 \in Nat \ {0}, p2 = 2 * p
  PROVE  \E b \in 0 .. 1 : b = (v \div p) % 2 /\ v \div p = 2 * (v \div p2) + b
<1>1. PICK d \in Nat, r \in 0 .. p - 1 : d = v \div p /\ v = d * p + r
  BY DivIs
<1>2. PICK e \in Nat, b \in 0 .. 1 : b = d % 2 /\ d = 2 * e + b
  <2>1. PICK two \in Nat \ {0} : two = 2
    OBVIOUS
  <2>2. PICK e \in Nat, b \in 0 .. two - 1 : b = d % two /\ d = e * two + b
    BY <1>1, <2>1, DivIs
  <2> QED  BY <2>1, <2>2
<1>3. PICK f \in Nat, s \in 0 .. p2 - 1 : f = v \div p2 /\ v = f * p2 + s
  BY DivIs
<1>4. b * p + r \in 0 .. p2 - 1
  <2>1. CASE b = 0
    BY <1>1, <2>1
  <2>2. CASE b = 1
    BY <1>1, <2>2
  <2> QED  BY <1>2, <2>1, <2>2
<1>5. v = e * p2 + (b * p + r)
  <2>1. (2 * e + b) * p = e * (2 * p) + b * p
    BY <1>2, Z3
  <2>2. e * p2 \in Nat /\ b * p \in Nat /\ (2 * e + b) * p \in Nat
    BY <1>2, Products
  <2>3. d * p = (2 * e + b) * p
    BY <1>2
  <2>4. e * (2 * p) = e * p2
    OBVIOUS
  <2> QED  BY <1>1, <1>2, <2>1, <2>2, <2>3, <2>4
<1>6. e = f
  <2>1. PICK x \in 0 .. p2 - 1 : x = b * p + r
    BY <1>4
  <2>2. v = e * p2 + x
    BY <1>5, <2>1
  <2>3. \A a \in Nat, b1 \in 0 .. p2 - 1 : v = a * p2 + b1 => a = f
    BY <1>3, OneQuotient
  <2> QED  BY <1>2, <2>1, <2>2, <2>3
<1>7. v \div p = 2 * (v \div p2) + b
  BY <1>1, <1>2, <1>3, <1>6
<1>8. b = (v \div p) % 2
  BY <1>1, <1>2
<1> QED  BY <1>2, <1>7, <1>8

LEMMA PowersOfTwo ==
  /\ 2 ^ 0 = 1 /\ 2 ^ 1 = 2 /\ 2 ^ 2 = 4 /\ 2 ^ 3 = 8
  /\ 2 ^ 4 = 16 /\ 2 ^ 5 = 32 /\ 2 ^ 6 = 64 /\ 2 ^ 7 = 128
OBVIOUS

\* A number that eight halvings make zero is the sum of what they left.
LEMMA Halvings ==
  ASSUME NEW f \in [0 .. 8 -> Nat], NEW bit \in [0 .. 7 -> Nat],
         f[8] = 0,
         f[0] = 2 * f[1] + bit[0] /\ f[1] = 2 * f[2] + bit[1],
         f[2] = 2 * f[3] + bit[2] /\ f[3] = 2 * f[4] + bit[3],
         f[4] = 2 * f[5] + bit[4] /\ f[5] = 2 * f[6] + bit[5],
         f[6] = 2 * f[7] + bit[6] /\ f[7] = 2 * f[8] + bit[7]
  PROVE  f[0] = 128 * bit[7] + 64 * bit[6] + 32 * bit[5] + 16 * bit[4]
                + 8 * bit[3] + 4 * bit[2] + 2 * bit[1] + bit[0]
<1>1. \A n \in 0 .. 7 : bit[n] \in Int
  OBVIOUS
<1>2. f[4] = 8 * bit[7] + 4 * bit[6] + 2 * bit[5] + bit[4]
  BY <1>1
<1>3. f[0] = 16 * f[4] + 8 * bit[3] + 4 * bit[2] + 2 * bit[1] + bit[0]
  BY <1>1
<1> QED  BY <1>1, <1>2, <1>3

\* A byte is the sum of its bits.
LEMMA ByteIs ==
  ASSUME NEW v \in 0 .. 255
  PROVE  LET bit == [n \in 0 .. 7 |-> (v \div 2 ^ n) % 2]
         IN  /\ bit \in [0 .. 7 -> 0 .. 1]
             /\ v = 128 * bit[7] + 64 * bit[6] + 32 * bit[5] + 16 * bit[4]
                    + 8 * bit[3] + 4 * bit[2] + 2 * bit[1] + bit[0]
<1> DEFINE d(n) == v \div 2 ^ n
           bit == [n \in 0 .. 7 |-> (v \div 2 ^ n) % 2]
<1>0. v \in Nat
  OBVIOUS
<1>1. ASSUME NEW n \in Nat
      PROVE  /\ \E b \in 0 .. 1 : b = d(n) % 2 /\ d(n) = 2 * d(n + 1) + b
             /\ d(n) \in Nat
  <2>1. PICK p \in Nat \ {0}, p2 \in Nat \ {0} : p = 2 ^ n /\ p2 = 2 ^ (n + 1) /\ p2 = 2 * p
    BY PowerStep
  <2>2. \E b \in 0 .. 1 : b = (v \div p) % 2 /\ v \div p = 2 * (v \div p2) + b
    BY <1>0, <2>1, Halved
  <2>3. v \div p \in Nat
    BY <1>0, <2>1, DivIs
  <2> QED  BY <2>1, <2>2, <2>3
<1>2. d(0) = v
  <2>1. 2 ^ 0 = 1
    BY PowersOfTwo
  <2>2. \A m \in Nat \ {0} : m = 1 => v \div m = v
    BY Z3
  <2> QED  BY <2>1, <2>2
<1>3. d(8) = 0
  <2>1. PICK m \in Nat \ {0} : m = 2 ^ 8 /\ m = 256
    OBVIOUS
  <2>2. v < m
    BY <2>1
  <2>3. v \div m = 0
    BY <2>2, Z3
  <2> QED  BY <2>1, <2>3
<1>4. \A n \in 0 .. 7 : bit[n] \in 0 .. 1 /\ d(n) = 2 * d(n + 1) + bit[n]
  <2> SUFFICES ASSUME NEW n \in 0 .. 7
               PROVE  bit[n] \in 0 .. 1 /\ d(n) = 2 * d(n + 1) + bit[n]
    OBVIOUS
  <2>1. bit[n] = d(n) % 2
    OBVIOUS
  <2>2. n \in Nat
    OBVIOUS
  <2> HIDE DEF d, bit
  <2>3. PICK b \in 0 .. 1 : b = d(n) % 2 /\ d(n) = 2 * d(n + 1) + b
    BY <1>1, <2>2
  <2> QED  BY <2>1, <2>3
<1>5. PICK b \in [0 .. 7 -> 0 .. 1] : b = bit
  <2> HIDE DEF d
  <2> QED  BY <1>4
<1> HIDE DEF d, bit
<1>6. PICK f \in [0 .. 8 -> Nat] : \A n \in 0 .. 8 : f[n] = d(n)
  <2>1. \A n \in 0 .. 8 : d(n) \in Nat
    BY <1>1
  <2>2. [n \in 0 .. 8 |-> d(n)] \in [0 .. 8 -> Nat]
    BY <2>1
  <2> QED  BY <2>2
<1>7. \A n \in 0 .. 7 : f[n] = 2 * f[n + 1] + b[n]
  <2> SUFFICES ASSUME NEW n \in 0 .. 7  PROVE f[n] = 2 * f[n + 1] + b[n]
    OBVIOUS
  <2>1. n \in 0 .. 8 /\ n + 1 \in 0 .. 8
    OBVIOUS
  <2>2. f[n] = d(n) /\ f[n + 1] = d(n + 1)
    BY <1>6, <2>1
  <2> QED  BY <1>4, <1>5, <2>2
<1>8. /\ f[0] = 2 * f[1] + b[0] /\ f[1] = 2 * f[2] + b[1]
      /\ f[2] = 2 * f[3] + b[2] /\ f[3] = 2 * f[4] + b[3]
      /\ f[4] = 2 * f[5] + b[4] /\ f[5] = 2 * f[6] + b[5]
      /\ f[6] = 2 * f[7] + b[6] /\ f[7] = 2 * f[8] + b[7]
  BY <1>7
<1>9. f[8] = 0 /\ f[0] = v
  BY <1>2, <1>3, <1>6
<1>10. f[0] = 128 * b[7] + 64 * b[6] + 32 * b[5] + 16 * b[4]
              + 8 * b[3] + 4 * b[2] + 2 * b[1] + b[0]
  <2>1. b \in [0 .. 7 -> Nat]
    BY <1>5
  <2> QED  BY <1>6, <1>8, <1>9, <2>1, Halvings
<1> QED  BY <1>5, <1>9, <1>10 DEF bit

\* The bit that a pulse carries, and the pulse that carries it.
LEMMA BitOrder ==
  ASSUME NEW order \in Orders
  PROVE  /\ \A i \in 0 .. 7 : BitAt(order, i) \in 0 .. 7
         /\ \A k \in 1 .. 8 : LET i == IF order = "MSBFIRST" THEN k - 1 ELSE 8 - k
                              IN  i \in 0 .. 7 /\ BitAt(order, i) = 8 - k
BY DEF Orders, BitAt

LEMMA ShiftOutStep ==
  ASSUME ShiftOut
  PROVE  ShiftIsBinary' /\ call'.fun = "shiftOut"
<1>1. PICK order \in Orders, val \in 0 .. 255 :
        call' = [fun |-> "shiftOut", order |-> order, val |-> val,
                 levels |-> [i \in 0 .. 7 |-> (val \div 2 ^ BitAt(order, i)) % 2]]
  BY DEF ShiftOut
<1> DEFINE bit == [n \in 0 .. 7 |-> (val \div 2 ^ n) % 2]
           levels == [i \in 0 .. 7 |-> (val \div 2 ^ BitAt(order, i)) % 2]
           binary == [k \in 1 .. 8 |-> levels[IF order = "MSBFIRST" THEN k - 1 ELSE 8 - k]]
<1>2. /\ bit \in [0 .. 7 -> 0 .. 1]
      /\ val = 128 * bit[7] + 64 * bit[6] + 32 * bit[5] + 16 * bit[4]
               + 8 * bit[3] + 4 * bit[2] + 2 * bit[1] + bit[0]
  BY <1>1, ByteIs
<1>3. \A i \in 0 .. 7 : levels[i] = bit[BitAt(order, i)]
  BY <1>1, BitOrder
<1> HIDE DEF levels, bit
<1>4. \A k \in 1 .. 8 : binary[k] = bit[8 - k] /\ 8 - k \in 0 .. 7
  BY <1>1, <1>3, BitOrder
<1>5. binary \in [1 .. 8 -> 0 .. 1]
  BY <1>2, <1>4
<1>6. ShiftIsBinary' = (val = Number(binary, 2))
  BY <1>1 DEF ShiftIsBinary, levels
<1> HIDE DEF binary
<1>7. Number(binary, 2) = 128 * binary[1] + 64 * binary[2] + 32 * binary[3] + 16 * binary[4]
                          + 8 * binary[5] + 4 * binary[6] + 2 * binary[7] + binary[8]
  BY <1>5, Binary
<1>8. /\ binary[1] = bit[7] /\ binary[2] = bit[6] /\ binary[3] = bit[5] /\ binary[4] = bit[4]
      /\ binary[5] = bit[3] /\ binary[6] = bit[2] /\ binary[7] = bit[1] /\ binary[8] = bit[0]
  BY <1>4
<1> QED  BY <1>1, <1>2, <1>6, <1>7, <1>8

\* The loop of shiftIn(), pulse by pulse.
LEMMA GatheredOf ==
  ASSUME NEW order \in Orders, NEW levels \in [0 .. 7 -> 0 .. 1]
  PROVE  \E f \in [0 .. 8 -> Nat], w \in [1 .. 8 -> Nat] :
           /\ \A i \in 1 .. 8 : w[i] = levels[i - 1] * 2 ^ BitAt(order, i - 1)
           /\ f[0] = 0 /\ \A i \in 1 .. 8 : f[i] = f[i - 1] + w[i]
           /\ Gathered(order, levels) = f[8]
<1> DEFINE weight == [i \in 1 .. 8 |-> levels[i - 1] * 2 ^ BitAt(order, i - 1)]
           step == [i \in 1 .. 8 |-> [x \in Nat |-> x + weight[i]]]
           Fill(g) == [i \in 0 .. 8 |->
             IF i = 0 THEN 0 ELSE g[i - 1] + levels[i - 1] * 2 ^ BitAt(order, i - 1)]
           value == CHOOSE g : g = Fill(g)
<1>1. Gathered(order, levels) = value[8]
  BY DEF Gathered
<1>2. \A i \in 1 .. 8 : weight[i] \in Nat
  <2> SUFFICES ASSUME NEW i \in 1 .. 8  PROVE weight[i] \in Nat
    OBVIOUS
  <2>1. i - 1 \in 0 .. 7
    OBVIOUS
  <2>2. levels[i - 1] \in Nat /\ BitAt(order, i - 1) \in Nat
    BY <2>1, BitOrder
  <2>3. 2 ^ BitAt(order, i - 1) \in Nat
    BY <2>2, PowerStep
  <2> QED  BY <2>2, <2>3, Products
<1>3. \A i \in 1 .. 8 : weight[i] = levels[i - 1] * 2 ^ BitAt(order, i - 1)
  OBVIOUS
<1>4. \A g : Fill(g) = [i \in 0 .. 8 |-> IF i = 0 THEN 0 ELSE g[i - 1] + weight[i]]
  OBVIOUS
<1> weight \in [1 .. 8 -> Nat]
  BY <1>2
<1> HIDE DEF weight, Fill
<1>5. step \in [1 .. 8 -> [Nat -> Nat]] /\ \A i \in 1 .. 8, x \in Nat : step[i][x] = x + weight[i]
  BY <1>2
<1> HIDE DEF step
<1>6. PICK f \in [0 .. 8 -> Nat] : f[0] = 0 /\ \A i \in 1 .. 8 : f[i] = step[i][f[i - 1]]
  <2>1. PICK n \in Nat : n = 8
    OBVIOUS
  <2>2. \E f \in [0 .. n -> Nat] : f[0] = 0 /\ \A i \in 1 .. n : f[i] = step[i][f[i - 1]]
    BY <1>5, <2>1, Recursion
  <2> QED  BY <2>1, <2>2
<1>7. \A i \in 1 .. 8 : f[i] = f[i - 1] + weight[i]
  <2> SUFFICES ASSUME NEW i \in 1 .. 8  PROVE f[i] = f[i - 1] + weight[i]
    OBVIOUS
  <2>1. f[i - 1] \in Nat
    BY <1>6
  <2> QED  BY <1>5, <1>6, <2>1
<1>8. f = Fill(f)
  <2>1. \A i \in 0 .. 8 : f[i] = Fill(f)[i]
    BY <1>4, <1>6, <1>7
  <2>2. DOMAIN Fill(f) = 0 .. 8
    BY <1>4
  <2> QED  BY <1>4, <1>6, <2>1
<1>9. value = Fill(value)
  BY <1>8
<1> HIDE DEF value
<1>10. value[0] = 0 /\ \A i \in 1 .. 8 : value[i] = value[i - 1] + weight[i]
  BY <1>4, <1>9
<1>11. value[8] = f[8]
  <2>1. \A i \in 1 .. 8 : value[i - 1] = f[i - 1] => value[i] = f[i]
    BY <1>7, <1>10
  <2> QED  BY <1>6, <1>10, <2>1, OneResult
<1> QED  BY <1>1, <1>3, <1>6, <1>7, <1>11

LEMMA ShiftInStep ==
  ASSUME ShiftIn
  PROVE  ShiftIsBinary' /\ call'.fun = "shiftIn"
<1>1. PICK order \in Orders, levels \in [0 .. 7 -> 0 .. 1] :
        call' = [fun |-> "shiftIn", order |-> order, levels |-> levels,
                 val |-> Gathered(order, levels)]
  BY DEF ShiftIn
<1> DEFINE binary == [k \in 1 .. 8 |-> levels[IF order = "MSBFIRST" THEN k - 1 ELSE 8 - k]]
<1>2. binary \in [1 .. 8 -> 0 .. 1]
  BY <1>1, BitOrder
<1>3. ShiftIsBinary' = (Gathered(order, levels) = Number(binary, 2))
  BY <1>1 DEF ShiftIsBinary
<1>4. Number(binary, 2) = 128 * binary[1] + 64 * binary[2] + 32 * binary[3] + 16 * binary[4]
                          + 8 * binary[5] + 4 * binary[6] + 2 * binary[7] + binary[8]
  <2> HIDE DEF binary
  <2> QED  BY <1>2, Binary
<1>5. PICK f \in [0 .. 8 -> Nat], w \in [1 .. 8 -> Nat] :
        /\ \A i \in 1 .. 8 : w[i] = levels[i - 1] * 2 ^ BitAt(order, i - 1)
        /\ f[0] = 0 /\ \A i \in 1 .. 8 : f[i] = f[i - 1] + w[i]
        /\ Gathered(order, levels) = f[8]
  BY <1>1, GatheredOf
<1>6. Gathered(order, levels) = w[1] + w[2] + w[3] + w[4] + w[5] + w[6] + w[7] + w[8]
  <2>1. \A i \in 1 .. 8 : f[i] = f[i - 1] + w[i]
    BY <1>5
  <2>2. /\ f[1] = w[1] /\ f[2] = f[1] + w[2] /\ f[3] = f[2] + w[3] /\ f[4] = f[3] + w[4]
        /\ f[5] = f[4] + w[5] /\ f[6] = f[5] + w[6] /\ f[7] = f[6] + w[7] /\ f[8] = f[7] + w[8]
    BY <1>5, <2>1
  <2>3. \A i \in 1 .. 8 : w[i] \in Int
    BY <1>5
  <2> QED  BY <1>5, <2>2, <2>3
<1>7. /\ levels[0] \in Int /\ levels[1] \in Int /\ levels[2] \in Int /\ levels[3] \in Int
      /\ levels[4] \in Int /\ levels[5] \in Int /\ levels[6] \in Int /\ levels[7] \in Int
  <2>1. \A i \in 0 .. 7 : levels[i] \in 0 .. 1
    BY <1>1
  <2> QED  BY <2>1
<1>10. /\ w[1] = levels[0] * 2 ^ BitAt(order, 0) /\ w[2] = levels[1] * 2 ^ BitAt(order, 1)
       /\ w[3] = levels[2] * 2 ^ BitAt(order, 2) /\ w[4] = levels[3] * 2 ^ BitAt(order, 3)
       /\ w[5] = levels[4] * 2 ^ BitAt(order, 4) /\ w[6] = levels[5] * 2 ^ BitAt(order, 5)
       /\ w[7] = levels[6] * 2 ^ BitAt(order, 6) /\ w[8] = levels[7] * 2 ^ BitAt(order, 7)
  BY <1>5
<1>8. CASE order = "MSBFIRST"
  <2>1. /\ w[1] = 128 * levels[0] /\ w[2] = 64 * levels[1] /\ w[3] = 32 * levels[2]
        /\ w[4] = 16 * levels[3] /\ w[5] = 8 * levels[4] /\ w[6] = 4 * levels[5]
        /\ w[7] = 2 * levels[6] /\ w[8] = levels[7]
    <3>1. /\ 2 ^ BitAt(order, 0) = 128 /\ 2 ^ BitAt(order, 1) = 64 /\ 2 ^ BitAt(order, 2) = 32
          /\ 2 ^ BitAt(order, 3) = 16 /\ 2 ^ BitAt(order, 4) = 8 /\ 2 ^ BitAt(order, 5) = 4
          /\ 2 ^ BitAt(order, 6) = 2 /\ 2 ^ BitAt(order, 7) = 1
      BY <1>8, PowersOfTwo DEF BitAt
    <3> QED  BY <1>7, <1>10, <3>1
  <2>2. \A k \in 1 .. 8 : binary[k] = levels[k - 1]
    BY <1>8
  <2> HIDE DEF binary
  <2>3. /\ binary[1] = levels[0] /\ binary[2] = levels[1] /\ binary[3] = levels[2]
        /\ binary[4] = levels[3] /\ binary[5] = levels[4] /\ binary[6] = levels[5]
        /\ binary[7] = levels[6] /\ binary[8] = levels[7]
    BY <2>2
  <2>4. Gathered(order, levels) = Number(binary, 2)
    BY <1>4, <1>6, <1>7, <2>1, <2>3
  <2> QED  BY <1>1, <1>3, <2>4
<1>9. CASE order = "LSBFIRST"
  <2>1. /\ w[1] = levels[0] /\ w[2] = 2 * levels[1] /\ w[3] = 4 * levels[2]
        /\ w[4] = 8 * levels[3] /\ w[5] = 16 * levels[4] /\ w[6] = 32 * levels[5]
        /\ w[7] = 64 * levels[6] /\ w[8] = 128 * levels[7]
    <3>1. /\ 2 ^ BitAt(order, 0) = 1 /\ 2 ^ BitAt(order, 1) = 2 /\ 2 ^ BitAt(order, 2) = 4
          /\ 2 ^ BitAt(order, 3) = 8 /\ 2 ^ BitAt(order, 4) = 16 /\ 2 ^ BitAt(order, 5) = 32
          /\ 2 ^ BitAt(order, 6) = 64 /\ 2 ^ BitAt(order, 7) = 128
      BY <1>9, PowersOfTwo DEF BitAt
    <3> QED  BY <1>7, <1>10, <3>1
  <2>2. \A k \in 1 .. 8 : binary[k] = levels[8 - k]
    BY <1>9
  <2> HIDE DEF binary
  <2>3. /\ binary[1] = levels[7] /\ binary[2] = levels[6] /\ binary[3] = levels[5]
        /\ binary[4] = levels[4] /\ binary[5] = levels[3] /\ binary[6] = levels[2]
        /\ binary[7] = levels[1] /\ binary[8] = levels[0]
    BY <2>2
  <2>4. Gathered(order, levels) = Number(binary, 2)
    BY <1>4, <1>6, <1>7, <2>1, <2>3
  <2> QED  BY <1>1, <1>3, <2>4
<1> QED  BY <1>1, <1>3, <1>8, <1>9 DEF Orders

\* What the functions return is right at the ends of their ranges too, for integers of any
\* width, every value of their arguments and every number the generator may give.
THEOREM ConversionsAreRight == ConversionsSpec => []ResultsAreRight
<1> USE DEF ResultsAreRight
<1>1. ConversionsInit => ResultsAreRight
  BY DEF ConversionsInit, DigitsReadBack, ShiftIsBinary, RandomInRange, HalvesInOrder,
         ReadingIsScaled
<1>2. ResultsAreRight /\ [ConversionsNext]_call => ResultsAreRight'
  <2> SUFFICES ASSUME ResultsAreRight, [ConversionsNext]_call  PROVE ResultsAreRight'
    OBVIOUS
  <2>1. CASE Ltoa
    BY <2>1, LtoaStep DEF ShiftIsBinary, RandomInRange, HalvesInOrder, ReadingIsScaled
  <2>2. CASE Ultoa
    BY <2>2, UltoaStep DEF ShiftIsBinary, RandomInRange, HalvesInOrder, ReadingIsScaled
  <2>3. CASE ShiftOut
    BY <2>3, ShiftOutStep DEF DigitsReadBack, RandomInRange, HalvesInOrder, ReadingIsScaled
  <2>4. CASE ShiftIn
    BY <2>4, ShiftInStep DEF DigitsReadBack, RandomInRange, HalvesInOrder, ReadingIsScaled
  <2>5. CASE Transfer16
    BY <2>5, TransferStep DEF DigitsReadBack, ShiftIsBinary, RandomInRange, ReadingIsScaled
  <2>6. CASE ScaledReading
    BY <2>6, ReadingStep DEF DigitsReadBack, ShiftIsBinary, RandomInRange, HalvesInOrder
  <2>7. CASE Random \/ RandomBetween
    BY <2>7, RandomStep DEF DigitsReadBack, ShiftIsBinary, HalvesInOrder, ReadingIsScaled
  <2>8. CASE UNCHANGED call
    BY <2>8 DEF DigitsReadBack, ShiftIsBinary, RandomInRange, HalvesInOrder, ReadingIsScaled
  <2> QED
    BY <2>1, <2>2, <2>3, <2>4, <2>5, <2>6, <2>7, <2>8 DEF ConversionsNext
<1> QED  BY <1>1, <1>2, PTL DEF ConversionsSpec
=============================================================================
