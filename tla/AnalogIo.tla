------------------------------ MODULE AnalogIo ------------------------------
(***************************************************************************)
(* analog_io.c: the tables that give pins to ADC channels and PWM objects, *)
(* and what the hardware is told.  With DigitalIo it shares the pins: each *)
(* is reserved in the hardware manager by one user, pinOwner.              *)
(*                                                                         *)
(* A call of the hardware library may fail; the functions then return.  A  *)
(* duty cycle is a fraction, <<value, greatest value>>.                    *)
(***************************************************************************)
EXTENDS DigitalIo

CONSTANTS
  AdcHowMany,        \* ADC_HOWMANY, 2
  PwmHowMany,        \* PWM_HOWMANY, 14
  WriteValues,       \* the values given to analogWrite()
  Frequencies,       \* the frequencies given to setAnalogWriteFrequency()
  DefaultFrequency,  \* PWM_FREQUENCY_HZ, 1000
  NoPin              \* not a pin

ASSUME AnalogIoAssumption ==
  /\ AdcHowMany \in Nat /\ PwmHowMany \in Nat
  /\ Frequencies \subseteq Nat \ {0} /\ DefaultFrequency \in Nat \ {0}
  /\ NoPin \notin GpioPins

VARIABLES
  adcInitialized,    \* adc_initialized
  adcChannel,        \* adc_channel: the pin of an initialised channel, or NoPin
  pwm,               \* pwm: the slots
  writeResolution,   \* desiredWriteResolution
  pwmOutput,         \* what the hardware of a slot was told last
  wanted             \* what the sketch wants of a pin; failed: a call for it failed last

adcVars == <<adcInitialized, adcChannel>>
pwmTable == <<pwm, writeResolution, pwmOutput, wanted>>
analogVars == <<gpioVars, adcVars, pwmTable>>

EmptySlot == [pin |-> NoPin, used |-> FALSE, initialized |-> FALSE,
              duty |-> <<0, 1>>, frequency |-> 0]
NoOutput == [duty |-> <<0, 1>>, frequency |-> 0]
AdcSlots == 1 .. AdcHowMany
PwmSlots == 1 .. PwmHowMany

AnalogIoInit ==
  /\ DigitalIoInit
  /\ adcInitialized = FALSE
  /\ adcChannel = [s \in AdcSlots |-> NoPin]
  /\ pwm = [s \in PwmSlots |-> EmptySlot]
  /\ writeResolution = 255
  /\ pwmOutput = [s \in PwmSlots |-> NoOutput]
  /\ wanted = [p \in GpioPins |-> [duty |-> <<0, 1>>, frequency |-> 0, failed |-> FALSE]]

-----------------------------------------------------------------------------
(* The hardware manager reserves a pin for a peripheral.                   *)

Reserve(p, user) ==
  /\ pinOwner[p] = "none"
  /\ pinOwner' = [pinOwner EXCEPT ![p] = user]
  /\ UNCHANGED <<gpioInitialized, gpioCurrent, drive, latch, touched>>

-----------------------------------------------------------------------------
(* analogRead(): the reading itself is left out.                           *)

\* The channel the search stops at: the pin's, or the first that is not initialised.
ChannelFor(p) ==
  {s \in AdcSlots : /\ adcChannel[s] \in {p, NoPin}
                    /\ \A t \in 1 .. s - 1 : adcChannel[t] \notin {p, NoPin}}

\* initialize_adc_channel() with initialize_adc(): the ADC fails to be initialised, it
\* fails to be configured or the channel does, or neither.
InitializeChannel(p, s) ==
  \/ UNCHANGED <<adcInitialized, adcChannel, gpioVars>>
  \/ adcInitialized' = TRUE /\ UNCHANGED <<adcChannel, gpioVars>>
  \/ /\ adcInitialized' = TRUE
     /\ adcChannel' = [adcChannel EXCEPT ![s] = p]
     /\ Reserve(p, "adc")

\* A pin that has a channel is only read; without a free channel nothing happens.
AnalogRead(p) ==
  /\ \E s \in ChannelFor(p) : adcChannel[s] = NoPin /\ InitializeChannel(p, s)
  /\ UNCHANGED pwmTable

-----------------------------------------------------------------------------
(* analogWrite(), analogWriteResolution(), setAnalogWriteFrequency()       *)

AnalogWriteResolution(res) ==
  /\ writeResolution' = IF res > 12 THEN 65535 ELSE IF res > 10 THEN 4095
                        ELSE IF res > 8 THEN 1023 ELSE 255
  /\ UNCHANGED <<gpioVars, adcVars, pwm, pwmOutput, wanted>>

FirstOf(slots) == {s \in slots : \A t \in slots : s <= t}

\* Mutant of PwmAlloc: the slot the pin has is not looked for.
PwmAlloc_Unused(p) == FirstOf({s \in PwmSlots : ~pwm[s].used})

\* pwm_alloc(): the slot of the pin or, if it has none, the first that is not used;
\* no slot when all are used.
PwmAlloc(p) ==
  LET own == {s \in PwmSlots : pwm[s].used /\ pwm[s].pin = p}
  IN  IF own # {} THEN FirstOf(own) ELSE FirstOf({s \in PwmSlots : ~pwm[s].used})

\* What the slot holds once it is allocated.
SlotFor(p, s) == IF pwm[s].used THEN pwm[s] ELSE [EmptySlot EXCEPT !.pin = p, !.used = TRUE]

\* The value limited to the resolution.
Limited(value) ==
  IF value <= 0 THEN 0 ELSE IF value > writeResolution THEN writeResolution ELSE value

\* cyhal_pwm_init() reserves the pin.
PwmInit(p, s) ==
  IF SlotFor(p, s).initialized THEN UNCHANGED gpioVars ELSE Reserve(p, "pwm")

\* Mutant of WrittenSlot: duty_cycle_percent is not stored.
WrittenSlot_Forgets(slot, duty) ==
  [slot EXCEPT !.initialized = TRUE, !.frequency = IF @ = 0 THEN DefaultFrequency ELSE @]

\* The slot of an analogWrite() whose cyhal_pwm_init() has not failed.
WrittenSlot(slot, duty) ==
  [slot EXCEPT !.initialized = TRUE, !.duty = duty,
               !.frequency = IF @ = 0 THEN DefaultFrequency ELSE @]

\* cyhal_pwm_init() may fail, or cyhal_pwm_set_duty_cycle(), or cyhal_pwm_start().
AnalogWrite(p, value) == \E s \in PwmAlloc(p) :
  LET duty == <<Limited(value), writeResolution>>
      slot == SlotFor(p, s)
      written == WrittenSlot(slot, duty)
      Asks(failed) == wanted' = [wanted EXCEPT ![p].duty = duty, ![p].failed = failed]
  IN  /\ \/ /\ ~slot.initialized /\ Asks(TRUE)
            /\ pwm' = [pwm EXCEPT ![s] = slot]
            /\ UNCHANGED <<pwmOutput, gpioVars>>
         \/ /\ PwmInit(p, s)
            /\ pwm' = [pwm EXCEPT ![s] = written]
            /\ \E ok \in BOOLEAN :
                 /\ Asks(~ok)
                 /\ \/ pwmOutput' = [pwmOutput EXCEPT ![s] =
                                       [duty |-> duty, frequency |-> written.frequency]]
                    \/ ~ok /\ UNCHANGED pwmOutput
      /\ UNCHANGED <<adcVars, writeResolution>>

SetAnalogWriteFrequency(p, frequency) == \E s \in PwmAlloc(p) :
  LET slot == [SlotFor(p, s) EXCEPT !.frequency = frequency]
  IN  /\ pwm' = [pwm EXCEPT ![s] = slot]
      /\ \E ok \in BOOLEAN :
           /\ slot.initialized \/ ok
           /\ wanted' = [wanted EXCEPT ![p].frequency = frequency,
                                       ![p].failed = IF slot.initialized THEN ~ok ELSE @]
           /\ pwmOutput' = IF slot.initialized /\ ok
                             THEN [pwmOutput EXCEPT ![s] =
                                     [duty |-> slot.duty, frequency |-> frequency]]
                             ELSE pwmOutput
      /\ UNCHANGED <<gpioVars, adcVars, writeResolution>>

-----------------------------------------------------------------------------

AnalogIoNext ==
  \/ DigitalIoNext /\ UNCHANGED <<adcVars, pwmTable>>
  \/ \E res \in {8, 10} : AnalogWriteResolution(res)
  \/ \E p \in GpioPins :
       \/ AnalogRead(p)
       \/ \E value \in WriteValues : AnalogWrite(p, value)
       \/ \E frequency \in Frequencies : SetAnalogWriteFrequency(p, frequency)

AnalogIoSpec == AnalogIoInit /\ [][AnalogIoNext]_analogVars

-----------------------------------------------------------------------------
(* Properties.                                                             *)

UsedPwm == {s \in PwmSlots : pwm[s].used}

AnalogIoTypeOK ==
  /\ DigitalIoTypeOK
  /\ adcInitialized \in BOOLEAN
  /\ adcChannel \in [AdcSlots -> GpioPins \cup {NoPin}]
  /\ \A s \in PwmSlots : /\ DOMAIN pwm[s] = DOMAIN EmptySlot
                           /\ IF pwm[s].used THEN pwm[s].pin \in GpioPins
                              ELSE pwm[s] = EmptySlot

\* A pin has one PWM slot and one ADC channel at most, and what is initialised for it
\* is reserved for it, unless pinMode() was called on the pin: no call finds another
\* object than the one the last call for the pin has set up.
SlotPerPin ==
  /\ \A s, t \in UsedPwm : pwm[s].pin = pwm[t].pin => s = t
  /\ \A s, t \in AdcSlots : adcChannel[s] = adcChannel[t] /\ adcChannel[s] # NoPin => s = t
  /\ \A s \in UsedPwm : pwm[s].initialized =>
       pinOwner[pwm[s].pin] = "pwm" \/ gpioInitialized[pwm[s].pin]
  /\ \A s \in AdcSlots : adcChannel[s] # NoPin =>
       pinOwner[adcChannel[s]] = "adc" \/ gpioInitialized[adcChannel[s]]

\* A PWM output has the last duty cycle and the last frequency asked for, or the
\* default one, in whatever order they, the resolution and failures came, unless the
\* last call itself has failed.
PwmFollows == \A s \in UsedPwm :
  LET want == wanted[pwm[s].pin]
  IN  pwm[s].initialized /\ ~want.failed =>
        pwmOutput[s] = [duty |-> want.duty,
                        frequency |-> IF want.frequency = 0 THEN DefaultFrequency
                                      ELSE want.frequency]
=============================================================================
