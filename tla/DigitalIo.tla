------------------------------ MODULE DigitalIo -----------------------------
(***************************************************************************)
(* digital_io.c: pinMode(), digitalRead() and digitalWrite().  pinMode()   *)
(* decides by a remembered value of the pin whether it must be initialised *)
(* again, and digitalRead() overwrites that value with what it reads.      *)
(*                                                                         *)
(* The hardware manager gives a pin to one user at a time: pinOwner.       *)
(***************************************************************************)
EXTENDS Naturals

CONSTANTS
  GpioPins,   \* the pins, all of them below GPIO_PIN_COUNT
  PinModes    \* the modes given to pinMode()

ASSUME DigitalIoAssumption ==
  PinModes \subseteq {"INPUT", "INPUT_PULLUP", "INPUT_PULLDOWN", "OUTPUT", "OUTPUT_OPENDRAIN"}

VARIABLES
  gpioInitialized,   \* gpio_initialized
  gpioCurrent,       \* gpio_current_value
  drive,             \* direction and drive mode of the pin, named by the mode that sets them
  latch,             \* the level of the pin's output register
  pinOwner,          \* who has reserved the pin: "none", "gpio", "pwm" or "adc"
  touched            \* what came after pinMode(): "no", "written", or "misread",
                     \* a digitalRead() that differed from latch

gpioVars == <<gpioInitialized, gpioCurrent, drive, latch, pinOwner, touched>>

DigitalIoInit ==
  /\ gpioInitialized = [p \in GpioPins |-> FALSE]
  /\ gpioCurrent = [p \in GpioPins |-> FALSE]
  /\ drive = [p \in GpioPins |-> "INPUT"]
  /\ latch = [p \in GpioPins |-> FALSE]
  /\ pinOwner = [p \in GpioPins |-> "none"]
  /\ touched = [p \in GpioPins |-> "no"]

\* gpio_init_value
InitialLevel(mode) == mode = "INPUT_PULLUP"

\* cyhal_gpio_init(), which fails when the pin is reserved.
GpioInit(p, mode, owner) ==
  IF owner = "none"
    THEN /\ drive' = [drive EXCEPT ![p] = mode]
         /\ latch' = [latch EXCEPT ![p] = InitialLevel(mode)]
         /\ pinOwner' = [pinOwner EXCEPT ![p] = "gpio"]
         /\ touched' = [touched EXCEPT ![p] = "no"]
    ELSE UNCHANGED <<drive, latch, pinOwner, touched>>

\* Mutant of PinMode: a pin in use is only configured.
PinMode_Configure(p, mode) ==
  LET same == gpioInitialized[p]
  IN  /\ gpioInitialized' = [gpioInitialized EXCEPT ![p] = TRUE]
      /\ gpioCurrent' = [gpioCurrent EXCEPT ![p] = InitialLevel(mode)]
      /\ IF same
           THEN /\ drive' = [drive EXCEPT ![p] = mode]
                /\ touched' = [touched EXCEPT ![p] = IF @ = "misread" THEN @ ELSE "no"]
                /\ UNCHANGED <<latch, pinOwner>>
           ELSE GpioInit(p, mode, pinOwner[p])

\* cyhal_gpio_free() gives the pin back, whoever has reserved it.
PinMode(p, mode) ==
  LET same == gpioInitialized[p] /\ gpioCurrent[p] = InitialLevel(mode)
  IN  /\ gpioInitialized' = [gpioInitialized EXCEPT ![p] = TRUE]
      /\ gpioCurrent' = [gpioCurrent EXCEPT ![p] = InitialLevel(mode)]
      /\ IF same
           THEN /\ drive' = [drive EXCEPT ![p] = mode]
                /\ touched' = [touched EXCEPT ![p] = IF @ = "misread" THEN @ ELSE "no"]
                /\ UNCHANGED <<latch, pinOwner>>
           ELSE GpioInit(p, mode, IF gpioInitialized[p] THEN "none" ELSE pinOwner[p])

\* An output has the level of its register; what another pin has, others decide.
DigitalRead(p) == \E level \in BOOLEAN :
  /\ pinOwner[p] = "gpio" /\ drive[p] = "OUTPUT" => level = latch[p]
  /\ gpioCurrent' = [gpioCurrent EXCEPT ![p] = level]
  /\ touched' = [touched EXCEPT ![p] = IF level # latch[p] THEN "misread" ELSE @]
  /\ UNCHANGED <<gpioInitialized, drive, latch, pinOwner>>

DigitalWrite(p, status) ==
  /\ latch' = [latch EXCEPT ![p] = status]
  /\ gpioCurrent' = [gpioCurrent EXCEPT ![p] = status]
  /\ touched' = [touched EXCEPT ![p] = "written"]
  /\ UNCHANGED <<gpioInitialized, drive, pinOwner>>

DigitalIoNext == \E p \in GpioPins :
  \/ \E mode \in PinModes : PinMode(p, mode)
  \/ DigitalRead(p)
  \/ \E status \in BOOLEAN : DigitalWrite(p, status)

DigitalIoSpec == DigitalIoInit /\ [][DigitalIoNext]_gpioVars

-----------------------------------------------------------------------------
(* Properties.                                                             *)

DigitalIoTypeOK ==
  /\ gpioInitialized \in [GpioPins -> BOOLEAN] /\ gpioCurrent \in [GpioPins -> BOOLEAN]
  /\ drive \in [GpioPins -> PinModes \cup {"INPUT"}] /\ latch \in [GpioPins -> BOOLEAN]
  /\ pinOwner \in [GpioPins -> {"none", "gpio", "pwm", "adc"}]
  /\ touched \in [GpioPins -> {"no", "written", "misread"}]

\* After pinMode() a pin has the level of its mode, the pull-up on for INPUT_PULLUP and
\* off otherwise, whatever modes and values it had before; but not when a digitalRead()
\* has put a level from outside into the value pinMode() decides by.
ModeSetsLevel == \A p \in GpioPins :
  pinOwner[p] = "gpio" /\ touched[p] = "no" => latch[p] = InitialLevel(drive[p])
=============================================================================
