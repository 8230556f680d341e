-------------------------------- MODULE Tone --------------------------------
(***************************************************************************)
(* Tone.cpp: one PWM object plays the tone, one timer ends it.  tone() and *)
(* noTone() are split at their calls of the hardware library (HAL), since  *)
(* the timer's interrupt comes between any two of them and stops the tone. *)
(*                                                                         *)
(* A call of the HAL may fail, and the program then exits (assertResult).  *)
(* Used on an object that is not allocated it fails or does nothing.       *)
(***************************************************************************)
EXTENDS Naturals

CONSTANTS
  TonePins,      \* the pins of tone()
  MaxToneCalls   \* bound: the calls of tone()

ASSUME ToneAssumption == MaxToneCalls \in Nat

VARIABLES
  pwmHal,             \* pwmObj: "free", "init" or "on"
  initialized,
  tonePin,            \* pin
  timerHal,           \* timerObj: "free", "init" or "running"
  timerInitialized,
  tonePc,             \* where the sketch is, in play() or stop()
  request,            \* the arguments of the last tone() that was not refused
  exited,             \* exit() was called
  ownTimer,           \* startTimer() has started the timer for that request
  toneCalls           \* how many calls of tone() there were

toneVars == <<pwmHal, initialized, tonePin, timerHal, timerInitialized, tonePc,
              request, exited, ownTimer, toneCalls>>
pwmVars == <<pwmHal, initialized, tonePin>>
timerVars == <<timerHal, timerInitialized, ownTimer>>

ToneInit ==
  /\ pwmHal = "free" /\ initialized = FALSE /\ tonePin \in TonePins
  /\ timerHal = "free" /\ timerInitialized = FALSE /\ ownTimer = FALSE
  /\ tonePc = "idle" /\ exited = FALSE /\ toneCalls = 0
  /\ request = [pin |-> tonePin, timed |-> FALSE]

-----------------------------------------------------------------------------

\* A call at this place fails; the program exits.
Fail(place) ==
  /\ tonePc = place /\ ~exited
  /\ exited' = TRUE
  /\ UNCHANGED <<pwmVars, timerVars, tonePc, request, toneCalls>>

\* It succeeds, and the sketch is at the next place.
Goes(place, next) ==
  /\ tonePc = place /\ ~exited
  /\ tonePc' = next
  /\ UNCHANGED <<exited, toneCalls>>

\* tone(): a tone on another pin goes on.
Play == \E p \in TonePins, timed \in BOOLEAN :
  /\ tonePc = "idle" /\ ~exited /\ toneCalls < MaxToneCalls
  /\ toneCalls' = toneCalls + 1
  /\ IF initialized /\ p # tonePin THEN UNCHANGED <<tonePc, request, ownTimer>>
     ELSE /\ tonePc' = "play"
          /\ request' = [pin |-> p, timed |-> timed]
          /\ ownTimer' = FALSE
  /\ UNCHANGED <<pwmVars, timerHal, timerInitialized, exited>>

PlayAgain ==
  /\ initialized
  /\ Goes("play", "duty")
  /\ UNCHANGED <<pwmVars, timerVars, request>>

InitializePwm ==
  /\ ~initialized /\ pwmHal = "free"
  /\ Goes("play", "initialized")
  /\ pwmHal' = "init"
  /\ UNCHANGED <<initialized, tonePin, timerVars, request>>

SetInitialized ==
  /\ Goes("initialized", "start")
  /\ tonePin' = request.pin /\ initialized' = TRUE
  /\ UNCHANGED <<pwmHal, timerVars, request>>

StartPwm ==
  /\ Goes("start", "duty")
  /\ pwmHal' = IF pwmHal = "free" THEN "free" ELSE "on"
  /\ UNCHANGED <<initialized, tonePin, timerVars, request>>

SetDutyCycle ==
  /\ Goes("duty", IF request.timed THEN "timer" ELSE "idle")
  /\ UNCHANGED <<pwmVars, timerVars, request>>

\* Mutant of InitTimer: a timer in use is left as it is.
InitTimer_Once ==
  /\ Goes("timer", IF timerInitialized THEN "idle" ELSE "configure")
  /\ IF timerInitialized THEN UNCHANGED timerHal ELSE timerHal' = "init"
  /\ timerInitialized' = TRUE
  /\ UNCHANGED <<pwmVars, ownTimer, request>>

InitTimer ==
  /\ Goes("timer", "configure")
  /\ IF timerInitialized THEN UNCHANGED timerHal ELSE timerHal = "free" /\ timerHal' = "init"
  /\ timerInitialized' = TRUE
  /\ UNCHANGED <<pwmVars, ownTimer, request>>

ConfigureTimer ==
  /\ Goes("configure", "startTimer")
  /\ timerHal' = IF timerHal = "free" THEN "free" ELSE "init"
  /\ UNCHANGED <<pwmVars, timerInitialized, ownTimer, request>>

StartTimer ==
  /\ Goes("startTimer", "idle")
  /\ timerHal' = IF timerHal = "free" THEN "free" ELSE "running"
  /\ ownTimer' = TRUE
  /\ UNCHANGED <<pwmVars, timerInitialized, request>>

-----------------------------------------------------------------------------

\* noTone(), whatever its pin; without a tone stop() does nothing.
NoTone ==
  /\ initialized
  /\ Goes("idle", "stop")
  /\ UNCHANGED <<pwmVars, timerVars, request>>

StopPwm ==
  /\ Goes("stop", "free")
  /\ pwmHal' = IF pwmHal = "free" THEN "free" ELSE "init"
  /\ UNCHANGED <<initialized, tonePin, timerVars, request>>

FreePwm ==
  /\ Goes("free", "stopped")
  /\ pwmHal' = "free"
  /\ UNCHANGED <<initialized, tonePin, timerVars, request>>

Stopped ==
  /\ Goes("stopped", "idle")
  /\ initialized' = FALSE
  /\ UNCHANGED <<pwmHal, tonePin, timerVars, request>>

\* Mutant of HandleTimerEvent: the tone goes on.
HandleTimerEvent_Plays ==
  /\ timerHal = "running" /\ ~exited
  /\ timerHal' = "free" /\ timerInitialized' = FALSE
  /\ UNCHANGED <<pwmVars, exited, ownTimer, tonePc, request, toneCalls>>

\* The interrupt of the timer; the stop() in it may exit too.
HandleTimerEvent ==
  /\ timerHal = "running" /\ ~exited
  /\ timerHal' = "free" /\ timerInitialized' = FALSE
  /\ \/ /\ initialized' = FALSE
        /\ pwmHal' = IF initialized THEN "free" ELSE pwmHal
        /\ UNCHANGED exited
     \/ initialized /\ exited' = TRUE /\ UNCHANGED <<initialized, pwmHal>>
  /\ UNCHANGED <<tonePin, ownTimer, tonePc, request, toneCalls>>

-----------------------------------------------------------------------------

ToneStep ==
  \/ PlayAgain \/ InitializePwm \/ SetInitialized \/ StartPwm \/ SetDutyCycle
  \/ InitTimer \/ ConfigureTimer \/ StartTimer
  \/ StopPwm \/ FreePwm \/ Stopped

ToneFails ==
  \/ ~initialized /\ Fail("play")
  \/ ~timerInitialized /\ Fail("timer")
  \/ \E place \in {"start", "duty", "configure", "startTimer", "stop"} : Fail(place)

ToneNext == Play \/ NoTone \/ ToneStep \/ ToneFails \/ HandleTimerEvent

\* A call goes on, and a running timer runs out.
ToneFairness == WF_toneVars(ToneStep) /\ WF_toneVars(HandleTimerEvent)

ToneSpec == ToneInit /\ [][ToneNext]_toneVars /\ ToneFairness

-----------------------------------------------------------------------------
(* Properties.                                                             *)

ToneTypeOK ==
  /\ pwmHal \in {"free", "init", "on"} /\ initialized \in BOOLEAN /\ tonePin \in TonePins
  /\ timerHal \in {"free", "init", "running"} /\ timerInitialized \in BOOLEAN
  /\ tonePc \in {"idle", "play", "initialized", "start", "duty", "timer", "configure",
                 "startTimer", "stop", "free", "stopped"}
  /\ request \in [pin : TonePins, timed : BOOLEAN]
  /\ exited \in BOOLEAN /\ ownTimer \in BOOLEAN /\ toneCalls \in Nat

Playing == tonePc = "idle" /\ ~exited /\ initialized

\* Between two calls, wherever the timer's interrupt came, the flags tell which objects
\* are allocated, so that nothing is leaked or allocated twice; and a tone with a
\* duration has a timer running that was started for it, not one of an earlier tone,
\* although noTone() leaves that one running.  A tone without a duration may meet it.
ToneAgrees ==
  /\ tonePc = "idle" /\ ~exited =>
       (initialized <=> pwmHal # "free") /\ (timerInitialized <=> timerHal # "free")
  /\ Playing /\ request.timed => timerHal = "running" /\ ownTimer

\* A tone with a duration ends, unless a call of the HAL fails.
TimedToneEnds == (Playing /\ request.timed) ~> (~initialized \/ exited \/ ~request.timed)
=============================================================================
