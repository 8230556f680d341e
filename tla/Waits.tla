-------------------------------- MODULE Waits -------------------------------
(***************************************************************************)
(* The functions that wait for the microsecond timer: delay() and          *)
(* delayMicroseconds() of time.c, and pulseIn() of Pulse.cpp, which counts *)
(* with a timer of its own.  The timer is 32 bits wide, counts up and wraps*)
(* around; so does the arithmetic of unsigned longs.                       *)
(*                                                                         *)
(* A turn of a loop, with its reading of the pin and of the timer, is a    *)
(* step, and takes 1 to MaxTurn microseconds: the other threads and the    *)
(* interrupts may take the processor away.                                 *)
(***************************************************************************)
EXTENDS Integers

CONSTANTS
  TimerCount,       \* 2^32, the values of the timer
  MicrosPerMilli,   \* MILLISECONDS_PER_SECOND, 1000
  MaxTurn,          \* bound: the microseconds a turn takes
  MaxElapsed,       \* bound: the microseconds counted for a call
  Delays,           \* the arguments of delay()
  MicroDelays,      \* the arguments of delayMicroseconds()
  Timeouts          \* the timeout arguments of pulseIn()

ASSUME WaitsAssumption ==
  /\ TimerCount \in Nat \ {0} /\ MicrosPerMilli \in Nat \ {0}
  /\ MaxTurn \in 1 .. TimerCount - 1
  /\ MaxElapsed \in Nat /\ TimerCount <= MaxElapsed
  /\ Delays \cup MicroDelays \cup Timeouts \subseteq 0 .. TimerCount - 1

VARIABLES
  timer,     \* the counter of the timer in use
  at,        \* where the sketch is, by the function it waits in
  limit,     \* ms, us or timeoutMicros
  start,     \* start, startMicros
  pulseAt,   \* pulseStart
  result,    \* what pulseIn() returned; -1 for a time-out
  elapsed,   \* microseconds since start was read, up to MaxElapsed
  seen,      \* elapsed when the pulse was first seen
  wrapped    \* the timer has wrapped around since

waitVars == <<timer, at, limit, start, pulseAt, result, elapsed, seen, wrapped>>

WaitsInit ==
  /\ timer \in 0 .. TimerCount - 1
  /\ at = "idle"
  /\ limit = 0 /\ start = 0 /\ pulseAt = 0 /\ result = 0
  /\ elapsed = 0 /\ seen = 0 /\ wrapped = FALSE

\* Time goes on.
Pass(n) ==
  /\ timer' = (timer + n) % TimerCount
  /\ elapsed' = IF elapsed + n > MaxElapsed THEN MaxElapsed ELSE elapsed + n
  /\ wrapped' = (wrapped \/ timer + n >= TimerCount)

\* millis(): the counter is divided, and so wraps around at another value.
Millis(counter) == counter \div MicrosPerMilli

\* Mutant of Since: a later time always is the larger number.
Since_NoWrap(now, then) == IF now >= then THEN now - then ELSE 0

\* The difference of two unsigned longs.
Since(now, then) == (now - then) % TimerCount

-----------------------------------------------------------------------------
(* time.c                                                                  *)

Call(place, args, first) ==
  /\ at = "idle"
  /\ at' = place
  /\ limit' \in args
  /\ start' = first
  /\ UNCHANGED <<timer, pulseAt, result, elapsed, seen, wrapped>>

Delay == Call("delay", Delays, Millis(timer))

DelayMicroseconds == Call("delayMicroseconds", MicroDelays, timer)

DelayTurn == \E n \in 1 .. MaxTurn :
  /\ at = "delay"
  /\ Pass(n)
  /\ at' = IF Since(Millis(timer'), start) < limit THEN at ELSE "delayed"
  /\ UNCHANGED <<limit, start, pulseAt, result, seen>>

DelayMicrosecondsTurn == \E n \in 1 .. MaxTurn :
  /\ at = "delayMicroseconds"
  /\ Pass(n)
  /\ at' = IF Since(timer', start) < limit THEN at ELSE "delayedMicroseconds"
  /\ UNCHANGED <<limit, start, pulseAt, result, seen>>

-----------------------------------------------------------------------------
(* Pulse.cpp                                                               *)

\* initTimer() sets the timer of pulseIn() to 0, or fails; startMicros is read.
PulseIn ==
  /\ at = "idle"
  /\ limit' \in Timeouts
  /\ \/ /\ at' = "waitPulse"
        /\ timer' \in 0 .. MaxTurn
        /\ start' = timer'
     \/ /\ at' = "noTimer"
        /\ UNCHANGED <<timer, start>>
  /\ UNCHANGED <<pulseAt, result, elapsed, seen, wrapped>>

\* waitForPinState(), a turn in which the pin has not the desired state.
PinDiffers(place) == \E n \in 1 .. MaxTurn :
  /\ at = place
  /\ Pass(n)
  /\ IF Since(timer', start) > limit THEN at' = "pulseDone" /\ result' = -1
     ELSE UNCHANGED <<at, result>>
  /\ UNCHANGED <<limit, start, pulseAt, seen>>

\* Mutant of PulseBegins: the end of the pulse has a time-out of its own.
PulseBegins_Restart == \E n \in 1 .. MaxTurn :
  /\ at = "waitPulse"
  /\ Pass(n)
  /\ pulseAt' = timer'
  /\ start' = timer'
  /\ seen' = elapsed'
  /\ at' = "waitEnd"
  /\ UNCHANGED <<limit, result>>

\* ... and the one in which it has.
PulseBegins == \E n \in 1 .. MaxTurn :
  /\ at = "waitPulse"
  /\ Pass(n)
  /\ pulseAt' = timer'
  /\ seen' = elapsed'
  /\ at' = "waitEnd"
  /\ UNCHANGED <<limit, start, result>>

PulseEnds == \E n \in 1 .. MaxTurn :
  /\ at = "waitEnd"
  /\ Pass(n)
  /\ result' = Since(timer', pulseAt)
  /\ at' = "pulseDone"
  /\ UNCHANGED <<limit, start, pulseAt, seen>>

-----------------------------------------------------------------------------

Turn ==
  \/ DelayTurn
  \/ DelayMicrosecondsTurn
  \/ PinDiffers("waitPulse")
  \/ PulseBegins
  \/ PinDiffers("waitEnd")
  \/ PulseEnds

WaitsNext == Delay \/ DelayMicroseconds \/ PulseIn \/ Turn

WaitsSpec == WaitsInit /\ [][WaitsNext]_waitVars

\* A loop goes on.
FairWaitsSpec == WaitsSpec /\ WF_waitVars(Turn)

-----------------------------------------------------------------------------
(* Properties.                                                             *)

\* delayMicroseconds() lasts as long as it is told to, across the wrap-around of
\* the timer too; delay() at most a millisecond less, when the timer has not
\* wrapped around meanwhile.
DelayIsKept ==
  /\ at = "delayedMicroseconds" => elapsed >= limit
  /\ at = "delayed" /\ ~wrapped => elapsed > (limit - 1) * MicrosPerMilli

\* pulseIn() measures the time between its sights of the pulse's ends, waits for
\* both together no longer than the time-out and two turns, and gives up no earlier.
PulseInTime ==
  at = "pulseDone" /\ limit + 2 * MaxTurn < TimerCount =>
    /\ elapsed <= limit + 2 * MaxTurn
    /\ IF result = -1 THEN elapsed > limit ELSE result = elapsed - seen

\* Every wait takes the time it should.
WaitsAreKept == DelayIsKept /\ PulseInTime

\* A loop ends, if what it waits for fits the timer with a turn to spare: no turn
\* can then be so long that the moment is missed.
InDelay == at = "delay" /\ (limit + 1) * MicrosPerMilli + MaxTurn <= TimerCount
InMicros == at = "delayMicroseconds" /\ limit + MaxTurn <= TimerCount
InPulse == at \in {"waitPulse", "waitEnd"} /\ limit + MaxTurn < TimerCount

WaitEnds ==
  /\ InDelay ~> at = "delayed"
  /\ InMicros ~> at = "delayedMicroseconds"
  /\ InPulse ~> at = "pulseDone"
=============================================================================
