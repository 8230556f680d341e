------------------------- MODULE ExternalInterrupts -------------------------
(***************************************************************************)
(* interrupts.c: the pins share one structure for the callback.            *)
(* attachInterrupt() and detachInterrupt() are split at their calls of the *)
(* hardware library, because an edge may come between them; what it would  *)
(* run is a function of the state, Runs.  Pin numbers are valid ones.      *)
(***************************************************************************)
EXTENDS Naturals

CONSTANTS
  InterruptPins,
  Callbacks,
  NoCallback

ASSUME ExternalInterruptsAssumption == NoCallback \notin Callbacks

VARIABLES
  gpioCallback,   \* gpio_callback_data.callback
  registered,     \* the pins registered with the structure
  pinEvents,      \* the edges at which a pin interrupts
  intPc,          \* the next line of attachInterrupt() or detachInterrupt()
  attaching,      \* the arguments of the call
  latest          \* the last callback that was attached and is not detached

intVars == <<gpioCallback, registered, pinEvents, intPc, attaching, latest>>

Modes == {"CHANGE", "RISING", "HIGH", "FALLING", "LOW", "other"}
NothingAttached(p) == [pin |-> p, callback |-> NoCallback, mode |-> "other"]

ExternalInterruptsInit ==
  /\ gpioCallback = NoCallback /\ registered = {}
  /\ pinEvents = [p \in InterruptPins |-> {}]
  /\ intPc = "idle"
  /\ \E p \in InterruptPins : attaching = NothingAttached(p) /\ latest = NothingAttached(p)

\* The switch of attachInterrupt(): levels are taken for edges.
EventOf(mode) ==
  CASE mode = "CHANGE" -> {"rise", "fall"}
    [] mode \in {"RISING", "HIGH"} -> {"rise"}
    [] mode \in {"FALLING", "LOW"} -> {"fall"}
    [] OTHER -> {}

AttachInterrupt == \E p \in InterruptPins, f \in Callbacks, m \in Modes :
  /\ intPc = "idle" /\ intPc' = "store"
  /\ attaching' = [pin |-> p, callback |-> f, mode |-> m]
  /\ UNCHANGED <<gpioCallback, registered, pinEvents, latest>>

\* Mutant of StoreCallback: the structure is filled in once.
StoreCallback_Once ==
  /\ intPc = "store" /\ intPc' = "register"
  /\ gpioCallback' = IF registered = {} THEN attaching.callback ELSE gpioCallback
  /\ latest' = attaching
  /\ UNCHANGED <<registered, pinEvents, attaching>>

StoreCallback ==
  /\ intPc = "store" /\ intPc' = "register"
  /\ gpioCallback' = attaching.callback
  /\ latest' = attaching
  /\ UNCHANGED <<registered, pinEvents, attaching>>

RegisterCallback ==
  /\ intPc = "register" /\ intPc' = "enable"
  /\ registered' = registered \cup {attaching.pin}
  /\ UNCHANGED <<gpioCallback, pinEvents, attaching, latest>>

EnableEvent ==
  /\ intPc = "enable" /\ intPc' = "idle"
  /\ pinEvents' = [pinEvents EXCEPT ![attaching.pin] = EventOf(attaching.mode)]
  /\ UNCHANGED <<gpioCallback, registered, attaching, latest>>

DetachInterrupt == \E p \in InterruptPins :
  /\ intPc = "idle" /\ intPc' = "unregister"
  /\ attaching' = NothingAttached(p)
  /\ pinEvents' = [pinEvents EXCEPT ![p] = {}]
  /\ latest' = IF latest.pin = p THEN NothingAttached(p) ELSE latest
  /\ UNCHANGED <<gpioCallback, registered>>

Unregister ==
  /\ intPc = "unregister" /\ intPc' = "idle"
  /\ registered' = registered \ {attaching.pin}
  /\ UNCHANGED <<gpioCallback, pinEvents, attaching, latest>>

ExternalInterruptsNext ==
  \/ AttachInterrupt \/ StoreCallback \/ RegisterCallback \/ EnableEvent
  \/ DetachInterrupt \/ Unregister

ExternalInterruptsSpec == ExternalInterruptsInit /\ [][ExternalInterruptsNext]_intVars

\* What an edge on a pin runs.
Runs(p, edge) ==
  IF p \in registered /\ edge \in pinEvents[p] THEN gpioCallback ELSE NoCallback

-----------------------------------------------------------------------------
(* Properties.                                                             *)

ExternalInterruptsTypeOK ==
  /\ gpioCallback \in Callbacks \cup {NoCallback} /\ registered \subseteq InterruptPins
  /\ pinEvents \in [InterruptPins -> SUBSET {"rise", "fall"}]
  /\ intPc \in {"idle", "store", "register", "enable", "unregister"}
  /\ {attaching, latest} \subseteq
       [pin : InterruptPins, callback : Callbacks \cup {NoCallback}, mode : Modes]

\* An edge on the pin last attached never runs the callback of another pin, nor the
\* one it had before, also in the middle of attachInterrupt() and after pins were
\* detached; when the call has returned it runs at the edges of its mode, and only
\* there.  A pin attached earlier may meet the later one's callback.
OwnCallback == \A edge \in {"rise", "fall"} :
  /\ Runs(latest.pin, edge) \in {latest.callback, NoCallback}
  /\ intPc = "idle" => (Runs(latest.pin, edge) = latest.callback
                          <=> edge \in EventOf(latest.mode) \/ latest.callback = NoCallback)
=============================================================================
