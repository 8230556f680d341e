----------------------------- MODULE WiFiClient -----------------------------
(***************************************************************************)
(* WiFiClient::connect() and stop() with the client's two callbacks        *)
(* (libraries/WiFi/src/WiFiClient.cpp, connect() and setOptCallback() of   *)
(* SecSocket.cpp), under the sketch WiFiWebClient.ino: it connects once,   *)
(* polls connected(), and stops the client when that is false.             *)
(*                                                                         *)
(* The worker thread of the secure sockets library runs the callbacks:     *)
(* the disconnection callback ends the socket, beside whatever the sketch  *)
(* does with it.  What is received is the subject of SocketRx; here only   *)
(* matters that a receive callback may find nothing to receive.            *)
(***************************************************************************)
EXTENDS SecSocket

CONSTANTS
  Sketch, Worker,  \* the two threads
  Client,          \* the client's Socket object
  MaxSpurious      \* bound: receive callbacks that find nothing

ASSUME WiFiClientAssumption ==
  /\ Threads = {Sketch, Worker} /\ Sketch # Worker
  /\ Sockets = {Client}
  /\ MaxSpurious \in Nat

VARIABLES
  spc,         \* where the sketch is
  registered,  \* the callbacks the library has registered
  peer,        \* the other end: "none", "open", "closed"
  event,       \* a disconnection waits for the worker
  overtaken,   \* the disconnection callback began before connect() was done
  spurious     \* receive callbacks that found nothing

clientVars == <<spc, registered, peer, event, overtaken, spurious>>
vars == <<socketVars, reuse, clientVars>>

Callbacks == {"receive", "disconnection"}

Init ==
  /\ SocketInit
  /\ spc = "setup"
  /\ registered = {}
  /\ peer = "none"
  /\ event = FALSE
  /\ overtaken = FALSE
  /\ spurious = 0

-----------------------------------------------------------------------------
(* The sketch: setup() and loop().                                         *)

\* connect() begins with socket->begin() ...
Connect ==
  /\ spc = "setup"
  /\ Call(Sketch, Client, "begin")
  /\ spc' = "begin"
  /\ UNCHANGED <<handle, status, stack, count, initialized, up, loaded, leaks,
                 registered, peer, event, overtaken, spurious>>

\* ... registers the callbacks, whatever that gave ...
SetOptCallbacks ==
  /\ spc = "begin" /\ At(Sketch, "idle")
  /\ \E ok \in SUBSET Callbacks :
       /\ ok # {} => IsOpen(handle[Client])
       /\ registered' = ok
       /\ IF ok = Callbacks THEN UNCHANGED status ELSE SetStatus(Client, "ERROR")
  /\ spc' = "connect"
  /\ UNCHANGED <<handle, stack, count, initialized, up, threadVars, leaks, peer, event,
                 overtaken, spurious>>

\* ... and blocks in cy_socket_connect (the name of a host is looked up
\* before, which may fail as well) ...
SocketConnect ==
  /\ spc = "connect"
  /\ \/ /\ IsOpen(handle[Client])
        /\ peer' = "open"
        /\ spc' = "connected"
        /\ UNCHANGED status
     \/ /\ SetStatus(Client, "ERROR")
        /\ spc' = "loop"
        /\ UNCHANGED peer
  /\ UNCHANGED <<handle, stack, count, initialized, up, threadVars, leaks, registered,
                 event, overtaken, spurious>>

\* ... after which the status is set.
ConnectDone ==
  /\ spc = "connected"
  /\ SetStatus(Client, "CONNECTED")
  /\ spc' = "loop"
  /\ UNCHANGED <<handle, stack, count, initialized, up, threadVars, leaks, registered,
                 peer, event, overtaken, spurious>>

\* Mutant of LoopConnected: the test is for a socket that is gone for good.
LoopConnected_Deleted ==
  /\ spc = "loop"
  /\ status[Client] = "DELETED"
  /\ Call(Sketch, Client, "end")
  /\ spc' = "stop"
  /\ UNCHANGED <<handle, status, stack, count, initialized, up, loaded, leaks,
                 registered, peer, event, overtaken, spurious>>

\* loop(): stop() once connected() is false.
LoopConnected ==
  /\ spc = "loop"
  /\ status[Client] # "CONNECTED"
  /\ Call(Sketch, Client, "end")
  /\ spc' = "stop"
  /\ UNCHANGED <<handle, status, stack, count, initialized, up, loaded, leaks,
                 registered, peer, event, overtaken, spurious>>

\* stop() has returned: "Do nothing forever".
StopDone ==
  /\ spc = "stop" /\ At(Sketch, "idle")
  /\ spc' = "done"
  /\ UNCHANGED <<socketVars, registered, peer, event, overtaken, spurious>>

-----------------------------------------------------------------------------
(* The other end, and the worker.                                          *)

PeerClose ==
  /\ peer = "open"
  /\ peer' = "closed"
  /\ event' = ("disconnection" \in registered)
  /\ UNCHANGED <<socketVars, spc, registered, overtaken, spurious>>

\* disconnectionCallback(): stop().
DisconnectionCallback ==
  /\ event
  /\ event' = FALSE
  /\ Call(Worker, Client, "end")
  /\ overtaken' = (spc = "connected")
  /\ UNCHANGED <<handle, status, stack, count, initialized, up, loaded, leaks, spc,
                 registered, peer, spurious>>

\* receiveCallback() of an event whose bytes are taken already.
ReceiveCallbackFails ==
  /\ "receive" \in registered /\ peer # "none" /\ At(Worker, "idle")
  /\ spurious < MaxSpurious
  /\ spurious' = spurious + 1
  /\ SetStatus(Client, "ERROR")
  /\ UNCHANGED <<handle, stack, count, initialized, up, threadVars, leaks, spc,
                 registered, peer, event, overtaken>>

-----------------------------------------------------------------------------

SketchStep ==
  /\ \/ MethodStep(Sketch) /\ UNCHANGED clientVars
     \/ Connect
     \/ SetOptCallbacks
     \/ SocketConnect
     \/ ConnectDone
     \/ LoopConnected
     \/ StopDone
  /\ UNCHANGED reuse

CallbackStep ==
  /\ \/ MethodStep(Worker) /\ UNCHANGED clientVars
     \/ DisconnectionCallback
  /\ UNCHANGED reuse

Next ==
  \/ SketchStep
  \/ CallbackStep
  \/ (PeerClose \/ ReceiveCallbackFails) /\ UNCHANGED reuse

Spec == Init /\ [][Next]_vars

\* Both threads are scheduled; the peer may never close, and no receive
\* callback need fail.
FairSpec == Spec /\ WF_vars(SketchStep) /\ WF_vars(CallbackStep)

-----------------------------------------------------------------------------
(* Properties.                                                             *)

TypeOK ==
  /\ SocketTypeOK
  /\ spc \in {"setup", "begin", "connect", "connected", "loop", "stop", "done"}
  /\ registered \subseteq Callbacks
  /\ peer \in {"none", "open", "closed"}
  /\ event \in BOOLEAN /\ overtaken \in BOOLEAN
  /\ spurious \in 0 .. MaxSpurious

\* The client looks connected only while its handle is open: not while the
\* worker deletes it, nor after.  (Unless the disconnection callback overtook
\* connect(), whose last assignment makes a deleted socket look connected.)
ConnectedIsOpen ==
  status[Client] = "CONNECTED" => IsOpen(handle[Client]) \/ overtaken

\* stop() by the sketch and by the disconnection callback may meet on the same
\* socket at any point: it is taken from the count once.
EndedOnce == count \in 0 .. 1 /\ CountIsExact

\* When the peer has closed, a sketch that polls connected() stops: the
\* callback is registered and has not overtaken connect().
SketchStops ==
  (peer = "closed" /\ "disconnection" \in registered) ~> (spc = "done" \/ overtaken)

=============================================================================
