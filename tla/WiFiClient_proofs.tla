-------------------------- MODULE WiFiClient_proofs --------------------------
(***************************************************************************)
(* A client's socket is ended once, and looks connected only while it is   *)
(* open, whatever the sketch and the disconnection callback do when: proofs*)
(* for any handles and any number of failures of the library.              *)
(*                                                                         *)
(* The argument: nothing can close before the sketch is past connect()'s   *)
(* begin(), so that one runs alone; and of two threads in end() the second *)
(* to disconnect fails, so that the other is alone with the handle and     *)
(* with the count.                                                         *)
(***************************************************************************)
EXTENDS WiFiClient, SecSocket_proofs

\* Which method the sketch is in follows from where it is; the client's one socket is
\* begun once, and a thread deletes it alone.
SketchInv ==
  /\ spc \in {"setup", "connect", "connected", "loop", "done"} => pc[Sketch] = "idle"
  /\ spc = "begin" => pc[Sketch] \in Beginning \cup {"idle"}
  /\ spc = "stop" => pc[Sketch] \in Ending \cup {"idle"}
  /\ spc = "setup" \/ pc[Sketch] \in Beginning => handle[Client] = NoHandle /\ leaks = 0

\* The worker runs the disconnection callback once, after the other end has closed.
WorkerInv ==
  /\ pc[Worker] \in Ending \cup {"idle"}
  /\ spc \in {"setup", "begin", "connect"} => peer = "none"
  /\ peer # "closed" => ~event
  /\ peer # "closed" \/ event => pc[Worker] = "idle" /\ ~overtaken
  /\ spc = "connected" /\ pc[Worker] # "idle" => overtaken

\* Where end() has deleted the socket.
Ended == {"endLoad", "endStore", "endTest", "deinit", "endFlag"}

\* There is one handle at most, and a create that failed was the only one.
HandleInv ==
  /\ OpenHandles \subseteq {handle[Client]}
  /\ leaks # 0 => handle[Client] = NoHandle /\ leaks = 1
  /\ \A t \in Threads : pc[t] \in Ended =>
       handle[Client] \in Handles /\ stack[handle[Client]] = "deleted"
  /\ spc = "connected" => IsOpen(handle[Client]) \/ overtaken

IInv == TypeOK /\ CountInv /\ SketchInv /\ WorkerInv /\ HandleInv /\ ConnectedIsOpen

\* The two threads and their one object.
LEMMA Two ==
  ASSUME TypeOK
  PROVE  /\ Sketch \in Threads /\ Worker \in Threads /\ Sketch # Worker
         /\ \A t \in Threads : t = Sketch \/ t = Worker
         /\ Client \in Sockets /\ \A t \in Threads : self[t] = Client
BY WiFiClientAssumption DEF TypeOK, SocketTypeOK

\* A handle is held at most once.
LEMMA AtMostOne ==
  ASSUME TypeOK, HandleInv
  PROVE  Cardinality(OpenHandles) \in 0 .. 1 /\ (Cardinality(OpenHandles) = 1 => leaks = 0)
<1>1. CASE OpenHandles = {}
  BY <1>1, FS_EmptySet
<1>2. CASE OpenHandles # {}
  <2>1. OpenHandles = {handle[Client]} /\ handle[Client] \in Handles
    BY <1>2 DEF HandleInv, OpenHandles
  <2>2. Cardinality(OpenHandles) = 1
    BY <2>1, FS_Singleton
  <2>3. leaks = 0
    BY <2>1, SecSocketAssumption DEF HandleInv
  <2> QED  BY <2>2, <2>3
<1> QED  BY <1>1, <1>2

\* A thread that finds the socket open in end() is alone in the methods.
LEMMA AloneInEnd ==
  ASSUME IInv, NEW t \in Threads, At(t, "end"), IsOpen(handle[self[t]])
  PROVE  Alone(t)
<1>1. handle[Client] \in Handles /\ stack[handle[Client]] = "open" /\ handle[Client] # NoHandle
  BY Two, SecSocketAssumption DEF IInv, IsOpen
<1>2. ASSUME NEW u \in Threads, u # t, pc[u] \in Busy
      PROVE  FALSE
  <2>1. pc[u] \in Beginning \cup Ending \cup {"idle"}
    BY <1>2, Two DEF IInv, SketchInv, WorkerInv, TypeOK
  <2>2. pc[u] \notin Beginning
    BY <1>1, Two DEF IInv, SketchInv, WorkerInv, Beginning, Ending
  <2>3. pc[u] \in {"delete"} \cup Ended
    BY <1>2, <2>1, <2>2 DEF Ending, Ended, Busy
  <2> QED  BY <1>1, <2>3, Two DEF IInv, HandleInv, CountInv
<1> QED  BY <1>2 DEF Alone

\* It holds before begin() ...
LEMMA IInvInit ==
  ASSUME Init
  PROVE  IInv
<1> USE DEF Init, SocketInit
<1>1. TypeOK
  <2>1. MaxFailures \in Nat /\ MaxSpurious \in Nat
    BY SecSocketAssumption, WiFiClientAssumption
  <2>2. SocketTypeOK
    <3>1. initialized \in BOOLEAN /\ reuse \in BOOLEAN
      BY Zenon
    <3>2. /\ handle \in [Sockets -> Handles \cup {NoHandle}]
          /\ status \in [Sockets -> Statuses]
          /\ stack \in [Handles -> {"new", "open", "disconnected", "deleted"}]
          /\ self \in [Threads -> Sockets]
      BY DEF Statuses
    <3>3. count \in Int /\ leaks \in 0 .. MaxFailures /\ loaded \in [Threads -> Int]
      BY <2>1
    <3> QED  BY <3>1, <3>2, <3>3 DEF SocketTypeOK
  <2>3. event \in BOOLEAN /\ overtaken \in BOOLEAN
    BY Zenon
  <2>4. spurious \in 0 .. MaxSpurious /\ registered \subseteq Callbacks
    BY <2>1
  <2> QED  BY <2>1, <2>2, <2>3, <2>4 DEF TypeOK
<1>2. OpenHandles = {}
  BY DEF OpenHandles
<1>3. Held = 0
  BY <1>2, FS_EmptySet DEF Held
<1>4. CountInv
  BY <1>3 DEF CountInv, Busy, Stores, Ahead
<1>5. SketchInv /\ WorkerInv /\ HandleInv /\ ConnectedIsOpen
  BY <1>1, <1>2, Two DEF SketchInv, WorkerInv, HandleInv, ConnectedIsOpen, Ending, Ended
<1> QED  BY <1>1, <1>4, <1>5 DEF IInv

\* A step of a method, by either thread.
LEMMA MethodKeeps ==
  ASSUME IInv, NEW t \in Threads, MethodStep(t), UNCHANGED <<clientVars, reuse>>
  PROVE  IInv'
<1> USE DEF At, GoTo, SetStatus
<1>1. TypeOK'
  BY MethodTypes DEF IInv, TypeOK, clientVars
<1>2. CountInv'
  BY MethodCounts, AloneInEnd DEF IInv, TypeOK
<1>3. /\ Sketch \in Threads /\ Worker \in Threads /\ Sketch # Worker /\ Client \in Sockets
      /\ self[t] = Client /\ (t = Sketch \/ t = Worker)
  BY Two DEF IInv
<1>4. UNCHANGED <<spc, registered, peer, event, overtaken>>
  BY DEF clientVars
<1>5. pc[t] \in Beginning \/ pc[t] \in Ending
  <2>1. pc[t] # "idle"
    BY DEF MethodStep, BeginTest, BeginInit, BeginFlag, CountUpLoad, CountUpStore, Create,
       EndDisconnect, EndDelete, CountDownLoad, CountDownStore, EndTest, EndDeinit, EndFlag
  <2> QED  BY <1>3, <2>1 DEF IInv, TypeOK, SketchInv, WorkerInv
<1>6. \A u \in Threads : u # t => pc'[u] = pc[u]
  BY DEF MethodStep, BeginTest, BeginInit, BeginFlag, CountUpLoad, CountUpStore, Create,
     EndDisconnect, EndDelete, CountDownLoad, CountDownStore, EndTest, EndDeinit, EndFlag,
     IInv, TypeOK, SocketTypeOK
<1>7. CASE pc[t] \in Beginning
  <2>1. /\ t = Sketch /\ spc = "begin" /\ peer = "none" /\ pc[Worker] = "idle"
        /\ handle[Client] = NoHandle /\ leaks = 0 /\ OpenHandles = {} /\ ~event
    BY <1>3, <1>7, SecSocketAssumption
       DEF IInv, TypeOK, SketchInv, WorkerInv, HandleInv, Beginning, Ending, OpenHandles
  <2>2. \/ /\ pc'[t] \in Beginning /\ UNCHANGED <<handle, stack, leaks, status>>
        \/ /\ pc'[t] = "idle" /\ UNCHANGED <<handle, stack, leaks>>
           /\ status' = [status EXCEPT ![Client] = "ERROR"]
        \/ Create(t)
    BY <1>3, <1>7 DEF Beginning, MethodStep, BeginTest, BeginInit, BeginFlag, CountUpLoad,
       CountUpStore, EndDisconnect, EndDelete, CountDownLoad, CountDownStore, EndTest,
       EndDeinit, EndFlag, IInv, TypeOK, SocketTypeOK
  <2>3. pc'[t] \in Beginning \cup {"idle"} /\ pc'[Worker] = "idle"
    BY <1>3, <1>6, <2>1, <2>2 DEF Create, IInv, TypeOK, SocketTypeOK
  <2>4. pc'[t] \in Beginning => handle' = handle /\ leaks' = leaks
    BY <2>2 DEF Create, IInv, TypeOK, SocketTypeOK, Beginning
  <2>5. SketchInv'
    BY <1>4, <2>1, <2>3, <2>4 DEF SketchInv, Ending
  <2>6. WorkerInv'
    BY <1>4, <2>1, <2>3 DEF WorkerInv, IInv
  <2>7. HandleInv'
    <3>1. OpenHandles' \subseteq {handle'[Client]}
      BY <1>3, <2>1, <2>2 DEF Create, IInv, TypeOK, SocketTypeOK, OpenHandles
    <3>2. leaks' # 0 => handle'[Client] = NoHandle /\ leaks' = 1
      BY <1>3, <2>1, <2>2 DEF Create, IInv, TypeOK, SocketTypeOK
    <3>3. \A u \in Threads : pc'[u] \notin Ended
      BY <1>3, <1>6, <2>1, <2>3, Two DEF Beginning, IInv, Ended
    <3> QED  BY <1>4, <2>1, <3>1, <3>2, <3>3 DEF HandleInv
  <2>8. ConnectedIsOpen'
    BY <1>3, <1>4, <2>1, <2>2 DEF Create, ConnectedIsOpen, IInv, TypeOK, SocketTypeOK, IsOpen
  <2> QED  BY <1>1, <1>2, <2>5, <2>6, <2>7, <2>8 DEF IInv
<1>8. CASE pc[t] \in Ending
  <2>1. /\ pc[Sketch] \notin Beginning /\ spc \notin {"setup", "begin", "connect"}
        /\ peer = "closed" \/ spc = "stop"
        /\ t = Worker => peer = "closed" /\ ~event
    BY <1>3, <1>8 DEF IInv, TypeOK, SketchInv, WorkerInv, Beginning, Ending
  <2>2. CountInv /\ handle' = handle /\ leaks' = leaks /\ pc'[t] \in Ending \cup {"idle"}
    BY <1>3, <1>8 DEF MethodStep, BeginTest, BeginInit, BeginFlag, CountUpLoad,
       CountUpStore, Create, EndDisconnect, EndDelete, CountDownLoad, CountDownStore,
       EndTest, EndDeinit, EndFlag, IInv, TypeOK, SocketTypeOK, Ending
  <2>3. pc'[Sketch] \notin Beginning
    BY <1>3, <1>6, <2>1, <2>2 DEF Beginning, Ending
  <2>4. SketchInv'
    <3>1. pc'[Sketch] = pc[Sketch] \/ (t = Sketch /\ spc = "stop")
      BY <1>3, <1>6, <1>8 DEF IInv, TypeOK, SketchInv, Ending, Beginning
    <3> QED  BY <1>4, <2>1, <2>2, <2>3, <3>1 DEF SketchInv, IInv
  <2>5. WorkerInv'
    BY <1>3, <1>4, <1>6, <1>8, <2>1, <2>2 DEF WorkerInv, IInv, Ending
  <2>6. /\ OpenHandles' \subseteq OpenHandles
        /\ handle[Client] \in Handles /\ stack[handle[Client]] = "deleted" =>
             stack'[handle[Client]] = "deleted"
    BY <1>3, <1>8, <2>2, SecSocketAssumption DEF MethodStep, BeginTest, BeginInit,
       BeginFlag, CountUpLoad, CountUpStore, Create, EndDisconnect, EndDelete,
       CountDownLoad, CountDownStore, EndTest, EndDeinit, EndFlag, IInv, TypeOK,
       SocketTypeOK, Ending, IsOpen, OpenHandles, CountInv
  <2>7. HandleInv'
    <3>1. OpenHandles' \subseteq {handle'[Client]}
      BY <2>2, <2>6 DEF HandleInv, IInv
    <3>2. leaks' # 0 => handle'[Client] = NoHandle /\ leaks' = 1
      BY <2>2 DEF HandleInv, IInv
    <3>3. pc'[t] \in Ended =>
            handle[Client] \in Handles /\ stack'[handle[Client]] = "deleted"
      BY <1>3, <1>8, <2>2, <2>6 DEF Ended, MethodStep, BeginTest, BeginInit, BeginFlag,
         CountUpLoad, CountUpStore, Create, EndDisconnect, EndDelete, CountDownLoad,
         CountDownStore, EndTest, EndDeinit, EndFlag, IInv, TypeOK, SocketTypeOK, Ending,
         HandleInv, CountInv
    <3>4. \A u \in Threads : pc'[u] \in Ended =>
            handle'[Client] \in Handles /\ stack'[handle'[Client]] = "deleted"
      BY <1>6, <2>2, <2>6, <3>3 DEF IInv, HandleInv
    <3>5. spc = "connected" => t = Worker /\ overtaken
      BY <1>3, <1>8 DEF IInv, SketchInv, WorkerInv, Ending
    <3> QED  BY <1>4, <3>1, <3>2, <3>4, <3>5 DEF HandleInv
  <2>8. ConnectedIsOpen'
    <3>1. \/ status'[Client] # "CONNECTED"
          \/ status' = status /\ stack' = stack
      BY <1>3, <1>8 DEF MethodStep, BeginTest, BeginInit, BeginFlag, CountUpLoad,
         CountUpStore, Create, EndDisconnect, EndDelete, CountDownLoad, CountDownStore,
         EndTest, EndDeinit, EndFlag, IInv, TypeOK, SocketTypeOK, Ending
    <3> QED  BY <1>4, <2>2, <3>1 DEF ConnectedIsOpen, IsOpen, IInv
  <2> QED  BY <1>1, <1>2, <2>4, <2>5, <2>7, <2>8 DEF IInv
<1> QED  BY <1>5, <1>7, <1>8

\* A step that calls no method, and none of the sketch's or the worker's threads moves.
LEMMA OtherKeeps ==
  ASSUME IInv, UNCHANGED <<handle, stack, count, initialized, up, threadVars, leaks, reuse>>,
         TypeOK', WorkerInv', ConnectedIsOpen',
         spc' = "connected" => IsOpen(handle[Client]) \/ overtaken',
         spc' = "setup" => spc = "setup",
         spc' # spc => /\ spc' \notin {"begin", "stop"}
                       /\ pc[Sketch] = "idle"
  PROVE  IInv'
<1>1. CountInv'
  BY DEF IInv, CountInv, Held, Alone, threadVars, OpenHandles
<1>2. SketchInv'
  BY DEF IInv, TypeOK, SketchInv, threadVars
<1>3. HandleInv'
  BY DEF IInv, HandleInv, threadVars, OpenHandles, IsOpen
<1> QED  BY <1>1, <1>2, <1>3 DEF IInv

\* A method begins: connect()'s begin(), stop(), or the callback's stop().
LEMMA CallKeeps ==
  ASSUME IInv, UNCHANGED reuse, Connect \/ LoopConnected \/ DisconnectionCallback
  PROVE  IInv'
<1>1. /\ Sketch \in Threads /\ Worker \in Threads /\ Sketch # Worker /\ Client \in Sockets
      /\ \A t \in Threads : t = Sketch \/ t = Worker
  BY Two DEF IInv
<1>2. /\ UNCHANGED <<handle, status, stack, count, initialized, up, loaded, leaks, registered,
                     peer, spurious>>
      /\ OpenHandles' = OpenHandles
  BY DEF Connect, LoopConnected, DisconnectionCallback, OpenHandles
<1>3. CASE Connect
  <2>1. /\ spc = "setup" /\ spc' = "begin" /\ Call(Sketch, Client, "begin")
        /\ event' = event /\ overtaken' = overtaken /\ peer = "none" /\ pc[Worker] = "idle"
    BY <1>3 DEF Connect, IInv, WorkerInv
  <2>2. /\ pc' = [pc EXCEPT ![Sketch] = "begin"] /\ self' = [self EXCEPT ![Sketch] = Client]
        /\ pc'[Sketch] = "begin" /\ pc'[Worker] = "idle"
    BY <1>1, <2>1 DEF Call, IInv, TypeOK, SocketTypeOK
  <2>3. TypeOK'
    BY <1>1, <1>2, <2>1, <2>2 DEF IInv, TypeOK, SocketTypeOK
  <2>4. Alone(Sketch)
    BY <1>1, <2>1 DEF Alone, Busy
  <2>5. CountInv'
    BY <1>1, <1>2, <2>1, <2>4, CallCounts DEF IInv, TypeOK
  <2>6. SketchInv'
    BY <1>2, <2>1, <2>2 DEF IInv, SketchInv, Beginning
  <2>7. WorkerInv'
    BY <1>2, <2>1, <2>2 DEF IInv, WorkerInv
  <2>8. HandleInv'
    BY <1>1, <1>2, <2>1, <2>2 DEF IInv, HandleInv, Ended
  <2> QED  BY <1>2, <2>1, <2>3, <2>5, <2>6, <2>7, <2>8 DEF IInv, ConnectedIsOpen, IsOpen
<1>4. CASE LoopConnected
  <2>1. /\ spc = "loop" /\ spc' = "stop" /\ Call(Sketch, Client, "end")
        /\ event' = event /\ overtaken' = overtaken
    BY <1>4 DEF LoopConnected
  <2>2. /\ pc' = [pc EXCEPT ![Sketch] = "end"] /\ self' = [self EXCEPT ![Sketch] = Client]
        /\ pc'[Sketch] = "end" /\ pc'[Worker] = pc[Worker]
    BY <1>1, <2>1 DEF Call, IInv, TypeOK, SocketTypeOK
  <2>3. TypeOK'
    BY <1>1, <1>2, <2>1, <2>2 DEF IInv, TypeOK, SocketTypeOK
  <2>5. CountInv'
    BY <1>1, <1>2, <2>1, CallCounts DEF IInv, TypeOK
  <2>6. SketchInv'
    BY <1>2, <2>1, <2>2 DEF IInv, SketchInv, Beginning, Ending
  <2>7. WorkerInv'
    BY <1>2, <2>1, <2>2 DEF IInv, WorkerInv
  <2>8. HandleInv'
    BY <1>1, <1>2, <2>1, <2>2 DEF IInv, HandleInv, Ended
  <2> QED  BY <1>2, <2>1, <2>3, <2>5, <2>6, <2>7, <2>8 DEF IInv, ConnectedIsOpen, IsOpen
<1>5. CASE DisconnectionCallback
  <2>1. /\ event /\ ~event' /\ spc' = spc /\ Call(Worker, Client, "end")
        /\ overtaken' = (spc = "connected") /\ peer = "closed" /\ ~overtaken
    BY <1>5 DEF DisconnectionCallback, IInv, WorkerInv
  <2>2. /\ pc' = [pc EXCEPT ![Worker] = "end"] /\ self' = [self EXCEPT ![Worker] = Client]
        /\ pc'[Worker] = "end" /\ pc'[Sketch] = pc[Sketch]
    BY <1>1, <2>1 DEF Call, IInv, TypeOK, SocketTypeOK
  <2>3. TypeOK'
    <3>1. event' \in BOOLEAN /\ overtaken' \in BOOLEAN
      BY <1>5 DEF DisconnectionCallback
    <3>2. SocketTypeOK'
      BY <1>1, <1>2, <2>2 DEF IInv, TypeOK, SocketTypeOK
    <3> QED  BY <1>2, <2>1, <3>1, <3>2 DEF IInv, TypeOK
  <2>5. CountInv'
    BY <1>1, <1>2, <2>1, CallCounts DEF IInv, TypeOK
  <2>6. SketchInv'
    BY <1>2, <2>1, <2>2 DEF IInv, SketchInv
  <2>7. WorkerInv'
    <3>1. spc = "connected" => overtaken'
      BY <2>1
    <3> QED  BY <1>2, <2>1, <2>2, <3>1 DEF IInv, WorkerInv, Ending
  <2>8. HandleInv'
    <3>1. spc = "connected" => overtaken'
      BY <2>1
    <3> QED  BY <1>1, <1>2, <2>1, <2>2, <3>1 DEF IInv, HandleInv, Ended
  <2>9. ConnectedIsOpen'
    <3>1. ConnectedIsOpen /\ ~overtaken
      BY <2>1 DEF IInv
    <3> QED  BY <1>2, <3>1 DEF ConnectedIsOpen, IsOpen
  <2> QED  BY <2>3, <2>5, <2>6, <2>7, <2>8, <2>9 DEF IInv
<1> QED  BY <1>3, <1>4, <1>5

\* ... and every step keeps it.
LEMMA IInvStep ==
  ASSUME IInv, [Next]_vars
  PROVE  IInv'
<1> USE DEF At, SetStatus
<1>1. Sketch \in Threads /\ Worker \in Threads /\ Client \in Sockets
  BY Two DEF IInv
<1>2. \A new \in Statuses : status' = [status EXCEPT ![Client] = new] =>
        status' \in [Sockets -> Statuses] /\ status'[Client] = new
  BY <1>1 DEF IInv, TypeOK, SocketTypeOK
<1>a. ASSUME UNCHANGED <<handle, stack, count, initialized, up, threadVars, leaks, reuse>>,
             status' \in [Sockets -> Statuses]
      PROVE  SocketTypeOK'
  BY <1>a DEF IInv, TypeOK, SocketTypeOK, threadVars
<1>b. TypeOK
  BY DEF IInv
<1>3. {"ERROR", "CONNECTED"} \subseteq Statuses
  BY DEF Statuses
<1>4. CASE MethodStep(Sketch) /\ UNCHANGED <<clientVars, reuse>>
  BY <1>1, <1>4, MethodKeeps
<1>5. CASE MethodStep(Worker) /\ UNCHANGED <<clientVars, reuse>>
  BY <1>1, <1>5, MethodKeeps
<1>6. CASE (Connect \/ LoopConnected \/ DisconnectionCallback) /\ UNCHANGED reuse
  BY <1>6, CallKeeps
<1>7. CASE SetOptCallbacks /\ UNCHANGED reuse
  <2>1. /\ spc = "begin"
        /\ pc[Sketch] = "idle"
        /\ spc' = "connect"
        /\ registered' \subseteq Callbacks
        /\ UNCHANGED <<handle, stack, count, initialized, up, threadVars, leaks, peer, event,
                       overtaken, spurious>>
        /\ (status' = status \/ status' = [status EXCEPT ![Client] = "ERROR"])
    BY <1>7 DEF SetOptCallbacks
  <2>2. TypeOK'
    <3>1. SocketTypeOK'
      BY <1>2, <1>3, <1>a, <1>b, <1>7, <2>1 DEF TypeOK, SocketTypeOK
    <3> QED  BY <1>b, <2>1, <3>1 DEF TypeOK
  <2>3. WorkerInv' /\ ConnectedIsOpen'
    BY <1>2, <1>3, <2>1 DEF IInv, WorkerInv, ConnectedIsOpen, threadVars, IsOpen
  <2> QED  BY <1>7, <2>1, <2>2, <2>3, OtherKeeps
<1>8. CASE SocketConnect /\ UNCHANGED reuse
  <2>1. /\ spc = "connect" /\ pc[Sketch] = "idle" /\ peer = "none" /\ ~event
        /\ UNCHANGED <<handle, stack, count, initialized, up, threadVars, leaks, registered, event,
                       overtaken, spurious>>
        /\ \/ /\ spc' = "connected" /\ IsOpen(handle[Client])
              /\ status' = status /\ peer' = "open"
           \/ /\ spc' = "loop" /\ peer' = peer
              /\ status' = [status EXCEPT ![Client] = "ERROR"]
    BY <1>8 DEF SocketConnect, IInv, SketchInv, WorkerInv
  <2>2. TypeOK'
    <3>1. SocketTypeOK'
      BY <1>2, <1>3, <1>a, <1>b, <1>8, <2>1 DEF TypeOK, SocketTypeOK
    <3> QED  BY <1>b, <2>1, <3>1 DEF TypeOK
  <2>3. WorkerInv' /\ ConnectedIsOpen'
    BY <1>2, <1>3, <2>1 DEF IInv, WorkerInv, ConnectedIsOpen, threadVars, IsOpen
  <2> QED  BY <1>8, <2>1, <2>2, <2>3, OtherKeeps
<1>9. CASE ConnectDone /\ UNCHANGED reuse
  <2>1. /\ spc = "connected" /\ pc[Sketch] = "idle" /\ spc' = "loop"
        /\ IsOpen(handle[Client]) \/ overtaken
        /\ status' = [status EXCEPT ![Client] = "CONNECTED"]
        /\ UNCHANGED <<handle, stack, count, initialized, up, threadVars, leaks, registered, peer,
                       event, overtaken, spurious>>
    BY <1>9 DEF ConnectDone, IInv, SketchInv, HandleInv
  <2>2. TypeOK'
    <3>1. SocketTypeOK'
      BY <1>2, <1>3, <1>a, <1>b, <1>9, <2>1 DEF TypeOK, SocketTypeOK
    <3> QED  BY <1>b, <2>1, <3>1 DEF TypeOK
  <2>3. WorkerInv' /\ ConnectedIsOpen'
    BY <1>2, <1>3, <2>1 DEF IInv, WorkerInv, ConnectedIsOpen, threadVars, IsOpen
  <2> QED  BY <1>9, <2>1, <2>2, <2>3, OtherKeeps
<1>10. CASE StopDone /\ UNCHANGED reuse
  <2>1. /\ spc = "stop" /\ pc[Sketch] = "idle" /\ spc' = "done"
        /\ UNCHANGED <<handle, status, stack, count, initialized, up, threadVars, leaks,
                       registered, peer, event, overtaken, spurious>>
    BY <1>10 DEF StopDone, socketVars
  <2>2. TypeOK'
    <3>1. SocketTypeOK'
      BY <1>a, <1>b, <1>10, <2>1 DEF TypeOK, SocketTypeOK
    <3> QED  BY <1>b, <2>1, <3>1 DEF TypeOK
  <2>3. WorkerInv' /\ ConnectedIsOpen'
    BY <2>1 DEF IInv, WorkerInv, ConnectedIsOpen, threadVars, IsOpen
  <2> QED  BY <2>3, <1>10, <2>1, <2>2, OtherKeeps
<1>11. CASE PeerClose /\ UNCHANGED reuse
  <2>1. /\ peer = "open" /\ peer' = "closed" /\ pc[Worker] = "idle" /\ ~overtaken
        /\ UNCHANGED <<handle, status, stack, count, initialized, up, threadVars, leaks,
                       registered, spc, overtaken, spurious>>
        /\ spc \notin {"setup", "begin", "connect"}
    BY <1>11 DEF PeerClose, socketVars, IInv, WorkerInv
  <2>2. event' \in BOOLEAN
    BY <1>11 DEF PeerClose
  <2>3. TypeOK'
    <3>1. SocketTypeOK'
      BY <1>2, <1>3, <1>a, <1>b, <1>11, <2>1 DEF TypeOK, SocketTypeOK
    <3> QED  BY <1>b, <2>2, <2>1, <3>1 DEF TypeOK
  <2>4. WorkerInv' /\ ConnectedIsOpen'
    BY <2>1 DEF IInv, WorkerInv, ConnectedIsOpen, threadVars, IsOpen
  <2>5. spc = "connected" => IsOpen(handle[Client]) \/ overtaken
    BY DEF IInv, HandleInv
  <2> QED  BY <1>11, <2>1, <2>3, <2>4, <2>5, OtherKeeps
<1>12. CASE ReceiveCallbackFails /\ UNCHANGED reuse
  <2>1. /\ status' = [status EXCEPT ![Client] = "ERROR"]
        /\ spurious' \in 0 .. MaxSpurious
        /\ UNCHANGED <<handle, stack, count, initialized, up, threadVars, leaks, registered,
                       spc, peer, event, overtaken>>
    BY <1>12, WiFiClientAssumption DEF ReceiveCallbackFails, IInv, TypeOK
  <2>3. TypeOK'
    <3>1. SocketTypeOK'
      BY <1>2, <1>3, <1>a, <1>b, <1>12, <2>1 DEF TypeOK, SocketTypeOK
    <3> QED  BY <1>b, <2>1, <3>1 DEF TypeOK
  <2>4. WorkerInv' /\ ConnectedIsOpen'
    BY <1>2, <1>3, <2>1 DEF IInv, WorkerInv, ConnectedIsOpen, threadVars, IsOpen
  <2>5. spc = "connected" => IsOpen(handle[Client]) \/ overtaken
    BY DEF IInv, HandleInv
  <2> QED  BY <1>12, <2>1, <2>3, <2>4, <2>5, OtherKeeps
<1>13. CASE UNCHANGED vars
  <2>1. UNCHANGED <<handle, status, stack, count, initialized, up, threadVars, leaks, registered,
                    spc, peer, event, overtaken, spurious, reuse>>
    BY <1>13 DEF vars, socketVars, clientVars
  <2>2. TypeOK'
    <3>1. SocketTypeOK'
      BY <1>a, <1>b, <2>1 DEF TypeOK, SocketTypeOK
    <3> QED  BY <1>b, <2>1, <3>1 DEF TypeOK
  <2>3. WorkerInv' /\ ConnectedIsOpen'
    BY <2>1 DEF IInv, WorkerInv, ConnectedIsOpen, threadVars, IsOpen
  <2>4. spc = "connected" => IsOpen(handle[Client]) \/ overtaken
    BY DEF IInv, HandleInv
  <2> QED  BY <2>1, <2>2, <2>3, <2>4, OtherKeeps
<1> QED
  BY <1>4, <1>5, <1>6, <1>7, <1>8, <1>9, <1>10, <1>11, <1>12, <1>13
     DEF Next, SketchStep, CallbackStep, clientVars

\* The sketch's stop() and the disconnection callback never both end the socket.
THEOREM Invariant == Spec => []IInv
<1>1. Init => IInv
  BY IInvInit
<1>2. IInv /\ [Next]_vars => IInv'
  BY IInvStep
<1> QED  BY <1>1, <1>2, PTL DEF Spec

\* Type correctness of WiFiClient and of the socket methods it runs.
THEOREM TypeCorrect == Spec => []TypeOK
<1>1. IInv => TypeOK
  BY DEF IInv
<1> QED  BY <1>1, Invariant, PTL

\* A client looks connected only while its handle is open, unless the disconnection
\* callback overtook connect().
THEOREM ConnectedOnlyOpen == Spec => []ConnectedIsOpen
<1>1. IInv => ConnectedIsOpen
  BY DEF IInv
<1> QED  BY <1>1, Invariant, PTL

\* The count of sockets is zero or one, and exact between calls, however stop() and the
\* disconnection callback meet.
THEOREM SocketEndedOnce == Spec => []EndedOnce
<1>1. ASSUME IInv
      PROVE  EndedOnce
  <2>1. /\ Sketch \in Threads /\ Worker \in Threads /\ Sketch # Worker
        /\ \A t \in Threads : t = Sketch \/ t = Worker
    BY <1>1, Two DEF IInv
  <2>2. /\ Cardinality(OpenHandles) \in 0 .. 1 /\ leaks \in 0 .. 1
        /\ Cardinality(OpenHandles) = 1 => leaks = 0
        /\ (\A h \in Handles : h = handle[Client] => stack[h] = "deleted") => OpenHandles = {}
        /\ Held = Cardinality(OpenHandles) + leaks
    BY <1>1, AtMostOne DEF IInv, HandleInv, TypeOK, SocketTypeOK, Held, OpenHandles
  <2>3. CASE \E t \in Threads : pc[t] \in Busy
    <3>1. PICK t \in Threads : pc[t] \in Busy
      BY <2>3
    <3>2. count = Held + Ahead(pc[t]) /\ ~Quiet
      BY <1>1, <3>1 DEF IInv, CountInv, Quiet, Busy
    <3>3. pc[t] \in Beginning \/ pc[t] \in {"delete"} \cup Ended
      BY <1>1, <2>1, <3>1 DEF IInv, TypeOK, SketchInv, WorkerInv, Beginning, Ending, Busy,
         Ended
    <3>4. CASE pc[t] \in Beginning
      <4>1. t = Sketch /\ handle[Client] = NoHandle /\ leaks = 0
        BY <1>1, <2>1, <3>4 DEF IInv, SketchInv, WorkerInv, Beginning, Ending
      <4>2. Cardinality(OpenHandles) = 0
        BY <2>2, <4>1, SecSocketAssumption, FS_EmptySet
      <4>3. Ahead(pc[t]) \in 0 .. 1
        BY <3>4 DEF Ahead, Beginning
      <4> QED  BY <2>2, <3>2, <4>1, <4>2, <4>3 DEF EndedOnce, CountIsExact
    <3>5. CASE pc[t] = "delete"
      BY <2>2, <3>2, <3>5 DEF EndedOnce, CountIsExact, Ahead
    <3>6. CASE pc[t] \in Ended
      <4>1. handle[Client] \in Handles /\ stack[handle[Client]] = "deleted" /\ leaks = 0
        BY <1>1, <3>6, SecSocketAssumption DEF IInv, HandleInv
      <4>2. Cardinality(OpenHandles) = 0
        BY <2>2, <4>1, FS_EmptySet
      <4> QED  BY <2>2, <3>2, <3>6, <4>1, <4>2 DEF EndedOnce, CountIsExact, Ahead, Ended
    <3> QED  BY <3>3, <3>4, <3>5, <3>6
  <2>4. CASE \A t \in Threads : pc[t] \notin Busy
    <3>1. count = Held
      BY <1>1, <2>1, <2>2, <2>4 DEF IInv, CountInv, Alone, Busy, Ahead
    <3> QED  BY <2>2, <3>1 DEF EndedOnce, CountIsExact
  <2> QED  BY <2>3, <2>4
<1> QED  BY <1>1, Invariant, PTL

\* The library is up for as long as the client's handle exists.
THEOREM LibraryUpForClient == Spec => []LibraryIsUp
<1>1. Init => LibraryInv
  BY DEF Init, SocketInit, LibraryInv, Starting, Started, OpenHandles
<1>2. ASSUME IInv, LibraryInv, [Next]_vars
      PROVE  LibraryInv'
  <2>1. Sketch \in Threads /\ Worker \in Threads
    BY <1>2, Two DEF IInv
  <2>2. CASE MethodStep(Sketch) \/ MethodStep(Worker)
    BY <1>2, <2>1, <2>2, MethodKeepsUp DEF IInv, TypeOK
  <2>3. CASE UNCHANGED <<stack, initialized, up>> /\ \E t \in Threads, place \in {"begin", "end"} :
               pc[t] = "idle" /\ pc' = [pc EXCEPT ![t] = place]
    BY <1>2, <2>3 DEF LibraryInv, Starting, Started, OpenHandles, IInv, TypeOK, SocketTypeOK
  <2>4. CASE UNCHANGED <<stack, initialized, up, pc>>
    BY <1>2, <2>4 DEF LibraryInv, Starting, Started, OpenHandles
  <2>5. \/ MethodStep(Sketch) \/ MethodStep(Worker)
        \/ UNCHANGED <<stack, initialized, up>> /\ \E t \in Threads, place \in {"begin", "end"} :
               pc[t] = "idle" /\ pc' = [pc EXCEPT ![t] = place]
        \/ UNCHANGED <<stack, initialized, up, pc>>
    BY <1>2, <2>1 DEF Next, SketchStep, CallbackStep, Connect, SetOptCallbacks, SocketConnect,
       ConnectDone, LoopConnected, StopDone, PeerClose, DisconnectionCallback,
       ReceiveCallbackFails, Call, vars, socketVars, threadVars
  <2> QED  BY <2>2, <2>3, <2>4, <2>5
<1>3. LibraryInv => LibraryIsUp
  BY DEF LibraryInv, LibraryIsUp
<1> QED  BY <1>1, <1>2, <1>3, Invariant, PTL DEF Spec
=============================================================================
