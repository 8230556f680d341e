----------------------------- MODULE WiFiServer -----------------------------
(***************************************************************************)
(* WiFiServer (libraries/WiFi/src/WiFiServer.cpp) and the sockets of its   *)
(* clients.  The worker thread of the secure sockets library runs the      *)
(* three callbacks, one event after the other; the sketch calls            *)
(* available(), reads and stops the client it got, and may end() the       *)
(* server.  Both work on the list connected_clients without a lock.  An    *)
(* update of the list is one step here, and so is one turn of a method     *)
(* that walks it.                                                          *)
(*                                                                         *)
(* The k-th connection is number k, and so is the Socket object that       *)
(* connectionCallback() creates for it.  Payload is abstracted to its      *)
(* origin: a ring holds the connections whose bytes are in it.             *)
(***************************************************************************)
EXTENDS SecSocket, Sequences

CONSTANTS
  MaxConns,       \* bound: the most connections peers make
  Sketch, Worker, \* the two threads
  Server,         \* the listening Socket object
  NoClient,       \* the sentinel available() returns
  MaxBegins,      \* bound: calls of begin()
  Worlds          \* what varies between sketches and libraries: the calls the
                  \* sketch makes ("client" stop(), "server" end()), whether
                  \* handles are reused, and (bound) the connections peers make

Conns == 1 .. MaxConns

ASSUME WiFiServerAssumption ==
  /\ MaxConns \in Nat /\ MaxBegins \in Nat
  /\ Threads = {Sketch, Worker} /\ Sketch # Worker
  /\ Sockets = Conns \cup {Server} /\ Server \notin Conns
  /\ NoClient \notin Conns
  /\ Worlds \subseteq [stops : SUBSET {"client", "server"}, reuse : BOOLEAN,
                         conns : 0 .. MaxConns]

VARIABLES
  clients,     \* connected_clients
  rx,          \* rx_buf of each object: the connections whose bytes it holds
  registered,  \* the callbacks the listening socket has
  listening,   \* cy_socket_listen succeeded
  begins,      \* calls of begin() so far
  arrived,     \* connections made so far
  owner,       \* the connection behind each handle
  closed,      \* connections the peer has closed
  unread,      \* connections with bytes in the stack
  events,      \* what the worker has yet to handle, in order
  wpc,         \* where the worker is in a callback
  on,          \* the handle that has triggered the callback
  found,       \* the position the callback's walk of the list is at
  spc,         \* where the sketch is
  i,           \* the index of its loop
  last,        \* last_available_client
  ret,         \* what available() returned last
  stops,       \* the calls this sketch makes
  conns        \* the connections peers make

listVars == <<clients, rx>>
beginVars == <<registered, listening, begins>>
peerVars == <<arrived, owner, closed, unread>>
workerVars == <<wpc, on, found>>
sketchVars == <<spc, i, last, ret>>
worldVars == <<reuse, stops, conns>>
vars == <<socketVars, listVars, beginVars, peerVars, events, workerVars, sketchVars,
          worldVars>>

Callbacks == {"connection", "receive", "disconnection"}

Event(kind, x) ==
  events' = IF kind \in registered
              THEN Append(events, [kind |-> kind, on |-> x]) ELSE events

Init ==
  /\ SocketInit
  /\ clients = <<>>
  /\ rx = [c \in Conns |-> {}]
  /\ registered = {}
  /\ listening = FALSE
  /\ begins = 0
  /\ arrived = 0
  /\ owner = [h \in Handles |-> NoClient]
  /\ closed = {}
  /\ unread = {}
  /\ events = <<>>
  /\ wpc = "idle"
  /\ on = NoHandle
  /\ found = 0
  /\ spc = "idle"
  /\ i = 0
  /\ last = 0
  /\ ret = NoClient
  /\ \E w \in Worlds : reuse = w.reuse /\ stops = w.stops /\ conns = w.conns

-----------------------------------------------------------------------------
(* The peers.                                                              *)

PeerConnect ==
  /\ listening /\ IsOpen(handle[Server])
  /\ arrived < conns
  /\ arrived' = arrived + 1
  /\ Event("connection", arrived + 1)
  /\ UNCHANGED <<socketVars, listVars, beginVars, owner, closed, unread, workerVars,
                 sketchVars>>

\* A connection whose peer has not closed it.
HasPeer(h) == IsOpen(h) /\ h # handle[Server] /\ owner[h] \in Conns \ closed

PeerSend ==
  /\ \E h \in Handles :
       /\ HasPeer(h) /\ owner[h] \notin unread
       /\ unread' = unread \cup {owner[h]}
       /\ Event("receive", h)
  /\ UNCHANGED <<socketVars, listVars, beginVars, arrived, owner, closed, workerVars,
                 sketchVars>>

\* The peer closes, maybe behind bytes that nobody has read yet.
PeerClose ==
  /\ \E h \in Handles :
       /\ HasPeer(h)
       /\ closed' = closed \cup {owner[h]}
       /\ Event("disconnection", h)
  /\ UNCHANGED <<socketVars, listVars, beginVars, arrived, owner, unread, workerVars,
                 sketchVars>>

-----------------------------------------------------------------------------
(* The worker's callbacks.                                                 *)

Take(kind) ==
  /\ wpc = "idle"
  /\ events # <<>> /\ Head(events).kind = kind
  /\ events' = Tail(events)

\* A callback returns: its variables are gone.
Return ==
  /\ wpc' = "idle"
  /\ on' = NoHandle
  /\ found' = 0

\* connectionCallback(): emplace_back(), and the new object is taken from the
\* list's end ...
ConnectionCallback ==
  /\ Take("connection")
  /\ clients' = Append(clients, Head(events).on)
  /\ self' = [self EXCEPT ![Worker] = Head(events).on]
  /\ wpc' = "accept"
  /\ UNCHANGED <<handle, status, stack, count, initialized, up, pc, loaded, leaks, rx,
                 beginVars, peerVars, on, found, sketchVars>>

\* ... to be filled by accept(), wherever the list has it by then ...
AcceptClient ==
  /\ wpc = "accept" /\ IsOpen(handle[Server])
  /\ \E h \in Handles :
       /\ Accept(Worker, self[Worker], h)
       /\ owner' = [owner EXCEPT ![h] = self[Worker]]
  /\ wpc' = "accepting"
  /\ UNCHANGED <<listVars, beginVars, arrived, closed, unread, events, on, found,
                 sketchVars>>

\* Mutant of AcceptFails: the new object stays in the list.
AcceptFails_Keep ==
  /\ wpc = "accept"
  /\ SetStatus(Server, "ERROR")
  /\ Return
  /\ UNCHANGED <<handle, stack, count, initialized, up, threadVars, leaks, listVars,
                 beginVars, peerVars, events, sketchVars>>

\* ... or, when that fails, the last object is taken from the list, and the
\* server's own socket is in error.
AcceptFails ==
  /\ wpc = "accept"
  /\ SetStatus(Server, "ERROR")
  /\ clients' = IF clients = <<>> THEN <<>> ELSE SubSeq(clients, 1, Len(clients) - 1)
  /\ Return
  /\ UNCHANGED <<handle, stack, count, initialized, up, threadVars, leaks, rx,
                 beginVars, peerVars, events, sketchVars>>

\* accept() has returned.
Accepted ==
  /\ wpc = "accepting" /\ At(Worker, "idle")
  /\ Return
  /\ UNCHANGED <<socketVars, listVars, beginVars, peerVars, events, sketchVars>>

\* receiveCallback() and disconnectionCallback(): each walks the list.
FindClient ==
  /\ \/ Take("receive") /\ wpc' = "findReceiver"
     \/ Take("disconnection") /\ wpc' = "findEnded"
  /\ on' = Head(events).on
  /\ found' = 1
  /\ UNCHANGED <<socketVars, listVars, beginVars, peerVars, sketchVars>>

\* isThisClient(), of the k-th entry.
IsThisClient(k, h) == handle[clients[k]] = h

\* Neither does anything when no entry has the handle.
FindNext ==
  /\ wpc \in {"findReceiver", "findEnded"}
  /\ \/ /\ found > Len(clients)
        /\ Return
     \/ /\ found <= Len(clients) /\ ~IsThisClient(found, on)
        /\ found' = found + 1
        /\ UNCHANGED <<wpc, on>>
  /\ UNCHANGED <<socketVars, listVars, beginVars, peerVars, events, sketchVars>>

\* The first entry with it receives: its socket's receiveCallback() is called
FindReceiver ==
  /\ wpc = "findReceiver"
  /\ found <= Len(clients) /\ IsThisClient(found, on)
  /\ self' = [self EXCEPT ![Worker] = clients[found]]
  /\ wpc' = "receive"
  /\ UNCHANGED <<handle, status, stack, count, initialized, up, pc, loaded, leaks,
                 listVars, beginVars, peerVars, events, on, found, sketchVars>>

\* ... and is in error without data, or once its handle is not open any more.
Receive ==
  LET c == self[Worker]
      h == handle[c]
  IN
  /\ wpc = "receive"
  /\ \/ /\ IsOpen(h) /\ owner[h] \in unread
        /\ rx' = [rx EXCEPT ![c] = @ \cup {owner[h]}]
        /\ unread' = unread \ {owner[h]}
        /\ UNCHANGED status
     \/ /\ ~(IsOpen(h) /\ owner[h] \in unread)
        /\ SetStatus(c, "ERROR")
        /\ UNCHANGED <<rx, unread>>
  /\ Return
  /\ UNCHANGED <<handle, stack, count, initialized, up, threadVars, leaks, clients,
                 beginVars, arrived, owner, closed, events, sketchVars>>

\* In the other callback it is stopped ...
FindEnded ==
  /\ wpc = "findEnded"
  /\ found <= Len(clients) /\ IsThisClient(found, on)
  /\ Call(Worker, clients[found], "end")
  /\ wpc' = "erase"
  /\ UNCHANGED <<handle, status, stack, count, initialized, up, loaded, leaks, listVars,
                 beginVars, peerVars, events, on, found, sketchVars>>

\* The list without its k-th entry.
Erase(k) ==
  clients' = IF k \in 1 .. Len(clients)
               THEN SubSeq(clients, 1, k - 1) \o SubSeq(clients, k + 1, Len(clients))
               ELSE clients

\* Mutant of EraseClient: the stopped client stays in the list.
EraseClient_Keep ==
  /\ wpc = "erase" /\ At(Worker, "idle")
  /\ Return
  /\ UNCHANGED <<socketVars, listVars, beginVars, peerVars, events, sketchVars>>

\* ... and, whatever stop() achieved, erased.
EraseClient ==
  /\ wpc = "erase" /\ At(Worker, "idle")
  /\ Erase(found)
  /\ Return
  /\ UNCHANGED <<socketVars, rx, beginVars, peerVars, events, sketchVars>>

-----------------------------------------------------------------------------
(* The sketch.                                                             *)

\* begin(): socket.begin() ...
Begin ==
  /\ spc = "idle"
  /\ begins < MaxBegins
  /\ begins' = begins + 1
  /\ Call(Sketch, Server, "begin")
  /\ spc' = "begin"
  /\ UNCHANGED <<handle, status, stack, count, initialized, up, loaded, leaks, listVars,
                 registered, listening, peerVars, events, workerVars, i, last, ret>>

\* ... then, whatever that gave, the callbacks, bind() and listen(): each sets
\* the status when it fails, and the last, listen(), also when it succeeds.
BeginListen ==
  /\ spc = "begin" /\ At(Sketch, "idle")
  /\ \E ok \in SUBSET (Callbacks \cup {"listen"}) :
       /\ ok # {} => IsOpen(handle[Server])
       /\ registered' = ok \cap Callbacks
       /\ listening' = ("listen" \in ok)
       /\ SetStatus(Server, IF "listen" \in ok THEN "LISTENING" ELSE "ERROR")
  /\ spc' = "idle"
  /\ UNCHANGED <<handle, stack, count, initialized, up, threadVars, leaks, listVars, begins,
                 peerVars, events, workerVars, i, last, ret>>

\* WiFiClient::operator bool
IsReady(c) == status[c] = "CONNECTED" /\ rx[c] # {}

\* available(): the search starts at the client returned last.  (The modulo by
\* an empty list's size leaves the index alone: the core's UDIV yields 0.)
Available ==
  /\ spc = "idle" /\ listening
  /\ last' = IF clients = <<>> THEN last ELSE last % Len(clients)
  /\ i' = last'
  /\ spc' = "search"
  /\ UNCHANGED <<socketVars, listVars, beginVars, peerVars, events, workerVars, ret>>

\* One turn of its loop.
AvailableSearch ==
  /\ spc = "search"
  /\ i < Len(clients)
  /\ \/ /\ IsReady(clients[i + 1])
        /\ last' = i
        /\ ret' = clients[i + 1]
        /\ spc' = "idle"
        /\ UNCHANGED i
     \/ /\ ~IsReady(clients[i + 1])
        /\ i' = i + 1
        /\ UNCHANGED <<last, ret, spc>>
  /\ UNCHANGED <<socketVars, listVars, beginVars, peerVars, events, workerVars>>

\* Its end: the sentinel.
AvailableNone ==
  /\ spc = "search"
  /\ i >= Len(clients)
  /\ ret' = NoClient
  /\ spc' = "idle"
  /\ UNCHANGED <<socketVars, listVars, beginVars, peerVars, events, workerVars, i, last>>

\* The sketch reads what the client it got has received.
ReadClient ==
  /\ spc = "idle" /\ ret # NoClient /\ rx[ret] # {}
  /\ rx' = [rx EXCEPT ![ret] = {}]
  /\ UNCHANGED <<socketVars, clients, beginVars, peerVars, events, workerVars, sketchVars>>

\* stop() of the client it got (a copy, which shares the Socket object).
StopClient ==
  /\ "client" \in stops
  /\ spc = "idle" /\ ret # NoClient
  /\ Call(Sketch, ret, "end")
  /\ spc' = "stop"
  /\ UNCHANGED <<handle, status, stack, count, initialized, up, loaded, leaks, listVars,
                 beginVars, peerVars, events, workerVars, i, last, ret>>

StopReturn ==
  /\ spc = "stop" /\ At(Sketch, "idle")
  /\ spc' = "idle"
  /\ UNCHANGED <<socketVars, listVars, beginVars, peerVars, events, workerVars, i, last,
                 ret>>

\* end(): in a loop, stop the i-th client ...
End ==
  /\ "server" \in stops
  /\ spc = "idle" /\ listening
  /\ i' = 0
  /\ spc' = "endLoop"
  /\ UNCHANGED <<socketVars, listVars, beginVars, peerVars, events, workerVars, last, ret>>

EndStop ==
  /\ spc = "endLoop" /\ i < Len(clients)
  /\ Call(Sketch, clients[i + 1], "end")
  /\ spc' = "endErase"
  /\ UNCHANGED <<handle, status, stack, count, initialized, up, loaded, leaks, listVars,
                 beginVars, peerVars, events, workerVars, i, last, ret>>

\* ... erase it, and go on with the entry after the one that takes its place.
EndErase ==
  /\ spc = "endErase" /\ At(Sketch, "idle")
  /\ Erase(i + 1)
  /\ i' = i + 1
  /\ spc' = "endLoop"
  /\ UNCHANGED <<socketVars, rx, beginVars, peerVars, events, workerVars, last, ret>>

\* Then end the listening socket.
EndServer ==
  /\ spc = "endLoop" /\ i >= Len(clients)
  /\ Call(Sketch, Server, "end")
  /\ spc' = "stop"
  /\ listening' = FALSE
  /\ UNCHANGED <<handle, status, stack, count, initialized, up, loaded, leaks, listVars,
                 registered, begins, peerVars, events, workerVars, i, last, ret>>

-----------------------------------------------------------------------------

SocketStep ==
  /\ \E t \in Threads : MethodStep(t)
  /\ UNCHANGED <<listVars, beginVars, peerVars, events, workerVars, sketchVars>>

Peers == PeerConnect \/ PeerSend \/ PeerClose

WorkerStep ==
  \/ ConnectionCallback
  \/ AcceptClient
  \/ AcceptFails
  \/ Accepted
  \/ FindClient
  \/ FindNext
  \/ FindReceiver
  \/ Receive
  \/ FindEnded
  \/ EraseClient

SketchStep ==
  \/ Begin
  \/ BeginListen
  \/ Available
  \/ AvailableSearch
  \/ AvailableNone
  \/ ReadClient
  \/ StopClient
  \/ StopReturn
  \/ End
  \/ EndStop
  \/ EndErase
  \/ EndServer

Next ==
  /\ SocketStep \/ Peers \/ WorkerStep \/ SketchStep
  /\ UNCHANGED worldVars

Spec == Init /\ [][Next]_vars

-----------------------------------------------------------------------------
(* Properties.                                                             *)

TypeOK ==
  /\ SocketTypeOK
  /\ clients \in Seq(Conns) /\ Len(clients) <= conns
  /\ rx \in [Conns -> SUBSET Conns]
  /\ registered \subseteq Callbacks /\ listening \in BOOLEAN
  /\ begins \in 0 .. MaxBegins /\ arrived \in 0 .. conns
  /\ owner \in [Handles -> Conns \cup {NoClient}]
  /\ closed \subseteq 1 .. arrived /\ unread \subseteq 1 .. arrived
  /\ \A k \in 1 .. Len(events) : events[k].kind \in Callbacks
  /\ wpc \in {"idle", "accept", "accepting", "findReceiver", "receive", "findEnded",
              "erase"}
  /\ on \in Handles \cup {NoHandle} /\ found \in 0 .. MaxConns + 1
  /\ spc \in {"idle", "begin", "search", "stop", "endLoop", "endErase"}
  /\ i \in 0 .. MaxConns /\ last \in 0 .. MaxConns
  /\ ret \in Conns \cup {NoClient}
  /\ stops \subseteq {"client", "server"} /\ conns \in 0 .. MaxConns

\* A client's buffer only ever holds bytes of its own connection: "Find the
\* client which has triggered the callback and receive the data from the
\* client."
ReceivedByOwner == \A c \in Conns : rx[c] \subseteq {c}

ThisClient(h) == {k \in 1 .. Len(clients) : IsThisClient(k, h)}

\* Without a stop() or end() by the sketch, whenever the worker is between
\* callbacks every entry of the list has an open handle, and every client the
\* library still holds is there, once; the only ones that are not are those
\* whose peer has closed and whose stop() failed.  And available() always
\* starts at an index that the list once had.
ListIsExact ==
  /\ last # 0 => last \in 1 .. conns - 1
  /\ stops = {} /\ wpc = "idle" =>
       /\ \A k \in 1 .. Len(clients) : IsOpen(handle[clients[k]])
       /\ \A h \in OpenHandles \ {handle[Server]} :
            \/ Cardinality(ThisClient(h)) = 1
            \/ ThisClient(h) = {} /\ owner[h] \in closed /\ status[owner[h]] = "ERROR"

\* As long as only the worker accepts and ends sockets, their count is exact,
\* and the library is never shut down under one.
WorkerCountIsExact == stops = {} => CountIsExact
LibraryStaysUp == stops = {} => LibraryIsUp

=============================================================================
