-------------------------- MODULE WiFiServer_proofs --------------------------
(***************************************************************************)
(* What a server's list, its clients' sockets and their count have to do   *)
(* with each other: proofs for any connections, handles and calls.         *)
(***************************************************************************)
EXTENDS WiFiServer, SecSocket_proofs, SequenceTheorems

Events == [kind : {"connection"}, on : Conns] \cup
          [kind : {"receive", "disconnection"}, on : Handles]

\* The connections in the list are in the order in which they were made, and none is
\* from the future ...
Ordered(list) ==
  /\ list \in Seq(Conns)
  /\ \A k \in 1 .. Len(list) : list[k] \in k .. arrived
  /\ \A k, m \in 1 .. Len(list) : k < m => list[k] < list[m]

\* ... and those that the worker has yet to accept come after them, in order too.
After(list, queue) == \A m \in 1 .. Len(queue) : queue[m].kind = "connection" =>
  /\ queue[m].on <= arrived
  /\ \A k \in 1 .. Len(list) : list[k] < queue[m].on
  /\ \A k \in 1 .. Len(queue) :
       k < m /\ queue[k].kind = "connection" => queue[k].on < queue[m].on

OrderInv ==
  /\ events \in Seq(Events)
  /\ Ordered(clients) /\ After(clients, events)
  /\ \A h \in Handles : owner[h] # NoClient => owner[h] <= arrived
  /\ wpc = "accept" => self[Worker] \in 1 .. arrived
  /\ wpc = "receive" => self[Worker] \in Conns
  /\ wpc \in {"findReceiver", "findEnded"} => on \in Handles /\ found \in 1 .. MaxConns + 1
  /\ spc = "endErase" => i < conns
  /\ last # 0 => last < conns

\* A library that does not reuse handles: an object's handle stays its own.
OwnerInv == ~reuse =>
  /\ \A h \in Handles : stack[h] = "new" => owner[h] = NoClient
  /\ \A s \in Sockets : handle[s] \in Handles => stack[handle[s]] # "new"
  /\ \A c \in Conns : handle[c] \in Handles => owner[handle[c]] \in {c, NoClient}

\* Where the threads are when the sketch stops nothing.
PlacesInv == stops = {} =>
  /\ spc \in {"idle", "begin", "search"}
  /\ pc[Sketch] \in Beginning \cup {"idle"}
  /\ pc[Sketch] # "idle" => spc = "begin" /\ self[Sketch] = Server
  /\ wpc \notin {"accepting", "erase"} => pc[Worker] = "idle"
  /\ wpc = "accepting" => pc[Worker] \in {"idle", "acceptLoad", "acceptStore"}
  /\ wpc = "erase" => pc[Worker] \in Ending \cup {"idle"}

\* The entries of the list whose object has been accepted and is not being ended.
Settled(k) ==
  /\ k \in 1 .. Len(clients)
  /\ wpc = "accept" => k # Len(clients)
  /\ wpc = "erase" => k # found

\* They are open, each with a handle of its own ...
EntriesInv == stops = {} => \A k \in 1 .. Len(clients) : Settled(k) =>
  /\ IsOpen(handle[clients[k]]) /\ handle[clients[k]] # handle[Server]
  /\ owner[handle[clients[k]]] = clients[k]
  /\ \A m \in 1 .. Len(clients) :
       Settled(m) /\ m # k => handle[clients[m]] # handle[clients[k]]

\* ... and so is the object that is being ended, until it is deleted.
EndedInv == stops = {} /\ wpc = "erase" =>
  /\ found \in 1 .. Len(clients) /\ self[Worker] = clients[found]
  /\ on \in Handles /\ on = handle[clients[found]] /\ owner[on] = clients[found]
  /\ pc[Worker] \in {"end", "delete"} =>
       /\ stack[on] = IF pc[Worker] = "end" THEN "open" ELSE "disconnected"
       /\ on # handle[Server]
       /\ \A k \in 1 .. Len(clients) : k # found => on # handle[clients[k]]

\* The object that is being filled or receives is in the list.
ListInv == EntriesInv /\ EndedInv /\ (stops = {} =>
  /\ handle[Server] \in Handles => IsOpen(handle[Server])
  /\ wpc \in {"accept", "accepting"} => clients # <<>> /\ self[Worker] = clients[Len(clients)]
  /\ wpc = "receive" => found \in 1 .. Len(clients) /\ self[Worker] = clients[found])

\* As long as the sketch stops nothing, a handle has one disconnection: while it is queued
\* the handle is open, and the worker does not yet end it.
Disconnects(m) == m \in 1 .. Len(events) /\ events[m].kind = "disconnection"
ClosedInv == stops = {} =>
  /\ \A m \in 1 .. Len(events) : Disconnects(m) =>
       /\ IsOpen(events[m].on) /\ owner[events[m].on] \in closed
       /\ wpc \in {"findEnded", "erase"} => events[m].on # on
       /\ \A k \in 1 .. Len(events) : Disconnects(k) /\ k # m => events[k].on # events[m].on
  /\ wpc \in {"findEnded", "erase"} => owner[on] \in closed

\* With one begin(), which runs before there is anything to call back about ...
Once == stops = {} /\ begins <= 1

BeginInv == Once =>
  /\ begins = 0 \/ spc = "begin" =>
       /\ ~listening /\ registered = {} /\ events = <<>> /\ clients = <<>>
       /\ wpc = "idle" /\ arrived = 0
  /\ begins = 0 => spc = "idle"
  /\ begins = 0 \/ pc[Sketch] # "idle" => handle[Server] = NoHandle

\* A connection that is neither in the list nor on its way there.
Gone(c) ==
  /\ \A k \in 1 .. Len(clients) : clients[k] # c
  /\ \A m \in 1 .. Len(events) : events[m].kind = "connection" => events[m].on # c

\* What a failed stop() leaves behind.
Abandoned(h) ==
  /\ owner[h] \in closed /\ Gone(owner[h])
  /\ handle[owner[h]] = h /\ status[owner[h]] = "ERROR"

\* ... the library holds no sockets but those the server knows and those whose stop()
\* failed, and one that has been ended is deleted or of the latter ...
HoldInv == Once =>
  /\ \A h \in OpenHandles : h # handle[Server] =>
       \/ \E k \in 1 .. Len(clients) :
            (wpc = "accept" => k # Len(clients)) /\ h = handle[clients[k]]
       \/ Abandoned(h)
  /\ wpc = "erase" /\ pc[Worker] \notin {"end", "delete"} =>
       stack[on] = "deleted" \/ (pc[Worker] = "idle" /\ status[clients[found]] = "ERROR")

\* ... and at most one thread at a time is in a method.
OnceInv == Once => CountInv /\ LibraryInv

\* Bytes are with their owner, unless a handle may be given to another connection while
\* a client that the sketch has stopped still has it.
RoutedInv == stops = {} \/ ~reuse => ReceivedByOwner

IInv ==
  /\ TypeOK /\ OrderInv /\ OwnerInv /\ PlacesInv /\ ListInv /\ ClosedInv /\ RoutedInv
  /\ BeginInv /\ HoldInv /\ OnceInv

-----------------------------------------------------------------------------
(* Lists and queues.                                                       *)

\* What is left of a list without its k-th entry.
LEMMA ErasedEntries ==
  ASSUME NEW S, NEW s \in Seq(S), NEW k \in 1 .. Len(s)
  PROVE  LET e == SubSeq(s, 1, k - 1) \o SubSeq(s, k + 1, Len(s)) IN
         /\ e \in Seq(S) /\ Len(e) = Len(s) - 1
         /\ \A j \in 1 .. Len(e) : e[j] = s[IF j < k THEN j ELSE j + 1]
<1>1. /\ SubSeq(s, 1, k - 1) \in Seq(S) /\ Len(SubSeq(s, 1, k - 1)) = k - 1
      /\ \A j \in 1 .. k - 1 : SubSeq(s, 1, k - 1)[j] = s[j]
  BY LenProperties, SubSeqProperties
<1>2. /\ SubSeq(s, k + 1, Len(s)) \in Seq(S) /\ Len(SubSeq(s, k + 1, Len(s))) = Len(s) - k
      /\ \A j \in 1 .. Len(s) - k : SubSeq(s, k + 1, Len(s))[j] = s[k + j]
  BY LenProperties, SubSeqProperties
<1> DEFINE a == SubSeq(s, 1, k - 1)
           b == SubSeq(s, k + 1, Len(s))
<1>3. Len(s) \in Nat
  BY LenProperties
<1>4. a \in Seq(S) /\ b \in Seq(S) /\ Len(a) = k - 1 /\ Len(b) = Len(s) - k
      /\ (\A j \in 1 .. k - 1 : a[j] = s[j])
      /\ (\A j \in 1 .. Len(s) - k : b[j] = s[k + j])
  BY <1>1, <1>2
<1> HIDE DEF a, b
<1>5. /\ a \o b \in Seq(S) /\ Len(a \o b) = Len(s) - 1
      /\ \A j \in 1 .. Len(s) - 1 :
           (a \o b)[j] = IF j <= k - 1 THEN a[j] ELSE b[j - (k - 1)]
  <2>1. /\ a \o b \in Seq(S) /\ Len(a \o b) = Len(a) + Len(b)
        /\ \A j \in 1 .. Len(a) + Len(b) :
             (a \o b)[j] = IF j <= Len(a) THEN a[j] ELSE b[j - Len(a)]
    BY <1>4, ConcatProperties, Zenon
  <2>2. Len(a) + Len(b) = Len(s) - 1
    BY <1>3, <1>4
  <2> QED  BY <1>4, <2>1, <2>2, Zenon
<1>6. \A j \in 1 .. Len(s) - 1 : (a \o b)[j] = s[IF j < k THEN j ELSE j + 1]
  <2> SUFFICES ASSUME NEW j \in 1 .. Len(s) - 1
               PROVE  (a \o b)[j] = s[IF j < k THEN j ELSE j + 1]
    OBVIOUS
  <2>1. CASE j < k
    BY <1>3, <1>4, <1>5, <2>1
  <2>2. CASE ~(j < k)
    <3>1. (a \o b)[j] = b[j - (k - 1)] /\ j - (k - 1) \in 1 .. Len(s) - k
      BY <1>3, <1>5, <2>2
    <3>2. b[j - (k - 1)] = s[k + (j - (k - 1))] /\ k + (j - (k - 1)) = j + 1
      BY <1>3, <1>4, <3>1
    <3> QED  BY <2>2, <3>1, <3>2
  <2> QED  BY <2>1, <2>2
<1> QED  BY <1>5, <1>6 DEF a, b

\* The same for its last entry.
LEMMA PoppedEntries ==
  ASSUME NEW S, NEW s \in Seq(S), s # <<>>
  PROVE  LET e == SubSeq(s, 1, Len(s) - 1) IN
         /\ e \in Seq(S) /\ Len(e) = Len(s) - 1
         /\ \A j \in 1 .. Len(e) : e[j] = s[j]
<1>1. Len(s) \in Nat \ {0}
  BY EmptySeq, Zenon
<1>2. PICK n \in Nat : n = Len(s) - 1
  BY <1>1
<1>3. n + 1 \in 1 .. Len(s) /\ n + 1 - 1 = n
  BY <1>1, <1>2
<1>4. /\ SubSeq(s, 1, n) \in Seq(S) /\ Len(SubSeq(s, 1, n)) = n
      /\ \A j \in 1 .. n : SubSeq(s, 1, n)[j] = s[j]
  BY <1>2, <1>3, LenProperties, SubSeqProperties
<1> QED  BY <1>2, <1>4

\* The first event of a queue, and the rest of it.
LEMMA QueueHead ==
  ASSUME NEW S, NEW s \in Seq(S), s # <<>>
  PROVE  /\ Head(s) \in S /\ Head(s) = s[1] /\ 1 \in 1 .. Len(s)
         /\ Tail(s) \in Seq(S) /\ Len(Tail(s)) = Len(s) - 1
         /\ \A k \in 1 .. Len(Tail(s)) : k + 1 \in 1 .. Len(s) /\ Tail(s)[k] = s[k + 1]
<1>1. Len(s) \in Nat \ {0}
  BY EmptySeq, Zenon
<1>2. /\ Head(s) \in S /\ Tail(s) \in Seq(S) /\ Len(Tail(s)) = Len(s) - 1
      /\ \A k \in 1 .. Len(Tail(s)) : Tail(s)[k] = s[k + 1]
  BY HeadTailProperties, Zenon
<1>3. Head(s) = s[1]
  BY <1>1, LenProperties
<1> QED  BY <1>1, <1>2, <1>3

\* A remainder is below its modulus.
LEMMA Modulo ==
  ASSUME NEW n \in Nat \ {0}, NEW x \in Nat
  PROVE  x % n \in 0 .. n - 1
BY Z3

-----------------------------------------------------------------------------
(* Types, and the order of the connections.                                *)

\* The threads, the objects and the bounds.
LEMMA Constants ==
  ASSUME TypeOK
  PROVE  /\ Sketch \in Threads /\ Worker \in Threads /\ Sketch # Worker
         /\ \A t \in Threads : t = Sketch \/ t = Worker
         /\ Server \in Sockets /\ Conns \subseteq Sockets /\ Server \notin Conns
         /\ Conns = 1 .. MaxConns /\ NoClient \notin Conns
         /\ MaxConns \in Nat /\ conns \in 0 .. MaxConns /\ arrived \in 0 .. conns
BY WiFiServerAssumption DEF TypeOK, Conns

\* A step of a method takes its thread from place to place; it changes handles and the
\* library's view of them in Create, EndDisconnect and EndDelete only.
LEMMA MethodMoves ==
  ASSUME TypeOK, NEW t \in Threads, MethodStep(t)
  PROVE  /\ self' = self /\ pc[t] # "idle" /\ \A u \in Threads : u # t => pc'[u] = pc[u]
         /\ pc[t] \in Beginning => pc'[t] \in Beginning \cup {"idle"}
         /\ pc[t] \in Ending => pc'[t] \in Ending \cup {"idle"}
         /\ pc[t] \in {"acceptLoad", "acceptStore"} => pc'[t] \in {"acceptStore", "idle"}
         /\ \A s \in Sockets : s # self[t] => status'[s] = status[s]
         /\ Create(t) \/ EndDisconnect(t) \/ EndDelete(t) \/ UNCHANGED <<handle, stack>>
<1> USE DEF At, GoTo
<1>1. self' = self /\ pc[t] # "idle"
  BY DEF MethodStep, BeginTest, BeginInit, BeginFlag, CountUpLoad, CountUpStore, Create,
     EndDisconnect, EndDelete, CountDownLoad, CountDownStore, EndTest, EndDeinit, EndFlag
<1>2. \A u \in Threads : u # t => pc'[u] = pc[u]
  BY DEF MethodStep, BeginTest, BeginInit, BeginFlag, CountUpLoad, CountUpStore, Create,
     EndDisconnect, EndDelete, CountDownLoad, CountDownStore, EndTest, EndDeinit, EndFlag,
     TypeOK, SocketTypeOK
<1>3. /\ pc[t] \in Beginning => pc'[t] \in Beginning \cup {"idle"}
      /\ pc[t] \in Ending => pc'[t] \in Ending \cup {"idle"}
      /\ pc[t] \in {"acceptLoad", "acceptStore"} => pc'[t] \in {"acceptStore", "idle"}
  <2>1. pc \in [Threads -> {"idle"} \cup Beginning \cup Ending \cup {"acceptLoad", "acceptStore"}]
    BY DEF TypeOK, SocketTypeOK, Beginning, Ending
  <2> QED
    BY <2>1 DEF MethodStep, BeginTest, BeginInit, BeginFlag, CountUpLoad, CountUpStore, Create,
       EndDisconnect, EndDelete, CountDownLoad, CountDownStore, EndTest, EndDeinit, EndFlag,
       Beginning, Ending
<1>4. \A s \in Sockets : s # self[t] => status'[s] = status[s]
  BY DEF MethodStep, BeginTest, BeginInit, BeginFlag, CountUpLoad, CountUpStore, Create,
     EndDisconnect, EndDelete, CountDownLoad, CountDownStore, EndTest, EndDeinit, EndFlag,
     SetStatus, TypeOK, SocketTypeOK
<1>5. Create(t) \/ EndDisconnect(t) \/ EndDelete(t) \/ UNCHANGED <<handle, stack>>
  BY DEF MethodStep, BeginTest, BeginInit, BeginFlag, CountUpLoad, CountUpStore, CountDownLoad,
     CountDownStore, EndTest, EndDeinit, EndFlag
<1> QED  BY <1>1, <1>2, <1>3, <1>4, <1>5

\* A list in order is as long as there are connections at most.
LEMMA OrderedIsShort ==
  ASSUME TypeOK, NEW list, Ordered(list)
  PROVE  Len(list) \in 0 .. conns /\ \A k \in 1 .. Len(list) : list[k] \in Conns
<1>1. Len(list) \in Nat
  BY LenProperties DEF Ordered
<1>2. Len(list) # 0 => list[Len(list)] \in Len(list) .. arrived
  BY <1>1 DEF Ordered
<1>3. \A k \in 1 .. Len(list) : list[k] \in Conns
  BY ElementOfSeq DEF Ordered
<1> QED  BY <1>1, <1>2, <1>3, Constants

\* Removing an entry leaves a list in order, of entries that it had.
LEMMA ErasedOrdered ==
  ASSUME TypeOK, OrderInv, NEW k, Erase(k), arrived' = arrived
  PROVE  /\ Ordered(clients')
         /\ \A j \in 1 .. Len(clients') : \E m \in 1 .. Len(clients) : clients'[j] = clients[m]
<1>1. clients \in Seq(Conns) /\ Len(clients) \in Nat
  BY LenProperties DEF TypeOK
<1>2. CASE k \in 1 .. Len(clients)
  <2>1. /\ clients' \in Seq(Conns) /\ Len(clients') = Len(clients) - 1
        /\ \A j \in 1 .. Len(clients') : clients'[j] = clients[IF j < k THEN j ELSE j + 1]
    BY <1>1, <1>2, ErasedEntries DEF Erase
  <2>2. \A j \in 1 .. Len(clients') : (IF j < k THEN j ELSE j + 1) \in j .. Len(clients)
    BY <1>1, <1>2, <2>1
  <2>3. \A j \in 1 .. Len(clients') : clients'[j] \in j .. arrived
    <3> SUFFICES ASSUME NEW j \in 1 .. Len(clients')  PROVE clients'[j] \in j .. arrived
      OBVIOUS
    <3>1. PICK x : x = IF j < k THEN j ELSE j + 1
      OBVIOUS
    <3>2. x \in j .. Len(clients) /\ clients'[j] = clients[x]
      BY <2>1, <2>2, <3>1
    <3>3. clients[x] \in x .. arrived
      BY <1>1, <3>2 DEF OrderInv, Ordered
    <3> QED  BY <1>1, <2>1, <3>2, <3>3
  <2>4. \A j, m \in 1 .. Len(clients') : j < m => clients'[j] < clients'[m]
    <3> SUFFICES ASSUME NEW j \in 1 .. Len(clients'), NEW m \in 1 .. Len(clients'), j < m
                 PROVE  clients'[j] < clients'[m]
      OBVIOUS
    <3>1. (IF j < k THEN j ELSE j + 1) < (IF m < k THEN m ELSE m + 1)
      BY <1>1, <1>2, <2>1
    <3>2. PICK x, y : x = (IF j < k THEN j ELSE j + 1) /\ y = (IF m < k THEN m ELSE m + 1)
      OBVIOUS
    <3>3. /\ x \in 1 .. Len(clients) /\ y \in 1 .. Len(clients) /\ x < y
          /\ clients'[j] = clients[x] /\ clients'[m] = clients[y]
      BY <1>1, <2>1, <2>2, <3>1, <3>2
    <3> QED  BY <3>3 DEF OrderInv, Ordered
  <2> QED  BY <1>1, <2>1, <2>2, <2>3, <2>4 DEF Ordered
<1>3. CASE k \notin 1 .. Len(clients)
  BY <1>3 DEF Erase, OrderInv, Ordered
<1> QED  BY <1>2, <1>3

\* So does removing the last one.
LEMMA PoppedOrdered ==
  ASSUME TypeOK, OrderInv, arrived' = arrived,
         clients' = IF clients = <<>> THEN <<>> ELSE SubSeq(clients, 1, Len(clients) - 1)
  PROVE  /\ Ordered(clients')
         /\ \A j \in 1 .. Len(clients') : \E m \in 1 .. Len(clients) : clients'[j] = clients[m]
<1>1. clients \in Seq(Conns) /\ Len(clients) \in Nat
  BY LenProperties DEF TypeOK
<1>2. CASE clients = <<>>
  BY <1>2 DEF OrderInv, Ordered
<1>3. CASE clients # <<>>
  <2>1. /\ clients' \in Seq(Conns) /\ Len(clients') = Len(clients) - 1
        /\ \A j \in 1 .. Len(clients') : clients'[j] = clients[j]
    BY <1>1, <1>3, PoppedEntries
  <2>2. \A j \in 1 .. Len(clients') : j \in 1 .. Len(clients)
    BY <1>1, <2>1
  <2>3. Ordered(clients')
    BY <2>1, <2>2 DEF OrderInv, Ordered
  <2> QED  BY <2>1, <2>2, <2>3
<1> QED  BY <1>2, <1>3

\* With fewer entries, what is yet to be accepted still comes after them.
LEMMA AfterFewer ==
  ASSUME After(clients, events), NEW list,
         \A j \in 1 .. Len(list) : \E m \in 1 .. Len(clients) : list[j] = clients[m]
  PROVE  After(list, events)
BY DEF After

\* An object whose method is called is one of the program's.
LEMMA ListedObjects ==
  ASSUME TypeOK, OrderInv
  PROVE  /\ \A k \in 1 .. Len(clients) : clients[k] \in Conns /\ clients[k] \in Sockets
         /\ Len(clients) \in 0 .. conns
<1>1. Len(clients) \in 0 .. conns /\ \A k \in 1 .. Len(clients) : clients[k] \in Conns
  BY OrderedIsShort DEF OrderInv
<1> QED  BY <1>1, Constants

\* The sockets keep their types: every object a method is called on is one of them.
LEMMA SocketTypesKept ==
  ASSUME TypeOK, OrderInv, Next
  PROVE  SocketTypeOK'
<1> USE DEF At, SetStatus, Take
<1>1. SocketTypeOK /\ UNCHANGED reuse
  BY DEF TypeOK, Next, worldVars
<1>2. CASE SocketStep
  BY <1>1, <1>2, MethodTypes DEF SocketStep
<1>3. CASE AcceptClient
  <2>1. self[Worker] \in Sockets
    BY <1>1, Constants DEF SocketTypeOK
  <2> QED  BY <1>1, <1>3, <2>1, AcceptTypes, Constants DEF AcceptClient
<1>4. ASSUME NEW t \in Threads, NEW s \in Sockets, NEW place \in {"begin", "end"},
             Call(t, s, place),
             UNCHANGED <<handle, status, stack, count, initialized, up, loaded, leaks>>
      PROVE  SocketTypeOK'
  BY <1>1, <1>4, CallTypes
<1>5. CASE Begin \/ StopClient \/ EndServer
  <2>1. ret # NoClient => ret \in Sockets
    BY Constants DEF TypeOK
  <2>2. \E s \in Sockets, place \in {"begin", "end"} :
          /\ Call(Sketch, s, place)
          /\ UNCHANGED <<handle, status, stack, count, initialized, up, loaded, leaks>>
    BY <1>5, <2>1, Constants DEF Begin, StopClient, EndServer
  <2> QED  BY <1>4, <2>2, Constants
<1>6. CASE EndStop
  <2>1. clients[i + 1] \in Sockets
    BY <1>6, ListedObjects DEF EndStop, TypeOK
  <2> QED  BY <1>4, <1>6, <2>1, Constants DEF EndStop
<1>7. CASE FindEnded
  <2>1. clients[found] \in Sockets
    BY <1>7, ListedObjects DEF FindEnded, TypeOK, OrderInv
  <2> QED  BY <1>4, <1>7, <2>1, Constants DEF FindEnded
<1>8. CASE ConnectionCallback \/ FindReceiver
  <2>1. PICK s : /\ self' = [self EXCEPT ![Worker] = s] /\ s \in Sockets
                 /\ UNCHANGED <<handle, status, stack, count, initialized, up, pc, loaded, leaks>>
    <3>1. CASE ConnectionCallback
      <4>1. Head(events).on \in Sockets
        BY <3>1, QueueHead, Constants DEF ConnectionCallback, OrderInv, Events
      <4> QED  BY <3>1, <4>1 DEF ConnectionCallback
    <3>2. CASE FindReceiver
      <4>1. clients[found] \in Sockets
        BY <3>2, ListedObjects DEF FindReceiver, TypeOK, OrderInv
      <4> QED  BY <3>2, <4>1 DEF FindReceiver
    <3> QED  BY <1>8, <3>1, <3>2
  <2>2. self' \in [Threads -> Sockets]
    BY <1>1, <2>1 DEF SocketTypeOK
  <2> QED  BY <1>1, <2>1, <2>2 DEF SocketTypeOK
<1>9. CASE AcceptFails \/ Receive \/ BeginListen
  <2>1. UNCHANGED <<handle, stack, count, initialized, up, threadVars, leaks>>
    BY <1>9 DEF AcceptFails, Receive, BeginListen
  <2>2. \E s, new : /\ new \in {"LISTENING", "ERROR"}
                    /\ status' \in {status, [status EXCEPT ![s] = new]}
    <3>1. CASE AcceptFails
      BY <3>1 DEF AcceptFails
    <3>2. CASE Receive
      BY <3>2 DEF Receive
    <3>3. CASE BeginListen
      BY <3>3 DEF BeginListen
    <3> QED  BY <1>9, <3>1, <3>2, <3>3
  <2>3. status' \in [Sockets -> Statuses]
    BY <1>1, <2>2 DEF SocketTypeOK, Statuses
  <2> QED  BY <1>1, <2>1, <2>3 DEF SocketTypeOK, threadVars
<1>10. CASE UNCHANGED socketVars
  BY <1>1, <1>10 DEF SocketTypeOK, socketVars, threadVars
<1> QED
  BY <1>2, <1>3, <1>5, <1>6, <1>7, <1>8, <1>9, <1>10
     DEF Next, Peers, WorkerStep, SketchStep, PeerConnect, PeerSend, PeerClose, Accepted,
         FindClient, FindNext, EraseClient, Available, AvailableSearch, AvailableNone,
         ReadClient, StopReturn, End, EndErase

\* A step that touches neither the list, nor the queue, nor a connection.
LEMMA OrderKept ==
  ASSUME OrderInv, UNCHANGED <<clients, events, arrived, owner, wpc, on, found, conns>>,
         self'[Worker] = self[Worker],
         spc' = "endErase" => i' < conns,
         last' # 0 => last' < conns
  PROVE  OrderInv'
BY DEF OrderInv, Ordered, After

\* The steps of the sketch, and of a method.
LEMMA SketchOrder ==
  ASSUME TypeOK, OrderInv, SocketStep \/ SketchStep, UNCHANGED worldVars, SocketTypeOK'
  PROVE  TypeOK' /\ OrderInv'
<1> USE DEF At, SetStatus
<1>1. /\ UNCHANGED <<reuse, stops, conns>>
      /\ conns \in 0 .. MaxConns /\ MaxConns \in Nat /\ Len(clients) \in 0 .. conns
      /\ \A k \in 1 .. Len(clients) : clients[k] \in Conns
      /\ Sketch \in Threads /\ Worker \in Threads /\ Sketch # Worker
  BY Constants, ListedObjects DEF worldVars
<1>2. CASE EndErase
  <2>1. /\ UNCHANGED <<socketVars, rx, beginVars, peerVars, events, workerVars, last, ret>>
        /\ i' = i + 1 /\ spc = "endErase" /\ spc' = "endLoop" /\ Erase(i + 1)
    BY <1>2 DEF EndErase
  <2>2. Ordered(clients') /\ After(clients', events)
    BY <2>1, ErasedOrdered, AfterFewer DEF OrderInv, peerVars
  <2>3. Ordered(clients)' /\ After(clients, events)'
    BY <2>1, <2>2 DEF Ordered, After, peerVars
  <2>4. OrderInv'
    BY <1>1, <2>1, <2>3 DEF OrderInv, peerVars, workerVars, socketVars, threadVars
  <2>5. i' \in 0 .. MaxConns
    BY <1>1, <2>1 DEF OrderInv, TypeOK
  <2>6. clients' \in Seq(Conns) /\ Len(clients') <= conns
    BY <2>2, OrderedIsShort DEF Ordered
  <2> QED  BY <1>1, <2>1, <2>4, <2>5, <2>6 DEF TypeOK, beginVars, peerVars, workerVars
<1>3. CASE ~EndErase
  <2>1. /\ UNCHANGED <<clients, events, arrived, owner, closed, unread, wpc, on, found>>
        /\ self'[Worker] = self[Worker]
    <3>1. CASE SocketStep
      BY <3>1, MethodMoves DEF SocketStep, listVars, peerVars, workerVars
    <3>2. CASE Begin \/ StopClient \/ EndStop \/ EndServer
      BY <1>1, <3>2 DEF Begin, StopClient, EndStop, EndServer, Call, listVars, peerVars,
         workerVars, TypeOK, SocketTypeOK
    <3>3. CASE BeginListen \/ Available \/ AvailableSearch \/ AvailableNone \/ ReadClient
               \/ StopReturn \/ End
      BY <3>3 DEF BeginListen, Available, AvailableSearch, AvailableNone, ReadClient,
         StopReturn, End, listVars, peerVars, workerVars, socketVars, threadVars
    <3> QED  BY <1>3, <3>1, <3>2, <3>3 DEF SketchStep
  <2>2. /\ registered' \subseteq Callbacks
        /\ listening' \in BOOLEAN
        /\ begins' \in 0 .. MaxBegins
        /\ rx' \in [Conns -> SUBSET Conns]
    <3>1. CASE Begin
      <4>1. begins' \in 0 .. MaxBegins
        BY <3>1, WiFiServerAssumption DEF Begin, TypeOK
      <4> QED  BY <3>1, <4>1 DEF Begin, TypeOK, listVars
    <3>2. CASE BeginListen
      BY <3>2 DEF BeginListen, TypeOK, listVars
    <3>3. CASE EndServer
      BY <3>3 DEF EndServer, TypeOK, listVars
    <3>4. CASE ReadClient
      BY <3>4 DEF ReadClient, TypeOK, beginVars
    <3>5. CASE SocketStep \/ Available \/ AvailableSearch \/ AvailableNone \/ StopClient
               \/ StopReturn \/ End \/ EndStop
      BY <3>5 DEF SocketStep, Available, AvailableSearch, AvailableNone, StopClient,
         StopReturn, End, EndStop, TypeOK, beginVars, listVars
    <3> QED  BY <1>3, <3>1, <3>2, <3>3, <3>4, <3>5 DEF SketchStep
  <2>3. /\ spc' \in {"idle", "begin", "search", "stop", "endLoop", "endErase"}
        /\ ret' \in Conns \cup {NoClient}
    <3>1. CASE AvailableSearch
      <4>1. clients[i + 1] \in Conns
        BY <1>1, <3>1 DEF AvailableSearch, TypeOK
      <4> QED  BY <3>1, <4>1 DEF AvailableSearch, TypeOK
    <3>2. CASE ~AvailableSearch
      BY <1>3, <3>2 DEF SketchStep, SocketStep, Begin, BeginListen, Available, AvailableNone,
         ReadClient, StopClient, StopReturn, End, EndStop, EndServer, TypeOK, sketchVars
    <3> QED  BY <3>1, <3>2
  <2>4. /\ i' \in 0 .. MaxConns /\ last' \in 0 .. MaxConns
        /\ last' # 0 => last' < conns
        /\ spc' = "endErase" => i' < conns
    <3>1. CASE Available
      <4>1. clients # <<>> => last % Len(clients) \in 0 .. Len(clients) - 1
        <5>1. clients # <<>> => Len(clients) \in Nat \ {0}
          BY EmptySeq DEF TypeOK
        <5>2. last \in Nat
          BY <1>1 DEF TypeOK
        <5> QED  BY <5>1, <5>2, Modulo
      <4>2. i' = last' /\ spc' = "search" /\ (last' = last \/ last' \in 0 .. Len(clients) - 1)
        BY <3>1, <4>1 DEF Available
      <4> QED  BY <1>1, <4>2 DEF TypeOK, OrderInv
    <3>2. CASE AvailableSearch
      <4>1. i < Len(clients) /\ spc' # "endErase" /\ i' \in {i, i + 1} /\ last' \in {i, last}
        BY <3>2 DEF AvailableSearch, TypeOK
      <4> QED  BY <1>1, <4>1 DEF TypeOK, OrderInv
    <3>3. CASE EndStop
      BY <1>1, <3>3 DEF EndStop, TypeOK, OrderInv
    <3>4. CASE End
      BY <1>1, <3>4 DEF End, TypeOK, OrderInv
    <3>5. CASE SocketStep \/ Begin \/ BeginListen \/ AvailableNone
               \/ ReadClient \/ StopClient \/ StopReturn \/ EndServer
      <4>1. i' = i /\ last' = last /\ (spc' = "endErase" => spc = "endErase")
        BY <3>5 DEF SocketStep, Begin, BeginListen, AvailableNone, ReadClient,
           StopClient, StopReturn, EndServer, sketchVars
      <4> QED  BY <4>1 DEF TypeOK, OrderInv
    <3> QED  BY <1>3, <3>1, <3>2, <3>3, <3>4, <3>5 DEF SketchStep
  <2>5. OrderInv'
    BY <1>1, <2>1, <2>4, OrderKept
  <2> QED  BY <1>1, <2>1, <2>2, <2>3, <2>4, <2>5 DEF TypeOK
<1> QED  BY <1>2, <1>3

\* An event that does not concern the list joins the queue.
LEMMA EventOrder ==
  ASSUME TypeOK, OrderInv, NEW kind \in {"receive", "disconnection"}, NEW h \in Handles,
         Event(kind, h), UNCHANGED <<arrived, clients>>
  PROVE  events' \in Seq(Events) /\ After(clients, events)'
<1>1. [kind |-> kind, on |-> h] \in Events
  BY DEF Events
<1>2. CASE events' = events
  BY <1>2 DEF OrderInv, After
<1>3. CASE events' = Append(events, [kind |-> kind, on |-> h])
  <2>1. /\ events' \in Seq(Events) /\ Len(events') = Len(events) + 1 /\ Len(events) \in Nat
        /\ \A k \in 1 .. Len(events) : events'[k] = events[k]
        /\ events'[Len(events) + 1] = [kind |-> kind, on |-> h]
    BY <1>1, <1>3, AppendProperties, LenProperties DEF OrderInv
  <2>2. \A m \in 1 .. Len(events') : events'[m].kind = "connection" =>
          m \in 1 .. Len(events) /\ events'[m] = events[m]
    BY <2>1
  <2> QED  BY <2>1, <2>2 DEF OrderInv, After
<1> QED  BY <1>2, <1>3 DEF Event

\* The worker takes an event.
LEMMA TakeOrder ==
  ASSUME TypeOK, OrderInv, NEW kind, Take(kind), arrived' = arrived
  PROVE  /\ events' \in Seq(Events) /\ After(clients, events') /\ Head(events) \in Events
         /\ Head(events).kind = kind
         /\ kind \in {"receive", "disconnection"} => Head(events).on \in Handles
         /\ kind = "connection" =>
              /\ Head(events).on \in Conns /\ Head(events).on <= arrived
              /\ \A k \in 1 .. Len(clients) : clients[k] < Head(events).on
              /\ \A m \in 1 .. Len(events') : events'[m].kind = "connection" =>
                   Head(events).on < events'[m].on
<1>1. events # <<>> /\ Head(events).kind = kind /\ events' = Tail(events)
  BY DEF Take
<1>2. /\ Head(events) \in Events /\ Head(events) = events[1] /\ 1 \in 1 .. Len(events)
      /\ events' \in Seq(Events) /\ Len(events') = Len(events) - 1
      /\ \A k \in 1 .. Len(events') : k + 1 \in 1 .. Len(events) /\ events'[k] = events[k + 1]
  BY <1>1, QueueHead DEF OrderInv
<1>3. After(clients, events')
  <2>1. \A k, m \in 1 .. Len(events') : k < m => k + 1 < m + 1
    BY <1>2
  <2> QED  BY <1>2, <2>1 DEF OrderInv, After
<1>4. /\ kind = "connection" => Head(events).on \in Conns
      /\ kind \in {"receive", "disconnection"} => Head(events).on \in Handles
  BY <1>1, <1>2 DEF Events
<1>5. kind = "connection" =>
        /\ Head(events).on <= arrived
        /\ \A k \in 1 .. Len(clients) : clients[k] < Head(events).on
  BY <1>1, <1>2 DEF OrderInv, After
<1>6. \A m \in 1 .. Len(events') : 1 < m + 1
  BY <1>2
<1>7. kind = "connection" =>
        \A m \in 1 .. Len(events') : events'[m].kind = "connection" =>
          Head(events).on < events'[m].on
  BY <1>1, <1>2, <1>6 DEF OrderInv, After
<1> QED  BY <1>1, <1>2, <1>3, <1>4, <1>5, <1>7

\* The steps of the peers.
LEMMA PeerOrder ==
  ASSUME TypeOK, OrderInv, Peers, UNCHANGED worldVars, SocketTypeOK'
  PROVE  TypeOK' /\ OrderInv'
<1>1. /\ UNCHANGED <<reuse, stops, conns, clients, rx, registered, listening, begins, wpc, on,
                     found, owner, spc, i, last, ret, self>>
      /\ conns \in 0 .. MaxConns /\ MaxConns \in Nat /\ arrived \in 0 .. conns
  BY Constants DEF worldVars, Peers, PeerConnect, PeerSend, PeerClose, listVars, beginVars,
     workerVars, sketchVars, socketVars, threadVars
<1>2. CASE PeerConnect
  <2>1. /\ arrived' = arrived + 1 /\ arrived < conns /\ closed' = closed /\ unread' = unread
        /\ Event("connection", arrived + 1)
    BY <1>2 DEF PeerConnect
  <2>2. arrived' \in 0 .. conns /\ arrived + 1 \in Conns
    BY <1>1, <2>1 DEF Conns
  <2>3. Ordered(clients)'
    BY <1>1, <2>1, <2>2, OrderedIsShort DEF OrderInv, Ordered
  <2>4. events' \in Seq(Events) /\ After(clients, events)'
    <3>1. [kind |-> "connection", on |-> arrived + 1] \in Events
      BY <2>2 DEF Events
    <3>2. /\ \A k \in 1 .. Len(clients) : clients[k] < arrived + 1
          /\ \A m \in 1 .. Len(events) : events[m].kind = "connection" =>
               events[m].on < arrived + 1 /\ events[m].on <= arrived'
      <4>1. \A m \in 1 .. Len(events) : events[m].kind = "connection" =>
              events[m].on \in Conns /\ events[m].on <= arrived
        BY ElementOfSeq DEF OrderInv, After, Events
      <4>2. \A k \in 1 .. Len(clients) : clients[k] \in k .. arrived
        BY DEF OrderInv, Ordered
      <4> QED  BY <1>1, <2>1, <4>1, <4>2 DEF Conns
    <3>3. CASE events' = events
      BY <1>1, <3>2, <3>3 DEF OrderInv, After
    <3>4. CASE events' = Append(events, [kind |-> "connection", on |-> arrived + 1])
      <4>1. /\ events' \in Seq(Events) /\ Len(events') = Len(events) + 1 /\ Len(events) \in Nat
            /\ \A k \in 1 .. Len(events) : events'[k] = events[k]
            /\ events'[Len(events) + 1] = [kind |-> "connection", on |-> arrived + 1]
        BY <3>1, <3>4, AppendProperties, LenProperties DEF OrderInv
      <4>2. \A m \in 1 .. Len(events') : m \in 1 .. Len(events) \/
              (m = Len(events) + 1 /\ events'[m].on = arrived + 1)
        BY <4>1
      <4>3. ASSUME NEW m \in 1 .. Len(events'), events'[m].kind = "connection"
            PROVE  /\ events'[m].on <= arrived'
                   /\ \A k \in 1 .. Len(clients) : clients[k] < events'[m].on
                   /\ \A k \in 1 .. Len(events') :
                        k < m /\ events'[k].kind = "connection" => events'[k].on < events'[m].on
        <5>1. CASE m \in 1 .. Len(events)
          <6>1. events'[m] = events[m]
            BY <4>1, <5>1
          <6>2. \A k \in 1 .. Len(events') :
                  k < m => k \in 1 .. Len(events) /\ events'[k] = events[k]
            BY <4>1, <5>1
          <6> QED  BY <3>2, <4>3, <5>1, <6>1, <6>2 DEF OrderInv, After
        <5>2. CASE m = Len(events) + 1
          <6>1. events'[m].on = arrived + 1
            BY <4>1, <5>2
          <6>2. \A k \in 1 .. Len(events') :
                  k < m => k \in 1 .. Len(events) /\ events'[k] = events[k]
            BY <4>1, <5>2
          <6>3. arrived + 1 <= arrived'
            BY <1>1, <2>1
          <6> QED  BY <3>2, <6>1, <6>2, <6>3
        <5> QED  BY <4>2, <5>1, <5>2
      <4> QED  BY <1>1, <4>1, <4>3 DEF After
    <3> QED  BY <2>1, <3>3, <3>4 DEF Event
  <2>5. \A h \in Handles : owner'[h] # NoClient => owner'[h] <= arrived'
    <3>1. \A h \in Handles : owner[h] # NoClient => owner[h] \in Conns /\ owner[h] <= arrived
      BY DEF OrderInv, TypeOK
    <3> QED  BY <1>1, <2>1, <3>1 DEF Conns
  <2>6. OrderInv'
    <3>1. wpc = "accept" => self[Worker] \in 1 .. arrived + 1
      BY <1>1 DEF OrderInv
    <3> QED  BY <1>1, <2>1, <2>3, <2>4, <2>5, <3>1 DEF OrderInv
  <2>7. closed' \subseteq 1 .. arrived' /\ unread' \subseteq 1 .. arrived'
    BY <1>1, <2>1 DEF TypeOK
  <2>8. \A k \in 1 .. Len(events') : events'[k].kind \in Callbacks
    BY <2>4, ElementOfSeq DEF Events, Callbacks
  <2> QED  BY <1>1, <2>1, <2>2, <2>6, <2>7, <2>8 DEF TypeOK
<1>3. CASE PeerSend \/ PeerClose
  <2>1. PICK h \in Handles, kind \in {"receive", "disconnection"} :
          /\ owner[h] \in Conns /\ Event(kind, h)
          /\ closed' \in {closed, closed \cup {owner[h]}}
          /\ unread' \in {unread, unread \cup {owner[h]}}
          /\ arrived' = arrived
    BY <1>3 DEF PeerSend, PeerClose, HasPeer
  <2>2. events' \in Seq(Events) /\ After(clients, events)'
    BY <1>1, <2>1, EventOrder
  <2>3. closed' \subseteq 1 .. arrived /\ unread' \subseteq 1 .. arrived
    <3>1. owner[h] # NoClient /\ owner[h] \in 1 .. arrived
      BY <1>1, <2>1, WiFiServerAssumption DEF OrderInv, Conns
    <3> QED  BY <2>1, <3>1 DEF TypeOK
  <2>4. OrderInv'
    BY <1>1, <2>1, <2>2 DEF OrderInv, Ordered
  <2>5. \A k \in 1 .. Len(events') : events'[k].kind \in Callbacks
    BY <2>2, ElementOfSeq DEF Events, Callbacks
  <2> QED  BY <1>1, <2>1, <2>3, <2>4, <2>5 DEF TypeOK
<1> QED  BY <1>2, <1>3 DEF Peers

\* The steps of the worker.
LEMMA WorkerOrder ==
  ASSUME TypeOK, OrderInv, WorkerStep, UNCHANGED worldVars, SocketTypeOK'
  PROVE  TypeOK' /\ OrderInv'
<1> USE DEF At, SetStatus
<1>1. /\ UNCHANGED <<reuse, stops, conns, registered, listening, begins, arrived>>
      /\ UNCHANGED <<spc, i, last, ret>>
      /\ conns \in 0 .. MaxConns /\ MaxConns \in Nat /\ arrived \in 0 .. conns
      /\ Len(clients) \in 0 .. conns /\ Worker \in Threads
      /\ \A k \in 1 .. Len(clients) : clients[k] \in Conns
  BY Constants, ListedObjects DEF worldVars, WorkerStep, ConnectionCallback, AcceptClient,
     AcceptFails, Accepted, FindClient, FindNext, FindReceiver, Receive, FindEnded, EraseClient,
     beginVars, peerVars, sketchVars
<1>2. ASSUME Ordered(clients)', events' \in Seq(Events), After(clients, events)',
             owner' = owner, closed' = closed, unread' \subseteq unread,
             rx' \in [Conns -> SUBSET Conns],
             wpc' \in {"idle", "accept", "accepting", "findReceiver", "receive", "findEnded",
                       "erase"},
             on' \in Handles \cup {NoHandle}, found' \in 0 .. MaxConns + 1,
             wpc' = "accept" => self'[Worker] \in 1 .. arrived,
             wpc' = "receive" => self'[Worker] \in Conns,
             wpc' \in {"findReceiver", "findEnded"} => on' \in Handles /\ found' # 0
      PROVE  TypeOK' /\ OrderInv'
  <2>1. OrderInv'
    BY <1>1, <1>2 DEF OrderInv
  <2>2. clients' \in Seq(Conns) /\ Len(clients') <= conns
    <3>1. Ordered(clients')
      BY <1>1, <1>2 DEF Ordered
    <3> QED  BY <1>1, <3>1, OrderedIsShort DEF Ordered
  <2>3. \A k \in 1 .. Len(events') : events'[k].kind \in Callbacks
    BY <1>2, ElementOfSeq DEF Events, Callbacks
  <2> QED  BY <1>1, <1>2, <2>1, <2>2, <2>3 DEF TypeOK
<1>3. CASE ConnectionCallback
  <2>1. /\ Take("connection") /\ clients' = Append(clients, Head(events).on) /\ wpc' = "accept"
        /\ self' = [self EXCEPT ![Worker] = Head(events).on]
        /\ UNCHANGED <<rx, owner, closed, unread, on, found>>
    BY <1>3 DEF ConnectionCallback, peerVars
  <2>2. /\ events' \in Seq(Events) /\ After(clients, events')
        /\ Head(events).on \in Conns /\ Head(events).on <= arrived
        /\ \A k \in 1 .. Len(clients) : clients[k] < Head(events).on
        /\ \A m \in 1 .. Len(events') : events'[m].kind = "connection" =>
             Head(events).on < events'[m].on
    BY <1>1, <2>1, TakeOrder
  <2>3. /\ clients' \in Seq(Conns) /\ Len(clients') = Len(clients) + 1
        /\ \A k \in 1 .. Len(clients) : clients'[k] = clients[k]
        /\ clients'[Len(clients) + 1] = Head(events).on
    BY <2>1, <2>2, AppendProperties DEF TypeOK
  <2>4. Head(events).on \in Len(clients) + 1 .. arrived
    <3>1. Len(clients) # 0 => clients[Len(clients)] >= Len(clients)
      BY <1>1 DEF OrderInv, Ordered
    <3>2. Len(clients) # 0 =>
            clients[Len(clients)] < Head(events).on /\ clients[Len(clients)] \in Int
      BY <1>1, <2>2 DEF Conns
    <3> QED  BY <1>1, <2>2, <3>1, <3>2 DEF Conns
  <2>5. \A k \in 1 .. Len(clients') : k \in 1 .. Len(clients) \/ k = Len(clients) + 1
    BY <1>1, <2>3
  <2>6. \A k \in 1 .. Len(clients') : clients'[k] \in k .. arrived
    BY <2>3, <2>4, <2>5 DEF OrderInv, Ordered
  <2>7. \A k, m \in 1 .. Len(clients') : k < m => clients'[k] < clients'[m]
    <3> SUFFICES ASSUME NEW k \in 1 .. Len(clients'), NEW m \in 1 .. Len(clients'), k < m
                 PROVE  clients'[k] < clients'[m]
      OBVIOUS
    <3>1. k \in 1 .. Len(clients)
      BY <1>1, <2>3
    <3>2. CASE m \in 1 .. Len(clients)
      BY <2>3, <3>1, <3>2 DEF OrderInv, Ordered
    <3>3. CASE m = Len(clients) + 1
      BY <2>2, <2>3, <3>1, <3>3
    <3> QED  BY <2>5, <3>2, <3>3
  <2>8. Ordered(clients)'
    BY <1>1, <2>3, <2>6, <2>7 DEF Ordered
  <2>9. After(clients, events)'
    BY <1>1, <2>2, <2>3, <2>5 DEF After
  <2>10. self'[Worker] \in 1 .. arrived
    BY <1>1, <2>1, <2>4 DEF TypeOK, SocketTypeOK
  <2> QED  BY <1>2, <2>1, <2>2, <2>8, <2>9, <2>10 DEF TypeOK
<1>4. CASE AcceptClient
  <2>1. PICK h \in Handles : owner' = [owner EXCEPT ![h] = self[Worker]]
    BY <1>4 DEF AcceptClient
  <2>2. /\ UNCHANGED <<clients, rx, closed, unread, events, on, found>>
        /\ wpc = "accept"
        /\ wpc' = "accepting"
    BY <1>4 DEF AcceptClient, listVars
  <2>3. self[Worker] \in 1 .. arrived /\ self[Worker] \in Conns
    BY <1>1, <2>2 DEF OrderInv, Conns
  <2>4. \A g \in Handles : owner'[g] = owner[g] \/ owner'[g] = self[Worker]
    BY <2>1 DEF TypeOK
  <2>5. owner' \in [Handles -> Conns \cup {NoClient}]
    BY <2>1, <2>3 DEF TypeOK
  <2>6. Ordered(clients)' /\ After(clients, events)'
    BY <1>1, <2>2 DEF OrderInv, Ordered, After
  <2>7. \A g \in Handles : owner'[g] # NoClient => owner'[g] <= arrived'
    BY <1>1, <2>3, <2>4 DEF OrderInv
  <2>8. OrderInv'
    BY <1>1, <2>2, <2>6, <2>7 DEF OrderInv
  <2> QED  BY <1>1, <2>2, <2>5, <2>8 DEF TypeOK
<1>5. CASE AcceptFails
  <2>1. /\ clients' = IF clients = <<>> THEN <<>> ELSE SubSeq(clients, 1, Len(clients) - 1)
        /\ Return /\ UNCHANGED <<rx, owner, closed, unread, events>>
    BY <1>5 DEF AcceptFails, peerVars
  <2>2. Ordered(clients') /\ After(clients', events)
    BY <1>1, <2>1, PoppedOrdered, AfterFewer DEF OrderInv
  <2>3. Ordered(clients)' /\ After(clients, events)'
    BY <1>1, <2>1, <2>2 DEF Ordered, After
  <2> QED  BY <1>1, <1>2, <2>1, <2>3 DEF TypeOK, OrderInv, Return
<1>6. CASE Accepted
  <2>1. Return /\ UNCHANGED <<clients, rx, owner, closed, unread, events>>
    BY <1>6 DEF Accepted, listVars, peerVars
  <2>2. Ordered(clients)' /\ After(clients, events)'
    BY <1>1, <2>1 DEF OrderInv, Ordered, After
  <2> QED  BY <1>1, <1>2, <2>1, <2>2 DEF TypeOK, OrderInv, Return
<1>7. CASE FindClient
  <2>1. /\ Take("receive") \/ Take("disconnection")
        /\ UNCHANGED <<clients, rx, owner, closed, unread>>
        /\ wpc' \in {"findReceiver", "findEnded"} /\ on' = Head(events).on /\ found' = 1
    BY <1>7 DEF FindClient, listVars, peerVars
  <2>2. events' \in Seq(Events) /\ After(clients, events') /\ Head(events).on \in Handles
    BY <1>1, <2>1, TakeOrder
  <2>3. Ordered(clients)' /\ After(clients, events)'
    BY <1>1, <2>1, <2>2 DEF OrderInv, Ordered, After
  <2> QED  BY <1>1, <1>2, <2>1, <2>2, <2>3 DEF TypeOK
<1>8. CASE FindNext \/ FindReceiver \/ FindEnded
  <2>1. /\ UNCHANGED <<clients, rx, owner, closed, unread, events>>
        /\ wpc \in {"findReceiver", "findEnded"}
    BY <1>8 DEF FindNext, FindReceiver, FindEnded, listVars, peerVars
  <2>2. Ordered(clients)' /\ After(clients, events)'
    BY <1>1, <2>1 DEF OrderInv, Ordered, After
  <2>3. on \in Handles /\ found \in 1 .. MaxConns + 1
    BY <2>1 DEF OrderInv
  <2>4. /\ wpc' \in {wpc, "idle", "receive", "erase"}
        /\ wpc' \in {"findReceiver", "findEnded"} => on' = on /\ found' = found + 1
        /\ on' \in {on, NoHandle} /\ found' \in {0, found, found + 1}
        /\ found' = found + 1 => found <= Len(clients)
    BY <1>1, <1>8, <2>1, <2>3 DEF FindNext, FindReceiver, FindEnded, Return
  <2>5. wpc' = "receive" => self'[Worker] \in Conns
    <3>1. wpc' = "receive" => FindReceiver
      BY <1>8, <2>1 DEF FindNext, FindEnded, Return
    <3>2. FindReceiver => self'[Worker] = clients[found] /\ clients[found] \in Conns
      BY <1>1, <2>3 DEF FindReceiver, TypeOK, SocketTypeOK
    <3> QED  BY <3>1, <3>2
  <2>6. /\ on' \in Handles \cup {NoHandle} /\ found' \in 0 .. MaxConns + 1
        /\ wpc' \in {"findReceiver", "findEnded"} => on' \in Handles /\ found' # 0
    BY <1>1, <2>3, <2>4
  <2>7. rx' \in [Conns -> SUBSET Conns]
    BY <2>1 DEF TypeOK
  <2>8. wpc' \in {"idle", "findReceiver", "receive", "findEnded", "erase"}
    BY <2>1, <2>4
  <2>9. events' \in Seq(Events) /\ owner' = owner /\ closed' = closed /\ unread' \subseteq unread
    BY <2>1 DEF OrderInv
  <2> QED  BY <1>2, <2>2, <2>5, <2>6, <2>7, <2>8, <2>9
<1>10. CASE Receive
  <2>1. /\ UNCHANGED <<clients, owner, closed, events>> /\ wpc = "receive"
        /\ unread' \subseteq unread /\ Return
    BY <1>10 DEF Receive
  <2>2. rx' \in [Conns -> SUBSET Conns]
    <3>1. PICK c, h : c = self[Worker] /\ h = handle[c]
      OBVIOUS
    <3>2. \/ rx' = rx
          \/ owner[h] \in unread /\ rx' = [rx EXCEPT ![c] = @ \cup {owner[h]}]
      BY <1>10, <3>1 DEF Receive
    <3>3. owner[h] \in unread => owner[h] \in Conns
      <4>1. \A x \in 1 .. arrived : x \in 1 .. MaxConns
        BY <1>1
      <4> QED  BY <4>1 DEF TypeOK, Conns
    <3>4. c \in Conns
      BY <2>1, <3>1 DEF OrderInv
    <3> QED  BY <3>2, <3>3, <3>4 DEF TypeOK
  <2>3. Ordered(clients)' /\ After(clients, events)'
    BY <1>1, <2>1 DEF OrderInv, Ordered, After
  <2> QED  BY <1>1, <1>2, <2>1, <2>2, <2>3 DEF OrderInv, Return
<1>9. CASE EraseClient
  <2>1. Erase(found) /\ Return /\ UNCHANGED <<rx, owner, closed, unread, events>>
    BY <1>9 DEF EraseClient, peerVars
  <2>2. Ordered(clients') /\ After(clients', events)
    BY <1>1, <2>1, ErasedOrdered, AfterFewer DEF OrderInv
  <2>3. Ordered(clients)' /\ After(clients, events)'
    BY <1>1, <2>1, <2>2 DEF Ordered, After
  <2> QED  BY <1>1, <1>2, <2>1, <2>3 DEF TypeOK, OrderInv, Return
<1> QED  BY <1>3, <1>4, <1>5, <1>6, <1>7, <1>8, <1>9, <1>10 DEF WorkerStep

\* Every step keeps the types and the order.
LEMMA OrderStep ==
  ASSUME TypeOK, OrderInv, [Next]_vars
  PROVE  TypeOK' /\ OrderInv'
<1>1. CASE Next
  BY <1>1, SocketTypesKept, SketchOrder, WorkerOrder, PeerOrder DEF Next
<1>2. CASE UNCHANGED vars
  <2> USE <1>2 DEF vars, socketVars, threadVars, listVars, beginVars, peerVars, workerVars,
                   sketchVars, worldVars
  <2>1. SocketTypeOK'
    BY DEF TypeOK, SocketTypeOK
  <2>2. TypeOK'
    BY <2>1 DEF TypeOK
  <2>3. OrderInv'
    BY OrderKept DEF OrderInv
  <2> QED  BY <2>2, <2>3
<1> QED  BY <1>1, <1>2

-----------------------------------------------------------------------------
(* Whose bytes an object receives.                                         *)

\* A handle that is not reused is never another object's.
LEMMA OwnerStep ==
  ASSUME TypeOK, OrderInv, OwnerInv, [Next]_vars
  PROVE  OwnerInv'
<1>1. reuse' = reuse
  BY DEF Next, vars, worldVars
<1> SUFFICES ASSUME ~reuse  PROVE OwnerInv'
  BY <1>1 DEF OwnerInv
<1>2. /\ \A h \in Handles : stack[h] = "new" => owner[h] = NoClient
      /\ \A s \in Sockets : handle[s] \in Handles => stack[handle[s]] # "new"
      /\ \A c \in Conns : handle[c] \in Handles => owner[handle[c]] \in {c, NoClient}
  BY DEF OwnerInv
<1>3. NoHandle \notin Handles /\ Conns \subseteq Sockets
  BY SecSocketAssumption, Constants
<1>4. ASSUME UNCHANGED <<handle, stack, owner>>
      PROVE  OwnerInv'
  BY <1>2, <1>3, <1>4 DEF OwnerInv
<1>5. ASSUME NEW t \in Threads, Create(t), UNCHANGED owner
      PROVE  OwnerInv'
  <2>1. self[t] \in Sockets
    BY DEF TypeOK, SocketTypeOK
  <2>2. CASE UNCHANGED <<handle, stack>>
    BY <1>4, <1>5, <2>2
  <2>3. CASE \E h \in Handles : /\ stack[h] = "new" /\ stack' = [stack EXCEPT ![h] = "open"]
                                /\ handle' = [handle EXCEPT ![self[t]] = h]
    BY <1>2, <1>3, <1>5, <2>1, <2>3 DEF OwnerInv, TypeOK, SocketTypeOK
  <2> QED  BY <1>5, <2>2, <2>3 DEF Create, Fresh
<1>6. ASSUME NEW t \in Threads, EndDisconnect(t) \/ EndDelete(t), UNCHANGED owner
      PROVE  OwnerInv'
  <2>1. handle' = handle
    BY <1>6 DEF EndDisconnect, EndDelete
  <2>2. \A h \in Handles : stack'[h] = stack[h] \/ stack'[h] # "new"
    BY <1>6 DEF EndDisconnect, EndDelete, TypeOK, SocketTypeOK
  <2> QED  BY <1>2, <1>3, <1>6, <2>1, <2>2 DEF OwnerInv
<1>7. CASE AcceptClient
  <2>1. PICK h \in Handles : /\ stack[h] = "new" /\ stack' = [stack EXCEPT ![h] = "open"]
                             /\ handle' = [handle EXCEPT ![self[Worker]] = h]
                             /\ owner' = [owner EXCEPT ![h] = self[Worker]]
    BY <1>7 DEF AcceptClient, Accept, Fresh
  <2>2. self[Worker] \in Conns
    <3>1. self[Worker] \in 1 .. arrived
      BY <1>7 DEF AcceptClient, OrderInv
    <3> QED  BY <3>1, Constants
  <2>3. /\ stack'[h] = "open"
        /\ \A g \in Handles : g # h => stack'[g] = stack[g] /\ owner'[g] = owner[g]
        /\ owner'[h] = self[Worker]
        /\ handle'[self[Worker]] = h
        /\ \A s \in Sockets : s # self[Worker] => handle'[s] = handle[s]
    BY <1>3, <2>1, <2>2 DEF TypeOK, SocketTypeOK
  <2>4. \A s \in Sockets : s # self[Worker] /\ handle[s] \in Handles => handle[s] # h
    BY <1>2, <2>1
  <2> QED  BY <1>2, <1>3, <2>2, <2>3, <2>4 DEF OwnerInv
<1>8. CASE SocketStep
  BY <1>4, <1>5, <1>6, <1>8, MethodMoves DEF SocketStep, peerVars
<1>9. CASE Peers
  BY <1>4, <1>9 DEF Peers, PeerConnect, PeerSend, PeerClose, socketVars
<1>10. CASE WorkerStep /\ ~AcceptClient
  BY <1>4, <1>10 DEF WorkerStep, ConnectionCallback, AcceptFails, Accepted, FindClient, FindNext,
     FindReceiver, Receive, FindEnded, EraseClient, socketVars, peerVars
<1>11. CASE SketchStep
  BY <1>4, <1>11 DEF SketchStep, Begin, BeginListen, Available, AvailableSearch,
     AvailableNone, ReadClient, StopClient, StopReturn, End, EndStop, EndErase, EndServer,
     socketVars, peerVars
<1>12. CASE UNCHANGED vars
  BY <1>4, <1>12 DEF vars, socketVars, peerVars
<1> QED  BY <1>7, <1>8, <1>9, <1>10, <1>11, <1>12 DEF Next

-----------------------------------------------------------------------------
(* The list, as long as the sketch stops nothing.                          *)

\* A sketch that stops nothing runs no method but begin(), and the worker's follow its
\* callbacks.
LEMMA PlacesStep ==
  ASSUME TypeOK, OrderInv, PlacesInv, [Next]_vars
  PROVE  PlacesInv'
<1> USE DEF At, GoTo
<1>1. stops' = stops
  BY DEF Next, vars, worldVars
<1> SUFFICES ASSUME stops = {}  PROVE PlacesInv'
  BY <1>1 DEF PlacesInv
<1>2. /\ Sketch \in Threads /\ Worker \in Threads /\ Sketch # Worker
      /\ \A t \in Threads : t = Sketch \/ t = Worker
      /\ \A t \in Threads : \A place : [pc EXCEPT ![t] = place][t] = place
      /\ \A t, u \in Threads : \A place : t # u => [pc EXCEPT ![t] = place][u] = pc[u]
  BY Constants DEF TypeOK, SocketTypeOK
<1>3. CASE SocketStep
  <2>1. PICK t \in Threads : MethodStep(t)
    BY <1>3 DEF SocketStep
  <2>2. /\ UNCHANGED <<spc, wpc, self>> /\ \A u \in Threads : u # t => pc'[u] = pc[u]
        /\ pc[t] # "idle" /\ (pc[t] \in Beginning => pc'[t] \in Beginning \cup {"idle"})
        /\ pc[t] \in Ending => pc'[t] \in Ending \cup {"idle"}
        /\ pc[t] \in {"acceptLoad", "acceptStore"} => pc'[t] \in {"acceptStore", "idle"}
    BY <1>3, <2>1, MethodMoves DEF SocketStep, sketchVars, workerVars
  <2>3. CASE t = Sketch
    BY <1>1, <1>2, <2>2, <2>3 DEF PlacesInv
  <2>4. CASE t = Worker
    BY <1>1, <1>2, <2>2, <2>4 DEF PlacesInv, TypeOK
  <2> QED  BY <1>2, <2>3, <2>4
<1>4. CASE Begin
  <2>1. /\ pc' = [pc EXCEPT ![Sketch] = "begin"] /\ self' = [self EXCEPT ![Sketch] = Server]
        /\ spc' = "begin" /\ wpc' = wpc
    BY <1>4 DEF Begin, Call, workerVars
  <2>2. self'[Sketch] = Server
    BY <1>2, <2>1 DEF TypeOK, SocketTypeOK
  <2> QED  BY <1>1, <1>2, <2>1, <2>2 DEF PlacesInv, Beginning
<1>5. CASE SketchStep /\ ~Begin
  <2>1. UNCHANGED <<pc, self, wpc>> /\ spc' \in {"idle", "search"} /\ pc[Sketch] = "idle"
    BY <1>5 DEF SketchStep, BeginListen, Available, AvailableSearch, AvailableNone,
       ReadClient, StopClient, StopReturn, End, EndStop, EndErase, EndServer, PlacesInv,
       workerVars, sketchVars, socketVars, threadVars
  <2> QED  BY <1>1, <2>1 DEF PlacesInv
<1>6. CASE AcceptClient
  <2>1. /\ pc' = [pc EXCEPT ![Worker] = "acceptLoad"]
        /\ self' = [self EXCEPT ![Worker] = self[Worker]]
        /\ spc' = spc /\ wpc' = "accepting"
    BY <1>6 DEF AcceptClient, Accept, Call, sketchVars
  <2>2. self'[Sketch] = self[Sketch]
    BY <1>2, <2>1 DEF TypeOK, SocketTypeOK
  <2> QED  BY <1>1, <1>2, <2>1, <2>2 DEF PlacesInv
<1>7. CASE FindEnded
  <2>1. /\ pc' = [pc EXCEPT ![Worker] = "end"] /\ spc' = spc /\ wpc' = "erase"
        /\ \E s : self' = [self EXCEPT ![Worker] = s]
    BY <1>7 DEF FindEnded, Call, sketchVars
  <2>2. self'[Sketch] = self[Sketch]
    BY <1>2, <2>1 DEF TypeOK, SocketTypeOK
  <2> QED  BY <1>1, <1>2, <2>1, <2>2 DEF PlacesInv, Ending
<1>8. CASE ConnectionCallback \/ FindReceiver
  <2>1. /\ wpc \in {"idle", "findReceiver"} /\ wpc' \in {"accept", "receive"}
        /\ UNCHANGED <<pc, spc>> /\ \E s : self' = [self EXCEPT ![Worker] = s]
    BY <1>8 DEF ConnectionCallback, FindReceiver, Take, sketchVars
  <2>2. self'[Sketch] = self[Sketch]
    BY <1>2, <2>1 DEF TypeOK, SocketTypeOK
  <2> QED  BY <1>1, <1>2, <2>1, <2>2 DEF PlacesInv
<1>9. CASE AcceptFails \/ Accepted \/ FindClient \/ FindNext \/ Receive \/ EraseClient
  <2>1. /\ UNCHANGED <<pc, self, spc>> /\ wpc' \in {"idle", "findReceiver", "findEnded"}
        /\ wpc \notin {"accepting", "erase"} \/ pc[Worker] = "idle"
    BY <1>9 DEF AcceptFails, Accepted, FindClient, FindNext, Receive, EraseClient, Take, Return,
       At, sketchVars, socketVars, threadVars
  <2> QED  BY <1>1, <2>1 DEF PlacesInv
<1>10. CASE Peers \/ UNCHANGED vars
  <2>1. UNCHANGED <<pc, self, spc, wpc>>
    BY <1>10 DEF Peers, PeerConnect, PeerSend, PeerClose, vars, sketchVars, workerVars,
       socketVars, threadVars
  <2> QED  BY <1>1, <2>1 DEF PlacesInv
<1> QED  BY <1>3, <1>4, <1>5, <1>6, <1>7, <1>8, <1>9, <1>10 DEF Next, WorkerStep

\* A step that leaves the list, the worker and the handles as they are.
LEMMA ListKept ==
  ASSUME ListInv, UNCHANGED <<handle, stack, clients, wpc, on, found, stops, owner>>,
         pc'[Worker] = pc[Worker], self'[Worker] = self[Worker]
  PROVE  ListInv'
<1>1. \A k : Settled(k)' <=> Settled(k)
  BY DEF Settled
<1>2. \A s : IsOpen(handle[s])' <=> IsOpen(handle[s])
  BY DEF IsOpen
<1>3. EntriesInv'
  BY <1>1, <1>2 DEF ListInv, EntriesInv, IsOpen
<1>4. EndedInv'
  BY DEF ListInv, EndedInv
<1> QED  BY <1>2, <1>3, <1>4 DEF ListInv

\* The sketch's begin() gives the server a new handle, which no client has.
LEMMA CreateKeepsList ==
  ASSUME TypeOK, OrderInv, PlacesInv, ListInv, stops = {}, Create(Sketch),
         UNCHANGED <<clients, wpc, on, found, stops, owner>>
  PROVE  ListInv'
<1>1. /\ Sketch \in Threads /\ Worker \in Threads /\ Sketch # Worker /\ Server \in Sockets
      /\ Server \notin Conns /\ Conns \subseteq Sockets
      /\ \A k \in 1 .. Len(clients) : clients[k] \in Conns
  BY Constants, ListedObjects
<1>2. self[Sketch] = Server /\ pc'[Worker] = pc[Worker] /\ self' = self
  BY <1>1 DEF Create, At, GoTo, PlacesInv, TypeOK, SocketTypeOK
<1>3. CASE UNCHANGED <<handle, stack>>
  BY <1>2, <1>3, ListKept
<1>4. ASSUME NEW h \in Handles, Fresh(h), stack' = [stack EXCEPT ![h] = "open"],
             handle' = [handle EXCEPT ![Server] = h]
      PROVE  ListInv'
  <2>1. /\ stack[h] # "open" /\ stack[h] # "disconnected" /\ stack'[h] = "open"
        /\ \A g \in Handles : g # h => stack'[g] = stack[g]
        /\ handle'[Server] = h /\ \A c \in Conns : handle'[c] = handle[c]
    BY <1>1, <1>4 DEF Fresh, TypeOK, SocketTypeOK
  <2>2. \A k \in 1 .. Len(clients) : handle'[clients[k]] = handle[clients[k]]
    BY <1>1, <2>1
  <2>3. \A k : Settled(k)' <=> Settled(k)
    BY DEF Settled
  <2>4. EntriesInv'
    BY <2>1, <2>2, <2>3 DEF ListInv, EntriesInv, IsOpen
  <2>5. EndedInv'
    BY <1>2, <2>1, <2>2 DEF ListInv, EndedInv
  <2> QED  BY <1>2, <2>1, <2>4, <2>5 DEF ListInv, IsOpen
<1> QED  BY <1>2, <1>3, <1>4 DEF Create

\* The worker's end() of a client leaves the others alone.
LEMMA EndKeepsList ==
  ASSUME TypeOK, OrderInv, PlacesInv, ListInv, stops = {},
         EndDisconnect(Worker) \/ EndDelete(Worker),
         UNCHANGED <<clients, wpc, on, found, stops, owner>>
  PROVE  ListInv'
<1> USE DEF At, GoTo, SetStatus
<1>1. Worker \in Threads
  BY Constants
<1>2. wpc = "erase" /\ pc[Worker] \in {"end", "delete"} /\ handle' = handle /\ self' = self
  BY DEF EndDisconnect, EndDelete, PlacesInv, TypeOK
<1>3. PICK h \in Handles : h = on /\ h = handle[clients[found]]
  BY <1>2 DEF ListInv, EndedInv
<1>4. /\ found \in 1 .. Len(clients) /\ self[Worker] = clients[found] /\ h # handle[Server]
      /\ owner[h] = clients[found]
      /\ stack[h] = IF pc[Worker] = "end" THEN "open" ELSE "disconnected"
      /\ \A k \in 1 .. Len(clients) : k # found => h # handle[clients[k]]
  BY <1>2, <1>3 DEF ListInv, EndedInv
<1>5. \/ stack' = stack /\ pc'[Worker] = "idle"
      \/ /\ stack' = [stack EXCEPT ![h] = IF pc[Worker] = "end" THEN "disconnected"
                                          ELSE "deleted"]
         /\ pc'[Worker] = IF pc[Worker] = "end" THEN "delete" ELSE "endLoad"
  BY <1>1, <1>2, <1>3, <1>4 DEF EndDisconnect, EndDelete, TypeOK, SocketTypeOK
<1>6. /\ pc'[Worker] \in {"end", "delete"} =>
           pc'[Worker] = "delete" /\ stack'[h] = "disconnected"
      /\ \A g \in Handles : g # h => stack'[g] = stack[g]
  BY <1>5 DEF TypeOK, SocketTypeOK
<1>7. \A k : Settled(k)' <=> Settled(k)
  BY DEF Settled
<1>8. EntriesInv'
  BY <1>2, <1>3, <1>4, <1>6, <1>7 DEF ListInv, EntriesInv, IsOpen, Settled
<1>9. EndedInv'
  BY <1>2, <1>3, <1>4, <1>6 DEF EndedInv
<1> QED  BY <1>2, <1>4, <1>6, <1>8, <1>9 DEF ListInv, IsOpen

\* connectionCallback(): accept() fills the last entry with a handle that no other has.
LEMMA AcceptKeepsList ==
  ASSUME TypeOK, OrderInv, PlacesInv, ListInv, stops = {}, AcceptClient, UNCHANGED stops
  PROVE  ListInv'
<1>1. PICK h \in Handles : /\ Accept(Worker, self[Worker], h)
                           /\ owner' = [owner EXCEPT ![h] = self[Worker]]
  BY DEF AcceptClient
<1>2. /\ wpc = "accept" /\ wpc' = "accepting" /\ UNCHANGED <<clients, found>>
      /\ Fresh(h) /\ stack' = [stack EXCEPT ![h] = "open"]
      /\ handle' = [handle EXCEPT ![self[Worker]] = h]
  BY <1>1 DEF AcceptClient, Accept, listVars
<1>3. /\ Server \notin Conns /\ Conns \subseteq Sockets /\ Server \in Sockets
      /\ \A k \in 1 .. Len(clients) : clients[k] \in Conns
      /\ Len(clients) \in Nat
  BY Constants, ListedObjects
<1>4. PICK n : n = Len(clients) /\ n \in 1 .. Len(clients) /\ self[Worker] = clients[n]
  <2>1. clients # <<>> /\ self[Worker] = clients[Len(clients)]
    BY <1>2 DEF ListInv
  <2>2. Len(clients) \in Nat \ {0}
    BY <2>1, EmptySeq DEF TypeOK
  <2> QED  BY <2>1, <2>2
<1>5. \A k \in 1 .. Len(clients) : k # n => k < n /\ clients[k] # clients[n]
  <2>1. \A k \in 1 .. Len(clients) : k # n => k < n
    BY <1>3, <1>4
  <2>2. \A k \in 1 .. Len(clients) : k < n => clients[k] < clients[n]
    BY <1>4 DEF OrderInv, Ordered
  <2> QED  BY <1>3, <2>1, <2>2 DEF Conns
<1>6. /\ stack[h] # "open"
      /\ stack'[h] = "open"
      /\ \A g \in Handles : g # h => stack'[g] = stack[g]
      /\ owner'[h] = clients[n] /\ \A g \in Handles : g # h => owner'[g] = owner[g]
      /\ handle'[clients[n]] = h /\ handle'[Server] = handle[Server]
      /\ \A k \in 1 .. Len(clients) : k # n => handle'[clients[k]] = handle[clients[k]]
  BY <1>1, <1>2, <1>3, <1>4, <1>5 DEF Fresh, TypeOK, SocketTypeOK
<1>7. \A k \in 1 .. Len(clients) : k # n => Settled(k)
  BY <1>2, <1>4 DEF Settled
<1>8. /\ \A k \in 1 .. Len(clients) : k # n =>
           /\ handle[clients[k]] \in Handles /\ stack[handle[clients[k]]] = "open"
           /\ handle[clients[k]] # handle[Server]
           /\ owner[handle[clients[k]]] = clients[k]
      /\ \A k, m \in 1 .. Len(clients) : k # n /\ m # n /\ m # k =>
           handle[clients[m]] # handle[clients[k]]
  BY <1>7 DEF ListInv, EntriesInv, IsOpen
<1>9. handle[Server] \in Handles => stack[handle[Server]] = "open"
  BY DEF ListInv, IsOpen
<1>10. EntriesInv'
  <2>1. \A k \in 1 .. Len(clients) :
          /\ handle'[clients[k]] \in Handles /\ stack'[handle'[clients[k]]] = "open"
          /\ handle'[clients[k]] # handle'[Server]
          /\ owner'[handle'[clients[k]]] = clients[k]
    BY <1>6, <1>8, <1>9
  <2>2. \A k, m \in 1 .. Len(clients) : m # k => handle'[clients[m]] # handle'[clients[k]]
    BY <1>6, <1>8
  <2> QED  BY <1>2, <2>1, <2>2 DEF EntriesInv, IsOpen
<1>11. EndedInv'
  BY <1>2 DEF EndedInv
<1>12. clients' # <<>> /\ self'[Worker] = clients'[Len(clients')]
  BY <1>1, <1>2 DEF ListInv, Accept, Call, TypeOK, SocketTypeOK
<1> QED  BY <1>2, <1>6, <1>9, <1>10, <1>11, <1>12 DEF ListInv, IsOpen

\* The callbacks find an entry of the list, and it is settled.
LEMMA FoundKeepsList ==
  ASSUME TypeOK, OrderInv, PlacesInv, ListInv, stops = {}, FindReceiver \/ FindEnded,
         UNCHANGED stops
  PROVE  ListInv'
<1>1. /\ wpc \in {"findReceiver", "findEnded"}
      /\ UNCHANGED <<handle, stack, clients, owner, on, found>>
      /\ Worker \in Threads /\ Len(clients) \in Nat
  BY Constants, LenProperties DEF FindReceiver, FindEnded, listVars, peerVars, TypeOK
<1>2. /\ found \in 1 .. Len(clients) /\ on \in Handles /\ on = handle[clients[found]]
      /\ self'[Worker] = clients[found]
  BY <1>1 DEF FindReceiver, FindEnded, IsThisClient, Call, OrderInv, TypeOK, SocketTypeOK
<1>3. \A k \in 1 .. Len(clients) : Settled(k)
  BY <1>1 DEF Settled
<1>4. EntriesInv'
  BY <1>1, <1>3 DEF ListInv, EntriesInv, IsOpen
<1>5. CASE FindReceiver
  <2>1. wpc' = "receive"
    BY <1>5 DEF FindReceiver
  <2>2. EndedInv'
    BY <2>1 DEF EndedInv
  <2> QED  BY <1>1, <1>2, <1>4, <2>1, <2>2 DEF ListInv, IsOpen
<1>6. CASE FindEnded
  <2>1. wpc' = "erase" /\ pc'[Worker] = "end"
    BY <1>1, <1>6 DEF FindEnded, Call, TypeOK, SocketTypeOK
  <2>2. EndedInv'
    BY <1>1, <1>2, <1>3, <2>1 DEF ListInv, EntriesInv, EndedInv, IsOpen
  <2> QED  BY <1>1, <1>4, <2>1, <2>2 DEF ListInv, IsOpen
<1> QED  BY <1>5, <1>6

\* Erasing that entry leaves the settled ones.
LEMMA EraseKeepsList ==
  ASSUME TypeOK, OrderInv, PlacesInv, ListInv, stops = {}, EraseClient, UNCHANGED stops
  PROVE  ListInv'
<1>1. /\ wpc = "erase"
      /\ wpc' = "idle"
      /\ Erase(found)
      /\ UNCHANGED <<handle, stack, owner>>
  BY DEF EraseClient, Return, socketVars, peerVars
<1>2. found \in 1 .. Len(clients) /\ clients \in Seq(Conns) /\ Len(clients) \in Nat
  BY <1>1, LenProperties DEF ListInv, EndedInv, TypeOK
<1>3. /\ Len(clients') = Len(clients) - 1
      /\ \A j \in 1 .. Len(clients') : clients'[j] = clients[IF j < found THEN j ELSE j + 1]
  BY <1>1, <1>2, ErasedEntries DEF Erase
<1>4. \A j \in 1 .. Len(clients') : \E x \in 1 .. Len(clients) :
        x = (IF j < found THEN j ELSE j + 1) /\ x # found /\ Settled(x)
  BY <1>1, <1>2, <1>3 DEF Settled
<1>5. EntriesInv'
  <2>1. \A x \in 1 .. Len(clients) : Settled(x) =>
          /\ IsOpen(handle[clients[x]]) /\ handle[clients[x]] # handle[Server]
          /\ owner[handle[clients[x]]] = clients[x]
          /\ \A y \in 1 .. Len(clients) :
               Settled(y) /\ y # x => handle[clients[y]] # handle[clients[x]]
    BY DEF ListInv, EntriesInv
  <2>2. ASSUME NEW j \in 1 .. Len(clients')
        PROVE  /\ IsOpen(handle[clients'[j]]) /\ handle[clients'[j]] # handle[Server]
               /\ owner[handle[clients'[j]]] = clients'[j]
               /\ \A m \in 1 .. Len(clients') :
                    m # j => handle[clients'[m]] # handle[clients'[j]]
    <3>1. PICK x \in 1 .. Len(clients) :
            x = (IF j < found THEN j ELSE j + 1) /\ x # found /\ Settled(x)
      BY <1>4
    <3>2. clients'[j] = clients[x]
      BY <1>3, <3>1
    <3>3. ASSUME NEW m \in 1 .. Len(clients'), m # j
          PROVE  handle[clients'[m]] # handle[clients'[j]]
      <4>1. PICK y \in 1 .. Len(clients) :
              y = (IF m < found THEN m ELSE m + 1) /\ y # found /\ Settled(y)
        BY <1>4
      <4>2. clients'[m] = clients[y] /\ y # x
        BY <1>2, <1>3, <3>1, <3>3, <4>1
      <4>3. handle[clients[y]] # handle[clients[x]]
        BY <2>1, <3>1, <4>1, <4>2
      <4> QED  BY <3>2, <4>2, <4>3
    <3> QED  BY <2>1, <3>1, <3>2, <3>3
  <2> QED  BY <1>1, <2>2 DEF EntriesInv, IsOpen
<1>6. EndedInv'
  BY <1>1 DEF EndedInv
<1> QED  BY <1>1, <1>5, <1>6 DEF ListInv, IsOpen

\* A new entry comes last; when accept() fails it goes again.
LEMMA NewKeepsList ==
  ASSUME TypeOK, OrderInv, PlacesInv, ListInv, stops = {}, ConnectionCallback \/ AcceptFails,
         UNCHANGED stops
  PROVE  ListInv'
<1>1. clients \in Seq(Conns) /\ Len(clients) \in Nat /\ Worker \in Threads
  BY LenProperties, Constants DEF TypeOK
<1>2. CASE ConnectionCallback
  <2>1. /\ wpc = "idle" /\ wpc' = "accept" /\ UNCHANGED <<handle, stack, owner, found>>
        /\ Take("connection") /\ clients' = Append(clients, Head(events).on)
        /\ self'[Worker] = Head(events).on /\ arrived' = arrived
    BY <1>1, <1>2 DEF ConnectionCallback, Take, peerVars, TypeOK, SocketTypeOK
  <2>2. Head(events).on \in Conns
    BY <2>1, TakeOrder
  <2>3. /\ Len(clients') = Len(clients) + 1 /\ clients' # <<>>
        /\ \A k \in 1 .. Len(clients) : clients'[k] = clients[k]
        /\ self'[Worker] = clients'[Len(clients')]
    BY <1>1, <2>1, <2>2, AppendProperties
  <2>4. \A k \in 1 .. Len(clients) : Settled(k)
    BY <2>1 DEF Settled
  <2>5. \A k \in 1 .. Len(clients') : Settled(k)' => k \in 1 .. Len(clients)
    BY <1>1, <2>1, <2>3 DEF Settled
  <2>6. EntriesInv'
    BY <2>1, <2>3, <2>4, <2>5 DEF ListInv, EntriesInv, IsOpen
  <2>7. EndedInv'
    BY <2>1 DEF EndedInv
  <2> QED  BY <2>1, <2>3, <2>6, <2>7 DEF ListInv, IsOpen
<1>3. CASE AcceptFails
  <2>1. /\ wpc = "accept" /\ wpc' = "idle" /\ UNCHANGED <<handle, stack, owner>>
        /\ clients # <<>> /\ clients' = SubSeq(clients, 1, Len(clients) - 1)
    BY <1>3 DEF AcceptFails, Return, peerVars, ListInv
  <2>2. /\ Len(clients') = Len(clients) - 1
        /\ \A j \in 1 .. Len(clients') : clients'[j] = clients[j]
    BY <1>1, <2>1, PoppedEntries
  <2>3. \A k \in 1 .. Len(clients') : k \in 1 .. Len(clients) /\ Settled(k)
    BY <1>1, <2>1, <2>2 DEF Settled
  <2>4. \A k \in 1 .. Len(clients') :
          /\ IsOpen(handle[clients'[k]]) /\ handle[clients'[k]] # handle[Server]
          /\ owner[handle[clients'[k]]] = clients'[k]
          /\ \A m \in 1 .. Len(clients') : m # k => handle[clients'[m]] # handle[clients'[k]]
    <3>1. \A x \in 1 .. Len(clients) : Settled(x) =>
            /\ IsOpen(handle[clients[x]]) /\ handle[clients[x]] # handle[Server]
            /\ owner[handle[clients[x]]] = clients[x]
            /\ \A y \in 1 .. Len(clients) :
                 Settled(y) /\ y # x => handle[clients[y]] # handle[clients[x]]
      BY DEF ListInv, EntriesInv
    <3> QED  BY <2>2, <2>3, <3>1
  <2>5. EntriesInv'
    BY <2>1, <2>4 DEF EntriesInv, IsOpen
  <2>6. EndedInv'
    BY <2>1 DEF EndedInv
  <2> QED  BY <2>1, <2>5, <2>6 DEF ListInv, IsOpen
<1> QED  BY <1>2, <1>3

\* Every step keeps the settled entries open and apart.
LEMMA ListStep ==
  ASSUME TypeOK, OrderInv, PlacesInv, ListInv, [Next]_vars
  PROVE  ListInv'
<1>1. stops' = stops
  BY DEF Next, vars, worldVars
<1> SUFFICES ASSUME stops = {}  PROVE ListInv'
  BY <1>1 DEF ListInv, EntriesInv, EndedInv
<1>2. /\ Sketch \in Threads /\ Worker \in Threads /\ Sketch # Worker
      /\ \A t \in Threads : t = Sketch \/ t = Worker
  BY Constants
<1>3. CASE SocketStep
  <2>1. PICK t \in Threads : MethodStep(t)
    BY <1>3 DEF SocketStep
  <2>2. /\ UNCHANGED <<clients, wpc, on, found, owner, self>> /\ pc[t] # "idle"
        /\ \A u \in Threads : u # t => pc'[u] = pc[u]
    BY <1>3, <2>1, MethodMoves DEF SocketStep, workerVars, peerVars, listVars
  <2>3. CASE t = Sketch
    <3>1. pc[Sketch] \in Beginning
      BY <2>2, <2>3 DEF PlacesInv
    <3>2. Create(Sketch) \/ UNCHANGED <<handle, stack>>
      BY <2>1, <2>3, <3>1, MethodMoves DEF EndDisconnect, EndDelete, At, Beginning
    <3> QED  BY <1>1, <1>2, <2>2, <2>3, <3>2, CreateKeepsList, ListKept
  <2>4. CASE t = Worker
    <3>1. pc[Worker] \in Ending \cup {"acceptLoad", "acceptStore"}
      BY <2>2, <2>4 DEF PlacesInv, TypeOK
    <3>2. EndDisconnect(Worker) \/ EndDelete(Worker) \/ UNCHANGED <<handle, stack>>
      BY <2>1, <2>4, <3>1, MethodMoves DEF Create, At, Ending
    <3>3. CASE UNCHANGED <<handle, stack>> /\ ~EndDisconnect(Worker) /\ ~EndDelete(Worker)
      <4>1. EntriesInv'
        BY <1>1, <2>2, <3>3 DEF ListInv, EntriesInv, IsOpen, Settled
      <4>2. ~(pc'[Worker] \in {"end", "delete"})
        BY <1>2, <2>1, <2>4, <3>1, <3>3 DEF MethodStep, BeginTest, BeginInit, BeginFlag,
           CountUpLoad, CountUpStore, Create, CountDownLoad, CountDownStore, EndTest, EndDeinit,
           EndFlag, At, GoTo, TypeOK, SocketTypeOK, Ending
      <4>3. EndedInv'
        BY <1>1, <2>2, <3>3, <4>2 DEF ListInv, EndedInv
      <4> QED  BY <1>1, <2>2, <3>3, <4>1, <4>3 DEF ListInv, IsOpen
    <3> QED  BY <1>1, <2>2, <3>2, <3>3, EndKeepsList
  <2> QED  BY <1>2, <2>3, <2>4
<1>4. CASE AcceptClient
  BY <1>1, <1>4, AcceptKeepsList
<1>5. CASE FindReceiver \/ FindEnded
  BY <1>1, <1>5, FoundKeepsList
<1>6. CASE EraseClient
  BY <1>1, <1>6, EraseKeepsList
<1>7. CASE ConnectionCallback \/ AcceptFails
  BY <1>1, <1>7, NewKeepsList
<1>8. CASE Accepted \/ FindClient \/ FindNext \/ Receive
  <2>1. /\ wpc \notin {"accept", "erase"} /\ wpc' \in {"idle", "findReceiver", "findEnded"}
        /\ UNCHANGED <<handle, stack, clients, owner>>
    BY <1>8 DEF Accepted, FindClient, FindNext, Receive, Take, Return, socketVars, listVars,
       peerVars
  <2>2. \A k : Settled(k)' <=> Settled(k)
    BY <2>1 DEF Settled
  <2>3. EntriesInv'
    BY <1>1, <2>1, <2>2 DEF ListInv, EntriesInv, IsOpen
  <2>4. EndedInv'
    BY <2>1 DEF EndedInv
  <2> QED  BY <1>1, <2>1, <2>3, <2>4 DEF ListInv, IsOpen
<1>9. CASE SketchStep
  <2>1. UNCHANGED <<handle, stack, clients, wpc, on, found, owner>>
    BY <1>9 DEF SketchStep, Begin, BeginListen, Available, AvailableSearch, AvailableNone,
       ReadClient, StopClient, StopReturn, End, EndStop, EndErase, EndServer, PlacesInv,
       workerVars, listVars, peerVars, socketVars, threadVars
  <2>2. pc'[Worker] = pc[Worker] /\ self'[Worker] = self[Worker]
    BY <1>2, <1>9 DEF SketchStep, Begin, BeginListen, Available, AvailableSearch,
       AvailableNone, ReadClient, StopClient, StopReturn, End, EndStop, EndErase, EndServer,
       PlacesInv, Call, socketVars, threadVars, TypeOK, SocketTypeOK
  <2> QED  BY <1>1, <2>1, <2>2, ListKept
<1>10. CASE Peers \/ UNCHANGED vars
  <2>1. UNCHANGED <<handle, stack, clients, wpc, on, found, owner, pc, self>>
    BY <1>10 DEF Peers, PeerConnect, PeerSend, PeerClose, vars, workerVars, listVars, peerVars,
       socketVars, threadVars
  <2> QED  BY <1>1, <2>1, ListKept
<1> QED  BY <1>3, <1>4, <1>5, <1>6, <1>7, <1>8, <1>9, <1>10 DEF Next, WorkerStep

\* A step that leaves the queue and its handles as they are.
LEMMA ClosedKept ==
  ASSUME ClosedInv, UNCHANGED <<events, owner, stops>>, closed \subseteq closed',
         \A m : Disconnects(m) => stack'[events[m].on] = stack[events[m].on],
         wpc' \in {"findEnded", "erase"} => wpc \in {"findEnded", "erase"} /\ on' = on
  PROVE  ClosedInv'
<1>1. \A m : Disconnects(m)' <=> Disconnects(m)
  BY DEF Disconnects
<1> QED  BY <1>1 DEF ClosedInv, IsOpen

\* The worker takes an event from the queue.
LEMMA TakeKeepsClosed ==
  ASSUME TypeOK, OrderInv, ClosedInv, stops = {}, UNCHANGED stops,
         FindClient \/ ConnectionCallback
  PROVE  ClosedInv'
<1>1. PICK kind : Take(kind) /\ (wpc' = "findEnded" => kind = "disconnection")
  BY DEF FindClient, ConnectionCallback
<1>2. /\ UNCHANGED <<stack, owner, closed>> /\ wpc' \in {"accept", "findReceiver", "findEnded"}
      /\ wpc' = "findEnded" => on' = Head(events).on
  BY DEF FindClient, ConnectionCallback, peerVars, socketVars
<1>3. /\ events # <<>> /\ Head(events).kind = kind /\ events' = Tail(events)
      /\ events \in Seq(Events)
  BY <1>1 DEF Take, OrderInv
<1>4. /\ Head(events) = events[1] /\ 1 \in 1 .. Len(events) /\ Len(events') = Len(events) - 1
      /\ \A k \in 1 .. Len(events') : k + 1 \in 1 .. Len(events) /\ events'[k] = events[k + 1]
  BY <1>3, QueueHead
<1>5. \A m : Disconnects(m)' =>
        m \in 1 .. Len(events') /\ Disconnects(m + 1) /\ events'[m] = events[m + 1] /\ m + 1 # 1
  BY <1>4 DEF Disconnects
<1>6. wpc' = "findEnded" => Disconnects(1) /\ on' = events[1].on
  BY <1>1, <1>2, <1>3, <1>4 DEF Disconnects
<1>7. \A m : Disconnects(m) =>
        /\ m \in 1 .. Len(events) /\ IsOpen(events[m].on) /\ owner[events[m].on] \in closed
        /\ \A k : Disconnects(k) /\ k # m => events[k].on # events[m].on
  BY DEF ClosedInv, Disconnects
<1>8. ASSUME NEW m, Disconnects(m)'
      PROVE  /\ IsOpen(events[m].on)' /\ owner'[events'[m].on] \in closed'
             /\ wpc' = "findEnded" => events'[m].on # on'
             /\ \A k : Disconnects(k)' /\ k # m => events'[k].on # events'[m].on
  <2>1. m \in 1 .. Len(events') /\ Disconnects(m + 1) /\ events'[m] = events[m + 1] /\ m + 1 # 1
    BY <1>5, <1>8
  <2>2. IsOpen(events[m].on)' /\ owner'[events'[m].on] \in closed'
    BY <1>2, <1>7, <2>1 DEF IsOpen
  <2>3. wpc' = "findEnded" => events'[m].on # on'
    BY <1>6, <1>7, <2>1
  <2>4. ASSUME NEW k, Disconnects(k)', k # m  PROVE events'[k].on # events'[m].on
    <3>1. k \in 1 .. Len(events') /\ Disconnects(k + 1) /\ events'[k] = events[k + 1]
      BY <1>5, <2>4
    <3>2. k + 1 # m + 1
      BY <2>1, <2>4, <3>1
    <3> QED  BY <1>7, <2>1, <3>1, <3>2
  <2> QED  BY <2>2, <2>3, <2>4
<1>9. wpc' = "findEnded" => owner'[on'] \in closed'
  BY <1>2, <1>6, <1>7
<1>10. wpc' \in {"findEnded", "erase"} => wpc' = "findEnded"
  BY <1>2
<1> QED  BY <1>8, <1>9, <1>10 DEF ClosedInv

\* A peer's event joins the queue; a peer closes once.
LEMMA PeerKeepsClosed ==
  ASSUME TypeOK, OrderInv, ClosedInv, stops = {}, UNCHANGED stops, Peers
  PROVE  ClosedInv'
<1>1. /\ UNCHANGED <<stack, owner, wpc, on>> /\ closed \subseteq closed'
  BY DEF Peers, PeerConnect, PeerSend, PeerClose, socketVars, workerVars
<1>2. CASE events' = events
  BY <1>1, <1>2, ClosedKept
<1>3. ASSUME NEW e \in Events, events' = Append(events, e),
             e.kind = "disconnection" => /\ IsOpen(e.on) /\ owner[e.on] \in closed' \ closed
      PROVE  ClosedInv'
  <2>1. /\ Len(events') = Len(events) + 1 /\ Len(events) \in Nat
        /\ \A k \in 1 .. Len(events) : events'[k] = events[k]
        /\ events'[Len(events) + 1] = e
    BY <1>3, AppendProperties, LenProperties DEF OrderInv
  <2>2. \A m : Disconnects(m)' =>
          \/ Disconnects(m) /\ events'[m] = events[m]
          \/ m = Len(events) + 1 /\ events'[m] = e /\ e.kind = "disconnection"
    BY <2>1 DEF Disconnects
  <2>3. \A m : Disconnects(m) =>
          /\ IsOpen(events[m].on) /\ owner[events[m].on] \in closed
          /\ wpc \in {"findEnded", "erase"} => events[m].on # on
          /\ \A k : Disconnects(k) /\ k # m => events[k].on # events[m].on
    BY DEF ClosedInv, Disconnects
  <2>4. wpc \in {"findEnded", "erase"} => owner[on] \in closed
    BY DEF ClosedInv
  <2>5. ASSUME NEW m, Disconnects(m)'
        PROVE  /\ IsOpen(events[m].on)' /\ owner'[events'[m].on] \in closed'
               /\ wpc' \in {"findEnded", "erase"} => events'[m].on # on'
               /\ \A k : Disconnects(k)' /\ k # m => events'[k].on # events'[m].on
    <3>1. CASE Disconnects(m) /\ events'[m] = events[m]
      <4>1. IsOpen(events[m].on)' /\ owner'[events'[m].on] \in closed'
        BY <1>1, <2>3, <3>1 DEF IsOpen
      <4>2. wpc' \in {"findEnded", "erase"} => events'[m].on # on'
        BY <1>1, <2>3, <3>1
      <4>3. ASSUME NEW k, Disconnects(k)', k # m  PROVE events'[k].on # events'[m].on
        <5>1. CASE Disconnects(k) /\ events'[k] = events[k]
          BY <2>3, <3>1, <4>3, <5>1
        <5>2. CASE events'[k] = e /\ e.kind = "disconnection"
          <6>1. owner[e.on] \notin closed
            BY <1>3, <5>2
          <6> QED  BY <2>3, <3>1, <5>2, <6>1
        <5> QED  BY <2>2, <4>3, <5>1, <5>2
      <4> QED  BY <4>1, <4>2, <4>3
    <3>2. CASE m = Len(events) + 1 /\ events'[m] = e /\ e.kind = "disconnection"
      <4>1. \A k : Disconnects(k)' /\ k # m => Disconnects(k) /\ events'[k] = events[k]
        BY <2>2, <3>2
      <4>2. IsOpen(e.on) /\ owner[e.on] \in closed' /\ owner[e.on] \notin closed
        BY <1>3, <3>2
      <4>3. IsOpen(events[m].on)' /\ owner'[events'[m].on] \in closed'
        BY <1>1, <3>2, <4>2 DEF IsOpen
      <4>4. wpc' \in {"findEnded", "erase"} => events'[m].on # on'
        BY <1>1, <2>4, <3>2, <4>2
      <4>5. \A k : Disconnects(k)' /\ k # m => events'[k].on # events'[m].on
        BY <2>3, <3>2, <4>1, <4>2
      <4> QED  BY <4>3, <4>4, <4>5
    <3> QED  BY <2>2, <2>5, <3>1, <3>2
  <2>6. wpc' \in {"findEnded", "erase"} => owner'[on'] \in closed'
    BY <1>1, <2>4
  <2> QED  BY <2>5, <2>6 DEF ClosedInv
<1>4. CASE PeerConnect
  <2>1. arrived + 1 \in Conns
    BY <1>4, Constants DEF PeerConnect
  <2> QED  BY <1>2, <1>3, <1>4, <2>1 DEF PeerConnect, Event, Events
<1>5. CASE PeerSend
  BY <1>2, <1>3, <1>5 DEF PeerSend, Event, Events
<1>6. CASE PeerClose
  BY <1>2, <1>3, <1>6 DEF PeerClose, HasPeer, Event, Events
<1> QED  BY <1>4, <1>5, <1>6 DEF Peers

\* Every step leaves the handles in the queue open, each there once.
LEMMA ClosedStep ==
  ASSUME TypeOK, OrderInv, PlacesInv, ListInv, ClosedInv, [Next]_vars
  PROVE  ClosedInv'
<1>1. stops' = stops
  BY DEF Next, vars, worldVars
<1> SUFFICES ASSUME stops = {}  PROVE ClosedInv'
  BY <1>1 DEF ClosedInv
<1>2. \A m : Disconnects(m) =>
        /\ events[m].on \in Handles /\ stack[events[m].on] = "open"
        /\ wpc = "erase" => events[m].on # on
  BY DEF ClosedInv, Disconnects, IsOpen
<1>3. CASE SocketStep
  <2>1. PICK t \in Threads : MethodStep(t)
    BY <1>3 DEF SocketStep
  <2>2. UNCHANGED <<events, owner, closed, wpc, on>>
    BY <1>3 DEF SocketStep, peerVars, workerVars
  <2>3. \A m : Disconnects(m) => stack'[events[m].on] = stack[events[m].on]
    <3>1. CASE Create(t)
      BY <1>2, <3>1 DEF Create, Fresh, TypeOK, SocketTypeOK
    <3>2. CASE EndDisconnect(t) \/ EndDelete(t)
      <4>1. t = Worker /\ wpc = "erase" /\ pc[Worker] \in {"end", "delete"}
        BY <3>2, Constants DEF EndDisconnect, EndDelete, At, PlacesInv, Beginning, TypeOK
      <4>2. handle[self[t]] = on
        BY <4>1 DEF ListInv, EndedInv
      <4>3. \A h \in Handles : h # on => stack'[h] = stack[h]
        BY <3>2, <4>2 DEF EndDisconnect, EndDelete, TypeOK, SocketTypeOK
      <4> QED  BY <1>2, <4>1, <4>3
    <3> QED  BY <2>1, <3>1, <3>2, MethodMoves
  <2> QED  BY <1>1, <2>2, <2>3, ClosedKept
<1>4. CASE AcceptClient
  <2>1. PICK h \in Handles : /\ Fresh(h) /\ stack' = [stack EXCEPT ![h] = "open"]
                             /\ owner' = [owner EXCEPT ![h] = self[Worker]]
    BY <1>4 DEF AcceptClient, Accept
  <2>2. UNCHANGED <<events, closed>> /\ wpc' = "accepting"
    BY <1>4 DEF AcceptClient
  <2>3. \A m : Disconnects(m) => /\ stack'[events[m].on] = stack[events[m].on]
                                 /\ owner'[events[m].on] = owner[events[m].on]
    BY <1>2, <2>1 DEF Fresh, TypeOK, SocketTypeOK
  <2>4. \A m : Disconnects(m)' <=> Disconnects(m)
    BY <2>2 DEF Disconnects
  <2> QED  BY <2>2, <2>3, <2>4 DEF ClosedInv, Disconnects, IsOpen
<1>5. CASE FindClient \/ ConnectionCallback
  BY <1>1, <1>5, TakeKeepsClosed
<1>6. CASE Peers
  BY <1>1, <1>6, PeerKeepsClosed
<1>7. CASE \/ AcceptFails \/ Accepted \/ FindNext \/ FindReceiver \/ Receive \/ FindEnded
           \/ EraseClient
  <2>1. /\ UNCHANGED <<events, owner, closed, stack>>
        /\ wpc' \in {"findEnded", "erase"} => wpc \in {"findEnded", "erase"} /\ on' = on
    BY <1>7 DEF AcceptFails, Accepted, FindNext, FindReceiver, Receive, FindEnded, EraseClient,
       Return, peerVars, socketVars
  <2> QED  BY <1>1, <2>1, ClosedKept
<1>8. CASE SketchStep \/ UNCHANGED vars
  <2>1. UNCHANGED <<events, owner, closed, stack, wpc, on>>
    BY <1>8 DEF SketchStep, Begin, BeginListen, Available, AvailableSearch, AvailableNone,
       ReadClient, StopClient, StopReturn, End, EndStop, EndErase, EndServer, vars, peerVars,
       workerVars, socketVars
  <2> QED  BY <1>1, <2>1, ClosedKept
<1> QED  BY <1>3, <1>4, <1>5, <1>6, <1>7, <1>8 DEF Next, WorkerStep

\* The entry that receiveCallback() finds is the owner of its handle.
LEMMA RoutedStep ==
  ASSUME TypeOK, OrderInv, OwnerInv, PlacesInv, ListInv, RoutedInv, [Next]_vars
  PROVE  RoutedInv'
<1>1. stops' = stops /\ reuse' = reuse
  BY DEF Next, vars, worldVars
<1> SUFFICES ASSUME stops = {} \/ ~reuse  PROVE ReceivedByOwner'
  BY <1>1 DEF RoutedInv
<1>2. \A c \in Conns : rx[c] \subseteq {c}
  BY DEF RoutedInv, ReceivedByOwner
<1>3. CASE Receive
  <2>1. PICK c, h : c = self[Worker] /\ h = handle[c]
    OBVIOUS
  <2>2. wpc = "receive" /\ c \in Conns
    BY <1>3, <2>1 DEF Receive, OrderInv
  <2>3. CASE rx' = rx
    BY <1>2, <2>3 DEF ReceivedByOwner
  <2>4. CASE IsOpen(h) /\ owner[h] \in Conns /\ rx' = [rx EXCEPT ![c] = @ \cup {owner[h]}]
    <3>1. owner[h] = c
      <4>1. CASE ~reuse
        BY <2>1, <2>2, <2>4, <4>1, Constants DEF OwnerInv, IsOpen
      <4>2. CASE stops = {}
        <5>1. found \in 1 .. Len(clients) /\ c = clients[found] /\ Settled(found)
          BY <2>1, <2>2, <4>2 DEF ListInv, Settled
        <5> QED  BY <2>1, <4>2, <5>1 DEF ListInv, EntriesInv
      <4> QED  BY <4>1, <4>2
    <3>2. \A d \in Conns : rx'[d] = IF d = c THEN rx[d] \cup {d} ELSE rx[d]
      BY <2>2, <2>4, <3>1 DEF TypeOK
    <3> QED  BY <1>2, <3>2 DEF ReceivedByOwner
  <2>5. \A x \in unread : x \in Conns
    <3>1. \A x \in 1 .. arrived : x \in Conns
      BY Constants DEF Conns
    <3> QED  BY <3>1 DEF TypeOK
  <2> QED  BY <1>3, <2>1, <2>3, <2>4, <2>5 DEF Receive
<1>4. CASE ReadClient
  BY <1>2, <1>4 DEF ReadClient, ReceivedByOwner, TypeOK
<1>5. CASE rx' = rx
  BY <1>2, <1>5 DEF ReceivedByOwner
<1>6. Receive \/ ReadClient \/ rx' = rx
  BY DEF Next, SocketStep, Peers, PeerConnect, PeerSend, PeerClose, WorkerStep, SketchStep,
     ConnectionCallback, AcceptClient, AcceptFails, Accepted, FindClient, FindNext,
     FindReceiver, FindEnded, EraseClient, Begin, BeginListen, Available, AvailableSearch,
     AvailableNone, StopClient, StopReturn, End, EndStop, EndErase, EndServer, vars, listVars
<1> QED  BY <1>3, <1>4, <1>5, <1>6

-----------------------------------------------------------------------------
(* The count and the library, with one begin().                            *)

\* After a step there has been one begin() at most only if there had been before.
LEMMA OnceBefore ==
  ASSUME TypeOK, [Next]_vars, Once'
  PROVE  Once /\ (begins' = begins \/ (begins = 0 /\ begins' = 1 /\ Begin))
<1>1. stops' = stops
  BY DEF Next, vars, worldVars
<1>2. begins' = begins \/ (begins' = begins + 1 /\ Begin)
  BY DEF Next, SocketStep, Peers, PeerConnect, PeerSend, PeerClose, WorkerStep, SketchStep,
     ConnectionCallback, AcceptClient, AcceptFails, Accepted, FindClient, FindNext,
     FindReceiver, Receive, FindEnded, EraseClient, Begin, BeginListen, Available,
     AvailableSearch, AvailableNone, ReadClient, StopClient, StopReturn, End, EndStop, EndErase,
     EndServer, vars, beginVars
<1>3. begins \in Nat
  BY WiFiServerAssumption DEF TypeOK
<1> QED  BY <1>1, <1>2, <1>3 DEF Once

\* One thread at most is in a method.
LEMMA OneThread ==
  ASSUME TypeOK, PlacesInv, BeginInv, Once
  PROVE  /\ pc[Sketch] = "idle" \/ pc[Worker] = "idle"
         /\ wpc # "idle" => pc[Sketch] = "idle" /\ spc # "begin" /\ begins # 0
         /\ events # <<>> => pc[Sketch] = "idle" /\ spc # "begin" /\ begins # 0
         /\ begins = 0 => pc[Sketch] = "idle" /\ pc[Worker] = "idle"
BY DEF PlacesInv, BeginInv, Once, TypeOK

\* Nothing is called back before begin() has returned.
LEMMA BeginStep ==
  ASSUME TypeOK, OrderInv, PlacesInv, ListInv, BeginInv, [Next]_vars
  PROVE  BeginInv'
<1> SUFFICES ASSUME Once'  PROVE BeginInv'
  BY DEF BeginInv
<1> USE DEF At
<1>1. Once /\ (begins' = begins \/ (begins = 0 /\ begins' = 1 /\ Begin))
  BY OnceBefore
<1>2. /\ Sketch \in Threads /\ Worker \in Threads /\ Sketch # Worker
      /\ \A t \in Threads : t = Sketch \/ t = Worker
      /\ Server \notin Conns /\ Server \in Sockets
  BY Constants
<1>3. /\ begins = 0 \/ spc = "begin" =>
           /\ ~listening /\ registered = {} /\ events = <<>> /\ clients = <<>>
           /\ wpc = "idle" /\ arrived = 0
      /\ begins = 0 => spc = "idle"
      /\ begins = 0 \/ pc[Sketch] # "idle" => handle[Server] = NoHandle
      /\ pc[Sketch] # "idle" => spc = "begin"
      /\ stops = {} /\ spc \in {"idle", "begin", "search"}
  BY <1>1 DEF BeginInv, PlacesInv, Once
<1>4. CASE Begin
  <2>1. /\ begins = 0 /\ begins' = 1 /\ spc' = "begin"
        /\ UNCHANGED <<listening, registered, events, clients, wpc, arrived, handle>>
    BY <1>1, <1>3, <1>4, WiFiServerAssumption DEF Begin, listVars, workerVars, peerVars, TypeOK,
       Once
  <2> QED  BY <1>3, <2>1 DEF BeginInv
<1>5. CASE BeginListen
  <2>1. begins' = begins /\ spc' = "idle" /\ pc'[Sketch] = "idle" /\ begins # 0
    BY <1>3, <1>5 DEF BeginListen, threadVars
  <2> QED  BY <1>3, <2>1 DEF BeginInv
<1>6. CASE SketchStep /\ ~Begin /\ ~BeginListen
  <2>1. Available \/ AvailableSearch \/ AvailableNone \/ ReadClient
    BY <1>3, <1>6 DEF SketchStep, StopClient, StopReturn, End, EndStop, EndErase, EndServer
  <2>2. /\ UNCHANGED <<listening, registered, begins, events, clients, wpc, arrived, handle, pc>>
        /\ spc # "begin" /\ spc' # "begin" /\ (begins = 0 => spc' = "idle")
    BY <1>3, <2>1 DEF Available, AvailableSearch, AvailableNone, ReadClient, socketVars,
       threadVars, sketchVars, beginVars, workerVars, peerVars, listVars
  <2> QED  BY <1>3, <2>2 DEF BeginInv
<1>7. CASE SocketStep
  <2>1. PICK t \in Threads : MethodStep(t)
    BY <1>7 DEF SocketStep
  <2>2. /\ UNCHANGED <<listening, registered, begins, events, clients, wpc, spc, arrived, self>>
        /\ pc[t] # "idle" /\ \A u \in Threads : u # t => pc'[u] = pc[u]
    BY <1>7, <2>1, MethodMoves DEF SocketStep, listVars, beginVars, workerVars, peerVars,
       sketchVars
  <2>3. handle' = handle \/ (Create(t) /\ t = Sketch /\ pc'[Sketch] = "idle" /\ begins # 0)
    <3>1. t = Sketch => begins # 0
      BY <1>3, <2>2
    <3>2. Create(t) => t = Sketch /\ pc'[Sketch] = "idle"
      <4>1. Create(t) => pc[t] = "create" /\ pc'[t] = "idle"
        BY DEF Create, At, GoTo, TypeOK, SocketTypeOK
      <4>2. pc[Worker] # "create"
        BY <1>3 DEF PlacesInv, Ending, TypeOK
      <4> QED  BY <1>2, <4>1, <4>2
    <3> QED  BY <2>1, <3>1, <3>2, MethodMoves DEF EndDisconnect, EndDelete
  <2>4. begins = 0 => pc'[Sketch] = "idle"
    BY <1>2, <1>3, <2>2
  <2>5. pc'[Sketch] # "idle" => pc[Sketch] # "idle"
    BY <1>2, <2>2
  <2> QED  BY <1>3, <2>2, <2>3, <2>4, <2>5 DEF BeginInv
<1>8. CASE WorkerStep
  <2>1. begins # 0 /\ spc # "begin" /\ pc[Sketch] = "idle"
    BY <1>1, <1>8, OneThread DEF WorkerStep, ConnectionCallback, AcceptClient, AcceptFails,
       Accepted, FindClient, FindNext, FindReceiver, Receive, FindEnded, EraseClient, Take
  <2>2. UNCHANGED <<begins, spc>>
    BY <1>8 DEF WorkerStep, ConnectionCallback, AcceptClient, AcceptFails, Accepted,
       FindClient, FindNext, FindReceiver, Receive, FindEnded, EraseClient, beginVars, sketchVars
  <2>3. pc'[Sketch] = "idle"
    BY <1>2, <1>8, <2>1 DEF WorkerStep, ConnectionCallback, AcceptClient, AcceptFails,
       Accepted, FindClient, FindNext, FindReceiver, Receive, FindEnded, EraseClient, Accept, Call,
       socketVars, threadVars, TypeOK, SocketTypeOK
  <2> QED  BY <2>1, <2>2, <2>3 DEF BeginInv
<1>9. CASE Peers
  <2>1. UNCHANGED <<listening, registered, begins, clients, wpc, spc, pc, handle>>
    BY <1>9 DEF Peers, PeerConnect, PeerSend, PeerClose, listVars, beginVars, workerVars,
       sketchVars, socketVars, threadVars
  <2>2. /\ registered = {} => events' = events
        /\ ~listening => arrived' = arrived
    BY <1>9 DEF Peers, PeerConnect, PeerSend, PeerClose, Event
  <2> QED  BY <1>3, <2>1, <2>2 DEF BeginInv
<1>10. CASE UNCHANGED vars
  BY <1>3, <1>10 DEF vars, listVars, beginVars, workerVars, peerVars, sketchVars, socketVars,
     threadVars, BeginInv
<1> QED  BY <1>4, <1>5, <1>6, <1>7, <1>8, <1>9, <1>10 DEF Next

\* What is held stays in the list when neither the sockets nor the list change, and an
\* abandoned object's status stays.
LEMMA HoldKept ==
  ASSUME HoldInv, Once, UNCHANGED <<handle, stack, clients, owner>>, closed \subseteq closed',
         \A c \in closed : Gone(c) => Gone(c)' /\ status'[c] = status[c],
         wpc' = "accept" => wpc = "accept",
         wpc' = "erase" /\ pc'[Worker] \notin {"end", "delete"} =>
           /\ wpc = "erase" /\ pc[Worker] \notin {"end", "delete"} /\ UNCHANGED <<on, found>>
           /\ pc[Worker] = "idle" =>
                pc'[Worker] = "idle" /\ status'[clients[found]] = status[clients[found]]
  PROVE  HoldInv'
<1>1. \A h : Abandoned(h) => Abandoned(h)'
  BY DEF Abandoned
<1>2. \A h \in OpenHandles' : h # handle'[Server] =>
        \/ \E k \in 1 .. Len(clients') :
             (wpc' = "accept" => k # Len(clients')) /\ h = handle'[clients'[k]]
        \/ Abandoned(h)'
  BY <1>1 DEF HoldInv, OpenHandles
<1>3. wpc' = "erase" /\ pc'[Worker] \notin {"end", "delete"} =>
        stack'[on'] = "deleted" \/ (pc'[Worker] = "idle" /\ status'[clients'[found']] = "ERROR")
  BY DEF HoldInv
<1> QED  BY <1>2, <1>3 DEF HoldInv

\* A step of a method: the first create, and the end() of a client.
LEMMA MethodHolds ==
  ASSUME TypeOK, OrderInv, PlacesInv, ListInv, BeginInv, HoldInv, Once, SocketStep
  PROVE  HoldInv'
<1> USE DEF At, GoTo, SetStatus
<1>1. /\ Sketch \in Threads /\ Worker \in Threads /\ Sketch # Worker
      /\ \A t \in Threads : t = Sketch \/ t = Worker
      /\ Server \in Sockets /\ Server \notin Conns /\ Conns \subseteq Sockets
      /\ stops = {} /\ NoHandle \notin Handles /\ arrived \in Nat
      /\ \A c \in closed : c \in Conns /\ c \in 1 .. arrived
  <2>1. \A c \in 1 .. arrived : c \in Conns
    BY Constants DEF Conns
  <2> QED  BY <2>1, Constants, SecSocketAssumption DEF Once, TypeOK
<1>2. PICK t \in Threads : MethodStep(t)
  BY DEF SocketStep
<1>3. /\ UNCHANGED <<clients, owner, closed, events, wpc, on, found, self>> /\ pc[t] # "idle"
      /\ \A u \in Threads : u # t => pc'[u] = pc[u]
      /\ \A s \in Sockets : s # self[t] => status'[s] = status[s]
  BY <1>2, MethodMoves DEF SocketStep, workerVars, peerVars, listVars
<1>4. \A c : Gone(c) <=> Gone(c)'
  BY <1>3 DEF Gone
<1>5. CASE t = Sketch
  <2>1. pc[Sketch] \in Beginning /\ spc = "begin" /\ self[Sketch] = Server
    BY <1>1, <1>3, <1>5 DEF PlacesInv
  <2>2. wpc = "idle" /\ clients = <<>> /\ handle[Server] = NoHandle /\ closed = {}
    <3>1. wpc = "idle" /\ clients = <<>> /\ handle[Server] = NoHandle /\ arrived = 0
      BY <2>1 DEF BeginInv, Beginning
    <3> QED  BY <1>1, <3>1
  <2>3. OpenHandles = {}
    <3>1. Len(clients) = 0
      BY <2>2
    <3> QED  BY <1>1, <2>2, <3>1 DEF HoldInv, OpenHandles, Abandoned
  <2>4. CASE UNCHANGED <<handle, stack>>
    BY <1>3, <2>2, <2>4, HoldKept
  <2>5. CASE Create(Sketch) /\ ~UNCHANGED <<handle, stack>>
    <3>1. PICK h \in Handles : /\ stack' = [stack EXCEPT ![h] = "open"]
                              /\ handle' = [handle EXCEPT ![Server] = h]
      BY <2>1, <2>5 DEF Create
    <3>2. \A g \in OpenHandles' : g = h
      BY <2>3, <3>1 DEF OpenHandles, TypeOK, SocketTypeOK
    <3>3. handle'[Server] = h
      BY <1>1, <3>1 DEF TypeOK, SocketTypeOK
    <3> QED  BY <1>3, <2>2, <3>2, <3>3 DEF HoldInv
  <2> QED BY <1>2, <1>5, <2>1, <2>4, <2>5, MethodMoves DEF EndDisconnect, EndDelete,
              Beginning
<1>6. CASE t = Worker
  <2>1. /\ \/ pc[Worker] \in Ending /\ wpc = "erase"
           \/ pc[Worker] \in {"acceptLoad", "acceptStore"} /\ wpc = "accepting"
        /\ \E k \in 1 .. Len(clients) : self[Worker] = clients[k]
    <3>1. \/ pc[Worker] \in Ending /\ wpc = "erase"
          \/ pc[Worker] \in {"acceptLoad", "acceptStore"} /\ wpc = "accepting"
      BY <1>1, <1>3, <1>6 DEF PlacesInv
    <3>2. wpc = "erase" => \E k \in 1 .. Len(clients) : self[Worker] = clients[k]
      BY <1>1 DEF ListInv, EndedInv
    <3>3. wpc = "accepting" => \E k \in 1 .. Len(clients) : self[Worker] = clients[k]
      <4>1. clients # <<>> => Len(clients) \in Nat \ {0}
        BY EmptySeq, Zenon DEF TypeOK
      <4> QED  BY <1>1, <4>1 DEF ListInv
    <3> QED  BY <3>1, <3>2, <3>3
  <2>2. \A c \in closed : Gone(c) => Gone(c)' /\ status'[c] = status[c]
    BY <1>1, <1>3, <1>4, <1>6, <2>1 DEF Gone
  <2>3. CASE UNCHANGED <<handle, stack>> /\ pc[Worker] \notin {"end", "delete"}
    BY <1>3, <1>6, <2>2, <2>3, HoldKept
  <2>4. CASE EndDisconnect(Worker) \/ EndDelete(Worker)
    <3>1. /\ wpc = "erase" /\ on \in Handles /\ self[Worker] = clients[found]
          /\ clients[found] \in Sockets /\ on = handle[clients[found]]
          /\ stack[on] \in {"open", "disconnected"}
      <4>1. wpc = "erase" /\ pc[Worker] \in {"end", "delete"}
        BY <2>1, <2>4 DEF EndDisconnect, EndDelete
      <4> QED  BY <1>1, <4>1, ListedObjects DEF ListInv, EndedInv
    <3>2. /\ handle' = handle
          /\ \/ stack' = stack /\ pc'[Worker] = "idle" /\ status'[clients[found]] = "ERROR"
             \/ stack' = [stack EXCEPT ![on] = "disconnected"] /\ pc'[Worker] = "delete"
             \/ stack' = [stack EXCEPT ![on] = "deleted"] /\ pc'[Worker] = "endLoad"
      BY <1>1, <2>4, <3>1 DEF EndDisconnect, EndDelete, TypeOK, SocketTypeOK
    <3>3. \A h \in OpenHandles' : h \in OpenHandles
      BY <3>1, <3>2 DEF OpenHandles, TypeOK, SocketTypeOK
    <3>4. \A h : Abandoned(h) => Abandoned(h)'
      BY <1>3, <2>2, <3>2 DEF Abandoned
    <3>5. pc'[Worker] \notin {"end", "delete"} =>
            stack'[on] = "deleted" \/ (pc'[Worker] = "idle" /\ status'[clients[found]] = "ERROR")
      BY <3>1, <3>2 DEF TypeOK, SocketTypeOK
    <3> QED  BY <1>3, <3>1, <3>2, <3>3, <3>4, <3>5 DEF HoldInv
  <2>5. \/ UNCHANGED <<handle, stack>> /\ pc[Worker] \notin {"end", "delete"}
        \/ EndDisconnect(Worker) \/ EndDelete(Worker)
    <3>1. ~Create(Worker)
      BY <2>1 DEF Create, Ending
    <3>2. pc[Worker] \in {"end", "delete"} => EndDisconnect(Worker) \/ EndDelete(Worker)
      BY <1>2, <1>6 DEF MethodStep, BeginTest, BeginInit, BeginFlag, CountUpLoad, CountUpStore,
         Create, CountDownLoad, CountDownStore, EndTest, EndDeinit, EndFlag
    <3> QED  BY <1>2, <1>6, <3>1, <3>2, MethodMoves
  <2> QED  BY <2>3, <2>4, <2>5
<1> QED  BY <1>1, <1>5, <1>6

\* accept() adds a handle, to the entry that comes last.
LEMMA AcceptHolds ==
  ASSUME TypeOK, OrderInv, PlacesInv, ListInv, HoldInv, Once, AcceptClient
  PROVE  HoldInv'
<1>1. /\ stops = {} /\ wpc = "accept" /\ wpc' = "accepting" /\ clients' = clients
      /\ clients # <<>> /\ self[Worker] = clients[Len(clients)]
  BY DEF AcceptClient, listVars, ListInv, Once
<1>2. Len(clients) \in Nat \ {0} /\ clients[Len(clients)] \in Conns
      /\ clients[Len(clients)] \in Sockets /\ Server \notin Conns /\ Server \in Sockets
  <2>1. Len(clients) \in Nat \ {0}
    BY <1>1, EmptySeq, Zenon DEF TypeOK
  <2> QED  BY <2>1, ListedObjects, Constants
<1>3. PICK h \in Handles : /\ stack' = [stack EXCEPT ![h] = "open"] /\ Fresh(h)
                          /\ handle' = [handle EXCEPT ![clients[Len(clients)]] = h]
                          /\ owner' = [owner EXCEPT ![h] = self[Worker]]
                          /\ UNCHANGED <<status, closed, events>>
  BY <1>1 DEF AcceptClient, Accept
<1>4. /\ h \notin OpenHandles
      /\ \A g \in Handles : g # h => stack'[g] = stack[g] /\ owner'[g] = owner[g]
      /\ handle'[clients[Len(clients)]] = h /\ handle'[Server] = handle[Server]
      /\ \A s \in Sockets : s # clients[Len(clients)] => handle'[s] = handle[s]
  BY <1>2, <1>3 DEF Fresh, OpenHandles, TypeOK, SocketTypeOK
<1>5. ASSUME NEW k \in 1 .. Len(clients), k # Len(clients)
      PROVE  handle'[clients[k]] = handle[clients[k]]
  <2>1. clients[k] < clients[Len(clients)]
    BY <1>2, <1>5 DEF OrderInv, Ordered
  <2>2. clients[k] # clients[Len(clients)]
    BY <1>2, <2>1, Constants
  <2> QED  BY <1>4, <2>2, <1>5, ListedObjects
<1>6. ASSUME NEW g \in OpenHandles, Abandoned(g)
      PROVE  Abandoned(g)'
  <2>1. g \in Handles /\ g # h /\ owner[g] \in Conns /\ owner[g] # clients[Len(clients)]
    <3>1. closed \subseteq Conns
      <4>1. \A x \in 1 .. arrived : x \in Conns
        BY Constants DEF Conns
      <4> QED  BY <4>1 DEF TypeOK
    <3> QED  BY <1>2, <1>4, <1>6, <3>1 DEF Abandoned, Gone, OpenHandles
  <2>2. handle'[owner[g]] = handle[owner[g]] /\ owner'[g] = owner[g]
    BY <1>4, <2>1, Constants
  <2> QED  BY <1>1, <1>3, <1>6, <2>2 DEF Abandoned, Gone
<1>7. ASSUME NEW g \in OpenHandles', g # handle'[Server]
      PROVE  (\E k \in 1 .. Len(clients) : g = handle'[clients[k]]) \/ Abandoned(g)'
  <2>1. CASE g = h
    BY <1>2, <1>4, <2>1
  <2>2. CASE g # h
    <3>1. g \in OpenHandles /\ g # handle[Server]
      BY <1>4, <1>7, <2>2 DEF OpenHandles
    <3>2. (\E k \in 1 .. Len(clients) : k # Len(clients) /\ g = handle[clients[k]]) \/ Abandoned(g)
      BY <1>1, <3>1 DEF HoldInv
    <3> QED  BY <1>5, <1>6, <3>1, <3>2
  <2> QED  BY <2>1, <2>2
<1> QED  BY <1>1, <1>7 DEF HoldInv

\* The callbacks that change the list.
LEMMA CallbackHolds ==
  ASSUME TypeOK, OrderInv, PlacesInv, ListInv, ClosedInv, HoldInv, Once,
         ConnectionCallback \/ AcceptFails \/ EraseClient
  PROVE  HoldInv'
<1>1. /\ UNCHANGED <<handle, stack, owner, closed>> /\ stops = {} /\ OpenHandles' = OpenHandles
      /\ clients \in Seq(Conns) /\ Len(clients) \in Nat
      /\ \A c \in closed : status'[c] = status[c]
  <2>1. \A c \in closed : c \in Conns
    <3>1. \A x \in 1 .. arrived : x \in Conns
      BY Constants DEF Conns
    <3> QED  BY <3>1 DEF TypeOK
  <2>2. \A c \in closed : c \in Sockets /\ c # Server
    BY <2>1, Constants
  <2> QED  BY <2>2, LenProperties DEF ConnectionCallback, AcceptFails, EraseClient, SetStatus,
              socketVars, peerVars, Once, TypeOK, SocketTypeOK, OpenHandles
<1>2. ASSUME \A c \in closed : Gone(c) => Gone(c)'
      PROVE  \A h : Abandoned(h) => Abandoned(h)'
  BY <1>1, <1>2 DEF Abandoned
<1>3. \A h \in OpenHandles : h # handle[Server] =>
        \/ \E k \in 1 .. Len(clients) :
             (wpc = "accept" => k # Len(clients)) /\ h = handle[clients[k]]
        \/ Abandoned(h)
  BY DEF HoldInv
<1>4. CASE ConnectionCallback
  <2>1. /\ wpc = "idle" /\ wpc' = "accept" /\ Take("connection")
        /\ clients' = Append(clients, Head(events).on) /\ arrived' = arrived
    BY <1>4 DEF ConnectionCallback, Take, peerVars
  <2>2. Head(events).on \in Conns
    BY <2>1, TakeOrder
  <2>3. /\ Len(clients') = Len(clients) + 1 /\ clients'[Len(clients) + 1] = Head(events).on
        /\ \A k \in 1 .. Len(clients) : clients'[k] = clients[k]
    BY <1>1, <2>1, <2>2, AppendProperties
  <2>4. \A k \in 1 .. Len(clients) :
          /\ k \in 1 .. Len(clients') /\ k # Len(clients')
          /\ handle[clients'[k]] = handle[clients[k]]
    BY <1>1, <2>3
  <2>5. ASSUME NEW c, Gone(c)  PROVE Gone(c)'
    <3>1. /\ Head(events) = events[1] /\ 1 \in 1 .. Len(events) /\ events[1].kind = "connection"
          /\ \A k \in 1 .. Len(events') :
               k + 1 \in 1 .. Len(events) /\ events'[k] = events[k + 1]
      BY <2>1, QueueHead DEF Take, OrderInv
    <3>2. \A k \in 1 .. Len(clients') : k \in 1 .. Len(clients) \/ k = Len(clients) + 1
      BY <1>1, <2>3
    <3>3. \A k \in 1 .. Len(clients') : clients'[k] # c
      BY <2>3, <2>5, <3>1, <3>2 DEF Gone
    <3>4. \A m \in 1 .. Len(events') : events'[m].kind = "connection" => events'[m].on # c
      BY <2>5, <3>1 DEF Gone
    <3> QED  BY <3>3, <3>4 DEF Gone
  <2> QED  BY <1>1, <1>2, <1>3, <2>1, <2>4, <2>5 DEF HoldInv
<1>5. CASE AcceptFails
  <2>1. /\ wpc = "accept" /\ wpc' = "idle" /\ events' = events
        /\ clients # <<>> /\ clients' = SubSeq(clients, 1, Len(clients) - 1)
    BY <1>1, <1>5 DEF AcceptFails, Return, ListInv
  <2>2. /\ Len(clients') = Len(clients) - 1
        /\ \A j \in 1 .. Len(clients') : clients'[j] = clients[j]
    BY <1>1, <2>1, PoppedEntries
  <2>3. \A k \in 1 .. Len(clients) : k # Len(clients) =>
          k \in 1 .. Len(clients') /\ handle[clients'[k]] = handle[clients[k]]
    BY <1>1, <2>2
  <2>4. \A k \in 1 .. Len(clients') : k \in 1 .. Len(clients)
    BY <1>1, <2>2
  <2>5. \A c : Gone(c) => Gone(c)'
    BY <2>1, <2>2, <2>4 DEF Gone
  <2> QED  BY <1>1, <1>2, <1>3, <2>1, <2>3, <2>5 DEF HoldInv
<1>6. CASE EraseClient
  <2>1. /\ wpc = "erase" /\ wpc' = "idle" /\ Erase(found) /\ pc[Worker] = "idle"
        /\ UNCHANGED <<events, arrived, status>>
    BY <1>6 DEF EraseClient, At, Return, peerVars, socketVars
  <2>2. /\ found \in 1 .. Len(clients) /\ on = handle[clients[found]]
        /\ owner[on] = clients[found] /\ owner[on] \in closed
        /\ stack[on] = "deleted" \/ status[clients[found]] = "ERROR"
    BY <1>1, <2>1 DEF ListInv, EndedInv, ClosedInv, HoldInv
  <2>3. /\ Len(clients') = Len(clients) - 1
        /\ \A j \in 1 .. Len(clients') : clients'[j] = clients[IF j < found THEN j ELSE j + 1]
    BY <1>1, <2>1, <2>2, ErasedEntries DEF Erase
  <2>4. ASSUME NEW k \in 1 .. Len(clients), k # found
        PROVE  \E j \in 1 .. Len(clients') : clients'[j] = clients[k]
    <3>1. PICK j : j = IF k < found THEN k ELSE k - 1
      OBVIOUS
    <3>2. j \in 1 .. Len(clients') /\ k = IF j < found THEN j ELSE j + 1
      BY <1>1, <2>2, <2>3, <2>4, <3>1
    <3> QED  BY <2>3, <3>2
  <2>5. ASSUME NEW j \in 1 .. Len(clients')
        PROVE  \E x \in 1 .. Len(clients) : x # found /\ clients'[j] = clients[x]
    <3>1. PICK x : x = IF j < found THEN j ELSE j + 1
      OBVIOUS
    <3>2. x \in 1 .. Len(clients) /\ x # found
      BY <1>1, <2>2, <2>3, <3>1
    <3> QED  BY <2>3, <3>1, <3>2
  <2>6. \A c : Gone(c) => Gone(c)'
    BY <2>1, <2>5 DEF Gone
  <2>7. ASSUME NEW c, c = clients[found]  PROVE Gone(c)'
    <3>1. \A x \in 1 .. Len(clients) : x # found => clients[x] # clients[found]
      <4>1. ASSUME NEW x \in 1 .. Len(clients), x # found  PROVE clients[x] # clients[found]
        <5>1. x < found \/ found < x
          BY <1>1, <2>2, <4>1
        <5>2. clients[x] < clients[found] \/ clients[found] < clients[x]
          BY <2>2, <5>1 DEF OrderInv, Ordered
        <5>3. clients[x] \in Nat /\ clients[found] \in Nat
          BY <2>2, ListedObjects, Constants
        <5> QED  BY <5>2, <5>3
      <4> QED  BY <4>1
    <3>2. \A m \in 1 .. Len(events) : events[m].kind = "connection" =>
            events[m].on # clients[found]
      <4>1. \A m \in 1 .. Len(events) : events[m].kind = "connection" =>
              events[m].on \in Conns /\ clients[found] < events[m].on
        BY <2>2, ElementOfSeq DEF OrderInv, After, Events
      <4>2. clients[found] \in Nat /\ Conns \subseteq Nat
        BY <2>2, ListedObjects, Constants DEF Conns
      <4> QED  BY <4>1, <4>2
    <3>3. \A j \in 1 .. Len(clients') : clients'[j] # clients[found]
      BY <2>5, <3>1
    <3> QED  BY <2>1, <2>7, <3>2, <3>3 DEF Gone
  <2>8. ASSUME NEW h \in OpenHandles, h # handle[Server]
        PROVE  (\E j \in 1 .. Len(clients') : h = handle[clients'[j]]) \/ Abandoned(h)'
    <3>1. CASE Abandoned(h)
      BY <1>2, <2>6, <3>1
    <3>2. CASE h = on
      <4>1. status[clients[found]] = "ERROR"
        BY <2>2, <2>8, <3>2 DEF OpenHandles
      <4>2. PICK c : c = clients[found]
        OBVIOUS
      <4>3. c \in closed /\ Gone(c)' /\ owner[h] = c /\ handle[c] = h /\ status[c] = "ERROR"
        BY <2>2, <2>7, <3>2, <4>1, <4>2
      <4> QED  BY <1>1, <2>1, <4>3 DEF Abandoned
    <3>3. CASE \E k \in 1 .. Len(clients) : k # found /\ h = handle[clients[k]]
      BY <2>4, <3>3
    <3> QED  BY <1>3, <2>2, <2>8, <3>1, <3>2, <3>3
  <2> QED  BY <1>1, <2>1, <2>8 DEF HoldInv
<1> QED  BY <1>4, <1>5, <1>6

\* Every step leaves what is held in the list, or abandoned.
LEMMA HoldStep ==
  ASSUME TypeOK, OrderInv, PlacesInv, ListInv, ClosedInv, BeginInv, HoldInv, [Next]_vars
  PROVE  HoldInv'
<1> SUFFICES ASSUME Once'  PROVE HoldInv'
  BY DEF HoldInv
<1>1. Once /\ stops = {} /\ spc \in {"idle", "begin", "search"}
  BY OnceBefore DEF Once, PlacesInv
<1>2. /\ Sketch \in Threads /\ Worker \in Threads /\ Sketch # Worker
      /\ \A c \in closed : c \in Conns /\ c <= arrived /\ c \in Sockets /\ c # Server
  <2>1. \A x \in 1 .. arrived : x \in Conns /\ x <= arrived
    BY Constants DEF Conns
  <2> QED  BY <2>1, Constants DEF TypeOK
<1>3. CASE SocketStep
  BY <1>1, <1>3, MethodHolds
<1>4. CASE AcceptClient
  BY <1>1, <1>4, AcceptHolds
<1>5. CASE ConnectionCallback \/ AcceptFails \/ EraseClient
  BY <1>1, <1>5, CallbackHolds
<1>6. CASE FindClient
  <2>1. /\ UNCHANGED <<handle, status, stack, clients, owner, closed>>
        /\ wpc' \notin {"accept", "erase"} /\ \E kind : Take(kind)
    BY <1>6 DEF FindClient, listVars, peerVars, socketVars
  <2>2. \A k \in 1 .. Len(events') : k + 1 \in 1 .. Len(events) /\ events'[k] = events[k + 1]
    BY <2>1, QueueHead DEF Take, OrderInv
  <2>3. \A c : Gone(c) => Gone(c)'
    BY <2>1, <2>2 DEF Gone
  <2> QED  BY <1>1, <2>1, <2>3, HoldKept
<1>7. CASE Peers
  <2>1. UNCHANGED <<handle, status, stack, clients, owner, wpc, on, found, pc>>
          /\ closed \subseteq closed'
    BY <1>7 DEF Peers, PeerConnect, PeerSend, PeerClose, workerVars, listVars, socketVars,
       threadVars
  <2>2. \/ events' = events
        \/ \E e \in Events : /\ events' = Append(events, e)
                             /\ e.kind = "connection" => e.on = arrived + 1
    <3>1. CASE PeerConnect
      <4>1. arrived + 1 \in Conns
        BY <3>1, Constants DEF PeerConnect
      <4> QED  BY <3>1, <4>1 DEF PeerConnect, Event, Events
    <3>2. ASSUME NEW kind \in {"receive", "disconnection"}, NEW h \in Handles, Event(kind, h)
          PROVE  \/ events' = events
                 \/ \E e \in Events : events' = Append(events, e) /\ e.kind # "connection"
      <4>1. [kind |-> kind, on |-> h] \in Events
        BY DEF Events
      <4> QED  BY <3>2, <4>1 DEF Event
    <3>3. CASE PeerSend \/ PeerClose
      BY <3>2, <3>3 DEF PeerSend, PeerClose, HasPeer
    <3> QED  BY <1>7, <3>1, <3>3 DEF Peers
  <2>3. ASSUME NEW c \in closed, Gone(c)  PROVE Gone(c)'
    <3>1. CASE events' = events
      BY <2>1, <2>3, <3>1 DEF Gone
    <3>2. ASSUME NEW e \in Events, events' = Append(events, e),
                 e.kind = "connection" => e.on = arrived + 1
          PROVE  Gone(c)'
      <4>2. /\ Len(events') = Len(events) + 1 /\ Len(events) \in Nat
            /\ \A k \in 1 .. Len(events) : events'[k] = events[k]
            /\ events'[Len(events) + 1] = e
        BY <3>2, AppendProperties, LenProperties DEF OrderInv
      <4>3. c # arrived + 1
        BY <1>2, Constants
      <4>4. \A m \in 1 .. Len(events') : m \in 1 .. Len(events) \/ m = Len(events) + 1
        BY <4>2
      <4>5. \A m \in 1 .. Len(events') : events'[m].kind = "connection" => events'[m].on # c
        BY <2>3, <3>2, <4>2, <4>3, <4>4 DEF Gone
      <4> QED  BY <2>1, <2>3, <4>5 DEF Gone
    <3> QED  BY <2>2, <3>1, <3>2
  <2> QED  BY <1>1, <2>1, <2>3, HoldKept
<1>8. CASE Receive
  <2>1. /\ wpc = "receive" /\ wpc' = "idle"
        /\ UNCHANGED <<handle, stack, clients, owner, closed, events>>
        /\ \A s \in Sockets : s # self[Worker] => status'[s] = status[s]
    BY <1>8 DEF Receive, Return, SetStatus, TypeOK, SocketTypeOK
  <2>2. found \in 1 .. Len(clients) /\ self[Worker] = clients[found]
    BY <1>1, <2>1 DEF ListInv
  <2>3. \A c \in closed : Gone(c) => Gone(c)' /\ status'[c] = status[c]
    BY <1>2, <2>1, <2>2 DEF Gone
  <2> QED  BY <1>1, <2>1, <2>3, HoldKept
<1>9. CASE Accepted \/ FindNext \/ FindReceiver \/ FindEnded \/ UNCHANGED vars
  <2>1. /\ UNCHANGED <<handle, stack, status, clients, owner, closed, events>>
        /\ \/ wpc' = wpc /\ UNCHANGED <<pc, on, found>>
           \/ wpc' \in {"idle", "findReceiver", "findEnded", "receive"}
           \/ wpc' = "erase" /\ pc'[Worker] = "end"
    BY <1>2, <1>9 DEF Accepted, FindNext, FindReceiver, FindEnded, Return, Call, vars, workerVars,
       listVars, peerVars, socketVars, threadVars, TypeOK, SocketTypeOK
  <2>2. \A c : Gone(c) => Gone(c)'
    BY <2>1 DEF Gone
  <2> QED  BY <1>1, <2>1, <2>2, HoldKept
<1>10. CASE SketchStep
  <2>1. UNCHANGED <<handle, stack, clients, owner, closed, events, wpc, on, found>>
    BY <1>1, <1>10 DEF SketchStep, Begin, BeginListen, Available, AvailableSearch,
       AvailableNone, ReadClient, StopClient, StopReturn, End, EndStop, EndErase, EndServer,
       workerVars, listVars, peerVars, socketVars, threadVars
  <2>2. /\ pc'[Worker] = pc[Worker]
        /\ \A s \in Sockets : s # Server => status'[s] = status[s]
    BY <1>1, <1>2, <1>10 DEF SketchStep, Begin, BeginListen, Available, AvailableSearch,
       AvailableNone, ReadClient, StopClient, StopReturn, End, EndStop, EndErase, EndServer,
       Call, SetStatus, socketVars, threadVars, TypeOK, SocketTypeOK
  <2>3. \A c \in closed : Gone(c) => Gone(c)' /\ status'[c] = status[c]
    BY <1>2, <2>1, <2>2 DEF Gone
  <2>4. wpc = "erase" => clients[found] \in Sockets /\ clients[found] # Server
    BY <1>1, ListedObjects, Constants DEF ListInv, EndedInv
  <2> QED  BY <1>1, <2>1, <2>2, <2>3, <2>4, HoldKept
<1> QED
  BY <1>3, <1>4, <1>5, <1>6, <1>7, <1>8, <1>9, <1>10 DEF Next, WorkerStep

\* The count and the library: one thread at a time is in a method.
LEMMA OnceStep ==
  ASSUME TypeOK, OrderInv, PlacesInv, ListInv, BeginInv, OnceInv, [Next]_vars
  PROVE  OnceInv'
<1> SUFFICES ASSUME Once'  PROVE CountInv' /\ LibraryInv'
  BY DEF OnceInv
<1> USE DEF At
<1>1. Once /\ stops = {} /\ spc \in {"idle", "begin", "search"}
  BY OnceBefore DEF Once, PlacesInv
<1>2. /\ Sketch \in Threads /\ Worker \in Threads /\ Sketch # Worker
      /\ \A t \in Threads : t = Sketch \/ t = Worker
      /\ Server \in Sockets /\ Conns \subseteq Sockets /\ SocketTypeOK
  BY Constants DEF TypeOK
<1>3. /\ CountInv /\ LibraryInv
      /\ pc[Sketch] = "idle" \/ pc[Worker] = "idle"
      /\ wpc # "idle" => pc[Sketch] = "idle"
      /\ events # <<>> => pc[Sketch] = "idle"
  BY <1>1, OneThread DEF OnceInv
<1>4. ASSUME UNCHANGED <<handle, stack, count, initialized, up, pc, loaded, leaks>>,
             \A t \in Threads : pc[t] = "delete" => self'[t] = self[t]
      PROVE  CountInv' /\ LibraryInv'
  BY <1>3, <1>4 DEF CountInv, LibraryInv, Alone, Held, OpenHandles, Starting
<1>5. CASE SocketStep
  <2>1. PICK t \in Threads : MethodStep(t)
    BY <1>5 DEF SocketStep
  <2>2. pc[t] # "idle"
    BY <2>1, MethodMoves
  <2>3. Alone(t)
    BY <1>2, <1>3, <2>2 DEF Alone, Busy
  <2> QED  BY <1>2, <1>3, <2>1, <2>3, MethodCounts, MethodKeepsUp
<1>6. ASSUME NEW t \in Threads, NEW s \in Sockets, NEW place \in {"begin", "end"},
             Call(t, s, place), \A u \in Threads : pc[u] = "idle",
             UNCHANGED <<handle, stack, count, initialized, up, loaded, leaks>>
      PROVE  CountInv' /\ LibraryInv'
  <2>1. Alone(t)
    BY <1>6 DEF Alone, Busy
  <2>2. CountInv'
    BY <1>2, <1>3, <1>6, <2>1, CallCounts
  <2>3. ~Starting'
    BY <1>2, <1>6 DEF Starting, Started, Call, SocketTypeOK
  <2>4. initialized => up
    BY <1>3, <1>6 DEF LibraryInv
  <2> QED  BY <1>3, <1>6, <2>2, <2>3, <2>4 DEF LibraryInv, OpenHandles
<1>7. CASE AcceptClient
  <2>1. self[Worker] \in Sockets /\ IsOpen(handle[Server]) /\ wpc = "accept"
    BY <1>2, <1>7 DEF AcceptClient, SocketTypeOK
  <2>2. PICK h \in Handles : Accept(Worker, self[Worker], h)
    BY <1>7 DEF AcceptClient
  <2>3. Alone(Worker)
    BY <1>2, <1>3, <2>1 DEF Alone, Busy
  <2>4. CountInv'
    BY <1>2, <1>3, <2>1, <2>2, <2>3, AcceptCounts
  <2>5. handle[Server] \in OpenHandles /\ up' = up
    BY <2>1, <2>2 DEF IsOpen, OpenHandles, Accept
  <2>6. up
    BY <1>3, <2>5 DEF LibraryInv
  <2> QED  BY <2>4, <2>5, <2>6 DEF LibraryInv
<1>8. CASE FindEnded
  <2>1. clients[found] \in Sockets
    BY <1>8, ListedObjects DEF FindEnded, TypeOK, OrderInv
  <2>2. \A u \in Threads : pc[u] = "idle"
    BY <1>2, <1>3, <1>8 DEF FindEnded, Call
  <2> QED  BY <1>2, <1>6, <1>8, <2>1, <2>2 DEF FindEnded
<1>9. CASE ConnectionCallback \/ FindReceiver
  <2>1. /\ pc[Worker] = "idle" /\ \A u \in Threads : u # Worker => self'[u] = self[u]
        /\ UNCHANGED <<handle, stack, count, initialized, up, pc, loaded, leaks>>
    BY <1>1, <1>2, <1>9 DEF ConnectionCallback, FindReceiver, Take, PlacesInv, SocketTypeOK
  <2> QED  BY <1>2, <1>4, <2>1
<1>10. CASE Begin
  <2>1. begins = 0
    BY <1>1, <1>10, WiFiServerAssumption DEF Begin, Once, TypeOK
  <2>2. \A u \in Threads : pc[u] = "idle"
    BY <1>1, <1>2, <2>1, OneThread
  <2> QED  BY <1>2, <1>6, <1>10, <2>2 DEF Begin
<1>11. CASE \/ AcceptFails \/ Accepted \/ FindClient \/ FindNext \/ Receive \/ EraseClient
            \/ Peers \/ UNCHANGED vars \/ (SketchStep /\ ~Begin)
  <2>1. UNCHANGED <<handle, stack, count, initialized, up, pc, self, loaded, leaks>>
    BY <1>1, <1>11 DEF AcceptFails, Accepted, FindClient, FindNext, Receive, EraseClient, Peers,
       PeerConnect, PeerSend, PeerClose, vars, SketchStep, BeginListen, Available, AvailableSearch,
       AvailableNone, ReadClient, StopClient, StopReturn, End, EndStop, EndErase, EndServer,
       socketVars, threadVars
  <2> QED  BY <1>4, <2>1
<1> QED
  BY <1>5, <1>7, <1>8, <1>9, <1>10, <1>11 DEF Next, WorkerStep

-----------------------------------------------------------------------------
(* The theorems.                                                           *)

\* At first nothing is listed, queued, open or counted.
LEMMA AtFirst == Init => IInv
<1> SUFFICES ASSUME Init  PROVE IInv
  OBVIOUS
<1>1. /\ Sketch \in Threads
      /\ Worker \in Threads
      /\ Server \in Sockets
      /\ Conns \subseteq Sockets
      /\ MaxConns \in Nat
      /\ MaxBegins \in Nat
      /\ MaxFailures \in Nat
      /\ NoHandle \notin Handles
      /\ IsFiniteSet(Handles)
  BY WiFiServerAssumption, SecSocketAssumption
<1>2. SocketTypeOK
  <2>1. initialized \in BOOLEAN /\ up \in BOOLEAN /\ reuse \in BOOLEAN
    BY Zenon DEF Init, SocketInit
  <2>2. /\ handle \in [Sockets -> Handles \cup {NoHandle}]
        /\ status \in [Sockets -> Statuses]
        /\ stack \in [Handles -> {"new", "open", "disconnected", "deleted"}]
        /\ self \in [Threads -> Sockets]
    BY DEF Init, SocketInit, Statuses
  <2>3. count \in Int /\ leaks \in 0 .. MaxFailures /\ loaded \in [Threads -> Int]
    BY <1>1 DEF Init, SocketInit
  <2>4. pc \in [Threads -> {"idle", "begin", "init", "initFlag", "beginLoad", "beginStore",
                           "create", "acceptLoad", "acceptStore", "end", "delete", "endLoad",
                           "endStore", "endTest", "deinit", "endFlag"}]
    BY DEF Init, SocketInit
  <2> QED  BY <2>1, <2>2, <2>3, <2>4 DEF SocketTypeOK
<1>3. PICK w \in Worlds : stops = w.stops /\ conns = w.conns
  BY DEF Init
<1>4. stops \subseteq {"client", "server"} /\ conns \in 0 .. MaxConns
  BY <1>3, WiFiServerAssumption
<1>5. clients = <<>> /\ events = <<>> /\ Len(clients) = 0 /\ Len(events) = 0
      /\ clients \in Seq(Conns) /\ events \in Seq(Events)
  BY DEF Init
<1>6. TypeOK
  <2>1. listening \in BOOLEAN
    BY Zenon DEF Init
  <2>2. Len(clients) <= conns /\ \A k \in 1 .. Len(events) : events[k].kind \in Callbacks
    BY <1>4, <1>5
  <2>3. /\ registered \subseteq Callbacks
        /\ begins \in 0 .. MaxBegins /\ arrived \in 0 .. conns
        /\ closed \subseteq 1 .. arrived /\ unread \subseteq 1 .. arrived
        /\ wpc \in {"idle", "accept", "accepting", "findReceiver", "receive", "findEnded",
                    "erase"}
        /\ on \in Handles \cup {NoHandle} /\ found \in 0 .. MaxConns + 1
        /\ spc \in {"idle", "begin", "search", "stop", "endLoop", "endErase"}
        /\ i \in 0 .. MaxConns /\ last \in 0 .. MaxConns
        /\ ret \in Conns \cup {NoClient}
    BY <1>1, <1>4 DEF Init
  <2>4. /\ rx \in [Conns -> SUBSET Conns] /\ owner \in [Handles -> Conns \cup {NoClient}]
    BY DEF Init
  <2> QED  BY <1>2, <1>4, <1>5, <2>1, <2>2, <2>3, <2>4 DEF TypeOK
<1>7. OrderInv
  BY <1>5 DEF Init, OrderInv, Ordered, After
<1>8. OwnerInv /\ PlacesInv /\ RoutedInv
  BY <1>1 DEF Init, SocketInit, OwnerInv, PlacesInv, RoutedInv, ReceivedByOwner
<1>9. ListInv /\ ClosedInv
  BY <1>1, <1>5 DEF Init, SocketInit, ListInv, EntriesInv, EndedInv, ClosedInv
<1>10. OpenHandles = {}
  BY DEF Init, SocketInit, OpenHandles
<1>11. BeginInv /\ HoldInv
  BY <1>1, <1>5, <1>10 DEF Init, SocketInit, BeginInv, HoldInv
<1>12. OnceInv
  <2>1. Held = 0
    BY <1>10, FS_EmptySet DEF Held, Init, SocketInit
  <2>2. \A t \in Threads : pc[t] = "idle"
    BY DEF Init, SocketInit
  <2>3. CountInv
    BY <2>1, <2>2 DEF CountInv, Busy, Stores, Ahead, Init, SocketInit
  <2>4. LibraryInv
    BY <1>10, <2>2 DEF LibraryInv, Starting, Started, Init, SocketInit
  <2> QED  BY <2>3, <2>4 DEF OnceInv
<1> QED  BY <1>6, <1>7, <1>8, <1>9, <1>11, <1>12 DEF IInv

\* The list, its sockets, their count and the threads' places go together: an invariant
\* for any connections, handles and calls.
THEOREM Invariant == Spec => []IInv
<1>1. IInv /\ [Next]_vars => IInv'
  <2> SUFFICES ASSUME IInv, [Next]_vars  PROVE IInv'
    OBVIOUS
  <2> USE DEF IInv
  <2>1. TypeOK' /\ OrderInv'
    BY OrderStep
  <2>2. OwnerInv' /\ PlacesInv'
    BY OwnerStep, PlacesStep
  <2>3. ListInv' /\ ClosedInv' /\ RoutedInv'
    BY ListStep, ClosedStep, RoutedStep
  <2>4. BeginInv' /\ HoldInv' /\ OnceInv'
    BY BeginStep, HoldStep, OnceStep
  <2> QED  BY <2>1, <2>2, <2>3, <2>4
<1> QED  BY AtFirst, <1>1, PTL DEF Spec

\* Every variable keeps its type.
THEOREM TypeCorrect == Spec => []TypeOK
<1>1. IInv => TypeOK
  BY DEF IInv
<1> QED  BY Invariant, <1>1, PTL

\* receiveCallback() gives bytes to the client they were sent to, unless the library
\* reuses a handle that a client the sketch has stopped still has.
THEOREM BytesReachTheirOwner == Spec => [](stops = {} \/ ~reuse => ReceivedByOwner)
<1>1. IInv => (stops = {} \/ ~reuse => ReceivedByOwner)
  BY DEF IInv, RoutedInv
<1> QED  BY Invariant, <1>1, PTL

\* Between callbacks, after one begin(), the list is exactly the clients the library holds,
\* each there once; only a client whose peer has closed and whose stop() failed is still
\* held and not there.
THEOREM ListIsTheOpenClients == Spec => [](begins <= 1 => ListIsExact)
<1>1. IInv => (begins <= 1 => ListIsExact)
  <2> SUFFICES ASSUME IInv, begins <= 1  PROVE ListIsExact
    OBVIOUS
  <2>1. last # 0 => last \in 1 .. conns - 1
    BY Constants DEF IInv, OrderInv, TypeOK
  <2> SUFFICES ASSUME stops = {}, wpc = "idle"
               PROVE  /\ \A k \in 1 .. Len(clients) : IsOpen(handle[clients[k]])
                      /\ \A h \in OpenHandles \ {handle[Server]} :
                           \/ Cardinality(ThisClient(h)) = 1
                           \/ /\ ThisClient(h) = {} /\ owner[h] \in closed
                              /\ status[owner[h]] = "ERROR"
    BY <2>1 DEF ListIsExact
  <2>2. \A k \in 1 .. Len(clients) : Settled(k)
    BY DEF Settled
  <2>3. /\ \A k \in 1 .. Len(clients) :
             IsOpen(handle[clients[k]]) /\ owner[handle[clients[k]]] = clients[k]
        /\ \A k, m \in 1 .. Len(clients) : m # k => handle[clients[m]] # handle[clients[k]]
    BY <2>2 DEF IInv, ListInv, EntriesInv
  <2>4. ASSUME NEW h \in OpenHandles \ {handle[Server]}
        PROVE  \/ Cardinality(ThisClient(h)) = 1
               \/ ThisClient(h) = {} /\ owner[h] \in closed /\ status[owner[h]] = "ERROR"
    <3>1. (\E k \in 1 .. Len(clients) : h = handle[clients[k]]) \/ Abandoned(h)
      BY <2>4 DEF IInv, HoldInv, Once
    <3>2. CASE \E k \in 1 .. Len(clients) : h = handle[clients[k]]
      <4>1. PICK k \in 1 .. Len(clients) : h = handle[clients[k]]
        BY <3>2
      <4>2. ThisClient(h) = {k}
        BY <2>3, <4>1 DEF ThisClient, IsThisClient
      <4> QED  BY <4>2, FS_Singleton
    <3>3. CASE Abandoned(h)
      <4>1. \A k \in 1 .. Len(clients) : clients[k] # owner[h]
        BY <3>3 DEF Abandoned, Gone
      <4>2. ThisClient(h) = {}
        BY <2>3, <4>1 DEF ThisClient, IsThisClient
      <4> QED  BY <3>3, <4>2 DEF Abandoned
    <3> QED  BY <3>1, <3>2, <3>3
  <2> QED  BY <2>3, <2>4
<1> QED  BY Invariant, <1>1, PTL

\* With one begin(), and while the sketch stops nothing, the count is exact between
\* methods ...
THEOREM CountIsTheWorkers == Spec => [](begins <= 1 => WorkerCountIsExact)
<1>1. IInv => (begins <= 1 => WorkerCountIsExact)
  <2> SUFFICES ASSUME IInv, begins <= 1, stops = {}, Quiet
               PROVE  count = Cardinality(OpenHandles) + leaks
    BY DEF WorkerCountIsExact, CountIsExact
  <2>1. CountInv /\ Worker \in Threads /\ SocketTypeOK
    BY Constants DEF IInv, OnceInv, Once, TypeOK
  <2>2. Alone(Worker) /\ pc[Worker] = "idle"
    BY <2>1 DEF Quiet, Alone, Busy
  <2>3. count = Held + Ahead("idle")
    BY <2>1, <2>2 DEF CountInv
  <2> QED  BY <2>1, <2>3, HeldNat DEF Held, Ahead
<1> QED  BY Invariant, <1>1, PTL

\* ... and the library is never shut down under a socket.
THEOREM LibraryUpForServer == Spec => [](begins <= 1 => LibraryStaysUp)
<1>1. IInv => (begins <= 1 => LibraryStaysUp)
  BY DEF IInv, OnceInv, Once, LibraryInv, LibraryStaysUp, LibraryIsUp
<1> QED  BY Invariant, <1>1, PTL
=============================================================================
