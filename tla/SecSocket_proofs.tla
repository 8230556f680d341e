-------------------------- MODULE SecSocket_proofs --------------------------
(***************************************************************************)
(* What a step of a Socket's methods does to the count of sockets and to   *)
(* the library, when no two threads are between the two halves of a method *)
(* at a time.  WiFiClient_proofs and WiFiServer_proofs show that none are. *)
(***************************************************************************)
EXTENDS SecSocket, FiniteSetTheorems, TLAPS

\* The places from which a method changes what another one relies on.
Busy == {"begin", "init", "initFlag", "beginLoad", "beginStore", "create", "acceptLoad",
         "acceptStore", "delete", "endLoad", "endStore", "endTest", "deinit", "endFlag"}
Beginning == {"begin", "init", "initFlag", "beginLoad", "beginStore", "create"}
Ending == {"end", "delete", "endLoad", "endStore", "endTest", "deinit", "endFlag"}
Stores == {"beginStore", "acceptStore", "endStore"}

\* No thread but t is at one of them.
Alone(t) == \A u \in Threads : u # t => pc[u] \notin Busy

\* By how much the count is ahead of the handles at a place.
Ahead(place) ==
  IF place \in {"acceptLoad", "acceptStore"} THEN -1
  ELSE IF place \in {"create", "endLoad", "endStore"} THEN 1 ELSE 0

Held == Cardinality(OpenHandles) + leaks

\* The places of the threads, the count and the library go together.
CountInv == \A t \in Threads :
  /\ pc[t] \in Busy => Alone(t)
  /\ Alone(t) => count = Held + Ahead(pc[t])
  /\ pc[t] \in Stores => loaded[t] = count
  /\ pc[t] = "delete" => handle[self[t]] \in Handles /\ stack[handle[self[t]]] = "disconnected"
  /\ pc[t] = "deinit" => count = 0

\* The library is up under a socket, and from its initialisation on; and the flag
\* says so, but for the moment after it was shut down.
Started == {"initFlag", "beginLoad", "beginStore", "create"}
Starting == \E t \in Threads : pc[t] \in Started
LibraryInv ==
  /\ OpenHandles # {} \/ Starting => up
  /\ initialized => up \/ \E t \in Threads : pc[t] = "endFlag"

\* The number of handles that are held is a natural number.
LEMMA HeldNat ==
  ASSUME SocketTypeOK
  PROVE  IsFiniteSet(OpenHandles) /\ Cardinality(OpenHandles) \in Nat /\ leaks \in Nat
<1>1. OpenHandles \in SUBSET Handles
  BY DEF OpenHandles
<1>2. IsFiniteSet(Handles) /\ MaxFailures \in Nat
  BY SecSocketAssumption
<1>3. IsFiniteSet(OpenHandles)
  BY <1>1, <1>2, FS_Subset
<1> QED  BY <1>2, <1>3, FS_CardinalityType DEF SocketTypeOK

\* A handle that is opened is one more.
LEMMA Opened ==
  ASSUME SocketTypeOK, NEW h \in Handles, Fresh(h),
         stack' = [stack EXCEPT ![h] = "open"]
  PROVE  Cardinality(OpenHandles') = Cardinality(OpenHandles) + 1
<1>1. h \notin OpenHandles
  BY DEF Fresh, OpenHandles
<1>2. OpenHandles' = OpenHandles \cup {h}
  BY DEF OpenHandles, SocketTypeOK
<1> QED  BY <1>1, <1>2, HeldNat, FS_AddElement

\* One that is deleted is one less ...
LEMMA Deleted ==
  ASSUME SocketTypeOK, NEW h \in OpenHandles, stack' = [stack EXCEPT ![h] = "deleted"]
  PROVE  Cardinality(OpenHandles') = Cardinality(OpenHandles) - 1
<1>1. OpenHandles' = OpenHandles \ {h}
  BY DEF OpenHandles, SocketTypeOK
<1> QED  BY <1>1, HeldNat, FS_RemoveElement

\* ... and one that is disconnected is still held.
LEMMA Disconnected ==
  ASSUME SocketTypeOK, NEW h \in OpenHandles, stack' = [stack EXCEPT ![h] = "disconnected"]
  PROVE  OpenHandles' = OpenHandles
BY DEF OpenHandles, SocketTypeOK

\* A thread that is alone goes to a place where the count is right for it.
LEMMA GoesAlone ==
  ASSUME SocketTypeOK, NEW t \in Threads, Alone(t), NEW place,
         pc' = [pc EXCEPT ![t] = place],
         count' = Held' + Ahead(place),
         place \in Stores => loaded'[t] = count',
         place = "delete" => /\ handle'[self'[t]] \in Handles
                             /\ stack'[handle'[self'[t]]] = "disconnected",
         place = "deinit" => count' = 0
  PROVE  CountInv'
<1>1. pc'[t] = place /\ \A u \in Threads : u # t => pc'[u] = pc[u] /\ pc[u] \notin Busy
  BY DEF SocketTypeOK, Alone
<1>2. ASSUME NEW u \in Threads, u # t
      PROVE  /\ pc'[u] \notin Busy /\ pc'[u] \notin Stores
             /\ pc'[u] # "delete" /\ pc'[u] # "deinit"
             /\ Alone(u)' => count' = Held' + Ahead(pc'[u])
  <2>1. /\ pc'[u] \notin Busy /\ pc'[u] \notin Stores
        /\ pc'[u] # "delete" /\ pc'[u] # "deinit"
    BY <1>1, <1>2 DEF Busy, Stores
  <2>2. Ahead(pc'[u]) = 0
    BY <2>1 DEF Ahead, Busy
  <2>3. Alone(u)' => Ahead(place) = 0
    BY <1>1, <1>2 DEF Alone, Ahead, Busy
  <2> QED  BY <2>1, <2>2, <2>3
<1>3. Alone(t)'
  BY <1>1 DEF Alone
<1> QED  BY <1>1, <1>2, <1>3 DEF CountInv

\* A step of a method, by a thread that is alone unless it only finds that the socket
\* was ended before, keeps all of this.
LEMMA MethodCounts ==
  ASSUME SocketTypeOK, CountInv, NEW t \in Threads, MethodStep(t),
         At(t, "end") /\ IsOpen(handle[self[t]]) => Alone(t)
  PROVE  CountInv'
<1> USE DEF At, GoTo, SetStatus
<1>1. /\ pc[t] \in Busy => Alone(t) /\ count = Held + Ahead(pc[t])
      /\ Alone(t) => count = Held + Ahead(pc[t])
      /\ pc[t] \in Stores => loaded[t] = count
      /\ count \in Int /\ Held \in Int
  BY HeldNat DEF CountInv, SocketTypeOK, Held
<1>2. stack' = stack /\ leaks' = leaks => Held' = Held
  BY DEF Held, OpenHandles
<1>3. CASE BeginTest(t) \/ BeginInit(t) \/ BeginFlag(t)
  <2>1. PICK place \in {"beginLoad", "init", "initFlag", "idle"} :
          pc' = [pc EXCEPT ![t] = place]
    BY <1>3 DEF BeginTest, BeginInit, BeginFlag
  <2>2. /\ pc[t] \in {"begin", "init", "initFlag"}
        /\ UNCHANGED <<stack, leaks, count>>
    BY <1>3 DEF BeginTest, BeginInit, BeginFlag
  <2> QED  BY <1>1, <1>2, <2>1, <2>2, GoesAlone DEF Busy, Stores, Ahead
<1>4. CASE CountUpLoad(t)
  <2>1. PICK place \in {"beginStore", "acceptStore"} :
          /\ pc' = [pc EXCEPT ![t] = place]
          /\ Ahead(place) = Ahead(pc[t])
    BY <1>4 DEF CountUpLoad, Ahead
  <2>2. /\ pc[t] \in Busy /\ UNCHANGED <<stack, leaks, count>>
        /\ loaded'[t] = count
    BY <1>4 DEF CountUpLoad, Busy, SocketTypeOK
  <2> QED  BY <1>1, <1>2, <2>1, <2>2, GoesAlone DEF Stores
<1>5. CASE CountUpStore(t)
  <2>1. PICK place \in {"create", "idle"} :
          /\ pc' = [pc EXCEPT ![t] = place]
          /\ Ahead(place) = Ahead(pc[t]) + 1
    BY <1>5 DEF CountUpStore, Ahead
  <2>2. /\ pc[t] \in Busy /\ pc[t] \in Stores /\ UNCHANGED <<stack, leaks>>
        /\ count' = loaded[t] + 1
    BY <1>5 DEF CountUpStore, Busy, Stores
  <2>3. Ahead(pc[t]) \in Int
    BY DEF Ahead
  <2>4. count' = Held' + Ahead(place)
    BY <1>1, <1>2, <2>1, <2>2, <2>3
  <2> QED  BY <1>1, <2>1, <2>2, <2>4, GoesAlone DEF Stores
<1>6. CASE Create(t)
  <2>1. /\ pc[t] = "create" /\ pc' = [pc EXCEPT ![t] = "idle"] /\ count' = count
    BY <1>6 DEF Create
  <2>2. Held' = Held + 1
    <3>1. ASSUME NEW h \in Handles, Fresh(h), stack' = [stack EXCEPT ![h] = "open"],
                 leaks' = leaks
          PROVE  Held' = Held + 1
      <4>1. Cardinality(OpenHandles') = Cardinality(OpenHandles) + 1
        BY <3>1, Opened
      <4> QED  BY <3>1, <4>1, HeldNat DEF Held
    <3>2. ASSUME stack' = stack, leaks' = leaks + 1
          PROVE  Held' = Held + 1
      <4>1. OpenHandles' = OpenHandles
        BY <3>2 DEF OpenHandles
      <4> QED  BY <3>2, <4>1, HeldNat DEF Held
    <3> QED  BY <1>6, <3>1, <3>2 DEF Create
  <2>3. Alone(t) /\ count' = Held' + Ahead("idle")
    BY <1>1, <2>1, <2>2 DEF Busy, Ahead
  <2> QED  BY <2>1, <2>3, GoesAlone DEF Stores
<1>7. CASE EndDisconnect(t)
  <2>1. pc[t] = "end" /\ UNCHANGED <<handle, count, self, loaded, leaks>>
    BY <1>7 DEF EndDisconnect
  <2>2. ASSUME IsOpen(handle[self[t]]), pc' = [pc EXCEPT ![t] = "delete"],
               stack' = [stack EXCEPT ![handle[self[t]]] = "disconnected"]
        PROVE  CountInv'
    <3>1. handle[self[t]] \in Handles /\ stack[handle[self[t]]] = "open"
      BY <2>2 DEF IsOpen
    <3>2. stack'[handle[self[t]]] = "disconnected"
      BY <2>2, <3>1 DEF SocketTypeOK
    <3>3. Held' = Held
      BY <2>1, <2>2, <3>1, Disconnected DEF Held, OpenHandles
    <3>4. Alone(t)
      BY <2>1, <2>2
    <3>5. count' = Held' + Ahead("delete")
      BY <1>1, <2>1, <3>3, <3>4 DEF Ahead
    <3> QED  BY <2>1, <2>2, <3>1, <3>2, <3>4, <3>5, GoesAlone DEF Stores
  <2>3. ASSUME pc' = [pc EXCEPT ![t] = "idle"], stack' = stack
        PROVE  CountInv'
    <3>2. /\ pc'[t] = "idle" /\ \A u \in Threads : u # t => pc'[u] = pc[u]
      BY <2>3 DEF SocketTypeOK
    <3>3. \A u \in Threads : /\ Ahead(pc'[u]) = Ahead(pc[u]) /\ (Alone(u)' <=> Alone(u))
                            /\ (pc'[u] \in Busy <=> pc[u] \in Busy)
                            /\ (pc'[u] \in Stores <=> pc[u] \in Stores)
                            /\ (pc'[u] = "delete" <=> pc[u] = "delete")
                            /\ (pc'[u] = "deinit" <=> pc[u] = "deinit")
      BY <2>1, <3>2 DEF Alone, Busy, Stores, Ahead
    <3> QED  BY <1>2, <2>1, <2>3, <3>3 DEF CountInv
  <2> QED  BY <1>7, <2>2, <2>3 DEF EndDisconnect
<1>8. CASE EndDelete(t)
  <2>1. pc[t] = "delete" /\ Alone(t) /\ UNCHANGED <<leaks, count>>
    BY <1>1, <1>8 DEF EndDelete, Busy
  <2>2. ASSUME pc' = [pc EXCEPT ![t] = "endLoad"],
               stack' = [stack EXCEPT ![handle[self[t]]] = "deleted"]
        PROVE  CountInv'
    <3>1. handle[self[t]] \in OpenHandles
      BY <2>1 DEF CountInv, OpenHandles
    <3>2. Cardinality(OpenHandles') = Cardinality(OpenHandles) - 1
      BY <2>2, <3>1, Deleted
    <3>3. Held' = Held - 1
      BY <2>1, <3>2, HeldNat DEF Held
    <3>4. count' = Held' + Ahead("endLoad")
      BY <1>1, <2>1, <3>3 DEF Ahead
    <3> QED  BY <2>1, <2>2, <3>4, GoesAlone DEF Stores
  <2>3. ASSUME pc' = [pc EXCEPT ![t] = "idle"], stack' = stack
        PROVE  CountInv'
    <3>1. count' = Held' + Ahead("idle")
      BY <1>1, <1>2, <2>1, <2>3 DEF Ahead
    <3> QED  BY <2>1, <2>3, <3>1, GoesAlone DEF Stores
  <2> QED  BY <1>8, <2>2, <2>3 DEF EndDelete
<1>9. CASE CountDownLoad(t)
  <2>1. /\ pc[t] = "endLoad" /\ pc' = [pc EXCEPT ![t] = "endStore"]
        /\ loaded'[t] = count /\ UNCHANGED <<stack, leaks, count>>
    BY <1>9 DEF CountDownLoad, SocketTypeOK
  <2> QED  BY <1>1, <1>2, <2>1, GoesAlone DEF Busy, Stores, Ahead
<1>10. CASE CountDownStore(t)
  <2>1. /\ pc[t] = "endStore" /\ pc' = [pc EXCEPT ![t] = "endTest"]
        /\ count' = loaded[t] - 1 /\ UNCHANGED <<stack, leaks>>
    BY <1>10 DEF CountDownStore
  <2>2. Alone(t) /\ count' = Held' + Ahead("endTest")
    BY <1>1, <1>2, <2>1 DEF Busy, Stores, Ahead
  <2> QED  BY <2>1, <2>2, GoesAlone DEF Stores
<1>11. CASE EndTest(t) \/ EndDeinit(t) \/ EndFlag(t)
  <2>1. PICK place \in {"deinit", "endFlag", "idle"} :
          /\ pc' = [pc EXCEPT ![t] = place]
          /\ place = "deinit" => count = 0
    BY <1>11 DEF EndTest, EndDeinit, EndFlag
  <2>2. /\ pc[t] \in {"endTest", "deinit", "endFlag"}
        /\ UNCHANGED <<stack, leaks, count>>
    BY <1>11 DEF EndTest, EndDeinit, EndFlag
  <2> QED  BY <1>1, <1>2, <2>1, <2>2, GoesAlone DEF Busy, Stores, Ahead
<1> QED
  BY <1>3, <1>4, <1>5, <1>6, <1>7, <1>8, <1>9, <1>10, <1>11 DEF MethodStep

\* A method that begins leaves the count alone.
LEMMA CallCounts ==
  ASSUME SocketTypeOK, CountInv, NEW t \in Threads, NEW s,
         NEW place \in {"begin", "end"}, Call(t, s, place),
         place = "begin" => Alone(t),
         UNCHANGED <<handle, stack, count, loaded, leaks>>
  PROVE  CountInv'
<1>1. Held' = Held /\ pc[t] = "idle" /\ pc'[t] = place
  BY DEF Held, OpenHandles, Call, SocketTypeOK
<1>2. CASE place = "begin"
  <2>1. count = Held + Ahead(pc[t])
    BY <1>2 DEF CountInv
  <2> QED  BY <1>1, <1>2, <2>1, GoesAlone DEF Call, Ahead, Stores
<1>3. CASE place = "end"
  <2>1. \A u \in Threads : u # t => pc'[u] = pc[u] /\ self'[u] = self[u]
    BY DEF Call, SocketTypeOK
  <2>2. \A u \in Threads : /\ Ahead(pc'[u]) = Ahead(pc[u]) /\ (Alone(u)' <=> Alone(u))
                          /\ (pc'[u] \in Busy <=> pc[u] \in Busy)
                          /\ (pc'[u] \in Stores <=> pc[u] \in Stores)
                          /\ (pc'[u] = "delete" <=> pc[u] = "delete")
                          /\ (pc'[u] = "deinit" <=> pc[u] = "deinit")
                          /\ (pc[u] = "delete" => self'[u] = self[u])
    BY <1>1, <1>3, <2>1 DEF Alone, Busy, Stores, Ahead
  <2> QED  BY <1>1, <2>2 DEF CountInv
<1> QED  BY <1>2, <1>3

\* accept() opens a handle, and counts it later.
LEMMA AcceptCounts ==
  ASSUME SocketTypeOK, CountInv, NEW t \in Threads, NEW s \in Sockets,
         NEW h \in Handles, Accept(t, s, h), Alone(t)
  PROVE  CountInv'
<1>1. /\ pc[t] = "idle" /\ pc' = [pc EXCEPT ![t] = "acceptLoad"]
      /\ stack' = [stack EXCEPT ![h] = "open"] /\ Fresh(h) /\ UNCHANGED <<count, leaks>>
  BY DEF Accept, Call
<1>2. Cardinality(OpenHandles') = Cardinality(OpenHandles) + 1
  BY <1>1, Opened
<1>3. Held \in Int /\ Held' = Held + 1
  BY <1>1, <1>2, HeldNat DEF Held
<1>4. count = Held + Ahead("idle")
  BY <1>1 DEF CountInv
<1>5. count' = Held' + Ahead("acceptLoad")
  BY <1>1, <1>3, <1>4 DEF Ahead
<1> QED  BY <1>1, <1>5, GoesAlone DEF Stores

\* A step of a method keeps the types.
LEMMA MethodTypes ==
  ASSUME SocketTypeOK, NEW t \in Threads, MethodStep(t), UNCHANGED reuse
  PROVE  SocketTypeOK'
<1> USE DEF SocketTypeOK, At, GoTo, SetStatus
<1>1. self[t] \in Sockets /\ loaded[t] \in Int /\ leaks \in Nat
  BY SecSocketAssumption
<1>2. CASE BeginTest(t) \/ BeginInit(t) \/ BeginFlag(t)
  BY <1>1, <1>2 DEF BeginTest, BeginInit, BeginFlag, Statuses
<1>3. CASE CountUpLoad(t)
  BY <1>1, <1>3 DEF CountUpLoad
<1>4. CASE CountUpStore(t)
  BY <1>1, <1>4 DEF CountUpStore, Statuses
<1>5. CASE Create(t)
  <2>1. MaxFailures \in Nat
    BY SecSocketAssumption
  <2>2. leaks' \in 0 .. MaxFailures
    BY <1>5, <2>1 DEF Create
  <2> QED  BY <1>1, <1>5, <2>2 DEF Create, Statuses
<1>6. CASE EndDisconnect(t)
  BY <1>1, <1>6 DEF EndDisconnect, Statuses
<1>7. CASE EndDelete(t)
  BY <1>1, <1>7 DEF EndDelete, Statuses
<1>8. CASE CountDownLoad(t)
  BY <1>1, <1>8 DEF CountDownLoad
<1>9. CASE CountDownStore(t)
  BY <1>1, <1>9 DEF CountDownStore
<1>10. CASE EndTest(t) \/ EndDeinit(t) \/ EndFlag(t)
  BY <1>1, <1>10 DEF EndTest, EndDeinit, EndFlag
<1> QED  BY <1>2, <1>3, <1>4, <1>5, <1>6, <1>7, <1>8, <1>9, <1>10 DEF MethodStep

\* So does a call ...
LEMMA CallTypes ==
  ASSUME SocketTypeOK, NEW t \in Threads, NEW s \in Sockets, NEW place \in {"begin", "end"},
         Call(t, s, place),
         UNCHANGED <<handle, status, stack, count, initialized, up, loaded, leaks, reuse>>
  PROVE  SocketTypeOK'
BY DEF SocketTypeOK, Call

\* ... and accept(), which fills in an object and a handle of their types.
LEMMA AcceptTypes ==
  ASSUME SocketTypeOK, NEW t \in Threads, NEW s \in Sockets, NEW h \in Handles,
         Accept(t, s, h), UNCHANGED reuse
  PROVE  SocketTypeOK'
BY DEF SocketTypeOK, Accept, Call

\* A step of a method leaves the library up under the sockets that remain: whoever
\* reads a count of zero counted them all.
LEMMA MethodKeepsUp ==
  ASSUME SocketTypeOK, CountInv, LibraryInv, NEW t \in Threads, MethodStep(t)
  PROVE  LibraryInv'
<1> USE DEF At, GoTo, SetStatus
<1>1. \A u \in Threads : u # t => pc'[u] = pc[u]
  BY DEF MethodStep, BeginTest, BeginInit, BeginFlag, CountUpLoad, CountUpStore, Create,
         EndDisconnect, EndDelete, CountDownLoad, CountDownStore, EndTest, EndDeinit, EndFlag,
         SocketTypeOK
<1>2. pc[t] \in Busy => \A u \in Threads : u # t => pc[u] \notin Busy
  BY DEF CountInv, Alone
<1>3. CASE BeginTest(t)
  <2>1. pc[t] = "begin" /\ UNCHANGED <<stack, initialized, up>>
    BY <1>3 DEF BeginTest
  <2>2. initialized => up
    BY <1>2, <2>1 DEF LibraryInv, Busy
  <2>3. pc'[t] \in Started => initialized
    BY <1>3 DEF BeginTest, SocketTypeOK, Started
  <2>4. Starting' => Starting \/ initialized
    BY <1>1, <2>3 DEF Starting
  <2> QED  BY <2>1, <2>2, <2>4 DEF LibraryInv, OpenHandles
<1>4. CASE BeginInit(t)
  <2>1. /\ pc[t] = "init" /\ UNCHANGED <<stack, initialized>>
        /\ up' \/ (up' = up /\ pc'[t] = "idle")
    BY <1>4 DEF BeginInit, SocketTypeOK
  <2>2. CASE up'
    BY <2>2 DEF LibraryInv
  <2>3. CASE up' = up /\ pc'[t] = "idle"
    <3>1. (Starting' => Starting) /\ OpenHandles' = OpenHandles
      BY <1>1, <2>1, <2>3 DEF Starting, Started, OpenHandles
    <3>2. ~ \E u \in Threads : pc[u] = "endFlag"
      BY <1>2, <2>1 DEF Busy
    <3> QED  BY <2>1, <2>3, <3>1, <3>2 DEF LibraryInv
  <2> QED  BY <2>1, <2>2, <2>3
<1>5. CASE BeginFlag(t)
  <2>1. pc[t] \in Started /\ up' = up
    BY <1>5 DEF BeginFlag, Started
  <2> QED  BY <2>1 DEF LibraryInv, Starting
<1>6. CASE EndDeinit(t)
  <2>1. /\ pc[t] = "deinit" /\ UNCHANGED <<stack, initialized>>
        /\ pc'[t] = "endFlag" \/ (up' = up /\ pc'[t] = "idle")
    BY <1>6 DEF EndDeinit, SocketTypeOK
  <2>2. ~Starting' /\ OpenHandles' = OpenHandles
    BY <1>1, <1>2, <2>1 DEF Starting, Started, Busy, OpenHandles
  <2>3. Cardinality(OpenHandles) = 0
    <3>1. count = 0 /\ count = Held + Ahead(pc[t])
      BY <2>1 DEF CountInv, Busy
    <3>2. Held = 0
      BY <2>1, <3>1, HeldNat DEF Ahead, Held
    <3> QED  BY <3>2, HeldNat DEF Held
  <2>4. OpenHandles' = {}
    BY <2>2, <2>3, HeldNat, FS_EmptySet
  <2>5. CASE pc'[t] = "endFlag"
    BY <2>2, <2>4, <2>5 DEF LibraryInv
  <2>6. CASE up' = up /\ pc'[t] = "idle"
    <3>1. ~ \E u \in Threads : pc[u] = "endFlag"
      BY <1>2, <2>1 DEF Busy
    <3> QED  BY <2>1, <2>2, <2>4, <2>6, <3>1 DEF LibraryInv
  <2> QED  BY <2>1, <2>5, <2>6
<1>7. CASE EndFlag(t)
  <2>1. pc[t] = "endFlag" /\ pc'[t] = "idle" /\ UNCHANGED <<stack, up>> /\ ~initialized'
    BY <1>7 DEF EndFlag, SocketTypeOK
  <2>2. (Starting' => Starting) /\ OpenHandles' = OpenHandles
    BY <1>1, <2>1 DEF Starting, Started, OpenHandles
  <2> QED  BY <2>1, <2>2 DEF LibraryInv
<1>8. ASSUME \/ CountUpLoad(t) \/ CountUpStore(t) \/ Create(t) \/ EndDisconnect(t)
             \/ EndDelete(t) \/ CountDownLoad(t) \/ CountDownStore(t) \/ EndTest(t)
      PROVE  LibraryInv'
  <2>1. UNCHANGED <<initialized, up>> /\ pc[t] # "endFlag"
    BY <1>8 DEF CountUpLoad, CountUpStore, Create, EndDisconnect, EndDelete,
                CountDownLoad, CountDownStore, EndTest
  <2>2. Starting' => Starting
    <3>1. pc'[t] \in Started => pc[t] \in Started
      BY <1>8 DEF Started, CountUpLoad, CountUpStore, Create, EndDisconnect, EndDelete,
                  CountDownLoad, CountDownStore, EndTest, SocketTypeOK
    <3> QED  BY <1>1, <3>1 DEF Starting
  <2>3. OpenHandles' # {} => OpenHandles # {} \/ Starting
    <3>1. CASE Create(t)
      BY <3>1 DEF Create, Starting, Started
    <3>2. CASE EndDisconnect(t) \/ EndDelete(t)
      BY <3>2 DEF EndDisconnect, EndDelete, OpenHandles, SocketTypeOK, IsOpen
    <3>3. CASE CountUpLoad(t) \/ CountUpStore(t) \/ CountDownLoad(t) \/ CountDownStore(t)
               \/ EndTest(t)
      BY <3>3 DEF CountUpLoad, CountUpStore, CountDownLoad, CountDownStore, EndTest,
                  OpenHandles
    <3> QED  BY <1>8, <3>1, <3>2, <3>3
  <2>4. (\E u \in Threads : pc[u] = "endFlag") => \E u \in Threads : pc'[u] = "endFlag"
    BY <1>1, <2>1
  <2> QED  BY <2>1, <2>2, <2>3, <2>4 DEF LibraryInv
<1> QED  BY <1>3, <1>4, <1>5, <1>6, <1>7, <1>8 DEF MethodStep
=============================================================================
