------------------------------ MODULE SecSocket -----------------------------
(***************************************************************************)
(* The life of Socket objects (libraries/WiFi/src/SecSocket.cpp): begin(), *)
(* accept() and end(), and the static count of sockets that decides when   *)
(* the secure sockets library is initialised and shut down.                *)
(*                                                                         *)
(* Any thread may run these methods, and nothing locks.  Each is split at  *)
(* its calls of the library and at its accesses to the static flag and to  *)
(* the static count, whose ++ and -- are a load and a store.  The library  *)
(* itself is external: a handle is open from its creation until            *)
(* cy_socket_disconnect, and gone after cy_socket_delete.  Every call may  *)
(* fail and then changes nothing; the last two always fail on a handle     *)
(* that is past what they do.                                              *)
(*                                                                         *)
(* The module has no specification of its own: WiFiClient and WiFiServer   *)
(* run these methods in their threads (and leave reuse as it is).          *)
(***************************************************************************)
EXTENDS Integers, FiniteSets

CONSTANTS
  Threads,
  Sockets,        \* the Socket objects
  Handles,        \* what the library can hand out as a cy_socket_t
  NoHandle,       \* nullptr
  MaxFailures     \* bound: how often cy_socket_create may fail

ASSUME SecSocketAssumption ==
  /\ NoHandle \notin Handles
  /\ MaxFailures \in Nat
  /\ IsFiniteSet(Handles)

VARIABLES
  handle,       \* socket, of each object
  status,       \* _status, of each object
  stack,        \* what the library thinks of each handle
  count,        \* global_socket_count
  initialized,  \* global_socket_initialized
  up,           \* the library is initialised
  pc,           \* where each thread is in a method
  self,         \* the object it runs the method on
  loaded,       \* the value of count it has loaded
  leaks,        \* failed creates, which no end() will balance
  reuse         \* the library gives a deleted handle to a new socket

threadVars == <<pc, self, loaded>>
socketVars == <<handle, status, stack, count, initialized, up, threadVars, leaks>>

Statuses == {"UNINITED", "CREATED", "DELETED", "DISCONNECTED", "CONNECTED",
             "BOUND", "LISTENING", "ERROR"}

SocketInit ==
  /\ handle = [s \in Sockets |-> NoHandle]
  /\ status = [s \in Sockets |-> "UNINITED"]
  /\ stack = [h \in Handles |-> "new"]
  /\ count = 0
  /\ initialized = FALSE
  /\ up = FALSE
  /\ pc = [t \in Threads |-> "idle"]
  /\ self \in [Threads -> Sockets]
  /\ loaded = [t \in Threads |-> 0]
  /\ leaks = 0
  /\ reuse \in BOOLEAN

-----------------------------------------------------------------------------
(* The library.                                                            *)

Fresh(h) == stack[h] = "new" \/ (reuse /\ stack[h] = "deleted")

IsOpen(h) == h \in Handles /\ stack[h] = "open"

OpenHandles == {h \in Handles : stack[h] \in {"open", "disconnected"}}

-----------------------------------------------------------------------------
(* Steps of the methods, by thread t.                                      *)

At(t, here) == pc[t] = here
GoTo(t, there) == pc' = [pc EXCEPT ![t] = there]
SetStatus(s, new) == status' = [status EXCEPT ![s] = new]

\* A method of object s begins, at the given place.
Call(t, s, place) ==
  /\ pc[t] = "idle"
  /\ pc' = [pc EXCEPT ![t] = place]
  /\ self' = [self EXCEPT ![t] = s]

\* begin(): the first socket initialises the library ...
BeginTest(t) ==
  /\ At(t, "begin")
  /\ GoTo(t, IF initialized THEN "beginLoad" ELSE "init")
  /\ UNCHANGED <<handle, status, stack, count, initialized, up, self, loaded, leaks>>

\* ... with cy_socket_init ...
BeginInit(t) ==
  /\ At(t, "init")
  /\ \/ /\ up' = TRUE
        /\ GoTo(t, "initFlag")
        /\ UNCHANGED status
     \/ /\ SetStatus(self[t], "ERROR")
        /\ GoTo(t, "idle")
        /\ UNCHANGED up
  /\ UNCHANGED <<handle, stack, count, initialized, self, loaded, leaks>>

\* ... and notes that.
BeginFlag(t) ==
  /\ At(t, "initFlag")
  /\ initialized' = TRUE
  /\ GoTo(t, "beginLoad")
  /\ UNCHANGED <<handle, status, stack, count, up, self, loaded, leaks>>

\* global_socket_count++, in begin() and in accept().
CountUpLoad(t) ==
  /\ pc[t] \in {"beginLoad", "acceptLoad"}
  /\ loaded' = [loaded EXCEPT ![t] = count]
  /\ GoTo(t, IF pc[t] = "beginLoad" THEN "beginStore" ELSE "acceptStore")
  /\ UNCHANGED <<handle, status, stack, count, initialized, up, self, leaks>>

\* Mutant of CountUpStore: an accepted socket is not counted.
CountUpStore_BeginOnly(t) ==
  /\ pc[t] \in {"beginStore", "acceptStore"}
  /\ count' = IF pc[t] = "beginStore" THEN loaded[t] + 1 ELSE count
  /\ IF pc[t] = "beginStore"
       THEN GoTo(t, "create") /\ UNCHANGED status
       ELSE GoTo(t, "idle") /\ SetStatus(self[t], "CONNECTED")
  /\ UNCHANGED <<handle, stack, initialized, up, self, loaded, leaks>>

\* After it, accept() has nothing left but to fill in the new object.
CountUpStore(t) ==
  /\ pc[t] \in {"beginStore", "acceptStore"}
  /\ count' = loaded[t] + 1
  /\ IF pc[t] = "beginStore"
       THEN GoTo(t, "create") /\ UNCHANGED status
       ELSE GoTo(t, "idle") /\ SetStatus(self[t], "CONNECTED")
  /\ UNCHANGED <<handle, stack, initialized, up, self, loaded, leaks>>

\* begin() goes on to cy_socket_create; when that fails the count stays up.
Create(t) ==
  /\ At(t, "create")
  /\ \/ \E h \in Handles :
          /\ Fresh(h)
          /\ stack' = [stack EXCEPT ![h] = "open"]
          /\ handle' = [handle EXCEPT ![self[t]] = h]
          /\ SetStatus(self[t], "CREATED")
          /\ UNCHANGED leaks
     \/ /\ leaks < MaxFailures
        /\ SetStatus(self[t], "ERROR")
        /\ leaks' = leaks + 1
        /\ UNCHANGED <<stack, handle>>
  /\ GoTo(t, "idle")
  /\ UNCHANGED <<count, initialized, up, self, loaded>>

\* accept(): cy_socket_accept yields handle h, stored in object s.
Accept(t, s, h) ==
  /\ Call(t, s, "acceptLoad")
  /\ Fresh(h)
  /\ stack' = [stack EXCEPT ![h] = "open"]
  /\ handle' = [handle EXCEPT ![s] = h]
  /\ UNCHANGED <<status, count, initialized, up, loaded, leaks>>

\* Mutant of EndDisconnect: a failed disconnect is not returned from.
EndDisconnect_NoReturn(t) ==
  LET s == self[t] IN
  /\ At(t, "end")
  /\ SetStatus(s, "DISCONNECTED")
  /\ \/ /\ IsOpen(handle[s])
        /\ stack' = [stack EXCEPT ![handle[s]] = "disconnected"]
        /\ GoTo(t, "delete")
     \/ /\ GoTo(t, "endLoad")
        /\ UNCHANGED stack
  /\ UNCHANGED <<handle, count, initialized, up, self, loaded, leaks>>

\* Mutant of EndDisconnect: the status is not set.
EndDisconnect_KeepStatus(t) ==
  LET s == self[t] IN
  /\ At(t, "end")
  /\ \/ /\ IsOpen(handle[s])
        /\ stack' = [stack EXCEPT ![handle[s]] = "disconnected"]
        /\ GoTo(t, "delete")
        /\ UNCHANGED status
     \/ /\ SetStatus(s, "ERROR")
        /\ GoTo(t, "idle")
        /\ UNCHANGED stack
  /\ UNCHANGED <<handle, count, initialized, up, self, loaded, leaks>>

\* end(): when the disconnect fails (which it does in a second end(), or one
\* of another thread), the socket is left as it is.
EndDisconnect(t) ==
  LET s == self[t] IN
  /\ At(t, "end")
  /\ \/ /\ IsOpen(handle[s])
        /\ stack' = [stack EXCEPT ![handle[s]] = "disconnected"]
        /\ SetStatus(s, "DISCONNECTED")
        /\ GoTo(t, "delete")
     \/ /\ SetStatus(s, "ERROR")
        /\ GoTo(t, "idle")
        /\ UNCHANGED stack
  /\ UNCHANGED <<handle, count, initialized, up, self, loaded, leaks>>

\* When the delete fails, the library keeps the socket, and it stays counted.
EndDelete(t) ==
  LET s == self[t] IN
  /\ At(t, "delete")
  /\ \/ /\ stack' = [stack EXCEPT ![handle[s]] = "deleted"]
        /\ SetStatus(s, "DELETED")
        /\ GoTo(t, "endLoad")
     \/ /\ SetStatus(s, "ERROR")
        /\ GoTo(t, "idle")
        /\ UNCHANGED stack
  /\ UNCHANGED <<handle, count, initialized, up, self, loaded, leaks>>

\* global_socket_count-- ...
CountDownLoad(t) ==
  /\ At(t, "endLoad")
  /\ loaded' = [loaded EXCEPT ![t] = count]
  /\ GoTo(t, "endStore")
  /\ UNCHANGED <<handle, status, stack, count, initialized, up, self, leaks>>

CountDownStore(t) ==
  /\ At(t, "endStore")
  /\ count' = loaded[t] - 1
  /\ GoTo(t, "endTest")
  /\ UNCHANGED <<handle, status, stack, initialized, up, self, loaded, leaks>>

\* Mutant of EndTest: the library is shut down one socket too early.
EndTest_Early(t) ==
  /\ At(t, "endTest")
  /\ GoTo(t, IF count <= 1 THEN "deinit" ELSE "idle")
  /\ UNCHANGED <<handle, status, stack, count, initialized, up, self, loaded, leaks>>

\* ... and the last socket, by the count read again, shuts the library down
EndTest(t) ==
  /\ At(t, "endTest")
  /\ GoTo(t, IF count = 0 THEN "deinit" ELSE "idle")
  /\ UNCHANGED <<handle, status, stack, count, initialized, up, self, loaded, leaks>>

\* with cy_socket_deinit ...
EndDeinit(t) ==
  /\ At(t, "deinit")
  /\ \/ up' = FALSE /\ GoTo(t, "endFlag")
     \/ GoTo(t, "idle") /\ UNCHANGED up
  /\ UNCHANGED <<handle, status, stack, count, initialized, self, loaded, leaks>>

\* ... and notes that.
EndFlag(t) ==
  /\ At(t, "endFlag")
  /\ initialized' = FALSE
  /\ GoTo(t, "idle")
  /\ UNCHANGED <<handle, status, stack, count, up, self, loaded, leaks>>

\* A step inside a method.
MethodStep(t) ==
  \/ BeginTest(t)
  \/ BeginInit(t)
  \/ BeginFlag(t)
  \/ CountUpLoad(t)
  \/ CountUpStore(t)
  \/ Create(t)
  \/ EndDisconnect(t)
  \/ EndDelete(t)
  \/ CountDownLoad(t)
  \/ CountDownStore(t)
  \/ EndTest(t)
  \/ EndDeinit(t)
  \/ EndFlag(t)

-----------------------------------------------------------------------------
(* Properties.                                                             *)

SocketTypeOK ==
  /\ handle \in [Sockets -> Handles \cup {NoHandle}]
  /\ status \in [Sockets -> Statuses]
  /\ stack \in [Handles -> {"new", "open", "disconnected", "deleted"}]
  /\ count \in Int   \* uint32_t: below zero it is 2^32 more
  /\ initialized \in BOOLEAN /\ up \in BOOLEAN
  /\ pc \in [Threads -> {"idle", "begin", "init", "initFlag", "beginLoad",
                         "beginStore", "create", "acceptLoad", "acceptStore",
                         "end", "delete", "endLoad", "endStore", "endTest",
                         "deinit", "endFlag"}]
  /\ self \in [Threads -> Sockets]
  /\ loaded \in [Threads -> Int]
  /\ leaks \in 0 .. MaxFailures
  /\ reuse \in BOOLEAN

Quiet == \A t \in Threads : pc[t] = "idle"

\* Between calls, the count is the number of handles the library still holds,
\* through repeated begin() and end() of the same object, except that every
\* failed create leaves it one too high.
CountIsExact == Quiet => count = Cardinality(OpenHandles) + leaks

\* The library is never shut down under a socket that still exists.
LibraryIsUp == OpenHandles # {} => up

=============================================================================
