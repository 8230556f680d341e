----------------------------- MODULE ServerWrite ----------------------------
(***************************************************************************)
(* WiFiServer::write() (libraries/WiFi/src/WiFiServer.cpp): one buffer is  *)
(* written to every client of the list, and the smallest number of bytes   *)
(* any of them took is returned.  Each client's number passes through a    *)
(* uint16_t.                                                               *)
(***************************************************************************)
EXTENDS Integers

CONSTANTS
  Modulus,     \* 2^16, the values of a uint16_t
  MaxWritten,  \* 4294967295, the value written_bytes starts with
  Sizes,       \* the size arguments
  MinClients,  \* the fewest clients in the list
  MaxClients   \* bound: the most clients in the list

ASSUME ServerWriteAssumption ==
  /\ Modulus \in Nat \ {0}
  /\ MaxWritten \in Nat
  /\ Modulus <= MaxWritten
  /\ Sizes \subseteq 0 .. MaxWritten
  /\ MinClients \in Nat /\ MaxClients \in Nat

VARIABLES
  size,     \* the size argument
  clients,  \* how many clients are in the list
  turn,     \* the client the loop is at
  sent,     \* what each client took
  written   \* written_bytes

writeVars == <<size, clients, turn, sent, written>>

WriteInit ==
  /\ size \in Sizes
  /\ clients \in MinClients .. MaxClients
  /\ turn = 1
  /\ sent = [c \in 1 .. MaxClients |-> 0]
  /\ written = MaxWritten

\* Mutant of WriteClient: the last client's number is returned.
WriteClient_Last ==
  /\ turn <= clients
  /\ \E n \in 0 .. size :
       /\ sent' = [sent EXCEPT ![turn] = n]
       /\ written' = n % Modulus
  /\ turn' = turn + 1
  /\ UNCHANGED <<size, clients>>

\* One turn of the loop; send() may take any part of the buffer, or fail and
\* take none.
WriteClient ==
  /\ turn <= clients
  /\ \E n \in 0 .. size :
       /\ sent' = [sent EXCEPT ![turn] = n]
       /\ written' = IF n % Modulus > written THEN written ELSE n % Modulus
  /\ turn' = turn + 1
  /\ UNCHANGED <<size, clients>>

WriteSpec == WriteInit /\ [][WriteClient]_writeVars

-----------------------------------------------------------------------------
(* Properties.                                                             *)

WriteTypeOK ==
  /\ size \in Sizes
  /\ clients \in MinClients .. MaxClients
  /\ turn \in 1 .. clients + 1
  /\ sent \in [1 .. MaxClients -> 0 .. MaxWritten]
  /\ written \in 0 .. MaxWritten

WriteDone == turn > clients

IsSmallest ==
  /\ \A c \in 1 .. clients : written <= sent[c]
  /\ \E c \in 1 .. clients : written = sent[c]

\* "Keep as written_bytes the smallest value of written bytes to any clients":
\* so it is when the list is not empty and the size fits a uint16_t.
SmallestUpToModulus == WriteDone /\ clients > 0 /\ size < Modulus => IsSmallest

\* Whatever the size, a result equal to the size means that every client took
\* the whole buffer: "that value can be used to check that all the bytes
\* passed to write() have been written to all clients successfully".
EqualMeansAll == WriteDone /\ written = size => \A c \in 1 .. clients : sent[c] = size

\* The loop's invariant.
WriteIInv ==
  /\ WriteTypeOK
  /\ \A c \in 1 .. turn - 1 :
       written <= sent[c] % Modulus /\ sent[c] \in 0 .. size
  /\ turn = 1 => written = MaxWritten
  /\ turn > 1 => \E c \in 1 .. turn - 1 : written = sent[c] % Modulus

=============================================================================
