---------------------------- MODULE WiFi_proofs -----------------------------
(***************************************************************************)
(* Proofs about the parts of the WiFi library that share no socket with    *)
(* another thread's methods: WiFiClass (its types, the agreement of the    *)
(* driver with the connection manager, and what the list of networks       *)
(* holds), WiFiServer::write(), and WiFiUDP.  They hold for every length   *)
(* of the lists, every width, size and time-out, and any datagrams.        *)
(***************************************************************************)
EXTENDS WiFiClass, ServerWrite, WiFiUdp, SequenceTheorems, TLAPS

-----------------------------------------------------------------------------
(* WiFiClass: the inductive invariants.  Agreement needs to know what      *)
(* begin() and beginAP() have checked when they come to connect; the other *)
(* two, that no scan runs outside of the waiting loop, and no callback is  *)
(* about to count a network there, unless a scan could not be stopped.     *)

ModeInv ==
  /\ Agreement
  /\ pc = "connect" => mode = "STA" /\ status = "INITED"
  /\ pc = "start" => mode = "AP" /\ status = "INITED"

ScanInv ==
  /\ ~stray => scan = 0 \/ (pc = "wait" /\ scan = scans)
  /\ ~stray /\ pc = "startScan" => results = <<>>
  /\ ~stray => \A k \in 1 .. Len(results) : results[k] = scans
  /\ ~stray /\ cb = "found" => scan # 0 /\ place = Len(results) + 1

ReportInv == pc \in {"idle", "connect", "start"} => returned <= Len(results)

ConnectionStep == Begin \/ Connect \/ BeginAP \/ StartAP \/ Disconnect \/ End \/ LinkChanges

-----------------------------------------------------------------------------
(* Typing.                                                                 *)

\* The types hold at the start.
LEMMA TypingInit == Init => TypeOK
<1> SUFFICES ASSUME Init PROVE TypeOK
  OBVIOUS
<1>1. ControlTypeOK /\ NumbersTypeOK
  <2>1. ControlTypeOK
    BY Zenon DEF Init, ControlTypeOK, Interfaces
  <2>2. timer = 0 /\ returned = 0 /\ scan = 0 /\ scans = 0 /\ place = 0
    BY DEF Init
  <2> QED
    BY <2>1, <2>2, WiFiClassAssumption DEF NumbersTypeOK
<1>2. ListTypeOK
  <2>1. results \in Seq(1 .. scans) /\ Len(results) = 0
    BY EmptySeq DEF Init
  <2>2. 0 <= MaxResults
    BY WiFiClassAssumption
  <2> QED
    BY <2>1, <2>2 DEF ListTypeOK, Init
<1> QED
  BY <1>1, <1>2 DEF TypeOK

\* Mode, status and the places in the calls stay what they may be.
LEMMA ControlStep == ASSUME ControlTypeOK, [Next]_vars PROVE ControlTypeOK'
<1> USE DEF ControlTypeOK, Interfaces
<1>1. CASE ConnectionStep
  BY <1>1 DEF ConnectionStep, Begin, Connect, BeginAP, StartAP, Disconnect, End, Deinit,
      LinkChanges, WcmInit, callVars, resultVars, wcmVars
<1>2. CASE ScanBegin \/ ScanReset \/ ScanStart
  BY <1>2 DEF ScanBegin, ScanReset, ScanStart, WcmInit, modeVars, callVars, resultVars, wcmVars
<1>3. CASE ScanWait \/ ScanStop \/ ScanReturn
  BY <1>3 DEF ScanWait, ScanStop, ScanReturn, Deinit, modeVars, resultVars, wcmVars
<1>4. CASE ScanCallback \/ ScanCount \/ ScanCallbackStatus
  BY <1>4 DEF ScanCallback, ScanCount, ScanCallbackStatus, modeVars, callVars
<1>5. CASE UNCHANGED vars
  BY <1>5 DEF vars, modeVars, callVars, resultVars, wcmVars
<1> QED
  BY <1>1, <1>2, <1>3, <1>4, <1>5 DEF Next, ScanStep, ConnectionStep

\* Numbers, and the list: only ScanReset and ScanCount touch the latter.
LEMMA TypingStep == ASSUME TypeOK, [Next]_vars PROVE (NumbersTypeOK /\ ListTypeOK)'
<1> USE WiFiClassAssumption DEF TypeOK, NumbersTypeOK
<1>1. CASE UNCHANGED <<callVars, resultVars, scans, place, cb>> /\ scan' \in {scan, 0}
  BY <1>1 DEF ListTypeOK, callVars, resultVars
<1>2. CASE ScanBegin
  <2>1. returned' \in {returned, 0} /\ UNCHANGED <<timer, scan, scans, place, cb, results>>
    BY <1>2 DEF ScanBegin, resultVars, wcmVars
  <2> QED
    BY <2>1 DEF ListTypeOK
<1>3. CASE ScanReset
  <2>1. results' \in Seq(1 .. scans) /\ Len(results') = 0
    BY <1>3, EmptySeq DEF ScanReset
  <2> QED
    BY <1>3, <2>1 DEF ScanReset, ListTypeOK, callVars, wcmVars
<1>4. CASE ScanStart
  <2>1. /\ scans' \in 0 .. MaxScans /\ scan' \in 0 .. scans' /\ scans <= scans'
        /\ timer' = 0 /\ returned' \in {returned, 0}
        /\ UNCHANGED <<place, cb, results>>
    BY <1>4 DEF ScanStart, resultVars
  <2>2. results \in Seq(1 .. scans) /\ 1 .. scans \subseteq 1 .. scans'
    BY <2>1 DEF ListTypeOK
  <2>3. results \in Seq(1 .. scans')
    BY <2>2, SeqMonotonic
  <2> QED
    BY <2>1, <2>3 DEF ListTypeOK
<1>5. CASE ScanWait \/ ScanStop
  <2>1. /\ timer' \in 0 .. ScanTimeout /\ returned' \in {returned, 0}
        /\ scan' \in {scan, 0} /\ UNCHANGED <<scans, place, cb, results>>
    BY <1>5 DEF ScanWait, ScanStop, resultVars, wcmVars
  <2> QED
    BY <2>1 DEF ListTypeOK
<1>6. CASE ScanReturn
  <2>1. Len(results) \in 0 .. MaxResults
    BY LenProperties DEF ListTypeOK
  <2>2. /\ returned' = Len(results) /\ scan' \in {scan, 0}
        /\ UNCHANGED <<timer, scans, place, cb, results>>
    BY <1>6 DEF ScanReturn, Deinit, resultVars
  <2> QED
    BY <2>1, <2>2 DEF ListTypeOK
<1>7. CASE ScanCallback
  <2>1. Len(results) \in Nat
    BY LenProperties DEF ListTypeOK
  <2>2. /\ scan' \in {scan, 0} /\ UNCHANGED <<callVars, scans, results>>
        /\ \/ UNCHANGED place /\ cb' # "found"
           \/ place' = Len(results) + 1 /\ Len(results) < MaxResults
    BY <1>7 DEF ScanCallback
  <2> QED
    BY <2>1, <2>2 DEF ListTypeOK, callVars
<1>8. CASE ScanCount
  <2>1. PICK found \in 1 .. scan : results' = Append(results, found)
    BY <1>8 DEF ScanCount
  <2>2. found \in 1 .. scans
    BY <2>1
  <2>3. /\ results' \in Seq(1 .. scans) /\ Len(results') = Len(results) + 1
        /\ Len(results) \in Nat /\ Len(results) < MaxResults
    BY <1>8, <2>1, <2>2, AppendProperties, LenProperties DEF ListTypeOK, ScanCount
  <2>4. cb' # "found" /\ UNCHANGED <<callVars, scan, scans, place>>
    BY <1>8 DEF ScanCount
  <2> QED
    BY <2>3, <2>4 DEF ListTypeOK, callVars
<1>9. CASE ScanCallbackStatus
  BY <1>9 DEF ScanCallbackStatus, ListTypeOK, callVars
<1>10. CASE UNCHANGED vars
  BY <1>1, <1>10 DEF vars, wcmVars
<1>11. CASE ConnectionStep
  BY <1>1, <1>11 DEF ConnectionStep, Begin, Connect, BeginAP, StartAP, Disconnect, End,
      Deinit, LinkChanges, wcmVars
<1> QED
  BY <1>2, <1>3, <1>4, <1>5, <1>6, <1>7, <1>8, <1>9, <1>10, <1>11
     DEF Next, ScanStep, ConnectionStep

\* The types, and the array of results is not written past its end, however
\* many networks wcm_scan_cb() is called for.
THEOREM Typing == Spec => []TypeOK
<1>1. TypeOK /\ [Next]_vars => TypeOK'
  BY ControlStep, TypingStep DEF TypeOK
<1> QED
  BY <1>1, TypingInit, PTL DEF Spec

-----------------------------------------------------------------------------
(* Agreement.                                                              *)

\* Before begin() driver and connection manager agree.
LEMMA ModeInit == Init => ModeInv
BY DEF Init, ModeInv, Agreement

\* Every call of the driver and of the manager keeps them in agreement.
LEMMA ModeStep == ASSUME TypeOK, ModeInv, [Next]_vars PROVE ModeInv'
<1> USE DEF TypeOK, ControlTypeOK, Interfaces, ModeInv, Agreement
<1>1. CASE Begin \/ BeginAP
  BY <1>1 DEF Begin, BeginAP, WcmInit
<1>2. CASE Connect \/ StartAP
  BY <1>2 DEF Connect, StartAP
<1>3. CASE Disconnect \/ End \/ LinkChanges
  BY <1>3 DEF Disconnect, End, Deinit, LinkChanges
<1>4. CASE ScanBegin
  BY <1>4 DEF ScanBegin, WcmInit
<1>5. CASE ScanReset \/ ScanStart \/ ScanWait \/ ScanStop
  BY <1>5 DEF ScanReset, ScanStart, ScanWait, ScanStop, modeVars
<1>6. CASE ScanReturn
  BY <1>6 DEF ScanReturn, Deinit
<1>7. CASE ScanCallback \/ ScanCount \/ ScanCallbackStatus
  BY <1>7 DEF ScanCallback, ScanCount, ScanCallbackStatus, modeVars
<1>8. CASE UNCHANGED vars
  BY <1>8 DEF vars, modeVars
<1> QED
  BY <1>1, <1>2, <1>3, <1>4, <1>5, <1>6, <1>7, <1>8 DEF Next, ScanStep

\* After any sequence of begin(), beginAP(), disconnect(), end() and
\* scanNetworks(), whichever of their calls fail, mode and status are those of
\* the connection manager.
THEOREM InAgreement == Spec => []Agreement
<1>1. ModeInv => Agreement
  BY DEF ModeInv
<1> QED
  BY <1>1, Typing, ModeInit, ModeStep, PTL DEF Spec

-----------------------------------------------------------------------------
(* The list of networks.                                                   *)

\* No scan runs at the start.
LEMMA ScanInit == Init => ScanInv
BY DEF Init, ScanInv

\* A step keeps the list of networks to the scan that is under way.
LEMMA ScanInvStep == ASSUME TypeOK, ScanInv, [Next]_vars PROVE ScanInv'
<1> USE WiFiClassAssumption
       DEF TypeOK, ControlTypeOK, NumbersTypeOK, ListTypeOK, ScanInv
<1>1. CASE ConnectionStep
  BY <1>1 DEF ConnectionStep, Begin, Connect, BeginAP, StartAP, Disconnect, End, Deinit,
      LinkChanges, resultVars, wcmVars
<1>2. CASE ScanBegin
  BY <1>2 DEF ScanBegin, resultVars, wcmVars
<1>3. CASE ScanReset
  BY <1>3 DEF ScanReset, wcmVars
<1>4. CASE ScanStart
  BY <1>4 DEF ScanStart, resultVars
<1>5. CASE ScanWait \/ ScanStop
  BY <1>5 DEF ScanWait, ScanStop, CallbackHasCounted, resultVars, wcmVars
<1>6. CASE ScanReturn
  BY <1>6 DEF ScanReturn, Deinit, resultVars
<1>7. CASE ScanCallback \/ ScanCallbackStatus
  BY <1>7 DEF ScanCallback, ScanCallbackStatus
<1>8. CASE ScanCount
  BY <1>8 DEF ScanCount
<1>9. CASE UNCHANGED vars
  BY <1>9 DEF vars, resultVars, wcmVars
<1> QED
  BY <1>1, <1>2, <1>3, <1>4, <1>5, <1>6, <1>7, <1>8, <1>9 DEF Next, ScanStep, ConnectionStep

\* The list of networks holds those of the last scan only, although the
\* callback adds to it beside the sketch, as long as scans could be stopped; and it
\* never holds more of them than it has room for.
THEOREM LastScan == Spec => []ResultsAreOfLastScan
<1>1. TypeOK /\ ScanInv => ResultsAreOfLastScan
  BY DEF TypeOK, ListTypeOK, ScanInv, ResultsAreOfLastScan
<1> QED
  BY <1>1, Typing, ScanInit, ScanInvStep, PTL DEF Spec

\* Nothing has been reported at the start.
LEMMA ReportInit == Init => ReportInv
BY DEF Init, ReportInv

\* The list does not become shorter than what was reported of it.
LEMMA ReportStep == ASSUME TypeOK, ReportInv, [Next]_vars PROVE ReportInv'
<1> USE WiFiClassAssumption DEF TypeOK, NumbersTypeOK, ListTypeOK, ReportInv
<1>1. CASE ConnectionStep
  BY <1>1 DEF ConnectionStep, Begin, Connect, BeginAP, StartAP, Disconnect, End, Deinit,
      LinkChanges, callVars, resultVars
<1>2. CASE ScanBegin
  BY <1>2 DEF ScanBegin, resultVars
<1>3. CASE ScanReset
  BY <1>3 DEF ScanReset
<1>4. CASE ScanStart
  BY <1>4 DEF ScanStart, resultVars
<1>5. CASE ScanWait \/ ScanStop
  BY <1>5 DEF ScanWait, ScanStop, resultVars
<1>6. CASE ScanReturn
  BY <1>6 DEF ScanReturn, resultVars
<1>7. CASE ScanCallback \/ ScanCallbackStatus
  BY <1>7 DEF ScanCallback, ScanCallbackStatus, callVars
<1>8. CASE ScanCount
  BY <1>8 DEF ScanCount, callVars
<1>9. CASE UNCHANGED vars
  BY <1>9 DEF vars, callVars, resultVars
<1> QED
  BY <1>1, <1>2, <1>3, <1>4, <1>5, <1>6, <1>7, <1>8, <1>9 DEF Next, ScanStep, ConnectionStep

\* Every network scanNetworks() has reported can be asked for until the sketch
\* scans again, also while a callback still adds to the list.
THEOREM Reported == Spec => []ReturnedAreThere
<1>1. ReportInv => ReturnedAreThere
  BY DEF ReportInv, ReturnedAreThere
<1> QED
  BY <1>1, Typing, ReportInit, ReportStep, PTL DEF Spec

-----------------------------------------------------------------------------
(* WiFiServer::write().                                                    *)

\* Taking a number modulo the width makes it smaller, or leaves it alone.
LEMMA ModBounds ==
  ASSUME NEW n \in Nat
  PROVE  /\ n % Modulus \in 0 .. n
         /\ n % Modulus < Modulus
         /\ n < Modulus => n % Modulus = n
<1>1. PICK m \in Nat \ {0} : m = Modulus
  BY ServerWriteAssumption
<1>2. n % m \in 0 .. n /\ n % m < m /\ (n < m => n % m = n)
  BY Z3
<1> QED
  BY <1>1, <1>2

\* The loop's invariant holds before the loop, and through every turn.
LEMMA WriteInitIInv == WriteInit => WriteIInv
BY ServerWriteAssumption DEF WriteInit, WriteIInv, WriteTypeOK

\* A turn takes one more client into account.
LEMMA WriteLoopIInv ==
  ASSUME WriteIInv, WriteClient
  PROVE  WriteIInv'
<1>1. PICK n \in 0 .. size :
        /\ sent' = [sent EXCEPT ![turn] = n]
        /\ written' = IF n % Modulus > written THEN written ELSE n % Modulus
  BY DEF WriteClient
<1>2. /\ turn \in 1 .. clients /\ clients \in 0 .. MaxClients /\ size \in 0 .. MaxWritten
      /\ sent \in [1 .. MaxClients -> 0 .. MaxWritten] /\ written \in 0 .. MaxWritten
      /\ MaxWritten \in Nat /\ MaxClients \in Nat /\ MinClients \in Nat
  BY ServerWriteAssumption DEF WriteIInv, WriteTypeOK, WriteClient
<1>3. /\ n % Modulus \in 0 .. n /\ n \in Nat /\ n \in 0 .. MaxWritten
  BY <1>2, ModBounds
<1>4. turn' = turn + 1 /\ UNCHANGED <<size, clients>>
  BY DEF WriteClient
<1>5. /\ \A c \in 1 .. turn - 1 : sent'[c] = sent[c]
      /\ sent'[turn] = n
  BY <1>1, <1>2
<1>6. written' <= written /\ written' <= n % Modulus /\ written' \in 0 .. MaxWritten
      /\ (written' = written \/ written' = n % Modulus)
  BY <1>1, <1>2, <1>3
<1>7. WriteTypeOK'
  BY <1>1, <1>2, <1>3, <1>4, <1>6 DEF WriteIInv, WriteTypeOK
<1>8. ASSUME NEW c \in 1 .. turn' - 1
      PROVE  written' <= sent'[c] % Modulus /\ sent'[c] \in 0 .. size'
  <2>1. CASE c = turn
    BY <1>1, <1>4, <1>5, <1>6, <2>1
  <2>2. CASE c # turn
    <3>1. c \in 1 .. turn - 1
      BY <1>2, <1>4, <1>8, <2>2
    <3>2. written <= sent[c] % Modulus /\ sent[c] \in 0 .. size
      BY <3>1 DEF WriteIInv
    <3>3. sent[c] % Modulus \in Nat
      BY <1>2, <3>2, ModBounds
    <3> QED
      BY <1>2, <1>4, <1>5, <1>6, <3>1, <3>2, <3>3
  <2> QED
    BY <2>1, <2>2
<1>9. \E c \in 1 .. turn' - 1 : written' = sent'[c] % Modulus
  <2>1. CASE written' = n % Modulus
    <3>1. turn \in 1 .. turn' - 1
      BY <1>2, <1>4
    <3> QED
      BY <1>5, <2>1, <3>1
  <2>2. CASE written' # n % Modulus
    <3>1. written' = written
      BY <1>6, <2>2
    <3>2. turn > 1
      <4>1. SUFFICES ASSUME turn = 1
                     PROVE  FALSE
        BY <1>2
      <4>2. written = MaxWritten
        BY <4>1 DEF WriteIInv
      <4> QED
        BY <1>1, <1>2, <1>3, <2>2, <3>1, <4>2, ModBounds, ServerWriteAssumption
    <3>3. PICK c \in 1 .. turn - 1 : written = sent[c] % Modulus
      BY <3>2 DEF WriteIInv
    <3>4. c \in 1 .. turn' - 1
      BY <1>2, <1>4
    <3> QED
      BY <1>5, <3>1, <3>3, <3>4
  <2> QED
    BY <2>1, <2>2
<1> QED
  BY <1>2, <1>4, <1>7, <1>8, <1>9 DEF WriteIInv

\* Nothing else changes it.
LEMMA WriteStutterIInv ==
  ASSUME WriteIInv, UNCHANGED writeVars
  PROVE  WriteIInv'
BY DEF WriteIInv, WriteTypeOK, writeVars

\* The number so far is the smallest, as the narrow type shows it.
THEOREM WriteInvariant == WriteSpec => []WriteIInv
<1>1. WriteIInv /\ [WriteClient]_writeVars => WriteIInv'
  BY WriteLoopIInv, WriteStutterIInv
<1> QED
  BY WriteInitIInv, <1>1, PTL DEF WriteSpec

\* With at least one client and a size that fits the narrow number, write()
\* returns the smallest number of bytes any client took.
THEOREM Smallest == WriteSpec => []SmallestUpToModulus
<1>1. WriteIInv => SmallestUpToModulus
  <2> SUFFICES ASSUME WriteIInv, WriteDone, clients > 0, size < Modulus
               PROVE  IsSmallest
    BY DEF SmallestUpToModulus
  <2>1. turn = clients + 1 /\ clients \in Nat /\ turn > 1 /\ size \in Nat /\ Modulus \in Nat
    BY ServerWriteAssumption DEF WriteIInv, WriteTypeOK, WriteDone
  <2>2. ASSUME NEW c \in 1 .. clients
        PROVE  sent[c] % Modulus = sent[c] /\ written <= sent[c] % Modulus
    <3>1. c \in 1 .. turn - 1
      BY <2>1, <2>2
    <3>2. sent[c] \in 0 .. size /\ written <= sent[c] % Modulus
      BY <3>1 DEF WriteIInv
    <3>3. sent[c] \in Nat /\ sent[c] < Modulus
      BY <2>1, <3>2
    <3> QED
      BY <3>2, <3>3, ModBounds
  <2>3. PICK c \in 1 .. turn - 1 : written = sent[c] % Modulus
    BY <2>1 DEF WriteIInv
  <2>4. c \in 1 .. clients
    BY <2>1
  <2> QED
    BY <2>2, <2>3, <2>4 DEF IsSmallest
<1> QED
  BY WriteInvariant, <1>1, PTL

\* Whatever the size and the width, a result equal to the size means that
\* every client took the whole buffer.
THEOREM EqualTellsAll == WriteSpec => []EqualMeansAll
<1>1. WriteIInv => EqualMeansAll
  <2> SUFFICES ASSUME WriteIInv, WriteDone, written = size, NEW c \in 1 .. clients
               PROVE  sent[c] = size
    BY DEF EqualMeansAll
  <2>1. c \in 1 .. turn - 1 /\ size \in Nat
    BY ServerWriteAssumption DEF WriteIInv, WriteTypeOK, WriteDone
  <2>2. sent[c] \in 0 .. size /\ written <= sent[c] % Modulus
    BY <2>1 DEF WriteIInv
  <2>3. sent[c] % Modulus \in 0 .. sent[c]
    BY <2>1, <2>2, ModBounds
  <2> QED
    BY <2>1, <2>2, <2>3
<1> QED
  BY WriteInvariant, <1>1, PTL

-----------------------------------------------------------------------------
(* WiFiUDP: what is sent.                                                  *)

\* The buffer's length is that of what has been written since it was empty, up to
\* the size of a packet.
SendInv ==
  /\ out \in Nat /\ since \in Nat
  /\ since <= out
  /\ SentIsWritten

\* The numbers that follow first, as a sequence.
LEMMA GivenSeq ==
  ASSUME NEW n \in Nat, NEW first \in Nat
  PROVE  LET s == [i \in 1 .. n |-> first + i]
         IN  s \in Seq(Nat) /\ Len(s) = n /\ \A i \in 1 .. n : s[i] = first + i
<1> DEFINE s == [i \in 1 .. n |-> first + i]
<1>1. s \in [1 .. n -> Nat]
  OBVIOUS
<1>2. s \in Seq(Nat)
  BY <1>1, SeqDef
<1>3. DOMAIN s = 1 .. n
  OBVIOUS
<1>4. Len(s) = n
  BY <1>2, <1>3, LenProperties
<1> QED
  BY <1>2, <1>4

\* What fits a packet.
LEMMA CutLength ==
  ASSUME NEW n \in Nat
  PROVE  Min2(n, PacketSize) \in 0 .. n /\ Min2(n, PacketSize) <= PacketSize
BY WiFiUdpAssumption DEF Min2

\* The buffer is empty at the start.
LEMMA SendInit == UdpInit => SendInv
<1> SUFFICES ASSUME UdpInit PROVE SendInv
  OBVIOUS
<1>1. Min2(out - since, PacketSize) = 0
  BY WiFiUdpAssumption DEF Min2, UdpInit
<1>2. [k \in 1 .. 0 |-> since + k] = <<>>
  OBVIOUS
<1> QED
  BY <1>1, <1>2 DEF SendInv, SentIsWritten, UdpInit

\* write() adds what comes next, as long as there is room.
LEMMA SendWrite == ASSUME SendInv, Write PROVE SendInv'
<1> DEFINE m == Min2(out - since, PacketSize)
<1>1. PICK asked \in WriteLens :
        /\ out' = out + asked
        /\ txBuf' = txBuf \o [k \in 1 .. Min2(asked, PacketSize - Len(txBuf)) |-> out + k]
  BY DEF Write
<1> DEFINE n == Min2(asked, PacketSize - m)
           added == [k \in 1 .. n |-> out + k]
           all == [k \in 1 .. m + n |-> since + k]
<1>2. /\ asked \in Nat /\ PacketSize \in Nat /\ out - since \in Nat
      /\ out \in Nat /\ since \in Nat /\ since' = since
  <2>1. PacketSize \in Nat /\ WriteLens \subseteq Nat
    BY WiFiUdpAssumption
  <2>2. out \in Nat /\ since \in Nat /\ since <= out
    BY DEF SendInv
  <2>3. since' = since
    BY DEF Write
  <2> QED
    BY <2>1, <2>2, <2>3
<1>3. /\ m \in Nat /\ m <= PacketSize
      /\ (m = PacketSize \/ m = out - since)
      /\ n \in Nat /\ m + n = Min2(out + asked - since, PacketSize)
      /\ (n > 0 => m = out - since)
  BY <1>2 DEF Min2
<1>4. txBuf = [k \in 1 .. m |-> since + k]
  BY DEF SendInv, SentIsWritten
<1>5. /\ txBuf \in Seq(Nat) /\ Len(txBuf) = m
      /\ \A i \in 1 .. m : txBuf[i] = since + i
  BY <1>2, <1>3, <1>4, GivenSeq
<1>6. added \in Seq(Nat) /\ Len(added) = n /\ \A i \in 1 .. n : added[i] = out + i
  BY <1>2, <1>3, GivenSeq
<1>7. all \in Seq(Nat) /\ Len(all) = m + n /\ \A i \in 1 .. m + n : all[i] = since + i
  <2>1. PICK t \in Nat : t = m + n
    BY <1>3
  <2> QED
    BY <1>2, <2>1, GivenSeq
<1>8. txBuf' = txBuf \o added
  BY <1>1, <1>5
<1> HIDE DEF m, n, added, all
<1>9. /\ txBuf \o added \in Seq(Nat) /\ Len(txBuf \o added) = m + n
      /\ \A i \in 1 .. m + n :
           (txBuf \o added)[i] = IF i <= m THEN txBuf[i] ELSE added[i - m]
  BY <1>5, <1>6, ConcatProperties
<1>10. ASSUME NEW i \in 1 .. m + n
       PROVE  (txBuf \o added)[i] = all[i]
  <2>1. CASE i <= m
    BY <1>3, <1>5, <1>7, <1>9, <2>1
  <2>2. CASE ~(i <= m)
    <3>1. i - m \in 1 .. n /\ n > 0 /\ m = out - since
      BY <1>3, <2>2
    <3> QED
      <4>1. (txBuf \o added)[i] = added[i - m]
        BY <1>9, <2>2
      <4>2. added[i - m] = out + (i - m)
        BY <1>6, <3>1
      <4>3. all[i] = since + i
        BY <1>7
      <4>4. i \in Int /\ m \in Int /\ out \in Int /\ since \in Int
        BY <1>2, <1>3
      <4> QED
        BY <3>1, <4>1, <4>2, <4>3, <4>4
  <2> QED
    BY <2>1, <2>2
<1>11. txBuf \o added = all
  BY <1>7, <1>9, <1>10, SeqEqual
<1>12. txBuf' = [k \in 1 .. Min2(out' - since', PacketSize) |-> since' + k]
  <2>1. Min2(out' - since', PacketSize) = m + n
    BY <1>1, <1>2, <1>3
  <2> QED
    BY <1>2, <1>8, <1>11, <2>1 DEF all
<1>13. out' \in Nat /\ since' \in Nat /\ since' <= out'
  <2>1. since <= out
    BY DEF SendInv
  <2> QED
    BY <1>1, <1>2, <2>1
<1> QED
  BY <1>12, <1>13 DEF SendInv, SentIsWritten

\* Only the three calls that send touch the buffer.
LEMMA SendStep == ASSUME SendInv, [UdpNext]_udpVars PROVE SendInv'
<1>1. CASE BeginPacket \/ EndPacket
  <2>1. /\ txBuf' = <<>> /\ since' = out /\ out' = out
    BY <1>1 DEF BeginPacket, EndPacket
  <2>2. Min2(out' - since', PacketSize) = 0
    BY <2>1, WiFiUdpAssumption DEF Min2, SendInv
  <2>3. [k \in 1 .. 0 |-> since' + k] = <<>>
    OBVIOUS
  <2> QED
    BY <2>1, <2>2, <2>3 DEF SendInv, SentIsWritten
<1>2. CASE Write
  BY <1>2, SendWrite
<1>3. CASE UNCHANGED txVars
  BY <1>3 DEF SendInv, SentIsWritten, txVars
<1>4. (UdpBegin \/ Stop \/ Arrive \/ Worker \/ Parse \/ Read \/ Flush) => UNCHANGED txVars
  BY DEF UdpBegin, Stop, Arrive, Worker, Receive, ReceiveFails, Push, Parse, ParseNone,
      ParseFront, ParseErase, Read, Flush, Consume
<1>5. UNCHANGED udpVars => UNCHANGED txVars
  BY DEF udpVars
<1> QED
  BY <1>1, <1>2, <1>3, <1>4, <1>5 DEF UdpNext

\* endPacket() sends what has been written since the last beginPacket() or
\* endPacket(), cut off at the end.
THEOREM SentAsWritten == UdpSpec => []SentIsWritten
<1>1. SendInv => SentIsWritten
  BY DEF SendInv
<1> QED
  BY <1>1, SendInit, SendStep, PTL DEF UdpSpec

-----------------------------------------------------------------------------
(* WiFiUDP: what is received.  The inductive invariant says what the       *)
(* variables of the two threads hold between their steps.                  *)

Packets == [sender : Nat, bytes : Seq(Nat \X Nat)]

\* The sketch's side: parsePacket() erases a packet that is there.
PacketInv ==
  /\ rxPackets \in Seq(Packets)
  /\ current \in Packets
  /\ spc \in {"idle", "erase"}
  /\ spc = "erase" => rxPackets # <<>>

\* The library holds datagrams in the order they arrived, all of them later than
\* what the worker has taken.
StackInv ==
  /\ arrived \in 0 .. MaxDatagrams
  /\ stack \in Seq(1 .. arrived)
  /\ \A i, j \in 1 .. Len(stack) : i < j => stack[i] < stack[j]
  /\ \A j \in 1 .. Len(stack) : stack[j] > delivered
  /\ wpc = "got" => \A j \in 1 .. Len(stack) : stack[j] > sender

\* The worker's side: the socket's ring holds the datagram it has received last, and
\* is empty when there is none.
RingInv ==
  /\ wpc \in {"idle", "got", "none"}
  /\ delivered \in 0 .. arrived
  /\ wpc # "got" => rxBuf = <<>>
  /\ wpc = "none" => sender \in 0 .. arrived
  /\ wpc = "got" =>
       /\ sender \in delivered + 1 .. arrived
       /\ rxBuf = Bytes(sender, Min2(Length[sender], RxBufferSize))

UdpInv == PacketInv /\ StackInv /\ RingInv

\* The steps of the library and of the worker before it makes a packet, and those
\* of the sketch that touch nothing they use.
ReceiveStep == Arrive \/ Receive \/ ReceiveFails
OtherStep == UdpBegin \/ BeginPacket \/ Write \/ EndPacket

\* The bytes of a datagram, as a sequence.
LEMMA BytesSeq ==
  ASSUME NEW d \in Nat, NEW n \in Nat
  PROVE  /\ Bytes(d, n) \in Seq(Nat \X Nat)
         /\ Len(Bytes(d, n)) = n
         /\ \A i \in 1 .. n : Bytes(d, n)[i] = <<d, i>>
<1>1. Bytes(d, n) \in [1 .. n -> Nat \X Nat]
  BY DEF Bytes
<1>2. Bytes(d, n) \in Seq(Nat \X Nat)
  BY <1>1, SeqDef
<1>3. DOMAIN Bytes(d, n) = 1 .. n
  BY DEF Bytes
<1>4. Len(Bytes(d, n)) = n
  BY <1>2, <1>3, LenProperties
<1> QED
  BY <1>2, <1>4 DEF Bytes

\* The front part of what a ring holds of a datagram.
LEMMA CutBytes ==
  ASSUME NEW d \in Nat, NEW n \in Nat, NEW k \in 0 .. n
  PROVE  SubSeq(Bytes(d, n), 1, k) = Bytes(d, k)
<1> DEFINE s == Bytes(d, n)
           t == SubSeq(s, 1, k)
<1>1. s \in Seq(Nat \X Nat) /\ \A i \in 1 .. n : s[i] = <<d, i>>
  BY BytesSeq
<1> HIDE DEF s
<1>2. \A i \in 1 .. k : i \in 1 .. n /\ s[i] \in Nat \X Nat
  <2>1. \A i \in 1 .. k : i \in 1 .. n
    OBVIOUS
  <2>2. \A i \in 1 .. n : s[i] \in Nat \X Nat
    BY <1>1, ElementOfSeq, BytesSeq DEF s
  <2> QED
    BY <2>1, <2>2
<1>3. k \in Nat /\ k \in Int /\ 1 \in Int
  OBVIOUS
<1>4. /\ t \in Seq(Nat \X Nat)
      /\ Len(t) = IF 1 <= k THEN k - 1 + 1 ELSE 0
      /\ \A i \in 1 .. k - 1 + 1 : t[i] = s[1 + i - 1]
  BY <1>2, <1>3, SubSeqProperties
<1> HIDE DEF t
<1>5. Len(t) = k /\ \A i \in 1 .. k : t[i] = s[i]
  BY <1>3, <1>4
<1>6. Bytes(d, k) \in Seq(Nat \X Nat) /\ Len(Bytes(d, k)) = k
      /\ \A i \in 1 .. k : Bytes(d, k)[i] = <<d, i>>
  BY <1>3, BytesSeq
<1>7. \A i \in 1 .. k : t[i] = Bytes(d, k)[i]
  BY <1>1, <1>2, <1>5, <1>6
<1>8. t = Bytes(d, k)
  BY <1>4, <1>5, <1>6, <1>7, SeqEqual
<1> QED
  BY <1>8 DEF t, s

\* Lengths and sizes are natural numbers.
LEMMA LengthNat == /\ MaxDatagrams \in Nat
                   /\ \A d \in 1 .. MaxDatagrams : Length[d] \in Nat /\ d \in DOMAIN Length
                   /\ RxBufferSize \in Nat /\ PacketSize \in Nat /\ PacketSize <= RxBufferSize
BY WiFiUdpAssumption, LenProperties, ElementOfSeq DEF MaxDatagrams

\* The invariant holds at the start.
LEMMA UdpInvInit == UdpInit => UdpInv
<1> SUFFICES ASSUME UdpInit PROVE UdpInv
  OBVIOUS
<1>1. Bytes(0, 0) \in Seq(Nat \X Nat)
  BY BytesSeq
<1>2. PacketInv
  <2>1. current = [sender |-> 0, bytes |-> Bytes(0, 0)] /\ rxPackets = <<>> /\ spc = "idle"
    BY DEF UdpInit, NoPacket
  <2> QED
    BY <1>1, <2>1, EmptySeq DEF PacketInv, Packets
<1>3. StackInv
  <2>1. stack = <<>> /\ stack \in Seq(1 .. arrived) /\ Len(stack) = 0 /\ arrived = 0
    BY EmptySeq DEF UdpInit
  <2> QED
    BY <2>1, LengthNat DEF StackInv
<1>4. RingInv
  BY DEF UdpInit, RingInv
<1> QED
  BY <1>2, <1>3, <1>4 DEF UdpInv

\* What the worker appends: the datagram it has received, or an empty packet.
LEMMA PushAppends ==
  ASSUME UdpInv, Push
  PROVE  \E p \in Packets :
           /\ rxPackets' = Append(rxPackets, p)
           /\ \/ wpc = "got" /\ p = Queue!Packet(sender)
              \/ wpc = "none" /\ p = Queue!EmptyPacket(sender)
<1> DEFINE n == Min2(Len(rxBuf), PacketSize)
           p == [sender |-> sender, bytes |-> SubSeq(rxBuf, 1, n)]
<1>1. rxPackets' = Append(rxPackets, p)
  BY DEF Push
<1>2. CASE wpc = "got"
  <2>1. /\ sender \in 1 .. MaxDatagrams /\ sender \in Nat
        /\ rxBuf = Bytes(sender, Min2(Length[sender], RxBufferSize))
    BY <1>2, LengthNat DEF UdpInv, RingInv, StackInv
  <2>2. PICK len \in Nat : len = Length[sender]
    BY <2>1, LengthNat
  <2>3. PICK room \in Nat : room = Min2(len, RxBufferSize)
    BY <2>2, LengthNat DEF Min2
  <2>4. PICK took \in Nat : took = IF len <= PacketSize THEN len ELSE PacketSize
    BY <2>2, LengthNat
  <2>5. rxBuf = Bytes(sender, room) /\ Len(rxBuf) = room
    BY <2>1, <2>2, <2>3, BytesSeq
  <2>6. n = took /\ took \in 0 .. room
    BY <2>2, <2>3, <2>4, <2>5, LengthNat DEF Min2
  <2>7. SubSeq(rxBuf, 1, n) = Bytes(sender, took)
    BY <2>1, <2>5, <2>6, CutBytes
  <2>8. Bytes(sender, took) \in Seq(Nat \X Nat)
    BY <2>1, BytesSeq
  <2>9. p \in Packets
    BY <2>1, <2>7, <2>8 DEF Packets
  <2>10. p = Queue!Packet(sender)
    BY <2>2, <2>4, <2>7 DEF Queue!Packet, Queue!Bytes, Bytes
  <2> QED
    BY <1>1, <1>2, <2>9, <2>10
<1>3. CASE wpc = "none"
  <2>1. rxBuf = <<>> /\ sender \in Nat
    BY <1>3 DEF UdpInv, RingInv, StackInv
  <2>2. n = 0
    BY <2>1, EmptySeq, LengthNat DEF Min2
  <2>3. SubSeq(rxBuf, 1, n) = <<>>
    BY <2>2, SubSeqEmpty
  <2>4. Bytes(sender, 0) = <<>> /\ <<>> \in Seq(Nat \X Nat)
    BY EmptySeq DEF Bytes
  <2>5. p \in Packets /\ p = Queue!EmptyPacket(sender)
    BY <2>1, <2>3, <2>4 DEF Packets, Queue!EmptyPacket, Queue!Bytes, Bytes
  <2> QED
    BY <1>1, <1>3, <2>5
<1>4. wpc \in {"got", "none"}
  BY DEF UdpInv, RingInv, Push
<1> QED
  BY <1>2, <1>3, <1>4

\* What a packet's ring holds after n bytes were read.
LEMMA ConsumeTyped ==
  ASSUME current \in Packets, NEW n \in 0 .. Len(current.bytes), Consume(n)
  PROVE  current' \in Packets
<1>1. current.bytes \in Seq(Nat \X Nat) /\ current.sender \in Nat
  BY DEF Packets
<1> DEFINE s == current.bytes
<1>2. Len(s) \in Nat /\ \A i \in 1 .. Len(s) : s[i] \in Nat \X Nat
  BY <1>1, LenProperties, ElementOfSeq
<1>3. n + 1 \in Int /\ Len(s) \in Int /\ \A i \in n + 1 .. Len(s) : s[i] \in Nat \X Nat
  BY <1>2
<1> HIDE DEF s
<1>4. SubSeq(s, n + 1, Len(s)) \in Seq(Nat \X Nat)
  BY <1>3, SubSeqProperties
<1>5. current' = [current EXCEPT !.bytes = SubSeq(s, n + 1, Len(s))]
  BY DEF Consume, s
<1> QED
  BY <1>1, <1>4, <1>5 DEF Packets

\* read() and flush() take between none and all of the bytes.
LEMMA ReadConsumes ==
  ASSUME current \in Packets, Read \/ Flush
  PROVE  \E n \in 0 .. Len(current.bytes) : Consume(n)
<1>1. Len(current.bytes) \in Nat
  BY LenProperties DEF Packets
<1>2. CASE Read
  <2>1. PICK len \in ReadLens : Consume(Min2(len, Len(current.bytes)))
    BY <1>2 DEF Read
  <2>2. Min2(len, Len(current.bytes)) \in 0 .. Len(current.bytes)
    BY <1>1, WiFiUdpAssumption DEF Min2
  <2> QED
    BY <2>1, <2>2
<1>3. CASE Flush
  <2>1. Len(current.bytes) \in 0 .. Len(current.bytes)
    BY <1>1
  <2> QED
    BY <1>3, <2>1 DEF Flush
<1> QED
  BY <1>2, <1>3

\* What the queue's packets are: appended by the worker, taken by the sketch.
LEMMA PacketStep == ASSUME UdpInv, [UdpNext]_udpVars PROVE PacketInv'
<1>1. PacketInv
  BY DEF UdpInv
<1>2. CASE Push
  <2>1. PICK p \in Packets : rxPackets' = Append(rxPackets, p)
    BY <1>2, PushAppends
  <2>2. rxPackets' \in Seq(Packets) /\ rxPackets' # <<>>
    BY <1>1, <2>1, AppendProperties DEF PacketInv
  <2> QED
    BY <1>1, <1>2, <2>2 DEF PacketInv, Push
<1>3. CASE ParseFront
  <2>1. Head(rxPackets) \in Packets
    BY <1>1, <1>3, HeadTailProperties DEF PacketInv, ParseFront
  <2> QED
    BY <1>1, <1>3, <2>1 DEF PacketInv, ParseFront
<1>4. CASE ParseErase
  <2>1. Tail(rxPackets) \in Seq(Packets)
    BY <1>1, <1>4, HeadTailProperties DEF PacketInv, ParseErase
  <2> QED
    BY <1>1, <1>4, <2>1 DEF PacketInv, ParseErase
<1>5. CASE ParseNone
  <2>1. NoPacket \in Packets
    BY BytesSeq DEF NoPacket, Packets
  <2> QED
    BY <1>1, <1>5, <2>1 DEF PacketInv, ParseNone
<1>6. CASE Read \/ Flush
  <2>1. PICK n \in 0 .. Len(current.bytes) : Consume(n)
    BY <1>1, <1>6, ReadConsumes DEF PacketInv
  <2>2. current' \in Packets
    BY <1>1, <2>1, ConsumeTyped DEF PacketInv
  <2> QED
    BY <1>1, <2>1, <2>2 DEF PacketInv, Consume
<1>7. CASE UNCHANGED <<packetVars, spc>>
  BY <1>1, <1>7 DEF PacketInv, packetVars
<1>8. Stop \/ ReceiveStep \/ OtherStep \/ UNCHANGED udpVars => UNCHANGED <<packetVars, spc>>
  BY DEF Stop, ReceiveStep, Arrive, Receive, ReceiveFails, OtherStep, UdpBegin, BeginPacket,
      Write, EndPacket, udpVars
<1> QED
  BY <1>2, <1>3, <1>4, <1>5, <1>6, <1>7, <1>8
     DEF UdpNext, Worker, Parse, ReceiveStep, OtherStep

\* What the sketch does to its packets is nothing to the worker, and stop() only
\* takes datagrams away.
LEMMA SketchLeavesReceiving ==
  ASSUME Parse \/ Read \/ Flush \/ OtherStep \/ UNCHANGED udpVars
  PROVE  UNCHANGED <<arrived, stack, wpc, rxBuf, sender, delivered>>
BY DEF Parse, ParseNone, ParseFront, ParseErase, Read, Flush, Consume, OtherStep, UdpBegin,
    BeginPacket, Write, EndPacket, udpVars, stackVars, workerVars

\* Datagrams are taken from the front, and come in at the end.
LEMMA StackStep == ASSUME UdpInv, [UdpNext]_udpVars PROVE StackInv'
<1>1. /\ arrived \in 0 .. MaxDatagrams /\ MaxDatagrams \in Nat
      /\ stack \in Seq(1 .. arrived) /\ Len(stack) \in Nat
      /\ delivered \in 0 .. arrived
  BY LengthNat, LenProperties DEF UdpInv, StackInv, RingInv
<1>2. \A j \in 1 .. Len(stack) : stack[j] \in 1 .. arrived
  BY <1>1, ElementOfSeq
<1>3. CASE Arrive
  <2>1. /\ arrived' = arrived + 1 /\ arrived < MaxDatagrams
        /\ stack' = Append(stack, arrived + 1)
        /\ UNCHANGED <<wpc, sender, delivered>>
    BY <1>3 DEF Arrive, workerVars
  <2>2. stack \in Seq(1 .. arrived + 1)
    <3>1. 1 .. arrived \subseteq 1 .. arrived + 1
      BY <1>1
    <3> QED
      BY <1>1, <3>1, SeqMonotonic
  <2>3. arrived + 1 \in 1 .. arrived + 1
    BY <1>1
  <2>4. /\ stack' \in Seq(1 .. arrived') /\ Len(stack') = Len(stack) + 1
        /\ \A j \in 1 .. Len(stack) : stack'[j] = stack[j]
        /\ stack'[Len(stack) + 1] = arrived + 1
    BY <2>1, <2>2, <2>3, AppendProperties
  <2>5. ASSUME NEW i \in 1 .. Len(stack'), NEW j \in 1 .. Len(stack'), i < j
        PROVE  stack'[i] < stack'[j]
    <3>1. CASE j = Len(stack) + 1
      BY <1>1, <1>2, <2>4, <2>5, <3>1
    <3>2. CASE j # Len(stack) + 1
      <4>1. i \in 1 .. Len(stack) /\ j \in 1 .. Len(stack)
        <5>1. Len(stack) \in Nat /\ Len(stack') = Len(stack) + 1
          BY <1>1, <2>4
        <5> QED
          BY <2>5, <3>2, <5>1
      <4> QED
        BY <2>4, <2>5, <4>1 DEF UdpInv, StackInv
    <3> QED
      BY <3>1, <3>2
  <2>6. ASSUME NEW j \in 1 .. Len(stack')
        PROVE  stack'[j] > delivered /\ (wpc = "got" => stack'[j] > sender)
    <3>1. CASE j = Len(stack) + 1
      <4>1. wpc = "got" => sender \in delivered + 1 .. arrived
        BY DEF UdpInv, RingInv
      <4> QED
        BY <1>1, <2>4, <3>1, <4>1
    <3>2. CASE j # Len(stack) + 1
      <4>1. j \in 1 .. Len(stack)
        BY <1>1, <2>4, <3>2
      <4> QED
        BY <2>4, <4>1 DEF UdpInv, StackInv
    <3> QED
      BY <3>1, <3>2
  <2>7. arrived' \in 0 .. MaxDatagrams
    BY <1>1, <2>1
  <2> QED
    BY <2>1, <2>4, <2>5, <2>6, <2>7 DEF StackInv
<1>4. CASE Receive
  <2>1. /\ stack # <<>> /\ stack' = Tail(stack) /\ sender' = Head(stack)
        /\ UNCHANGED <<arrived, delivered>>
    BY <1>4 DEF Receive
  <2>2. Len(stack) \in Nat \ {0}
    BY <1>1, <2>1, EmptySeq, Zenon
  <2>3. /\ stack' \in Seq(1 .. arrived) /\ Len(stack') = Len(stack) - 1
        /\ \A j \in 1 .. Len(stack') : stack'[j] = stack[j + 1]
    BY <1>1, <2>1, HeadTailProperties
  <2>4. sender' = stack[1]
    BY <2>1
  <2>5. \A j \in 1 .. Len(stack') : j + 1 \in 1 .. Len(stack) /\ 1 \in 1 .. Len(stack)
    BY <2>2, <2>3
  <2>6. \A j \in 1 .. Len(stack') : stack'[j] > delivered
    BY <2>3, <2>5 DEF UdpInv, StackInv
  <2>7. ASSUME NEW j \in 1 .. Len(stack')
        PROVE  stack'[j] > sender'
    <3>1. stack[1] < stack[j + 1]
      BY <2>2, <2>5 DEF UdpInv, StackInv
    <3> QED
      BY <1>2, <2>3, <2>4, <2>5, <3>1
  <2>8. \A i, j \in 1 .. Len(stack') : i < j => stack'[i] < stack'[j]
    <3> SUFFICES ASSUME NEW i \in 1 .. Len(stack'), NEW j \in 1 .. Len(stack'), i < j
                 PROVE  stack'[i] < stack'[j]
      OBVIOUS
    <3>1. stack[i + 1] < stack[j + 1]
      BY <2>2, <2>5 DEF UdpInv, StackInv
    <3> QED
      BY <2>3, <3>1
  <2> QED
    BY <1>1, <2>1, <2>3, <2>6, <2>7, <2>8 DEF StackInv
<1>5. CASE ReceiveFails
  <2>1. wpc' = "none" /\ UNCHANGED <<arrived, stack, delivered>>
    BY <1>5 DEF ReceiveFails
  <2> QED
    BY <2>1 DEF UdpInv, StackInv
<1>6. CASE Push
  <2>1. /\ UNCHANGED <<arrived, stack>> /\ wpc' = "idle"
        /\ delivered' = IF wpc = "got" THEN sender ELSE delivered
    BY <1>6 DEF Push, stackVars
  <2> QED
    BY <2>1 DEF UdpInv, StackInv
<1>7. CASE Stop
  <2>1. stack' = <<>> /\ UNCHANGED <<arrived, wpc, sender, delivered>>
    BY <1>7 DEF Stop, workerVars
  <2>2. stack' \in Seq(1 .. arrived) /\ Len(stack') = 0
    BY <2>1, EmptySeq
  <2> QED
    BY <1>1, <2>1, <2>2 DEF StackInv
<1>8. CASE UNCHANGED <<arrived, stack, wpc, rxBuf, sender, delivered>>
  BY <1>8 DEF UdpInv, StackInv
<1> QED
  BY <1>3, <1>4, <1>5, <1>6, <1>7, <1>8, SketchLeavesReceiving
     DEF UdpNext, Worker, OtherStep

\* The ring is filled only when it is empty.
LEMMA RingStep == ASSUME UdpInv, [UdpNext]_udpVars PROVE RingInv'
<1>1. /\ arrived \in 0 .. MaxDatagrams /\ MaxDatagrams \in Nat
      /\ stack \in Seq(1 .. arrived)
      /\ delivered \in 0 .. arrived
  BY LengthNat DEF UdpInv, StackInv, RingInv
<1>2. CASE Arrive
  <2>1. arrived' = arrived + 1 /\ UNCHANGED <<wpc, rxBuf, sender, delivered>>
    BY <1>2 DEF Arrive, workerVars
  <2>2. wpc' # "got" => rxBuf' = <<>>
    BY <2>1 DEF UdpInv, RingInv
  <2>3. wpc' = "none" => sender' \in 0 .. arrived'
    BY <1>1, <2>1 DEF UdpInv, RingInv
  <2>4. wpc' = "got" => sender' \in delivered' + 1 .. arrived'
    BY <1>1, <2>1 DEF UdpInv, RingInv
  <2>5. wpc' = "got" => rxBuf' = Bytes(sender', Min2(Length[sender'], RxBufferSize))
    BY <2>1 DEF UdpInv, RingInv
  <2>6. wpc' \in {"idle", "got", "none"} /\ delivered' \in 0 .. arrived'
    BY <1>1, <2>1 DEF UdpInv, RingInv
  <2> QED
    BY <2>2, <2>3, <2>4, <2>5, <2>6 DEF RingInv
<1>3. CASE Receive
  <2> DEFINE n == Min2(Length[Head(stack)], RxBufferSize - Len(rxBuf))
  <2>1. /\ wpc = "idle" /\ stack # <<>> /\ wpc' = "got" /\ sender' = Head(stack)
        /\ rxBuf' = rxBuf \o Bytes(Head(stack), n)
        /\ UNCHANGED <<arrived, delivered>>
    BY <1>3 DEF Receive
  <2>2. rxBuf = <<>> /\ Len(rxBuf) = 0
    BY <2>1, EmptySeq DEF UdpInv, RingInv
  <2>3. Len(stack) \in Nat \ {0} /\ Head(stack) \in 1 .. arrived /\ Head(stack) = stack[1]
    <3>1. Len(stack) \in Nat \ {0}
      BY <1>1, <2>1, EmptySeq, Zenon
    <3> QED
      BY <1>1, <2>1, <3>1, HeadTailProperties
  <2>4. Head(stack) > delivered
    BY <2>3 DEF UdpInv, StackInv
  <2>5. n = Min2(Length[Head(stack)], RxBufferSize)
    BY <2>2, LengthNat
  <2>6. n \in Nat
    BY <1>1, <2>3, <2>5, LengthNat DEF Min2
  <2>7. Bytes(Head(stack), n) \in Seq(Nat \X Nat)
    <3>1. Head(stack) \in Nat
      BY <1>1, <2>3
    <3> HIDE DEF n
    <3> QED
      BY <3>1, <2>6, BytesSeq
  <2>8. rxBuf' = Bytes(Head(stack), n)
    BY <2>1, <2>2, <2>7, ConcatEmptySeq
  <2> HIDE DEF n
  <2>9. sender' \in delivered' + 1 .. arrived'
    BY <1>1, <2>1, <2>3, <2>4
  <2> QED
    BY <1>1, <2>1, <2>5, <2>8, <2>9 DEF RingInv
<1>4. CASE ReceiveFails
  <2>1. /\ wpc = "idle" /\ wpc' = "none" /\ sender' \in 0 .. arrived
        /\ UNCHANGED <<arrived, rxBuf, delivered>>
    BY <1>4 DEF ReceiveFails
  <2> QED
    BY <2>1 DEF UdpInv, RingInv
<1>5. CASE Push
  <2>1. /\ wpc' = "idle" /\ rxBuf' = <<>> /\ arrived' = arrived
        /\ delivered' = IF wpc = "got" THEN sender ELSE delivered
    BY <1>5 DEF Push, stackVars
  <2>2. wpc = "got" => sender \in delivered + 1 .. arrived
    BY DEF UdpInv, RingInv
  <2>3. delivered' \in 0 .. arrived
    BY <1>1, <2>1, <2>2
  <2> QED
    BY <2>1, <2>3 DEF RingInv
<1>6. CASE Stop
  <2>1. UNCHANGED <<arrived, wpc, rxBuf, sender, delivered>>
    BY <1>6 DEF Stop, workerVars
  <2> QED
    BY <2>1 DEF UdpInv, RingInv
<1>7. CASE UNCHANGED <<arrived, stack, wpc, rxBuf, sender, delivered>>
  BY <1>7 DEF UdpInv, RingInv
<1> QED
  BY <1>2, <1>3, <1>4, <1>5, <1>6, <1>7, SketchLeavesReceiving
     DEF UdpNext, Worker, OtherStep

\* The invariant holds throughout.
LEMMA UdpInvariant == UdpSpec => []UdpInv
<1>1. UdpInv /\ [UdpNext]_udpVars => UdpInv'
  BY PacketStep, StackStep, RingStep DEF UdpInv
<1> QED
  BY <1>1, UdpInvInit, PTL DEF UdpSpec

-----------------------------------------------------------------------------
(* The datagram queue.                                                     *)

\* The packet that has been copied and not yet erased is not in the queue.
LEMMA PushDelivers == ASSUME UdpInv, Push PROVE Queue!Deliver \/ Queue!Fail
<1>1. PICK p \in Packets :
        /\ rxPackets' = Append(rxPackets, p)
        /\ \/ wpc = "got" /\ p = Queue!Packet(sender)
           \/ wpc = "none" /\ p = Queue!EmptyPacket(sender)
  BY PushAppends
<1> DEFINE q == IF spc = "erase" THEN Tail(rxPackets) ELSE rxPackets
<1>2. spc' = spc /\ current' = current
  BY DEF Push
<1>3. (IF spc' = "erase" THEN Tail(rxPackets') ELSE rxPackets') = Append(q, p)
  <2>1. CASE spc = "erase"
    <3>1. rxPackets \in Seq(Packets) /\ rxPackets # <<>>
      BY <2>1 DEF UdpInv, PacketInv
    <3>2. Tail(rxPackets') = Append(Tail(rxPackets), p)
      BY <1>1, <3>1, HeadTailAppend
    <3> QED
      BY <1>2, <2>1, <3>2
  <2>2. CASE spc # "erase"
    BY <1>1, <1>2, <2>2
  <2> QED
    BY <2>1, <2>2
<1>4. arrived \in Nat /\ arrived <= MaxDatagrams /\ MaxDatagrams \in Nat
  BY LengthNat DEF UdpInv, StackInv
<1>5. CASE wpc = "got"
  <2>1. sender \in delivered + 1 .. arrived /\ delivered \in 0 .. arrived
    BY <1>5 DEF UdpInv, RingInv
  <2>2. sender \in 1 .. MaxDatagrams /\ sender > delivered
    BY <1>4, <2>1
  <2>3. sender \in Queue!Datagrams
    BY <2>2, LengthNat DEF Queue!Datagrams
  <2>4. delivered' = sender /\ p = Queue!Packet(sender)
    BY <1>1, <1>5 DEF Push
  <2> QED
    BY <1>2, <1>3, <2>2, <2>3, <2>4 DEF Queue!Deliver
<1>6. CASE wpc = "none"
  <2>1. sender \in 0 .. arrived
    BY <1>6 DEF UdpInv, RingInv
  <2>2. sender = 0 \/ sender \in 1 .. MaxDatagrams
    BY <1>4, <2>1
  <2>3. sender \in Queue!Datagrams \union {0}
    BY <2>2, LengthNat DEF Queue!Datagrams
  <2>4. delivered' = delivered /\ p = Queue!EmptyPacket(sender)
    BY <1>1, <1>6 DEF Push
  <2> QED
    BY <1>2, <1>3, <2>3, <2>4 DEF Queue!Fail
<1> QED
  BY <1>1, <1>5, <1>6

\* A step of either thread is one of the queue, or none.
LEMMA QueueStep == ASSUME UdpInv, [UdpNext]_udpVars PROVE [Queue!Next]_Queue!vars
<1>1. CASE Push
  BY <1>1, PushDelivers DEF Queue!Next
<1>2. CASE ParseFront
  BY <1>2 DEF ParseFront, workerVars, Queue!Next, Queue!Parse
<1>3. CASE ParseErase
  BY <1>3 DEF ParseErase, workerVars, Queue!vars
<1>4. CASE ParseNone
  BY <1>4 DEF ParseNone, NoPacket, Bytes, workerVars, Queue!Next, Queue!ParseNone,
              Queue!NoPacket, Queue!EmptyPacket, Queue!Bytes
<1>5. CASE Read \/ Flush
  <2>1. current \in Packets
    BY DEF UdpInv, PacketInv
  <2>2. PICK n \in 0 .. Len(current.bytes) : Consume(n)
    BY <1>5, <2>1, ReadConsumes
  <2>3. Queue!Consume(n)
    BY <2>2 DEF Consume, workerVars, Queue!Consume
  <2> QED
    BY <2>3 DEF Queue!Next
<1>6. CASE UNCHANGED <<delivered, packetVars, spc>>
  BY <1>6 DEF packetVars, Queue!vars
<1>7. Stop \/ ReceiveStep \/ OtherStep \/ UNCHANGED udpVars
        => UNCHANGED <<delivered, packetVars, spc>>
  BY DEF Stop, ReceiveStep, Arrive, Receive, ReceiveFails, OtherStep, UdpBegin, BeginPacket,
      Write, EndPacket, udpVars, workerVars
<1> QED
  BY <1>1, <1>2, <1>3, <1>4, <1>5, <1>6, <1>7
     DEF UdpNext, Worker, Parse, ReceiveStep, OtherStep

\* WiFiUDP implements the queue of datagrams, whatever the datagrams, the sizes
\* of the two buffers and the order in which the two threads take their steps.
THEOREM UdpIsAQueue == UdpSpec => QueueSpec
<1>1. UdpInit => Queue!Init
  BY DEF UdpInit, NoPacket, Bytes, Queue!Init, Queue!NoPacket, Queue!EmptyPacket, Queue!Bytes
<1> QED
  BY <1>1, UdpInvariant, QueueStep, PTL DEF UdpSpec, QueueSpec, Queue!Spec
=============================================================================
