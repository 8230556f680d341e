------------------------------ MODULE WiFiClass -----------------------------
(***************************************************************************)
(* The WiFi singleton (libraries/WiFi/src/WiFi.cpp): its mode and status   *)
(* beside the state of the Wi-Fi connection manager (WCM) it drives, and   *)
(* scanNetworks(), whose results a callback collects in a thread of the    *)
(* WCM while the sketch waits.                                             *)
(*                                                                         *)
(* Every call of the WCM may fail.  A method that fails before it has      *)
(* changed anything but the last error is a stuttering step: error codes,  *)
(* addresses and credentials are left out.  WIFI_STATUS_STA_DISCONNECTED   *)
(* and WIFI_STATUS_AP_DISCONNECTED are the value of WIFI_STATUS_INITED.    *)
(***************************************************************************)
EXTENDS Integers, Sequences

CONSTANTS
  MaxResults,   \* CY_MAX_SCAN_RESULTS
  ScanTimeout,  \* scan_timeout_ms, in turns of the waiting loop
  MaxScans      \* bound: the scans that are started

ASSUME WiFiClassAssumption ==
  MaxResults \in Nat /\ ScanTimeout \in Nat /\ MaxScans \in Nat

VARIABLES
  mode,        \* _mode
  status,      \* _status
  wcm,         \* the interface the WCM is initialised for, or "none"
  link,        \* what the WCM has set up: "none", "sta", "lost", "ap"
  pc,          \* where the sketch is in a method
  uninited,    \* of scanNetworks()
  timer,       \* of scanNetworks()
  returned,    \* what scanNetworks() has returned
  scanStatus,  \* scan_results.status
  results,     \* scan_results.results, up to result_count: the scan that found it
  scan,        \* the scan the WCM runs, 0 when it runs none
  scans,       \* the scans started so far
  stray,       \* a cy_wcm_stop_scan has failed
  place,       \* of wcm_scan_cb(): where in the list it has copied a network,
  cb           \* ... and the status it has yet to store, "found" before the network
               \* is counted, "none" outside of it

modeVars == <<mode, status, wcm, link>>
callVars == <<uninited, timer, returned>>
resultVars == <<scanStatus, results>>
wcmVars == <<scan, scans, stray, place, cb>>
vars == <<modeVars, pc, callVars, resultVars, wcmVars>>

Init ==
  /\ mode = "UNKNOWN"
  /\ status = "UNINITED"
  /\ wcm = "none"
  /\ link = "none"
  /\ pc = "idle"
  /\ uninited = FALSE
  /\ timer = 0
  /\ returned = 0
  /\ scanStatus = "INCOMPLETE"
  /\ results = <<>>
  /\ scan = 0
  /\ scans = 0
  /\ stray = FALSE
  /\ place = 0
  /\ cb = "none"

-----------------------------------------------------------------------------
(* Connections.                                                            *)

\* Mutant of WcmInit: the mode is set even when nothing is initialised.
WcmInit_Always(m) ==
  /\ mode' = m
  /\ \/ /\ status = "UNINITED"
        /\ status' = "INITED"
        /\ wcm' = m
     \/ /\ status # "UNINITED"
        /\ UNCHANGED <<status, wcm>>

\* wcm_init(), when it does not fail.
WcmInit(m) ==
  \/ /\ status = "UNINITED"
     /\ mode' = m
     /\ status' = "INITED"
     /\ wcm' = m
  \/ /\ status # "UNINITED"
     /\ UNCHANGED <<mode, status, wcm>>

\* begin(): a status other than the one that begins to connect is returned.
Begin ==
  /\ pc = "idle"
  /\ WcmInit("STA")
  /\ pc' = IF mode' = "STA" /\ status' = "INITED" THEN "connect" ELSE "idle"
  /\ UNCHANGED <<link, callVars, resultVars, wcmVars>>

\* Its loop over cy_wcm_connect_ap, which ends with the time-out at last.
Connect ==
  /\ pc = "connect"
  /\ \/ /\ wcm \in {"STA", "AP_STA"}
        /\ link' = "sta"
        /\ status' = "STA_CONNECTED"
     \/ UNCHANGED <<link, status>>
  /\ pc' = "idle"
  /\ UNCHANGED <<mode, wcm, callVars, resultVars, wcmVars>>

\* beginAP()
BeginAP ==
  /\ pc = "idle"
  /\ WcmInit("AP")
  /\ pc' = IF mode' = "AP" /\ status' = "INITED" THEN "start" ELSE "idle"
  /\ UNCHANGED <<link, callVars, resultVars, wcmVars>>

\* Its cy_wcm_start_ap.
StartAP ==
  /\ pc = "start"
  /\ \/ /\ wcm \in {"AP", "AP_STA"}
        /\ link' = "ap"
        /\ status' = "AP_CONNECTED"
     \/ UNCHANGED <<link, status>>
  /\ pc' = "idle"
  /\ UNCHANGED <<mode, wcm, callVars, resultVars, wcmVars>>

\* disconnect()
Disconnect ==
  /\ pc = "idle"
  /\ \/ mode = "STA" /\ status = "STA_CONNECTED"
     \/ mode = "AP" /\ status = "AP_CONNECTED"
  /\ link' = "none"
  /\ status' = "INITED"
  /\ UNCHANGED <<mode, wcm, pc, callVars, resultVars, wcmVars>>

\* A scan is only over when no callback of it is between its copy of a network
\* and its count.
CallbackHasCounted == cb # "found"

\* cy_wcm_deinit, when it does not fail, and what end() makes of it.
Deinit ==
  /\ CallbackHasCounted
  /\ status' = "UNINITED"
  /\ wcm' = "none"
  /\ link' = "none"
  /\ scan' = 0

\* end()
End ==
  /\ pc = "idle"
  /\ Deinit
  /\ UNCHANGED <<mode, pc, callVars, resultVars, scans, stray, place, cb>>

\* The access point goes out of reach, or comes back.
LinkChanges ==
  /\ \/ link = "sta" /\ link' = "lost"
     \/ link = "lost" /\ link' = "sta"
  /\ UNCHANGED <<mode, status, wcm, pc, callVars, resultVars, wcmVars>>

-----------------------------------------------------------------------------
(* scanNetworks()                                                          *)

\* The WCM is initialised if need be.
ScanBegin ==
  /\ pc = "idle"
  /\ uninited' = (status = "UNINITED")
  /\ \/ /\ WcmInit("AP_STA")
        /\ pc' = "reset"
        /\ UNCHANGED returned
     \/ /\ status = "UNINITED"   \* cy_wcm_init fails
        /\ returned' = 0
        /\ UNCHANGED <<mode, status, wcm, pc>>
  /\ UNCHANGED <<link, timer, resultVars, wcmVars>>

\* Mutant of ScanReset: the count is not reset.
ScanReset_KeepCount ==
  /\ pc = "reset"
  /\ scanStatus' = "INCOMPLETE"
  /\ pc' = "startScan"
  /\ UNCHANGED <<modeVars, results, callVars, wcmVars>>

ScanReset ==
  /\ pc = "reset"
  /\ scanStatus' = "INCOMPLETE"
  /\ results' = <<>>
  /\ pc' = "startScan"
  /\ UNCHANGED <<modeVars, callVars, wcmVars>>

\* cy_wcm_start_scan, which fails while another scan runs; scanNetworks() then
\* returns at once.
ScanStart ==
  /\ pc = "startScan"
  /\ timer' = 0
  /\ \/ /\ scan = 0 /\ scans < MaxScans
        /\ scans' = scans + 1
        /\ scan' = scans'
        /\ pc' = "wait"
        /\ UNCHANGED returned
     \/ /\ returned' = 0
        /\ pc' = "idle"
        /\ UNCHANGED <<scan, scans>>
  /\ UNCHANGED <<modeVars, uninited, resultVars, stray, place, cb>>

\* Mutant of ScanWait: there is no time-out.
ScanWait_Forever ==
  /\ pc = "wait"
  /\ scanStatus = "INCOMPLETE"
  /\ timer' = IF timer < ScanTimeout THEN timer + 1 ELSE 0
  /\ UNCHANGED <<modeVars, pc, uninited, returned, resultVars, wcmVars>>

\* A turn of the waiting loop.
ScanWait ==
  /\ pc = "wait"
  /\ scanStatus = "INCOMPLETE" /\ timer < ScanTimeout
  /\ timer' = timer + 1
  /\ UNCHANGED <<modeVars, pc, uninited, returned, resultVars, wcmVars>>

\* cy_wcm_stop_scan; when it fails, scanNetworks() returns at once.
ScanStop ==
  /\ pc = "wait"
  /\ scanStatus # "INCOMPLETE" \/ timer >= ScanTimeout
  /\ \/ /\ CallbackHasCounted
        /\ scan' = 0
        /\ pc' = "return"
        /\ UNCHANGED <<returned, stray>>
     \/ /\ returned' = 0
        /\ stray' = TRUE
        /\ pc' = "idle"
        /\ UNCHANGED scan
  /\ UNCHANGED <<modeVars, uninited, timer, resultVars, scans, place, cb>>

\* If scanNetworks() has initialised the WCM it calls end(), which may fail;
\* then it returns result_count.
ScanReturn ==
  /\ pc = "return"
  /\ \/ uninited /\ Deinit
     \/ UNCHANGED <<status, wcm, link, scan>>
  /\ returned' = Len(results)
  /\ pc' = "idle"
  /\ UNCHANGED <<mode, uninited, timer, resultVars, scans, stray, place, cb>>

-----------------------------------------------------------------------------
(* wcm_scan_cb(), in a thread of the WCM, for each network found and for   *)
(* the end of the scan.  The sketch may stand anywhere between two steps.  *)

\* Up to the copy of the network into the list, or of nothing at the end.
ScanCallback ==
  /\ scan # 0 /\ cb = "none"
  /\ \E st \in {"INCOMPLETE", "COMPLETE"} :
       /\ \/ /\ Len(results) >= MaxResults
             /\ scanStatus' = "COMPLETE"
             /\ UNCHANGED <<place, cb>>
          \/ /\ Len(results) < MaxResults
             /\ place' = IF st = "INCOMPLETE" THEN Len(results) + 1 ELSE place
             /\ cb' = IF st = "INCOMPLETE" THEN "found" ELSE st
             /\ UNCHANGED scanStatus
       /\ scan' = IF st = "COMPLETE" THEN 0 ELSE scan
  /\ UNCHANGED <<modeVars, pc, callVars, results, scans, stray>>

\* result_count goes up: the list ends with the network that was copied, unless
\* it was reset since, when it is one of an earlier result that it shows.
ScanCount ==
  /\ cb = "found"
  /\ \E found \in 1 .. scan :
       /\ place = Len(results) + 1 => found = scan
       /\ results' = Append(results, found)
  /\ cb' = "INCOMPLETE"
  /\ UNCHANGED <<modeVars, pc, callVars, scanStatus, scan, scans, stray, place>>

\* Its last assignment.
ScanCallbackStatus ==
  /\ cb \in {"INCOMPLETE", "COMPLETE"}
  /\ scanStatus' = cb
  /\ cb' = "none"
  /\ UNCHANGED <<modeVars, pc, callVars, results, scan, scans, stray, place>>

-----------------------------------------------------------------------------

ScanStep ==
  \/ ScanReset
  \/ ScanStart
  \/ ScanWait
  \/ ScanStop
  \/ ScanReturn

Next ==
  \/ Begin
  \/ Connect
  \/ BeginAP
  \/ StartAP
  \/ Disconnect
  \/ End
  \/ LinkChanges
  \/ ScanBegin
  \/ ScanStep
  \/ ScanCallback
  \/ ScanCount
  \/ ScanCallbackStatus

Spec == Init /\ [][Next]_vars

\* The sketch's thread is scheduled; the WCM may never answer.
FairSpec == Spec /\ WF_vars(ScanStep)

-----------------------------------------------------------------------------
(* Properties.                                                             *)

Interfaces == {"STA", "AP", "AP_STA"}

ControlTypeOK ==
  /\ mode \in Interfaces \cup {"UNKNOWN"}
  /\ status \in {"UNINITED", "INITED", "STA_CONNECTED", "AP_CONNECTED"}
  /\ wcm \in Interfaces \cup {"none"}
  /\ link \in {"none", "sta", "lost", "ap"}
  /\ pc \in {"idle", "connect", "start", "reset", "startScan", "wait", "return"}
  /\ uninited \in BOOLEAN /\ stray \in BOOLEAN
  /\ scanStatus \in {"INCOMPLETE", "COMPLETE"}
  /\ cb \in {"none", "found", "INCOMPLETE", "COMPLETE"}

NumbersTypeOK ==
  /\ timer \in 0 .. ScanTimeout
  /\ returned \in 0 .. MaxResults
  /\ scan \in 0 .. scans /\ scans \in 0 .. MaxScans
  /\ place \in 0 .. MaxResults

ListTypeOK ==
  /\ results \in Seq(1 .. scans) /\ Len(results) <= MaxResults
  /\ cb = "found" => Len(results) < place

\* The type invariant: the array of results is not written past its end.
TypeOK == ControlTypeOK /\ NumbersTypeOK /\ ListTypeOK

\* Through every sequence of calls, and whichever of them fail, the driver's
\* mode and status agree with the connection manager: it is initialised for
\* the mode the driver remembers, and has set up what the status says.  (A
\* connection that is lost keeps its status: nothing tells the driver.)
Agreement ==
  /\ status = "UNINITED" <=> wcm = "none"
  /\ status # "UNINITED" => wcm = mode
  /\ status = "STA_CONNECTED" <=> link \in {"sta", "lost"}
  /\ status = "AP_CONNECTED" <=> link = "ap"
  /\ link \in {"sta", "lost"} => mode = "STA"
  /\ link = "ap" => mode = "AP"

\* The networks in the list were all found by the last scan, although the
\* callback runs beside the sketch, unless a scan could not be stopped; and the list
\* is never written past its end.
ResultsAreOfLastScan ==
  /\ Len(results) <= MaxResults
  /\ ~stray => \A k \in 1 .. Len(results) : results[k] = scans

\* Every network the sketch has been told of is in the list until it scans
\* again, also while a callback still adds to it.
ReturnedAreThere == pc = "idle" => returned <= Len(results)

\* A scan returns, whether or not the connection manager ever answers.
ScanReturns == pc \in {"reset", "startScan", "wait", "return"} ~> pc = "idle"

=============================================================================
