------------------------- MODULE BleCentral_proofs --------------------------
(***************************************************************************)
(* Proofs about the BLE central, for every set of peers, every capacity of *)
(* the result list, and whatever may fail or be entered at the shell.      *)
(*                                                                         *)
(* FlagsFollowLink is inductive together with the types, HandlesCurrent   *)
(* and what the chain of discoveries has found so far (FoundSoFar): at its *)
(* last stage the aircraft handle is known, so that its end leaves both.   *)
(* HandlesCurrent rests on the reset of both handles at either end of a    *)
(* connection.                                                             *)
(***************************************************************************)
EXTENDS BleCentral, FiniteSetTheorems, TLAPS

FoundSoFar == op \in {"warn_svc", "warn_chr"} => g_aircraft_handle = g_conn

BleInv ==
  /\ TypeOK /\ IsFiniteSet(g_scan_results)
  /\ FlagsFollowLink /\ HandlesCurrent /\ FoundSoFar

LEMMA NoWriteTyped ==
  NoWrite \in [conn : 0 .. 2, handle : 0 .. 2, done : BOOLEAN]
  BY DEF NoWrite

LEMMA InitBleInv == Init => BleInv
<1> SUFFICES ASSUME Init PROVE BleInv
  OBVIOUS
<1>1. IsFiniteSet(g_scan_results) /\ Cardinality(g_scan_results) = 0
  BY FS_EmptySet DEF Init
<1>2. Cardinality(g_scan_results) <= SCAN_MAX_RESULTS
  BY <1>1, BleAssumption
<1>3. g_conn \in 0 .. 2 /\ last \in 1 .. 2 /\ g_aircraft_handle \in 0 .. 2 /\ g_warn_handle \in 0 .. 2
  BY DEF Init
<1>4. radio \in BOOLEAN /\ g_scanning \in BOOLEAN
  BY DEF Init
<1>5. TypeOK
  BY <1>2, <1>3, <1>4, NoWriteTyped DEF Init, TypeOK, Thread, Label
<1>6. FlagsFollowLink /\ HandlesCurrent /\ FoundSoFar
  BY DEF Init, FlagsFollowLink, HandlesCurrent, FoundSoFar
<1>7. QED
  BY <1>1, <1>5, <1>6 DEF BleInv

\* The list of results stays within its capacity.
LEMMA ListKeeps ==
  ASSUME BleInv, NEW a \in Peer, ListResult(a)
  PROVE  /\ IsFiniteSet(g_scan_results') /\ g_scan_results' \subseteq Peer
         /\ Cardinality(g_scan_results') <= SCAN_MAX_RESULTS
<1>1. CASE Cardinality(g_scan_results) < SCAN_MAX_RESULTS
  <2>1. g_scan_results' = g_scan_results \cup {a}
    BY <1>1 DEF ListResult
  <2>2. /\ IsFiniteSet(g_scan_results)
        /\ Cardinality(g_scan_results) \in Nat
    BY FS_CardinalityType DEF BleInv
  <2>3. /\ IsFiniteSet(g_scan_results \cup {a})
        /\ Cardinality(g_scan_results \cup {a})
             = IF a \in g_scan_results THEN Cardinality(g_scan_results)
               ELSE Cardinality(g_scan_results) + 1
    BY <2>2, FS_AddElement
  <2>4. QED
    BY <1>1, <2>1, <2>2, <2>3, BleAssumption DEF BleInv, TypeOK
<1>2. CASE ~(Cardinality(g_scan_results) < SCAN_MAX_RESULTS)
  BY <1>2 DEF ListResult, BleInv, TypeOK
<1>3. QED
  BY <1>1, <1>2

LEMMA ScanStartTyped ==
  ASSUME radio \in BOOLEAN, NEW up \in BOOLEAN, NEW on \in BOOLEAN, ScanStart(up, on)
  PROVE  radio' \in BOOLEAN /\ g_scanning' \in BOOLEAN
  BY DEF ScanStart

\* A step of a thread or a callback that leaves the connection, its discovery and its
\* handles alone.
LEMMA QuietStep ==
  ASSUME BleInv, TypeOK',
         UNCHANGED <<link, op, g_conn, g_connecting, g_connected, handles, g_scan_results>>
  PROVE  BleInv'
  BY DEF BleInv, FlagsFollowLink, HandlesCurrent, FoundSoFar, handles

LEMMA DeviceFoundKeeps == ASSUME BleInv, NEW a \in Peer, DeviceFound(a) PROVE BleInv'
<1> USE DEF DeviceFound, handles
<1>1. /\ IsFiniteSet(g_scan_results') /\ g_scan_results' \subseteq Peer
      /\ Cardinality(g_scan_results') <= SCAN_MAX_RESULTS
  BY ListKeeps
<1>2. /\ radio' \in BOOLEAN /\ g_scanning' \in BOOLEAN
      /\ link' \in {"none", "initiating", "up"} /\ g_connecting' \in BOOLEAN
  BY DEF BleInv, TypeOK
<1>3. TypeOK'
  BY <1>1, <1>2, NoWriteTyped DEF BleInv, TypeOK
<1>4. FlagsFollowLink'
  <2>1. \/ link' = "initiating" /\ g_connecting' = TRUE
        \/ UNCHANGED <<link, g_connecting>>
    OBVIOUS
  <2>2. ~g_connected /\ link # "up" /\ UNCHANGED <<g_connected, g_conn>>
    BY DEF BleInv, FlagsFollowLink
  <2>3. QED
    BY <2>1, <2>2 DEF BleInv, FlagsFollowLink
<1>5. HandlesCurrent' /\ FoundSoFar'
  BY DEF BleInv, HandlesCurrent, FoundSoFar
<1>6. QED
  BY <1>1, <1>3, <1>4, <1>5 DEF BleInv

LEMMA ConnectedKeeps == ASSUME BleInv, Connected PROVE BleInv'
<1> USE DEF Connected, BleInv
<1>1. last' \in 1 .. 2 /\ g_conn' \in 0 .. 2 /\ g_conn' # 0 /\ 0 \in 0 .. 2
  BY DEF TypeOK
<1>2. TypeOK'
  BY <1>1, NoWriteTyped DEF TypeOK, Stage
<1>3. FlagsFollowLink'
  BY <1>1 DEF FlagsFollowLink
<1>4. HandlesCurrent' /\ FoundSoFar'
  BY DEF HandlesCurrent, FoundSoFar
<1>5. QED
  BY <1>2, <1>3, <1>4

LEMMA ConnectFailedKeeps == ASSUME BleInv, ConnectFailed PROVE BleInv'
<1> USE DEF ConnectFailed, BleInv, handles
<1>1. radio' \in BOOLEAN /\ g_scanning' \in BOOLEAN
  BY ScanStartTyped DEF TypeOK
<1>2. TypeOK'
  BY <1>1, NoWriteTyped DEF TypeOK
<1>3. FlagsFollowLink' /\ HandlesCurrent' /\ FoundSoFar'
  BY DEF FlagsFollowLink, HandlesCurrent, FoundSoFar
<1>4. QED
  BY <1>2, <1>3

LEMMA DisconnectedKeeps == ASSUME BleInv, Disconnected PROVE BleInv'
<1> USE DEF Disconnected, BleInv
<1>1. radio' \in BOOLEAN /\ g_scanning' \in BOOLEAN
  BY ScanStartTyped DEF TypeOK
<1>2. 0 \in 0 .. 2
  OBVIOUS
<1>3. TypeOK'
  BY <1>1, <1>2, NoWriteTyped DEF TypeOK
<1>4. FlagsFollowLink' /\ HandlesCurrent' /\ FoundSoFar'
  BY DEF FlagsFollowLink, HandlesCurrent, FoundSoFar
<1>5. QED
  BY <1>3, <1>4

LEMMA DiscoveryKeeps == ASSUME BleInv, ProcedureDone \/ DiscoveryStops PROVE BleInv'
<1> USE DEF BleInv, handles, flags
<1>1. CASE ProcedureDone
  <2>1. op' \in Stage \cup {"none", "failed"}
    BY <1>1 DEF ProcedureDone, Stage, After
  <2>2. TypeOK'
    BY <1>1, <2>1, NoWriteTyped DEF ProcedureDone, TypeOK
  <2>3. /\ op' = "none" => op = "warn_chr"
        /\ op' \in {"warn_svc", "warn_chr"} => op \in {"chr", "warn_svc"}
    BY <1>1 DEF ProcedureDone, Stage, After
  <2>4. FlagsFollowLink' /\ HandlesCurrent' /\ FoundSoFar'
    BY <1>1, <2>3 DEF ProcedureDone, FlagsFollowLink, HandlesCurrent, FoundSoFar
  <2>5. QED
    BY <1>1, <2>2, <2>4 DEF ProcedureDone
<1>2. CASE DiscoveryStops
  <2>1. TypeOK'
    BY <1>2, NoWriteTyped DEF DiscoveryStops, TypeOK
  <2>2. QED
    BY <1>2, <2>1 DEF DiscoveryStops, FlagsFollowLink, HandlesCurrent, FoundSoFar
<1>3. QED
  BY <1>1, <1>2

\* The steps of the watchdog and of the shell: scanning, hanging up and sending.
LEMMA ThreadsKeep ==
  ASSUME BleInv,
         \/ WatchdogWakes \/ ShellScanStart \/ ShellScanStop \/ ShellDisconnect \/ ShellSend
         \/ StopScanning \/ ClearScanning \/ HangUp \/ SendHandle \/ SendConn \/ SendWrite
         \/ \E t \in Thread : StartScanning(t) \/ SetScanning(t)
  PROVE  BleInv'
<1> USE DEF WatchdogWakes, ShellScanStart, ShellScanStop, ShellDisconnect, ShellSend,
            StopScanning, ClearScanning, HangUp, SendHandle, SendConn, SendWrite, StartScanning,
            SetScanning, Step, flags, handles
<1>1. UNCHANGED <<link, op, g_conn, g_connecting, g_connected, handles, g_scan_results,
                  recent, last>>
  OBVIOUS
<1>2. radio' \in BOOLEAN /\ g_scanning' \in BOOLEAN
  BY DEF BleInv, TypeOK
<1>3. pc' \in [Thread -> Label]
  <2>1. \E t \in Thread, to \in Label : pc' = [pc EXCEPT ![t] = to]
    BY DEF Thread, Label
  <2>2. QED
    BY <2>1 DEF BleInv, TypeOK
<1>4. /\ held' \in [conn : 0 .. 2, handle : 0 .. 2]
      /\ written' \in [conn : 0 .. 2, handle : 0 .. 2, done : BOOLEAN]
  <2>1. held \in [conn : 0 .. 2, handle : 0 .. 2] /\ g_conn \in 0 .. 2 /\ g_warn_handle \in 0 .. 2
    BY DEF BleInv, TypeOK
  <2>2. CASE SendWrite
    BY <2>1, <2>2 DEF Write
  <2>3. CASE ~SendWrite
    <3>1. written' = NoWrite
      BY <2>3
    <3>2. QED
      BY <2>1, <3>1, NoWriteTyped
  <2>4. QED
    BY <2>2, <2>3
<1>5. TypeOK'
  BY <1>1, <1>2, <1>3, <1>4 DEF BleInv, TypeOK
<1>6. QED
  BY <1>1, <1>5, QuietStep

LEMMA QuietKeeps == ASSUME BleInv, Quiet PROVE BleInv'
<1>1. TypeOK'
  BY NoWriteTyped DEF BleInv, TypeOK, Quiet, flags, handles
<1>2. QED
  BY <1>1, QuietStep DEF Quiet, flags, handles

LEMMA WorkqueueKeeps == ASSUME BleInv, WorkqueueSend PROVE BleInv'
<1>1. UNCHANGED <<radio, link, op, g_conn, flags, handles, g_scan_results, recent, last, pc,
                  held>>
  BY DEF WorkqueueSend
<1>2. written' \in [conn : 0 .. 2, handle : 0 .. 2, done : BOOLEAN]
  BY DEF WorkqueueSend, Write, BleInv, TypeOK
<1>3. TypeOK'
  BY <1>1, <1>2 DEF BleInv, TypeOK, flags, handles
<1>4. QED
  BY <1>1, <1>3, QuietStep DEF flags

LEMMA StepKeeps == ASSUME BleInv, [Next]_vars PROVE BleInv'
<1>1. CASE UNCHANGED vars
  BY <1>1 DEF vars, flags, handles, BleInv, TypeOK, FlagsFollowLink, HandlesCurrent, FoundSoFar
<1>2. CASE Callbacks
  BY <1>2, DeviceFoundKeeps, ConnectedKeeps, ConnectFailedKeeps, DisconnectedKeeps,
     DiscoveryKeeps DEF Callbacks
<1>3. CASE Watchdog \/ ShellSteps \/ ShellCommands
  BY <1>3, ThreadsKeep DEF Watchdog, ShellSteps, ShellCommands, Thread
<1>4. QED
  BY <1>1, <1>2, <1>3, WorkqueueKeeps, QuietKeeps DEF Next

THEOREM Invariance == Spec => []BleInv
  BY InitBleInv, StepKeeps, PTL DEF Spec

\* ble_central.c: every flag, pointer and handle keeps its type, and device_found never lists
\* more than SCAN_MAX_RESULTS addresses.
THEOREM TypeCorrect == Spec => []TypeOK
<1>1. BleInv => TypeOK
  BY DEF BleInv
<1>2. QED
  BY <1>1, Invariance, PTL

\* connected_cb, disconnected_cb, do_connect and discover_cb: g_connected, g_connecting and
\* g_conn name the link there is, discovery runs on a live link only, and a chain of
\* discoveries that ended without failing found both characteristics, at every interleaving
\* with watchdog and shell.
THEOREM FlagsTrue == Spec => []FlagsFollowLink
<1>1. BleInv => FlagsFollowLink
  BY DEF BleInv
<1>2. QED
  BY <1>1, Invariance, PTL

\* discover_cb: a handle that is known was found on the current connection.
THEOREM HandlesFresh == Spec => []HandlesCurrent
<1>1. BleInv => HandlesCurrent
  BY DEF BleInv
<1>2. QED
  BY <1>1, Invariance, PTL
=============================================================================
