----------------------------- MODULE BleCentral -----------------------------
(***************************************************************************)
(* The BLE central (controller/src/ble): scanning for the sim, connecting, *)
(* the four-stage discovery, reconnection and its watchdog, and the write  *)
(* path of the warning frames.                                             *)
(*                                                                         *)
(* The Bluetooth callbacks run in one cooperative thread and are single    *)
(* steps.  The watchdog and the shell have lower priorities: they may be   *)
(* preempted between any two statements, so each holds a program counter.  *)
(* `radio`, `link` and `op` are the state of the Bluetooth stack below.    *)
(* Connections are numbered 1 and 2 in turn, so that what belongs to an    *)
(* earlier one can be told apart; 0 is NULL, or a handle not yet known.    *)
(***************************************************************************)
EXTENDS Integers, FiniteSets

CONSTANTS
  Peer,              \* addresses advertising the sim's name
  SCAN_MAX_RESULTS,
  Fails,             \* the stack's calls that may fail in this instance
  Shell              \* the commands the operator may enter in this instance

ASSUME BleAssumption ==
  /\ SCAN_MAX_RESULTS \in Nat
  /\ Fails \subseteq {"scan", "connect", "discover"}
  /\ Shell \subseteq {"scan", "disconnect", "send"}

VARIABLES
  radio,             \* is the stack scanning?
  link,              \* "none", "initiating" or "up"
  op,                \* the GATT procedure in progress; "none" after the last one,
                     \* "failed" after one that ended the chain early
  g_conn, g_scanning, g_connecting, g_connected,
  g_aircraft_handle, g_warn_handle,
  g_scan_results,
  recent,            \* is g_last_attempt_ms less than RECONNECT_RETRY_MS ago?
  last,              \* the number of the latest connection
  pc,                \* where the watchdog and the shell are
  held,              \* the connection and the handle the shell's send has loaded
  written            \* the connection and handle of this step's GATT write

flags   == <<g_scanning, g_connecting, g_connected>>
handles == <<g_aircraft_handle, g_warn_handle>>
vars == <<radio, link, op, g_conn, flags, handles, g_scan_results, recent, last, pc,
          held, written>>

Thread == {"wd", "shell"}
Label == {"idle", "start", "flag", "stop", "unflag", "hangup", "handle", "conn", "write"}
NoWrite == [conn |-> 0, handle |-> 0, done |-> FALSE]

\* bt_gatt_write_without_response
Write(conn, handle) == written' = [conn |-> conn, handle |-> handle, done |-> TRUE]

\* The procedures of a new connection, in their order.
Stage == {"mtu", "svc", "chr", "warn_svc", "warn_chr"}
After == [mtu |-> "svc", svc |-> "chr", chr |-> "warn_svc", warn_svc |-> "warn_chr",
          warn_chr |-> "none"]

\* Every flag, pointer and handle of the central has its type (ble_central.c:43-75).
TypeOK ==
  /\ radio \in BOOLEAN /\ link \in {"none", "initiating", "up"}
  /\ op \in Stage \cup {"none", "failed"}
  /\ g_conn \in 0 .. 2 /\ last \in 1 .. 2
  /\ g_scanning \in BOOLEAN /\ g_connecting \in BOOLEAN /\ g_connected \in BOOLEAN
  /\ g_aircraft_handle \in 0 .. 2 /\ g_warn_handle \in 0 .. 2
  /\ g_scan_results \subseteq Peer
  /\ Cardinality(g_scan_results) <= SCAN_MAX_RESULTS
  /\ recent \in BOOLEAN
  /\ pc \in [Thread -> Label]
  /\ held \in [conn : 0 .. 2, handle : 0 .. 2]
  /\ written \in [conn : 0 .. 2, handle : 0 .. 2, done : BOOLEAN]

\* ble_central_init; a scan that fails to start is left to the watchdog.
Init ==
  /\ radio \in IF "scan" \in Fails THEN BOOLEAN ELSE {TRUE}
  /\ g_scanning = radio
  /\ link = "none" /\ op = "none" /\ last = 2
  /\ g_conn = 0 /\ g_connecting = FALSE /\ g_connected = FALSE
  /\ g_aircraft_handle = 0 /\ g_warn_handle = 0
  /\ g_scan_results = {} /\ recent = FALSE
  /\ pc = [t \in Thread |-> "idle"] /\ held = [conn |-> 0, handle |-> 0]
  /\ written = NoWrite

-----------------------------------------------------------------------------
(* ble_central_scan_start from a Bluetooth callback, in one step *)

\* up tells whether g_connected holds at the call, on whether g_scanning does.
ScanStart(up, on) ==
  IF up \/ on THEN g_scanning' = on /\ UNCHANGED radio
  ELSE \/ radio' = TRUE /\ g_scanning' = TRUE
       \/ "scan" \in Fails /\ ~radio /\ UNCHANGED radio /\ g_scanning' = FALSE

-----------------------------------------------------------------------------
(* The Bluetooth callbacks *)

\* device_found: the address is listed, once and while there is room.
ListResult(a) ==
  g_scan_results' = IF Cardinality(g_scan_results) < SCAN_MAX_RESULTS
                    THEN g_scan_results \cup {a} ELSE g_scan_results

\* device_found and do_connect.  The stack refuses to initiate while it scans.
DeviceFound(a) ==
  /\ radio /\ ~g_connected /\ ~g_connecting
  /\ ListResult(a)
  /\ recent' = TRUE
  /\ \/ /\ g_scanning                         \* the scan is stopped and the
        /\ radio' = FALSE /\ g_scanning' = FALSE  \* connection initiated
        /\ link' = "initiating" /\ g_connecting' = TRUE
     \/ /\ g_scanning => {"scan", "connect"} \cap Fails # {}  \* bt_le_scan_stop or
        /\ \/ radio' = TRUE /\ g_scanning' = TRUE  \* bt_conn_le_create fails: scan again
           \/ /\ g_scanning /\ {"scan", "connect"} \subseteq Fails
              /\ radio' = FALSE /\ g_scanning' = FALSE
        /\ UNCHANGED <<link, g_connecting>>
  /\ written' = NoWrite
  /\ UNCHANGED <<op, g_conn, g_connected, handles, last, pc, held>>

SlipConnected ==
  /\ link = "initiating"
  /\ link' = "up" /\ last' = 3 - last /\ op' = "mtu"
  /\ g_conn' = 3 - last /\ g_connected' = TRUE
  /\ g_aircraft_handle' = 0 /\ g_warn_handle' = 0
  /\ written' = NoWrite
  /\ UNCHANGED <<radio, g_scanning, g_connecting, g_scan_results, recent, pc, held>>

\* connected_cb without error; the MTU exchange is the first procedure, and when
\* it cannot be requested discovery starts at once.
Connected ==
  /\ link = "initiating"
  /\ link' = "up" /\ last' = 3 - last
  /\ g_conn' = 3 - last /\ g_connected' = TRUE /\ g_connecting' = FALSE
  /\ g_aircraft_handle' = 0 /\ g_warn_handle' = 0
  /\ op' \in {"mtu", "svc"}
  /\ written' = NoWrite
  /\ UNCHANGED <<radio, g_scanning, g_scan_results, recent, pc, held>>

\* connected_cb with an error: back to scanning.
ConnectFailed ==
  /\ "connect" \in Fails
  /\ link = "initiating"
  /\ link' = "none" /\ g_connecting' = FALSE
  /\ ScanStart(g_connected, g_scanning)
  /\ written' = NoWrite
  /\ UNCHANGED <<op, g_conn, g_connected, handles, g_scan_results, recent, last, pc, held>>

SlipDisconnected ==
  /\ link = "up"
  /\ link' = "none" /\ op' = "none"
  /\ g_conn' = 0 /\ g_connected' = FALSE
  /\ ScanStart(FALSE, g_scanning)
  /\ written' = NoWrite
  /\ UNCHANGED <<g_connecting, handles, g_scan_results, recent, last, pc, held>>

\* disconnected_cb; the stack drops the procedure in progress.
Disconnected ==
  /\ link = "up"
  /\ link' = "none" /\ op' = "none"
  /\ g_conn' = 0 /\ g_connected' = FALSE
  /\ g_aircraft_handle' = 0 /\ g_warn_handle' = 0
  /\ ScanStart(FALSE, g_scanning)
  /\ written' = NoWrite
  /\ UNCHANGED <<g_connecting, g_scan_results, recent, last, pc, held>>

SlipProcedureDone ==
  /\ link = "up" /\ op \in Stage
  /\ op' = IF op = "warn_svc" THEN "none" ELSE After[op]
  /\ g_aircraft_handle' = IF op = "chr" THEN g_conn ELSE g_aircraft_handle
  /\ g_warn_handle' = IF op = "warn_chr" THEN g_conn ELSE g_warn_handle
  /\ written' = NoWrite
  /\ UNCHANGED <<radio, link, g_conn, flags, g_scan_results, recent, last, pc, held>>

\* mtu_exchange_cb and discover_cb with an attribute: the next stage begins.
ProcedureDone ==
  /\ link = "up" /\ op \in Stage
  /\ op' = After[op]
  /\ g_aircraft_handle' = IF op = "chr" THEN g_conn ELSE g_aircraft_handle
  /\ g_warn_handle' = IF op = "warn_chr" THEN g_conn ELSE g_warn_handle
  /\ written' = NoWrite
  /\ UNCHANGED <<radio, link, g_conn, flags, g_scan_results, recent, last, pc, held>>

\* discover_cb without an attribute, or bt_gatt_discover refused: no further stage.
DiscoveryStops ==
  /\ "discover" \in Fails
  /\ link = "up" /\ op \in Stage \ {"mtu"}
  /\ op' = "failed"
  /\ written' = NoWrite
  /\ UNCHANGED <<radio, link, g_conn, flags, handles, g_scan_results, recent, last, pc, held>>

-----------------------------------------------------------------------------
(* The watchdog and the shell, statement by statement *)

Step(t, from, to) == pc[t] = from /\ pc' = [pc EXCEPT ![t] = to]

SlipWatchdogWakes ==
  /\ Step("wd", "idle", "start")
  /\ ~g_connected /\ ~g_connecting /\ ~g_scanning /\ recent
  /\ written' = NoWrite
  /\ UNCHANGED <<radio, link, op, g_conn, flags, handles, g_scan_results, recent, last, held>>

\* wd_thread_fn: everything has been quiet for long enough.  The conditions imply
\* those of ble_central_scan_start, which it calls next.
WatchdogWakes ==
  /\ Step("wd", "idle", "start")
  /\ ~g_connected /\ ~g_connecting /\ ~g_scanning /\ ~recent
  /\ written' = NoWrite
  /\ UNCHANGED <<radio, link, op, g_conn, flags, handles, g_scan_results, recent, last, held>>

ShellScanStart ==
  /\ "scan" \in Shell
  /\ Step("shell", "idle", "start")
  /\ ~g_scanning /\ ~g_connected
  /\ written' = NoWrite
  /\ UNCHANGED <<radio, link, op, g_conn, flags, handles, g_scan_results, recent, last, held>>

\* bt_le_scan_start: success, -EALREADY, or an error that leaves the flag alone.
StartScanning(t) ==
  /\ \/ Step(t, "start", "flag") /\ radio' = TRUE
     \/ "scan" \in Fails /\ ~radio /\ Step(t, "start", "idle") /\ UNCHANGED radio
  /\ written' = NoWrite
  /\ UNCHANGED <<link, op, g_conn, flags, handles, g_scan_results, recent, last, held>>

SetScanning(t) ==
  /\ Step(t, "flag", "idle")
  /\ g_scanning' = TRUE
  /\ written' = NoWrite
  /\ UNCHANGED <<radio, link, op, g_conn, g_connecting, g_connected, handles,
                 g_scan_results, recent, last, held>>

\* ble_central_scan_stop
ShellScanStop ==
  /\ "scan" \in Shell
  /\ Step("shell", "idle", "stop")
  /\ g_scanning
  /\ written' = NoWrite
  /\ UNCHANGED <<radio, link, op, g_conn, flags, handles, g_scan_results, recent, last, held>>

\* bt_le_scan_stop, whose error is ignored.
StopScanning ==
  /\ Step("shell", "stop", "unflag")
  /\ \/ radio' = FALSE
     \/ "scan" \in Fails /\ UNCHANGED radio
  /\ written' = NoWrite
  /\ UNCHANGED <<link, op, g_conn, flags, handles, g_scan_results, recent, last, held>>

ClearScanning ==
  /\ Step("shell", "unflag", "idle")
  /\ g_scanning' = FALSE
  /\ written' = NoWrite
  /\ UNCHANGED <<radio, link, op, g_conn, g_connecting, g_connected, handles,
                 g_scan_results, recent, last, held>>

\* ble_central_disconnect tests the connection and then asks the stack to end it.
\* disconnected_cb follows later, as after the peer's or the link's own end.
ShellDisconnect ==
  /\ "disconnect" \in Shell
  /\ Step("shell", "idle", "hangup")
  /\ g_connected /\ g_conn # 0
  /\ written' = NoWrite
  /\ UNCHANGED <<radio, link, op, g_conn, flags, handles, g_scan_results, recent, last, held>>

HangUp ==
  /\ Step("shell", "hangup", "idle")
  /\ written' = NoWrite
  /\ UNCHANGED <<radio, link, op, g_conn, flags, handles, g_scan_results, recent, last, held>>

-----------------------------------------------------------------------------
(* ble_central_send_warning *)

\* From the work queue, whose cooperative thread no callback preempts.
WorkqueueSend ==
  /\ g_connected /\ g_conn # 0 /\ g_warn_handle # 0
  /\ Write(g_conn, g_warn_handle)
  /\ UNCHANGED <<radio, link, op, g_conn, flags, handles, g_scan_results, recent, last,
                 pc, held>>

\* From the shell, which a callback may preempt at any point: the connection is
\* loaded and tested, then the handle, then both are used.  Neither is volatile:
\* the build may use what the tests loaded or load it once more.
ShellSend ==
  /\ "send" \in Shell
  /\ Step("shell", "idle", "handle")
  /\ g_connected /\ g_conn # 0
  /\ held' = [conn |-> g_conn, handle |-> 0]
  /\ written' = NoWrite
  /\ UNCHANGED <<radio, link, op, g_conn, flags, handles, g_scan_results, recent, last>>

SendHandle ==
  /\ Step("shell", "handle", IF g_warn_handle = 0 THEN "idle" ELSE "conn")
  /\ held' = [held EXCEPT !.handle = g_warn_handle]
  /\ written' = NoWrite
  /\ UNCHANGED <<radio, link, op, g_conn, flags, handles, g_scan_results, recent, last>>

SendConn ==
  /\ Step("shell", "conn", "write")
  /\ \E conn \in {held.conn, g_conn} : held' = [held EXCEPT !.conn = conn]
  /\ written' = NoWrite
  /\ UNCHANGED <<radio, link, op, g_conn, flags, handles, g_scan_results, recent, last>>

SendWrite ==
  /\ Step("shell", "write", "idle")
  /\ \E handle \in {held.handle, g_warn_handle} : Write(held.conn, handle)
  /\ held' = [conn |-> 0, handle |-> 0]
  /\ UNCHANGED <<radio, link, op, g_conn, flags, handles, g_scan_results, recent, last>>

-----------------------------------------------------------------------------
\* RECONNECT_RETRY_MS pass after the last attempt.
Quiet ==
  /\ recent /\ recent' = FALSE
  /\ written' = NoWrite
  /\ UNCHANGED <<radio, link, op, g_conn, flags, handles, g_scan_results, last, pc, held>>

Watchdog == WatchdogWakes \/ StartScanning("wd") \/ SetScanning("wd")

ShellSteps ==
  \/ StartScanning("shell") \/ SetScanning("shell") \/ StopScanning \/ ClearScanning
  \/ HangUp \/ SendHandle \/ SendConn \/ SendWrite

ShellCommands == ShellScanStart \/ ShellScanStop \/ ShellDisconnect \/ ShellSend

Callbacks ==
  \/ \E a \in Peer : DeviceFound(a)
  \/ Connected \/ ConnectFailed \/ Disconnected \/ ProcedureDone \/ DiscoveryStops

Next ==
  Watchdog \/ ShellSteps \/ ShellCommands \/ Callbacks \/ WorkqueueSend \/ Quiet

Spec == Init /\ [][Next]_vars

\* The threads and the clock keep running; the peer keeps advertising, and an
\* attempt that is repeated for ever succeeds in the end.
FairSpec ==
  /\ Spec
  /\ WF_vars(Watchdog) /\ WF_vars(ShellSteps) /\ WF_vars(Quiet)
  /\ SF_vars(StartScanning("wd") /\ radio') /\ WF_vars(ProcedureDone)
  /\ SF_vars(\E a \in Peer : DeviceFound(a) /\ g_connecting')
  /\ SF_vars(Connected)

-----------------------------------------------------------------------------
(* Safety *)

\* The central's idea of its connection is the stack's: g_connected, g_connecting
\* and g_conn name the link there is, so that do_connect never opens a second one
\* nor gives up the only one; a discovery runs on a live link only, and one that
\* came to its end without failing has found both characteristics of this very
\* connection.  (g_scanning is not part of this: see FlagStuck.)
FlagsFollowLink ==
  /\ g_connected = (link = "up") /\ g_connecting = (link = "initiating")
  /\ g_conn # 0 <=> g_connected
  /\ op # "none" => link = "up"
  /\ link = "up" /\ op = "none" => g_aircraft_handle = g_conn /\ g_warn_handle = g_conn

\* A handle known to the central belongs to the current connection: none survives
\* a disconnection into the next connection, whose attributes may lie elsewhere.
HandlesCurrent ==
  \A h \in {g_aircraft_handle, g_warn_handle} : h # 0 => h = g_conn

-----------------------------------------------------------------------------
(* Liveness, under FairSpec *)

\* The scan flag is set and no scan is running.
FlagStuck == g_scanning /\ ~radio

\* Whatever fails, and whatever the operator does, the central is connected again
\* and again: the watchdog restarts every scan that failed to start or was
\* stopped.  One state defeats it: the flag left set with no scan running.
LinkReturns == []<>g_connected \/ <>[]FlagStuck

\* On a connection that lasts, the chain of MTU exchange and four discoveries ends
\* with the warning characteristic found, unless one of them fails.
WarnReady == g_connected ~> (g_warn_handle # 0 \/ op = "failed" \/ ~g_connected)

-----------------------------------------------------------------------------
(* What a comment says of the code, and the code does not do *)

\* "nudge scan back up if everything stalls": the central is connected again and
\* again, without exception.
WatchdogRecovers == []<>g_connected

\* "-ENOTCONN if no peer, -EAGAIN if the warning chr hasn't been discovered yet":
\* what is handed to the stack is the connection that is up and the handle found
\* on it.
WriteLive ==
  written.done => written.conn # 0 /\ written.conn = g_conn /\ written.handle = g_conn
=============================================================================
