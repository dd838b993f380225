------------------------------ MODULE DataPort ------------------------------
(***************************************************************************)
(* The data port ttyACM1 and what is printed on it: usb_serial_println     *)
(* (controller/src/usb_serial) with its mutex and its test of DTR; the     *)
(* publisher's 2 Hz work handler (controller/src/db_publisher); the JSON   *)
(* lines of the collision tick, which runs on the same work queue, and of  *)
(* the shell's crash command; and the host's line reader                   *)
(* (controller/host/atc_gui.py).                                           *)
(*                                                                         *)
(* A record is the number of the report it holds, 0 if there is none.  A   *)
(* line goes out in two halves, the second with the newline, and the two   *)
(* threads interleave freely between their statements.  Of the database    *)
(* there is what the publisher sees, and the limit of its pool.            *)
(***************************************************************************)
EXTENDS Integers, Sequences, FiniteSets

CONSTANTS
  Icao,
  Unprintable,   \* aircraft whose record does not fit LINE_CAP
  AIRCRAFT_DB_MAX_ENTRIES

ASSUME PortAssumption ==
  /\ Unprintable \subseteq Icao /\ "pair" \notin Icao
  /\ AIRCRAFT_DB_MAX_ENTRIES \in Nat \ {0}

VARIABLES
  db,            \* the database: aircraft -> report
  s_snapshot,    \* the publisher's rows still to be printed
  at,            \* where each thread is: "idle", "rows", "lock", "first", "second"
  line,          \* the line it prints
  g_tx_mutex,    \* its owner
  dtr,           \* a host has the port open
  rx,            \* the halves since the last newline, at the host
  shown,         \* the host's picture: aircraft -> report of its last whole line
  cut,           \* history: no newline since the port was opened or the read timed out
  torn           \* history: a line cut by neither did not parse

portVars == <<s_snapshot, at, line, g_tx_mutex>>
hostVars == <<dtr, rx, shown, cut, torn>>
dataVars == <<db, portVars, hostVars>>

Thread == {"workqueue", "shell"}

Row == [icao : Icao, report : Nat \ {0}]

\* The line of an alert; aircraft lines are their rows.
Alert == [icao |-> "pair", report |-> 0]

Line == Row \cup {Alert}

\* Records, rows, threads and the host's buffer have their types (db_publisher.c,
\* usb_serial.c).
PortTypeOK ==
  /\ db \in [Icao -> Nat] /\ shown \in [Icao -> Nat]
  /\ s_snapshot \subseteq Row
  /\ at \in [Thread -> {"idle", "rows", "lock", "first", "second"}]
  /\ line \in [Thread -> Line]
  /\ g_tx_mutex \in Thread \cup {"free"}
  /\ rx \in Seq(Line \X {1, 2})
  /\ dtr \in BOOLEAN /\ cut \in BOOLEAN /\ torn \in BOOLEAN

PortInit ==
  /\ db = [i \in Icao |-> 0]
  /\ s_snapshot = {}
  /\ at = [t \in Thread |-> "idle"] /\ line = [t \in Thread |-> Alert]
  /\ g_tx_mutex = "free"
  /\ dtr = FALSE /\ rx = <<>> /\ shown = [i \in Icao |-> 0]
  /\ cut = TRUE /\ torn = FALSE

-----------------------------------------------------------------------------
(* usb_serial_println *)

Goto(t, place) == at' = [at EXCEPT ![t] = place]

\* The publisher goes on with its rows; the other lines are the only ones of their call.
Return(t) == Goto(t, IF line[t] = Alert THEN "idle" ELSE "rows")

\* Called with the line l; without a host it returns at once, to `back`.
Println(t, l, back) ==
  /\ IF dtr
     THEN Goto(t, "lock") /\ line' = [line EXCEPT ![t] = l]
     ELSE Goto(t, back) /\ UNCHANGED line
  /\ UNCHANGED <<g_tx_mutex, db, hostVars>>

SlipLock(t) ==
  /\ at[t] = "lock"
  /\ g_tx_mutex' = t
  /\ Goto(t, "first")
  /\ UNCHANGED <<db, s_snapshot, line, hostVars>>

Lock(t) ==
  /\ at[t] = "lock" /\ g_tx_mutex = "free"
  /\ g_tx_mutex' = t
  /\ Goto(t, "first")
  /\ UNCHANGED <<db, s_snapshot, line, hostVars>>

\* JsonLineReader.run on a newline: a line that is not one line whole is a parse
\* error and is skipped; an alert does not touch the aircraft's entries; a frame that
\* finds the GUI's queue full is lost.
ReadLine(halves, full) ==
  LET l     == halves[Len(halves)][1]
      whole == halves = <<<<l, 1>>, <<l, 2>>>>
  IN  /\ shown' = IF whole /\ l # Alert /\ ~full THEN [shown EXCEPT ![l.icao] = l.report]
                  ELSE shown
      /\ torn' = (torn \/ (~whole /\ ~cut))
      /\ cut' = (cut /\ ~dtr)
      /\ rx' = <<>>

\* uart_poll_out of a half.  What is written after the host has gone is lost or
\* stays in the driver for the next one.
PollOut(t, half) ==
  \/ /\ half = 1
     /\ rx' = Append(rx, <<line[t], 1>>) /\ UNCHANGED <<shown, cut, torn>>
  \/ /\ half = 2
     /\ \E full \in BOOLEAN : ReadLine(Append(rx, <<line[t], 2>>), full)
  \/ ~dtr /\ UNCHANGED <<rx, shown, cut, torn>>

PrintFirst(t) ==
  /\ at[t] = "first" /\ Goto(t, "second")
  /\ PollOut(t, 1)
  /\ UNCHANGED <<db, s_snapshot, line, g_tx_mutex, dtr>>

\* The rest, the newline, and the unlocking.
PrintSecond(t) ==
  /\ at[t] = "second" /\ Return(t)
  /\ PollOut(t, 2)
  /\ g_tx_mutex' = "free"
  /\ UNCHANGED <<db, s_snapshot, line, dtr>>

-----------------------------------------------------------------------------
(* work_handler of the publisher, emit_collision of the tick and of the shell *)

\* The aircraft that have an entry in the database.
Known == {i \in Icao : db[i] # 0}

\* snapshot_cb copies every record, under the database's mutex.
Rows == {[icao |-> i, report |-> db[i]] : i \in Known}

\* Slip: s_snapshot_n is not reset, and rows of the last round are printed again.
SlipPublishStart ==
  /\ at["workqueue"] = "idle" /\ Goto("workqueue", "rows")
  /\ s_snapshot' = Rows \cup ({line["workqueue"]} \ {Alert})
  /\ UNCHANGED <<db, line, g_tx_mutex, hostVars>>

\* A round: the snapshot first.
PublishStart ==
  /\ at["workqueue"] = "idle" /\ Goto("workqueue", "rows")
  /\ s_snapshot' = Rows
  /\ UNCHANGED <<db, line, g_tx_mutex, hostVars>>

PublishRow(r) ==
  /\ at["workqueue"] = "rows" /\ r \in s_snapshot
  /\ r.icao \notin Unprintable
  /\ s_snapshot' = s_snapshot \ {r}
  /\ Println("workqueue", r, "rows")

SlipFormatError(r) ==
  /\ at["workqueue"] = "rows" /\ r \in s_snapshot
  /\ r.icao \in Unprintable
  /\ s_snapshot' = {}
  /\ UNCHANGED <<db, at, line, g_tx_mutex, hostVars>>

\* format_aircraft_json runs out of room: the row is skipped.
FormatError(r) ==
  /\ at["workqueue"] = "rows" /\ r \in s_snapshot
  /\ r.icao \in Unprintable
  /\ s_snapshot' = s_snapshot \ {r}
  /\ UNCHANGED <<db, at, line, g_tx_mutex, hostVars>>

\* The work is rescheduled and the queue is free for the next one.
PublishEnd ==
  /\ at["workqueue"] = "rows" /\ s_snapshot = {}
  /\ Goto("workqueue", "idle")
  /\ UNCHANGED <<db, s_snapshot, line, g_tx_mutex, hostVars>>

\* A JSON line of the tick, or of collision_crash_trigger.
EmitAlert(t) ==
  /\ at[t] = "idle"
  /\ Println(t, Alert, "idle")
  /\ UNCHANGED s_snapshot

-----------------------------------------------------------------------------
(* The rest of the controller, and the host *)

\* Does aircraft_db_upsert find the aircraft, or a free entry in the pool?
HasEntry(i) == i \in Known \/ Cardinality(Known) < AIRCRAFT_DB_MAX_ENTRIES

\* aircraft_db_upsert; with the pool full a new aircraft's report is refused, -ENOMEM.
Report(i, n) ==
  /\ HasEntry(i) /\ db' = [db EXCEPT ![i] = n]
  /\ UNCHANGED <<portVars, hostVars>>

Refuse(i) == ~HasEntry(i) /\ UNCHANGED dataVars

Evict(i) ==
  /\ db[i] # 0 /\ db' = [db EXCEPT ![i] = 0]
  /\ UNCHANGED <<portVars, hostVars>>

OpenPort ==
  /\ ~dtr /\ dtr' = TRUE
  /\ UNCHANGED <<db, portVars, rx, shown, cut, torn>>

\* No byte for the timeout of the serial port: readline returns the half line, which
\* does not parse, and its rest will be read as a line of its own.
ReadTimeout ==
  /\ dtr /\ rx # <<>>
  /\ rx' = <<>> /\ cut' = TRUE
  /\ UNCHANGED <<db, portVars, dtr, shown, torn>>

\* The reader's half line and its picture go with the process.
ClosePort ==
  /\ dtr /\ dtr' = FALSE
  /\ rx' = <<>> /\ shown' = [i \in Icao |-> 0] /\ cut' = TRUE
  /\ UNCHANGED <<db, portVars, torn>>

Writes(t) == Lock(t) \/ PrintFirst(t) \/ PrintSecond(t)

Publish ==
  \/ PublishStart \/ PublishEnd
  \/ \E r \in s_snapshot : PublishRow(r) \/ FormatError(r)

Alerts == \E t \in Thread : EmitAlert(t)

Host == OpenPort \/ ClosePort \/ ReadTimeout

PortNext ==
  \/ Publish \/ Alerts \/ Host
  \/ \E t \in Thread : Writes(t)
  \/ \E i \in Icao : Evict(i) \/ \E n \in Nat : Report(i, n)

PortSpec == PortInit /\ [][PortNext]_dataVars

-----------------------------------------------------------------------------
(* Safety *)

\* Apart from the one a host opens the port into, or whose reading timed out half way,
\* every line the host reads is one line of one writer: println's mutex keeps the tick,
\* the publisher and the shell from mixing their bytes, and a host that goes away in
\* mid-line spoils no later one.
LinesWhole == ~torn

\* While a host has the port open, no aircraft in its picture goes back to an older
\* report: the publisher never prints a row of an earlier snapshot again.
PictureForward ==
  [][dtr /\ dtr' => \A i \in Icao : shown'[i] >= shown[i]]_dataVars
=============================================================================
