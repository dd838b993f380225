----------------------------- MODULE Telemetry -----------------------------
(***************************************************************************)
(* The way of a report through the controller: from the BLE notification   *)
(* through the bridge's queue and thread (Bridge) into the database, and   *)
(* from the database through the publisher and the data port to the host   *)
(* (DataPort).  The bridge's thread, the work queue, the shell, the reaper *)
(* and the host interleave freely; a host may come and go in mid-line.     *)
(***************************************************************************)
EXTENDS Bridge, DataPort

CONSTANT Sim           \* the address the sim's frames carry

ASSUME TelemetryAssumption == Sim \in Icao \ Unprintable

VARIABLE gone          \* history: the last of the sim's reports to be refused or evicted

telemetryVars == <<vars, dataVars, gone>>

TelemetryInit == Init /\ PortInit /\ gone = 0

-----------------------------------------------------------------------------
Notified == (\E v \in Verdict : Submit(v)) /\ UNCHANGED <<dataVars, gone>>

\* bridge_thread_fn's aircraft_db_upsert writes the sim's record, or refuses it: the
\* bridge ignores the error.
Feed ==
  /\ Upsert
  /\ \/ Report(Sim, out) /\ UNCHANGED gone
     \/ Refuse(Sim) /\ gone' = out

BridgeStep ==
  \/ (Get \/ Reject \/ Convert \/ Count) /\ UNCHANGED <<dataVars, gone>>
  \/ Feed

\* Another aircraft's report comes in over USB.
Heard ==
  /\ \E i \in Icao \ {Sim} : db[i] = 0 /\ Report(i, 1)
  /\ UNCHANGED <<vars, gone>>

Reaped(i) ==
  /\ Evict(i)
  /\ gone' = IF i = Sim THEN db[i] ELSE gone
  /\ UNCHANGED vars

PrintStep(t) == Writes(t) /\ UNCHANGED <<vars, gone>>

\* The sim's row comes to its end, whole, and the GUI's queue has room for it.
SimShown ==
  /\ PrintStep("workqueue") /\ at["workqueue"] = "second" /\ line["workqueue"].icao = Sim
  /\ shown'[Sim] = line["workqueue"].report

RoundBegins == PublishStart /\ UNCHANGED <<vars, gone>>

RoundGoesOn ==
  /\ PublishEnd \/ \E r \in s_snapshot : PublishRow(r) \/ FormatError(r)
  /\ UNCHANGED <<vars, gone>>

Alerted == Alerts /\ UNCHANGED <<vars, gone>>

HostStep == Host /\ UNCHANGED <<vars, gone>>

TelemetryNext ==
  \/ Notified \/ BridgeStep \/ Heard \/ RoundBegins \/ RoundGoesOn \/ Alerted \/ HostStep
  \/ \E i \in Icao : Reaped(i)
  \/ \E t \in Thread : PrintStep(t)

\* Threads that can run do; a work whose time has come is not passed over for ever by
\* the queue's other work, nor a waiter by the mutex, which the kernel hands over.
\* The GUI's timer drains its queue: it is not full at every row of the sim's.
Fairness ==
  /\ WF_telemetryVars(BridgeStep) /\ WF_telemetryVars(RoundGoesOn)
  /\ WF_telemetryVars(PrintStep("shell")) /\ SF_telemetryVars(PrintStep("workqueue"))
  /\ SF_telemetryVars(RoundBegins) /\ SF_telemetryVars(SimShown)

TelemetrySpec == TelemetryInit /\ [][TelemetryNext]_telemetryVars /\ Fairness

-----------------------------------------------------------------------------
(* Liveness *)

\* Once a host keeps the port open and its reads no longer time out in mid-line, every
\* valid frame that found room in the bridge's queue, or a later one, is on its screen
\* in the end, unless the database's full pool refused it or the reaper evicted it
\* first: neither rejected frames, nor a row that cannot be formatted, nor the tick's
\* and the shell's lines, nor a GUI queue that is full at times keep it from there.
ReportReachesHost ==
  <>[]dtr /\ <>[][~ReadTimeout]_telemetryVars =>
    \A n \in 1 .. MaxFrames :
      Queued(n) ~> (dtr /\ shown[Sim] >= n) \/ gone >= n
=============================================================================
