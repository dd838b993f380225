------------------------------ MODULE SimMobile -----------------------------
(***************************************************************************)
(* The sim mobile's firmware (sim/mobile/src/main/src/codein.c): warning   *)
(* frames and the work items that end an alert or a crash, the 5 Hz send   *)
(* thread with its ground impact, the connection, and the pilot's          *)
(* commands; and the part of its PC display (sim/pc/simple_grid.py) that   *)
(* follows the WARN lines: the collision panel and the crash overlay.  Its *)
(* diversion panel, which clears itself after 4.5 s, is left out.          *)
(*                                                                         *)
(* Time is counted in units of which AlertTime, TextTime and FreezeTime    *)
(* are multiples.  A timer holds the units left, Off when not scheduled;   *)
(* `frozen` is g_frozen_until_ms - now, 0 when it has passed.  Bluetooth   *)
(* callbacks and the work queue are cooperative: a callback or a work item *)
(* is one step.  They outrank the send thread and the shell, which may be  *)
(* preempted between two statements and are split into steps.  The         *)
(* position is reduced to altitude and to whether the aircraft has left    *)
(* its origin; the notifications that carry it, and the subscription they  *)
(* wait for, are left out.                                                 *)
(***************************************************************************)
EXTENDS Integers

CONSTANTS
  AlertTime,    \* 5 s: a collision or diversion alert
  TextTime,     \* 3 s: a text alert
  FreezeTime,   \* 10 s: the freeze after a crash
  Lag,          \* units by which the reset work may fire after the freeze ends
  Altitude      \* the altitudes of this instance, in metres

ASSUME SimAssumption ==
  /\ AlertTime \in Nat \ {0} /\ TextTime \in Nat \ {0} /\ FreezeTime \in Nat \ {0}
  /\ Lag \subseteq Nat /\ \E most \in Lag : \A l \in Lag : l <= most
  /\ Altitude \subseteq Nat /\ {0, 100} \subseteq Altitude

VARIABLES
  g_alt, g_speed,     \* altitude; is the speed above zero?
  moved,              \* g_lat, g_lon differ from the origin
  g_warning_active,
  frozen,
  clear_work, reset_work,
  s_conn,
  buzzer,
  send,               \* where the send thread is in its pass
  ahead,              \* its new position: will the aircraft have left its origin?
  pilot,              \* where the shell is in a reset: "r" or "reset", then "cancel"
  panel, overlay,     \* the PC's collision panel and its full-screen crash overlay
  overlay_jobs        \* units left of its pending calls of _clear_crash

flight == <<g_alt, g_speed, moved>>
timers == <<frozen, clear_work, reset_work>>
pc     == <<panel, overlay, overlay_jobs>>
pass   == <<send, ahead>>
vars == <<flight, g_warning_active, timers, s_conn, buzzer, pass, pilot, pc>>

Off == -1

Kind == {"collision", "diversion", "text"}

ResetTime == {FreezeTime + l : l \in Lag}

Longest == CHOOSE t \in ResetTime : \A u \in ResetTime : u <= t

\* The flags, delayed works and countdowns of the sim mobile have their types (codein.c).
TypeOK ==
  /\ g_alt \in Altitude /\ g_speed \in BOOLEAN /\ moved \in BOOLEAN
  /\ g_warning_active \in BOOLEAN
  /\ frozen \in 0 .. FreezeTime
  /\ clear_work \in Off .. AlertTime \cup Off .. TextTime
  /\ reset_work \in Off .. Longest
  /\ s_conn \in BOOLEAN
  /\ buzzer \in BOOLEAN
  /\ send \in {"sleep", "move", "impact", "warn", "arm", "report"} /\ ahead \in BOOLEAN
  /\ pilot \in {"idle", "r", "reset", "cancel"}
  /\ panel \in BOOLEAN /\ overlay \in BOOLEAN /\ overlay_jobs \subseteq 0 .. FreezeTime

Init ==
  /\ g_alt = 100 /\ g_speed = FALSE /\ moved = FALSE
  /\ g_warning_active = FALSE
  /\ frozen = 0 /\ clear_work = Off /\ reset_work = Off
  /\ s_conn = FALSE
  /\ buzzer = FALSE /\ send = "sleep" /\ ahead = FALSE /\ pilot = "idle"
  /\ panel = FALSE /\ overlay = FALSE /\ overlay_jobs = {}

-----------------------------------------------------------------------------
(* warn_write: frames of the wrong length or checksum change nothing *)

\* handle_line of the display: only a collision lights its panel for good.
ShowAlert(kind) ==
  panel' = (panel \/ kind = "collision") /\ UNCHANGED <<overlay, overlay_jobs>>

\* 0x02 and 0x03 alert for 5 s, 0x04 for 3 s, frozen or not.
WriteAlert(kind) ==
  /\ s_conn
  /\ ShowAlert(kind)
  /\ g_warning_active' = TRUE
  /\ clear_work' = IF kind = "text" THEN TextTime ELSE AlertTime
  /\ UNCHANGED <<flight, frozen, reset_work, s_conn, buzzer, pass, pilot>>

\* _trigger_crash: the overlay and its own timer, unless the overlay is up.
TriggerCrash ==
  /\ overlay' = TRUE
  /\ overlay_jobs' = IF overlay THEN overlay_jobs ELSE overlay_jobs \cup {FreezeTime}
  /\ UNCHANGED panel

SlipWriteCrash ==
  /\ s_conn
  /\ TriggerCrash
  /\ g_warning_active' = TRUE
  /\ frozen' = FreezeTime
  /\ clear_work' = Off
  /\ IF reset_work = Off THEN reset_work' \in ResetTime ELSE UNCHANGED reset_work
  /\ UNCHANGED <<flight, s_conn, buzzer, pass, pilot>>

\* 0x05
WriteCrash ==
  /\ s_conn
  /\ TriggerCrash
  /\ g_warning_active' = TRUE
  /\ frozen' = FreezeTime
  /\ clear_work' = Off
  /\ reset_work' \in ResetTime
  /\ UNCHANGED <<flight, s_conn, buzzer, pass, pilot>>

-----------------------------------------------------------------------------
(* The work queue *)

\* The display on "WARN clear"; the overlay's own timers are not cancelled.
WarnClear == panel' = FALSE /\ overlay' = FALSE /\ UNCHANGED overlay_jobs

\* warning_clear_fn
ClearFires ==
  /\ clear_work = 0 /\ clear_work' = Off
  /\ g_warning_active' = FALSE
  /\ WarnClear
  /\ UNCHANGED <<flight, frozen, reset_work, s_conn, buzzer, pass, pilot>>

\* crash_reset_fn
ResetFires ==
  /\ reset_work = 0 /\ reset_work' = Off
  /\ g_alt' = 100 /\ g_speed' = FALSE /\ moved' = FALSE
  /\ g_warning_active' = FALSE
  /\ frozen' = 0
  /\ clear_work' = Off
  /\ WarnClear
  /\ UNCHANGED <<s_conn, buzzer, pass, pilot>>

-----------------------------------------------------------------------------
(* send_thread_fn: it runs when no work is due *)

Due == clear_work = 0 \/ reset_work = 0

\* A frozen aircraft stays where it is; another's new position is computed.
SendWake ==
  /\ ~Due /\ send = "sleep"
  /\ send' = IF frozen > 0 THEN "report" ELSE "move"
  /\ ahead' = (frozen = 0 /\ (moved \/ g_speed))
  /\ UNCHANGED <<flight, g_warning_active, timers, s_conn, buzzer, pilot, pc>>

\* The position is stored, over whatever came there in the meantime, and the
\* ground impact tested.
SendMove ==
  /\ ~Due /\ send = "move"
  /\ moved' = ahead
  /\ send' = IF g_alt = 0 /\ g_speed THEN "impact" ELSE "report"
  /\ ahead' = FALSE
  /\ UNCHANGED <<g_alt, g_speed, g_warning_active, timers, s_conn, buzzer, pilot, pc>>

\* Ground impact: "WARN crash" and freeze ...
SendImpact ==
  /\ ~Due /\ send = "impact" /\ send' = "warn"
  /\ TriggerCrash
  /\ frozen' = FreezeTime
  /\ UNCHANGED <<flight, g_warning_active, clear_work, reset_work, s_conn, buzzer, ahead,
                 pilot>>

\* ... then the warning ...
SendWarn ==
  /\ ~Due /\ send = "warn" /\ send' = "arm"
  /\ g_warning_active' = TRUE
  /\ UNCHANGED <<flight, timers, s_conn, buzzer, ahead, pilot, pc>>

SlipSendArm ==
  /\ ~Due /\ send = "arm" /\ send' = "report"
  /\ clear_work' = Off
  /\ UNCHANGED <<flight, g_warning_active, frozen, reset_work, s_conn, buzzer, ahead, pilot, pc>>

\* ... then the alert's work is cancelled and the reset scheduled.
SendArm ==
  /\ ~Due /\ send = "arm" /\ send' = "report"
  /\ clear_work' = Off
  /\ reset_work' \in ResetTime
  /\ UNCHANGED <<flight, g_warning_active, frozen, s_conn, buzzer, ahead, pilot, pc>>

SlipSendReport ==
  /\ ~Due /\ send = "report" /\ send' = "sleep"
  /\ buzzer' = IF s_conn /\ g_warning_active THEN ~buzzer ELSE buzzer
  /\ UNCHANGED <<flight, g_warning_active, timers, s_conn, ahead, pilot, pc>>

\* The end of a pass: the buzzer toggles during an alert and is silenced without
\* one, both only while connected.
SendReport ==
  /\ ~Due /\ send = "report" /\ send' = "sleep"
  /\ buzzer' = IF s_conn THEN g_warning_active /\ ~buzzer ELSE buzzer
  /\ UNCHANGED <<flight, g_warning_active, timers, s_conn, ahead, pilot, pc>>

-----------------------------------------------------------------------------
(* The connection *)

Connected ==
  /\ ~s_conn /\ s_conn' = TRUE
  /\ UNCHANGED <<flight, g_warning_active, timers, buzzer, pass, pilot, pc>>

SlipDisconnected ==
  /\ s_conn /\ s_conn' = FALSE
  /\ clear_work' = Off
  /\ UNCHANGED <<flight, g_warning_active, frozen, reset_work, buzzer, pass, pilot, pc>>

Disconnected ==
  /\ s_conn /\ s_conn' = FALSE
  /\ g_warning_active' = FALSE
  /\ clear_work' = Off
  /\ UNCHANGED <<flight, frozen, reset_work, buzzer, pass, pilot, pc>>

-----------------------------------------------------------------------------
(* The pilot's commands, accepted frozen or not; the shell runs when no work *)
(* is due                                                                     *)

\* set, circle, and the keys that change speed and altitude; set alone changes the
\* position.
Steer(alt, speed, away) ==
  /\ ~Due /\ pilot = "idle"
  /\ g_alt' = alt /\ g_speed' = speed /\ moved' = away
  /\ UNCHANGED <<g_warning_active, timers, s_conn, buzzer, pass, pilot, pc>>

\* The key r and the reset command, statement by statement: the position ...
PilotReset(key) ==
  /\ ~Due /\ pilot = "idle"
  /\ pilot' = IF key THEN "r" ELSE "reset"
  /\ moved' = FALSE
  /\ UNCHANGED <<g_alt, g_speed, g_warning_active, timers, s_conn, buzzer, pass, pc>>

\* ... altitude, speed and warning, where the command ends ...
PilotSettle ==
  /\ ~Due /\ pilot \in {"r", "reset"}
  /\ pilot' = IF pilot = "r" THEN "cancel" ELSE "idle"
  /\ g_alt' = 100 /\ g_speed' = FALSE
  /\ g_warning_active' = FALSE
  /\ UNCHANGED <<moved, timers, s_conn, buzzer, pass, pc>>

\* ... and the key goes on to cancel the alert's work.
PilotCancel ==
  /\ ~Due /\ pilot = "cancel" /\ pilot' = "idle"
  /\ clear_work' = Off
  /\ UNCHANGED <<flight, g_warning_active, frozen, reset_work, s_conn, buzzer, pass, pc>>

-----------------------------------------------------------------------------
\* The display's own timer of an overlay, this one's or an earlier one's.
OverlayTimeout ==
  /\ 0 \in overlay_jobs
  /\ overlay_jobs' = overlay_jobs \ {0} /\ overlay' = FALSE
  /\ UNCHANGED <<flight, g_warning_active, timers, s_conn, buzzer, pass, pilot, panel>>

\* Work that is due runs before time goes on.
Advance ==
  /\ ~Due /\ 0 \notin overlay_jobs
  /\ overlay_jobs' = {t - 1 : t \in overlay_jobs}
  /\ frozen' = IF frozen > 0 THEN frozen - 1 ELSE 0
  /\ clear_work' = IF clear_work > 0 THEN clear_work - 1 ELSE clear_work
  /\ reset_work' = IF reset_work > 0 THEN reset_work - 1 ELSE reset_work
  /\ UNCHANGED <<flight, g_warning_active, s_conn, buzzer, pass, pilot, panel, overlay>>

Base ==
  \/ \E kind \in Kind : WriteAlert(kind)
  \/ WriteCrash
  \/ Connected \/ Disconnected

Work == ClearFires \/ ResetFires

Send == SendWake \/ SendMove \/ SendImpact \/ SendWarn \/ SendArm \/ SendReport

Pilot ==
  \/ \E alt \in Altitude, speed \in BOOLEAN, away \in BOOLEAN : Steer(alt, speed, away)
  \/ \E key \in BOOLEAN : PilotReset(key)
  \/ PilotSettle \/ PilotCancel

Next == Base \/ Work \/ Send \/ Pilot \/ OverlayTimeout \/ Advance

Spec == Init /\ [][Next]_vars

\* Work that is due runs, time goes on, and the send thread, however often callbacks
\* and work preempt it, comes to the end of its pass.
FairSpec ==
  /\ Spec
  /\ WF_vars(Work) /\ SF_vars(Send) /\ WF_vars(OverlayTimeout) /\ WF_vars(Advance)

-----------------------------------------------------------------------------
(* Safety *)

\* A work item is scheduled, or about to be, that ends a warning.
EndScheduled == clear_work # Off \/ reset_work # Off \/ send \in {"warn", "arm"}

\* A warning nothing will end: lamp and buzzer go on until the next alert ends, the
\* link is lost or the pilot resets again.
Stuck == g_warning_active /\ ~EndScheduled

\* An active warning has a work item that will end it, whichever of frames, impacts,
\* resets, disconnections and expiries met in between.  One step alone breaks this:
\* the cancellation with which the key r ends, when it takes the work of an alert
\* that came after the key cleared the flag.
WarningWillEnd == [][~Stuck /\ Stuck' => PilotCancel]_vars

\* The display's collision panel, once lit, keeps a work item that will print its
\* "WARN clear": a crash that cancels the alert's work puts its own in its place.  Only a
\* disconnection or the pilot's key r leaves the panel lit with nothing to clear it.
PanelWillClear ==
  [][panel' /\ ~EndScheduled' /\ (panel => EndScheduled)
       => (s_conn /\ ~s_conn') \/ PilotCancel]_vars

\* The reset never comes before the freeze is over, even when a second crash
\* arrives during the first one's freeze.
FreezeOutlasted == frozen > 0 /\ send \notin {"warn", "arm"} => reset_work >= frozen

-----------------------------------------------------------------------------
(* Liveness, under FairSpec *)

\* When no new crash comes, by frame or by impact, the last one ends with the
\* overlay gone and the aircraft back at its origin and unfrozen, whatever alerts,
\* the pilot and the connection do in the meantime.  (A pass of the send thread that
\* the reset interrupts then stores a position one step away from it.)
CrashEnds ==
  <>[][~WriteCrash /\ ~SendImpact]_vars
    => (overlay \/ frozen > 0 ~> ~overlay /\ frozen = 0 /\ ~moved)

\* When neither alerts nor crashes come any more, the overlay and the freeze end for
\* good, and so does the warning unless the key r left it stuck; on a link that lasts
\* the buzzer then falls silent.
AlertsEnd ==
  <>[][~(\E kind \in Kind : WriteAlert(kind)) /\ ~WriteCrash /\ ~SendImpact]_vars
    => /\ <>[](frozen = 0 /\ ~overlay /\ (g_warning_active => Stuck))
       /\ <>[](s_conn /\ ~Stuck) => <>[]~buzzer
=============================================================================
