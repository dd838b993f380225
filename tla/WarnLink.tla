------------------------------ MODULE WarnLink ------------------------------
(***************************************************************************)
(* The way of an alert from the collision detector to the sim's cockpit:   *)
(* Collision hands its frames to the link, the link carries or loses them, *)
(* and SimMobile raises, renews and ends its alert on what arrives.        *)
(*                                                                         *)
(* Both sides share the clock, whose unit is one period of the tick.  The  *)
(* link is BleCentral's, seen from above: `ready` is g_connected with a    *)
(* warning handle, and a radio that fades is noticed by each side in its   *)
(* own time.  Of the sim the frames, the works, the connection, the        *)
(* display and the pilot's reset take part; its flight does not, and       *)
(* ground impact with it, nor do the operator's commands.                  *)
(***************************************************************************)
EXTENDS Collision

CONSTANTS AlertTime, TextTime, FreezeTime, Lag, Altitude   \* of SimMobile

\* An alert lasts 5 s and is renewed after 3 s and a tick; a crash locks its pair for
\* 15 s and freezes the SIM for 10 s.
ASSUME LinkAssumption ==
  /\ AlertTime \in Nat /\ RESEND_MS + 1 < AlertTime
  /\ FreezeTime \in Nat /\ FreezeTime <= CRASH_LOCK_MS
  /\ Lag \subseteq Nat

VARIABLES
  g_alt, g_speed, moved, g_warning_active, frozen, clear_work, reset_work, s_conn,
  buzzer, send, ahead, pilot, panel, overlay, overlay_jobs,  \* of SimMobile
  radio,         \* do frames get through?
  ready,         \* the central would write a frame
  air,           \* the frames written and not yet received
  ticked,        \* the tick of this unit of time has run
  calm,          \* history: for how many units has the SIM been in conflict with an
                 \* aircraft since alerting was last disturbed?
  culprit,       \* history: the pair for which the last CRASH frame received was sent
  forgotten      \* history: the crash has no row, or the sweep has dropped it since

Mobile == INSTANCE SimMobile

mobileVars ==
  <<g_alt, g_speed, moved, g_warning_active, frozen, clear_work, reset_work, s_conn,
    buzzer, send, ahead, pilot, panel, overlay, overlay_jobs>>
linkVars   == <<radio, ready, air>>
crashVars  == <<culprit, forgotten>>
histVars   == <<calm, crashVars>>
allVars    == <<vars, mobileVars, linkVars, ticked, histVars>>

Other == Icao \ {Sim}

Calm0 == [a \in Other |-> 0]

\* The next alert is at most this many units away: the tick that finds more than
\* RESEND_MS gone since the last one.
Renewal == RESEND_MS + 1

\* Flags, frames on their way and the history have their types (collision.c, codein.c).
LinkTypeOK ==
  /\ TypeOK /\ Mobile!TypeOK
  /\ radio \in BOOLEAN /\ ready \in BOOLEAN /\ ticked \in BOOLEAN
  /\ air \in Seq([type : {"COLLISION", "DIVERSION", "CRASH"}, pair : Pair])
  /\ calm \in [Other -> 0 .. (Renewal + 1)]
  /\ culprit \in Pair \cup {<<>>} /\ forgotten \in BOOLEAN

LinkInit ==
  /\ Init /\ Mobile!Init
  /\ radio = FALSE /\ ready = FALSE /\ air = <<>>
  /\ ticked = FALSE
  /\ calm = Calm0 /\ culprit = <<>> /\ forgotten = TRUE

-----------------------------------------------------------------------------
(* The controller's side *)

\* The calls of a step that write the warning characteristic.
Writes == {w \in DOMAIN out' : out'[w].type # "missile_cancel"}

\* The frame of the call w, with the pair that the step takes from `todo`.
Frame(w) == [type |-> out'[w].type, pair |-> CHOOSE p \in todo \ todo' : TRUE]

\* Of the frames of this step, those of the calls W go on their way, in their order.
Carries(W) ==
  \E n \in 0 .. Len(out') : \E nth \in [1 .. n -> W] :
    /\ \A w \in W : \E i \in 1 .. n : nth[i] = w
    /\ \A i, j \in 1 .. n : i < j => nth[i] < nth[j]
    /\ air' = air \o [i \in 1 .. n |-> Frame(nth[i])]

\* A step of work_handler, which is scheduled once per unit.
HandlerStep ==
  /\ handler = "idle" => ~ticked
  /\ Tick
  /\ ticked' = (ticked \/ TickEnd)
  /\ forgotten' = (forgotten \/ culprit \in TrackedPairs \ TrackedPairs')
  /\ UNCHANGED <<mobileVars, radio, ready, culprit>>

\* Every frame of the step is on its way.
Sent ==
  /\ HandlerStep
  /\ Writes # {} => ready /\ radio
  /\ Carries(Writes)
  /\ UNCHANGED calm

\* A frame is lost: no connection, no handle yet, no buffer for the write, or a
\* radio that has faded.  The detector notes its time all the same.
Lost ==
  /\ HandlerStep
  /\ \E W \in (SUBSET Writes) \ {Writes} :
       /\ W # {} => ready /\ radio
       /\ Carries(W)
  /\ calm' = Calm0

\* The detector's aircraft come and go.
Traffic ==
  /\ \E i \in Icao : Report(i) \/ Vanish(i)
  /\ calm' = Calm0
  /\ UNCHANGED <<mobileVars, linkVars, ticked, crashVars>>

-----------------------------------------------------------------------------
(* The link *)

Fade ==
  /\ radio /\ radio' = FALSE
  /\ air' = <<>>
  /\ calm' = Calm0
  /\ UNCHANGED <<vars, mobileVars, ready, ticked, crashVars>>

\* disconnected_cb of the central
CentralDisconnected ==
  /\ ~radio /\ ready
  /\ ready' = FALSE
  /\ UNCHANGED <<vars, mobileVars, radio, air, ticked, histVars>>

MobileDisconnected ==
  /\ ~radio
  /\ Mobile!Disconnected
  /\ UNCHANGED <<vars, linkVars, ticked, histVars>>

Reconnected ==
  /\ ~radio /\ ~ready
  /\ radio' = TRUE
  /\ Mobile!Connected
  /\ UNCHANGED <<vars, ready, air, ticked, histVars>>

\* The chain of discoveries has come to the warning characteristic.
Discovered ==
  /\ radio /\ ~ready
  /\ ready' = TRUE
  /\ UNCHANGED <<vars, mobileVars, radio, air, ticked, histVars>>

-----------------------------------------------------------------------------
(* The sim's side *)

\* The pair has its row and the row says CRASH.
HasCrashed(p) == \E k \in FindTracked(p) : s_tracked[k].level = "CRASH"

Deliver ==
  /\ radio /\ air # <<>>
  /\ air' = Tail(air)
  /\ \/ /\ Head(air).type = "COLLISION" /\ Mobile!WriteAlert("collision")
        /\ UNCHANGED crashVars
     \/ /\ Head(air).type = "DIVERSION" /\ Mobile!WriteAlert("diversion")
        /\ UNCHANGED crashVars
     \/ /\ Head(air).type = "CRASH" /\ Mobile!WriteCrash
        /\ culprit' = Head(air).pair /\ forgotten' = ~HasCrashed(Head(air).pair)
  /\ UNCHANGED <<vars, radio, ready, ticked, calm>>

\* The alert ends by itself.
AlertExpires == Mobile!ClearFires /\ UNCHANGED <<vars, linkVars, ticked, histVars>>

\* The reset after a crash, or the pilot's, silences whatever alert there is.
Silenced ==
  /\ \/ Mobile!ResetFires /\ culprit' = <<>> /\ forgotten' = TRUE
     \/ Mobile!PilotSettle /\ UNCHANGED crashVars
  /\ calm' = Calm0
  /\ UNCHANGED <<vars, linkVars, ticked>>

\* The rest of the pilot's reset, which may cancel the work of an alert just raised.
PilotStep ==
  /\ (\E key \in BOOLEAN : Mobile!PilotReset(key)) \/ Mobile!PilotCancel
  /\ UNCHANGED <<vars, linkVars, ticked, histVars>>

OverlayExpires == Mobile!OverlayTimeout /\ UNCHANGED <<vars, linkVars, ticked, histVars>>

-----------------------------------------------------------------------------
\* The row of the SIM's pair with aircraft a says at least WARNING.
Dangerous(a) ==
  {k \in FindTracked(PairKey(Sim, a)) : s_tracked[k].level \in {"WARNING", "CRASH"}}

\* The SIM is in a conflict with a that the detector may alert it of.
Alertable(a) ==
  /\ Sim \in db
  /\ \E k \in Dangerous(a) : Unlocked(s_tracked[k])
  /\ ready /\ radio

\* A unit passes on both sides once the tick has run and its frames are received.
TimePasses ==
  /\ ticked /\ air = <<>>
  /\ Age /\ Mobile!Advance
  /\ ticked' = FALSE
  /\ calm' = [a \in Other |-> IF ~Alertable(a) THEN 0
                             ELSE IF calm[a] > Renewal THEN calm[a] ELSE calm[a] + 1]
  /\ UNCHANGED <<linkVars, crashVars>>

LinkNext ==
  \/ Sent \/ Lost \/ Traffic
  \/ Fade \/ CentralDisconnected \/ MobileDisconnected \/ Reconnected \/ Discovered
  \/ Deliver \/ AlertExpires \/ Silenced \/ PilotStep \/ OverlayExpires
  \/ TimePasses

\* The work queues run, frames on a working radio arrive, time goes on.
LinkSpec ==
  /\ LinkInit /\ [][LinkNext]_allVars
  /\ WF_allVars(Sent \/ Lost) /\ WF_allVars(Deliver) /\ WF_allVars(TimePasses)
  /\ WF_allVars(AlertExpires) /\ WF_allVars(OverlayExpires)
  /\ WF_allVars(Mobile!ResetFires /\ Silenced)

-----------------------------------------------------------------------------
(* Safety *)

\* Whatever silenced it, a frame lost, a reconnection, a reset or the pilot, the
\* cockpit's alert is back 3 s and a tick later, and from then on it does not lapse
\* as long as conflict and link last: the detector re-fires before the sim's own
\* 5 s timer can clear it, although it counts a lost frame as sent.
AlertUnbroken ==
  (\E a \in Other : calm[a] > Renewal) => g_warning_active /\ panel

\* While the SIM is frozen the detector calls nothing, no frame and no second crash, for
\* the pair that froze it, as long as that pair keeps its row: lock, freeze, link and
\* reset are timed apart, and the lock outlasts the rest.  A pair that turns CLEAR loses
\* row and lock (CrashLockHolds), and one that found the table full has none: the frozen
\* SIM may then be alerted of it.
FrozenUnalerted ==
  [][frozen > 0 /\ ~forgotten /\ culprit \in todo \ todo' => out' = <<>>]_allVars

-----------------------------------------------------------------------------
(* Liveness, under LinkSpec *)

InDanger == Sim \in db /\ \E a \in Other : Dangerous(a) # {}

\* In a conflict that does not end, over a link that holds, the cockpit is alerted
\* again and again, through crashes, locks, freezes and resets.
DangerHeard ==
  /\ <>[](InDanger /\ ready /\ radio)
  /\ <>[][~Lost]_allVars
  => []<>(g_warning_active /\ panel)
=============================================================================
