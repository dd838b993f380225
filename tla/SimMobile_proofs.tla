-------------------------- MODULE SimMobile_proofs --------------------------
(***************************************************************************)
(* Proofs about the sim mobile's firmware, for every length of alert and   *)
(* freeze, every lag of the reset work and every set of altitudes.         *)
(*                                                                         *)
(* FreezeOutlasted is inductive together with the types.  The two action   *)
(* properties follow from the types alone, one action at a time.           *)
(***************************************************************************)
EXTENDS SimMobile, TLAPS

SimInv == TypeOK /\ FreezeOutlasted

\* The reset of a crash is scheduled at the end of the freeze or later.
LEMMA ResetAfterFreeze ==
  /\ FreezeTime \in Nat \ {0} /\ Longest \in Nat
  /\ \A t \in ResetTime : t \in Nat /\ FreezeTime <= t /\ t <= Longest
<1>1. \A t \in ResetTime : t \in Nat /\ FreezeTime <= t
  BY SimAssumption DEF ResetTime
<1>2. PICK most \in Lag : \A l \in Lag : l <= most
  BY SimAssumption
<1>3. FreezeTime + most \in ResetTime /\ \A u \in ResetTime : u <= FreezeTime + most
  BY <1>2, SimAssumption DEF ResetTime
<1>4. Longest \in ResetTime /\ \A u \in ResetTime : u <= Longest
  BY <1>3 DEF Longest
<1>5. QED
  BY <1>1, <1>4, SimAssumption

LEMMA InitSimInv == Init => SimInv
<1> SUFFICES ASSUME Init PROVE SimInv
  OBVIOUS
<1>1. g_alt \in Altitude
  BY SimAssumption DEF Init
<1>2. /\ frozen \in 0 .. FreezeTime
      /\ clear_work \in Off .. AlertTime /\ reset_work \in Off .. Longest
  BY SimAssumption, ResetAfterFreeze DEF Init, Off
<1>3. TypeOK
  BY <1>1, <1>2 DEF Init, TypeOK
<1>4. QED
  BY <1>3 DEF Init, SimInv, FreezeOutlasted

\* The types of the timers, as the arithmetic of the steps needs them.
LEMMA Numbers ==
  TypeOK => /\ frozen \in Nat /\ frozen <= FreezeTime
            /\ clear_work \in Int /\ Off <= clear_work
            /\ reset_work \in Int /\ Off <= reset_work
            /\ g_alt \in Nat
  BY SimAssumption, ResetAfterFreeze DEF TypeOK, Off

LEMMA WriteAlertKeeps ==
  ASSUME SimInv, NEW kind \in Kind, WriteAlert(kind) PROVE SimInv'
<1> USE DEF SimInv, WriteAlert, ShowAlert, flight, pass
<1>1. clear_work' \in Off .. AlertTime \cup Off .. TextTime
  BY SimAssumption DEF Off
<1>2. TypeOK'
  BY <1>1 DEF TypeOK
<1>3. QED
  BY <1>2 DEF FreezeOutlasted

LEMMA WriteCrashKeeps == ASSUME SimInv, WriteCrash PROVE SimInv'
<1> USE DEF SimInv, WriteCrash, TriggerCrash, flight, pass
<1>1. reset_work' \in Off .. Longest /\ reset_work' >= FreezeTime
  BY ResetAfterFreeze DEF Off
<1>2. overlay_jobs' \subseteq 0 .. FreezeTime /\ frozen' \in 0 .. FreezeTime
  BY ResetAfterFreeze DEF TypeOK
<1>3. clear_work' \in Off .. AlertTime
  BY SimAssumption DEF Off
<1>4. TypeOK'
  BY <1>1, <1>2, <1>3 DEF TypeOK
<1>5. QED
  BY <1>1, <1>4 DEF FreezeOutlasted

LEMMA WorkKeeps == ASSUME SimInv, Work PROVE SimInv'
<1> USE DEF SimInv, WarnClear, flight, pass
<1>1. Off \in Off .. AlertTime /\ Off \in Off .. Longest
      /\ 0 \in 0 .. FreezeTime /\ 100 \in Altitude
  BY SimAssumption, ResetAfterFreeze DEF Off
<1>2. CASE ClearFires
  <2>1. TypeOK'
    BY <1>1, <1>2 DEF ClearFires, TypeOK
  <2>2. QED
    BY <1>2, <2>1 DEF ClearFires, FreezeOutlasted
<1>3. CASE ResetFires
  <2>1. TypeOK'
    BY <1>1, <1>3 DEF ResetFires, TypeOK
  <2>2. QED
    BY <1>3, <2>1 DEF ResetFires, FreezeOutlasted
<1>4. QED
  BY <1>2, <1>3 DEF Work

LEMMA SendKeeps == ASSUME SimInv, Send PROVE SimInv'
<1> USE DEF SimInv, flight, timers, pc
<1>1. CASE SendWake \/ SendMove \/ SendWarn \/ SendReport
  <2>1. TypeOK'
    BY <1>1 DEF SendWake, SendMove, SendWarn, SendReport, TypeOK
  <2>2. FreezeOutlasted'
    BY <1>1 DEF SendWake, SendMove, SendWarn, SendReport, FreezeOutlasted
  <2>3. QED
    BY <2>1, <2>2
<1>2. CASE SendImpact
  <2>1. frozen' \in 0 .. FreezeTime /\ overlay_jobs' \subseteq 0 .. FreezeTime
    BY <1>2, ResetAfterFreeze DEF SendImpact, TriggerCrash, TypeOK
  <2>2. TypeOK'
    BY <1>2, <2>1 DEF SendImpact, TriggerCrash, TypeOK
  <2>3. QED
    BY <1>2, <2>2 DEF SendImpact, FreezeOutlasted
<1>3. CASE SendArm
  <2>1. /\ reset_work' \in Off .. Longest /\ reset_work' >= frozen'
        /\ clear_work' \in Off .. AlertTime
    BY <1>3, SimAssumption, ResetAfterFreeze, Numbers DEF SendArm, Off
  <2>2. TypeOK'
    BY <1>3, <2>1 DEF SendArm, TypeOK
  <2>3. QED
    BY <2>1, <2>2 DEF FreezeOutlasted
<1>4. QED
  BY <1>1, <1>2, <1>3 DEF Send

LEMMA ConnectionKeeps == ASSUME SimInv, Connected \/ Disconnected PROVE SimInv'
<1> USE DEF SimInv, flight, timers, pass, pc
<1>1. Off \in Off .. AlertTime
  BY SimAssumption DEF Off
<1>2. CASE Connected
  <2>1. TypeOK'
    BY <1>2 DEF Connected, TypeOK
  <2>2. QED
    BY <1>2, <2>1 DEF Connected, FreezeOutlasted
<1>3. CASE Disconnected
  <2>1. TypeOK'
    BY <1>1, <1>3 DEF Disconnected, TypeOK
  <2>2. QED
    BY <1>3, <2>1 DEF Disconnected, FreezeOutlasted
<1>4. QED
  BY <1>2, <1>3

LEMMA PilotKeeps == ASSUME SimInv, Pilot PROVE SimInv'
<1> USE DEF SimInv, flight, timers, pass, pc
<1>1. Off \in Off .. AlertTime /\ 100 \in Altitude
  BY SimAssumption DEF Off
<1>2. UNCHANGED <<frozen, reset_work, send>>
  BY DEF Pilot, Steer, PilotReset, PilotSettle, PilotCancel
<1>3. ASSUME NEW alt \in Altitude, NEW speed \in BOOLEAN, NEW away \in BOOLEAN,
             Steer(alt, speed, away)
      PROVE  TypeOK'
  BY <1>3 DEF Steer, TypeOK
<1>4. ASSUME NEW key \in BOOLEAN, PilotReset(key) PROVE TypeOK'
  BY <1>4 DEF PilotReset, TypeOK
<1>5. ASSUME PilotSettle PROVE TypeOK'
  BY <1>1, <1>5 DEF PilotSettle, TypeOK
<1>6. ASSUME PilotCancel PROVE TypeOK'
  BY <1>1, <1>6 DEF PilotCancel, TypeOK
<1>7. TypeOK'
  BY <1>3, <1>4, <1>5, <1>6 DEF Pilot
<1>8. QED
  BY <1>2, <1>7 DEF FreezeOutlasted

LEMMA OverlayKeeps == ASSUME SimInv, OverlayTimeout PROVE SimInv'
<1> USE DEF SimInv, OverlayTimeout, flight, timers, pass
<1>1. TypeOK'
  BY DEF TypeOK
<1>2. QED
  BY <1>1 DEF FreezeOutlasted

LEMMA AdvanceKeeps == ASSUME SimInv, Advance PROVE SimInv'
<1> USE DEF SimInv, Advance, flight, pass
<1>1. /\ clear_work' \in Off .. AlertTime \cup Off .. TextTime
      /\ reset_work' \in Off .. Longest /\ frozen' \in 0 .. FreezeTime
  BY SimAssumption, ResetAfterFreeze DEF TypeOK, Off
<1>2. overlay_jobs' \subseteq 0 .. FreezeTime
  BY ResetAfterFreeze DEF TypeOK
<1>3. TypeOK'
  BY <1>1, <1>2 DEF TypeOK
<1>4. FreezeOutlasted'
  BY Numbers, ResetAfterFreeze DEF FreezeOutlasted, Due
<1>5. QED
  BY <1>3, <1>4

LEMMA StepKeeps == ASSUME SimInv, [Next]_vars PROVE SimInv'
<1>1. CASE UNCHANGED vars
  BY <1>1 DEF vars, flight, timers, pass, pc, SimInv, TypeOK, FreezeOutlasted
<1>2. CASE Base
  BY <1>2, WriteAlertKeeps, WriteCrashKeeps, ConnectionKeeps DEF Base
<1>3. QED
  BY <1>1, <1>2, WorkKeeps, SendKeeps, PilotKeeps, OverlayKeeps, AdvanceKeeps DEF Next

THEOREM Invariance == Spec => []SimInv
  BY InitSimInv, StepKeeps, PTL DEF Spec

\* codein.c: the flags, the delayed works and the countdowns keep their types; a work is
\* never scheduled later than the longest freeze with its lag.
THEOREM TypeCorrect == Spec => []TypeOK
<1>1. SimInv => TypeOK
  BY DEF SimInv
<1>2. QED
  BY <1>1, Invariance, PTL

\* crash_reset_fn never runs before g_frozen_until_ms has passed, however crashes by frame and
\* by impact overlap.
THEOREM ResetWaits == Spec => []FreezeOutlasted
<1>1. SimInv => FreezeOutlasted
  BY DEF SimInv
<1>2. QED
  BY <1>1, Invariance, PTL

\* Only three steps take a scheduled end away from a warning: they are those of the work items
\* themselves, the disconnection, and the last statement of the key r.
LEMMA EndTaken ==
  ASSUME TypeOK, [Next]_vars, EndScheduled, ~EndScheduled'
  PROVE  Work \/ Disconnected \/ PilotCancel
<1> USE DEF EndScheduled, flight, timers, pass, pc
<1>1. CASE UNCHANGED vars
  BY <1>1 DEF vars
<1>2. ASSUME NEW kind \in Kind, WriteAlert(kind) PROVE FALSE
  BY <1>2, SimAssumption DEF WriteAlert, Off
<1>3. CASE WriteCrash \/ SendArm
  BY <1>3, ResetAfterFreeze DEF WriteCrash, SendArm, Off
<1>4. CASE Connected \/ OverlayTimeout
  BY <1>4 DEF Connected, OverlayTimeout
<1>5. CASE SendWake \/ SendMove \/ SendImpact \/ SendWarn \/ SendReport
  BY <1>5 DEF SendWake, SendMove, SendImpact, SendWarn, SendReport
<1>6. ASSUME NEW alt, NEW speed, NEW away, Steer(alt, speed, away) PROVE FALSE
  BY <1>6 DEF Steer
<1>7. ASSUME NEW key, PilotReset(key) PROVE FALSE
  BY <1>7 DEF PilotReset
<1>8. CASE PilotSettle
  BY <1>8 DEF PilotSettle
<1>9. CASE Advance
  BY <1>9, Numbers DEF Advance, Off
<1>10. QED
  BY <1>1, <1>2, <1>3, <1>4, <1>5, <1>6, <1>7, <1>8, <1>9 DEF Next, Base, Send, Pilot

\* Whatever sets a flag of a warning leaves its end scheduled.
LEMMA SetWithEnd ==
  ASSUME TypeOK, [Next]_vars,
         (~g_warning_active /\ g_warning_active') \/ (~panel /\ panel')
  PROVE  EndScheduled'
<1> USE DEF EndScheduled, flight, timers, pass, pc
<1>1. CASE UNCHANGED vars
  BY <1>1 DEF vars
<1>2. ASSUME NEW kind \in Kind, WriteAlert(kind) PROVE EndScheduled'
  BY <1>2, SimAssumption DEF WriteAlert, Off
<1>3. CASE WriteCrash
  BY <1>3, ResetAfterFreeze DEF WriteCrash, Off
<1>4. CASE Work \/ Connected \/ Disconnected \/ OverlayTimeout \/ Advance
  BY <1>4 DEF Work, ClearFires, ResetFires, WarnClear, Connected, Disconnected, OverlayTimeout,
              Advance
<1>5. CASE Send
  BY <1>5 DEF Send, SendWake, SendMove, SendImpact, SendWarn, SendArm, SendReport, TriggerCrash
<1>6. CASE Pilot
  BY <1>6 DEF Pilot, Steer, PilotReset, PilotSettle, PilotCancel
<1>7. QED
  BY <1>1, <1>2, <1>3, <1>4, <1>5, <1>6 DEF Next, Base

\* warn_write, send_thread_fn, disconnected, the works and the pilot's reset: no step but the
\* cancellation with which the key r ends leaves g_warning_active set with no work item,
\* scheduled or about to be, that clears it.
THEOREM WarningsEnd == Spec => WarningWillEnd
<1>1. ASSUME SimInv, [Next]_vars, ~Stuck, Stuck' PROVE PilotCancel
  <2>1. TypeOK /\ g_warning_active' /\ ~EndScheduled'
    BY <1>1 DEF SimInv, Stuck
  <2>2. g_warning_active
    <3> SUFFICES ASSUME ~g_warning_active PROVE FALSE
      OBVIOUS
    <3>1. EndScheduled'
      BY <1>1, <2>1, SetWithEnd
    <3>2. QED
      BY <2>1, <3>1
  <2>3. EndScheduled
    BY <1>1, <2>2 DEF Stuck
  <2>4. ~Work /\ ~Disconnected
    BY <2>1 DEF Work, ClearFires, ResetFires, Disconnected
  <2>5. QED
    BY <1>1, <2>1, <2>3, <2>4, EndTaken
<1>2. SimInv /\ [Next]_vars => [~Stuck /\ Stuck' => PilotCancel]_vars
  BY <1>1
<1>3. QED
  BY <1>2, Invariance, PTL DEF Spec, WarningWillEnd

\* No step but a disconnection or the key r leaves the display's collision panel lit with no
\* work to print its "WARN clear".
THEOREM PanelClears == Spec => PanelWillClear
<1> DEFINE Left == panel' /\ ~EndScheduled' /\ (panel => EndScheduled)
<1>1. ASSUME SimInv, [Next]_vars, Left PROVE (s_conn /\ ~s_conn') \/ PilotCancel
  <2>1. TypeOK
    BY <1>1 DEF SimInv
  <2>2. panel /\ EndScheduled
    BY <1>1, <2>1, SetWithEnd
  <2>3. Work \/ Disconnected \/ PilotCancel
    BY <1>1, <2>1, <2>2, EndTaken
  <2>4. ~Work
    BY <1>1 DEF Work, ClearFires, ResetFires, WarnClear
  <2>5. QED
    BY <2>3, <2>4 DEF Disconnected
<1>2. SimInv /\ [Next]_vars => [Left => (s_conn /\ ~s_conn') \/ PilotCancel]_vars
  BY <1>1
<1>3. QED
  BY <1>2, Invariance, PTL DEF Spec, PanelWillClear
=============================================================================
