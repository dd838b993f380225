-------------------------- MODULE WarnLink_proofs ---------------------------
(***************************************************************************)
(* Proofs about the way of an alert from the detector to the cockpit, for  *)
(* every set of aircraft, every table, and any times in the order of the   *)
(* code's 3, 5, 10 and 15 s.                                               *)
(*                                                                         *)
(* FrozenUnalerted rests on the lock of the row that froze the SIM, and    *)
(* that on the locks of the rows whose CRASH frames are still in the air.  *)
(* AlertUnbroken needs to know, of every conflict that has been calm for a *)
(* while, how the row's last frame and the cockpit's timer go together     *)
(* (Renewed): the last frame is older than the calm, or one is in the air, *)
(* or the cockpit's alert outlasts the time to the next one.  That the     *)
(* next one is not missed takes Handled: a row the tick has passed is not  *)
(* overdue.                                                                *)
(***************************************************************************)
EXTENDS WarnLink, Collision_proofs

AFrame == [type : {"COLLISION", "DIVERSION", "CRASH"}, pair : Pair]

LinkTypes ==
  /\ air \in Seq(AFrame)
  /\ calm \in [Other -> Nat]
  /\ clear_work \in Int /\ reset_work \in Int /\ frozen \in 0 .. FreezeTime
  /\ radio \in BOOLEAN /\ ready \in BOOLEAN /\ ticked \in BOOLEAN
  /\ panel \in BOOLEAN /\ g_warning_active \in BOOLEAN
  /\ forgotten \in BOOLEAN
  /\ ticked => handler = "idle"
  /\ handler = "sweep" => todo = {}

\* Without the operator's commands no tick meets the shell in tracked_remove.
ShellIdle == shell = "idle" /\ damage = 0

\* The row of a crash whose frame has not arrived yet has its whole lock ahead.
AirUnderLock ==
  \A n \in DOMAIN air : air[n].type = "CRASH" =>
    \A k \in DOMAIN s_tracked :
      s_tracked[k].pair = air[n].pair /\ s_tracked[k].level = "CRASH"
        => s_tracked[k].lock = CRASH_LOCK_MS

CulpritUnderLock ==
  frozen > 0 /\ ~forgotten =>
    \E k \in DOMAIN s_tracked :
      s_tracked[k].pair = culprit /\ s_tracked[k].level = "CRASH" /\ s_tracked[k].lock >= frozen

LockInv == AirUnderLock /\ CulpritUnderLock

-----------------------------------------------------------------------------
\* The cockpit is alerted and stays so for n units, or until something else ends it.
Alerted(n) ==
  /\ g_warning_active /\ panel
  /\ clear_work >= n \/ clear_work = Mobile!Off

\* The row t is the SIM's conflict with a, and the detector may alert of it.
Conflict(t, a) ==
  t.pair = PairKey(Sim, a) /\ t.level \in {"WARNING", "CRASH"} /\ Unlocked(t)

Underway == \E n \in DOMAIN air : air[n].type = "COLLISION"

\* The tick has dealt with row k.
Passed(k) ==
  \/ ticked
  \/ handler = "pairs" /\ k \in seen
  \/ handler = "sweep" /\ (k > row \/ k \in seen)

\* Conflict, SIM and link were there when the last unit passed.
Undisturbed ==
  \A a \in Other : calm[a] > 0 =>
    /\ ready /\ radio /\ Sim \in db
    /\ ~ticked /\ (handler = "idle" \/ PairKey(Sim, a) \in todo)
         => \E k \in DOMAIN s_tracked : Conflict(s_tracked[k], a)

Renewed ==
  \A a \in Other, k \in DOMAIN s_tracked :
    calm[a] > 0 /\ Conflict(s_tracked[k], a) =>
      \/ s_tracked[k].since >= calm[a]
      \/ Underway
      \/ Alerted(AlertTime - s_tracked[k].since)

Handled ==
  \A a \in Other, k \in DOMAIN s_tracked :
    calm[a] > 0 /\ Conflict(s_tracked[k], a) /\ Passed(k) => s_tracked[k].since <= RESEND_MS

StillAlerted == \A a \in Other : calm[a] > Renewal => Alerted(1)

AlertInv == Undisturbed /\ Renewed /\ Handled /\ StillAlerted

LinkInv == DetectorInv /\ LinkTypes /\ ShellIdle /\ LockInv /\ AlertInv

\* No two rows are of one pair.
LEMMA OneRow == ASSUME DetectorInv, ShellIdle PROVE Distinct(s_tracked)
  BY TableFacts DEF ShellIdle

LEMMA Times ==
  /\ AlertTime \in Nat /\ RESEND_MS \in Nat /\ RESEND_MS + 1 < AlertTime
  /\ FreezeTime \in Nat /\ CRASH_LOCK_MS \in Nat \ {0} /\ FreezeTime <= CRASH_LOCK_MS
  BY LinkAssumption, Numbers

LEMMA RowFields ==
  ASSUME DetectorInv, NEW k \in DOMAIN s_tracked
  PROVE  /\ s_tracked[k] \in Track /\ s_tracked[k].pair \in Pair
         /\ s_tracked[k].since \in 0 .. (RESEND_MS + 1) /\ s_tracked[k].lock \in 0 .. CRASH_LOCK_MS
<1>1. s_tracked[k] \in Track
  BY TableFacts
<1>2. QED
  BY <1>1 DEF Track

\* The SIM's pair with another aircraft.
LEMMA SimPair ==
  ASSUME NEW a \in Other PROVE PairKey(Sim, a) \in Pair /\ Names(PairKey(Sim, a), Sim)
<1>1. Sim \in Icao /\ a \in Icao /\ a # Sim
  BY CollisionAssumption DEF Other
<1>2. PairKey(Sim, a) \in Pair
  BY <1>1, KeyTyped
<1>3. QED
  BY <1>2 DEF PairKey, Names

-----------------------------------------------------------------------------
(* Steps after which nothing has been calm, or that leave the alert alone *)

LEMMA NoCalm == ASSUME \A a \in Other : calm'[a] = 0 PROVE AlertInv'
  BY Times DEF AlertInv, Undisturbed, Renewed, Handled, StillAlerted, Renewal

LEMMA CalmReset == ASSUME calm' = Calm0 PROVE AlertInv' /\ calm' \in [Other -> Nat]
<1>1. \A a \in Other : calm'[a] = 0
  BY DEF Calm0
<1>2. QED
  BY <1>1, NoCalm DEF Calm0

\* Without the link nothing is calm.
LEMMA CalmNeedsLink ==
  ASSUME LinkInv, ~radio \/ ~ready PROVE \A a \in Other : calm[a] = 0
  BY DEF LinkInv, LinkTypes, AlertInv, Undisturbed

\* Rows and CRASH frames stay; at most frames are lost.
LEMMA LocksKept ==
  ASSUME LinkInv, UNCHANGED <<s_tracked, frozen, culprit, forgotten>>,
         \A m \in DOMAIN air' : \E n \in DOMAIN air : air'[m] = air[n]
  PROVE  LockInv'
  BY DEF LinkInv, LockInv, AirUnderLock, CulpritUnderLock

-----------------------------------------------------------------------------
(* The frames of a step *)

LEMMA ConcatFacts ==
  ASSUME NEW S, NEW s \in Seq(S), NEW t \in Seq(S)
  PROVE  /\ s \o t \in Seq(S)
         /\ \A i \in DOMAIN s : i \in DOMAIN (s \o t) /\ (s \o t)[i] = s[i]
         /\ \A j \in DOMAIN t : Len(s) + j \in DOMAIN (s \o t) /\ (s \o t)[Len(s) + j] = t[j]
         /\ \A m \in DOMAIN (s \o t) :
              \/ m \in DOMAIN s
              \/ m - Len(s) \in DOMAIN t /\ (s \o t)[m] = t[m - Len(s)]
<1>1. /\ Len(s) \in Nat /\ Len(t) \in Nat /\ DOMAIN s = 1 .. Len(s) /\ DOMAIN t = 1 .. Len(t)
      /\ DOMAIN (s \o t) = 1 .. (Len(s) + Len(t))
      /\ \A m \in 1 .. (Len(s) + Len(t)) :
           (s \o t)[m] = IF m <= Len(s) THEN s[m] ELSE t[m - Len(s)]
  BY ConcatProperties
<1>2. s \o t \in Seq(S)
  BY ConcatProperties
<1>3. QED
  BY <1>1, <1>2

\* What a step puts in the air.
LEMMA CarriesFacts ==
  ASSUME LinkTypes, NEW W, \A w \in W : Frame(w) \in AFrame, Carries(W)
  PROVE  /\ air' \in Seq(AFrame)
         /\ \A n \in DOMAIN air : \E m \in DOMAIN air' : air'[m] = air[n]
         /\ \A w \in W : \E m \in DOMAIN air' : air'[m] = Frame(w)
         /\ \A m \in DOMAIN air' :
              (\E n \in DOMAIN air : air'[m] = air[n]) \/ (\E w \in W : air'[m] = Frame(w))
<1>0. PICK n \in 0 .. Len(out') : \E nth \in [1 .. n -> W] :
        /\ \A w \in W : \E i \in 1 .. n : nth[i] = w
        /\ air' = air \o [i \in 1 .. n |-> Frame(nth[i])]
  BY DEF Carries
<1>1. PICK nth \in [1 .. n -> W] :
        /\ \A w \in W : \E i \in 1 .. n : nth[i] = w
        /\ air' = air \o [i \in 1 .. n |-> Frame(nth[i])]
  BY <1>0
<1> DEFINE f == [i \in 1 .. n |-> Frame(nth[i])]
<1>2. n \in Nat /\ air \in Seq(AFrame)
  BY DEF LinkTypes
<1>3. /\ f \in Seq(AFrame) /\ DOMAIN f = 1 .. n
      /\ \A i \in 1 .. n : nth[i] \in W /\ f[i] = Frame(nth[i])
  BY <1>2
<1>4. air' = air \o f
  BY <1>1
<1> HIDE DEF f
<1>5. /\ air' \in Seq(AFrame)
      /\ \A i \in DOMAIN air : i \in DOMAIN air' /\ air'[i] = air[i]
      /\ \A j \in DOMAIN f : Len(air) + j \in DOMAIN air' /\ air'[Len(air) + j] = f[j]
      /\ \A m \in DOMAIN air' :
           m \in DOMAIN air \/ (m - Len(air) \in DOMAIN f /\ air'[m] = f[m - Len(air)])
  BY <1>2, <1>3, <1>4, ConcatFacts
<1>6. ASSUME NEW w \in W PROVE \E m \in DOMAIN air' : air'[m] = Frame(w)
  <2>1. PICK i \in 1 .. n : nth[i] = w
    BY <1>1
  <2>2. QED
    BY <1>3, <1>5, <2>1
<1>7. ASSUME NEW m \in DOMAIN air', m \notin DOMAIN air PROVE \E w \in W : air'[m] = Frame(w)
  <2>1. PICK j \in 1 .. n : air'[m] = f[j]
    BY <1>3, <1>5, <1>7
  <2>2. QED
    BY <1>3, <2>1
<1>8. QED
  BY <1>5, <1>6, <1>7

LEMMA FrameTyped ==
  ASSUME out' \in Seq(Call), NEW q \in Pair, todo \ todo' = {q}, NEW w \in Writes
  PROVE  Frame(w) \in AFrame /\ Frame(w).pair = q /\ Frame(w).type = out'[w].type
<1>1. out'[w] \in Call /\ out'[w].type # "missile_cancel"
  BY DEF Writes
<1>2. out'[w].type \in {"COLLISION", "DIVERSION", "CRASH"}
  BY <1>1 DEF Call
<1>3. (CHOOSE p \in todo \ todo' : TRUE) = q
  OBVIOUS
<1>4. QED
  BY <1>2, <1>3 DEF Frame, AFrame

LEMMA NoCalls == ASSUME LinkTypes, out' = <<>>, NEW W \in SUBSET Writes, Carries(W) PROVE air' = air
<1>1. W = {}
  BY DEF Writes
<1>2. PICK n \in 0 .. Len(out') : \E nth \in [1 .. n -> W] : air' = air \o [i \in 1 .. n |-> Frame(nth[i])]
  BY DEF Carries
<1>3. n = 0
  BY <1>1, <1>2
<1>4. air' = air \o <<>>
  BY <1>2, <1>3
<1>5. QED
  BY <1>4 DEF LinkTypes

\* work_handler builds the row k of pair p from old; the other rows stay.
RowBuilt(p, lvl, d, old, c, k) ==
  /\ old.pair = p /\ Unlocked(old)
  /\ s_tracked'[k] = Graded(old, lvl, d)
  /\ k \in DOMAIN s_tracked => s_tracked[k] = old
  /\ k \notin DOMAIN s_tracked => old.level = "CLEAR"
  /\ \A j \in DOMAIN s_tracked' : j # k => j \in DOMAIN s_tracked /\ s_tracked'[j] = s_tracked[j]
  /\ \A j \in DOMAIN s_tracked : j # k => j \in DOMAIN s_tracked' /\ s_tracked'[j] = s_tracked[j]
  /\ seen' = seen \cup {k}
  /\ out' = (IF DueToSend(old) THEN Alert(p, c, lvl) ELSE <<>>)
            \o (IF Crashes(old, lvl) THEN CrashCalls(p) ELSE <<>>)

LEMMA TrackedRow ==
  ASSUME DetectorInv, NEW p \in Pair, NEW lvl \in Judged, NEW d \in Suggested, PairTracked(p, lvl, d)
  PROVE  \E old \in Row, c \in Diversion, k \in DOMAIN s_tracked' : RowBuilt(p, lvl, d, old, c, k)
<1> DEFINE known  == FindTracked(p)
           k      == IF known = {} THEN Len(s_tracked) + 1 ELSE CHOOSE j \in known : TRUE
           old    == IF known = {} THEN NewTrack(p) ELSE s_tracked[k]
           c      == IF Transition(old) /\ HasSim(p) THEN d ELSE s_pair_diversion[k]
           t      == Graded(old, lvl, d)
<1>1. /\ Unlocked(old) /\ k <= MAX_TRACKED
      /\ s_tracked' = IF known = {} THEN Append(s_tracked, t) ELSE [s_tracked EXCEPT ![k] = t]
      /\ seen' = seen \cup {k}
      /\ out' = (IF DueToSend(old) THEN Alert(p, c, lvl) ELSE <<>>)
                \o (IF Crashes(old, lvl) THEN CrashCalls(p) ELSE <<>>)
  BY DEF PairTracked
<1>2. d \in Diversion /\ s_pair_diversion \in [1 .. MAX_TRACKED -> Diversion]
  BY DEF Suggested, DetectorInv, TypeOK
<1>3. s_tracked \in Seq(Track) /\ Len(s_tracked) \in Nat /\ DOMAIN s_tracked = 1 .. Len(s_tracked)
      /\ Len(s_tracked) <= MAX_TRACKED
  BY TableFacts
<1>4. CASE known = {}
  <2>1. k = Len(s_tracked) + 1 /\ old = NewTrack(p)
    BY <1>4
  <2>2. old \in Row /\ old.pair = p /\ old.level = "CLEAR"
    <3>1. NewTrack(p) \in Row /\ NewTrack(p).pair = p
      BY NewTrackTyped
    <3>2. NewTrack(p).level = "CLEAR"
      BY DEF NewTrack
    <3>3. QED
      BY <2>1, <3>1, <3>2
  <2>3. c \in Diversion
    BY <1>1, <1>2, <1>3, <2>1, Numbers
  <2>4. p \notin PairsIn(s_tracked) /\ s_tracked' = Append(s_tracked, t)
    BY <1>1, <1>3, <1>4, FindFacts DEF DetectorInv
  <2> HIDE DEF k, old, c, t
  <2>5. /\ DOMAIN s_tracked' = 1 .. (Len(s_tracked) + 1) /\ s_tracked'[k] = t
        /\ \A j \in 1 .. Len(s_tracked) : s_tracked'[j] = s_tracked[j]
    BY <1>3, <2>1, <2>4
  <2>6. k \in DOMAIN s_tracked' /\ k \notin DOMAIN s_tracked
    BY <1>3, <2>1, <2>5
  <2>7. /\ \A j \in DOMAIN s_tracked' : j # k => j \in DOMAIN s_tracked /\ s_tracked'[j] = s_tracked[j]
        /\ \A j \in DOMAIN s_tracked : j # k /\ j \in DOMAIN s_tracked' /\ s_tracked'[j] = s_tracked[j]
    BY <1>3, <2>1, <2>5
  <2>8. s_tracked'[k] = Graded(old, lvl, d)
    BY <2>5 DEF t
  <2>9. QED
    BY <1>1, <2>2, <2>3, <2>6, <2>7, <2>8 DEF RowBuilt
<1>5. CASE known # {}
  <2>1. k \in known /\ old = s_tracked[k]
    BY <1>5
  <2>2. k \in 1 .. Len(s_tracked) /\ old.pair = p
    BY <1>3, <2>1, FindFacts DEF DetectorInv
  <2>3. old \in Row
    BY <1>3, <2>1, <2>2, TrackIsRow
  <2>4. c \in Diversion
    BY <1>1, <1>2, <2>2
  <2>5. s_tracked' = [s_tracked EXCEPT ![k] = t]
    BY <1>1, <1>5
  <2> HIDE DEF k, old, c, t
  <2>6. /\ DOMAIN s_tracked' = DOMAIN s_tracked /\ s_tracked'[k] = t
        /\ \A j \in DOMAIN s_tracked : j # k => s_tracked'[j] = s_tracked[j]
    BY <1>3, <2>2, <2>5
  <2>7. k \in DOMAIN s_tracked' /\ k \in DOMAIN s_tracked
    BY <1>3, <2>2, <2>6
  <2>8. s_tracked'[k] = Graded(old, lvl, d)
    BY <2>6 DEF t
  <2>9. \A j \in DOMAIN s_tracked : s_tracked[j].pair # p => j # k
    BY <2>1, <2>2
  <2>10. QED
    BY <1>1, <2>1, <2>2, <2>3, <2>4, <2>6, <2>7, <2>8, <2>9 DEF RowBuilt
<1>6. QED
  BY <1>4, <1>5

LEMMA GradedFields ==
  ASSUME NEW t \in Row, NEW lvl, NEW d
  PROVE  /\ Graded(t, lvl, d).pair = t.pair /\ Graded(t, lvl, d).level = lvl
         /\ Graded(t, lvl, d).since = IF DueToSend(t) THEN 0 ELSE t.since
         /\ Graded(t, lvl, d).lock = IF Crashes(t, lvl) THEN CRASH_LOCK_MS ELSE t.lock
  BY DEF Graded, Row

\* Alerts are sent when due, and CRASH frames only for a new crash.
LEMMA CallsOfTracked ==
  ASSUME NEW p \in Pair, NEW c \in Diversion, NEW lvl \in Judged, NEW d, NEW old, NEW k,
         RowBuilt(p, lvl, d, old, c, k)
  PROVE  /\ DueToSend(old) /\ lvl # "ADVISORY" => \E w \in DOMAIN out' : out'[w].type = "COLLISION"
         /\ ~Crashes(old, lvl) => \A w \in DOMAIN out' : out'[w].type # "CRASH"
<1> DEFINE due == DueToSend(old)
           crash == Crashes(old, lvl)
           a == IF due THEN Alert(p, c, lvl) ELSE <<>>
           b == IF crash THEN CrashCalls(p) ELSE <<>>
<1>1. a \in Seq(Call) /\ b \in Seq(Call)
  BY AlertTyped, CrashCallsTyped
<1>2. \A w \in DOMAIN a : a[w].type # "CRASH"
  <2>1. CASE due /\ lvl = "ADVISORY"
    <3>1. a = <<[type |-> "DIVERSION", other |-> OtherSide(p), d |-> c]>> \o <<>>
      BY <2>1 DEF Alert
    <3>2. QED
      BY <3>1
  <2>2. CASE due /\ lvl # "ADVISORY"
    <3>1. a = <<[type |-> "DIVERSION", other |-> OtherSide(p), d |-> c]>>
                \o <<[type |-> "COLLISION", other |-> OtherSide(p)]>>
      BY <2>2 DEF Alert
    <3>2. QED
      BY <3>1
  <2>3. QED
    BY <2>1, <2>2
<1>3. due /\ lvl # "ADVISORY" => 2 \in DOMAIN a /\ a[2].type = "COLLISION"
  <2> SUFFICES ASSUME due, lvl # "ADVISORY" PROVE 2 \in DOMAIN a /\ a[2].type = "COLLISION"
    OBVIOUS
  <2>1. a = <<[type |-> "DIVERSION", other |-> OtherSide(p), d |-> c]>>
              \o <<[type |-> "COLLISION", other |-> OtherSide(p)]>>
    BY DEF Alert
  <2>2. QED
    BY <2>1
<1>4. out' = a \o b /\ (~crash => b = <<>>)
  BY Zenon DEF RowBuilt
<1> HIDE DEF a, b
<1>5. due /\ lvl # "ADVISORY" => 2 \in DOMAIN out' /\ out'[2].type = "COLLISION"
  BY <1>1, <1>3, <1>4, ConcatFacts
<1>6. ~crash => out' = a
  <2>1. a \o <<>> = a
    BY <1>1
  <2>2. QED
    BY <1>4, <2>1
<1>7. QED
  BY <1>2, <1>5, <1>6

-----------------------------------------------------------------------------
(* A step of work_handler: the frames *)

LEMMA Taken == ASSUME NEW q \in Pair, Classify(q) PROVE todo \ todo' = {q}
  BY DEF Classify

LEMMA TickAir ==
  ASSUME LinkInv, Tick, DetectorInv', NEW W \in SUBSET Writes, Carries(W)
  PROVE  /\ air' \in Seq(AFrame)
         /\ \A n \in DOMAIN air : \E m \in DOMAIN air' : air'[m] = air[n]
         /\ out' = <<>> => air' = air
         /\ \A q \in Pair : Classify(q) =>
              /\ \A w \in W : \E m \in DOMAIN air' : air'[m].type = out'[w].type
              /\ \A m \in DOMAIN air' :
                   \/ \E n \in DOMAIN air : air'[m] = air[n]
                   \/ air'[m].pair = q /\ \E w \in W : air'[m].type = out'[w].type
<1>1. out' \in Seq(Call) /\ LinkTypes
  BY DEF DetectorInv, TypeOK, LinkInv
<1>2. CASE out' = <<>>
  <2>1. air' = air /\ air \in Seq(AFrame)
    BY <1>1, <1>2, NoCalls DEF LinkTypes
  <2>2. W = {}
    BY <1>2 DEF Writes
  <2>3. QED
    BY <2>1, <2>2
<1>3. ASSUME NEW q \in Pair, Classify(q)
      PROVE  /\ air' \in Seq(AFrame)
             /\ \A n \in DOMAIN air : \E m \in DOMAIN air' : air'[m] = air[n]
             /\ \A w \in W : \E m \in DOMAIN air' : air'[m].type = out'[w].type
             /\ \A m \in DOMAIN air' :
                  \/ \E n \in DOMAIN air : air'[m] = air[n]
                  \/ air'[m].pair = q /\ \E w \in W : air'[m].type = out'[w].type
  <2>1. \A w \in W : Frame(w) \in AFrame /\ Frame(w).pair = q /\ Frame(w).type = out'[w].type
    BY <1>1, <1>3, Taken, FrameTyped
  <2>2. /\ air' \in Seq(AFrame)
        /\ \A n \in DOMAIN air : \E m \in DOMAIN air' : air'[m] = air[n]
        /\ \A w \in W : \E m \in DOMAIN air' : air'[m] = Frame(w)
        /\ \A m \in DOMAIN air' :
             (\E n \in DOMAIN air : air'[m] = air[n]) \/ (\E w \in W : air'[m] = Frame(w))
    BY <1>1, <2>1, CarriesFacts
  <2>3. QED
    BY <2>1, <2>2
<1>4. out' = <<>> \/ \E q \in Pair : Classify(q)
  BY DEF Tick, TickStart, SweepStart, SweepKeep, SweepDrop, TickEnd, PairClear, PairLocked, PairTracked,
         PairUntracked
<1>5. out' = <<>> => air' = air
  BY <1>1, NoCalls
<1>6. QED
  BY <1>2, <1>3, <1>4, <1>5

\* Of the steps that build no row, each row is one there was, with what the tick has
\* dealt with.
LEMMA QuietRows ==
  ASSUME LinkInv, DetectorInv', ~ticked, ticked' = TRUE => TickEnd,
         \/ TickStart \/ SweepStart \/ SweepKeep \/ SweepDrop \/ TickEnd
         \/ \E q \in Pair : PairClear(q) \/ PairLocked(q) \/ \E lvl \in Judged : PairUntracked(q, lvl)
  PROVE  \A k \in DOMAIN s_tracked' : \E j \in DOMAIN s_tracked :
           /\ s_tracked'[k] = s_tracked[j]
           /\ Passed(k)' => Passed(j) \/ ~Unlocked(s_tracked[j])
<1> SUFFICES ASSUME NEW k \in DOMAIN s_tracked'
             PROVE  \E j \in DOMAIN s_tracked :
                      /\ s_tracked'[k] = s_tracked[j]
                      /\ Passed(k)' => Passed(j) \/ ~Unlocked(s_tracked[j])
  OBVIOUS
<1>0. DetectorInv
  BY DEF LinkInv
<1>1. Len(s_tracked) \in Nat /\ DOMAIN s_tracked = 1 .. Len(s_tracked) /\ s_tracked \in Seq(Track)
  BY <1>0, TableFacts
<1>2. CASE TickStart
  BY <1>2 DEF TickStart, TickEnd, trackVars, Passed
<1>3. CASE SweepStart
  BY <1>1, <1>3 DEF SweepStart, TickEnd, trackVars, Passed
<1>4. CASE SweepKeep
  BY <1>0, <1>1, <1>4 DEF SweepKeep, TickEnd, trackVars, Passed, DetectorInv, TypeOK
<1>5. CASE SweepDrop
  <2>1. /\ handler = "sweep" /\ row > 0 /\ row \notin seen /\ handler' = "sweep" /\ seen' = seen
        /\ s_tracked' = TrackedRemove(s_tracked, row) /\ row' = row - 1
    BY <1>5 DEF SweepDrop
  <2>2. row \in 1 .. Len(s_tracked)
    BY <1>0, <1>1, <2>1 DEF DetectorInv, TypeOK, Cursors
  <2>3. k \in 1 .. (Len(s_tracked) - 1) /\ s_tracked'[k] = IF k < row THEN s_tracked[k] ELSE s_tracked[k + 1]
    BY <1>1, <2>1 DEF TrackedRemove
  <2>4. ~ticked'
    BY <1>5 DEF SweepDrop, TickEnd
  <2>5. CASE k < row
    <3>1. k \in DOMAIN s_tracked /\ s_tracked'[k] = s_tracked[k]
      BY <1>1, <2>3, <2>5
    <3>2. Passed(k)' => Passed(k)
      BY <1>1, <2>1, <2>2, <2>3, <2>4, <2>5 DEF Passed
    <3>3. QED
      BY <3>1, <3>2
  <2>6. CASE ~(k < row)
    <3>1. k + 1 \in DOMAIN s_tracked /\ s_tracked'[k] = s_tracked[k + 1] /\ k + 1 > row
      BY <1>1, <2>2, <2>3, <2>6
    <3>2. Passed(k + 1)
      BY <2>1, <3>1 DEF Passed
    <3>3. QED
      BY <3>1, <3>2
  <2>7. QED
    BY <2>5, <2>6
<1>6. CASE TickEnd
  <2>1. s_tracked' = s_tracked /\ handler = "sweep" /\ row = 0
    BY <1>6 DEF TickEnd, trackVars
  <2>2. k \in DOMAIN s_tracked /\ k > row
    BY <1>1, <2>1
  <2>3. QED
    BY <2>1, <2>2 DEF Passed
<1>7. ASSUME NEW q \in Pair, PairClear(q) \/ \E lvl \in Judged : PairUntracked(q, lvl)
      PROVE  \E j \in DOMAIN s_tracked :
               s_tracked'[k] = s_tracked[j] /\ (Passed(k)' => Passed(j) \/ ~Unlocked(s_tracked[j]))
  BY <1>7 DEF PairClear, PairUntracked, Classify, TickEnd, trackVars, Passed
<1>8. ASSUME NEW q \in Pair, PairLocked(q)
      PROVE  \E j \in DOMAIN s_tracked :
               s_tracked'[k] = s_tracked[j] /\ (Passed(k)' => Passed(j) \/ ~Unlocked(s_tracked[j]))
  <2>1. PICK l \in FindTracked(q) : s_tracked[l].lock > 0 /\ seen' = seen \cup {l}
    BY <1>8 DEF PairLocked
  <2>2. s_tracked' = s_tracked /\ handler = "pairs" /\ handler' = "pairs" /\ ~ticked'
    BY <1>8 DEF PairLocked, Classify, TickEnd, trackVars
  <2>3. k = l => ~Unlocked(s_tracked[k])
    BY <2>1 DEF Unlocked
  <2>4. QED
    BY <2>1, <2>2, <2>3 DEF Passed
<1>9. QED
  BY <1>2, <1>3, <1>4, <1>5, <1>6, <1>7, <1>8

\* The tick's steps, the one that builds a row apart.
LEMMA TickCases ==
  ASSUME Tick
  PROVE  \/ \/ TickStart \/ SweepStart \/ SweepKeep \/ SweepDrop \/ TickEnd
            \/ \E q \in Pair : PairClear(q) \/ PairLocked(q) \/ \E lvl \in Judged : PairUntracked(q, lvl)
         \/ \E q \in Pair, lvl \in Judged, d \in Suggested : PairTracked(q, lvl, d)
  BY DEF Tick

\* A row that such a step does not leave is the one the sweep drops.
LEMMA RowsStay ==
  ASSUME DetectorInv, Distinct(s_tracked), NEW j \in DOMAIN s_tracked,
         \/ TickStart \/ SweepStart \/ SweepKeep \/ SweepDrop \/ TickEnd
         \/ \E q \in Pair : PairClear(q) \/ PairLocked(q) \/ \E lvl \in Judged : PairUntracked(q, lvl)
  PROVE  \/ \E k \in DOMAIN s_tracked' : s_tracked'[k] = s_tracked[j]
         \/ s_tracked[j].pair \in TrackedPairs \ TrackedPairs'
<1>1. CASE SweepDrop
  <2>1. /\ row > 0 /\ s_tracked' = TrackedRemove(s_tracked, row)
        /\ Len(s_tracked) \in Nat /\ DOMAIN s_tracked = 1 .. Len(s_tracked) /\ s_tracked \in Seq(Track)
    BY <1>1, TableFacts DEF SweepDrop
  <2>2. row \in 1 .. Len(s_tracked)
    BY <1>1, <2>1 DEF SweepDrop, DetectorInv, TypeOK, Cursors
  <2>3. CASE j = row
    <3>1. PairsIn(TrackedRemove(s_tracked, row)) = PairsIn(s_tracked) \ {s_tracked[row].pair}
      BY <2>1, <2>2, RemoveFacts
    <3>2. TrackedPairs = PairsIn(s_tracked) /\ TrackedPairs' = PairsIn(s_tracked')
      BY DEF TrackedPairs, PairsIn
    <3>3. s_tracked[j].pair \in PairsIn(s_tracked)
      BY DEF PairsIn
    <3>4. QED
      BY <2>1, <2>3, <3>1, <3>2, <3>3
  <2>4. CASE j < row
    <3>1. j \in DOMAIN s_tracked' /\ s_tracked'[j] = s_tracked[j]
      BY <2>1, <2>2, <2>4 DEF TrackedRemove
    <3>2. QED
      BY <3>1
  <2>5. CASE j > row
    <3>1. j - 1 \in DOMAIN s_tracked' /\ s_tracked'[j - 1] = s_tracked[j]
      BY <2>1, <2>2, <2>5 DEF TrackedRemove
    <3>2. QED
      BY <3>1
  <2>6. QED
    BY <2>1, <2>2, <2>3, <2>4, <2>5
<1>2. CASE ~SweepDrop
  <2>1. s_tracked' = s_tracked
    BY <1>2 DEF TickStart, SweepStart, SweepKeep, TickEnd, PairClear, PairLocked, PairUntracked, trackVars
  <2>2. QED
    BY <2>1
<1>3. QED
  BY <1>1, <1>2

\* An untracked crash is in the air without a row; nothing else adds a CRASH frame
\* unless it locks the row.
LEMMA TickLocks ==
  ASSUME LinkInv, Tick, DetectorInv', NEW W \in SUBSET Writes, Carries(W), ~ticked, ticked' = TRUE => TickEnd,
         Distinct(s_tracked'), UNCHANGED <<frozen, culprit>>,
         forgotten' = (forgotten \/ culprit \in TrackedPairs \ TrackedPairs')
  PROVE  LockInv'
<1>0. DetectorInv /\ AirUnderLock /\ CulpritUnderLock /\ frozen \in 0 .. FreezeTime /\ Distinct(s_tracked)
  BY OneRow DEF LinkInv, LockInv, LinkTypes
<1>1. CASE \/ TickStart \/ SweepStart \/ SweepKeep \/ SweepDrop \/ TickEnd
           \/ \E q \in Pair : PairClear(q) \/ PairLocked(q) \/ \E lvl \in Judged : PairUntracked(q, lvl)
  <2>1. \A k \in DOMAIN s_tracked' : \E j \in DOMAIN s_tracked : s_tracked'[k] = s_tracked[j]
    BY <1>1, QuietRows
  <2>2. CulpritUnderLock'
    <3> SUFFICES ASSUME frozen > 0, ~forgotten, culprit \notin TrackedPairs \ TrackedPairs'
                 PROVE  \E k \in DOMAIN s_tracked' :
                          /\ s_tracked'[k].pair = culprit /\ s_tracked'[k].level = "CRASH"
                          /\ s_tracked'[k].lock >= frozen
      BY DEF CulpritUnderLock
    <3>1. PICK j \in DOMAIN s_tracked : /\ s_tracked[j].pair = culprit /\ s_tracked[j].level = "CRASH"
                                        /\ s_tracked[j].lock >= frozen
      BY <1>0 DEF CulpritUnderLock
    <3>2. \E k \in DOMAIN s_tracked' : s_tracked'[k] = s_tracked[j]
      BY <1>0, <1>1, <3>1, RowsStay
    <3>3. QED
      BY <3>1, <3>2
  <2>3. CASE out' = <<>>
    <3>1. air' = air
      BY <2>3, TickAir
    <3>2. AirUnderLock'
      BY <1>0, <2>1, <3>1 DEF AirUnderLock
    <3>3. QED
      BY <2>2, <3>2 DEF LockInv
  <2>4. CASE out' # <<>>
    <3>1. PICK q \in Pair : \E lvl \in Judged : PairUntracked(q, lvl)
      BY <1>1, <2>4 DEF TickStart, SweepStart, SweepKeep, SweepDrop, TickEnd, PairClear, PairLocked
    <3>2. Classify(q) /\ FindTracked(q) = {} /\ s_tracked' = s_tracked
      BY <3>1 DEF PairUntracked, trackVars
    <3>3. \A k \in DOMAIN s_tracked : s_tracked[k].pair # q
      BY <1>0, <3>2, TableFacts, FindFacts DEF DetectorInv, PairsIn
    <3>4. \A m \in DOMAIN air' : (\E n \in DOMAIN air : air'[m] = air[n]) \/ air'[m].pair = q
      BY <3>2, TickAir
    <3>5. AirUnderLock'
      BY <1>0, <3>2, <3>3, <3>4 DEF AirUnderLock
    <3>6. QED
      BY <2>2, <3>5 DEF LockInv
  <2>5. QED
    BY <2>3, <2>4
<1>2. ASSUME NEW q \in Pair, NEW lvl \in Judged, NEW d \in Suggested, PairTracked(q, lvl, d)
      PROVE  LockInv'
  <2>1. PICK old \in Row, c \in Diversion, k \in DOMAIN s_tracked' : RowBuilt(q, lvl, d, old, c, k)
    BY <1>0, <1>2, TrackedRow
  <2> DEFINE new == s_tracked'[k]
  <2>2. /\ new.pair = q /\ new.level = lvl
        /\ new.lock = IF Crashes(old, lvl) THEN CRASH_LOCK_MS ELSE old.lock
    BY <2>1, GradedFields DEF RowBuilt
  <2>3. old.lock = 0
    BY <2>1 DEF Unlocked, RowBuilt
  <2>4. lvl = "CRASH" => Crashes(old, lvl) \/ (k \in DOMAIN s_tracked /\ s_tracked[k] = old /\ old.level = "CRASH")
    BY <2>1 DEF Crashes, RowBuilt
  <2>5. ~Crashes(old, lvl) => \A w \in DOMAIN out' : out'[w].type # "CRASH"
    BY <2>1, CallsOfTracked
  <2>6. CulpritUnderLock'
    <3> SUFFICES ASSUME frozen > 0, ~forgotten
                 PROVE  \E j \in DOMAIN s_tracked' :
                          /\ s_tracked'[j].pair = culprit /\ s_tracked'[j].level = "CRASH"
                          /\ s_tracked'[j].lock >= frozen
      BY DEF CulpritUnderLock
    <3>1. PICK j \in DOMAIN s_tracked : /\ s_tracked[j].pair = culprit /\ s_tracked[j].level = "CRASH"
                                        /\ s_tracked[j].lock >= frozen
      BY <1>0 DEF CulpritUnderLock
    <3>2. j # k
      <4>1. j = k => s_tracked[j].lock = 0
        BY <2>1, <2>3 DEF RowBuilt
      <4>2. QED
        BY <1>0, <3>1, <4>1, Times
    <3>3. QED
      BY <2>1, <3>1, <3>2 DEF RowBuilt
  <2>7. AirUnderLock'
    <3> SUFFICES ASSUME NEW m \in DOMAIN air', air'[m].type = "CRASH", NEW j \in DOMAIN s_tracked',
                        s_tracked'[j].pair = air'[m].pair, s_tracked'[j].level = "CRASH"
                 PROVE  s_tracked'[j].lock = CRASH_LOCK_MS
      BY DEF AirUnderLock
    <3>1. CASE j = k /\ Crashes(old, lvl)
      BY <2>2, <3>1
    <3>2. CASE \E n \in DOMAIN air : air'[m] = air[n]
      <4>1. PICK n \in DOMAIN air : air'[m] = air[n]
        BY <3>2
      <4>2. CASE j # k
        BY <1>0, <2>1, <4>1, <4>2 DEF AirUnderLock, RowBuilt
      <4>3. CASE j = k /\ ~Crashes(old, lvl)
        <5>1. s_tracked[k] = old /\ k \in DOMAIN s_tracked /\ old.level = "CRASH" /\ old.pair = air[n].pair
          BY <2>1, <2>2, <2>4, <4>1, <4>3 DEF RowBuilt
        <5>2. old.lock = CRASH_LOCK_MS
          BY <1>0, <4>1, <5>1 DEF AirUnderLock
        <5>3. QED
          BY <2>3, <5>2, Times
      <4>4. QED
        BY <3>1, <4>2, <4>3
    <3>3. CASE ~\E n \in DOMAIN air : air'[m] = air[n]
      <4>1. Classify(q)
        BY <1>2 DEF PairTracked
      <4>2. air'[m].pair = q /\ \E w \in W : out'[w].type = "CRASH"
        BY <3>3, <4>1, TickAir
      <4>3. Crashes(old, lvl)
        BY <2>5, <4>2 DEF Writes
      <4>4. j = k
        BY <2>2, <4>2 DEF Distinct
      <4>5. QED
        BY <3>1, <4>3, <4>4
    <3>4. QED
      BY <3>2, <3>3
  <2>8. QED
    BY <2>6, <2>7 DEF LockInv
<1>3. QED
  BY <1>1, <1>2, TickCases

-----------------------------------------------------------------------------
(* A step of work_handler whose frames all get through: the alert *)

LEMMA TickUnderway ==
  ASSUME LinkInv, Tick, DetectorInv', Carries(Writes), Underway PROVE Underway'
<1>1. Writes \in SUBSET Writes
  OBVIOUS
<1>2. \A n \in DOMAIN air : \E m \in DOMAIN air' : air'[m] = air[n]
  BY <1>1, TickAir
<1>3. QED
  BY <1>2 DEF Underway

LEMMA QuietAlert ==
  ASSUME LinkInv, Tick, DetectorInv', Carries(Writes), ~ticked, ticked' = TRUE => TickEnd,
         TickEnd => ticked' = TRUE,
         UNCHANGED <<mobileVars, radio, ready, calm>>,
         \/ TickStart \/ SweepStart \/ SweepKeep \/ SweepDrop \/ TickEnd
         \/ \E q \in Pair : PairClear(q) \/ PairLocked(q) \/ \E lvl \in Judged : PairUntracked(q, lvl)
  PROVE  AlertInv'
<1>0. DetectorInv /\ Undisturbed /\ Renewed /\ Handled /\ StillAlerted
  BY DEF LinkInv, AlertInv
<1>1. \A k \in DOMAIN s_tracked' : \E j \in DOMAIN s_tracked :
        /\ s_tracked'[k] = s_tracked[j]
        /\ Passed(k)' => Passed(j) \/ ~Unlocked(s_tracked[j])
  BY QuietRows
<1>2. UNCHANGED <<g_warning_active, panel, clear_work, reset_work>>
  BY DEF mobileVars
<1>3. Undisturbed'
  <2> SUFFICES ASSUME NEW a \in Other, calm[a] > 0
               PROVE  /\ ready /\ radio /\ Sim \in db'
                      /\ ~ticked' /\ (handler' = "idle" \/ PairKey(Sim, a) \in todo')
                           => \E k \in DOMAIN s_tracked' : Conflict(s_tracked'[k], a)
    BY DEF Undisturbed, Conflict, Unlocked
  <2>1. ready /\ radio /\ Sim \in db /\ db' = db
    BY <1>0 DEF Undisturbed, TickStart, SweepStart, SweepKeep, SweepDrop, TickEnd, PairClear, PairLocked,
                PairUntracked, Classify
  <2>2. ASSUME ~ticked', handler' = "idle" \/ PairKey(Sim, a) \in todo'
        PROVE  \E k \in DOMAIN s_tracked' : Conflict(s_tracked'[k], a)
    <3>1. CASE TickEnd
      BY <2>2, <3>1
    <3>2. CASE SweepDrop
      <4>1. todo' = {} /\ handler' = "sweep"
        BY <3>2 DEF SweepDrop, LinkInv, LinkTypes
      <4>2. QED
        BY <2>2, <4>1
    <3>3. CASE ~TickEnd /\ ~SweepDrop
      <4>1. /\ s_tracked' = s_tracked /\ handler' # "idle"
            /\ handler = "idle" \/ todo' \subseteq todo
        BY <3>3 DEF TickStart, SweepStart, SweepKeep, PairClear, PairLocked, PairUntracked, Classify, trackVars
      <4>2. \E k \in DOMAIN s_tracked : Conflict(s_tracked[k], a)
        BY <1>0, <2>2, <4>1 DEF Undisturbed
      <4>3. QED
        BY <4>1, <4>2
    <3>4. QED
      BY <3>1, <3>2, <3>3
  <2>3. QED
    BY <2>1, <2>2
<1>4. Renewed'
  <2> SUFFICES ASSUME NEW a \in Other, NEW k \in DOMAIN s_tracked', calm[a] > 0, Conflict(s_tracked'[k], a)
               PROVE  \/ s_tracked'[k].since >= calm[a]
                      \/ Underway'
                      \/ Alerted(AlertTime - s_tracked'[k].since)
    BY <1>2 DEF Renewed, Conflict, Unlocked, Alerted
  <2>1. QED
    BY <1>0, <1>1, TickUnderway DEF Renewed
<1>5. Handled'
  <2> SUFFICES ASSUME NEW a \in Other, NEW k \in DOMAIN s_tracked', calm[a] > 0, Conflict(s_tracked'[k], a),
                      Passed(k)'
               PROVE  s_tracked'[k].since <= RESEND_MS
    BY DEF Handled, Conflict, Unlocked
  <2>1. PICK j \in DOMAIN s_tracked : s_tracked'[k] = s_tracked[j] /\ (Passed(j) \/ ~Unlocked(s_tracked[j]))
    BY <1>1
  <2>2. QED
    BY <1>0, <2>1 DEF Handled, Conflict
<1>6. StillAlerted'
  BY <1>0, <1>2 DEF StillAlerted, Alerted
<1>7. QED
  BY <1>3, <1>4, <1>5, <1>6 DEF AlertInv

LEMMA TrackedAlert ==
  ASSUME LinkInv, Tick, DetectorInv', Distinct(s_tracked'), Carries(Writes), ~ticked, ~ticked',
         UNCHANGED <<mobileVars, radio, ready, calm>>,
         NEW q \in Pair, NEW lvl \in Judged, NEW d \in Suggested, PairTracked(q, lvl, d)
  PROVE  AlertInv'
<1>0. DetectorInv /\ Undisturbed /\ Renewed /\ Handled /\ StillAlerted
  BY DEF LinkInv, AlertInv
<1>1. PICK old \in Row, c \in Diversion, k \in DOMAIN s_tracked' : RowBuilt(q, lvl, d, old, c, k)
  BY <1>0, TrackedRow
<1>2. /\ s_tracked'[k].pair = q /\ s_tracked'[k].level = lvl /\ old.pair = q
      /\ s_tracked'[k].since = IF DueToSend(old) THEN 0 ELSE old.since
  BY <1>1, GradedFields DEF RowBuilt
<1>3. \A j \in DOMAIN s_tracked' : j # k => j \in DOMAIN s_tracked /\ s_tracked'[j] = s_tracked[j]
  BY <1>1 DEF RowBuilt
<1>4. UNCHANGED <<g_warning_active, panel, clear_work, reset_work>>
  BY DEF mobileVars
<1>5. handler = "pairs" /\ handler' = "pairs" /\ q \in todo /\ todo' = todo \ {q} /\ db' = db
  BY DEF PairTracked, Classify
<1>6. seen' = seen \cup {k}
  BY <1>1 DEF RowBuilt
\* In a calm conflict the SIM is there, and the row was a conflict before.
<1>7. ASSUME NEW a \in Other, calm[a] > 0, q = PairKey(Sim, a)
      PROVE  HasSim(q) /\ k \in DOMAIN s_tracked /\ s_tracked[k] = old /\ Conflict(old, a)
  <2>1. Sim \in db /\ \E j \in DOMAIN s_tracked : Conflict(s_tracked[j], a)
    BY <1>0, <1>5, <1>7 DEF Undisturbed
  <2>2. PICK j \in DOMAIN s_tracked : Conflict(s_tracked[j], a)
    BY <2>1
  <2>3. j = k
    <3>1. s_tracked[j].pair = q /\ (j # k => j \in DOMAIN s_tracked')
      <4>1. s_tracked[j].pair = q
        BY <1>7, <2>2 DEF Conflict
      <4>2. DOMAIN s_tracked \subseteq DOMAIN s_tracked'
        <5>1. Len(s_tracked') >= Len(s_tracked)
          BY DEF PairTracked
        <5>2. QED
          BY <5>1
      <4>3. QED
        BY <4>1, <4>2
    <3>2. QED
      BY <1>1, <1>2, <3>1 DEF Distinct, RowBuilt
  <2>4. s_tracked[k] = old
    BY <1>1, <2>2, <2>3 DEF RowBuilt
  <2>5. HasSim(q)
    BY <1>7, <2>1, SimPair DEF HasSim
  <2>6. QED
    BY <2>2, <2>3, <2>4, <2>5
<1>8. Undisturbed'
  <2> SUFFICES ASSUME NEW a \in Other, calm[a] > 0
               PROVE  /\ ready /\ radio /\ Sim \in db
                      /\ PairKey(Sim, a) \in todo' => \E j \in DOMAIN s_tracked' : Conflict(s_tracked'[j], a)
    BY <1>5 DEF Undisturbed, Conflict, Unlocked
  <2>1. ready /\ radio /\ Sim \in db
    BY <1>0 DEF Undisturbed
  <2>2. ASSUME PairKey(Sim, a) \in todo' PROVE \E j \in DOMAIN s_tracked' : Conflict(s_tracked'[j], a)
    <3>1. PairKey(Sim, a) \in todo /\ PairKey(Sim, a) # q
      BY <1>5, <2>2
    <3>2. PICK j \in DOMAIN s_tracked : Conflict(s_tracked[j], a)
      BY <1>0, <1>5, <3>1 DEF Undisturbed
    <3>3. s_tracked[j].pair # q
      BY <3>1, <3>2 DEF Conflict
    <3>4. j \in DOMAIN s_tracked' /\ s_tracked'[j] = s_tracked[j]
      <4>1. j = k => s_tracked[j].pair = q
        BY <1>1 DEF RowBuilt
      <4>2. QED
        BY <1>1, <3>3, <4>1 DEF RowBuilt
    <3>5. QED
      BY <3>2, <3>4
  <2>3. QED
    BY <2>1, <2>2
<1>9. Renewed'
  <2> SUFFICES ASSUME NEW a \in Other, NEW j \in DOMAIN s_tracked', calm[a] > 0, Conflict(s_tracked'[j], a)
               PROVE  \/ s_tracked'[j].since >= calm[a]
                      \/ Underway'
                      \/ Alerted(AlertTime - s_tracked'[j].since)
    BY <1>4 DEF Renewed, Conflict, Unlocked, Alerted
  <2>1. CASE j # k
    BY <1>0, <1>3, <2>1, TickUnderway DEF Renewed
  <2>2. CASE j = k /\ DueToSend(old)
    <3>1. lvl # "ADVISORY"
      BY <1>2, <2>2 DEF Conflict
    <3>2. DueToSend(old) /\ lvl # "ADVISORY" => \E w \in DOMAIN out' : out'[w].type = "COLLISION"
      BY <1>1, CallsOfTracked
    <3>3. PICK w \in Writes : out'[w].type = "COLLISION"
      BY <2>2, <3>1, <3>2 DEF Writes
    <3>4. Classify(q) /\ Writes \in SUBSET Writes
      BY DEF PairTracked
    <3>5. \E m \in DOMAIN air' : air'[m].type = "COLLISION"
      BY <3>3, <3>4, TickAir
    <3>6. QED
      BY <3>5 DEF Underway
  <2>3. CASE j = k /\ ~DueToSend(old)
    <3>1. s_tracked'[k].since = s_tracked[k].since /\ Conflict(s_tracked[k], a) /\ k \in DOMAIN s_tracked
      BY <1>2, <1>7, <2>3 DEF Conflict
    <3>2. QED
      BY <1>0, <2>3, <3>1, TickUnderway DEF Renewed
  <2>4. QED
    BY <2>1, <2>2, <2>3
<1>10. Handled'
  <2> SUFFICES ASSUME NEW a \in Other, NEW j \in DOMAIN s_tracked', calm[a] > 0, Conflict(s_tracked'[j], a),
                      j \in seen'
               PROVE  s_tracked'[j].since <= RESEND_MS
    BY <1>5 DEF Handled, Conflict, Unlocked, Passed
  <2>1. CASE j # k
    BY <1>0, <1>3, <1>5, <1>6, <2>1 DEF Handled, Passed
  <2>2. CASE j = k
    <3>1. HasSim(old.pair)
      BY <1>2, <1>7, <2>2 DEF Conflict
    <3>2. ~DueToSend(old) => ~(old.since > RESEND_MS)
      BY <3>1 DEF DueToSend
    <3>3. old.since \in 0 .. (RESEND_MS + 1)
      BY DEF Row
    <3>4. QED
      BY <1>2, <2>2, <3>2, <3>3, Times
  <2>3. QED
    BY <2>1, <2>2
<1>11. StillAlerted'
  BY <1>0, <1>4 DEF StillAlerted, Alerted
<1>12. QED
  BY <1>8, <1>9, <1>10, <1>11 DEF AlertInv

-----------------------------------------------------------------------------
(* The steps *)

LEMMA HandlerKeeps ==
  ASSUME LinkInv, HandlerStep
  PROVE  /\ DetectorInv' /\ ShellIdle' /\ Distinct(s_tracked')
         /\ ~ticked /\ UNCHANGED <<mobileVars, radio, ready, culprit, frozen>>
         /\ forgotten' = (forgotten \/ culprit \in TrackedPairs \ TrackedPairs')
         /\ Tick /\ (ticked' = TRUE => TickEnd) /\ (TickEnd => ticked' = TRUE) /\ ticked' \in BOOLEAN
         /\ (ticked' => handler' = "idle") /\ (handler' = "sweep" => todo' = {})
<1>1. DetectorInv'
  <2>1. DetectorInv /\ Next
    BY DEF LinkInv, HandlerStep, Next
  <2>2. QED
    BY <2>1, StepKeeps
<1>2. ~ticked
  <2>1. ticked => handler = "idle"
    BY DEF LinkInv, LinkTypes
  <2>2. QED
    BY <2>1 DEF HandlerStep
<1>3. (ticked' = TRUE => TickEnd) /\ (TickEnd => ticked' = TRUE) /\ ticked' \in BOOLEAN
  <2>1. ticked' = (ticked \/ TickEnd) /\ ticked = FALSE
    BY <1>2 DEF HandlerStep, LinkInv, LinkTypes
  <2>2. QED
    BY <2>1, Zenon
<1>4. TickEnd => handler' = "idle"
  BY DEF TickEnd
<1>5. handler' = "sweep" => todo' = {}
  <2>1. handler = "sweep" => todo = {}
    BY DEF LinkInv, LinkTypes
  <2>2. QED
    BY <2>1 DEF HandlerStep, Tick, TickStart, SweepStart, SweepKeep, SweepDrop, TickEnd, PairClear, PairLocked,
                PairTracked, PairUntracked, Classify
<1>6. ShellIdle'
  <2>1. shell = "idle" /\ damage = 0
    BY DEF LinkInv, ShellIdle
  <2>2. shell' = shell
    BY DEF HandlerStep, Tick, TickStart, SweepStart, SweepKeep, SweepDrop, TickEnd, PairClear, PairLocked,
           PairTracked, PairUntracked, Classify, ghostVars
  <2>3. damage' = 0
    <3>1. CASE TickStart
      BY <2>1, <3>1 DEF TickStart
    <3>2. CASE TickEnd
      BY <2>1, <3>2 DEF TickEnd
    <3>3. CASE SweepStart \/ SweepKeep \/ SweepDrop
      BY <2>1, <3>3 DEF SweepStart, SweepKeep, SweepDrop
    <3>4. ASSUME NEW p \in Pair, PairClear(p) \/ PairLocked(p)
          PROVE  damage' = 0
      BY <2>1, <3>4 DEF PairClear, PairLocked, Classify
    <3>5. ASSUME NEW p \in Pair, NEW lvl \in Judged,
                 (\E d \in Suggested : PairTracked(p, lvl, d)) \/ PairUntracked(p, lvl)
          PROVE  damage' = 0
      BY <2>1, <3>5 DEF PairTracked, PairUntracked, Classify
    <3>6. QED
      BY <3>1, <3>2, <3>3, <3>4, <3>5 DEF HandlerStep, Tick
  <2>4. QED
    BY <2>1, <2>2, <2>3 DEF ShellIdle
<1>7. Distinct(s_tracked')
  BY <1>1, <1>6 DEF ShellIdle, DetectorInv, TableInv, OneTrackPerPair, Distinct
<1>8. QED
  BY <1>1, <1>2, <1>3, <1>4, <1>5, <1>6, <1>7 DEF HandlerStep, mobileVars

LEMMA Forgets == ASSUME LinkInv, HandlerStep PROVE forgotten' \in BOOLEAN
<1>1. forgotten' = (forgotten \/ culprit \in TrackedPairs \ TrackedPairs') /\ forgotten \in BOOLEAN
  BY DEF HandlerStep, LinkInv, LinkTypes
<1>2. QED
  BY <1>1, Zenon

LEMMA SentKeeps == ASSUME LinkInv, Sent PROVE LinkInv'
<1>1. HandlerStep /\ Carries(Writes) /\ Writes \in SUBSET Writes /\ calm' = calm
  BY DEF Sent
<1>2. LinkTypes'
  <2>1. air' \in Seq(AFrame)
    BY <1>1, HandlerKeeps, TickAir
  <2>2. QED
    BY <1>1, <2>1, HandlerKeeps, Forgets DEF LinkInv, LinkTypes, mobileVars
<1>3. LockInv'
  BY <1>1, HandlerKeeps, TickLocks
<1>4. AlertInv'
  <2>1. ASSUME NEW q \in Pair, NEW lvl \in Judged, NEW d \in Suggested, PairTracked(q, lvl, d)
        PROVE  AlertInv'
    <3>1. ~ticked'
      <4>1. ~TickEnd
        BY <2>1 DEF PairTracked, Classify, TickEnd
      <4>2. QED
        BY <1>1, <4>1, HandlerKeeps
    <3>2. QED
      BY <1>1, <2>1, <3>1, HandlerKeeps, TrackedAlert
  <2>2. QED
    BY <1>1, <2>1, HandlerKeeps, TickCases, QuietAlert
<1>5. QED
  BY <1>1, <1>2, <1>3, <1>4, HandlerKeeps DEF LinkInv

LEMMA LostKeeps == ASSUME LinkInv, Lost PROVE LinkInv'
<1>1. HandlerStep /\ calm' = Calm0
  BY DEF Lost
<1>2. PICK W \in SUBSET Writes : Carries(W)
  BY DEF Lost
<1>3. LinkTypes'
  <2>1. air' \in Seq(AFrame)
    BY <1>1, <1>2, HandlerKeeps, TickAir
  <2>2. QED
    BY <1>1, <2>1, HandlerKeeps, Forgets, CalmReset DEF LinkInv, LinkTypes, mobileVars
<1>4. LockInv'
  BY <1>1, <1>2, HandlerKeeps, TickLocks
<1>5. QED
  BY <1>1, <1>3, <1>4, HandlerKeeps, CalmReset DEF LinkInv

\* Steps of the database and of the link, after which nothing has been calm.
LEMMA DisturbedKeeps ==
  ASSUME LinkInv, Traffic \/ Fade \/ CentralDisconnected \/ MobileDisconnected \/ Reconnected \/ Discovered
  PROVE  LinkInv'
<1>1. DetectorInv'
  <2>1. DetectorInv
    BY DEF LinkInv
  <2>2. CASE Traffic
    <3>1. Next
      BY <2>2 DEF Traffic, Next, Environment
    <3>2. QED
      BY <2>1, <3>1, StepKeeps
  <2>3. CASE Fade \/ CentralDisconnected \/ MobileDisconnected \/ Reconnected \/ Discovered
    <3>1. UNCHANGED vars
      BY <2>3 DEF Fade, CentralDisconnected, MobileDisconnected, Reconnected, Discovered
    <3>2. QED
      BY <2>1, <3>1, StepKeeps
  <2>4. QED
    BY <2>2, <2>3
<1>2. /\ UNCHANGED <<s_tracked, handler, todo, ticked, culprit, forgotten, shell, damage>>
      /\ air' = air \/ air' = <<>>
  BY DEF Traffic, Report, Vanish, trackVars, tickVars, ghostVars, Fade, CentralDisconnected, MobileDisconnected,
         Reconnected, Discovered, linkVars, histVars, crashVars, vars
<1>3. /\ UNCHANGED <<frozen, panel>> /\ clear_work' \in {clear_work, -1} /\ reset_work' = reset_work
      /\ g_warning_active' \in {g_warning_active, FALSE}
  <2>1. CASE Traffic \/ Fade \/ CentralDisconnected \/ Discovered
    BY <2>1 DEF Traffic, Fade, CentralDisconnected, Discovered, mobileVars
  <2>2. CASE MobileDisconnected
    BY <2>2 DEF MobileDisconnected, Mobile!Disconnected, Mobile!Off, Mobile!pc
  <2>3. CASE Reconnected
    BY <2>3 DEF Reconnected, Mobile!Connected, Mobile!timers, Mobile!pc
  <2>4. QED
    BY <2>1, <2>2, <2>3
<1>4. radio' \in BOOLEAN /\ ready' \in BOOLEAN
  BY DEF LinkInv, LinkTypes, Traffic, Fade, CentralDisconnected, MobileDisconnected, Reconnected, Discovered, linkVars
<1>5. \A a \in Other : calm'[a] = 0
  <2>1. CASE Traffic \/ Fade
    BY <2>1 DEF Traffic, Fade, Calm0
  <2>2. CASE CentralDisconnected \/ MobileDisconnected \/ Reconnected \/ Discovered
    <3>1. calm' = calm /\ (~radio \/ ~ready)
      BY <2>2 DEF CentralDisconnected, MobileDisconnected, Reconnected, Discovered, histVars
    <3>2. QED
      BY <3>1, CalmNeedsLink
  <2>3. QED
    BY <2>1, <2>2
<1>6. calm' \in [Other -> Nat]
  BY DEF LinkInv, LinkTypes, Traffic, Fade, CentralDisconnected, MobileDisconnected, Reconnected, Discovered, Calm0,
         histVars
<1>7. LinkTypes'
  <2>1. clear_work' \in Int /\ reset_work' \in Int /\ frozen' \in 0 .. FreezeTime
    BY <1>3 DEF LinkInv, LinkTypes
  <2>2. panel' \in BOOLEAN /\ g_warning_active' \in BOOLEAN
    BY <1>3 DEF LinkInv, LinkTypes
  <2>3. air' \in Seq(AFrame)
    <3>1. air \in Seq(AFrame) /\ <<>> \in Seq(AFrame)
      BY DEF LinkInv, LinkTypes
    <3>2. QED
      BY <1>2, <3>1
  <2>4. ticked' \in BOOLEAN /\ (ticked' => handler' = "idle") /\ (handler' = "sweep" => todo' = {})
    BY <1>2 DEF LinkInv, LinkTypes
  <2>5. forgotten' \in BOOLEAN
    BY <1>2 DEF LinkInv, LinkTypes
  <2>6. QED
    BY <1>4, <1>6, <2>1, <2>2, <2>3, <2>4, <2>5 DEF LinkTypes
<1>8. LockInv'
  BY <1>2, <1>3, LocksKept
<1>9. QED
  BY <1>1, <1>2, <1>5, <1>7, <1>8, NoCalm DEF LinkInv, ShellIdle

\* The reset after a crash and the pilot's.
LEMMA SilencedKeeps == ASSUME LinkInv, Silenced PROVE LinkInv'
<1>1. DetectorInv'
  <2>1. DetectorInv /\ UNCHANGED vars
    BY DEF LinkInv, Silenced
  <2>2. QED
    BY <2>1, StepKeeps
<1>2. UNCHANGED <<s_tracked, handler, todo, shell, damage, ticked, air, radio, ready>> /\ calm' = Calm0
  BY DEF Silenced, vars, trackVars, tickVars, ghostVars, linkVars
<1>3. /\ UNCHANGED <<frozen, culprit, forgotten>> \/ (frozen' = 0 /\ forgotten' = TRUE)
      /\ clear_work' \in {clear_work, -1} /\ reset_work' \in {reset_work, -1}
      /\ g_warning_active' = FALSE /\ panel' \in {panel, FALSE}
  BY DEF Silenced, crashVars, Mobile!ResetFires, Mobile!PilotSettle, Mobile!WarnClear, Mobile!Off, Mobile!timers,
         Mobile!pc
<1>4. LinkTypes'
  <2>1. clear_work' \in Int /\ reset_work' \in Int /\ frozen' \in 0 .. FreezeTime
    BY <1>3, Times DEF LinkInv, LinkTypes
  <2>2. panel' \in BOOLEAN /\ g_warning_active' \in BOOLEAN /\ forgotten' \in BOOLEAN
    BY <1>3 DEF LinkInv, LinkTypes
  <2>3. QED
    BY <1>2, <2>1, <2>2, CalmReset DEF LinkInv, LinkTypes
<1>5. LockInv'
  <2>1. AirUnderLock'
    BY <1>2 DEF LinkInv, LockInv, AirUnderLock
  <2>2. CulpritUnderLock'
    BY <1>2, <1>3 DEF LinkInv, LockInv, CulpritUnderLock
  <2>3. QED
    BY <2>1, <2>2 DEF LockInv
<1>6. QED
  BY <1>1, <1>2, <1>4, <1>5, CalmReset DEF LinkInv, ShellIdle

\* Steps that leave the detector, the link and the history alone, and an alert that is
\* to last at least a unit.
LEMMA CockpitAlert ==
  ASSUME LinkInv, UNCHANGED <<vars, radio, ready, ticked, calm>>,
         \A n \in 1 .. AlertTime : Alerted(n) => Alerted(n)',
         Underway => Underway' \/ \A n \in 1 .. AlertTime : Alerted(n)'
  PROVE  AlertInv'
<1>0. DetectorInv /\ Undisturbed /\ Renewed /\ Handled /\ StillAlerted
  BY DEF LinkInv, AlertInv
<1>1. UNCHANGED <<db, s_tracked, handler, todo, seen, row>>
  BY DEF vars, trackVars, tickVars
<1>2. Undisturbed' /\ Handled'
  BY <1>0, <1>1 DEF Undisturbed, Handled, Conflict, Unlocked, Passed
<1>3. Renewed'
  <2> SUFFICES ASSUME NEW a \in Other, NEW k \in DOMAIN s_tracked, calm[a] > 0, Conflict(s_tracked[k], a)
               PROVE  \/ s_tracked[k].since >= calm[a]
                      \/ Underway'
                      \/ Alerted(AlertTime - s_tracked[k].since)'
    BY <1>1 DEF Renewed, Conflict, Unlocked, Alerted
  <2>1. AlertTime - s_tracked[k].since \in 1 .. AlertTime
    BY <1>0, RowFields, Times
  <2>2. \/ s_tracked[k].since >= calm[a] \/ Underway \/ Alerted(AlertTime - s_tracked[k].since)
    BY <1>0 DEF Renewed
  <2> DEFINE m == AlertTime - s_tracked[k].since
  <2>3. Alerted(m) => Alerted(AlertTime - s_tracked[k].since)'
    <3>1. ASSUME NEW n \in 1 .. AlertTime, n = m, Alerted(n) PROVE Alerted(AlertTime - s_tracked[k].since)'
      <4>1. Alerted(n)'
        BY <3>1
      <4>2. QED
        BY <1>1, <3>1, <4>1 DEF Alerted
    <3>2. QED
      BY <2>1, <3>1
  <2>4. (\A n \in 1 .. AlertTime : Alerted(n)') => Alerted(AlertTime - s_tracked[k].since)'
    BY <1>1, <2>1 DEF Alerted
  <2>5. QED
    BY <2>2, <2>3, <2>4
<1>4. StillAlerted'
  <2>1. 1 \in 1 .. AlertTime
    BY Times
  <2>2. QED
    BY <1>0, <2>1 DEF StillAlerted
<1>5. QED
  BY <1>2, <1>3, <1>4 DEF AlertInv

\* A frame arrives at the cockpit.
LEMMA DeliverKeeps == ASSUME LinkInv, Deliver PROVE LinkInv'
<1>0. DetectorInv /\ LinkTypes /\ AirUnderLock /\ CulpritUnderLock
  BY DEF LinkInv, LockInv
<1>1. /\ radio /\ air # <<>> /\ air' = Tail(air)
      /\ UNCHANGED <<vars, radio, ready, ticked, calm>>
  BY DEF Deliver
<1>2. UNCHANGED <<s_tracked, handler, todo, shell, damage>>
  BY <1>1 DEF vars, trackVars, tickVars, ghostVars
<1>3. DetectorInv'
  BY <1>0, <1>1, StepKeeps
<1>4. /\ air \in Seq(AFrame) /\ air' \in Seq(AFrame) /\ Head(air) = air[1] /\ 1 \in DOMAIN air
      /\ \A m \in DOMAIN air' : m + 1 \in DOMAIN air /\ air'[m] = air[m + 1]
      /\ \A n \in DOMAIN air : n = 1 \/ (n - 1 \in DOMAIN air' /\ air'[n - 1] = air[n])
  <2>1. air \in Seq(AFrame) /\ Len(air) \in Nat /\ Len(air) > 0 /\ DOMAIN air = 1 .. Len(air)
    BY <1>0, <1>1 DEF LinkTypes
  <2>2. /\ air' \in Seq(AFrame) /\ DOMAIN air' = 1 .. (Len(air) - 1) /\ Head(air) = air[1]
        /\ \A m \in 1 .. (Len(air) - 1) : air'[m] = air[m + 1]
    BY <1>1, <2>1
  <2>3. QED
    BY <2>1, <2>2
<1>5. \/ /\ Head(air).type \in {"COLLISION", "DIVERSION"} /\ UNCHANGED <<culprit, forgotten, frozen>>
         /\ clear_work' = AlertTime /\ reset_work' = reset_work /\ g_warning_active' = TRUE
         /\ panel' = (panel \/ Head(air).type = "COLLISION")
      \/ /\ Head(air).type = "CRASH" /\ culprit' = Head(air).pair /\ frozen' = FreezeTime
         /\ forgotten' = ~HasCrashed(Head(air).pair)
         /\ clear_work' = -1 /\ reset_work' \in Nat /\ g_warning_active' = TRUE /\ panel' = panel
  <2>1. CASE Head(air).type = "COLLISION" /\ Mobile!WriteAlert("collision") /\ UNCHANGED crashVars
    BY <2>1 DEF crashVars, Mobile!WriteAlert, Mobile!ShowAlert
  <2>2. CASE Head(air).type = "DIVERSION" /\ Mobile!WriteAlert("diversion") /\ UNCHANGED crashVars
    BY <2>2 DEF crashVars, Mobile!WriteAlert, Mobile!ShowAlert
  <2>3. CASE /\ Head(air).type = "CRASH" /\ Mobile!WriteCrash /\ culprit' = Head(air).pair
             /\ forgotten' = ~HasCrashed(Head(air).pair)
    <3>1. Mobile!ResetTime \subseteq Nat
      BY LinkAssumption DEF Mobile!ResetTime
    <3>2. /\ frozen' = FreezeTime /\ clear_work' = -1 /\ reset_work' \in Mobile!ResetTime
          /\ g_warning_active' = TRUE /\ panel' = panel
      BY <2>3 DEF Mobile!WriteCrash, Mobile!TriggerCrash, Mobile!Off
    <3>3. QED
      BY <2>3, <3>1, <3>2
  <2>4. QED
    BY <2>1, <2>2, <2>3 DEF Deliver
<1>6. LinkTypes'
  <2>1. clear_work' \in Int /\ reset_work' \in Int /\ frozen' \in 0 .. FreezeTime
    BY <1>0, <1>5, Times DEF LinkTypes
  <2>2. panel' \in BOOLEAN /\ g_warning_active' \in BOOLEAN /\ forgotten' \in BOOLEAN
    BY <1>0, <1>5 DEF LinkTypes, HasCrashed
  <2>3. QED
    BY <1>0, <1>1, <1>2, <1>4, <2>1, <2>2 DEF LinkTypes
<1>7. LockInv'
  <2>1. AirUnderLock'
    BY <1>0, <1>2, <1>4 DEF AirUnderLock
  <2>2. CulpritUnderLock'
    <3>1. CASE UNCHANGED <<culprit, forgotten, frozen>>
      BY <1>0, <1>2, <3>1 DEF CulpritUnderLock
    <3>2. CASE /\ Head(air).type = "CRASH" /\ culprit' = Head(air).pair /\ frozen' = FreezeTime
               /\ forgotten' = ~HasCrashed(Head(air).pair)
      <4> SUFFICES ASSUME HasCrashed(Head(air).pair)
                   PROVE  \E k \in DOMAIN s_tracked :
                            /\ s_tracked[k].pair = Head(air).pair /\ s_tracked[k].level = "CRASH"
                            /\ s_tracked[k].lock >= FreezeTime
        BY <1>2, <3>2 DEF CulpritUnderLock
      <4>1. PICK k \in DOMAIN s_tracked : s_tracked[k].pair = Head(air).pair /\ s_tracked[k].level = "CRASH"
        BY DEF HasCrashed, FindTracked
      <4>2. s_tracked[k].lock = CRASH_LOCK_MS
        BY <1>0, <1>4, <3>2, <4>1 DEF AirUnderLock
      <4>3. QED
        BY <4>1, <4>2, Times
    <3>3. QED
      BY <1>5, <3>1, <3>2
  <2>3. QED
    BY <2>1, <2>2 DEF LockInv
<1>8. AlertInv'
  <2>1. ASSUME NEW n \in 1 .. AlertTime, Alerted(n) PROVE Alerted(n)'
    <3>1. panel' /\ g_warning_active'
      BY <1>5, <2>1 DEF Alerted
    <3>2. clear_work' >= n \/ clear_work' = -1
      BY <1>5, Times
    <3>3. QED
      BY <3>1, <3>2 DEF Alerted, Mobile!Off
  <2>2. ASSUME Underway PROVE Underway' \/ \A n \in 1 .. AlertTime : Alerted(n)'
    <3>1. CASE Head(air).type = "COLLISION"
      <4>1. panel' /\ g_warning_active' /\ clear_work' = AlertTime
        BY <1>5, <3>1
      <4>2. QED
        BY <4>1, Times DEF Alerted
    <3>2. CASE Head(air).type # "COLLISION"
      BY <1>4, <2>2, <3>2 DEF Underway
    <3>3. QED
      BY <3>1, <3>2
  <2>3. QED
    BY <1>1, <2>1, <2>2, CockpitAlert
<1>9. QED
  BY <1>2, <1>3, <1>6, <1>7, <1>8 DEF LinkInv, ShellIdle

\* warning_clear_fn ends no alert that a calm conflict still needs; the display's own
\* timers do not touch it, and the pilot's reset at most cancels its end.
LEMMA ExpiryKeeps == ASSUME LinkInv, AlertExpires \/ OverlayExpires \/ PilotStep PROVE LinkInv'
<1>0. DetectorInv /\ LinkTypes
  BY DEF LinkInv
<1>1. UNCHANGED <<vars, radio, ready, air, ticked, calm, culprit, forgotten>>
  BY DEF AlertExpires, OverlayExpires, PilotStep, linkVars, histVars, crashVars
<1>2. UNCHANGED <<s_tracked, handler, todo, shell, damage>>
  BY <1>1 DEF vars, trackVars, tickVars, ghostVars
<1>3. DetectorInv'
  BY <1>0, <1>1, StepKeeps
<1>4. \/ /\ clear_work = 0 /\ clear_work' = -1 /\ g_warning_active' = FALSE /\ panel' = FALSE
         /\ UNCHANGED <<frozen, reset_work>>
      \/ /\ UNCHANGED <<reset_work, frozen, g_warning_active, panel>>
         /\ clear_work' = clear_work \/ clear_work' = -1
  BY DEF AlertExpires, OverlayExpires, PilotStep, Mobile!ClearFires, Mobile!WarnClear, Mobile!Off,
         Mobile!OverlayTimeout, Mobile!PilotReset, Mobile!PilotCancel, Mobile!timers, Mobile!pc
<1>5. LinkTypes'
  <2>1. clear_work' \in Int /\ reset_work' \in Int /\ frozen' \in 0 .. FreezeTime
    BY <1>0, <1>4 DEF LinkTypes
  <2>2. panel' \in BOOLEAN /\ g_warning_active' \in BOOLEAN
    BY <1>0, <1>4 DEF LinkTypes
  <2>3. QED
    BY <1>0, <1>1, <1>2, <2>1, <2>2 DEF LinkTypes
<1>6. LockInv'
  BY <1>1, <1>2, <1>4, LocksKept
<1>7. AlertInv'
  <2>1. ASSUME NEW n \in 1 .. AlertTime, Alerted(n) PROVE Alerted(n)'
    <3>1. clear_work # 0
      BY <2>1, Times DEF Alerted, Mobile!Off
    <3>2. QED
      BY <1>4, <2>1, <3>1 DEF Alerted, Mobile!Off
  <2>2. Underway => Underway'
    BY <1>1 DEF Underway
  <2>3. QED
    BY <1>1, <2>1, <2>2, CockpitAlert
<1>8. QED
  BY <1>2, <1>3, <1>5, <1>6, <1>7 DEF LinkInv, ShellIdle

-----------------------------------------------------------------------------
(* A unit of time passes *)

\* What it does to the rows: ages and locks.
LEMMA AgedFields ==
  ASSUME DetectorInv, Age, NEW k \in DOMAIN s_tracked
  PROVE  /\ DOMAIN s_tracked' = DOMAIN s_tracked
         /\ s_tracked'[k].pair = s_tracked[k].pair /\ s_tracked'[k].level = s_tracked[k].level
         /\ s_tracked'[k].since = IF s_tracked[k].since <= RESEND_MS THEN s_tracked[k].since + 1
                                  ELSE s_tracked[k].since
         /\ s_tracked'[k].lock = IF s_tracked[k].lock > 0 THEN s_tracked[k].lock - 1 ELSE 0
<1>1. DOMAIN s_tracked' = DOMAIN s_tracked /\ s_tracked'[k] = Aged(s_tracked[k])
  BY DEF Age
<1>2. s_tracked[k] \in Track
  BY RowFields
<1>3. QED
  BY <1>1, <1>2 DEF Aged, Track

\* What it does to the cockpit's works: an alert has one unit less to go.
LEMMA AlertedAges ==
  ASSUME LinkTypes, Mobile!Advance, NEW n \in Nat \ {0}, Alerted(n)
  PROVE  Alerted(n - 1)'
<1>1. /\ clear_work \in Int /\ reset_work \in Int /\ clear_work # 0 /\ reset_work # 0
      /\ clear_work' = IF clear_work > 0 THEN clear_work - 1 ELSE clear_work
      /\ reset_work' = IF reset_work > 0 THEN reset_work - 1 ELSE reset_work
      /\ g_warning_active' = g_warning_active /\ panel' = panel
  BY DEF LinkTypes, Mobile!Advance, Mobile!Due
<1>2. clear_work' >= n - 1 \/ clear_work' = -1
  BY <1>1 DEF Alerted, Mobile!Off
<1>3. QED
  BY <1>1, <1>2 DEF Alerted, Mobile!Off

\* A conflict that counts as calm afterwards was one before.
LEMMA CalmConflict ==
  ASSUME LinkInv, TimePasses, NEW a \in Other, calm'[a] > 0
  PROVE  /\ ready' /\ radio' /\ Sim \in db'
         /\ calm'[a] = IF calm[a] > Renewal THEN calm[a] ELSE calm[a] + 1
         /\ \E k \in DOMAIN s_tracked : Conflict(s_tracked[k], a)
         /\ \A k \in DOMAIN s_tracked : s_tracked[k].pair = PairKey(Sim, a) => Conflict(s_tracked[k], a)
<1>0. DetectorInv
  BY DEF LinkInv
<1>1. calm'[a] = IF ~Alertable(a) THEN 0 ELSE IF calm[a] > Renewal THEN calm[a] ELSE calm[a] + 1
  BY DEF TimePasses
<1>2. Alertable(a)
  BY <1>1
<1>3. PICK k \in Dangerous(a) : Unlocked(s_tracked[k])
  BY <1>2 DEF Alertable
<1>4. k \in DOMAIN s_tracked /\ Conflict(s_tracked[k], a)
  BY <1>3 DEF Dangerous, FindTracked, Conflict
<1>5. \A j \in DOMAIN s_tracked : s_tracked[j].pair = PairKey(Sim, a) => j = k
  BY <1>0, <1>4, OneRow DEF LinkInv, Distinct, Conflict
<1>6. ready' /\ radio' /\ Sim \in db'
  BY <1>2 DEF Alertable, TimePasses, linkVars, Age
<1>7. QED
  BY <1>1, <1>2, <1>4, <1>5, <1>6

LEMMA TimePassesKeeps == ASSUME LinkInv, TimePasses PROVE LinkInv'
<1>0. DetectorInv /\ LinkTypes /\ CulpritUnderLock /\ Renewed /\ Handled
  BY DEF LinkInv, LockInv, AlertInv
<1>1. ticked /\ ticked' = FALSE /\ air = <<>> /\ UNCHANGED <<radio, ready, air, culprit, forgotten>>
      /\ Age /\ Mobile!Advance
  BY DEF TimePasses, linkVars, crashVars
<1>2. DetectorInv' /\ handler = "idle" /\ handler' = "idle" /\ ShellIdle'
  BY <1>0, <1>1, AgeKeeps DEF Age, tickVars, ghostVars, ShellIdle, LinkInv
<1>3. /\ g_warning_active' = g_warning_active /\ panel' = panel
      /\ frozen' = IF frozen > 0 THEN frozen - 1 ELSE 0
  BY <1>1 DEF Mobile!Advance
<1>4. LinkTypes'
  <2>1. /\ air' \in Seq(AFrame) /\ radio' \in BOOLEAN /\ ready' \in BOOLEAN /\ ticked' \in BOOLEAN
        /\ forgotten' \in BOOLEAN
    BY <1>0, <1>1 DEF LinkTypes
  <2>2. calm' \in [Other -> Nat]
    BY <1>0 DEF LinkTypes, TimePasses
  <2>3. clear_work' \in Int /\ reset_work' \in Int /\ frozen' \in 0 .. FreezeTime
    BY <1>0, <1>1, <1>3, Times DEF LinkTypes, Mobile!Advance
  <2>4. panel' \in BOOLEAN /\ g_warning_active' \in BOOLEAN
    BY <1>0, <1>3 DEF LinkTypes
  <2>5. (ticked' => handler' = "idle") /\ (handler' = "sweep" => todo' = {})
    BY <1>2
  <2>6. QED
    BY <2>1, <2>2, <2>3, <2>4, <2>5 DEF LinkTypes
<1>5. LockInv'
  <2>1. AirUnderLock'
    BY <1>1 DEF AirUnderLock
  <2>2. CulpritUnderLock'
    <3> SUFFICES ASSUME frozen' > 0, ~forgotten
                 PROVE  \E k \in DOMAIN s_tracked' :
                          /\ s_tracked'[k].pair = culprit /\ s_tracked'[k].level = "CRASH"
                          /\ s_tracked'[k].lock >= frozen'
      BY <1>1 DEF CulpritUnderLock
    <3>1. frozen \in Nat /\ frozen > 0 /\ frozen' = frozen - 1
      BY <1>0, <1>3, Times DEF LinkTypes
    <3>2. PICK k \in DOMAIN s_tracked : /\ s_tracked[k].pair = culprit /\ s_tracked[k].level = "CRASH"
                                        /\ s_tracked[k].lock >= frozen
      BY <1>0, <3>1 DEF CulpritUnderLock
    <3>3. s_tracked[k].lock \in Nat
      BY <1>0, RowFields, Times
    <3>4. /\ k \in DOMAIN s_tracked' /\ s_tracked'[k].pair = culprit /\ s_tracked'[k].level = "CRASH"
          /\ s_tracked'[k].lock = s_tracked[k].lock - 1
      BY <1>0, <1>1, <3>1, <3>2, <3>3, AgedFields
    <3>5. QED
      BY <3>1, <3>2, <3>3, <3>4
  <2>3. QED
    BY <2>1, <2>2 DEF LockInv
<1>6. Undisturbed'
  <2> SUFFICES ASSUME NEW a \in Other, calm'[a] > 0
               PROVE  ready' /\ radio' /\ Sim \in db' /\ \E k \in DOMAIN s_tracked' : Conflict(s_tracked'[k], a)
    BY DEF Undisturbed, Conflict, Unlocked
  <2>1. PICK k \in DOMAIN s_tracked : Conflict(s_tracked[k], a)
    BY CalmConflict
  <2>2. s_tracked'[k].lock = 0
    BY <1>0, <1>1, <2>1, AgedFields DEF Conflict, Unlocked
  <2>3. k \in DOMAIN s_tracked' /\ Conflict(s_tracked'[k], a)
    BY <1>0, <1>1, <2>1, <2>2, AgedFields DEF Conflict, Unlocked
  <2>4. QED
    BY <2>3, CalmConflict
\* A calm conflict's row: its frame is one unit older, or the alert has one unit less to go.
<1>7. ASSUME NEW a \in Other, NEW k \in DOMAIN s_tracked, calm'[a] > 0, Conflict(s_tracked[k], a)
      PROVE  /\ s_tracked'[k].since \in 0 .. Renewal
             /\ s_tracked'[k].since >= calm'[a] \/ Alerted(AlertTime - s_tracked[k].since)'
  <2> DEFINE c == calm[a]
             since == s_tracked[k].since
  <2>1. c \in Nat /\ since \in 0 .. (RESEND_MS + 1)
    BY <1>0, RowFields DEF LinkTypes
  <2>2. /\ s_tracked'[k].since = IF since <= RESEND_MS THEN since + 1 ELSE since
        /\ calm'[a] = IF c > Renewal THEN c ELSE c + 1
    BY <1>0, <1>1, <1>7, AgedFields, CalmConflict
  <2>3. s_tracked'[k].since \in 0 .. Renewal
    BY <2>1, <2>2, Times DEF Renewal
  <2>4. CASE c = 0
    <3>1. calm'[a] = 1 /\ s_tracked'[k].since >= 1
      BY <2>1, <2>2, <2>4, Times DEF Renewal
    <3>2. QED
      BY <2>3, <3>1
  <2>5. CASE c > 0
    <3>1. since <= RESEND_MS
      BY <1>0, <1>1, <1>7, <2>5 DEF Handled, Passed
    <3>2. s_tracked'[k].since = since + 1
      BY <2>2, <3>1
    <3>3. since >= c \/ Alerted(AlertTime - since)
      <4>1. ~Underway
        BY <1>1 DEF Underway
      <4>2. QED
        BY <1>0, <1>7, <2>5, <4>1 DEF Renewed
    <3>4. CASE since >= c
      BY <2>1, <2>2, <2>3, <3>1, <3>2, <3>4, Times DEF Renewal
    <3>5. CASE Alerted(AlertTime - since)
      <4>1. PICK n \in Nat \ {0} : n = AlertTime - since
        BY <2>1, Times
      <4>2. Alerted(n)
        BY <3>5, <4>1 DEF Alerted
      <4>3. Alerted(n - 1)'
        BY <1>0, <1>1, <4>2, AlertedAges
      <4>4. n - 1 = AlertTime - s_tracked'[k].since
        BY <2>1, <3>2, <4>1, Times
      <4>5. QED
        BY <2>3, <4>3, <4>4 DEF Alerted
    <3>6. QED
      BY <3>3, <3>4, <3>5
  <2>6. QED
    BY <2>1, <2>4, <2>5
<1>8. Renewed'
  <2> SUFFICES ASSUME NEW a \in Other, NEW k \in DOMAIN s_tracked', calm'[a] > 0, Conflict(s_tracked'[k], a)
               PROVE  s_tracked'[k].since >= calm'[a] \/ Alerted(AlertTime - s_tracked[k].since)'
    BY DEF Renewed, Conflict, Unlocked
  <2>1. k \in DOMAIN s_tracked
    BY <1>1 DEF Age
  <2>2. s_tracked[k].pair = PairKey(Sim, a)
    BY <1>0, <1>1, <2>1, AgedFields DEF Conflict
  <2>3. QED
    BY <1>7, <2>1, <2>2, CalmConflict
<1>9. Handled'
  BY <1>1, <1>2 DEF Handled, Passed
<1>10. StillAlerted'
  <2> SUFFICES ASSUME NEW a \in Other, calm'[a] > Renewal PROVE Alerted(1)'
    BY DEF StillAlerted, Renewal
  <2>1. calm'[a] \in Nat /\ calm'[a] > 0 /\ Renewal \in Nat
    BY <1>4, Times DEF LinkTypes, Renewal
  <2>2. PICK k \in DOMAIN s_tracked : Conflict(s_tracked[k], a)
    BY <2>1, CalmConflict
  <2>3. s_tracked'[k].since \in 0 .. Renewal /\ Alerted(AlertTime - s_tracked[k].since)'
    BY <1>7, <2>1, <2>2
  <2>4. AlertTime - s_tracked'[k].since >= 1 /\ AlertTime - s_tracked'[k].since \in Int
    BY <2>3, Times DEF Renewal
  <2>5. clear_work' \in Int
    BY <1>4 DEF LinkTypes
  <2>6. QED
    BY <2>3, <2>4, <2>5 DEF Alerted
<1>11. QED
  BY <1>2, <1>4, <1>5, <1>6, <1>8, <1>9, <1>10 DEF LinkInv, AlertInv

-----------------------------------------------------------------------------
LEMMA LinkInitInv == LinkInit => LinkInv
<1> SUFFICES ASSUME LinkInit PROVE LinkInv
  OBVIOUS
<1>1. DetectorInv
  BY InitDetectorInv DEF LinkInit
<1>2. /\ air = <<>> /\ radio = FALSE /\ ready = FALSE /\ ticked = FALSE /\ calm = [a \in Other |-> 0]
      /\ frozen = 0 /\ clear_work = -1 /\ reset_work = -1 /\ panel = FALSE /\ g_warning_active = FALSE
      /\ handler = "idle" /\ forgotten = TRUE
  BY DEF LinkInit, Init, Mobile!Init, Mobile!Off, Calm0
<1>3. LinkTypes
  <2>1. air \in Seq(AFrame) /\ calm \in [Other -> Nat]
    BY <1>2
  <2>2. clear_work \in Int /\ reset_work \in Int /\ frozen \in 0 .. FreezeTime
    BY <1>2, Times
  <2>3. QED
    BY <1>2, <2>1, <2>2 DEF LinkTypes
<1>4. LockInv
  BY <1>2 DEF LockInv, AirUnderLock, CulpritUnderLock
<1>5. AlertInv
  BY <1>2, Times DEF AlertInv, Undisturbed, Renewed, Handled, StillAlerted, Renewal
<1>6. ShellIdle
  BY DEF LinkInit, Init, ShellIdle
<1>7. QED
  BY <1>1, <1>3, <1>4, <1>5, <1>6 DEF LinkInv

LEMMA LinkStepKeeps == ASSUME LinkInv, [LinkNext]_allVars PROVE LinkInv'
<1>1. CASE Sent
  BY <1>1, SentKeeps
<1>2. CASE Lost
  BY <1>2, LostKeeps
<1>3. CASE Traffic \/ Fade \/ CentralDisconnected \/ MobileDisconnected \/ Reconnected \/ Discovered
  BY <1>3, DisturbedKeeps
<1>4. CASE Deliver
  BY <1>4, DeliverKeeps
<1>5. CASE AlertExpires \/ OverlayExpires \/ PilotStep
  BY <1>5, ExpiryKeeps
<1>6. CASE Silenced
  BY <1>6, SilencedKeeps
<1>7. CASE TimePasses
  BY <1>7, TimePassesKeeps
<1>8. CASE UNCHANGED allVars
  <2>1. UNCHANGED <<vars, mobileVars, linkVars, ticked, histVars>>
    BY <1>8 DEF allVars
  <2>2. /\ UNCHANGED <<radio, ready, air, ticked, calm, culprit, forgotten>>
        /\ UNCHANGED <<frozen, clear_work, reset_work, g_warning_active, panel>>
        /\ UNCHANGED <<s_tracked, handler, todo, shell, damage>>
    BY <2>1 DEF mobileVars, linkVars, histVars, crashVars, vars, trackVars, tickVars, ghostVars
  <2>3. DetectorInv'
    BY <2>1, StepKeeps DEF LinkInv
  <2>4. LinkTypes'
    BY <2>2 DEF LinkInv, LinkTypes
  <2>5. LockInv'
    BY <2>2, LocksKept
  <2>6. AlertInv'
    <3>1. \A n \in 1 .. AlertTime : Alerted(n) => Alerted(n)'
      BY <2>2 DEF Alerted
    <3>2. Underway => Underway'
      BY <2>2 DEF Underway
    <3>3. QED
      BY <2>1, <2>2, <3>1, <3>2, CockpitAlert
  <2>7. QED
    BY <2>2, <2>3, <2>4, <2>5, <2>6 DEF LinkInv, ShellIdle
<1>9. QED
  BY <1>1, <1>2, <1>3, <1>4, <1>5, <1>6, <1>7, <1>8 DEF LinkNext

\* The invariant holds whatever is sent, lost, delivered or silenced, in any order of
\* work_handler, the link's callbacks and the sim's works (collision.c, codein.c).
THEOREM LinkInvariance == LinkSpec => []LinkInv
<1>1. LinkInit => LinkInv
  BY LinkInitInv
<1>2. LinkInv /\ [LinkNext]_allVars => LinkInv'
  BY LinkStepKeeps
<1>3. QED
  BY <1>1, <1>2, PTL DEF LinkSpec

\* work_handler's re-fire, 3 s and a tick after the last frame it counts as sent, is
\* always in time for the sim's 5 s warning_clear_work: once a conflict and the link
\* have lasted that long, the cockpit's alert does not lapse.
THEOREM AlertHolds == LinkSpec => []AlertUnbroken
<1>1. LinkInv => AlertUnbroken
  BY DEF LinkInv, AlertInv, StillAlerted, AlertUnbroken, Alerted
<1>2. QED
  BY <1>1, LinkInvariance, PTL

\* The only row of a pair is the one that the handler builds anew; a locked one it leaves.
LEMMA LockedSilent ==
  ASSUME LinkInv, LinkNext, frozen > 0, ~forgotten, culprit \in todo \ todo' PROVE out' = <<>>
<1>0. DetectorInv /\ LinkTypes
  BY DEF LinkInv
<1>1. PICK j \in DOMAIN s_tracked : s_tracked[j].pair = culprit /\ s_tracked[j].lock >= frozen
  BY DEF LinkInv, LockInv, CulpritUnderLock
<1>2. CASE Sent \/ Lost
  <2>1. HandlerStep
    BY <1>2 DEF Sent, Lost
  <2>2. ASSUME NEW q \in Pair, NEW lvl \in Judged, PairUntracked(q, lvl) PROVE FALSE
    <3>1. Classify(q) /\ FindTracked(q) = {}
      BY <2>2 DEF PairUntracked
    <3>2. q = culprit
      BY <3>1, Taken
    <3>3. QED
      BY <1>0, <1>1, <3>1, <3>2, TableFacts, FindFacts DEF PairsIn
  <2>3. ASSUME NEW q \in Pair, NEW lvl \in Judged, NEW d \in Suggested, PairTracked(q, lvl, d) PROVE FALSE
    <3>1. PICK old \in Row, c \in Diversion, k \in DOMAIN s_tracked' : RowBuilt(q, lvl, d, old, c, k)
      BY <1>0, <2>3, TrackedRow
    <3>2. q = culprit
      <4>1. Classify(q)
        BY <2>3 DEF PairTracked
      <4>2. QED
        BY <4>1, Taken
    <3>3. s_tracked'[k].pair = culprit
      BY <3>1, <3>2, GradedFields DEF RowBuilt
    <3>4. j = k
      BY <1>1, <2>1, <3>1, <3>3, HandlerKeeps DEF RowBuilt, Distinct
    <3>5. s_tracked[j].lock = 0
      BY <3>1, <3>4 DEF RowBuilt, Unlocked
    <3>6. QED
      BY <1>0, <1>1, <3>5, Times DEF LinkTypes
  <2>4. Tick
    BY <2>1 DEF HandlerStep
  <2>5. QED
    BY <2>2, <2>3, <2>4 DEF Tick, TickStart, SweepStart, SweepKeep, SweepDrop, TickEnd, PairClear, PairLocked
<1>3. CASE Traffic \/ TimePasses
  BY <1>3 DEF Traffic, Report, Vanish, TimePasses, Age
<1>4. CASE \/ Fade \/ CentralDisconnected \/ MobileDisconnected \/ Reconnected \/ Discovered
           \/ Deliver \/ AlertExpires \/ Silenced \/ PilotStep \/ OverlayExpires
  <2>1. UNCHANGED vars
    BY <1>4 DEF Fade, CentralDisconnected, MobileDisconnected, Reconnected, Discovered, Deliver, AlertExpires, Silenced,
                PilotStep, OverlayExpires
  <2>2. todo' = todo
    BY <2>1 DEF vars, tickVars
  <2>3. QED
    BY <2>2
<1>5. QED
  BY <1>2, <1>3, <1>4 DEF LinkNext

\* The SIM's g_frozen_until_ms (10 s) never outlasts crash_until_ms (15 s) of the row
\* that froze it, when the frame is received within a period of the tick that sent it:
\* work_handler sends nothing for that pair to a frozen SIM unless its sweep has dropped
\* the row, or the table had no room for it.
THEOREM FreezeCovered == LinkSpec => FrozenUnalerted
<1>1. LinkInv /\ [LinkNext]_allVars
        => [frozen > 0 /\ ~forgotten /\ culprit \in todo \ todo' => out' = <<>>]_allVars
  BY LockedSilent
<1>2. QED
  BY <1>1, LinkInvariance, PTL DEF LinkSpec, FrozenUnalerted

-----------------------------------------------------------------------------
(* The composition implements both of its parts *)

\* Calls are written by the pairs' steps alone, so none is left over when the tick ends.
Quiet == handler = "idle" => out = <<>>

LEMMA DetectorStep ==
  ASSUME Quiet, [LinkNext]_allVars PROVE [Next]_vars /\ Quiet'
<1>1. CASE Sent \/ Lost
  <2>1. Tick
    BY <1>1 DEF Sent, Lost, HandlerStep
  <2>2. handler' = "idle" => out' = <<>>
    BY <2>1 DEF Tick, TickStart, SweepStart, SweepKeep, SweepDrop, TickEnd, PairClear, PairLocked, PairTracked,
                PairUntracked, Classify
  <2>3. QED
    BY <2>1, <2>2 DEF Next, Quiet
<1>2. CASE Traffic
  <2>1. Environment /\ out' = <<>>
    BY <1>2 DEF Traffic, Environment, Report, Vanish
  <2>2. QED
    BY <2>1 DEF Next, Quiet
<1>3. CASE TimePasses
  <2>1. Age
    BY <1>3 DEF TimePasses
  <2>2. out' = <<>> /\ out = <<>> /\ UNCHANGED <<db, s_pair_diversion, tickVars, ghostVars, hostVars>>
    BY <2>1 DEF Age, Quiet
  <2>3. CASE <<s_tracked', beyond'>> = <<s_tracked, beyond>>
    BY <2>2, <2>3 DEF vars, trackVars, Quiet
  <2>4. CASE <<s_tracked', beyond'>> # <<s_tracked, beyond>>
    BY <2>1, <2>2, <2>4 DEF Advance, Environment, Next, Quiet
  <2>5. QED
    BY <2>3, <2>4
<1>4. CASE \/ Fade \/ CentralDisconnected \/ MobileDisconnected \/ Reconnected \/ Discovered
           \/ Deliver \/ AlertExpires \/ Silenced \/ PilotStep \/ OverlayExpires \/ UNCHANGED allVars
  <2>1. UNCHANGED vars
    BY <1>4 DEF Fade, CentralDisconnected, MobileDisconnected, Reconnected, Discovered, Deliver, AlertExpires, Silenced,
                PilotStep, OverlayExpires, allVars
  <2>2. UNCHANGED <<handler, out>>
    BY <2>1 DEF vars, tickVars
  <2>3. QED
    BY <2>1, <2>2 DEF Quiet
<1>5. QED
  BY <1>1, <1>2, <1>3, <1>4 DEF LinkNext

LEMMA MobileStep ==
  ASSUME [LinkNext]_allVars PROVE [Mobile!Next]_(Mobile!vars)
<1>1. CASE Sent \/ Lost \/ Traffic \/ Fade \/ CentralDisconnected \/ Discovered \/ UNCHANGED allVars
  <2>1. UNCHANGED mobileVars
    BY <1>1 DEF Sent, Lost, HandlerStep, Traffic, Fade, CentralDisconnected, Discovered, allVars
  <2>2. QED
    BY <2>1 DEF mobileVars, Mobile!vars, Mobile!flight, Mobile!timers, Mobile!pass, Mobile!pc
<1>2. CASE MobileDisconnected \/ Reconnected
  BY <1>2 DEF MobileDisconnected, Reconnected, Mobile!Next, Mobile!Base
<1>3. CASE Deliver
  <2>1. (\E kind \in Mobile!Kind : Mobile!WriteAlert(kind)) \/ Mobile!WriteCrash
    BY <1>3 DEF Deliver, Mobile!Kind
  <2>2. QED
    BY <2>1 DEF Mobile!Next, Mobile!Base
<1>4. CASE AlertExpires \/ Silenced \/ PilotStep \/ OverlayExpires \/ TimePasses
  BY <1>4 DEF AlertExpires, Silenced, PilotStep, OverlayExpires, TimePasses, Mobile!Next, Mobile!Work, Mobile!Pilot
<1>5. QED
  BY <1>1, <1>2, <1>3, <1>4 DEF LinkNext

\* Behind the link the detector is the one of Collision: work_handler's schedule and the
\* fate of its frames add no behaviour to it, so what is proved of Collision holds here.
THEOREM DetectorImplemented == LinkSpec => Spec
<1>1. LinkInit => Init /\ Quiet
  BY DEF LinkInit, Init, Quiet
<1>2. Quiet /\ [LinkNext]_allVars => [Next]_vars /\ Quiet'
  BY DetectorStep
<1>3. QED
  BY <1>1, <1>2, PTL DEF LinkSpec, Spec

\* At its other end the sim is the one of SimMobile: warn_write, the works and the
\* connection meet the detector's frames as they meet any others.
THEOREM MobileImplemented == LinkSpec => Mobile!Spec
<1>1. LinkInit => Mobile!Init
  BY DEF LinkInit
<1>2. [LinkNext]_allVars => [Mobile!Next]_(Mobile!vars)
  BY MobileStep
<1>3. QED
  BY <1>1, <1>2, PTL DEF LinkSpec, Mobile!Spec
=============================================================================
