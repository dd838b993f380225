-------------------------- MODULE Collision_proofs --------------------------
(***************************************************************************)
(* Proofs about the collision detector, for every set of aircraft, every   *)
(* size of the table, whatever the geometry decides and whatever the       *)
(* operator enters.                                                        *)
(*                                                                         *)
(* OneTrackPerPair and HostView need each other: a row may be dropped from *)
(* the host's picture only because no second row names its pair.  Both are *)
(* lost when a tick meets the shell inside tracked_remove.  That ticks     *)
(* restore them takes Marks: a row that the tick has marked, or that its   *)
(* sweep has passed, is the first of its pair, and after the tick that has *)
(* made the rows unique it is also on the host.  Shifted says how far the  *)
(* shell has come when no tick met it.                                     *)
(***************************************************************************)
EXTENDS Collision, SequenceTheorems, WellFoundedInduction, TLAPS

\* No row below k is of its pair.
FirstIn(s, k) == \A j \in 1 .. (k - 1) : s[j].pair # s[k].pair

Distinct(s) == \A j, k \in DOMAIN s : s[j].pair = s[k].pair => j = k

PairsIn(s) == {s[k].pair : k \in DOMAIN s}

\* The row of the sweep and the indices of the ghost restart, between their steps.
Cursors ==
  /\ handler = "sweep" => row <= Len(s_tracked)
  /\ shell = "drop" => index >= 1
  /\ IF shell = "shift"
     THEN 1 <= index /\ index <= at /\ at <= held /\ held <= Len(s_tracked) + Len(beyond)
     ELSE beyond = <<>>

\* There is a ghost only where the operator may start one.
GhostAllowed == shell # "idle" \/ keepalive \/ s_ghost_active => "ghost" \in Operator

\* The tick will leave row k in the table.
Settled(k) == k \in seen \/ (handler = "sweep" /\ k > row)

Marks ==
  handler # "idle" =>
    /\ shell = "shift" => damage = 2
    /\ \A k \in DOMAIN s_tracked : Settled(k) =>
         /\ FirstIn(s_tracked, k)
         /\ damage = 1 /\ Unlocked(s_tracked[k]) => s_tracked[k].pair \in host \ orphan

\* Only the row that the shell writes next may be double.
Shifted ==
  damage # 2 /\ shell = "shift" =>
    /\ beyond = <<>> /\ Len(s_tracked) = held
    /\ \A j, k \in DOMAIN s_tracked \ {at} : s_tracked[j].pair = s_tracked[k].pair => j = k

TableInv == Marks /\ Shifted /\ OneTrackPerPair /\ HostView

DetectorInv == TypeOK /\ Cursors /\ GhostAllowed /\ TableInv /\ GhostDriven

\* A row while a tick builds it.
Row == [pair : Pair, level : Level, diversion : Diversion \cup {""},
        since : 0 .. (RESEND_MS + 1), lock : 0 .. CRASH_LOCK_MS]

-----------------------------------------------------------------------------
(* The table's operators *)

LEMMA Numbers ==
  /\ RESEND_MS \in Nat /\ CRASH_LOCK_MS \in Nat \ {0} /\ MAX_TRACKED \in Nat \ {0}
  /\ Icao \subseteq Nat
  BY CollisionAssumption, Zenon

LEMMA NewTrackTyped == ASSUME NEW p \in Pair PROVE NewTrack(p) \in Row /\ NewTrack(p).pair = p
<1>1. RESEND_MS + 1 \in 0 .. (RESEND_MS + 1) /\ 0 \in 0 .. CRASH_LOCK_MS
  BY Numbers
<1>2. "CLEAR" \in Level /\ "" \in Diversion \cup {""}
  BY DEF Level
<1>3. QED
  BY <1>1, <1>2 DEF NewTrack, Row

LEMMA TrackIsRow == Track \subseteq Row
  BY DEF Track, Row

LEMMA GradedTyped ==
  ASSUME NEW t \in Row, NEW lvl \in Verdict, NEW d \in Diversion
  PROVE  Graded(t, lvl, d) \in Track /\ Graded(t, lvl, d).pair = t.pair
<1>1. lvl \in Level \ {"CLEAR"}
  BY CollisionAssumption DEF Level
<1>2. 0 \in 0 .. (RESEND_MS + 1) /\ CRASH_LOCK_MS \in 0 .. CRASH_LOCK_MS
  BY Numbers
<1>3. PICK div \in Diversion \cup {""}, since \in 0 .. (RESEND_MS + 1), lock \in 0 .. CRASH_LOCK_MS :
        Graded(t, lvl, d)
          = [t EXCEPT !.level = lvl, !.diversion = div, !.since = since, !.lock = lock]
  <2>1. t.diversion \in Diversion \cup {""} /\ t.since \in 0 .. (RESEND_MS + 1)
        /\ t.lock \in 0 .. CRASH_LOCK_MS
    BY DEF Row
  <2>2. QED
    BY <1>2, <2>1 DEF Graded
<1>4. QED
  BY <1>1, <1>3 DEF Track, Row

LEMMA AgedTyped == ASSUME NEW t \in Track PROVE Aged(t) \in Track /\ Aged(t).pair = t.pair
<1>1. t.since \in 0 .. (RESEND_MS + 1) /\ t.lock \in 0 .. CRASH_LOCK_MS
  BY DEF Track
<1>2. /\ (IF t.since <= RESEND_MS THEN t.since + 1 ELSE t.since) \in 0 .. (RESEND_MS + 1)
      /\ (IF t.lock > 0 THEN t.lock - 1 ELSE 0) \in 0 .. CRASH_LOCK_MS
  BY <1>1, Numbers
<1>3. QED
  BY <1>2 DEF Aged, Track

\* Row n of the shortened table was row n, or row n + 1 from the removed one on.
Before(n, k) == IF n < k THEN n ELSE n + 1

LEMMA RemoveFacts ==
  ASSUME NEW s \in Seq(Track), NEW k \in 1 .. Len(s)
  PROVE  /\ TrackedRemove(s, k) \in Seq(Track) /\ Len(TrackedRemove(s, k)) = Len(s) - 1
         /\ \A n \in 1 .. (Len(s) - 1) :
              /\ Before(n, k) \in 1 .. Len(s) /\ Before(n, k) # k
              /\ TrackedRemove(s, k)[n] = s[Before(n, k)]
              /\ FirstIn(s, Before(n, k)) => FirstIn(TrackedRemove(s, k), n)
         /\ PairsIn(s) \ {s[k].pair} \subseteq PairsIn(TrackedRemove(s, k))
         /\ Distinct(s) => /\ Distinct(TrackedRemove(s, k))
                           /\ PairsIn(TrackedRemove(s, k)) = PairsIn(s) \ {s[k].pair}
<1> DEFINE r == TrackedRemove(s, k)
<1>1. /\ Len(s) \in Nat /\ Len(s) > 0 /\ DOMAIN s = 1 .. Len(s)
      /\ \A j \in 1 .. Len(s) : s[j] \in Track
  OBVIOUS
<1>2. DOMAIN r = 1 .. (Len(s) - 1) /\ \A n \in 1 .. (Len(s) - 1) : r[n] = s[Before(n, k)]
  BY DEF TrackedRemove, Before
<1>3. r \in Seq(Track) /\ Len(r) = Len(s) - 1
  <2>1. r = [j \in 1 .. (Len(s) - 1) |-> r[j]] /\ Len(s) - 1 \in Nat
    BY <1>1 DEF TrackedRemove
  <2>2. \A j \in 1 .. (Len(s) - 1) : r[j] \in Track
    BY <1>1, <1>2 DEF Before
  <2> HIDE DEF r
  <2>3. QED
    BY <2>1, <2>2
<1> HIDE DEF r
<1>4. \A n \in 1 .. (Len(s) - 1) : Before(n, k) \in 1 .. Len(s) /\ Before(n, k) # k
  BY <1>1 DEF Before
<1>5. ASSUME NEW n \in 1 .. (Len(s) - 1), FirstIn(s, Before(n, k)) PROVE FirstIn(r, n)
  <2> SUFFICES ASSUME NEW j \in 1 .. (n - 1) PROVE r[j].pair # r[n].pair
    BY DEF FirstIn
  <2>1. /\ r[j] = s[Before(j, k)] /\ r[n] = s[Before(n, k)]
        /\ Before(j, k) \in 1 .. (Before(n, k) - 1)
    BY <1>1, <1>2 DEF Before
  <2>2. QED
    BY <1>5, <2>1 DEF FirstIn
<1>6. PairsIn(s) \ {s[k].pair} \subseteq PairsIn(r)
  <2> SUFFICES ASSUME NEW j \in 1 .. Len(s), s[j].pair # s[k].pair PROVE s[j].pair \in PairsIn(r)
    BY <1>1 DEF PairsIn
  <2>1. CASE j < k
    BY <1>1, <1>2, <2>1 DEF PairsIn, Before
  <2>2. CASE j > k
    <3>1. j - 1 \in DOMAIN r /\ r[j - 1] = s[j]
      BY <1>1, <1>2, <2>2 DEF Before
    <3>2. QED
      BY <3>1 DEF PairsIn
  <2>3. QED
    BY <1>1, <2>1, <2>2
<1>7. ASSUME Distinct(s) PROVE Distinct(r)
  <2> SUFFICES ASSUME NEW i \in DOMAIN r, NEW j \in DOMAIN r, r[i].pair = r[j].pair PROVE i = j
    BY DEF Distinct
  <2>1. Before(i, k) = Before(j, k)
    BY <1>1, <1>2, <1>4, <1>7 DEF Distinct
  <2>2. QED
    BY <1>1, <1>2, <2>1 DEF Before
<1>8. ASSUME Distinct(s) PROVE PairsIn(r) \subseteq PairsIn(s) \ {s[k].pair}
  BY <1>1, <1>2, <1>4, <1>8 DEF Distinct, PairsIn
<1>9. QED
  BY <1>2, <1>3, <1>4, <1>5, <1>6, <1>7, <1>8 DEF r

LEMMA AppendFacts ==
  ASSUME NEW s \in Seq(Track), NEW t \in Track, t.pair \notin PairsIn(s)
  PROVE  /\ Append(s, t) \in Seq(Track) /\ Len(Append(s, t)) = Len(s) + 1
         /\ Append(s, t)[Len(s) + 1] = t /\ FirstIn(Append(s, t), Len(s) + 1)
         /\ \A n \in 1 .. Len(s) : /\ Append(s, t)[n] = s[n]
                                   /\ FirstIn(s, n) => FirstIn(Append(s, t), n)
         /\ Distinct(s) => Distinct(Append(s, t))
         /\ PairsIn(Append(s, t)) = PairsIn(s) \cup {t.pair}
<1> DEFINE r == Append(s, t)
<1>1. Len(s) \in Nat /\ DOMAIN s = 1 .. Len(s)
  OBVIOUS
<1>2. /\ DOMAIN r = 1 .. (Len(s) + 1) /\ r[Len(s) + 1] = t
      /\ \A j \in 1 .. Len(s) : r[j] = s[j]
  OBVIOUS
<1>3. r \in Seq(Track) /\ Len(r) = Len(s) + 1
  OBVIOUS
<1> HIDE DEF r
<1>4. Distinct(s) => Distinct(r)
  BY <1>1, <1>2 DEF Distinct, PairsIn
<1>5. PairsIn(r) = PairsIn(s) \cup {t.pair}
  BY <1>1, <1>2 DEF PairsIn
<1>6. FirstIn(r, Len(s) + 1) /\ \A n \in 1 .. Len(s) : FirstIn(s, n) => FirstIn(r, n)
  BY <1>1, <1>2 DEF FirstIn, PairsIn
<1>7. QED
  BY <1>2, <1>3, <1>4, <1>5, <1>6 DEF r

\* Rows are replaced by rows of the same pairs.
LEMMA ReplaceFacts ==
  ASSUME NEW s \in Seq(Track), NEW r, DOMAIN r = DOMAIN s, r \in Seq(Track),
         \A k \in DOMAIN s : r[k].pair = s[k].pair
  PROVE  /\ Len(r) = Len(s) /\ PairsIn(r) = PairsIn(s)
         /\ Distinct(s) => Distinct(r)
         /\ \A k \in DOMAIN s : FirstIn(s, k) => FirstIn(r, k)
<1>1. Len(s) \in Nat /\ DOMAIN s = 1 .. Len(s) /\ Len(r) = Len(s)
  OBVIOUS
<1>2. PairsIn(r) = PairsIn(s) /\ (Distinct(s) => Distinct(r))
  BY DEF Distinct, PairsIn
<1>3. \A k \in DOMAIN s : FirstIn(s, k) => FirstIn(r, k)
  BY <1>1 DEF FirstIn
<1>4. QED
  BY <1>1, <1>2, <1>3

\* Every row of a sequence is the first of its pair.
LEMMA FirstsDistinct ==
  ASSUME NEW s \in Seq(Track), \A k \in DOMAIN s : FirstIn(s, k) PROVE Distinct(s)
<1> SUFFICES ASSUME NEW j \in DOMAIN s, NEW k \in DOMAIN s, s[j].pair = s[k].pair PROVE j = k
  BY DEF Distinct
<1>1. Len(s) \in Nat /\ DOMAIN s = 1 .. Len(s)
  OBVIOUS
<1>2. ~(j < k) /\ ~(k < j)
  BY <1>1 DEF FirstIn
<1>3. QED
  BY <1>1, <1>2

\* Every inhabited set of numbers has a least element.
LEMMA LeastNumber ==
  ASSUME NEW S \in SUBSET Nat, S # {} PROVE \E n \in S : \A m \in S : n <= m
<1> DEFINE Below == {q \in Nat \X Nat : q[1] < q[2]}
<1>1. IsWellFoundedOn(Below, Nat)
  BY NatLessThanWellFounded, Zenon DEF OpToRel
<1> HIDE DEF Below
<1>2. PICK n \in S : \A m \in S : <<m, n>> \notin Below
  BY <1>1, WFMin
<1>3. \A m \in S : ~(m < n)
  BY <1>2 DEF Below
<1>4. QED
  BY <1>3

\* A sequence's rows of the same pair have a first one.
LEMMA FirstExists ==
  ASSUME NEW s \in Seq(Track), NEW k \in DOMAIN s
  PROVE  \E n \in DOMAIN s : s[n].pair = s[k].pair /\ FirstIn(s, n)
<1> DEFINE S == {n \in 1 .. Len(s) : s[n].pair = s[k].pair}
<1>1. Len(s) \in Nat /\ DOMAIN s = 1 .. Len(s) /\ S \in SUBSET Nat /\ S # {}
  OBVIOUS
<1>2. PICK n \in S : \A m \in S : n <= m
  <2> HIDE DEF S
  <2>1. QED
    BY <1>1, LeastNumber
<1>3. n \in 1 .. Len(s) /\ s[n].pair = s[k].pair /\ \A j \in 1 .. (n - 1) : j \notin S
  BY <1>1, <1>2
<1>4. \A j \in 1 .. (n - 1) : s[j].pair # s[n].pair
  BY <1>1, <1>3
<1>5. QED
  BY <1>1, <1>3, <1>4 DEF FirstIn

\* find_tracked finds the first row of the pair.
LEMMA FindFacts ==
  ASSUME s_tracked \in Seq(Track), NEW p
  PROVE  /\ \A k \in FindTracked(p) :
              k \in 1 .. Len(s_tracked) /\ s_tracked[k].pair = p /\ FirstIn(s_tracked, k)
         /\ FindTracked(p) = {} => p \notin PairsIn(s_tracked)
<1>1. DOMAIN s_tracked = 1 .. Len(s_tracked) /\ Len(s_tracked) \in Nat
  OBVIOUS
<1>2. ASSUME NEW k \in DOMAIN s_tracked, s_tracked[k].pair = p PROVE FindTracked(p) # {}
  <2>1. PICK n \in DOMAIN s_tracked : s_tracked[n].pair = s_tracked[k].pair /\ FirstIn(s_tracked, n)
    BY FirstExists
  <2>2. n \in FindTracked(p)
    BY <1>2, <2>1 DEF FindTracked, FirstIn
  <2>3. QED
    BY <2>2
<1>3. QED
  BY <1>1, <1>2 DEF FindTracked, PairsIn, FirstIn

-----------------------------------------------------------------------------
(* The calls of a step *)

LEMMA PairSides == ASSUME NEW p \in Pair PROVE p[1] \in Icao /\ p[2] \in Icao /\ OtherSide(p) \in Icao
  BY DEF Pair, OtherSide

LEMMA CallTyped ==
  ASSUME NEW o \in Icao, NEW d \in Diversion
  PROVE  /\ [type |-> "DIVERSION", other |-> o, d |-> d] \in Call
         /\ [type |-> "COLLISION", other |-> o] \in Call
         /\ [type |-> "CRASH", other |-> o] \in Call
         /\ [type |-> "missile_cancel"] \in Call
  BY DEF Call

LEMMA OneCall == ASSUME NEW c \in Call PROVE <<c>> \in Seq(Call) /\ <<>> \in Seq(Call)
  OBVIOUS

LEMMA AlertTyped ==
  ASSUME NEW p \in Pair, NEW d \in Diversion, NEW lvl PROVE Alert(p, d, lvl) \in Seq(Call)
<1>1. /\ <<[type |-> "DIVERSION", other |-> OtherSide(p), d |-> d]>> \in Seq(Call)
      /\ <<[type |-> "COLLISION", other |-> OtherSide(p)]>> \in Seq(Call)
      /\ <<>> \in Seq(Call)
  BY PairSides, CallTyped, OneCall
<1>2. QED
  BY <1>1, ConcatProperties DEF Alert

LEMMA CrashCallsTyped == ASSUME NEW p \in Pair PROVE CrashCalls(p) \in Seq(Call)
<1> DEFINE o == IF HasSim(p) THEN OtherSide(p) ELSE p[1]
<1>1. o \in Icao /\ "LEFT" \in Diversion
  BY PairSides, CollisionAssumption
<1>2. [type |-> "CRASH", other |-> o] \in Call /\ [type |-> "missile_cancel"] \in Call
  BY <1>1, CallTyped
<1>3. /\ <<[type |-> "CRASH", other |-> o]>> \in Seq(Call)
      /\ <<[type |-> "missile_cancel"]>> \in Seq(Call) /\ <<>> \in Seq(Call)
  BY <1>2, OneCall
<1>4. QED
  BY <1>3, ConcatProperties DEF CrashCalls

-----------------------------------------------------------------------------
(* What the steps need of the invariant *)

LEMMA TableFacts ==
  ASSUME DetectorInv
  PROVE  /\ s_tracked \in Seq(Track) /\ beyond \in Seq(Track)
         /\ TrackedPairs = PairsIn(s_tracked)
         /\ Len(s_tracked) \in Nat /\ Len(s_tracked) <= MAX_TRACKED /\ Len(beyond) \in Nat
         /\ DOMAIN s_tracked = 1 .. Len(s_tracked) /\ DOMAIN beyond = 1 .. Len(beyond)
         /\ shell # "shift" /\ damage # 2 => Distinct(s_tracked)
<1>1. s_tracked \in Seq(Track) /\ beyond \in Seq(Track) /\ Len(s_tracked) <= MAX_TRACKED
  BY DEF DetectorInv, TypeOK
<1>2. QED
  BY <1>1 DEF DetectorInv, TableInv, OneTrackPerPair, Distinct, TrackedPairs, PairsIn

\* What the host shows, in terms of the pairs of the table.
LEMMA HostFacts ==
  ASSUME DetectorInv
  PROVE  /\ orphan \subseteq host /\ host \subseteq PairsIn(s_tracked) \cup orphan
         /\ damage = 0 => PairsIn(s_tracked) \subseteq host /\ PairsIn(s_tracked) \cap orphan = {}
  BY DEF DetectorInv, TableInv, HostView, TrackedPairs, PairsIn

\* A step that leaves the table and the host's picture alone.
LEMMA TableUntouched ==
  ASSUME DetectorInv,
         UNCHANGED <<s_tracked, beyond, host, orphan, handler, seen, row, damage, shell, at, held>>
  PROVE  TableInv'
  BY DEF DetectorInv, TableInv, Marks, Settled, Shifted, OneTrackPerPair, HostView, TrackedPairs,
         FirstIn, Unlocked

\* One that leaves it alone between the statements of the shell, outside tracked_remove.
LEMMA TableIdle ==
  ASSUME DetectorInv, handler' = "idle", shell # "shift", shell' # "shift",
         UNCHANGED <<s_tracked, host, orphan, damage>>
  PROVE  TableInv'
  BY DEF DetectorInv, TableInv, Marks, Shifted, OneTrackPerPair, HostView, TrackedPairs

\* A step that changes the table, in terms of the pairs in it.
LEMMA TableChanged ==
  ASSUME shell' # "shift" /\ damage' # 2 => Distinct(s_tracked'),
         orphan' \subseteq host', host' \subseteq PairsIn(s_tracked') \cup orphan',
         damage' = 0 => PairsIn(s_tracked') \subseteq host' /\ PairsIn(s_tracked') \cap orphan' = {}
  PROVE  OneTrackPerPair' /\ HostView'
  BY DEF Distinct, PairsIn, OneTrackPerPair, HostView, TrackedPairs

\* In a tick the shell is not in tracked_remove unless the damage is noted.
LEMMA TickFacts ==
  ASSUME DetectorInv, handler # "idle"
  PROVE  /\ damage # 2 => shell # "shift" /\ Distinct(s_tracked)
         /\ \A k \in DOMAIN s_tracked : Settled(k) =>
              /\ FirstIn(s_tracked, k)
              /\ damage = 1 /\ Unlocked(s_tracked[k]) => s_tracked[k].pair \in host \ orphan
  BY TableFacts DEF DetectorInv, TableInv, Marks

LEMMA InitDetectorInv == Init => DetectorInv
<1> SUFFICES ASSUME Init PROVE DetectorInv
  OBVIOUS
<1>1. /\ s_tracked \in Seq(Track) /\ Len(s_tracked) = 0 /\ DOMAIN s_tracked = {}
      /\ beyond \in Seq(Track) /\ out \in Seq(Call)
  BY DEF Init
<1>2. /\ Len(s_tracked) <= MAX_TRACKED /\ row \in 0 .. MAX_TRACKED /\ damage \in 0 .. 2
      /\ index \in 0 .. MAX_TRACKED /\ at \in 0 .. MAX_TRACKED /\ held \in 0 .. MAX_TRACKED
  BY <1>1, Numbers DEF Init
<1>3. s_pair_diversion \in [1 .. MAX_TRACKED -> Diversion]
  BY CollisionAssumption DEF Init
<1>4. TypeOK
  BY <1>1, <1>2, <1>3 DEF Init, TypeOK
<1>5. Cursors /\ GhostAllowed /\ GhostDriven
  BY DEF Init, Cursors, GhostAllowed, GhostDriven
<1>6. TableInv
  BY <1>1 DEF Init, TableInv, Marks, Shifted, OneTrackPerPair, HostView, TrackedPairs
<1>7. QED
  BY <1>4, <1>5, <1>6 DEF DetectorInv

-----------------------------------------------------------------------------
(* work_handler *)

LEMMA TickStartKeeps == ASSUME DetectorInv, TickStart PROVE DetectorInv'
<1> USE DEF TickStart, trackVars, ghostVars, hostVars
<1>1. damage' = damage \/ damage' = 2
  OBVIOUS
<1>2. TypeOK'
  <2>1. <<>> \in Seq(Call) /\ damage' \in 0 .. 2
    BY DEF DetectorInv, TypeOK
  <2>2. QED
    BY <2>1 DEF Snapshot, PairsOf, DetectorInv, TypeOK
<1>3. Cursors' /\ GhostAllowed' /\ GhostDriven'
  BY DEF DetectorInv, Cursors, GhostAllowed, GhostDriven
<1>4. Marks' /\ Shifted'
  BY DEF Marks, Settled, Shifted
<1>5. OneTrackPerPair' /\ HostView'
  BY <1>1 DEF DetectorInv, TableInv, OneTrackPerPair, HostView, TrackedPairs
<1>6. QED
  BY <1>2, <1>3, <1>4, <1>5 DEF DetectorInv, TableInv

LEMMA SweepStepKeeps == ASSUME DetectorInv, SweepStart \/ SweepKeep PROVE DetectorInv'
<1>1. /\ UNCHANGED <<db, s_snap, s_tracked, beyond, s_pair_diversion, todo, seen, damage,
                     s_ghost_active, keepalive, shell, index, at, held, host, orphan>>
      /\ out' = <<>> /\ handler' = "sweep" /\ handler # "idle"
      /\ \/ row' = Len(s_tracked)
         \/ row' = row - 1 /\ row > 0 /\ row \in seen /\ handler = "sweep"
  BY DEF SweepStart, SweepKeep, trackVars, ghostVars, hostVars
<1>2. row' \in 0 .. MAX_TRACKED /\ row' <= Len(s_tracked')
  BY <1>1, TableFacts, Numbers DEF DetectorInv, TypeOK, Cursors
<1>3. TypeOK'
  BY <1>1, <1>2 DEF DetectorInv, TypeOK
<1>4. Cursors' /\ GhostAllowed' /\ GhostDriven'
  BY <1>1, <1>2 DEF DetectorInv, Cursors, GhostAllowed, GhostDriven
<1>5. \A k \in DOMAIN s_tracked : Settled(k)' => Settled(k)
  BY <1>1, TableFacts DEF Settled, DetectorInv, TypeOK
<1>6. Marks'
  BY <1>1, <1>5, TableFacts DEF DetectorInv, TableInv, Marks, FirstIn, Unlocked
<1>7. Shifted' /\ OneTrackPerPair' /\ HostView'
  BY <1>1 DEF DetectorInv, TableInv, Shifted, OneTrackPerPair, HostView, TrackedPairs
<1>8. QED
  BY <1>3, <1>4, <1>6, <1>7 DEF DetectorInv, TableInv

\* The sweep has left only first rows, and the host knows those the tick marked.
LEMMA TickEndKeeps == ASSUME DetectorInv, TickEnd PROVE DetectorInv'
<1> USE DEF TickEnd, trackVars, ghostVars, hostVars
<1>1. damage \in 0 .. 2 /\ damage' \in 0 .. 2
  BY DEF DetectorInv, TypeOK
<1>2. TypeOK'
  BY <1>1 DEF DetectorInv, TypeOK
<1>3. Cursors' /\ GhostAllowed' /\ GhostDriven'
  BY DEF DetectorInv, Cursors, GhostAllowed, GhostDriven
<1>4. \A k \in DOMAIN s_tracked : Settled(k)
  BY TableFacts DEF Settled
<1>5. Distinct(s_tracked)
  BY <1>4, TickFacts, TableFacts, FirstsDistinct
<1>6. \/ PairsIn(s_tracked) \subseteq host /\ PairsIn(s_tracked) \cap orphan = {}
      \/ damage' # 0
  <2>1. CASE damage = 0
    BY <2>1, HostFacts
  <2>2. CASE damage = 1 /\ damage' = 0
    <3>1. \A k \in DOMAIN s_tracked : Unlocked(s_tracked[k])
      BY <2>2
    <3>2. QED
      BY <1>4, <2>2, <3>1, TickFacts DEF PairsIn
  <2>3. CASE damage = 2
    BY <2>3
  <2>4. QED
    BY <1>1, <2>1, <2>2, <2>3
<1>7. OneTrackPerPair' /\ HostView'
  <2>1. UNCHANGED <<s_tracked, host, orphan>>
    OBVIOUS
  <2>2. QED
    BY <1>5, <1>6, <2>1, HostFacts, TableChanged
<1>8. Marks' /\ Shifted'
  BY DEF Marks, Shifted
<1>9. QED
  BY <1>2, <1>3, <1>7, <1>8 DEF DetectorInv, TableInv

LEMMA SweepDropKeeps == ASSUME DetectorInv, SweepDrop PROVE DetectorInv'
<1> USE DEF SweepDrop, ghostVars
<1> DEFINE q == s_tracked[row].pair
<1>1. row \in 1 .. Len(s_tracked) /\ row - 1 \in 0 .. MAX_TRACKED
  BY TableFacts, Numbers DEF DetectorInv, TypeOK, Cursors
<1>2. /\ s_tracked' \in Seq(Track) /\ Len(s_tracked') = Len(s_tracked) - 1
      /\ \A n \in 1 .. (Len(s_tracked) - 1) :
           /\ Before(n, row) \in 1 .. Len(s_tracked) /\ Before(n, row) # row
           /\ s_tracked'[n] = s_tracked[Before(n, row)]
           /\ FirstIn(s_tracked, Before(n, row)) => FirstIn(s_tracked', n)
      /\ PairsIn(s_tracked) \ {q} \subseteq PairsIn(s_tracked')
      /\ Distinct(s_tracked) => Distinct(s_tracked') /\ PairsIn(s_tracked') = PairsIn(s_tracked) \ {q}
  <2>1. s_tracked' = TrackedRemove(s_tracked, row) /\ s_tracked \in Seq(Track)
    BY TableFacts
  <2> DEFINE r == TrackedRemove(s_tracked, row)
  <2>2. /\ r \in Seq(Track) /\ Len(r) = Len(s_tracked) - 1
        /\ \A n \in 1 .. (Len(s_tracked) - 1) :
             /\ Before(n, row) \in 1 .. Len(s_tracked) /\ Before(n, row) # row
             /\ r[n] = s_tracked[Before(n, row)]
             /\ FirstIn(s_tracked, Before(n, row)) => FirstIn(r, n)
        /\ PairsIn(s_tracked) \ {q} \subseteq PairsIn(r)
        /\ Distinct(s_tracked) => Distinct(r) /\ PairsIn(r) = PairsIn(s_tracked) \ {q}
    BY ONLY <1>1, <2>1, RemoveFacts, Zenon
  <2>3. s_tracked' = r
    BY <2>1
  <2> HIDE DEF r, q
  <2>4. QED
    BY ONLY <2>2, <2>3, Zenon
<1>3. host' = host \ {q} /\ orphan' = orphan \ {q}
  BY DEF EmitCollision
<1>4. handler # "idle" /\ handler' = handler /\ UNCHANGED <<shell, damage, index, at, held, seen>>
  OBVIOUS
<1>5. OneTrackPerPair' /\ HostView'
  <2>1. damage # 2 => shell # "shift" /\ Distinct(s_tracked)
    BY <1>4, TickFacts
  <2>2. orphan' \subseteq host' /\ host' \subseteq PairsIn(s_tracked') \cup orphan'
    BY <1>2, <1>3, HostFacts
  <2>3. damage' = 0 => PairsIn(s_tracked') \subseteq host' /\ PairsIn(s_tracked') \cap orphan' = {}
    BY <1>2, <1>3, <1>4, <2>1, HostFacts
  <2>4. shell' # "shift" /\ damage' # 2 => Distinct(s_tracked')
    BY <1>2, <1>4, <2>1
  <2>5. QED
    BY <2>2, <2>3, <2>4, TableChanged
<1>6. beyond' \in Seq(Track) /\ Len(beyond') = IF shell = "shift" THEN Len(beyond) + 1 ELSE 0
  <2>1. CASE shell = "shift"
    <3>1. beyond' = <<s_tracked[Len(s_tracked)]>> \o beyond /\ s_tracked[Len(s_tracked)] \in Track
      BY <1>1, <2>1, TableFacts DEF Vacated
    <3>2. QED
      BY <2>1, <3>1, TableFacts
  <2>2. CASE shell # "shift"
    BY <2>2 DEF Vacated
  <2>3. QED
    BY <2>1, <2>2
<1>7. TypeOK'
  <2>1. Len(s_tracked') <= MAX_TRACKED
    BY <1>2, TableFacts, Numbers
  <2>2. out' \in Seq(Call) /\ host' \subseteq Pair /\ orphan' \subseteq Pair
    BY <1>3 DEF DetectorInv, TypeOK
  <2>3. QED
    BY <1>1, <1>2, <1>6, <2>1, <2>2 DEF DetectorInv, TypeOK
<1>8. Cursors'
  <2>1. row' <= Len(s_tracked')
    BY <1>1, <1>2, TableFacts
  <2>2. CASE shell = "shift"
    <3>1. /\ 1 <= index /\ index <= at /\ at <= held /\ held <= Len(s_tracked) + Len(beyond)
          /\ held \in Nat
      BY <2>2, Numbers DEF DetectorInv, Cursors, TypeOK
    <3>2. Len(s_tracked') + Len(beyond') = Len(s_tracked) + Len(beyond)
      BY <1>2, <1>6, <2>2, TableFacts
    <3>3. QED
      BY <1>4, <2>1, <2>2, <3>1, <3>2 DEF Cursors
  <2>3. CASE shell # "shift"
    BY <1>4, <2>1, <2>3 DEF DetectorInv, Cursors, Vacated
  <2>4. QED
    BY <2>2, <2>3
<1>9. GhostAllowed' /\ GhostDriven'
  BY DEF DetectorInv, GhostAllowed, GhostDriven
<1>10. Marks'
  <2>1. shell' = "shift" => damage' = 2
    BY <1>4 DEF DetectorInv, TableInv, Marks
  <2>2. ASSUME NEW n \in DOMAIN s_tracked', Settled(n)'
        PROVE  /\ FirstIn(s_tracked', n)
               /\ damage' = 1 /\ Unlocked(s_tracked'[n]) => s_tracked'[n].pair \in host' \ orphan'
    <3>1. n \in 1 .. (Len(s_tracked) - 1)
      BY <1>2, TableFacts
    <3>2. Settled(Before(n, row))
      BY <1>1, <1>4, <2>2, <3>1, TableFacts DEF Settled, Before
    <3>3. Before(n, row) \in DOMAIN s_tracked /\ Before(n, row) # row
      BY <1>2, <3>1, TableFacts
    <3>4. FirstIn(s_tracked', n)
      BY <1>2, <1>4, <3>1, <3>2, <3>3, TickFacts
    <3>5. ASSUME damage = 1, Unlocked(s_tracked'[n]) PROVE s_tracked'[n].pair \in host' \ orphan'
      <4>1. s_tracked'[n] = s_tracked[Before(n, row)] /\ s_tracked'[n].pair \in host \ orphan
        BY <1>2, <1>4, <3>1, <3>2, <3>3, <3>5, TickFacts
      <4>2. s_tracked'[n].pair # q
        BY <1>1, <1>4, <3>3, <3>5, <4>1, TickFacts, TableFacts DEF Distinct
      <4>3. QED
        BY <1>3, <4>1, <4>2
    <3>6. QED
      BY <1>4, <3>4, <3>5
  <2>3. QED
    BY <2>1, <2>2 DEF Marks
<1>11. Shifted'
  BY <1>4, TickFacts DEF Shifted
<1>12. QED
  BY <1>5, <1>7, <1>8, <1>9, <1>10, <1>11 DEF DetectorInv, TableInv

\* Pairs that add no row and tell the host nothing.
LEMMA PairPassedKeeps ==
  ASSUME DetectorInv, NEW p \in Pair,
         PairClear(p) \/ PairLocked(p) \/ \E lvl \in Judged : PairUntracked(p, lvl)
  PROVE  DetectorInv'
<1> USE DEF trackVars, hostVars
<1>1. /\ Classify(p) /\ UNCHANGED <<s_tracked, beyond, s_pair_diversion, host, orphan>>
      /\ s_ghost_active' = TRUE => s_ghost_active
      /\ s_ghost_active' \in BOOLEAN
  BY DEF PairClear, PairLocked, PairUntracked, GhostAfterCrash, DetectorInv, TypeOK
<1>2. seen' = seen \/ \E k \in FindTracked(p) : ~Unlocked(s_tracked[k]) /\ seen' = seen \cup {k}
  BY DEF PairClear, PairLocked, PairUntracked, Unlocked
<1>3. \A k \in FindTracked(p) : k \in 1 .. MAX_TRACKED /\ FirstIn(s_tracked, k)
  <2>1. \A k \in FindTracked(p) : k \in 1 .. Len(s_tracked) /\ FirstIn(s_tracked, k)
    BY TableFacts, FindFacts
  <2>2. QED
    BY <2>1, TableFacts, Numbers
<1>4. out' \in Seq(Call)
  <2>1. <<>> \in Seq(Call) /\ CrashCalls(p) \in Seq(Call)
    BY CrashCallsTyped
  <2>2. QED
    BY <2>1 DEF PairClear, PairLocked, PairUntracked
<1>5. seen' \subseteq 1 .. MAX_TRACKED
  BY <1>2, <1>3 DEF DetectorInv, TypeOK
<1>6. TypeOK'
  BY <1>1, <1>4, <1>5 DEF Classify, DetectorInv, TypeOK
<1>7. Cursors' /\ GhostAllowed' /\ GhostDriven'
  BY <1>1 DEF Classify, DetectorInv, TypeOK, Cursors, GhostAllowed, GhostDriven
<1>8. /\ handler = "pairs" /\ handler' = "pairs" /\ UNCHANGED <<shell, damage, at, held, row>>
  BY <1>1 DEF Classify
<1>9. Marks'
  <2>1. shell' = "shift" => damage' = 2
    BY <1>8 DEF DetectorInv, TableInv, Marks
  <2>2. ASSUME NEW k \in DOMAIN s_tracked, Settled(k)'
        PROVE  /\ FirstIn(s_tracked, k)
               /\ damage = 1 /\ Unlocked(s_tracked[k]) => s_tracked[k].pair \in host \ orphan
    <3>1. k \in seen \/ (FirstIn(s_tracked, k) /\ ~Unlocked(s_tracked[k]))
      BY <1>2, <1>3, <1>8, <2>2 DEF Settled
    <3>2. QED
      BY <1>8, <3>1, TickFacts DEF Settled
  <2>3. QED
    BY <1>1, <1>8, <2>1, <2>2 DEF Marks, FirstIn, Unlocked
<1>10. Shifted' /\ OneTrackPerPair' /\ HostView'
  BY <1>1, <1>8 DEF DetectorInv, TableInv, Shifted, OneTrackPerPair, HostView, TrackedPairs
<1>11. QED
  BY <1>6, <1>7, <1>9, <1>10 DEF DetectorInv, TableInv

LEMMA PairTrackedKeeps ==
  ASSUME DetectorInv, NEW p \in Pair, NEW lvl \in Judged, NEW d \in Suggested, PairTracked(p, lvl, d)
  PROVE  DetectorInv'
<1> DEFINE known  == FindTracked(p)
           k      == IF known = {} THEN Len(s_tracked) + 1 ELSE CHOOSE j \in known : TRUE
           old    == IF known = {} THEN NewTrack(p) ELSE s_tracked[k]
           cached == IF Transition(old) /\ HasSim(p) THEN d ELSE s_pair_diversion[k]
<1>1. /\ Classify(p) /\ k <= MAX_TRACKED
      /\ s_tracked' = IF known = {} THEN Append(s_tracked, Graded(old, lvl, d))
                      ELSE [s_tracked EXCEPT ![k] = Graded(old, lvl, d)]
      /\ beyond' = IF known = {} /\ beyond # <<>> THEN Tail(beyond) ELSE beyond
      /\ s_pair_diversion' = [s_pair_diversion EXCEPT ![k] = cached]
      /\ seen' = seen \cup {k}
      /\ EmitCollision(p, lvl)
      /\ out' = (IF DueToSend(old) THEN Alert(p, cached, lvl) ELSE <<>>)
                \o (IF Crashes(old, lvl) THEN CrashCalls(p) ELSE <<>>)
      /\ GhostAfterCrash(p, Crashes(old, lvl))
  BY DEF PairTracked
<1>2. lvl \in Verdict /\ d \in Diversion /\ lvl # "CLEAR"
  BY CollisionAssumption DEF Judged, Suggested
<1>3. /\ known = {} => p \notin PairsIn(s_tracked)
      /\ known # {} => k \in 1 .. Len(s_tracked) /\ s_tracked[k].pair = p /\ FirstIn(s_tracked, k)
  BY TableFacts, FindFacts
<1>4. k \in 1 .. MAX_TRACKED
  BY <1>1, <1>3, TableFacts, Numbers
<1>5. old \in Row /\ old.pair = p
  <2>1. CASE known = {}
    BY <2>1, NewTrackTyped
  <2>2. CASE known # {}
    BY <1>3, <2>2, TableFacts, TrackIsRow
  <2>3. QED
    BY <2>1, <2>2
<1>6. Graded(old, lvl, d) \in Track /\ Graded(old, lvl, d).pair = p
  BY <1>2, <1>5, GradedTyped
<1>7. cached \in Diversion
  BY <1>2, <1>4 DEF DetectorInv, TypeOK
<1> DEFINE t == Graded(old, lvl, d)
<1> HIDE DEF k, old, cached, known, t
<1>8. /\ s_tracked' \in Seq(Track) /\ (Distinct(s_tracked) => Distinct(s_tracked'))
      /\ Len(s_tracked') <= MAX_TRACKED
      /\ PairsIn(s_tracked') = PairsIn(s_tracked) \cup {p}
      /\ Len(s_tracked') = IF known = {} THEN Len(s_tracked) + 1 ELSE Len(s_tracked)
      /\ k \in 1 .. Len(s_tracked') /\ s_tracked'[k].pair = p /\ FirstIn(s_tracked', k)
      /\ \A j \in 1 .. Len(s_tracked') : j # k =>
           /\ j \in 1 .. Len(s_tracked) /\ s_tracked'[j] = s_tracked[j]
           /\ FirstIn(s_tracked, j) => FirstIn(s_tracked', j)
  <2>1. CASE known = {}
    <3>1. s_tracked' = Append(s_tracked, t) /\ k = Len(s_tracked) + 1
      BY <1>1, <2>1 DEF k, t
    <3>2. t \in Track /\ t.pair \notin PairsIn(s_tracked) /\ t.pair = p /\ s_tracked \in Seq(Track)
      BY <1>3, <1>6, <2>1, TableFacts DEF t
    <3>3. /\ s_tracked' \in Seq(Track) /\ Len(s_tracked') = Len(s_tracked) + 1
          /\ s_tracked'[k] = t /\ FirstIn(s_tracked', k)
          /\ \A n \in 1 .. Len(s_tracked) : /\ s_tracked'[n] = s_tracked[n]
                                            /\ FirstIn(s_tracked, n) => FirstIn(s_tracked', n)
          /\ Distinct(s_tracked) => Distinct(s_tracked')
          /\ PairsIn(s_tracked') = PairsIn(s_tracked) \cup {p}
      BY ONLY <3>1, <3>2, AppendFacts
    <3>4. Len(s_tracked) \in Nat /\ \A j \in 1 .. Len(s_tracked') : j # k => j \in 1 .. Len(s_tracked)
      BY <3>1, <3>3, TableFacts
    <3>5. QED
      BY <1>4, <2>1, <3>1, <3>2, <3>3, <3>4, Numbers
  <2>2. CASE known # {}
    <3>1. s_tracked' = [s_tracked EXCEPT ![k] = t]
      BY <1>1, <2>2 DEF t
    <3>2. k \in 1 .. Len(s_tracked) /\ s_tracked[k].pair = p /\ t \in Track /\ t.pair = p
      BY <1>3, <1>6, <2>2 DEF t
    <3>3. s_tracked' \in Seq(Track) /\ DOMAIN s_tracked' = DOMAIN s_tracked
      BY <3>1, <3>2, TableFacts
    <3>4. /\ \A j \in DOMAIN s_tracked : s_tracked'[j].pair = s_tracked[j].pair
          /\ \A j \in DOMAIN s_tracked : j # k => s_tracked'[j] = s_tracked[j]
      BY <3>1, <3>2, TableFacts
    <3>5. /\ Len(s_tracked') = Len(s_tracked) /\ PairsIn(s_tracked') = PairsIn(s_tracked)
          /\ Distinct(s_tracked) => Distinct(s_tracked')
          /\ \A j \in DOMAIN s_tracked : FirstIn(s_tracked, j) => FirstIn(s_tracked', j)
      BY <3>3, <3>4, TableFacts, ReplaceFacts
    <3>6. p \in PairsIn(s_tracked)
      BY <3>2, TableFacts DEF PairsIn
    <3>7. FirstIn(s_tracked', k) /\ s_tracked'[k].pair = p
      BY <1>3, <2>2, <3>2, <3>4, <3>5, TableFacts
    <3>8. QED
      BY <2>2, <3>2, <3>3, <3>4, <3>5, <3>6, <3>7, TableFacts
  <2>3. QED
    BY <2>1, <2>2
<1>9. host' = host \cup {p} /\ orphan' = orphan \ {p}
  BY <1>1, <1>2 DEF EmitCollision
<1>10. OneTrackPerPair' /\ HostView'
  <2>1. UNCHANGED <<shell, damage>> /\ handler # "idle"
    BY <1>1 DEF Classify
  <2>2. shell' # "shift" /\ damage' # 2 => Distinct(s_tracked')
    BY <1>8, <2>1, TableFacts
  <2>3. /\ orphan' \subseteq host' /\ host' \subseteq PairsIn(s_tracked') \cup orphan'
        /\ damage' = 0 => PairsIn(s_tracked') \subseteq host' /\ PairsIn(s_tracked') \cap orphan' = {}
    BY <1>8, <1>9, <2>1, HostFacts
  <2>4. QED
    BY <2>2, <2>3, TableChanged
<1>11. out' \in Seq(Call)
  <2>1. Alert(p, cached, lvl) \in Seq(Call) /\ CrashCalls(p) \in Seq(Call) /\ <<>> \in Seq(Call)
    BY <1>7, AlertTyped, CrashCallsTyped
  <2>2. QED
    BY <1>1, <2>1, ConcatProperties
<1>12. s_ghost_active' \in BOOLEAN /\ (s_ghost_active' = TRUE => s_ghost_active)
  BY <1>1 DEF GhostAfterCrash, DetectorInv, TypeOK
<1>13. /\ beyond' \in Seq(Track) /\ (beyond = <<>> => beyond' = <<>>)
       /\ Len(beyond') \in Nat /\ Len(s_tracked') + Len(beyond') >= Len(s_tracked) + Len(beyond)
  <2>1. CASE known = {} /\ beyond # <<>>
    <3>1. beyond' = Tail(beyond)
      BY <1>1, <2>1
    <3>2. beyond' \in Seq(Track) /\ Len(beyond') = Len(beyond) - 1
      BY <2>1, <3>1, TableFacts
    <3>3. QED
      BY <1>8, <2>1, <3>2, TableFacts
  <2>2. CASE known # {} \/ beyond = <<>>
    <3>1. beyond' = beyond
      BY <1>1, <2>2
    <3>2. QED
      BY <1>8, <3>1, TableFacts
  <2>3. QED
    BY <2>1, <2>2
<1>14. TypeOK'
  <2>1. s_pair_diversion' \in [1 .. MAX_TRACKED -> Diversion]
    BY <1>1, <1>7 DEF DetectorInv, TypeOK
  <2>2. seen' \subseteq 1 .. MAX_TRACKED
    BY <1>1, <1>4 DEF DetectorInv, TypeOK
  <2>3. host' \subseteq Pair /\ orphan' \subseteq Pair
    BY <1>9 DEF DetectorInv, TypeOK
  <2>4. QED
    BY <1>1, <1>8, <1>11, <1>12, <1>13, <2>1, <2>2, <2>3 DEF Classify, DetectorInv, TypeOK
<1>15. /\ handler = "pairs" /\ handler' = "pairs"
       /\ UNCHANGED <<keepalive, shell, index, at, held, damage>>
  BY <1>1 DEF Classify
<1>16. Cursors'
  <2>1. held \in Nat
    BY Numbers DEF DetectorInv, TypeOK
  <2>2. QED
    BY <1>8, <1>13, <1>15, <2>1, TableFacts DEF DetectorInv, Cursors
<1>17. GhostAllowed' /\ GhostDriven'
  BY <1>12, <1>15 DEF DetectorInv, TypeOK, GhostAllowed, GhostDriven
<1>18. Marks'
  <2>1. shell' = "shift" => damage' = 2
    BY <1>15 DEF DetectorInv, TableInv, Marks
  <2>2. ASSUME NEW j \in DOMAIN s_tracked', Settled(j)'
        PROVE  /\ FirstIn(s_tracked', j)
               /\ damage' = 1 /\ Unlocked(s_tracked'[j]) => s_tracked'[j].pair \in host' \ orphan'
    <3>1. j \in 1 .. Len(s_tracked')
      BY <1>8
    <3>2. CASE j = k
      BY <1>8, <1>9, <3>2
    <3>3. CASE j # k
      <4>1. Settled(j) /\ j \in DOMAIN s_tracked /\ s_tracked'[j] = s_tracked[j]
        BY <1>1, <1>8, <1>15, <2>2, <3>1, <3>3, TableFacts DEF Settled
      <4>2. QED
        BY <1>8, <1>9, <1>15, <3>1, <3>3, <4>1, TickFacts
    <3>4. QED
      BY <3>2, <3>3
  <2>3. QED
    BY <2>1, <2>2 DEF Marks
<1>19. Shifted'
  BY <1>15, TickFacts DEF Shifted
<1>20. QED
  BY <1>10, <1>14, <1>16, <1>17, <1>18, <1>19 DEF DetectorInv, TableInv

-----------------------------------------------------------------------------
(* The ghost commands *)

\* Steps of the ghost that leave the table alone, outside tracked_remove.
LEMMA GhostStepKeeps ==
  ASSUME DetectorInv,
         GhostStart \/ GhostScan \/ GhostUpsert \/ GhostArm \/ GhostSchedule \/ GhostStop
  PROVE  DetectorInv'
<1> USE DEF GhostStart, GhostScan, GhostUpsert, GhostArm, GhostSchedule, GhostStop
<1>1. /\ UNCHANGED <<s_tracked, beyond, s_pair_diversion, host, orphan, s_snap, handler, todo, seen,
                     row, damage, at, held>>
      /\ out' = <<>> /\ handler = "idle"
  BY DEF ShellRuns, trackVars, hostVars, tickVars
<1>2. db' \subseteq Icao
  <2>1. "ghost" \in Operator => Ghost \in Icao
    BY CollisionAssumption
  <2>2. db' = db \/ ("ghost" \in Operator /\ db' = db \cup {Ghost})
    BY DEF DetectorInv, GhostAllowed
  <2>3. QED
    BY <2>1, <2>2 DEF DetectorInv, TypeOK
<1>3. index' \in 0 .. MAX_TRACKED /\ (shell' = "drop" => index' >= 1)
  <2>0. index \in 0 .. MAX_TRACKED /\ (shell = "drop" => index >= 1)
    BY DEF DetectorInv, TypeOK, Cursors
  <2>1. CASE GhostStart
    <3>1. (index' = Len(s_tracked) \/ index' = index) /\ shell' # "drop"
      BY <2>1
    <3>2. QED
      BY <2>0, <3>1, TableFacts, Numbers
  <2>2. CASE GhostScan
    <3>1. \/ index' = index /\ shell' # "drop"
          \/ index' = index /\ index \in DOMAIN s_tracked
          \/ index' = index - 1 /\ index > 0 /\ shell' # "drop"
      BY <2>2
    <3>2. QED
      BY <2>0, <3>1, TableFacts, Numbers
  <2>3. QED
    BY <2>0, <2>1, <2>2
<1>4. /\ shell \in {"idle", "scan", "upsert", "arm", "schedule"}
      /\ shell' \in {"idle", "scan", "drop", "upsert", "arm", "schedule"}
      /\ s_ghost_active' \in BOOLEAN /\ keepalive' \in BOOLEAN
  BY DEF DetectorInv, TypeOK
<1>5. TypeOK'
  BY <1>1, <1>2, <1>3, <1>4 DEF DetectorInv, TypeOK
<1>6. Cursors'
  BY <1>1, <1>3, <1>4 DEF DetectorInv, Cursors
<1>7. GhostAllowed' /\ GhostDriven'
  BY DEF DetectorInv, TypeOK, GhostAllowed, GhostDriven
<1>8. TableInv'
  BY <1>1, <1>4, TableIdle
<1>9. QED
  BY <1>5, <1>6, <1>7, <1>8 DEF DetectorInv

LEMMA KeepaliveKeeps == ASSUME DetectorInv, GhostKeepalive PROVE DetectorInv'
<1> USE DEF GhostKeepalive, trackVars, tickVars, hostVars
<1>1. db' \subseteq Icao
  <2>1. "ghost" \in Operator /\ Ghost \in Icao
    BY CollisionAssumption DEF DetectorInv, GhostAllowed
  <2>2. QED
    BY <2>1 DEF DetectorInv, TypeOK
<1>2. TypeOK'
  BY <1>1 DEF DetectorInv, TypeOK
<1>3. Cursors' /\ GhostAllowed' /\ GhostDriven'
  BY DEF DetectorInv, TypeOK, Cursors, GhostAllowed, GhostDriven
<1>4. QED
  BY <1>2, <1>3, TableUntouched DEF DetectorInv

-----------------------------------------------------------------------------
(* The shell's tracked_remove *)

LEMMA GhostDropKeeps == ASSUME DetectorInv, GhostDrop PROVE DetectorInv'
<1> USE DEF GhostDrop, ShellRuns, tickVars, trackVars, hostVars
<1>1. index \in 1 .. MAX_TRACKED /\ index - 1 \in 0 .. MAX_TRACKED /\ beyond = <<>>
  BY Numbers DEF DetectorInv, TypeOK, Cursors
<1>2. GhostAllowed' /\ GhostDriven'
  BY DEF DetectorInv, GhostAllowed, GhostDriven
<1>3. CASE index \notin DOMAIN s_tracked
  <2>1. TypeOK'
    BY <1>1, <1>3 DEF DetectorInv, TypeOK
  <2>2. Cursors'
    BY <1>1, <1>3 DEF DetectorInv, Cursors
  <2>3. QED
    BY <1>2, <1>3, <2>1, <2>2, TableIdle DEF DetectorInv
<1>4. CASE index \in DOMAIN s_tracked
  <2>1. /\ shell' = "shift" /\ at' = index /\ held' = Len(s_tracked)
        /\ UNCHANGED <<index, damage, beyond, s_tracked, handler, host, orphan>> /\ handler = "idle"
    BY <1>4
  <2>2. at' \in 0 .. MAX_TRACKED /\ held' \in 0 .. MAX_TRACKED
    BY <1>1, <2>1, TableFacts, Numbers
  <2>3. TypeOK'
    BY <1>4, <2>1, <2>2 DEF DetectorInv, TypeOK
  <2>4. Cursors'
    BY <1>1, <1>4, <2>1, TableFacts DEF Cursors
  <2>5. Marks' /\ OneTrackPerPair' /\ HostView'
    BY <2>1 DEF Marks, OneTrackPerPair, DetectorInv, TableInv, HostView, TrackedPairs
  <2>6. Shifted'
    BY <1>1, <2>1, TableFacts DEF Shifted, Distinct
  <2>7. QED
    BY <1>2, <2>3, <2>4, <2>5, <2>6 DEF DetectorInv, TableInv
<1>5. QED
  BY <1>3, <1>4

LEMMA MemoryFacts ==
  ASSUME DetectorInv
  PROVE  /\ \A k \in 1 .. (Len(s_tracked) + Len(beyond)) : Memory(k) \in Track
         /\ \A k \in DOMAIN s_tracked : Memory(k) = s_tracked[k]
  BY TableFacts DEF Memory

\* What a step of the shell loses becomes an orphan of the host's picture.
LEMMA OrphanFacts ==
  ASSUME DetectorInv, Orphaned, host' = host, damage' = damage,
         damage = 0 => PairsIn(s_tracked') \subseteq PairsIn(s_tracked)
  PROVE  /\ orphan' \subseteq host' /\ host' \subseteq PairsIn(s_tracked') \cup orphan'
         /\ damage' = 0 => PairsIn(s_tracked') \subseteq host' /\ PairsIn(s_tracked') \cap orphan' = {}
<1>1. orphan' = orphan \cup (host \cap (PairsIn(s_tracked) \ PairsIn(s_tracked')))
  BY DEF Orphaned, TrackedPairs, PairsIn
<1>2. QED
  BY <1>1, HostFacts

LEMMA ShiftCursors ==
  ASSUME DetectorInv, shell = "shift"
  PROVE  /\ index \in 1 .. MAX_TRACKED /\ at \in 1 .. MAX_TRACKED /\ held \in 1 .. MAX_TRACKED
         /\ index <= at /\ at <= held /\ held <= Len(s_tracked) + Len(beyond)
  BY Numbers DEF DetectorInv, TypeOK, Cursors

LEMMA GhostShiftKeeps == ASSUME DetectorInv, GhostShift PROVE DetectorInv'
<1> USE DEF GhostShift, ShellRuns, tickVars
<1> DEFINE t == Memory(at + 1)
<1>1. /\ index \in 1 .. MAX_TRACKED /\ at \in 1 .. MAX_TRACKED /\ held \in 1 .. MAX_TRACKED
      /\ index <= at /\ at < held /\ held <= Len(s_tracked) + Len(beyond)
  BY ShiftCursors
<1>2. t \in Track
  BY <1>1, MemoryFacts, TableFacts
<1>3. /\ s_tracked' = [k \in 1 .. Len(s_tracked) |-> IF k = at THEN t ELSE s_tracked[k]]
      /\ beyond' = [k \in 1 .. Len(beyond) |-> IF Len(s_tracked) + k = at THEN t ELSE beyond[k]]
  BY TableFacts
<1> HIDE DEF t
<1>4. s_tracked' \in Seq(Track) /\ Len(s_tracked') = Len(s_tracked)
  BY <1>2, <1>3, TableFacts
<1>5. beyond' \in Seq(Track) /\ Len(beyond') = Len(beyond)
  BY <1>2, <1>3, TableFacts
<1>6. DOMAIN s_tracked' = DOMAIN s_tracked
  BY <1>3, TableFacts
<1>7. ASSUME damage # 2
      PROVE  /\ beyond = <<>> /\ Len(s_tracked) = held /\ t = s_tracked[at + 1]
             /\ at + 1 \in DOMAIN s_tracked
             /\ \A j, k \in DOMAIN s_tracked \ {at} : s_tracked[j].pair = s_tracked[k].pair => j = k
  <2>1. /\ beyond = <<>> /\ Len(s_tracked) = held
        /\ \A j, k \in DOMAIN s_tracked \ {at} : s_tracked[j].pair = s_tracked[k].pair => j = k
    BY <1>7 DEF DetectorInv, TableInv, Shifted
  <2>2. at + 1 \in DOMAIN s_tracked
    BY <1>1, <2>1, TableFacts
  <2>3. QED
    BY <2>1, <2>2, MemoryFacts DEF t
<1>8. damage = 0 => PairsIn(s_tracked') \subseteq PairsIn(s_tracked)
  BY <1>3, <1>6, <1>7, TableFacts DEF PairsIn
<1>9. OneTrackPerPair' /\ HostView'
  BY <1>8, OrphanFacts, TableChanged
<1>10. Shifted'
  <2> SUFFICES ASSUME damage # 2
               PROVE  /\ beyond' = <<>> /\ Len(s_tracked') = held'
                      /\ \A j, k \in DOMAIN s_tracked' \ {at + 1} :
                           s_tracked'[j].pair = s_tracked'[k].pair => j = k
    BY DEF Shifted
  <2>1. beyond' = <<>> /\ Len(s_tracked') = held'
    BY <1>4, <1>5, <1>7
  <2>2. ASSUME NEW j \in DOMAIN s_tracked \ {at + 1}
        PROVE  \E m \in DOMAIN s_tracked \ {at} :
                 s_tracked'[j] = s_tracked[m] /\ m = IF j = at THEN at + 1 ELSE j
    BY <1>1, <1>3, <1>7, TableFacts
  <2>3. ASSUME NEW j \in DOMAIN s_tracked \ {at + 1}, NEW k \in DOMAIN s_tracked \ {at + 1},
               s_tracked'[j].pair = s_tracked'[k].pair
        PROVE  j = k
    <3>1. PICK m \in DOMAIN s_tracked \ {at} :
            s_tracked'[j] = s_tracked[m] /\ m = IF j = at THEN at + 1 ELSE j
      BY <2>2
    <3>2. PICK n \in DOMAIN s_tracked \ {at} :
            s_tracked'[k] = s_tracked[n] /\ n = IF k = at THEN at + 1 ELSE k
      BY <2>2
    <3>3. m = n
      BY <1>7, <2>3, <3>1, <3>2
    <3>4. QED
      BY <1>1, <3>1, <3>2, <3>3, TableFacts
  <2>4. QED
    BY <1>6, <2>1, <2>3
<1>11. TypeOK'
  <2>1. at' \in 0 .. MAX_TRACKED
    BY <1>1, Numbers
  <2>2. orphan' \subseteq Pair
    BY DEF Orphaned, DetectorInv, TypeOK
  <2>3. QED
    BY <1>4, <1>5, <2>1, <2>2 DEF DetectorInv, TypeOK
<1>12. Cursors'
  BY <1>1, <1>4, <1>5 DEF Cursors
<1>13. Marks' /\ GhostAllowed' /\ GhostDriven'
  BY DEF Marks, DetectorInv, GhostAllowed, GhostDriven
<1>14. QED
  BY <1>9, <1>10, <1>11, <1>12, <1>13 DEF DetectorInv, TableInv

LEMMA GhostCutKeeps == ASSUME DetectorInv, GhostCut PROVE DetectorInv'
<1> USE DEF GhostCut, ShellRuns, tickVars
<1>1. /\ index \in 1 .. MAX_TRACKED /\ held \in 1 .. MAX_TRACKED
      /\ at = held /\ held <= Len(s_tracked) + Len(beyond)
  BY ShiftCursors
<1>2. /\ s_tracked' = [k \in 1 .. (held - 1) |-> Memory(k)] /\ held - 1 \in Nat
      /\ \A k \in 1 .. (held - 1) : Memory(k) \in Track
  BY <1>1, MemoryFacts, TableFacts, Numbers
<1>3. s_tracked' \in Seq(Track) /\ Len(s_tracked') = held - 1 /\ DOMAIN s_tracked' = 1 .. (held - 1)
  BY <1>2
<1>4. ASSUME damage # 2
      PROVE  /\ \A k \in DOMAIN s_tracked' : k \in DOMAIN s_tracked \ {at} /\ s_tracked'[k] = s_tracked[k]
             /\ \A j, k \in DOMAIN s_tracked \ {at} : s_tracked[j].pair = s_tracked[k].pair => j = k
  <2>1. /\ Len(s_tracked) = held
        /\ \A j, k \in DOMAIN s_tracked \ {at} : s_tracked[j].pair = s_tracked[k].pair => j = k
    BY <1>4 DEF DetectorInv, TableInv, Shifted
  <2>2. ASSUME NEW k \in DOMAIN s_tracked' PROVE k \in DOMAIN s_tracked \ {at} /\ s_tracked'[k] = s_tracked[k]
    <3>1. k \in DOMAIN s_tracked \ {at} /\ k \in 1 .. (held - 1)
      BY <1>1, <1>3, <2>1, TableFacts
    <3>2. QED
      BY <1>2, <3>1, MemoryFacts
  <2>3. QED
    BY <2>1, <2>2
<1>5. damage # 2 => Distinct(s_tracked')
  BY <1>4 DEF Distinct
<1>6. damage = 0 => PairsIn(s_tracked') \subseteq PairsIn(s_tracked)
  BY <1>4 DEF PairsIn
<1>7. OneTrackPerPair' /\ HostView'
  BY <1>5, <1>6, OrphanFacts, TableChanged
<1>8. TypeOK'
  <2>1. /\ index' \in 0 .. MAX_TRACKED /\ at' \in 0 .. MAX_TRACKED /\ held' \in 0 .. MAX_TRACKED
        /\ Len(s_tracked') <= MAX_TRACKED
    BY <1>1, <1>3, Numbers
  <2>2. orphan' \subseteq Pair /\ beyond' \in Seq(Track)
    BY DEF Orphaned, DetectorInv, TypeOK
  <2>3. /\ UNCHANGED <<db, s_snap, s_pair_diversion, handler, todo, seen, row, damage, s_ghost_active,
                       keepalive, host>>
        /\ shell' = "scan" /\ out' = <<>>
    OBVIOUS
  <2>4. QED
    BY ONLY <1>3, <2>1, <2>2, <2>3, DetectorInv DEF DetectorInv, TypeOK
<1>9. Cursors' /\ Shifted' /\ Marks' /\ GhostAllowed' /\ GhostDriven'
  BY DEF Cursors, Shifted, Marks, DetectorInv, GhostAllowed, GhostDriven
<1>10. QED
  BY <1>7, <1>8, <1>9 DEF DetectorInv, TableInv

-----------------------------------------------------------------------------
(* The manual commands and the rest of the controller *)

LEMMA KeyTyped ==
  ASSUME NEW a \in Icao, NEW b \in Icao, a # b
  PROVE  PairKey(a, b) \in Pair /\ TriggerOther(a, b) \in Icao
<1>1. PairKey(a, b) \in Pair
  BY Numbers DEF PairKey, Pair
<1>2. PairKey(a, b)[1] \in Icao
  BY DEF PairKey
<1>3. QED
  BY <1>1, <1>2 DEF TriggerOther

LEMMA CrashTriggerKeeps ==
  ASSUME DetectorInv, NEW a \in Icao, NEW b \in Icao, CrashTrigger(a, b) PROVE DetectorInv'
<1> DEFINE q == PairKey(a, b)
<1>1. /\ UNCHANGED <<db, s_tracked, beyond, s_pair_diversion, s_snap, handler, todo, seen, row,
                     damage, s_ghost_active, keepalive, shell, index, at, held>>
      /\ handler = "idle" /\ shell = "idle"
      /\ host' = host \cup {q}
      /\ orphan' = IF q \in TrackedPairs THEN orphan ELSE orphan \cup {q}
      /\ out' = <<[type |-> "CRASH", other |-> TriggerOther(a, b)]>>
      /\ a # b
  BY DEF CrashTrigger, trackVars, tickVars, ghostVars
<1>2. q \in Pair /\ TriggerOther(a, b) \in Icao /\ "LEFT" \in Diversion
  BY <1>1, KeyTyped, CollisionAssumption
<1>3. out' \in Seq(Call)
  <2>1. [type |-> "CRASH", other |-> TriggerOther(a, b)] \in Call
    BY <1>2, CallTyped
  <2>2. QED
    BY <1>1, <2>1, OneCall
<1>4. TypeOK'
  BY <1>1, <1>2, <1>3 DEF DetectorInv, TypeOK
<1>5. Cursors' /\ GhostAllowed' /\ GhostDriven'
  BY <1>1 DEF DetectorInv, Cursors, GhostAllowed, GhostDriven
<1>6. Marks' /\ Shifted' /\ OneTrackPerPair'
  BY <1>1 DEF DetectorInv, TableInv, Marks, Shifted, OneTrackPerPair
<1>7. HostView'
  BY <1>1 DEF DetectorInv, TableInv, HostView, TrackedPairs
<1>8. QED
  BY <1>4, <1>5, <1>6, <1>7 DEF DetectorInv, TableInv

\* An aircraft comes or goes, or the operator sends a diversion.
LEMMA PictureKeeps ==
  ASSUME DetectorInv,
         \/ \E d \in Diversion : DiversionSend(d)
         \/ \E i \in Icao : Vanish(i) \/ Report(i)
  PROVE  DetectorInv'
<1>1. /\ UNCHANGED <<s_tracked, beyond, s_pair_diversion, s_snap, handler, todo, seen, row, damage,
                     s_ghost_active, keepalive, shell, index, at, held, host, orphan>>
      /\ db' \subseteq Icao
  BY DEF DiversionSend, Vanish, Report, trackVars, tickVars, ghostVars, hostVars, DetectorInv, TypeOK
<1>2. out' \in Seq(Call)
  <2>1. CASE \E d \in Diversion : DiversionSend(d)
    <3>1. PICK d \in Diversion : out' = <<[type |-> "DIVERSION", other |-> Sim, d |-> d]>>
      BY <2>1 DEF DiversionSend
    <3>2. [type |-> "DIVERSION", other |-> Sim, d |-> d] \in Call
      BY CollisionAssumption, CallTyped
    <3>3. QED
      BY <3>1, <3>2, OneCall
  <2>2. CASE \E i \in Icao : Vanish(i) \/ Report(i)
    <3>1. out' = <<>>
      BY <2>2 DEF Vanish, Report
    <3>2. QED
      BY <3>1
  <2>3. QED
    BY <2>1, <2>2
<1>3. TypeOK'
  BY <1>1, <1>2 DEF DetectorInv, TypeOK
<1>4. Cursors' /\ GhostAllowed' /\ GhostDriven'
  BY <1>1 DEF DetectorInv, Cursors, GhostAllowed, GhostDriven
<1>5. QED
  BY <1>1, <1>3, <1>4, TableUntouched DEF DetectorInv

\* Time leaves every row with its pair.
LEMMA AgedRows ==
  ASSUME NEW s \in Seq(Track), NEW r, r = [k \in DOMAIN s |-> Aged(s[k])]
  PROVE  /\ r \in Seq(Track) /\ Len(r) = Len(s) /\ DOMAIN r = DOMAIN s
         /\ \A k \in DOMAIN s : r[k].pair = s[k].pair
<1>1. \A k \in DOMAIN s : Aged(s[k]) \in Track /\ Aged(s[k]).pair = s[k].pair
  BY AgedTyped
<1>2. r = [k \in 1 .. Len(s) |-> r[k]] /\ Len(s) \in Nat /\ DOMAIN s = 1 .. Len(s)
  OBVIOUS
<1>3. \A k \in 1 .. Len(s) : r[k] \in Track /\ r[k].pair = s[k].pair
  BY <1>1, <1>2
<1>4. QED
  BY <1>2, <1>3

LEMMA AgeKeeps == ASSUME DetectorInv, Age PROVE DetectorInv'
<1>1. /\ UNCHANGED <<db, s_pair_diversion, s_snap, handler, todo, seen, row, damage,
                     s_ghost_active, keepalive, shell, index, at, held, host, orphan>>
      /\ s_tracked' = [k \in DOMAIN s_tracked |-> Aged(s_tracked[k])]
      /\ beyond' = [k \in DOMAIN beyond |-> Aged(beyond[k])]
      /\ out' \in Seq(Call) /\ handler = "idle"
  BY DEF Age, tickVars, ghostVars, hostVars
<1>2. /\ s_tracked' \in Seq(Track) /\ Len(s_tracked') = Len(s_tracked)
      /\ DOMAIN s_tracked' = DOMAIN s_tracked
      /\ \A k \in DOMAIN s_tracked : s_tracked'[k].pair = s_tracked[k].pair
  BY <1>1, TableFacts, AgedRows
<1>3. beyond' \in Seq(Track) /\ Len(beyond') = Len(beyond) /\ (beyond = <<>> => beyond' = <<>>)
  <2>1. beyond' \in Seq(Track) /\ Len(beyond') = Len(beyond)
    BY <1>1, TableFacts, AgedRows
  <2>2. QED
    BY <2>1
<1>4. (Distinct(s_tracked) => Distinct(s_tracked')) /\ PairsIn(s_tracked') = PairsIn(s_tracked)
  BY <1>2, TableFacts, ReplaceFacts
<1>5. OneTrackPerPair' /\ HostView'
  <2>1. shell' # "shift" /\ damage' # 2 => Distinct(s_tracked')
    BY <1>1, <1>4, TableFacts
  <2>2. /\ orphan' \subseteq host' /\ host' \subseteq PairsIn(s_tracked') \cup orphan'
        /\ damage' = 0 => PairsIn(s_tracked') \subseteq host' /\ PairsIn(s_tracked') \cap orphan' = {}
    BY <1>1, <1>4, HostFacts
  <2>3. QED
    BY <2>1, <2>2, TableChanged
<1>6. Marks' /\ Shifted'
  BY <1>1, <1>2, <1>3 DEF Marks, Shifted, DetectorInv, TableInv
<1>7. TypeOK'
  BY <1>1, <1>2, <1>3 DEF DetectorInv, TypeOK
<1>8. Cursors' /\ GhostAllowed' /\ GhostDriven'
  BY <1>1, <1>2, <1>3 DEF DetectorInv, Cursors, GhostAllowed, GhostDriven
<1>9. QED
  BY <1>5, <1>6, <1>7, <1>8 DEF DetectorInv, TableInv

-----------------------------------------------------------------------------
LEMMA StepKeeps == ASSUME DetectorInv, [Next]_vars PROVE DetectorInv'
<1>1. CASE Tick
  <2>1. CASE TickStart \/ SweepStart \/ SweepKeep \/ TickEnd
    BY <2>1, TickStartKeeps, SweepStepKeeps, TickEndKeeps
  <2>2. CASE SweepDrop
    BY <2>2, SweepDropKeeps
  <2>3. ASSUME NEW p \in Pair, PairClear(p) \/ PairLocked(p) \/ \E lvl \in Judged : PairUntracked(p, lvl)
        PROVE  DetectorInv'
    BY <2>3, PairPassedKeeps
  <2>4. ASSUME NEW p \in Pair, NEW lvl \in Judged, NEW d \in Suggested, PairTracked(p, lvl, d)
        PROVE  DetectorInv'
    BY <2>4, PairTrackedKeeps
  <2>5. QED
    BY <1>1, <2>1, <2>2, <2>3, <2>4 DEF Tick
<1>2. CASE GhostCommand \/ GhostKeepalive
  BY <1>2, GhostStepKeeps, KeepaliveKeeps, GhostDropKeeps, GhostShiftKeeps, GhostCutKeeps
     DEF GhostCommand
<1>3. CASE ManualCommand
  BY <1>3, CrashTriggerKeeps, PictureKeeps DEF ManualCommand
<1>4. CASE Environment
  BY <1>4, PictureKeeps, AgeKeeps DEF Environment, Advance
<1>5. CASE UNCHANGED vars
  <2>1. TypeOK' /\ Cursors' /\ GhostAllowed' /\ GhostDriven'
    BY <1>5 DEF vars, trackVars, tickVars, ghostVars, hostVars, DetectorInv, TypeOK, Cursors,
       GhostAllowed, GhostDriven
  <2>2. TableInv'
    BY <1>5, TableUntouched DEF vars, trackVars, tickVars, ghostVars, hostVars
  <2>3. QED
    BY <2>1, <2>2 DEF DetectorInv
<1>6. QED
  BY <1>1, <1>2, <1>3, <1>4, <1>5 DEF Next

\* The detector's table, its cursors and the host's picture stay consistent through
\* every interleaving of the tick, the shell commands and the database.
THEOREM Invariance == Spec => []DetectorInv
<1>1. Init => DetectorInv
  BY InitDetectorInv
<1>2. DetectorInv /\ [Next]_vars => DetectorInv'
  BY StepKeeps
<1>3. QED
  BY <1>1, <1>2, PTL DEF Spec

\* No index of work_handler, tracked_remove or a ghost restart leaves the table, and
\* every frame names an aircraft.
THEOREM TypeCorrect == Spec => []TypeOK
<1>1. DetectorInv => TypeOK
  BY DEF DetectorInv, TableInv
<1>2. QED
  BY <1>1, Invariance, PTL

\* find_tracked's row is the pair's only row, so a pair alerts and clears once,
\* whatever the sweep and collision_ghost_start remove in between.  Excepted are the time
\* the shell is inside tracked_remove and, if a tick meets it there, the time until the
\* end of the next tick that does not.
THEOREM PairsUnique == Spec => []OneTrackPerPair
<1>1. DetectorInv => OneTrackPerPair
  BY DEF DetectorInv, TableInv
<1>2. QED
  BY <1>1, Invariance, PTL

\* Through emit_collision the host shows no alert but those of the table and those that
\* a ghost restart or collision_crash_trigger left without a row; and it shows all of the
\* table, except from a tick that meets the shell inside tracked_remove until the second
\* tick after it ends with no row locked.
THEOREM HostFollows == Spec => []HostView
<1>1. DetectorInv => HostView
  BY DEF DetectorInv, TableInv
<1>2. QED
  BY <1>1, Invariance, PTL

\* An active ghost always has ghost_keepalive_handler scheduled.
THEOREM GhostKeptAlive == Spec => []GhostDriven
<1>1. DetectorInv => GhostDriven
  BY DEF DetectorInv, TableInv
<1>2. QED
  BY <1>1, Invariance, PTL
=============================================================================
